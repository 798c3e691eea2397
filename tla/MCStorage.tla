----------------------------- MODULE MCStorage -----------------------------
(* Small instances of Storage for TLC: the strings 1 = "B", 2 = "b",       *)
(* 3 = "bb", 4 = "Bb", 5 = "bbb"; a descriptor holds one character.         *)
EXTENDS Storage, TLC

MCLength == [s \in Strs |-> IF s = 5 THEN 3 ELSE IF s > 2 THEN 2 ELSE 1]
MCPart == 3 :> 2 @@ 4 :> 1 @@ 5 :> 3
MCTwice == IF 3 \in Strs THEN 2 :> 3 ELSE [s \in {} |-> s]
MCUpper == 2 :> 1
MCRaised == 3 :> 4
NoneRaised == [s \in {} |-> s]
=============================================================================
