------------------------------- MODULE Scopes -------------------------------
(***************************************************************************)
(* What a call of a programmer-defined function promises about variables.  *)
(* SNOBOL4 binds dynamically: a call gives new values to the function's    *)
(* name, its arguments and its locals, and its return gives each of them   *)
(* the value it had at the call, whatever happened in between, nested      *)
(* calls and a redefinition of the function included.                      *)
(***************************************************************************)
EXTENDS Naturals, Sequences

CONSTANTS Names,   \* the natural variables
          Values   \* what a variable holds

VARIABLES value,   \* the value of every variable
          scopes   \* for every call in progress, what its return gives back

Init == /\ value \in [Names -> Values]
        /\ scopes = <<>>

\* Assignments; and a call that fails with its names already bound.
Assign == /\ value' \in [Names -> Values]
          /\ UNCHANGED scopes

\* A call binds the names N anew, and keeps the values they had.
Enter == \E N \in SUBSET Names :
            /\ value' \in [Names -> Values]
            /\ \A v \in Names \ N : value'[v] = value[v]
            /\ scopes' = Append(scopes, [v \in N |-> value[v]])

\* A return gives the names of the newest call in progress their values back,
\* and changes no other variable.
Leave == /\ scopes # <<>>
         /\ LET kept == scopes[Len(scopes)]
            IN  value' = [v \in Names |-> IF v \in DOMAIN kept THEN kept[v]
                                         ELSE value[v]]
         /\ scopes' = SubSeq(scopes, 1, Len(scopes) - 1)

Next == Assign \/ Enter \/ Leave

Spec == Init /\ [][Next]_<<value, scopes>>
=============================================================================
