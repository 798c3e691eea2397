-------------------------------- MODULE Maps --------------------------------
(***************************************************************************)
(* What arrays, tables and objects of DATA() promise: each is a map from   *)
(* subscripts, keys or fields to values, where what was never assigned is  *)
(* null.  An assignment first says which element, then evaluates its right *)
(* side, and then changes that element and no other; assignments wait for  *)
(* one another as their right sides are nested.                            *)
(***************************************************************************)
EXTENDS Naturals, Sequences

CONSTANT Null

VARIABLES maps,  \* of every object, the elements that are not null
          held   \* the elements that assignments in progress are to change

\* The program starts with any objects.
Init == DOMAIN maps = 1 .. Len(maps) /\ held = <<>>

\* A new object, whatever it is made from.
New == /\ Len(maps') = Len(maps) + 1
       /\ SubSeq(maps', 1, Len(maps)) = maps
       /\ UNCHANGED held

Hold == /\ Len(held') = Len(held) + 1
        /\ SubSeq(held', 1, Len(held)) = held
        /\ UNCHANGED maps

Last == held[Len(held)]
With(m, key, v) ==
    [k \in IF v = Null THEN DOMAIN m \ {key} ELSE DOMAIN m \cup {key} |->
        IF k = key THEN v ELSE m[k]]

Store(v) ==
    /\ held # <<>>
    /\ held' = SubSeq(held, 1, Len(held) - 1)
    /\ DOMAIN maps' = DOMAIN maps
    /\ \A o \in DOMAIN maps :
         maps'[o] = IF o = Last.obj THEN With(maps[o], Last.key, v) ELSE maps[o]

\* The value that the element has after the step.
Stored == IF held # <<>> /\ Last.key \in DOMAIN maps'[Last.obj]
          THEN maps'[Last.obj][Last.key] ELSE Null

\* A failure gives up all assignments in progress.
Fail == held' = <<>> /\ UNCHANGED maps

Next == New \/ Hold \/ Store(Stored) \/ Fail

Spec == Init /\ [][Next]_<<maps, held>>
=============================================================================
