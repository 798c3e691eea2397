----------------------------- MODULE FindUnit ------------------------------
(***************************************************************************)
(* io_findunit (lib/io.c): the search for a unit a module may attach a     *)
(* stream to.  The static `finger' remembers where the last search ended,  *)
(* and goes down; a search that starts in the middle goes round once.      *)
(* Between calls the program attaches and closes units as it likes: a unit *)
(* handed out is not reserved.                                             *)
(***************************************************************************)
EXTENDS Integers

CONSTANTS MINFIND, \* the lowest unit io_findunit returns (20)
          MAXFIND  \* the highest unit there is (NUNITS, 256)

ASSUME RangeAssumption ==
  MINFIND \in Nat \ {0} /\ MAXFIND \in Nat /\ MINFIND <= MAXFIND

VARIABLES
  used,   \* the units with a file (up->curr or up->head)
  finger,
  pc,     \* "idle", "top" of the for loop, "while": in the while loop
  start,  \* where this turn of the for loop started
  ret     \* what io_findunit returned last

findvars == <<used, finger, pc, start, ret>>

Found == MINFIND..MAXFIND

FindInit ==
  /\ used \in SUBSET Found
  /\ finger = 0
  /\ pc = "idle" /\ start = MAXFIND /\ ret = -1

(* Any other operation on units.                                           *)
Attach ==
  /\ pc = "idle"
  /\ used' \in SUBSET Found
  /\ UNCHANGED <<finger, pc, start, ret>>

Call == pc = "idle" /\ pc' = "top" /\ UNCHANGED <<used, finger, start, ret>>

From(f) == IF f < MINFIND THEN MAXFIND ELSE f

Top ==
  /\ pc = "top"
  /\ finger' = From(finger)
  /\ start' = finger'
  /\ pc' = "while"
  /\ UNCHANGED <<used, ret>>

Look ==
  /\ pc = "while"
  /\ finger >= MINFIND
  /\ finger' = finger - 1
  /\ IF finger \notin used
     THEN ret' = finger /\ pc' = "idle"
     ELSE UNCHANGED <<ret, pc>>
  /\ UNCHANGED <<used, start>>

\* Mutations: a search that has seen only the lower units gives up; one
\* that has seen all does not.
GivesUp == TRUE
GoesRound == FALSE

SeenAll == start = MAXFIND

WhileEnd ==
  /\ pc = "while"
  /\ finger < MINFIND
  /\ IF SeenAll THEN ret' = -1 /\ pc' = "idle" ELSE pc' = "top" /\ UNCHANGED ret
  /\ UNCHANGED <<used, finger, start>>

Step == Top \/ Look \/ WhileEnd
FindNext == Attach \/ Call \/ Step

FindSpec == FindInit /\ [][FindNext]_findvars
FindFairSpec == FindSpec /\ WF_findvars(Step)

-----------------------------------------------------------------------------
FindTypeOK ==
  /\ used \subseteq Found
  /\ finger \in 0..MAXFIND
  /\ pc \in {"idle", "top", "while"}
  /\ start \in Found
  /\ ret \in Found \cup {-1}

(* A search that fails has looked at every unit, although it started in    *)
(* the middle; one that succeeds returns a unit that is free.              *)
Answers ==
  [][pc # "idle" /\ pc' = "idle" =>
       IF ret' = -1 THEN used = Found ELSE ret' \in Found \ used]_findvars

(* Every search ends, also when every unit is taken.                       *)
Terminates == pc # "idle" ~> pc = "idle"
=============================================================================
