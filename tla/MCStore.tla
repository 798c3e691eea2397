------------------------------ MODULE MCStore ------------------------------
(* Storage implements Store.                                               *)
EXTENDS MCStorage

P == INSTANCE Store WITH store <- heap

(* What the program sees of the heap, without what it cannot reach (bound  *)
(* by a quantifier, so that TLC evaluates it once).                        *)
SeenStore == CHOOSE st \in {P!Pruned(seen) : seen \in {Seen(heap)}} : TRUE

S == INSTANCE Store WITH store <- SeenStore

(* The program cannot tell that blocks move, that storage is used again or *)
(* when it is regenerated: what it does is what Store allows.              *)
StoreSpec == S!Spec
=============================================================================
