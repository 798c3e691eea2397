----------------------------- MODULE MCLoadLib -----------------------------
(* Small instances of LoadLib for TLC.                                     *)
EXTENDS LoadLib, TLC

Symmetry == Permutations(Libs) \cup Permutations(LibNames) \cup Permutations(Addrs)
=============================================================================
