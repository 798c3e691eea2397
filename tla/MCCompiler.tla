----------------------------- MODULE MCCompiler -----------------------------
(* Instances of Compiler for TLC.                                          *)
EXTENDS Compiler

\* LT() has two arguments, G is a function of the program.
arity == [LT |-> 2]
=============================================================================
