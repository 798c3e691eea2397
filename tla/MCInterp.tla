----------------------------- MODULE MCInterp -----------------------------
(* Small instances of Interp for TLC.                                       *)
EXTENDS Interp, TLC

CONSTANTS f, x, l

Def(a, loc, entry) == [name |-> f, args |-> a, locals |-> loc, entry |-> entry]

\* F(X,X,X)F, and F(X) whose entry label is missing.
TwoDefs == {Def(<<x, x, x>>, <<f>>, l), Def(<<x>>, <<>>, None)}

Limit(s, e, ftl, t) == [st |-> s, err |-> e, ftl |-> ftl, trace |-> t]
\* Deep calls with a trapped error or a trace, and all of it in two statements.
ThreeLimits == {Limit(3, 1, 0, 0), Limit(3, 0, 0, 1), Limit(2, 1, 1, 1)}
OneLimit == {Limit(3, 1, 0, 0)}
\* Three statements, or an error of the gotos that is not fatal.
TwoLimits == OneLimit \cup {Limit(2, 1, 1, 0)}
=============================================================================
