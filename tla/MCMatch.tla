------------------------------ MODULE MCMatch ------------------------------
(* Small instances of Match for TLC.                                        *)
EXTENDS MatchAnswers, TLC

Str(s) == <<"CHR", s>>
Con(p, q) == <<"con", p, q>>
Or(p, q) == <<"or", p, q>>
Arb == <<"arb", 0>>
Fence == <<"FNCE", 0>>
One == <<"LNTH", 1>>
Abort == <<"RTNUL3", 0>>
Bal == <<"bal", 0>>

\* What the names have: a choice, a string, more than one character, a grammar of
\* itself; f, which has a pattern first and is a string the next time; and e, whose
\* function fails.
MCValue ==
    [x |-> Or(Str(<<"a">>), One), s |-> Str(<<"b">>), l |-> Con(One, One), e |-> One,
     g |-> Or(Con(Str(<<"a">>), Con(<<"star", "g">>, Str(<<"b">>))), Str(<<"b">>)),
     f |-> Or(Str(<<"a">>), Or(Str(<<"a", "b">>), One))]
MCAfter == [x \in DOMAIN MCValue |-> IF x = "f" THEN "s" ELSE x]

\* Every two primitives.
Atoms == {Str(<<>>), Str(<<"a">>), Str(<<"b">>), Str(<<"a", "b">>), One, <<"POSI", 1>>,
          <<"RPSI", 1>>, <<"TB", 1>>, <<"RTB", 1>>, <<"ANYC", {"a"}>>, <<"NNYC", {"a"}>>,
          <<"SPNC", {"a"}>>, <<"BRKC", {"b"}>>, <<"BRKX", {"b"}>>, <<"ATP", "c">>, Arb,
          Bal, Fence, Abort, <<"SALF", 0>>, <<"star", "x">>, <<"star", "s">>, <<"star", "e">>}
Pairs(S, T) == {Con(p, q) : p \in S, q \in T} \cup {Or(p, q) : p \in S, q \in T}

\* ARBNO(), . and $ of one or two patterns, and of one another, and what follows.
Few == {Str(<<>>), Str(<<"a">>), Str(<<"b">>), Arb, Fence, <<"BRKX", {"b"}>>, <<"star", "x">>}
Wrap(S) == UNION {{<<"arbno", p>>, <<"nam", p, "n">>, <<"dol", p, "m">>} : p \in S}
Tails == {<<"RPSI", 0>>, Str(<<"b">>)}
Wrapped == {Con(p, t) : p \in Wrap(Few \cup Pairs(Few, Few)), t \in Tails}
Nested == {Con(p, t) : p \in Wrap(Pairs(Wrap({One, Arb, Or(One, Str(<<"a", "b">>))}), {Str(<<"a">>), Arb})),
                       t \in Tails}

\* For anchored matches only: a grammar of itself, errors in the middle of a match,
\* which leave something on the stack or take too much from it (nothing is below it
\* here, or FENCE stops the match), and SUCCEED, which would start a failing match
\* over for ever, before what ends it.
Special ==
    {Con(<<"star", "l">>, <<"RPSI", 0>>), Con(<<"star", "g">>, <<"RPSI", 0>>), <<"nam", <<"star", "g">>, "n">>,
     <<"arbno", <<"star", "g">>>>, <<"RTB", 99>>, Con(<<"POSI", 99>>, One),
     Con(<<"dol", Con(Fence, One), Keyword>>, <<"SALF", 0>>),
     Con(<<"dol", Or(Str(<<"a">>), One), NoName>>, Arb), Con(<<"SUCF", 0>>, Arb), Con(<<"SUCF", 0>>, Or(Str(<<"b">>), Abort))}

\* f is evaluated once for each thing that comes before it.
Changing == {Con(p, Con(<<"star", "f">>, t)) :
               p \in {Or(One, Str(<<>>)), Arb, <<"nam", <<"arbno", One>>, "n">>},
               t \in {<<"RPSI", 0>>, Str(<<"b">>), <<"SALF", 0>>}}

\* BREAKX('b') before a choice; before one of a short and a long alternative, and the
\* pattern that is to be equivalent to that.
Breaking == {Con(<<"BRKX", {"b"}>>, Or(p, q)) : p, q \in Few \cup {Str(<<"b", "a">>), One}}
Long == Or(Str(<<"b", "b">>), Con(Str(<<"a">>), <<"LNTH", 5>>))
Breakx == Con(<<"BRKX", {"b"}>>, Long)
BreakArbno == Con(Con(<<"BRKC", {"b"}>>, <<"arbno", Con(One, <<"BRKC", {"b"}>>)>>), Long)

Subjects == {<<>>, <<"b", "a">>, <<"a", "a", "b">>, <<"a", "b", "a">>}
Nest == {<<"(", "a", ")">>, <<"a", ")", "(", "a">>, <<"(", "(", ")">>}
Modes(S, P) == [kind : {"SJSR"}, subject : S, pattern : P, fullscan : BOOLEAN, anchored : BOOLEAN,
                inner : {NoStatement}, traced : {{}}]

\* Statements with statements in them; X ? P takes its value from cells that an inner
\* statement of a trace of NMD would change.
Inner == [kind : {"SCAN", "SJSR"}, subject : {<<"b", "b", "b", "a">>},
          pattern : {Con(<<"nam", Con(Arb, Str(<<"b">>)), "z">>, Str(<<"a">>)),
                     Con(<<"nam", One, "z">>, <<"POSI", 9>>), Con(One, Abort)}]
Outer == {Con(<<"nam", Or(One, Arb), "n">>, Con(<<"ATP", "c">>, Con(<<"nam", One, "n">>, <<"RPSI", 0>>))),
          Con(<<"arbno", <<"dol", Or(Str(<<"a">>), Str(<<"b">>)), "m">>>>, <<"nam", Str(<<"b">>), "n">>),
          Con(<<"nam", Str(<<"a">>), "n">>, <<"nam", Or(<<"star", "e">>, <<"star", "x">>), "n">>),
          Con(<<"nam", Str(<<"a">>), "n">>, Con(<<"nam", One, NoName>>, <<"nam", One, "n">>))}
Nesting(kinds, names) ==
    [kind : kinds, subject : {<<"a", "b", "a">>}, pattern : Outer, fullscan : BOOLEAN,
     anchored : BOOLEAN, inner : Inner, traced : names]

InnerProblems == Nesting({"SJSR"}, SUBSET {"n", "m", "c"}) \cup Nesting({"SCAN"}, {{}, {"m", "c"}})

MCProblems ==
    {m \in UNION {Modes(Subjects, Pairs(Atoms, Atoms) \cup Special \cup Changing),
                  Modes({<<"a">>, <<"a", "a", "b">>}, Wrapped), Modes({<<"a", "b", "a">>}, Nested),
                  Modes({<<"b", "a", "b", "a">>}, Breaking),
                  Modes({<<"b", "a", "b", "a", "b", "b">>}, {Breakx, BreakArbno}),
                  Modes(Nest, Pairs({Bal}, {Str(<<"a">>), <<"RPSI", 0>>, Bal})),
                  InnerProblems} :
        (m.anchored \/ m.pattern \notin Special) /\ (m.fullscan \/ m.pattern # Breakx)}

\* With X ? P and a trace of what P . N assigns.
TracedProblems == Nesting({"SCAN"}, {{"n"}})

\* With the alternatives of BREAKX() of different lengths, in quickscan mode.
BreakxProblems == {m \in Modes({<<"b", "a", "b", "a", "b", "b">>}, {Breakx, BreakArbno}) : ~m.fullscan}
=============================================================================
