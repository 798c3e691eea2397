---------------------------- MODULE PatternNodes ----------------------------
(***************************************************************************)
(* The nodes of patterns and the procedures that make them (lib/pat.c,     *)
(* CONCAT, OR, NAM5 and ARBNO).                                            *)
(*                                                                         *)
(* The nodes of a compiled pattern are a sequence; the offset of a node is *)
(* how many come before it, and offset 0 in a link says that there is none.*)
(***************************************************************************)
EXTENDS Integers, Sequences, SequencesExt

(* Nodes: a matching procedure with its argument, the node that follows,   *)
(* the node to try instead, the least number of characters it and what     *)
(* follows it need (val), and of these what only follows (res).            *)
Node(fn, then, or, val, arg) ==
    [fn |-> fn, then |-> then, or |-> or, val |-> val, res |-> 0, arg |-> arg]

MAKNOD(fn, val, arg) == <<Node(fn, 0, 0, val, arg)>>

\* A copy of P that starts at offset base, is followed by the node at next,
\* and after which add characters are needed.
CPYPAT(P, add, base, next) ==
    [i \in DOMAIN P |-> [P[i] EXCEPT !.or = IF @ = 0 THEN 0 ELSE @ + base,
                                     !.then = IF @ = 0 THEN next ELSE @ + base,
                                     !.val = @ + add, !.res = @ + add]]

\* The offsets on the list of alternatives of the first node; links on it only
\* go forward.
Alternatives(P) ==
    LET on[i \in DOMAIN P] == i = 1 \/ \E j \in 1 .. i - 1 : P[j].or = i - 1 /\ on[j]
    IN  {i - 1 : i \in {k \in DOMAIN P : on[k]}}

\* Mutation: the most an alternative needs.
LongestOf(P) == Max({P[i + 1].val : i \in Alternatives(P)})

LVALUE(P) == Min({P[i + 1].val : i \in Alternatives(P)})

LINKOR(P, to) == [P EXCEPT ![Max(Alternatives(P)) + 1].or = to]

CON(X, Y) == CPYPAT(X, LVALUE(Y), 0, Len(X)) \o CPYPAT(Y, 0, Len(X), 0)

OR(X, Y) == LINKOR(CPYPAT(X, 0, 0, 0) \o CPYPAT(Y, 0, Len(X), 0), Len(X))

\* X . name and X $ name; fn is ENME or ENMI.
NAM5(X, fn, name) ==
    CPYPAT(MAKNOD("NME", 0, 0), LVALUE(X), 0, 1)
        \o CPYPAT(X, 0, 1, Len(X) + 1)
        \o CPYPAT(MAKNOD(fn, 0, name), 0, Len(X) + 1, 0)

ARHED == <<Node("SCOK", 1, 0, 0, 0), Node("SCOK", 0, 2, 0, 0),
           Node("ARBN", 4, 3, 0, 0), Node("ARBF", 0, 0, 0, 0)>>
ARTAL == <<Node("EARB", 1, 0, 0, 0), Node("SCOK", 0, 2, 0, 0)>>
ARBAK == <<Node("ONAR", 0, 1, 0, 0), Node("ONRF", 0, 0, 0, 0)>>

ARBNO(X) ==
    LET tail == Len(ARHED) + Len(X)
    IN  CPYPAT(ARHED, 0, 0, 0) \o CPYPAT(X, 0, Len(ARHED), tail)
          \o CPYPAT(ARTAL, 0, tail, 0) \o CPYPAT(ARBAK, 0, tail + Len(ARTAL), 2)

ARBPT == <<Node("SCOK", 1, 0, 0, 0), Node("SCOK", 0, 2, 0, 0), Node("FARB", 0, 2, 0, 0)>>
BALPT == <<Node("SCOK", 1, 0, 0, 0), Node("BAL", 0, 2, 0, 0), Node("BALF", 0, 2, 0, 0)>>
STARPT(name) == <<Node("STAR", 1, 0, 1, name), Node("SCOK", 0, 2, 0, 0),
                  Node("DSAR", 1, 0, 0, name)>>

-----------------------------------------------------------------------------
(* What patterns look for.                                                  *)

\* The cursors after i up to which all characters of s are in chars.
SpanEnds(chars, i, s) == {j \in i + 1 .. Len(s) : \A k \in i + 1 .. j : s[k] \in chars}

\* From i to j the parentheses of s balance.
Count(c, i, j, s) == Cardinality({k \in i + 1 .. j : s[k] = c})
Balanced(i, j, s) == /\ Count("(", i, j, s) = Count(")", i, j, s)
                     /\ \A k \in i .. j : Count("(", i, k, s) >= Count(")", i, k, s)

\* What cannot be assigned: a keyword, as the texts are no integers, and the name that
\* a function is to return and fails.
Keyword == "&ANCHOR"
NoName == "*F()"
Unassignable == {Keyword, NoName}
=============================================================================
