------------------------------ MODULE Patterns ------------------------------
(***************************************************************************)
(* Patterns as programs write them: how they are compiled to nodes, and,   *)
(* apart from that, what they mean.                                        *)
(*                                                                         *)
(* A pattern is a tree <<"con", p, q>>, <<"or", p, q>>, <<"arbno", p>>,    *)
(* <<"nam", p, n>>, <<"dol", p, n>> or <<fn, argument>>.                   *)
(***************************************************************************)
EXTENDS PatternNodes

\* LPRTND and ABNSND: the least length of the primitives that have an argument.
LeastOf(p) == CASE p[1] = "CHR" -> Len(p[2])
                [] p[1] = "LNTH" -> p[2]
                [] p[1] \in {"ANYC", "NNYC", "SPNC"} -> 1
                [] OTHER -> 0

RECURSIVE Nodes(_)
Nodes(p) == CASE p[1] = "con" -> CON(Nodes(p[2]), Nodes(p[3]))
              [] p[1] = "or" -> OR(Nodes(p[2]), Nodes(p[3]))
              [] p[1] = "arbno" -> ARBNO(Nodes(p[2]))
              [] p[1] = "nam" -> NAM5(Nodes(p[2]), "ENME", p[3])
              [] p[1] = "dol" -> NAM5(Nodes(p[2]), "ENMI", p[3])
              [] p[1] = "arb" -> ARBPT
              [] p[1] = "bal" -> BALPT
              [] p[1] = "star" -> STARPT(p[2])
              [] OTHER -> MAKNOD(p[1], LeastOf(p), p[2])

-----------------------------------------------------------------------------
(* What patterns mean.  Found(p, i, s) are the ways p matches s from cursor *)
(* i, in the order in which they are tried: each is where it ends and what  *)
(* it names.  A way that is cut is none, and nothing is tried after it.     *)

Way(i, named) == [cut |-> FALSE, to |-> i, named |-> named]
Cut == [cut |-> TRUE, to |-> 0, named |-> <<>>]

IsCut(ways) == ways # <<>> /\ Last(ways).cut

\* first, and then, unless it is cut, what follows.
Ordered(first, rest) == IF IsCut(first) THEN first ELSE first \o rest

\* What each way leads to by More, in order.
Through(ways, More(_)) ==
    FoldLeft(LAMBDA all, w : Ordered(all, IF w.cut THEN <<w>> ELSE More(w)),
             <<>>, ways)

Naming(ways, named) == [k \in DOMAIN ways |-> [ways[k] EXCEPT !.named = named \o @]]

If(cond, i) == IF cond THEN <<Way(i, <<>>)>> ELSE <<>>
Rising(S) == [k \in 1 .. Cardinality(S) |-> Way(SetToSortSeq(S, LAMBDA a, b : a < b)[k], <<>>)]

Breaks(chars, i, s) == {j \in i .. Len(s) - 1 : s[j + 1] \in chars}

RECURSIVE Found(_, _, _, _)
Found(p, i, s, value) ==
    LET x == p[2]
        n == Len(s)
        repeated[j \in i .. n] ==
            Ordered(<<Way(j, <<>>)>>,
                    Through(Found(x, j, s, value),
                            LAMBDA w : IF w.to = j THEN <<>>
                                       ELSE Naming(repeated[w.to], w.named)))
    IN  CASE p[1] = "con" ->
               Through(Found(x, i, s, value),
                       LAMBDA w : Naming(Found(p[3], w.to, s, value), w.named))
          [] p[1] = "or" -> Ordered(Found(x, i, s, value), Found(p[3], i, s, value))
          [] p[1] = "arbno" -> repeated[i]
          [] p[1] = "nam" ->
               Through(Found(x, i, s, value),
                       LAMBDA w : <<Way(w.to, Append(w.named, <<p[3], i, w.to>>))>>)
          [] p[1] = "dol" ->
               Through(Found(x, i, s, value),
                       LAMBDA w : IF p[3] \in Unassignable THEN <<>> ELSE <<w>>)
          [] p[1] = "star" -> Found(value[x], i, s, value)
          [] p[1] = "arb" -> Rising(i .. n)
          [] p[1] = "bal" -> Rising({j \in i + 1 .. n : Balanced(i, j, s)})
          [] p[1] = "CHR" -> If(i + Len(x) <= n /\ SubSeq(s, i + 1, i + Len(x)) = x, i + Len(x))
          [] p[1] = "LNTH" -> If(i + x <= n, i + x)
          [] p[1] = "POSI" -> If(i = x, i)
          [] p[1] = "RPSI" -> If(n - i = x, i)
          [] p[1] = "TB" -> If(i <= x /\ x <= n, x)
          [] p[1] = "RTB" -> If(i <= n - x, n - x)
          [] p[1] = "ANYC" -> If(i < n /\ s[i + 1] \in x, i + 1)
          [] p[1] = "NNYC" -> If(i < n /\ s[i + 1] \notin x, i + 1)
          [] p[1] = "SPNC" -> LET e == SpanEnds(x, i, s)
                              IN  IF e = {} THEN <<>> ELSE <<Way(Max(e), <<>>)>>
          [] p[1] = "BRKC" -> LET b == Breaks(x, i, s)
                              IN  IF b = {} THEN <<>> ELSE <<Way(Min(b), <<>>)>>
          [] p[1] = "BRKX" -> Rising(Breaks(x, i, s))
          [] p[1] = "ATP" -> If(TRUE, i)
          [] p[1] = "SALF" -> <<>>
          [] p[1] = "SUCF" -> If(TRUE, i)
          [] p[1] = "FNCE" -> <<Way(i, <<>>), Cut>>
          [] p[1] = "RTNUL3" -> <<Cut>>

\* An unanchored match starts at cursor 0, then at 1, and so on.
Matches(p, s, anchored, value) ==
    Through([k \in 1 .. IF anchored THEN 1 ELSE Len(s) + 1 |-> Way(k - 1, <<>>)],
            LAMBDA h : LET ways == Found(p, h.to, s, value)
                       IN  [k \in DOMAIN ways |-> [ways[k] EXCEPT !.named = <<h.to>> \o @]])

\* What a match is to answer: whether it fails, where it starts and ends, and what
\* it names.
Expected(p, s, anchored, value) ==
    LET ways == Matches(p, s, anchored, value)
    IN  IF ways = <<>> \/ ways[1].cut THEN [end |-> "fail"]
        ELSE [end |-> "ok", head |-> ways[1].named[1], to |-> ways[1].to,
              named |-> Tail(ways[1].named)]
=============================================================================
