------------------------------- MODULE Trees -------------------------------
(***************************************************************************)
(* The compiler's trees (lib/tree.c and TREPUB), and, apart from that,     *)
(* what an expression means: Prefix, which knows of no trees.              *)
(*                                                                         *)
(* A node has the descriptor the interpreter is to find in the object code *)
(* (op, and its V field n, the number of arguments) and the links FATHER,  *)
(* LSON and RSIB; nodes are numbered as they are allocated, 0 is no node.  *)
(* A token is a pair of its kind and what it stands for; a leaf is known   *)
(* by its place in the text.                                               *)
(***************************************************************************)
EXTENDS Integers, Sequences, SequencesExt, FiniteSetsExt

Cell(op, n) == [op |-> op, n |-> n]
NewNode(op, n) == [op |-> op, n |-> n, father |-> 0, lson |-> 0, rsib |-> 0]

(* The left and right precedences that follow an operator's descriptor.    *)
Precedence == [ASGN   |-> <<1, 1>>,   SCAN |-> <<3, 2>>,   SJSR  |-> <<3, 2>>,
               OR     |-> <<10, 9>>,  CONCAT |-> <<20, 19>>, ADD |-> <<30, 29>>,
               MPY    |-> <<42, 41>>, EXPOP |-> <<50, 50>>, NAM  |-> <<60, 59>>]

addsib(T, a, b) ==
    [T EXCEPT ![b].rsib = T[a].rsib, ![b].father = T[a].father,
              ![a].rsib = b, ![T[a].father].n = @ + 1]

\* Mutation: a son does not know its father.
addsonless(T, a, b) == [T EXCEPT ![b].rsib = T[a].lson, ![a].lson = b, ![a].n = @ + 1]
addson(T, a, b) ==
    [T EXCEPT ![b].father = a, ![b].rsib = T[a].lson, ![a].lson = b, ![a].n = @ + 1]

\* b takes the place of a, which is not a first son, and has it for a son.
insert(T, a, b) ==
    LET y == CHOOSE k \in DOMAIN T : T[k].rsib = a
    IN  [T EXCEPT ![y].rsib = b, ![b].father = T[a].father, ![b].lson = a,
                  ![b].n = @ + 1, ![a].father = b]

\* The nodes from k on, where next leads to 0 from the last one.
Walk(next, k) ==
    LET on(m) == IF m = 0 THEN 0 ELSE next[m]
        node[i \in 0 .. Len(next)] == IF i = 0 THEN k ELSE on(node[i - 1])
        steps == Max({i \in 0 .. Len(next) : i = 0 \/ node[i] # 0})
    IN  [i \in 1 .. steps + 1 |-> node[i - 1]]

\* The nodes from k up to its root.
Above(T, k) == Walk([m \in DOMAIN T |-> T[m].father], k)
Root(T, k) == IF k = 0 THEN 0 ELSE Last(Above(T, k))

\* TREPUB's order: a node, its first son, its brother, and then its father's brother.
Following(T, k) ==
    LET up == Above(T, k)
        brothers == {i \in DOMAIN up : T[up[i]].rsib # 0}
    IN  IF T[k].lson # 0 THEN T[k].lson
        ELSE IF brothers = {} THEN 0 ELSE T[up[Min(brothers)]].rsib
Flat(T, k) ==
    LET nodes == Walk([m \in DOMAIN T |-> Following(T, m)], k)
    IN  [i \in DOMAIN nodes |-> Cell(T[nodes[i]].op, T[nodes[i]].n)]

-----------------------------------------------------------------------------
(* What an expression means, in prefix notation.                           *)

CONSTANTS Arity   \* the functions that have a fixed number of arguments, and how many

NullLiteral == <<Cell("LIT", 1), Cell("null", 0)>>
\* The arguments f is to be given when it is called with n.
Lacks(f, n) == IF f \in DOMAIN Arity /\ Arity[f] > n THEN Arity[f] - n ELSE 0
Opens == {"(", "f(", "a<", "<"}
Closes == {")", ">"}

Depth(t, k) == Cardinality({i \in 1 .. k - 1 : t[i][1] \in Opens})
                 - Cardinality({i \in 1 .. k - 1 : t[i][1] \in Closes})
\* The places from i to j where a token of the kind is, not inside brackets.
Places(t, kind, i, j) == {k \in i .. j : t[k][1] = kind /\ Depth(t, k) = Depth(t, i)}

RightAssociative == {"ASGN", "EXPOP"}
Tightness(op) == Precedence[op][1]
\* The operator that is applied last.
Weakest(t, places) ==
    LET least == Min({Tightness(t[k][2]) : k \in places})
        weak == {k \in places : Tightness(t[k][2]) = least}
    IN  IF t[Min(weak)][2] \in RightAssociative THEN Min(weak) ELSE Max(weak)

\* The tokens from i to j: an expression, or an element of one.  An assignment to a
\* match is a replacement.
Prefix(t) ==
  LET M[is \in {"expression", "element"}, i \in Nat, j \in Nat] ==
    LET \* The expressions between commas from a on.
        Items(a) ==
            LET commas == SetToSortSeq(Places(t, ",", a, j - 1), LAMBDA b, c : b < c)
                from(c) == IF c = 1 THEN a ELSE commas[c - 1] + 1
                to(c) == IF c > Len(commas) THEN j - 1 ELSE commas[c] - 1
            IN  [c \in 1 .. Len(commas) + 1 |-> M["expression", from(c), to(c)]]
        Applied(k) ==
            LET left == M["expression", i, k - 1]
                right == M["expression", k + 1, j]
                matches == Places(t, "op", i, k - 1)
            IN  IF /\ t[k][2] = "ASGN" /\ matches # {}
                   /\ t[Weakest(t, matches)][2] = "SCAN"
                THEN <<Cell("SJSR", 3)>> \o Tail(left) \o right
                ELSE <<Cell(t[k][2], 2)>> \o left \o right
        operators == Places(t, "op", i, j)
        items == Places(t, "<", i, j)
        kind == t[i][1]
        within == Items(i + 1)
        lacks == IF kind = "f(" THEN Lacks(t[i][2], Len(within)) ELSE 0
        given == FlattenSeq(within) \o FlattenSeq([k \in 1 .. lacks |-> NullLiteral])
    IN  CASE i > j -> NullLiteral
          [] i <= j /\ is = "expression" /\ operators # {} -> Applied(Weakest(t, operators))
          [] i <= j /\ is = "expression" /\ operators = {} -> M["element", i, j]
          [] is = "element" /\ kind = "un" -> <<Cell(t[i][2], 1)>> \o M["element", i + 1, j]
          [] is = "element" /\ kind # "un" /\ items # {} ->
               LET last == Items(Max(items) + 1)
               IN  <<Cell("ITEM", 1 + Len(last))>> \o M["element", i, Max(items) - 1]
                     \o FlattenSeq(last)
          [] is = "element" /\ kind = "leaf" -> <<Cell("x", i)>>
          [] is = "element" /\ kind = "lit" -> <<Cell("LIT", 1), Cell("lit", i)>>
          [] is = "element" /\ kind = "(" /\ items = {} ->
               IF Len(within) = 1 THEN within[1] ELSE <<Cell("CMA", Len(within))>> \o given
          [] is = "element" /\ kind = "f(" /\ items = {} ->
               <<Cell(t[i][2], Len(within) + lacks)>> \o given
          [] is = "element" /\ kind = "a<" /\ items = {} ->
               <<Cell("ITEM", 1 + Len(within)), Cell("x", i)>> \o given
  IN M["expression", 1, Len(t)]
=============================================================================
