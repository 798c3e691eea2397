--------------------------- MODULE Levels_proofs ---------------------------
(***************************************************************************)
(* First what the procedures of PatternNodes make: patterns whose nodes    *)
(* lead, with what ARBNO(), . and $ put around others, where they belong.  *)
(* Then what a match has on the stack, the C stack and the history list,   *)
(* and what that says of the node that is matched.                         *)
(***************************************************************************)
EXTENDS Match, FiniteSetTheorems, SequenceTheorems, WellFoundedInduction, TLAPS

-----------------------------------------------------------------------------
(* Patterns.  Every node of a pattern is matched with certain starts on the *)
(* stack, those of the ARBNO(), . and $ that the node is in; these are the  *)
(* places of the pattern, c in what follows.                                *)

Tags == {"name", "arbno"}

AnySeq(s) == \E S : s \in Seq(S)

\* Procedures that only have one node after them, and those that leave the stack alone.
Simple == {"CHR", "ANYC", "NNYC", "BRKC", "SPNC", "BRKX", "FARB", "BAL", "BALF", "FNCE", "SUCF",
           "ATP", "SCOK", "SALF", "RTNUL3"} \cup Measuring
Fns == Simple \cup {"NME", "ENME", "ENMI", "ARBN", "ARBF", "EARB", "ONAR", "ONRF", "STAR", "DSAR"}

NodesWith(A) == [fn : Fns, then : Nat, or : Nat, val : Nat, res : Nat, arg : A]

\* Nodes that only some entry of the history list leads to, and only with that entry's
\* start on the stack or its statement behind it.
Role(P, o) ==
    LET n == P[o + 1]
    IN  IF n.fn = "ARBF" THEN "ARBF"
        ELSE IF n.fn \in {"ONAR", "ONRF"} THEN "ONAR"
        ELSE IF n.fn = "DSAR" THEN "DSAR"
        ELSE IF n.fn = "SCOK" /\ n.or # 0 /\ P[n.or + 1].fn \in {"ONAR", "DSAR"} THEN P[n.or + 1].fn
        ELSE "plain"

\* The starts on the stack when the node has succeeded.
Leaves(n, s) ==
    IF n.fn = "NME" THEN Append(s, "name")
    ELSE IF n.fn = "ARBN" THEN Append(s, "arbno")
    ELSE IF n.fn \in {"ENME", "ENMI", "EARB"} THEN Front(s)
    ELSE s

Plain(P, c, o, s) == Role(P, o) = "plain" /\ c[o + 1] = s

\* What ARBNO(P) puts around P, and *X.
ARBNGood(P, c, o) ==
    /\ o + 2 <= Len(P) /\ P[o + 1].or = o + 1
    /\ P[o + 2].fn = "ARBF" /\ P[o + 2].or = 0 /\ P[o + 2].val = P[o + 1].val
    /\ c[o + 2] = Append(c[o + 1], "arbno")
EARBGood(P, c, o) ==
    /\ o + 4 <= Len(P) /\ P[o + 1].then = o + 1
    /\ P[o + 2].fn = "SCOK" /\ P[o + 2].or = o + 2
    /\ P[o + 3].fn = "ONAR" /\ P[o + 3].or = o + 3
    /\ P[o + 4].fn = "ONRF" /\ P[o + 4].or = 0
    /\ \A k \in 2 .. 4 : P[o + k].val = P[o + 1].val /\ c[o + k] = Front(c[o + 1])
STARGood(P, c, o) ==
    /\ o + 3 <= Len(P) /\ P[o + 1].then = o + 1 /\ P[o + 1].arg \in Names
    /\ P[o + 2].fn = "SCOK" /\ P[o + 2].or = o + 2 /\ P[o + 2].val = P[o + 1].res
    /\ P[o + 3].fn = "DSAR" /\ P[o + 3].or = 0 /\ P[o + 3].then = o + 1
    /\ P[o + 3].val = P[o + 1].res /\ P[o + 3].res = P[o + 1].res /\ P[o + 3].arg = P[o + 1].arg
    /\ c[o + 2] = c[o + 1] /\ c[o + 3] = c[o + 1]

\* These are where they belong.
Around(P, c, o) ==
    LET n == P[o + 1]
    IN  /\ n.fn = "ARBN" => ARBNGood(P, c, o)
        /\ n.fn = "ARBF" => o >= 1 /\ P[o].fn = "ARBN"
        /\ n.fn = "EARB" => EARBGood(P, c, o)
        /\ n.fn = "ONAR" => o >= 2 /\ P[o - 1].fn = "EARB"
        /\ n.fn = "ONRF" => o >= 3 /\ P[o - 2].fn = "EARB"
        /\ n.fn = "STAR" => STARGood(P, c, o)
        /\ n.fn = "DSAR" => o >= 2 /\ P[o - 1].fn = "STAR"
        /\ (n.fn = "SCOK" /\ Role(P, o) = "ONAR") => o >= 1 /\ P[o].fn = "EARB"
        /\ (n.fn = "SCOK" /\ Role(P, o) = "DSAR") => o >= 1 /\ P[o].fn = "STAR"

\* The node needs as many characters as it takes, and its argument is what it should be.
Fits(n) ==
    /\ n.fn = "CHR" => AnySeq(n.arg) /\ Len(n.arg) <= n.val
    /\ n.fn \in {"ANYC", "NNYC"} => n.val >= 1
    /\ n.fn \in Measuring => n.arg \in Nat /\ n.arg # NotInteger
    /\ n.fn = "ENMI" => n.arg # Keyword

\* What it closes is open.
Closes(n, s) ==
    /\ n.fn \in {"ENME", "ENMI"} => s # <<>> /\ Last(s) = "name"
    /\ n.fn = "EARB" => s # <<>> /\ Last(s) = "arbno"

\* The links to the nodes that follow, and to the alternatives.
ThenGood(P, c, o) ==
    LET n == P[o + 1]
    IN  n.fn \in {"STAR", "DSAR", "EARB", "ARBF", "ONRF"} \/
        IF n.then = 0 THEN Leaves(n, c[o + 1]) = <<>>
        ELSE Plain(P, c, n.then, Leaves(n, c[o + 1]))
OrGood(P, c, o) ==
    LET n == P[o + 1]
    IN  Role(P, o) # "plain" \/ n.fn = "ARBN" \/ n.or = 0 \/ Plain(P, c, n.or, c[o + 1])

NodeGood(P, c, o) ==
    /\ P[o + 1].then < Len(P) /\ P[o + 1].or < Len(P)
    /\ Fits(P[o + 1]) /\ Closes(P[o + 1], c[o + 1])
    /\ Around(P, c, o) /\ ThenGood(P, c, o) /\ OrGood(P, c, o)

\* The alternatives of the first node: with nothing open.
FirstGood(P, c, A) ==
    /\ 0 \in A
    /\ \A o \in A : /\ o \in 0 .. Len(P) - 1 /\ Plain(P, c, o, <<>>) /\ P[o + 1].fn # "ARBN"
                    /\ P[o + 1].or # 0 => P[o + 1].or \in A

GoodPattern(P, c, A) ==
    /\ \E X : P \in Seq(NodesWith(X))
    /\ c \in Seq(Seq(Tags)) /\ Len(c) = Len(P)
    /\ FirstGood(P, c, A)
    /\ \A o \in 0 .. Len(P) - 1 : NodeGood(P, c, o)

Good(P) == \E c, A : GoodPattern(P, c, A)

-----------------------------------------------------------------------------
(* Sequences.                                                               *)

Prefix(p, s) == /\ AnySeq(p) /\ AnySeq(s) /\ Len(p) <= Len(s)
                /\ \A i \in 1 .. Len(p) : s[i] = p[i]

LEMMA UptoLast ==
  ASSUME NEW n \in Nat, NEW j \in 1 .. n
  PROVE  j = n \/ j \in 1 .. n - 1
OBVIOUS

LEMMA BeforeLast ==
  ASSUME NEW n \in Nat, NEW j \in 1 .. n, NEW k \in 1 .. n, j < k
  PROVE  j \in 1 .. n - 1
OBVIOUS

LEMMA AnyRange ==
  ASSUME NEW s, AnySeq(s)
  PROVE  Len(s) \in Nat /\ s \in Seq({s[i] : i \in 1 .. Len(s)}) /\ DOMAIN s = 1 .. Len(s)
<1>1. PICK S : s \in Seq(S)
  BY DEF AnySeq
<1> QED BY <1>1

LEMMA AnyElements ==
  ASSUME NEW S, NEW s \in Seq(S)
  PROVE  AnySeq(s)
BY DEF AnySeq

LEMMA AnyAppend ==
  ASSUME NEW s, AnySeq(s), NEW x
  PROVE  /\ AnySeq(Append(s, x)) /\ Len(Append(s, x)) = Len(s) + 1 /\ Append(s, x) # <<>>
         /\ Append(s, x)[Len(s) + 1] = x /\ Last(Append(s, x)) = x
         /\ \A i \in 1 .. Len(s) : Append(s, x)[i] = s[i]
         /\ Front(Append(s, x)) = s
<1>1. PICK S : s \in Seq(S)
  BY DEF AnySeq
<1> DEFINE T == S \cup {x}
<1>2. s \in Seq(T) /\ x \in T
  BY <1>1
<1> HIDE DEF T
<1>3. Append(s, x) \in Seq(T) /\ Len(Append(s, x)) = Len(s) + 1
  BY <1>2
<1>4. \A i \in 1 .. Len(s) : Append(s, x)[i] = s[i]
  BY <1>2
<1>5. Append(s, x)[Len(s) + 1] = x
  BY <1>2
<1>6. Len(s) \in Nat
  BY <1>2
<1>7. Front(Append(s, x)) = s
  <2>1. Len(Append(s, x)) - 1 = Len(s)
    BY <1>3, <1>6
  <2>2. SubSeq(Append(s, x), 1, Len(s)) = s
    BY <1>2, <1>3, <1>4, <1>6
  <2> QED BY <2>1, <2>2 DEF Front
<1>8. AnySeq(Append(s, x))
  BY <1>3 DEF AnySeq
<1>9. Append(s, x) # <<>>
  BY <1>3, <1>6
<1> QED BY <1>3, <1>4, <1>5, <1>7, <1>8, <1>9 DEF Last

LEMMA AnySub ==
  ASSUME NEW s, AnySeq(s), NEW n \in 0 .. Len(s)
  PROVE  /\ AnySeq(SubSeq(s, 1, n)) /\ Len(SubSeq(s, 1, n)) = n
         /\ \A i \in 1 .. n : SubSeq(s, 1, n)[i] = s[i]
<1>1. PICK S : s \in Seq(S)
  BY DEF AnySeq
<1>2. n \in Nat /\ Len(s) \in Nat /\ n <= Len(s)
  BY <1>1
<1>3. \A i \in 1 .. n : s[i] \in S
  BY <1>1, <1>2
<1>4. SubSeq(s, 1, n) \in Seq(S) /\ Len(SubSeq(s, 1, n)) = n /\ \A i \in 1 .. n : SubSeq(s, 1, n)[i] = s[i]
  BY <1>1, <1>2, <1>3
<1> QED BY <1>4 DEF AnySeq

LEMMA AnyFront ==
  ASSUME NEW s, AnySeq(s), s # <<>>
  PROVE  /\ AnySeq(Front(s)) /\ Len(Front(s)) = Len(s) - 1 /\ Len(s) \in Nat \ {0}
         /\ \A i \in 1 .. Len(s) - 1 : Front(s)[i] = s[i]
         /\ Last(s) = s[Len(s)]
<1>1. Len(s) \in Nat \ {0}
  BY DEF AnySeq
<1>2. Len(s) - 1 \in 0 .. Len(s)
  BY <1>1
<1> QED BY <1>1, <1>2, AnySub DEF Front, Last

LEMMA AnyEqual ==
  ASSUME NEW s, AnySeq(s), NEW t, AnySeq(t), Len(s) = Len(t), \A i \in 1 .. Len(s) : s[i] = t[i]
  PROVE  s = t
<1>1. PICK S : s \in Seq(S)
  BY DEF AnySeq
<1>2. PICK T : t \in Seq(T)
  BY DEF AnySeq
<1>3. s \in Seq(S \cup T) /\ t \in Seq(S \cup T)
  BY <1>1, <1>2
<1> HIDE DEF AnySeq
<1> QED BY <1>3, SeqEqual

LEMMA AnyRebuilt ==
  ASSUME NEW s, AnySeq(s), s # <<>>
  PROVE  Append(Front(s), Last(s)) = s
<1>1. AnySeq(Front(s)) /\ Len(Front(s)) = Len(s) - 1 /\ Len(s) \in Nat \ {0}
  BY AnyFront
<1>2. Last(s) = s[Len(s)] /\ \A i \in 1 .. Len(s) - 1 : Front(s)[i] = s[i]
  BY AnyFront
<1> DEFINE t == Append(Front(s), Last(s))
<1>3. AnySeq(t) /\ Len(t) = Len(s) /\ t[Len(s)] = s[Len(s)] /\ \A i \in 1 .. Len(s) - 1 : t[i] = s[i]
  <2>1. AnySeq(t) /\ Len(t) = Len(Front(s)) + 1 /\ t[Len(Front(s)) + 1] = Last(s)
    BY <1>1, AnyAppend
  <2>2. \A i \in 1 .. Len(Front(s)) : t[i] = Front(s)[i]
    BY <1>1, AnyAppend
  <2> HIDE DEF t
  <2> QED BY <1>1, <1>2, <2>1, <2>2
<1> HIDE DEF t
<1>4. \A i \in 1 .. Len(t) : t[i] = s[i]
  BY <1>1, <1>3
<1>5. t = s
  BY <1>3, <1>4, AnyEqual
<1> QED BY <1>5 DEF t

LEMMA PrefixAppend ==
  ASSUME NEW p, NEW s, Prefix(p, s), NEW x
  PROVE  Prefix(p, Append(s, x))
<1>1. AnySeq(s) /\ AnySeq(p) /\ Len(p) \in Nat /\ Len(s) \in Nat /\ Len(p) <= Len(s)
  BY AnyRange DEF Prefix
<1>2. AnySeq(Append(s, x)) /\ Len(Append(s, x)) = Len(s) + 1 /\ \A i \in 1 .. Len(s) : Append(s, x)[i] = s[i]
  BY <1>1, AnyAppend
<1> QED BY <1>1, <1>2 DEF Prefix

LEMMA PrefixSub ==
  ASSUME NEW p, NEW s, Prefix(p, s), NEW n \in Len(p) .. Len(s)
  PROVE  Prefix(p, SubSeq(s, 1, n))
<1>1. AnySeq(s) /\ AnySeq(p) /\ Len(p) \in Nat /\ Len(s) \in Nat /\ Len(p) <= Len(s)
  BY AnyRange DEF Prefix
<1>2. n \in 0 .. Len(s)
  BY <1>1
<1>3. AnySeq(SubSeq(s, 1, n)) /\ Len(SubSeq(s, 1, n)) = n /\ \A i \in 1 .. n : SubSeq(s, 1, n)[i] = s[i]
  BY <1>1, <1>2, AnySub
<1> QED BY <1>1, <1>3 DEF Prefix

LEMMA PrefixFront ==
  ASSUME NEW p, NEW s, Prefix(p, s), Len(s) > Len(p)
  PROVE  Prefix(p, Front(s))
<1>1. Len(p) \in Nat /\ Len(s) \in Nat
  BY AnyRange DEF Prefix
<1>2. Len(s) - 1 \in Len(p) .. Len(s)
  BY <1>1
<1> QED BY <1>2, PrefixSub DEF Front

LEMMA PrefixTake ==
  ASSUME NEW p, NEW s, Prefix(p, s)
  PROVE  SubSeq(s, 1, Len(p)) = p
<1>1. AnySeq(s) /\ AnySeq(p) /\ Len(p) \in Nat /\ Len(s) \in Nat /\ Len(p) <= Len(s)
  BY AnyRange DEF Prefix
<1>2. \A i \in 1 .. Len(p) : s[i] = p[i]
  BY DEF Prefix
<1>3. Len(p) \in 0 .. Len(s)
  BY <1>1
<1>4. AnySeq(SubSeq(s, 1, Len(p))) /\ Len(SubSeq(s, 1, Len(p))) = Len(p)
  BY <1>1, <1>3, AnySub
<1>5. \A i \in 1 .. Len(p) : SubSeq(s, 1, Len(p))[i] = p[i]
  BY <1>1, <1>2, <1>3, AnySub
<1> QED BY <1>1, <1>4, <1>5, AnyEqual

LEMMA PrefixSelf ==
  ASSUME NEW s, AnySeq(s)
  PROVE  Prefix(s, s)
BY AnyRange DEF Prefix

LEMMA PrefixEmpty ==
  ASSUME NEW s, AnySeq(s)
  PROVE  Prefix(<<>>, s) /\ AnySeq(<<>>) /\ Len(<<>>) = 0
<1>1. AnySeq(<<>>)
  <2>1. <<>> \in Seq({})
    OBVIOUS
  <2> QED BY <2>1 DEF AnySeq
<1> QED BY <1>1, AnyRange DEF Prefix

LEMMA PrefixWhole ==
  ASSUME NEW p, NEW s, Prefix(p, s), Len(s) = Len(p)
  PROVE  s = p
<1>1. AnySeq(s) /\ AnySeq(p) /\ \A i \in 1 .. Len(p) : s[i] = p[i]
  BY DEF Prefix
<1> QED BY <1>1, AnyEqual

-----------------------------------------------------------------------------
(* Numbers.                                                                 *)

LEMMA NatLeast ==
  ASSUME NEW X \in SUBSET Nat, X # {}
  PROVE  \E n \in X : \A m \in X : n <= m
<1> DEFINE Less == {ss \in Nat \X Nat : ss[1] < ss[2]}
<1>1. IsWellFoundedOn(Less, Nat)
  BY NatLessThanWellFounded DEF OpToRel
<1> HIDE DEF Less
<1>2. \E x \in X : \A y \in X : ~ (<<y, x>> \in Less)
  BY <1>1, WFMin
<1>3. PICK n \in X : \A m \in X : ~ (<<m, n>> \in Less)
  BY <1>2
<1>4. ASSUME NEW m \in X, m < n PROVE FALSE
  <2>1. <<m, n>> \in Nat \X Nat /\ <<m, n>>[1] < <<m, n>>[2]
    BY <1>4
  <2>2. <<m, n>> \in Less
    BY <2>1, Zenon DEF Less
  <2> QED BY <1>3, <2>2
<1>5. ASSUME NEW m \in X PROVE n <= m
  BY <1>4
<1> QED BY <1>5

LEMMA MinIs ==
  ASSUME NEW a \in Int, NEW b \in Int, NEW S, S \subseteq a .. b, S # {}
  PROVE  Min(S) \in S
<1> DEFINE X == {x - a : x \in S}
<1>1. X \in SUBSET Nat /\ X # {}
  <2>1. ASSUME NEW x \in S PROVE x - a \in Nat
    <3>1. x \in a .. b
      OBVIOUS
    <3> QED BY ONLY <3>1, a \in Int, b \in Int
  <2>2. X \subseteq Nat
    BY <2>1
  <2>3. X # {}
    OBVIOUS
  <2> QED BY <2>2, <2>3
<1> HIDE DEF X
<1>2. PICK n \in X : \A m \in X : n <= m
  BY <1>1, NatLeast
<1>3. PICK x \in S : n = x - a
  BY DEF X
<1>4. ASSUME NEW y \in S PROVE x <= y
  <2>1. y - a \in X
    BY DEF X
  <2>2. x - a <= y - a
    BY <1>2, <1>3, <2>1
  <2> QED BY <2>2
<1> QED BY <1>4 DEF Min

LEMMA MaxIs ==
  ASSUME NEW a \in Int, NEW b \in Int, NEW S, S \subseteq a .. b, S # {}
  PROVE  Max(S) \in S
<1> DEFINE X == {b - x : x \in S}
<1>1. X \in SUBSET Nat /\ X # {}
  <2>1. ASSUME NEW x \in S PROVE b - x \in Nat
    <3>1. x \in a .. b
      OBVIOUS
    <3> QED BY ONLY <3>1, a \in Int, b \in Int
  <2>2. X \subseteq Nat
    BY <2>1
  <2>3. X # {}
    OBVIOUS
  <2> QED BY <2>2, <2>3
<1> HIDE DEF X
<1>2. PICK n \in X : \A m \in X : n <= m
  BY <1>1, NatLeast
<1>3. PICK x \in S : n = b - x
  BY DEF X
<1>4. ASSUME NEW y \in S PROVE x >= y
  <2>1. b - y \in X
    BY DEF X
  <2>2. b - x <= b - y
    BY <1>2, <1>3, <2>1
  <2> QED BY <2>2
<1> QED BY <1>4 DEF Max

-----------------------------------------------------------------------------
(* The procedures of PatternNodes make good patterns.  A copy of a good     *)
(* pattern X is part of a pattern Z, from base on; t are the starts of what *)
(* is around it.                                                            *)

LEMMA ConcatIs ==
  ASSUME NEW K, NEW u \in Seq(K), NEW v \in Seq(K)
  PROVE  /\ u \o v \in Seq(K) /\ Len(u \o v) = Len(u) + Len(v)
         /\ Len(u) \in Nat /\ Len(v) \in Nat
         /\ \A i \in 1 .. Len(u) : (u \o v)[i] = u[i]
         /\ \A i \in 1 .. Len(v) : (u \o v)[Len(u) + i] = v[i]
  OBVIOUS

LEMMA UnderAppend ==
  ASSUME NEW t \in Seq(Tags), NEW s \in Seq(Tags), NEW x
  PROVE  t \o Append(s, x) = Append(t \o s, x)
<1>10. /\ t \o s \in Seq(Tags) /\ Len(t \o s) = Len(t) + Len(s) /\ Len(t) \in Nat /\ Len(s) \in Nat
       /\ \A i \in 1 .. Len(t) : (t \o s)[i] = t[i]
       /\ \A i \in 1 .. Len(s) : (t \o s)[Len(t) + i] = s[i]
  BY ConcatIs
<1>11. AnySeq(t) /\ AnySeq(s) /\ AnySeq(t \o s)
  BY <1>10, AnyElements
<1> DEFINE T == Tags \cup {x}
           u == Append(s, x)
           v == t \o u
           w == Append(t \o s, x)
<1>1. t \in Seq(T) /\ s \in Seq(T) /\ x \in T
  OBVIOUS
<1> HIDE DEF T
<1>2. u \in Seq(T) /\ Len(u) = Len(s) + 1 /\ u[Len(s) + 1] = x /\ \A i \in 1 .. Len(s) : u[i] = s[i]
  BY <1>1
<1> HIDE DEF u
<1>3. /\ v \in Seq(T) /\ Len(v) = Len(t) + (Len(s) + 1)
      /\ \A i \in 1 .. Len(t) : v[i] = t[i]
      /\ \A i \in 1 .. Len(s) + 1 : v[Len(t) + i] = u[i]
  <2>1. /\ v \in Seq(T) /\ Len(v) = Len(t) + Len(u)
        /\ \A i \in 1 .. Len(t) : v[i] = t[i]
        /\ \A i \in 1 .. Len(u) : v[Len(t) + i] = u[i]
    <3>1. t \in Seq(T) /\ u \in Seq(T)
      BY <1>1, <1>2
    <3> QED BY ONLY <3>1, ConcatIs
  <2> QED BY <1>2, <2>1
<1>4. AnySeq(w) /\ Len(w) = Len(t \o s) + 1 /\ w[Len(t \o s) + 1] = x
  BY <1>11, AnyAppend
<1>5. \A i \in 1 .. Len(t \o s) : w[i] = (t \o s)[i]
  BY <1>11, AnyAppend
<1>6. AnySeq(v)
  BY <1>3, AnyElements
<1> HIDE DEF v, w
<1>7. Len(v) = Len(w)
  BY <1>10, <1>3, <1>4
<1>8. ASSUME NEW i \in 1 .. Len(v) PROVE v[i] = w[i]
  <2>1. CASE i \in 1 .. Len(t)
    <3>1. i \in 1 .. Len(t \o s)
      BY <1>10, <2>1
    <3> QED BY <1>10, <1>3, <1>5, <2>1, <3>1
  <2>2. CASE i \in Len(t) + 1 .. Len(t) + Len(s)
    <3>1. i - Len(t) \in 1 .. Len(s) /\ Len(t) + (i - Len(t)) = i /\ i - Len(t) \in 1 .. Len(s) + 1
      BY <1>10, <2>2
    <3>2. v[i] = s[i - Len(t)]
      BY <1>2, <1>3, <3>1
    <3>3. i \in 1 .. Len(t \o s)
      BY <1>10, <2>2
    <3>4. w[i] = s[i - Len(t)]
      BY <1>10, <1>5, <3>1, <3>3
    <3> QED BY <3>2, <3>4
  <2>3. CASE i = Len(t) + (Len(s) + 1)
    <3>1. Len(s) + 1 \in 1 .. Len(s) + 1 /\ i = Len(t \o s) + 1
      BY <1>10, <2>3
    <3>2. v[Len(t) + (Len(s) + 1)] = x
      BY <1>2, <1>3, <3>1
    <3>3. w[i] = x
      BY <1>4, <3>1
    <3> QED BY <2>3, <3>2, <3>3
  <2>4. i \in 1 .. Len(t) \/ i \in Len(t) + 1 .. Len(t) + Len(s) \/ i = Len(t) + (Len(s) + 1)
    <3>1. Len(t) \in Nat /\ Len(s) \in Nat /\ Len(v) = Len(t) + (Len(s) + 1)
      BY <1>10, <1>3
    <3> QED BY ONLY <3>1, i \in 1 .. Len(v)
  <2> QED BY <2>1, <2>2, <2>3, <2>4, Zenon
<1>9. v = w
  BY <1>4, <1>6, <1>7, <1>8, AnyEqual
<1> QED BY <1>9 DEF v, w, u

LEMMA UnderLast ==
  ASSUME NEW t \in Seq(Tags), NEW s \in Seq(Tags), s # <<>>
  PROVE  /\ t \o s \in Seq(Tags) /\ t \o s # <<>> /\ Last(t \o s) = Last(s)
         /\ Front(t \o s) = t \o Front(s) /\ Front(s) \in Seq(Tags)
<1>1. /\ t \o s \in Seq(Tags) /\ Len(t \o s) = Len(t) + Len(s) /\ Len(t) \in Nat /\ Len(s) \in Nat \ {0}
      /\ \A i \in 1 .. Len(t) : (t \o s)[i] = t[i]
      /\ \A i \in 1 .. Len(s) : (t \o s)[Len(t) + i] = s[i]
  OBVIOUS
<1>2. AnySeq(t) /\ AnySeq(s) /\ AnySeq(t \o s)
  BY <1>1, AnyElements
<1>3. t \o s # <<>>
  BY <1>1
<1>4. Last(t \o s) = Last(s)
  BY <1>1 DEF Last
<1> DEFINE u == Front(s)
           x == Last(s)
<1>5. Append(u, x) = s
  BY <1>2, AnyRebuilt
<1>6. u \in Seq(Tags)
  BY <1>1 DEF Front
<1> HIDE DEF u, x
<1>7. t \o u \in Seq(Tags) /\ AnySeq(t \o u)
  <2>1. t \o u \in Seq(Tags)
    BY <1>6
  <2> QED BY <2>1, AnyElements
<1>8. t \o Append(u, x) = Append(t \o u, x)
  BY <1>6, UnderAppend
<1>9. Front(t \o s) = t \o u
  BY <1>5, <1>7, <1>8, AnyAppend
<1> QED BY <1>1, <1>3, <1>4, <1>6, <1>9 DEF u

LEMMA LeavesUnder ==
  ASSUME NEW t \in Seq(Tags), NEW s \in Seq(Tags), NEW n, Closes(n, s)
  PROVE  /\ Leaves(n, s) \in Seq(Tags) /\ Leaves(n, t \o s) = t \o Leaves(n, s)
         /\ Closes(n, t \o s)
<1>1. CASE n.fn = "NME"
  <2>1. "name" \in Tags
    BY DEF Tags
  <2>2. t \o Append(s, "name") = Append(t \o s, "name")
    BY UnderAppend
  <2>3. Leaves(n, s) = Append(s, "name") /\ Leaves(n, t \o s) = Append(t \o s, "name")
    BY <1>1 DEF Leaves
  <2>4. Append(s, "name") \in Seq(Tags)
    BY <2>1
  <2>5. Closes(n, t \o s)
    BY <1>1 DEF Closes
  <2> QED BY <2>2, <2>3, <2>4, <2>5, Zenon
<1>2. CASE n.fn = "ARBN"
  <2>1. "arbno" \in Tags
    BY DEF Tags
  <2>2. t \o Append(s, "arbno") = Append(t \o s, "arbno")
    BY UnderAppend
  <2>3. Leaves(n, s) = Append(s, "arbno") /\ Leaves(n, t \o s) = Append(t \o s, "arbno")
    BY <1>2 DEF Leaves
  <2>4. Append(s, "arbno") \in Seq(Tags)
    BY <2>1
  <2>5. Closes(n, t \o s)
    BY <1>2 DEF Closes
  <2> QED BY <2>2, <2>3, <2>4, <2>5, Zenon
<1>3. CASE n.fn \in {"ENME", "ENMI", "EARB"}
  <2>1. s # <<>>
    BY <1>3 DEF Closes
  <2>2. /\ t \o s # <<>> /\ Last(t \o s) = Last(s)
        /\ Front(t \o s) = t \o Front(s) /\ Front(s) \in Seq(Tags)
    BY <2>1, UnderLast
  <2>3. Leaves(n, s) = Front(s) /\ Leaves(n, t \o s) = Front(t \o s)
    BY <1>3 DEF Leaves
  <2>4. Closes(n, t \o s)
    BY <2>2 DEF Closes
  <2> QED BY <2>2, <2>3, <2>4, Zenon
<1>4. CASE n.fn \notin {"NME", "ARBN", "ENME", "ENMI", "EARB"}
  <2>1. Leaves(n, s) = s /\ Leaves(n, t \o s) = t \o s
    BY <1>4 DEF Leaves
  <2>2. Closes(n, t \o s)
    BY <1>4 DEF Closes
  <2> QED BY <2>1, <2>2, Zenon
<1> QED BY <1>1, <1>2, <1>3, <1>4

-----------------------------------------------------------------------------
(* A copy of X, the places of which are d, lies in Z from base on: with add *)
(* to what it needs, next after it, and under the starts t.                 *)

Copied(n, z, add, base, next) ==
    /\ z.fn = n.fn /\ z.arg = n.arg /\ z.val = n.val + add /\ z.res = n.res + add
    /\ z.or = IF n.or = 0 THEN 0 ELSE n.or + base
    /\ z.then = IF n.then = 0 THEN next ELSE n.then + base

Placed(Z, c, X, d, add, base, next, t) ==
    /\ add \in Nat /\ base \in Nat /\ next \in Nat /\ t \in Seq(Tags)
    /\ base + Len(X) <= Len(Z)
    /\ \A o \in 0 .. Len(X) - 1 : /\ Copied(X[o + 1], Z[(base + o) + 1], add, base, next)
                                  /\ c[(base + o) + 1] = t \o d[o + 1]

LEMMA GoodIs ==
  ASSUME NEW X, NEW d, NEW A, GoodPattern(X, d, A)
  PROVE  /\ Len(X) \in Nat \ {0} /\ Len(d) = Len(X) /\ d \in Seq(Seq(Tags))
         /\ \A o \in 0 .. Len(X) - 1 :
              /\ X[o + 1].fn \in Fns /\ X[o + 1].then \in 0 .. Len(X) - 1
              /\ X[o + 1].or \in 0 .. Len(X) - 1 /\ X[o + 1].val \in Nat /\ X[o + 1].res \in Nat
              /\ d[o + 1] \in Seq(Tags) /\ NodeGood(X, d, o)
<1>1. PICK S : X \in Seq(NodesWith(S))
  BY DEF GoodPattern
<1>2. d \in Seq(Seq(Tags)) /\ Len(d) = Len(X) /\ Len(X) \in Nat
  BY <1>1 DEF GoodPattern
<1>3. 0 \in A /\ \A o \in A : o \in 0 .. Len(X) - 1
  BY DEF GoodPattern, FirstGood
<1>4. Len(X) # 0
  BY <1>2, <1>3
<1>5. ASSUME NEW o \in 0 .. Len(X) - 1
      PROVE  /\ X[o + 1].fn \in Fns /\ X[o + 1].then \in 0 .. Len(X) - 1
             /\ X[o + 1].or \in 0 .. Len(X) - 1 /\ X[o + 1].val \in Nat /\ X[o + 1].res \in Nat
             /\ d[o + 1] \in Seq(Tags) /\ NodeGood(X, d, o)
  <2>1. o + 1 \in 1 .. Len(X)
    BY <1>2
  <2>2. X[o + 1] \in NodesWith(S) /\ d[o + 1] \in Seq(Tags)
    BY <1>1, <1>2, <2>1
  <2>3. /\ X[o + 1].fn \in Fns /\ X[o + 1].then \in Nat /\ X[o + 1].or \in Nat
        /\ X[o + 1].val \in Nat /\ X[o + 1].res \in Nat
    BY <2>2 DEF NodesWith
  <2>4. NodeGood(X, d, o)
    BY DEF GoodPattern
  <2>5. X[o + 1].then < Len(X) /\ X[o + 1].or < Len(X)
    BY <2>4 DEF NodeGood
  <2> QED BY <1>2, <2>2, <2>3, <2>4, <2>5
<1> QED BY <1>2, <1>4, <1>5

LEMMA PlacedRole ==
  ASSUME NEW X, NEW d, NEW A, GoodPattern(X, d, A), NEW Z, NEW c, NEW add, NEW base, NEW next, NEW t,
         Placed(Z, c, X, d, add, base, next, t), NEW o \in 0 .. Len(X) - 1
  PROVE  Role(Z, base + o) = Role(X, o)
<1> DEFINE n == X[o + 1]
           z == Z[(base + o) + 1]
<1>1. Copied(n, z, add, base, next) /\ base \in Nat
  BY DEF Placed
<1>2. n.or \in 0 .. Len(X) - 1 /\ Len(X) \in Nat
  BY GoodIs
<1>3. z.fn = n.fn /\ z.or = IF n.or = 0 THEN 0 ELSE n.or + base
  BY <1>1 DEF Copied
<1>4. n.or # 0 => z.or # 0 /\ Z[z.or + 1].fn = X[n.or + 1].fn
  <2> SUFFICES ASSUME n.or # 0 PROVE z.or # 0 /\ Z[z.or + 1].fn = X[n.or + 1].fn
    OBVIOUS
  <2>1. z.or = base + n.or
    BY <1>1, <1>2, <1>3
  <2>2. Copied(X[n.or + 1], Z[(base + n.or) + 1], add, base, next)
    BY <1>2 DEF Placed
  <2>3. z.or # 0
    BY <1>1, <1>2, <2>1
  <2> QED BY <2>1, <2>2, <2>3 DEF Copied
<1>5. n.or = 0 => z.or = 0
  BY <1>3
<1>6. Role(X, o) = IF n.fn = "ARBF" THEN "ARBF"
        ELSE IF n.fn \in {"ONAR", "ONRF"} THEN "ONAR"
        ELSE IF n.fn = "DSAR" THEN "DSAR"
        ELSE IF n.fn = "SCOK" /\ n.or # 0 /\ X[n.or + 1].fn \in {"ONAR", "DSAR"} THEN X[n.or + 1].fn
        ELSE "plain"
  BY Zenon DEF Role
<1>7. Role(Z, base + o) = IF z.fn = "ARBF" THEN "ARBF"
        ELSE IF z.fn \in {"ONAR", "ONRF"} THEN "ONAR"
        ELSE IF z.fn = "DSAR" THEN "DSAR"
        ELSE IF z.fn = "SCOK" /\ z.or # 0 /\ Z[z.or + 1].fn \in {"ONAR", "DSAR"} THEN Z[z.or + 1].fn
        ELSE "plain"
  BY Zenon DEF Role
<1> HIDE DEF n, z
<1> QED BY <1>3, <1>4, <1>5, <1>6, <1>7

LEMMA PlacedPlain ==
  ASSUME NEW X, NEW d, NEW A, GoodPattern(X, d, A), NEW Z, NEW c, NEW add, NEW base, NEW next, NEW t,
         Placed(Z, c, X, d, add, base, next, t), NEW o \in 0 .. Len(X) - 1, NEW s, Plain(X, d, o, s)
  PROVE  Plain(Z, c, base + o, t \o s)
<1>1. Role(Z, base + o) = Role(X, o)
  BY PlacedRole
<1>2. c[(base + o) + 1] = t \o d[o + 1]
  BY DEF Placed
<1> QED BY <1>1, <1>2 DEF Plain

\* What follows a pattern that ends: the next node, with the same starts, or nothing.
Goes(Z, c, next, t) ==
    IF next = 0 THEN t = <<>> ELSE next < Len(Z) /\ Plain(Z, c, next, t)

LEMMA PlacedLinks ==
  ASSUME NEW X, NEW d, NEW A, GoodPattern(X, d, A), NEW Z, NEW c, NEW add, NEW base, NEW next, NEW t,
         Placed(Z, c, X, d, add, base, next, t), NEW o \in 0 .. Len(X) - 1,
         Goes(Z, c, next, t), Len(Z) \in Nat
  PROVE  /\ Z[(base + o) + 1].then < Len(Z) /\ Z[(base + o) + 1].or < Len(Z)
         /\ ThenGood(Z, c, base + o) /\ OrGood(Z, c, base + o)
         /\ Closes(Z[(base + o) + 1], c[(base + o) + 1])
<1> DEFINE n == X[o + 1]
           z == Z[(base + o) + 1]
           s == d[o + 1]
<1>1. /\ Copied(n, z, add, base, next) /\ base \in Nat /\ next \in Nat /\ t \in Seq(Tags)
      /\ base + Len(X) <= Len(Z) /\ c[(base + o) + 1] = t \o s
  BY DEF Placed
<1>2. /\ n.or \in 0 .. Len(X) - 1 /\ n.then \in 0 .. Len(X) - 1 /\ Len(X) \in Nat \ {0}
      /\ s \in Seq(Tags) /\ NodeGood(X, d, o)
  BY GoodIs
<1>3. /\ z.fn = n.fn /\ z.or = IF n.or = 0 THEN 0 ELSE n.or + base
      /\ z.then = IF n.then = 0 THEN next ELSE n.then + base
  BY <1>1 DEF Copied
<1>4. Closes(n, s) /\ ThenGood(X, d, o) /\ OrGood(X, d, o)
  BY <1>2 DEF NodeGood
<1>5. Leaves(n, s) \in Seq(Tags) /\ Leaves(n, t \o s) = t \o Leaves(n, s) /\ Closes(n, t \o s)
  BY <1>1, <1>2, <1>4, LeavesUnder
<1>6. Leaves(z, t \o s) = t \o Leaves(n, s) /\ Closes(z, t \o s)
  BY <1>3, <1>5, Zenon DEF Leaves, Closes
<1>7. next < Len(Z)
  BY <1>1, <1>2 DEF Goes
<1>8. z.then < Len(Z)
  <2> HIDE DEF n, z, s
  <2> QED BY <1>1, <1>2, <1>3, <1>7
<1>9. z.or < Len(Z)
  <2> HIDE DEF n, z, s
  <2> QED BY <1>1, <1>2, <1>3
<1>10. Role(Z, base + o) = Role(X, o)
  BY PlacedRole
<1>11. ThenGood(Z, c, base + o)
  <2>1. CASE n.fn \in {"STAR", "DSAR", "EARB", "ARBF", "ONRF"}
    <3>1. z.fn \in {"STAR", "DSAR", "EARB", "ARBF", "ONRF"}
      BY <1>3, <2>1
    <3> QED BY <3>1 DEF ThenGood
  <2>2. CASE n.fn \notin {"STAR", "DSAR", "EARB", "ARBF", "ONRF"} /\ n.then = 0
    <3>1. Leaves(n, s) = <<>>
      BY <1>4, <2>2 DEF ThenGood
    <3>2. Leaves(z, t \o s) = t
      BY <1>1, <1>6, <3>1
    <3>3. z.then = next
      BY <1>3, <2>2
    <3>4. IF z.then = 0 THEN Leaves(z, t \o s) = <<>> ELSE Plain(Z, c, z.then, Leaves(z, t \o s))
      BY <3>2, <3>3, Zenon DEF Goes
    <3> QED BY <1>1, <3>4, Zenon DEF ThenGood
  <2>3. CASE n.fn \notin {"STAR", "DSAR", "EARB", "ARBF", "ONRF"} /\ n.then # 0
    <3>1. Plain(X, d, n.then, Leaves(n, s))
      BY <1>4, <2>3 DEF ThenGood
    <3>2. Plain(Z, c, base + n.then, t \o Leaves(n, s))
      BY <1>2, <3>1, PlacedPlain
    <3>3. z.then = base + n.then /\ z.then # 0
      <4> HIDE DEF n, z
      <4> QED BY <1>1, <1>2, <1>3, <2>3
    <3>4. IF z.then = 0 THEN Leaves(z, t \o s) = <<>> ELSE Plain(Z, c, z.then, Leaves(z, t \o s))
      BY <1>6, <3>2, <3>3, Zenon
    <3> QED BY <1>1, <3>4, Zenon DEF ThenGood
  <2> QED BY <2>1, <2>2, <2>3
<1>12. OrGood(Z, c, base + o)
  <2>1. CASE Role(X, o) # "plain" \/ n.fn = "ARBN" \/ n.or = 0
    <3>1. Role(Z, base + o) # "plain" \/ z.fn = "ARBN" \/ z.or = 0
      BY <1>3, <1>10, <2>1, Zenon
    <3> QED BY <3>1, Zenon DEF OrGood
  <2>2. CASE n.or # 0 /\ Plain(X, d, n.or, s)
    <3>1. Plain(Z, c, base + n.or, t \o s)
      BY <1>2, <2>2, PlacedPlain
    <3>2. z.or = base + n.or
      <4> HIDE DEF n, z
      <4> QED BY <1>1, <1>2, <1>3, <2>2
    <3> QED BY <1>1, <3>1, <3>2, Zenon DEF OrGood
  <2> QED BY <1>4, <2>1, <2>2, Zenon DEF OrGood
<1> QED BY <1>1, <1>6, <1>8, <1>9, <1>11, <1>12

LEMMA PlacedFits ==
  ASSUME NEW n, NEW z, NEW add \in Nat, NEW base, NEW next, Copied(n, z, add, base, next), n.val \in Nat,
         Fits(n)
  PROVE  Fits(z)
<1>1. z.fn = n.fn /\ z.arg = n.arg /\ z.val = n.val + add
  BY DEF Copied
<1>2. n.fn = "CHR" => AnySeq(z.arg) /\ Len(z.arg) <= z.val
  <2> SUFFICES ASSUME n.fn = "CHR" PROVE AnySeq(z.arg) /\ Len(z.arg) <= z.val
    OBVIOUS
  <2>1. AnySeq(n.arg) /\ Len(n.arg) <= n.val
    BY DEF Fits
  <2>2. Len(n.arg) \in Nat
    BY <2>1 DEF AnySeq
  <2>3. Len(n.arg) <= n.val + add
    BY <2>1, <2>2
  <2> QED BY <1>1, <2>1, <2>3
<1>3. n.fn \in {"ANYC", "NNYC"} => z.val >= 1
  <2> SUFFICES ASSUME n.fn \in {"ANYC", "NNYC"} PROVE z.val >= 1
    OBVIOUS
  <2>1. n.val >= 1
    BY DEF Fits
  <2> QED BY <1>1, <2>1
<1>4. n.fn \in Measuring => z.arg \in Nat /\ z.arg # NotInteger
  BY <1>1, Zenon DEF Fits
<1>5. n.fn = "ENMI" => z.arg # Keyword
  BY <1>1, Zenon DEF Fits
<1> QED BY <1>1, <1>2, <1>3, <1>4, <1>5 DEF Fits

\* The node that is the i-th of X is the j-th of Z.
Same(X, base, i, j) == i \in 1 .. Len(X) /\ j = base + i

LEMMA PlacedAt ==
  ASSUME NEW X, NEW d, NEW A, GoodPattern(X, d, A), NEW Z, NEW c, NEW add, NEW base, NEW next, NEW t,
         Placed(Z, c, X, d, add, base, next, t), NEW i, NEW j, Same(X, base, i, j)
  PROVE  /\ Copied(X[i], Z[j], add, base, next)
         /\ c[j] = t \o d[i] /\ d[i] \in Seq(Tags) /\ j <= Len(Z)
<1>1. base \in Nat /\ base + Len(X) <= Len(Z)
  BY DEF Placed
<1>2. Len(X) \in Nat /\ i \in 1 .. Len(X) /\ j = base + i
  BY GoodIs DEF Same
<1> DEFINE q == i - 1
<1>3. q \in 0 .. Len(X) - 1 /\ q + 1 = i /\ (base + q) + 1 = j
  BY <1>1, <1>2
<1> HIDE DEF q
<1>4. Copied(X[q + 1], Z[(base + q) + 1], add, base, next) /\ c[(base + q) + 1] = t \o d[q + 1]
  BY <1>3 DEF Placed
<1>5. d[q + 1] \in Seq(Tags)
  BY <1>3, GoodIs
<1>6. j <= Len(Z)
  BY <1>1, <1>2
<1> QED BY <1>3, <1>4, <1>5, <1>6

LEMMA PlacedARBN ==
  ASSUME NEW X, NEW d, NEW A, GoodPattern(X, d, A), NEW Z, NEW c, NEW add, NEW base, NEW next, NEW t,
         Placed(Z, c, X, d, add, base, next, t), NEW o \in 0 .. Len(X) - 1, ARBNGood(X, d, o)
  PROVE  ARBNGood(Z, c, base + o)
<1>1. /\ o + 2 <= Len(X) /\ X[o + 1].or = o + 1
      /\ X[o + 2].fn = "ARBF" /\ X[o + 2].or = 0 /\ X[o + 2].val = X[o + 1].val
      /\ d[o + 2] = Append(d[o + 1], "arbno")
  BY DEF ARBNGood
<1>2. base \in Nat /\ t \in Seq(Tags)
  BY DEF Placed
<1>3. Len(X) \in Nat /\ o \in Nat /\ o + 1 <= Len(X)
  BY GoodIs
<1>31. Same(X, base, o + 1, (base + o) + 1)
  BY <1>2, <1>3 DEF Same
<1>4. /\ Copied(X[o + 1], Z[(base + o) + 1], add, base, next)
      /\ c[(base + o) + 1] = t \o d[o + 1] /\ d[o + 1] \in Seq(Tags)
  BY <1>31, PlacedAt
<1>32. Same(X, base, o + 2, (base + o) + 2)
  BY <1>1, <1>2, <1>3 DEF Same
<1>5. /\ Copied(X[o + 2], Z[(base + o) + 2], add, base, next)
      /\ c[(base + o) + 2] = t \o d[o + 2] /\ (base + o) + 2 <= Len(Z)
  BY <1>32, PlacedAt
<1>6. c[(base + o) + 2] = Append(c[(base + o) + 1], "arbno")
  <2>1. t \o Append(d[o + 1], "arbno") = Append(t \o d[o + 1], "arbno")
    BY <1>2, <1>4, UnderAppend
  <2> QED BY <1>1, <1>4, <1>5, <2>1, Zenon
<1>7. Z[(base + o) + 1].or = (base + o) + 1
  BY <1>1, <1>2, <1>3, <1>4 DEF Copied
<1>8. /\ Z[(base + o) + 2].fn = "ARBF" /\ Z[(base + o) + 2].or = 0
      /\ Z[(base + o) + 2].val = Z[(base + o) + 1].val
  BY <1>1, <1>4, <1>5 DEF Copied
<1> QED BY <1>5, <1>6, <1>7, <1>8 DEF ARBNGood

Moved(or, base) == IF or = 0 THEN 0 ELSE or + base

LEMMA PlacedEARB ==
  ASSUME NEW X, NEW d, NEW A, GoodPattern(X, d, A), NEW Z, NEW c, NEW add, NEW base, NEW next, NEW t,
         Placed(Z, c, X, d, add, base, next, t), NEW o \in 0 .. Len(X) - 1, EARBGood(X, d, o),
         d[o + 1] # <<>>
  PROVE  EARBGood(Z, c, base + o)
<1>1. /\ o + 4 <= Len(X) /\ X[o + 1].then = o + 1
      /\ X[o + 2].fn = "SCOK" /\ X[o + 2].or = o + 2
      /\ X[o + 3].fn = "ONAR" /\ X[o + 3].or = o + 3
      /\ X[o + 4].fn = "ONRF" /\ X[o + 4].or = 0
      /\ \A k \in 2 .. 4 : X[o + k].val = X[o + 1].val /\ d[o + k] = Front(d[o + 1])
  BY DEF EARBGood
<1>2. base \in Nat /\ t \in Seq(Tags)
  BY DEF Placed
<1>3. Len(X) \in Nat /\ o \in Nat /\ o + 1 <= Len(X)
  BY GoodIs
<1>30. o + 4 <= Len(X)
  BY <1>1
<1>31. Same(X, base, o + 1, (base + o) + 1)
  BY <1>2, <1>3 DEF Same
<1>4. /\ Copied(X[o + 1], Z[(base + o) + 1], add, base, next)
      /\ c[(base + o) + 1] = t \o d[o + 1] /\ d[o + 1] \in Seq(Tags)
  BY <1>31, PlacedAt
<1>32. Same(X, base, o + 2, (base + o) + 2)
  BY <1>2, <1>3, <1>30 DEF Same
<1>5. /\ Copied(X[o + 2], Z[(base + o) + 2], add, base, next) /\ c[(base + o) + 2] = t \o d[o + 2]
  BY <1>32, PlacedAt
<1>33. Same(X, base, o + 3, (base + o) + 3)
  BY <1>2, <1>3, <1>30 DEF Same
<1>6. /\ Copied(X[o + 3], Z[(base + o) + 3], add, base, next) /\ c[(base + o) + 3] = t \o d[o + 3]
  BY <1>33, PlacedAt
<1>34. Same(X, base, o + 4, (base + o) + 4)
  BY <1>2, <1>3, <1>30 DEF Same
<1>7. /\ Copied(X[o + 4], Z[(base + o) + 4], add, base, next) /\ c[(base + o) + 4] = t \o d[o + 4]
      /\ (base + o) + 4 <= Len(Z)
  BY <1>34, PlacedAt
<1>8. Front(t \o d[o + 1]) = t \o Front(d[o + 1])
  BY <1>2, <1>4, UnderLast
<1>9. ASSUME NEW k \in 2 .. 4
      PROVE  /\ Z[(base + o) + k].val = Z[(base + o) + 1].val
             /\ c[(base + o) + k] = Front(c[(base + o) + 1])
  <2>1. Copied(X[o + k], Z[(base + o) + k], add, base, next) /\ c[(base + o) + k] = t \o d[o + k]
    <3>1. Same(X, base, o + k, (base + o) + k)
      BY <1>2, <1>3, <1>30 DEF Same
    <3> DEFINE i == o + k
               j == (base + o) + k
    <3>2. Same(X, base, i, j)
      BY <3>1
    <3> HIDE DEF i, j
    <3>3. Copied(X[i], Z[j], add, base, next) /\ c[j] = t \o d[i]
      BY <3>2, PlacedAt
    <3> QED BY <3>3 DEF i, j
  <2>2. X[o + k].val = X[o + 1].val /\ d[o + k] = Front(d[o + 1])
    BY <1>1
  <2>3. c[(base + o) + k] = Front(c[(base + o) + 1])
    BY <1>4, <1>8, <2>1, <2>2, Zenon
  <2> QED BY <1>4, <2>1, <2>2, <2>3 DEF Copied
<1>10. Z[(base + o) + 1].then = (base + o) + 1
  BY <1>1, <1>2, <1>3, <1>4 DEF Copied
<1>11. /\ Z[(base + o) + 2].fn = "SCOK" /\ Z[(base + o) + 2].or = (base + o) + 2
       /\ Z[(base + o) + 3].fn = "ONAR" /\ Z[(base + o) + 3].or = (base + o) + 3
       /\ Z[(base + o) + 4].fn = "ONRF" /\ Z[(base + o) + 4].or = 0
  <2>1. /\ Z[(base + o) + 2].fn = X[o + 2].fn /\ Z[(base + o) + 2].or = Moved(X[o + 2].or, base)
        /\ Z[(base + o) + 3].fn = X[o + 3].fn /\ Z[(base + o) + 3].or = Moved(X[o + 3].or, base)
        /\ Z[(base + o) + 4].fn = X[o + 4].fn /\ Z[(base + o) + 4].or = Moved(X[o + 4].or, base)
    BY <1>5, <1>6, <1>7, Zenon DEF Copied, Moved
  <2>2. /\ Moved(o + 2, base) = (base + o) + 2 /\ Moved(o + 3, base) = (base + o) + 3
        /\ Moved(0, base) = 0
    BY <1>2, <1>3 DEF Moved
  <2> QED BY <1>1, <2>1, <2>2, Zenon
<1> QED BY <1>7, <1>9, <1>10, <1>11 DEF EARBGood

LEMMA PlacedSTAR ==
  ASSUME NEW X, NEW d, NEW A, GoodPattern(X, d, A), NEW Z, NEW c, NEW add, NEW base, NEW next, NEW t,
         Placed(Z, c, X, d, add, base, next, t), NEW o \in 0 .. Len(X) - 1, STARGood(X, d, o)
  PROVE  STARGood(Z, c, base + o)
<1>1. /\ o + 3 <= Len(X) /\ X[o + 1].then = o + 1 /\ X[o + 1].arg \in Names
      /\ X[o + 2].fn = "SCOK" /\ X[o + 2].or = o + 2 /\ X[o + 2].val = X[o + 1].res
      /\ X[o + 3].fn = "DSAR" /\ X[o + 3].or = 0 /\ X[o + 3].then = o + 1
      /\ X[o + 3].val = X[o + 1].res /\ X[o + 3].res = X[o + 1].res /\ X[o + 3].arg = X[o + 1].arg
      /\ d[o + 2] = d[o + 1] /\ d[o + 3] = d[o + 1]
  BY DEF STARGood
<1>2. base \in Nat /\ t \in Seq(Tags)
  BY DEF Placed
<1>3. Len(X) \in Nat /\ o \in Nat /\ o + 1 <= Len(X)
  BY GoodIs
<1>31. Same(X, base, o + 1, (base + o) + 1)
  BY <1>2, <1>3 DEF Same
<1>4. /\ Copied(X[o + 1], Z[(base + o) + 1], add, base, next) /\ c[(base + o) + 1] = t \o d[o + 1]
  BY <1>31, PlacedAt
<1>32. Same(X, base, o + 2, (base + o) + 2)
  BY <1>1, <1>2, <1>3 DEF Same
<1>5. /\ Copied(X[o + 2], Z[(base + o) + 2], add, base, next) /\ c[(base + o) + 2] = t \o d[o + 2]
  BY <1>32, PlacedAt
<1>33. Same(X, base, o + 3, (base + o) + 3)
  BY <1>1, <1>2, <1>3 DEF Same
<1>6. /\ Copied(X[o + 3], Z[(base + o) + 3], add, base, next) /\ c[(base + o) + 3] = t \o d[o + 3]
      /\ (base + o) + 3 <= Len(Z)
  BY <1>33, PlacedAt
<1>7. c[(base + o) + 2] = c[(base + o) + 1] /\ c[(base + o) + 3] = c[(base + o) + 1]
  BY <1>1, <1>4, <1>5, <1>6, Zenon
<1>8. Z[(base + o) + 1].then = (base + o) + 1 /\ Z[(base + o) + 1].arg \in Names
  BY <1>1, <1>2, <1>3, <1>4 DEF Copied
<1>9. /\ Z[(base + o) + 2].fn = "SCOK" /\ Z[(base + o) + 2].or = (base + o) + 2
      /\ Z[(base + o) + 2].val = Z[(base + o) + 1].res
  BY <1>1, <1>2, <1>3, <1>4, <1>5 DEF Copied
<1>10. /\ Z[(base + o) + 3].fn = "DSAR" /\ Z[(base + o) + 3].or = 0 /\ Z[(base + o) + 3].then = (base + o) + 1
       /\ Z[(base + o) + 3].val = Z[(base + o) + 1].res /\ Z[(base + o) + 3].res = Z[(base + o) + 1].res
       /\ Z[(base + o) + 3].arg = Z[(base + o) + 1].arg
  BY <1>1, <1>2, <1>3, <1>4, <1>6 DEF Copied
<1> QED BY <1>6, <1>7, <1>8, <1>9, <1>10 DEF STARGood

LEMMA PlacedAround ==
  ASSUME NEW X, NEW d, NEW A, GoodPattern(X, d, A), NEW Z, NEW c, NEW add, NEW base, NEW next, NEW t,
         Placed(Z, c, X, d, add, base, next, t), NEW o \in 0 .. Len(X) - 1
  PROVE  Around(Z, c, base + o)
<1> DEFINE n == X[o + 1]
           z == Z[(base + o) + 1]
<1>1. Copied(n, z, add, base, next) /\ base \in Nat
  BY DEF Placed
<1>2. Around(X, d, o) /\ Closes(n, d[o + 1])
  BY GoodIs DEF NodeGood
<1>3. z.fn = n.fn
  BY <1>1 DEF Copied
<1>4. Role(Z, base + o) = Role(X, o)
  BY PlacedRole
<1>5. Len(X) \in Nat /\ o \in 0 .. Len(X) - 1
  BY GoodIs
<1>6. o >= 1 => base + o >= 1 /\ Z[base + o].fn = X[o].fn
  <2> SUFFICES ASSUME o >= 1 PROVE base + o >= 1 /\ Z[base + o].fn = X[o].fn
    OBVIOUS
  <2>1. Same(X, base, o, base + o) /\ base + o >= 1
    BY <1>1, <1>5 DEF Same
  <2>2. Copied(X[o], Z[base + o], add, base, next)
    BY <2>1, PlacedAt
  <2> QED BY <2>1, <2>2 DEF Copied
<1>7. o >= 2 => base + o >= 2 /\ Z[(base + o) - 1].fn = X[o - 1].fn
  <2> SUFFICES ASSUME o >= 2 PROVE base + o >= 2 /\ Z[(base + o) - 1].fn = X[o - 1].fn
    OBVIOUS
  <2>1. Same(X, base, o - 1, (base + o) - 1) /\ base + o >= 2
    BY <1>1, <1>5 DEF Same
  <2>2. Copied(X[o - 1], Z[(base + o) - 1], add, base, next)
    BY <2>1, PlacedAt
  <2> QED BY <2>1, <2>2 DEF Copied
<1>8. o >= 3 => base + o >= 3 /\ Z[(base + o) - 2].fn = X[o - 2].fn
  <2> SUFFICES ASSUME o >= 3 PROVE base + o >= 3 /\ Z[(base + o) - 2].fn = X[o - 2].fn
    OBVIOUS
  <2>1. Same(X, base, o - 2, (base + o) - 2) /\ base + o >= 3
    BY <1>1, <1>5 DEF Same
  <2>2. Copied(X[o - 2], Z[(base + o) - 2], add, base, next)
    BY <2>1, PlacedAt
  <2> QED BY <2>1, <2>2 DEF Copied
<1>9. n.fn = "ARBN" => ARBNGood(Z, c, base + o)
  BY <1>2, PlacedARBN DEF Around
<1>10. n.fn = "EARB" => EARBGood(Z, c, base + o)
  BY <1>2, PlacedEARB DEF Around, Closes
<1>11. n.fn = "STAR" => STARGood(Z, c, base + o)
  BY <1>2, PlacedSTAR DEF Around
<1>12. n.fn = "ARBF" => base + o >= 1 /\ Z[base + o].fn = "ARBN"
  BY <1>2, <1>6 DEF Around
<1>13. n.fn = "ONAR" => base + o >= 2 /\ Z[(base + o) - 1].fn = "EARB"
  BY <1>2, <1>7 DEF Around
<1>14. n.fn = "ONRF" => base + o >= 3 /\ Z[(base + o) - 2].fn = "EARB"
  BY <1>2, <1>8 DEF Around
<1>15. n.fn = "DSAR" => base + o >= 2 /\ Z[(base + o) - 1].fn = "STAR"
  BY <1>2, <1>7 DEF Around
<1>16. (n.fn = "SCOK" /\ Role(Z, base + o) = "ONAR") => base + o >= 1 /\ Z[base + o].fn = "EARB"
  BY <1>2, <1>4, <1>6 DEF Around
<1>17. (n.fn = "SCOK" /\ Role(Z, base + o) = "DSAR") => base + o >= 1 /\ Z[base + o].fn = "STAR"
  BY <1>2, <1>4, <1>6 DEF Around
<1> QED BY <1>3, <1>9, <1>10, <1>11, <1>12, <1>13, <1>14, <1>15, <1>16, <1>17, Zenon DEF Around

LEMMA PlacedGood ==
  ASSUME NEW X, NEW d, NEW A, GoodPattern(X, d, A), NEW Z, NEW c, NEW add, NEW base, NEW next, NEW t,
         Placed(Z, c, X, d, add, base, next, t), NEW o \in 0 .. Len(X) - 1,
         Goes(Z, c, next, t), Len(Z) \in Nat
  PROVE  NodeGood(Z, c, base + o)
<1>1. Fits(Z[(base + o) + 1])
  <2>1. Copied(X[o + 1], Z[(base + o) + 1], add, base, next) /\ add \in Nat
    BY DEF Placed
  <2>2. X[o + 1].val \in Nat /\ Fits(X[o + 1])
    BY GoodIs DEF NodeGood
  <2> QED BY <2>1, <2>2, PlacedFits
<1>2. Around(Z, c, base + o)
  BY PlacedAround
<1>3. /\ Z[(base + o) + 1].then < Len(Z) /\ Z[(base + o) + 1].or < Len(Z)
      /\ ThenGood(Z, c, base + o) /\ OrGood(Z, c, base + o)
      /\ Closes(Z[(base + o) + 1], c[(base + o) + 1])
  BY PlacedLinks
<1> QED BY <1>1, <1>2, <1>3, Zenon DEF NodeGood

-----------------------------------------------------------------------------
(* What CPYPAT and LVALUE make.                                             *)

LEMMA CopyIs ==
  ASSUME NEW S, NEW X \in Seq(NodesWith(S)), NEW add \in Nat, NEW base \in Nat, NEW next \in Nat
  PROVE  /\ CPYPAT(X, add, base, next) \in Seq(NodesWith(S))
         /\ Len(CPYPAT(X, add, base, next)) = Len(X)
         /\ \A i \in 1 .. Len(X) : Copied(X[i], CPYPAT(X, add, base, next)[i], add, base, next)
<1> DEFINE Y == CPYPAT(X, add, base, next)
           Copy(n) == [n EXCEPT !.or = IF @ = 0 THEN 0 ELSE @ + base,
                                !.then = IF @ = 0 THEN next ELSE @ + base,
                                !.val = @ + add, !.res = @ + add]
<1>1. ASSUME NEW n \in NodesWith(S)
      PROVE  Copy(n) \in NodesWith(S) /\ Copied(n, Copy(n), add, base, next)
  <2> DEFINE e == IF n.or = 0 THEN 0 ELSE n.or + base
             f == IF n.then = 0 THEN next ELSE n.then + base
             g == n.val + add
             h == n.res + add
             y == [n EXCEPT !.or = e, !.then = f, !.val = g, !.res = h]
  <2>1. n.fn \in Fns /\ n.then \in Nat /\ n.or \in Nat /\ n.val \in Nat /\ n.res \in Nat /\ n.arg \in S
    BY DEF NodesWith
  <2>2. Copy(n) = y
    OBVIOUS
  <2>3. e \in Nat /\ f \in Nat /\ g \in Nat /\ h \in Nat
    <3>1. e \in Nat
      BY <2>1
    <3>2. f \in Nat
      BY <2>1
    <3>3. g \in Nat /\ h \in Nat
      BY <2>1
    <3> QED BY <3>1, <3>2, <3>3, Zenon
  <2>4. e = (IF n.or = 0 THEN 0 ELSE n.or + base) /\ f = (IF n.then = 0 THEN next ELSE n.then + base)
        /\ g = n.val + add /\ h = n.res + add
    OBVIOUS
  <2> HIDE DEF e, f, g, h
  <2>5. y \in NodesWith(S)
    BY ONLY <2>3, n \in NodesWith(S) DEF NodesWith
  <2>6. y.fn = n.fn /\ y.then = f /\ y.or = e /\ y.val = g /\ y.res = h /\ y.arg = n.arg
    BY ONLY <2>3, n \in NodesWith(S) DEF NodesWith
  <2> HIDE DEF y
  <2>7. Copied(n, y, add, base, next)
    BY <2>4, <2>6 DEF Copied
  <2> QED BY <2>2, <2>5, <2>7, Zenon
<1>2. Y = [i \in 1 .. Len(X) |-> Copy(X[i])]
  BY DEF CPYPAT
<1> HIDE DEF Copy
<1>3. \A i \in 1 .. Len(X) : X[i] \in NodesWith(S)
  OBVIOUS
<1>4. Y \in [1 .. Len(X) -> NodesWith(S)] /\ Len(X) \in Nat
  BY <1>1, <1>2, <1>3
<1> HIDE DEF Y
<1>5. Y \in Seq(NodesWith(S)) /\ Len(Y) = Len(X)
  BY <1>4
<1>6. \A i \in 1 .. Len(X) : Copied(X[i], Y[i], add, base, next)
  BY <1>1, <1>2, <1>3
<1> QED BY <1>5, <1>6 DEF Y

LEMMA Placing ==
  ASSUME NEW X, NEW d, NEW A, GoodPattern(X, d, A), NEW Y, NEW Z, NEW c,
         NEW add \in Nat, NEW base \in Nat, NEW next \in Nat, NEW t \in Seq(Tags),
         Y = CPYPAT(X, add, base, next), base + Len(X) <= Len(Z),
         \A i \in 1 .. Len(X) : Z[base + i] = Y[i] /\ c[base + i] = t \o d[i]
  PROVE  Placed(Z, c, X, d, add, base, next, t)
<1>1. PICK S : X \in Seq(NodesWith(S))
  BY DEF GoodPattern
<1>2. \A i \in 1 .. Len(X) : Copied(X[i], Y[i], add, base, next)
  BY <1>1, CopyIs
<1>3. Len(X) \in Nat
  BY GoodIs
<1>4. ASSUME NEW o \in 0 .. Len(X) - 1
      PROVE  /\ Copied(X[o + 1], Z[(base + o) + 1], add, base, next)
             /\ c[(base + o) + 1] = t \o d[o + 1]
  <2>1. o + 1 \in 1 .. Len(X) /\ base + (o + 1) = (base + o) + 1
    BY <1>3
  <2>2. Z[base + (o + 1)] = Y[o + 1] /\ c[base + (o + 1)] = t \o d[o + 1]
    BY <2>1
  <2>3. Copied(X[o + 1], Y[o + 1], add, base, next)
    BY <1>2, <2>1
  <2> QED BY <2>1, <2>2, <2>3
<1> QED BY <1>4 DEF Placed

LEMMA NatMin ==
  ASSUME NEW S \in SUBSET Nat, S # {}
  PROVE  Min(S) \in Nat
<1>1. \E n \in S : \A m \in S : n <= m
  BY NatLeast
<1>2. Min(S) \in S
  BY <1>1 DEF Min
<1> QED BY <1>2

\* The list of alternatives of the first node.
Listed(P, n, f) ==
    f = [i \in 1 .. n |-> i = 1 \/ \E j \in 1 .. i - 1 : P[j].or = i - 1 /\ f[j]]

LEMMA ListedExists ==
  ASSUME NEW P, NEW n \in Nat
  PROVE  \E f : Listed(P, n, f)
<1> DEFINE X == {k \in Nat : ~ \E f : Listed(P, k, f)}
<1>1. SUFFICES X = {}
  OBVIOUS
<1>2. SUFFICES ASSUME X # {} PROVE FALSE
  OBVIOUS
<1>3. X \in SUBSET Nat
  OBVIOUS
<1> HIDE DEF X
<1>4. PICK k \in X : \A m \in X : k <= m
  BY <1>2, <1>3, NatLeast
<1>5. k \in Nat /\ ~ \E f : Listed(P, k, f)
  BY <1>4 DEF X
<1>6. CASE k = 0
  <2> DEFINE f == [i \in 1 .. 0 |-> i = 1]
  <2>1. f = [i \in 1 .. 0 |-> i = 1 \/ \E j \in 1 .. i - 1 : P[j].or = i - 1 /\ f[j]]
    OBVIOUS
  <2>2. Listed(P, 0, f)
    BY <2>1 DEF Listed
  <2> QED BY <1>5, <1>6, <2>2
<1>7. CASE k # 0
  <2>1. k - 1 \in Nat /\ k - 1 \notin X
    BY <1>4, <1>5, <1>7
  <2>2. PICK g : Listed(P, k - 1, g)
    BY <2>1 DEF X
  <2> DEFINE E(h, i) == i = 1 \/ \E j \in 1 .. i - 1 : P[j].or = i - 1 /\ h[j]
             f == [i \in 1 .. k |-> E(g, i)]
  <2>3. g = [i \in 1 .. k - 1 |-> E(g, i)]
    BY <2>2, Zenon DEF Listed
  <2>4. \A j \in 1 .. k - 1 : f[j] = g[j]
    <3>1. \A j \in 1 .. k - 1 : g[j] = E(g, j)
      <4> HIDE DEF E
      <4> QED BY <2>3
    <3>2. \A j \in 1 .. k - 1 : j \in 1 .. k
      BY <1>5
    <3> HIDE DEF E
    <3> QED BY <3>1, <3>2
  <2>5. \A i \in 1 .. k : E(g, i) = E(f, i)
    <3> HIDE DEF f
    <3> TAKE i \in 1 .. k
    <3>1. \A j \in 1 .. i - 1 : j \in 1 .. k - 1
      BY <1>5
    <3>2. \A j \in 1 .. i - 1 : f[j] = g[j]
      BY <2>4, <3>1
    <3> QED BY <3>2, Zenon
  <2>6. f = [i \in 1 .. k |-> E(f, i)]
    <3> HIDE DEF E
    <3> QED BY <2>5, Zenon
  <2>7. Listed(P, k, f)
    <3> HIDE DEF f
    <3> QED BY <2>6, Zenon DEF Listed
  <2> QED BY <1>5, <2>7
<1> QED BY <1>6, <1>7

LEMMA AlternativesAre ==
  ASSUME NEW P, Len(P) \in Nat, DOMAIN P = 1 .. Len(P)
  PROVE  \E f : /\ Listed(P, Len(P), f)
                /\ Alternatives(P) = {i - 1 : i \in {k \in 1 .. Len(P) : f[k]}}
<1> DEFINE on == CHOOSE f : f = [i \in DOMAIN P |-> i = 1 \/ \E j \in 1 .. i - 1 : P[j].or = i - 1 /\ f[j]]
<1>1. \E f : f = [i \in DOMAIN P |-> i = 1 \/ \E j \in 1 .. i - 1 : P[j].or = i - 1 /\ f[j]]
  <2>1. PICK f : Listed(P, Len(P), f)
    BY ListedExists
  <2>2. f = [i \in DOMAIN P |-> i = 1 \/ \E j \in 1 .. i - 1 : P[j].or = i - 1 /\ f[j]]
    BY <2>1, Zenon DEF Listed
  <2> QED BY <2>2, Zenon
<1>2. on = [i \in DOMAIN P |-> i = 1 \/ \E j \in 1 .. i - 1 : P[j].or = i - 1 /\ on[j]]
  BY <1>1, Zenon
<1>3. Alternatives(P) = {i - 1 : i \in {k \in DOMAIN P : on[k]}}
  BY Zenon DEF Alternatives
<1> HIDE DEF on
<1>4. Listed(P, Len(P), on)
  BY <1>2, Zenon DEF Listed
<1> QED BY <1>3, <1>4, Zenon

LEMMA AlternativesWithin ==
  ASSUME NEW P, Len(P) \in Nat \ {0}, DOMAIN P = 1 .. Len(P), NEW B, 0 \in B,
         \A o \in B : o \in 0 .. Len(P) - 1 /\ (P[o + 1].or # 0 => P[o + 1].or \in B)
  PROVE  0 \in Alternatives(P) /\ Alternatives(P) \subseteq B
<1>1. PICK f : /\ Listed(P, Len(P), f)
               /\ Alternatives(P) = {i - 1 : i \in {k \in 1 .. Len(P) : f[k]}}
  BY AlternativesAre
<1>2. \A i \in 1 .. Len(P) : f[i] = (i = 1 \/ \E j \in 1 .. i - 1 : P[j].or = i - 1 /\ f[j])
  BY <1>1 DEF Listed
<1>3. f[1]
  <2>1. 1 \in 1 .. Len(P)
    OBVIOUS
  <2>2. f[1] = (1 = 1 \/ \E j \in 1 .. 1 - 1 : P[j].or = 1 - 1 /\ f[j])
    BY <1>2, <2>1, Zenon
  <2> QED BY <2>2, Zenon
<1>4. 0 \in Alternatives(P)
  <2>1. 1 \in {k \in 1 .. Len(P) : f[k]}
    BY <1>3
  <2> QED BY <1>1, <2>1
<1> DEFINE X == {k \in 1 .. Len(P) : f[k] /\ k - 1 \notin B}
<1>5. X = {}
  <2>1. SUFFICES ASSUME X # {} PROVE FALSE
    OBVIOUS
  <2>2. X \in SUBSET Nat
    OBVIOUS
  <2> HIDE DEF X
  <2>3. PICK k \in X : \A m \in X : k <= m
    BY <2>1, <2>2, NatLeast
  <2>4. k \in 1 .. Len(P) /\ f[k] /\ k - 1 \notin B
    BY <2>3 DEF X
  <2>5. k # 1
    BY <2>4
  <2>6. PICK j \in 1 .. k - 1 : P[j].or = k - 1 /\ f[j]
    BY <1>2, <2>4, <2>5
  <2>7. j \in 1 .. Len(P) /\ j \notin X
    BY <2>3, <2>4, <2>6
  <2>8. j - 1 \in B
    BY <2>6, <2>7 DEF X
  <2>9. P[(j - 1) + 1].or = k - 1 /\ k - 1 # 0
    BY <2>4, <2>5, <2>6
  <2> QED BY <2>4, <2>8, <2>9
<1>6. Alternatives(P) \subseteq B
  <2>1. ASSUME NEW i \in 1 .. Len(P), f[i] PROVE i - 1 \in B
    <3>1. i \notin X
      BY <1>5
    <3> QED BY <2>1, <3>1
  <2> QED BY <1>1, <2>1
<1> QED BY <1>4, <1>6

\* An end of the list that LINKOR finds.
LEMMA LastAlternative ==
  ASSUME NEW P, Len(P) \in Nat \ {0}, DOMAIN P = 1 .. Len(P), NEW B, 0 \in B,
         \A o \in B : o \in 0 .. Len(P) - 1 /\ (P[o + 1].or # 0 => P[o + 1].or \in B)
  PROVE  Max(Alternatives(P)) \in B
<1>1. 0 \in Alternatives(P) /\ Alternatives(P) \subseteq B
  BY AlternativesWithin
<1>2. Alternatives(P) \subseteq 0 .. Len(P) - 1
  BY <1>1
<1>3. Max(Alternatives(P)) \in Alternatives(P)
  BY <1>1, <1>2, MaxIs
<1> QED BY <1>1, <1>3

LEMMA FirstIs ==
  ASSUME NEW X, NEW d, NEW A, GoodPattern(X, d, A)
  PROVE  /\ Len(X) \in Nat \ {0} /\ DOMAIN X = 1 .. Len(X) /\ 0 \in A
         /\ \A o \in A : o \in 0 .. Len(X) - 1 /\ (X[o + 1].or # 0 => X[o + 1].or \in A)
<1>1. PICK S : X \in Seq(NodesWith(S))
  BY DEF GoodPattern
<1> QED BY <1>1, GoodIs DEF GoodPattern, FirstGood

LEMMA LvalueIs ==
  ASSUME NEW X, NEW d, NEW A, GoodPattern(X, d, A)
  PROVE  LVALUE(X) \in Nat
<1>1. 0 \in Alternatives(X) /\ Alternatives(X) \subseteq A
  <2>1. /\ Len(X) \in Nat \ {0} /\ DOMAIN X = 1 .. Len(X) /\ 0 \in A
        /\ \A o \in A : o \in 0 .. Len(X) - 1 /\ (X[o + 1].or # 0 => X[o + 1].or \in A)
    BY FirstIs
  <2> QED BY <2>1, AlternativesWithin
<1>2. \A o \in A : X[o + 1].val \in Nat
  BY FirstIs, GoodIs
<1> DEFINE V == {X[i + 1].val : i \in Alternatives(X)}
<1>3. V \in SUBSET Nat /\ V # {}
  BY <1>1, <1>2
<1>4. LVALUE(X) = Min(V)
  BY DEF LVALUE
<1> HIDE DEF V
<1> QED BY <1>3, <1>4, NatMin

-----------------------------------------------------------------------------
(* CON and OR.                                                              *)

LEMMA Wider ==
  ASSUME NEW S, NEW T, NEW U \in Seq(NodesWith(S)), S \subseteq T
  PROVE  U \in Seq(NodesWith(T))
<1>1. NodesWith(S) \subseteq NodesWith(T)
  BY DEF NodesWith
<1> HIDE DEF NodesWith
<1>2. Len(U) \in Nat /\ U \in [1 .. Len(U) -> NodesWith(S)]
  OBVIOUS
<1>3. \A i \in 1 .. Len(U) : U[i] \in NodesWith(T)
  BY <1>1, <1>2
<1>4. U \in [1 .. Len(U) -> NodesWith(T)]
  BY <1>2, <1>3
<1> QED BY <1>2, <1>4

\* Where the alternatives of a part with nothing around it are.
Listing(Z, c, B) ==
    \A o \in B : /\ o \in 0 .. Len(Z) - 1 /\ Plain(Z, c, o, <<>>) /\ Z[o + 1].fn # "ARBN"
                 /\ Z[o + 1].or # 0 => Z[o + 1].or \in B

LEMMA PlacedFirst ==
  ASSUME NEW X, NEW d, NEW A, GoodPattern(X, d, A), NEW Z, NEW c, NEW add, NEW base, NEW next,
         Placed(Z, c, X, d, add, base, next, <<>>), Len(Z) \in Nat
  PROVE  Listing(Z, c, {base + a : a \in A})
<1>1. /\ 0 \in A
      /\ \A o \in A : /\ o \in 0 .. Len(X) - 1 /\ Plain(X, d, o, <<>>) /\ X[o + 1].fn # "ARBN"
                      /\ X[o + 1].or # 0 => X[o + 1].or \in A
  BY DEF GoodPattern, FirstGood
<1>2. base \in Nat /\ base + Len(X) <= Len(Z)
  BY DEF Placed
<1>3. Len(X) \in Nat \ {0}
  BY GoodIs
<1> SUFFICES ASSUME NEW a \in A
             PROVE  /\ base + a \in 0 .. Len(Z) - 1 /\ Plain(Z, c, base + a, <<>>)
                    /\ Z[(base + a) + 1].fn # "ARBN"
                    /\ Z[(base + a) + 1].or # 0 => Z[(base + a) + 1].or \in {base + b : b \in A}
  BY DEF Listing
<1>4. a \in 0 .. Len(X) - 1 /\ Plain(X, d, a, <<>>) /\ X[a + 1].fn # "ARBN"
      /\ (X[a + 1].or # 0 => X[a + 1].or \in A)
  BY <1>1
<1>5. Copied(X[a + 1], Z[(base + a) + 1], add, base, next)
  BY <1>4 DEF Placed
<1>6. base + a \in 0 .. Len(Z) - 1
  BY <1>2, <1>3, <1>4
<1>7. Plain(Z, c, base + a, <<>>)
  <2>1. Plain(Z, c, base + a, <<>> \o <<>>)
    BY <1>4, PlacedPlain
  <2>2. <<>> \o <<>> = <<>>
    OBVIOUS
  <2> QED BY <2>1, <2>2, Zenon
<1>8. Z[(base + a) + 1].fn # "ARBN"
  BY <1>4, <1>5 DEF Copied
<1>9. Z[(base + a) + 1].or # 0 => Z[(base + a) + 1].or \in {base + b : b \in A}
  <2> SUFFICES ASSUME Z[(base + a) + 1].or # 0 PROVE Z[(base + a) + 1].or \in {base + b : b \in A}
    OBVIOUS
  <2>1. X[a + 1].or # 0 /\ Z[(base + a) + 1].or = X[a + 1].or + base
    BY <1>5 DEF Copied
  <2>2. X[a + 1].or \in A /\ X[a + 1].or \in Nat
    BY <1>1, <1>4, <2>1
  <2>3. X[a + 1].or + base = base + X[a + 1].or
    BY <1>2, <2>2
  <2> QED BY <2>1, <2>2, <2>3
<1> QED BY <1>6, <1>7, <1>8, <1>9

\* X and then Y, with next after X: Y, or nothing.
Joined(Z, X, Y, add, next) ==
    /\ add \in Nat /\ next \in {0, Len(X)}
    /\ Z = CPYPAT(X, add, 0, next) \o CPYPAT(Y, 0, Len(X), 0)

LEMMA JoinedGood ==
  ASSUME NEW X, NEW d, NEW A, GoodPattern(X, d, A), NEW Y, NEW e, NEW B, GoodPattern(Y, e, B),
         NEW Z, NEW add, NEW next, Joined(Z, X, Y, add, next)
  PROVE  /\ GoodPattern(Z, d \o e, A)
         /\ Len(X) \in {Len(X) + b : b \in B} /\ Listing(Z, d \o e, {Len(X) + b : b \in B})
<1> DEFINE c == d \o e
           U == CPYPAT(X, add, 0, next)
           V == CPYPAT(Y, 0, Len(X), 0)
<1> add \in Nat /\ next \in {0, Len(X)} /\ Z = CPYPAT(X, add, 0, next) \o CPYPAT(Y, 0, Len(X), 0)
  BY DEF Joined
<1>1. PICK S : X \in Seq(NodesWith(S))
  BY DEF GoodPattern
<1>2. PICK T : Y \in Seq(NodesWith(T))
  BY DEF GoodPattern
<1>3. /\ Len(X) \in Nat \ {0} /\ Len(d) = Len(X) /\ d \in Seq(Seq(Tags))
      /\ Len(Y) \in Nat \ {0} /\ Len(e) = Len(Y) /\ e \in Seq(Seq(Tags))
      /\ next \in Nat /\ 0 \in Nat /\ <<>> \in Seq(Tags)
  BY GoodIs
<1>4. U \in Seq(NodesWith(S)) /\ Len(U) = Len(X)
  BY <1>1, <1>3, CopyIs
<1>5. V \in Seq(NodesWith(T)) /\ Len(V) = Len(Y)
  BY <1>2, <1>3, CopyIs
<1>6. U \in Seq(NodesWith(S \cup T)) /\ V \in Seq(NodesWith(S \cup T))
  <2>1. S \subseteq S \cup T /\ T \subseteq S \cup T
    OBVIOUS
  <2> HIDE DEF U, V
  <2> QED BY <1>4, <1>5, <2>1, Wider
<1>7. c \in Seq(Seq(Tags)) /\ Len(c) = Len(X) + Len(Y)
  <2>1. d \o e \in Seq(Seq(Tags)) /\ Len(d \o e) = Len(d) + Len(e)
    BY ONLY <1>3, ConcatIs
  <2> QED BY <1>3, <2>1
<1>8. \A i \in 1 .. Len(X) : c[0 + i] = <<>> \o d[i]
  <2> TAKE i \in 1 .. Len(X)
  <2>1. d[i] \in Seq(Tags) /\ c[i] = d[i] /\ 0 + i = i
    BY <1>3
  <2>2. <<>> \o d[i] = d[i]
    BY <2>1
  <2> QED BY <2>1, <2>2, Zenon
<1>9. \A i \in 1 .. Len(Y) : c[Len(X) + i] = <<>> \o e[i]
  <2> TAKE i \in 1 .. Len(Y)
  <2>1. e[i] \in Seq(Tags) /\ c[Len(X) + i] = e[i]
    <3>1. d \in Seq(Seq(Tags)) /\ Len(d) = Len(X) /\ e \in Seq(Seq(Tags)) /\ Len(e) = Len(Y) /\ i \in 1 .. Len(Y)
      BY <1>3, Zenon
    <3>2. e[i] \in Seq(Tags)
      BY ONLY <3>1
    <3>3. \A k \in 1 .. Len(e) : (d \o e)[Len(d) + k] = e[k]
      BY ONLY <3>1, ConcatIs
    <3> QED BY <3>1, <3>2, <3>3, Zenon
  <2>2. <<>> \o e[i] = e[i]
    BY <2>1
  <2> QED BY <2>1, <2>2, Zenon
<1> HIDE DEF U, V, c
<1>10. Z = U \o V
  BY DEF U, V
<1>11. Z \in Seq(NodesWith(S \cup T)) /\ Len(Z) = Len(X) + Len(Y)
  <2>1. U \o V \in Seq(NodesWith(S \cup T)) /\ Len(U \o V) = Len(U) + Len(V)
    BY ONLY <1>6, ConcatIs
  <2> QED BY <1>4, <1>5, <1>10, <2>1
<1>12. \A i \in 1 .. Len(X) : Z[0 + i] = U[i]
  <2>1. \A i \in 1 .. Len(U) : (U \o V)[i] = U[i]
    BY ONLY <1>6, ConcatIs
  <2> QED BY <1>4, <1>10, <2>1
<1>13. \A i \in 1 .. Len(Y) : Z[Len(X) + i] = V[i]
  <2>1. \A i \in 1 .. Len(V) : (U \o V)[Len(U) + i] = V[i]
    BY ONLY <1>6, ConcatIs
  <2> QED BY <1>4, <1>5, <1>10, <2>1
<1>14. Placed(Z, c, X, d, add, 0, next, <<>>)
  <2>1. \A i \in 1 .. Len(X) : Z[0 + i] = U[i] /\ c[0 + i] = <<>> \o d[i]
    BY <1>8, <1>12
  <2>2. 0 + Len(X) <= Len(Z) /\ U = CPYPAT(X, add, 0, next)
    BY <1>3, <1>11 DEF U
  <2> QED BY <1>3, <2>1, <2>2, Placing
<1>15. Placed(Z, c, Y, e, 0, Len(X), 0, <<>>)
  <2>1. \A i \in 1 .. Len(Y) : Z[Len(X) + i] = V[i] /\ c[Len(X) + i] = <<>> \o e[i]
    BY <1>9, <1>13
  <2>2. Len(X) + Len(Y) <= Len(Z) /\ V = CPYPAT(Y, 0, Len(X), 0) /\ Len(X) \in Nat
    BY <1>3, <1>11 DEF V
  <2> QED BY <1>3, <2>1, <2>2, Placing
<1>16. Len(Z) \in Nat
  BY <1>11
<1>17. Listing(Z, c, {0 + a : a \in A}) /\ Listing(Z, c, {Len(X) + b : b \in B})
  <2>1. Listing(Z, c, {0 + a : a \in A})
    BY ONLY GoodPattern(X, d, A), <1>14, <1>16, PlacedFirst
  <2>2. Listing(Z, c, {Len(X) + b : b \in B})
    BY ONLY GoodPattern(Y, e, B), <1>15, <1>16, PlacedFirst
  <2> QED BY <2>1, <2>2
<1>18. Len(X) \in {Len(X) + b : b \in B}
  <2>1. 0 \in B /\ Len(X) = Len(X) + 0
    BY <1>3, FirstIs
  <2> QED BY <2>1, Zenon
<1>19. FirstGood(Z, c, A)
  <2>1. 0 \in A /\ A \subseteq Nat
    BY <1>3, FirstIs
  <2>2. {0 + a : a \in A} = A
    <3>1. \A a \in A : 0 + a = a
      BY <2>1
    <3> QED BY ONLY <3>1, Zenon
  <2> QED BY <1>17, <2>1, <2>2 DEF FirstGood, Listing
<1>20. Goes(Z, c, 0, <<>>)
  BY DEF Goes
<1>21. Goes(Z, c, next, <<>>)
  <2>1. CASE next = 0
    BY <1>20, <2>1
  <2>2. CASE next = Len(X)
    <3>1. Plain(Z, c, Len(X), <<>>)
      BY <1>17, <1>18 DEF Listing
    <3>2. Len(X) < Len(Z) /\ next # 0
      BY <1>3, <1>11, <2>2
    <3> QED BY <2>2, <3>1, <3>2 DEF Goes
  <2> QED BY <2>1, <2>2
<1>22. ASSUME NEW o \in 0 .. Len(Z) - 1 PROVE NodeGood(Z, c, o)
  <2>1. CASE o < Len(X)
    <3>1. o \in 0 .. Len(X) - 1 /\ 0 + o = o
      BY <1>3, <2>1
    <3>2. NodeGood(Z, c, 0 + o)
      BY <1>14, <1>16, <1>21, <3>1, PlacedGood
    <3> QED BY <3>1, <3>2
  <2>2. CASE o >= Len(X)
    <3> DEFINE q == o - Len(X)
    <3>1. q \in 0 .. Len(Y) - 1 /\ Len(X) + q = o
      BY <1>3, <1>11, <2>2
    <3> HIDE DEF q
    <3>2. NodeGood(Z, c, Len(X) + q)
      BY <1>15, <1>16, <1>20, <3>1, PlacedGood
    <3> QED BY <3>1, <3>2
  <2> QED BY <1>3, <2>1, <2>2
<1>23. GoodPattern(Z, c, A)
  BY <1>3, <1>7, <1>11, <1>19, <1>22 DEF GoodPattern
<1> QED BY <1>17, <1>18, <1>23 DEF c

LEMMA ConGood ==
  ASSUME NEW X, NEW Y, Good(X), Good(Y)
  PROVE  Good(CON(X, Y))
<1>1. PICK d, A : GoodPattern(X, d, A)
  BY DEF Good
<1>2. PICK e, B : GoodPattern(Y, e, B)
  BY DEF Good
<1>3. LVALUE(Y) \in Nat /\ Len(X) \in {0, Len(X)}
  <2>1. LVALUE(Y) \in Nat
    BY ONLY <1>2, LvalueIs
  <2> QED BY <2>1
<1>4. CON(X, Y) = CPYPAT(X, LVALUE(Y), 0, Len(X)) \o CPYPAT(Y, 0, Len(X), 0)
  BY DEF CON
<1>5. Joined(CON(X, Y), X, Y, LVALUE(Y), Len(X))
  BY <1>3, <1>4, Zenon DEF Joined
<1>6. GoodPattern(CON(X, Y), d \o e, A)
  BY ONLY <1>1, <1>2, <1>5, JoinedGood
<1> QED BY <1>6 DEF Good

\* P is Q, but the alternative of the node at m is the one at q.
Relinked(Q, P, m, q) ==
    /\ Len(P) = Len(Q) /\ Len(Q) \in Nat /\ m \in 0 .. Len(Q) - 1 /\ q \in 1 .. Len(Q) - 1
    /\ \A i \in 1 .. Len(Q) :
         /\ Q[i].fn \in Fns /\ Q[i].or \in 0 .. Len(Q) - 1
         /\ P[i].fn = Q[i].fn /\ P[i].then = Q[i].then /\ P[i].val = Q[i].val
         /\ P[i].res = Q[i].res /\ P[i].arg = Q[i].arg
         /\ P[i].or = IF i = m + 1 THEN q ELSE Q[i].or
    /\ Role(Q, m) = "plain" /\ Role(Q, q) = "plain" /\ Q[m + 1].fn # "ARBN"

LEMMA RelinkedRole ==
  ASSUME NEW Q, NEW P, NEW m, NEW q, Relinked(Q, P, m, q), NEW o \in 0 .. Len(Q) - 1
  PROVE  Role(P, o) = Role(Q, o)
<1> DEFINE n == Q[o + 1]
           z == P[o + 1]
<1>1. /\ Len(P) = Len(Q) /\ Len(Q) \in Nat /\ m \in 0 .. Len(Q) - 1 /\ q \in 1 .. Len(Q) - 1
      /\ Role(Q, m) = "plain" /\ Role(Q, q) = "plain"
  BY DEF Relinked
<1>2. o + 1 \in 1 .. Len(Q)
  BY <1>1
<1>3. n.or \in 0 .. Len(Q) - 1 /\ z.fn = n.fn /\ z.or = IF o + 1 = m + 1 THEN q ELSE n.or
  BY <1>2 DEF Relinked
<1>4. ASSUME NEW k \in 0 .. Len(Q) - 1 PROVE P[k + 1].fn = Q[k + 1].fn
  <2>1. k + 1 \in 1 .. Len(Q)
    BY <1>1
  <2> QED BY <2>1 DEF Relinked
<1>5. Role(Q, o) = IF n.fn = "ARBF" THEN "ARBF"
        ELSE IF n.fn \in {"ONAR", "ONRF"} THEN "ONAR"
        ELSE IF n.fn = "DSAR" THEN "DSAR"
        ELSE IF n.fn = "SCOK" /\ n.or # 0 /\ Q[n.or + 1].fn \in {"ONAR", "DSAR"} THEN Q[n.or + 1].fn
        ELSE "plain"
  BY Zenon DEF Role
<1>6. Role(P, o) = IF z.fn = "ARBF" THEN "ARBF"
        ELSE IF z.fn \in {"ONAR", "ONRF"} THEN "ONAR"
        ELSE IF z.fn = "DSAR" THEN "DSAR"
        ELSE IF z.fn = "SCOK" /\ z.or # 0 /\ P[z.or + 1].fn \in {"ONAR", "DSAR"} THEN P[z.or + 1].fn
        ELSE "plain"
  BY Zenon DEF Role
<1>7. CASE o # m
  <2>1. z.or = n.or
    <3>1. o + 1 # m + 1
      BY <1>1, <1>7
    <3> QED BY <1>3, <3>1
  <2>2. P[n.or + 1].fn = Q[n.or + 1].fn
    BY <1>3, <1>4
  <2> HIDE DEF n, z
  <2> QED BY <1>3, <1>5, <1>6, <2>1, <2>2
<1>8. CASE o = m
  <2>1. z.or = q
    BY <1>3, <1>8
  <2>2. P[q + 1].fn = Q[q + 1].fn
    BY <1>1, <1>4
  <2>3. Q[q + 1].fn \notin {"ONAR", "DSAR"}
    BY <1>1 DEF Role
  <2>4. n.fn \notin {"ARBF", "ONAR", "ONRF", "DSAR"} /\ Role(Q, o) = "plain"
    BY <1>1, <1>8 DEF Role
  <2> HIDE DEF n, z
  <2> QED BY <1>3, <1>6, <2>1, <2>2, <2>3, <2>4
<1> QED BY <1>7, <1>8

\* A node that is not a plain one is not the one at m.
LEMMA RelinkedOther ==
  ASSUME NEW Q, NEW P, NEW m, NEW q, Relinked(Q, P, m, q), NEW i \in 1 .. Len(Q), NEW k, k = i - 1,
         Role(Q, k) # "plain" \/ Q[i].fn = "ARBN"
  PROVE  P[i].or = Q[i].or
<1>1. m \in 0 .. Len(Q) - 1 /\ Len(Q) \in Nat /\ Role(Q, m) = "plain" /\ Q[m + 1].fn # "ARBN"
  BY DEF Relinked
<1>2. i # m + 1
  <2>1. ASSUME i = m + 1 PROVE FALSE
    <3>1. k = m
      BY <1>1, <2>1
    <3> QED BY <1>1, <2>1, <3>1
  <2> QED BY <2>1
<1> QED BY <1>2 DEF Relinked

LEMMA RelinkedPlain ==
  ASSUME NEW Q, NEW P, NEW m, NEW q, Relinked(Q, P, m, q), NEW o \in 0 .. Len(Q) - 1, NEW c, NEW s
  PROVE  Plain(P, c, o, s) = Plain(Q, c, o, s)
<1>1. Role(P, o) = Role(Q, o)
  BY RelinkedRole
<1> QED BY <1>1, Zenon DEF Plain

LEMMA RelinkedARBN ==
  ASSUME NEW Q, NEW P, NEW m, NEW q, Relinked(Q, P, m, q), NEW o \in 0 .. Len(Q) - 1, NEW c,
         ARBNGood(Q, c, o), Q[o + 1].fn = "ARBN"
  PROVE  ARBNGood(P, c, o)
<1>1. /\ o + 2 <= Len(Q) /\ Q[o + 1].or = o + 1
      /\ Q[o + 2].fn = "ARBF" /\ Q[o + 2].or = 0 /\ Q[o + 2].val = Q[o + 1].val
      /\ c[o + 2] = Append(c[o + 1], "arbno")
  BY DEF ARBNGood
<1>2. Len(P) = Len(Q) /\ Len(Q) \in Nat
  BY DEF Relinked
<1>3. o + 1 \in 1 .. Len(Q) /\ o + 2 \in 1 .. Len(Q) /\ o = (o + 1) - 1 /\ o + 1 = (o + 2) - 1
  BY <1>1, <1>2
<1>4. P[o + 1].or = Q[o + 1].or
  BY <1>3, RelinkedOther
<1>5. Role(Q, o + 1) = "ARBF"
  BY <1>1, <1>2 DEF Role
<1>6. P[o + 2].or = Q[o + 2].or
  BY <1>3, <1>5, RelinkedOther
<1>7. P[o + 2].fn = Q[o + 2].fn /\ P[o + 2].val = Q[o + 2].val /\ P[o + 1].val = Q[o + 1].val
  BY <1>3 DEF Relinked
<1> QED BY <1>1, <1>2, <1>4, <1>6, <1>7 DEF ARBNGood

LEMMA RelinkedEARB ==
  ASSUME NEW Q, NEW P, NEW m, NEW q, Relinked(Q, P, m, q), NEW o \in 0 .. Len(Q) - 1, NEW c,
         EARBGood(Q, c, o)
  PROVE  EARBGood(P, c, o)
<1>1. /\ o + 4 <= Len(Q) /\ Q[o + 1].then = o + 1
      /\ Q[o + 2].fn = "SCOK" /\ Q[o + 2].or = o + 2
      /\ Q[o + 3].fn = "ONAR" /\ Q[o + 3].or = o + 3
      /\ Q[o + 4].fn = "ONRF" /\ Q[o + 4].or = 0
      /\ \A k \in 2 .. 4 : Q[o + k].val = Q[o + 1].val /\ c[o + k] = Front(c[o + 1])
  BY DEF EARBGood
<1>2. Len(P) = Len(Q) /\ Len(Q) \in Nat
  BY DEF Relinked
<1>3. /\ o + 1 \in 1 .. Len(Q) /\ o + 2 \in 1 .. Len(Q) /\ o + 3 \in 1 .. Len(Q) /\ o + 4 \in 1 .. Len(Q)
      /\ o + 1 = (o + 2) - 1 /\ o + 2 = (o + 3) - 1 /\ o + 3 = (o + 4) - 1
      /\ (o + 1) + 1 = o + 2 /\ (o + 2) + 1 = o + 3 /\ (o + 3) + 1 = o + 4 /\ o + 2 # 0
  <2>1. o + 4 <= Len(Q)
    BY <1>1
  <2> QED BY <1>2, <2>1
<1>4. Role(Q, o + 1) = "ONAR" /\ Role(Q, o + 2) = "ONAR" /\ Role(Q, o + 3) = "ONAR"
  <2>1. Q[(o + 1) + 1].fn = "SCOK" /\ Q[(o + 1) + 1].or = o + 2 /\ Q[(o + 2) + 1].fn = "ONAR"
        /\ Q[(o + 3) + 1].fn = "ONRF" /\ o + 2 # 0
    BY <1>1, <1>3
  <2>2. Role(Q, o + 1) = "ONAR"
    BY <2>1 DEF Role
  <2>3. Role(Q, o + 2) = "ONAR"
    BY <2>1 DEF Role
  <2>4. Role(Q, o + 3) = "ONAR"
    BY <2>1 DEF Role
  <2> QED BY <2>2, <2>3, <2>4
<1>5. P[o + 2].or = Q[o + 2].or /\ P[o + 3].or = Q[o + 3].or /\ P[o + 4].or = Q[o + 4].or
  <2>1. P[o + 2].or = Q[o + 2].or
    BY <1>3, <1>4, RelinkedOther
  <2>2. P[o + 3].or = Q[o + 3].or
    BY <1>3, <1>4, RelinkedOther
  <2>3. P[o + 4].or = Q[o + 4].or
    BY <1>3, <1>4, RelinkedOther
  <2> QED BY <2>1, <2>2, <2>3
<1>6. /\ P[o + 2].fn = Q[o + 2].fn /\ P[o + 3].fn = Q[o + 3].fn /\ P[o + 4].fn = Q[o + 4].fn
      /\ P[o + 1].then = Q[o + 1].then /\ P[o + 1].val = Q[o + 1].val
  BY <1>3 DEF Relinked
<1>7. ASSUME NEW k \in 2 .. 4 PROVE P[o + k].val = P[o + 1].val /\ c[o + k] = Front(c[o + 1])
  <2>1. Q[o + k].val = Q[o + 1].val /\ c[o + k] = Front(c[o + 1])
    BY <1>1
  <2>2. o + k \in 1 .. Len(Q)
    BY <1>2, <1>3
  <2>3. P[o + k].val = Q[o + k].val
    BY <2>2 DEF Relinked
  <2> QED BY <1>6, <2>1, <2>3
<1>8. o + 4 <= Len(P)
  BY <1>1, <1>2
<1> QED BY <1>1, <1>5, <1>6, <1>7, <1>8 DEF EARBGood

LEMMA RelinkedSTAR ==
  ASSUME NEW Q, NEW P, NEW m, NEW q, Relinked(Q, P, m, q), NEW o \in 0 .. Len(Q) - 1, NEW c,
         STARGood(Q, c, o)
  PROVE  STARGood(P, c, o)
<1>1. /\ o + 3 <= Len(Q) /\ Q[o + 1].then = o + 1 /\ Q[o + 1].arg \in Names
      /\ Q[o + 2].fn = "SCOK" /\ Q[o + 2].or = o + 2 /\ Q[o + 2].val = Q[o + 1].res
      /\ Q[o + 3].fn = "DSAR" /\ Q[o + 3].or = 0 /\ Q[o + 3].then = o + 1
      /\ Q[o + 3].val = Q[o + 1].res /\ Q[o + 3].res = Q[o + 1].res /\ Q[o + 3].arg = Q[o + 1].arg
      /\ c[o + 2] = c[o + 1] /\ c[o + 3] = c[o + 1]
  BY DEF STARGood
<1>2. Len(P) = Len(Q) /\ Len(Q) \in Nat
  BY DEF Relinked
<1>3. /\ o + 1 \in 1 .. Len(Q) /\ o + 2 \in 1 .. Len(Q) /\ o + 3 \in 1 .. Len(Q)
      /\ o + 1 = (o + 2) - 1 /\ o + 2 = (o + 3) - 1
      /\ (o + 1) + 1 = o + 2 /\ (o + 2) + 1 = o + 3 /\ o + 2 # 0
  <2>1. o + 3 <= Len(Q)
    BY <1>1
  <2> QED BY <1>2, <2>1
<1>4. Role(Q, o + 1) = "DSAR" /\ Role(Q, o + 2) = "DSAR"
  <2>1. Q[(o + 1) + 1].fn = "SCOK" /\ Q[(o + 1) + 1].or = o + 2 /\ Q[(o + 2) + 1].fn = "DSAR" /\ o + 2 # 0
    BY <1>1, <1>3
  <2>2. Role(Q, o + 1) = "DSAR"
    BY <2>1 DEF Role
  <2>3. Role(Q, o + 2) = "DSAR"
    BY <2>1 DEF Role
  <2> QED BY <2>2, <2>3
<1>5. P[o + 2].or = Q[o + 2].or /\ P[o + 3].or = Q[o + 3].or
  <2>1. P[o + 2].or = Q[o + 2].or
    BY <1>3, <1>4, RelinkedOther
  <2>2. P[o + 3].or = Q[o + 3].or
    BY <1>3, <1>4, RelinkedOther
  <2> QED BY <2>1, <2>2
<1>6. /\ P[o + 1].then = Q[o + 1].then /\ P[o + 1].arg = Q[o + 1].arg /\ P[o + 1].res = Q[o + 1].res
      /\ P[o + 2].fn = Q[o + 2].fn /\ P[o + 2].val = Q[o + 2].val
  BY <1>3 DEF Relinked
<1>7. /\ P[o + 3].fn = Q[o + 3].fn /\ P[o + 3].then = Q[o + 3].then /\ P[o + 3].val = Q[o + 3].val
      /\ P[o + 3].res = Q[o + 3].res /\ P[o + 3].arg = Q[o + 3].arg
  BY <1>3 DEF Relinked
<1>8. o + 3 <= Len(P)
  BY <1>1, <1>2
<1> QED BY <1>1, <1>5, <1>6, <1>7, <1>8 DEF STARGood

LEMMA RelinkedAround ==
  ASSUME NEW Q, NEW P, NEW m, NEW q, Relinked(Q, P, m, q), NEW o \in 0 .. Len(Q) - 1, NEW c,
         Around(Q, c, o)
  PROVE  Around(P, c, o)
<1> DEFINE n == Q[o + 1]
           z == P[o + 1]
<1>1. Len(P) = Len(Q) /\ Len(Q) \in Nat
  BY DEF Relinked
<1>2. ASSUME NEW i \in 1 .. Len(Q) PROVE P[i].fn = Q[i].fn
  BY DEF Relinked
<1>3. z.fn = n.fn
  <2>1. o + 1 \in 1 .. Len(Q)
    BY <1>1
  <2> QED BY <1>2, <2>1
<1>4. Role(P, o) = Role(Q, o)
  BY RelinkedRole
<1>5. o >= 1 => P[o].fn = Q[o].fn
  <2>1. o >= 1 => o \in 1 .. Len(Q)
    BY <1>1
  <2> QED BY <1>2, <2>1
<1>6. o >= 2 => P[o - 1].fn = Q[o - 1].fn
  <2>1. o >= 2 => o - 1 \in 1 .. Len(Q)
    BY <1>1
  <2> QED BY <1>2, <2>1
<1>7. o >= 3 => P[o - 2].fn = Q[o - 2].fn
  <2>1. o >= 3 => o - 2 \in 1 .. Len(Q)
    BY <1>1
  <2> QED BY <1>2, <2>1
<1>8. n.fn = "ARBN" => ARBNGood(P, c, o)
  BY RelinkedARBN DEF Around
<1>9. n.fn = "EARB" => EARBGood(P, c, o)
  BY RelinkedEARB DEF Around
<1>10. n.fn = "STAR" => STARGood(P, c, o)
  BY RelinkedSTAR DEF Around
<1>11. n.fn = "ARBF" => o >= 1 /\ P[o].fn = "ARBN"
  BY <1>5 DEF Around
<1>12. n.fn = "ONAR" => o >= 2 /\ P[o - 1].fn = "EARB"
  BY <1>6 DEF Around
<1>13. n.fn = "ONRF" => o >= 3 /\ P[o - 2].fn = "EARB"
  BY <1>7 DEF Around
<1>14. n.fn = "DSAR" => o >= 2 /\ P[o - 1].fn = "STAR"
  BY <1>6 DEF Around
<1>15. (n.fn = "SCOK" /\ Role(P, o) = "ONAR") => o >= 1 /\ P[o].fn = "EARB"
  BY <1>4, <1>5 DEF Around
<1>16. (n.fn = "SCOK" /\ Role(P, o) = "DSAR") => o >= 1 /\ P[o].fn = "STAR"
  BY <1>4, <1>5 DEF Around
<1> QED BY <1>3, <1>8, <1>9, <1>10, <1>11, <1>12, <1>13, <1>14, <1>15, <1>16, Zenon DEF Around

LEMMA RelinkedNode ==
  ASSUME NEW Q, NEW P, NEW m, NEW q, Relinked(Q, P, m, q), NEW o \in 0 .. Len(Q) - 1, NEW c,
         NodeGood(Q, c, o), c[m + 1] = <<>>, c[q + 1] = <<>>, Q[o + 1].then \in Nat
  PROVE  NodeGood(P, c, o)
<1> DEFINE n == Q[o + 1]
           z == P[o + 1]
<1>1. /\ Len(P) = Len(Q) /\ Len(Q) \in Nat /\ q \in 1 .. Len(Q) - 1 /\ m \in 0 .. Len(Q) - 1
      /\ Role(Q, q) = "plain" /\ o + 1 \in 1 .. Len(Q)
  BY DEF Relinked
<1>2. /\ z.fn = n.fn /\ z.then = n.then /\ z.val = n.val /\ z.arg = n.arg
      /\ z.or = IF o + 1 = m + 1 THEN q ELSE n.or
  BY <1>1 DEF Relinked
<1>3. /\ n.then < Len(Q) /\ n.or < Len(Q) /\ Fits(n) /\ Closes(n, c[o + 1])
      /\ Around(Q, c, o) /\ ThenGood(Q, c, o) /\ OrGood(Q, c, o)
  BY DEF NodeGood
<1>4. Fits(z) /\ Closes(z, c[o + 1]) /\ Leaves(z, c[o + 1]) = Leaves(n, c[o + 1])
  BY <1>2, <1>3, Zenon DEF Fits, Closes, Leaves
<1>5. Around(P, c, o)
  BY <1>3, RelinkedAround
<1>6. z.then < Len(P) /\ z.or < Len(P)
  <2> HIDE DEF n, z
  <2> QED BY <1>1, <1>2, <1>3
<1>7. ThenGood(P, c, o)
  <2>1. CASE n.fn \in {"STAR", "DSAR", "EARB", "ARBF", "ONRF"}
    BY <1>2, <2>1 DEF ThenGood
  <2>2. CASE n.fn \notin {"STAR", "DSAR", "EARB", "ARBF", "ONRF"}
    <3>1. IF n.then = 0 THEN Leaves(n, c[o + 1]) = <<>> ELSE Plain(Q, c, n.then, Leaves(n, c[o + 1]))
      BY <1>3, <2>2 DEF ThenGood
    <3>2. n.then \in 0 .. Len(Q) - 1
      BY <1>1, <1>3
    <3>3. Plain(P, c, n.then, Leaves(n, c[o + 1])) = Plain(Q, c, n.then, Leaves(n, c[o + 1]))
      BY <3>2, RelinkedPlain
    <3>4. IF z.then = 0 THEN Leaves(z, c[o + 1]) = <<>> ELSE Plain(P, c, z.then, Leaves(z, c[o + 1]))
      BY <1>2, <1>4, <3>1, <3>3, Zenon
    <3> QED BY <3>4, Zenon DEF ThenGood
  <2> QED BY <2>1, <2>2
<1>8. OrGood(P, c, o)
  <2>1. Role(P, o) = Role(Q, o)
    BY RelinkedRole
  <2>2. CASE o = m
    <3>1. z.or = q
      BY <1>2, <2>2
    <3>2. Plain(Q, c, q, c[o + 1])
      BY <1>1, <2>2 DEF Plain
    <3>3. Plain(P, c, q, c[o + 1]) = Plain(Q, c, q, c[o + 1])
      <4>1. q \in 0 .. Len(Q) - 1
        BY <1>1
      <4> QED BY <4>1, RelinkedPlain
    <3> QED BY <3>1, <3>2, <3>3, Zenon DEF OrGood
  <2>3. CASE o # m
    <3>1. z.or = n.or
      <4>1. o + 1 # m + 1
        BY <1>1, <2>3
      <4> QED BY <1>2, <4>1
    <3>2. CASE Role(Q, o) # "plain" \/ n.fn = "ARBN" \/ n.or = 0
      BY <1>2, <2>1, <3>1, <3>2, Zenon DEF OrGood
    <3>3. CASE Plain(Q, c, n.or, c[o + 1])
      <4>1. n.or \in 0 .. Len(Q) - 1
        BY <1>1 DEF Relinked
      <4>2. Plain(P, c, n.or, c[o + 1]) = Plain(Q, c, n.or, c[o + 1])
        BY <4>1, RelinkedPlain
      <4> QED BY <3>1, <3>3, <4>2, Zenon DEF OrGood
    <3> QED BY <1>3, <3>2, <3>3, Zenon DEF OrGood
  <2> QED BY <2>2, <2>3
<1> QED BY <1>4, <1>5, <1>6, <1>7, <1>8, Zenon DEF NodeGood

LEMMA RelinkedGood ==
  ASSUME NEW Q, NEW c, NEW A, GoodPattern(Q, c, A), NEW B, Listing(Q, c, B), NEW m \in A, NEW q \in B,
         q # 0, NEW P, P = [Q EXCEPT ![m + 1].or = q]
  PROVE  GoodPattern(P, c, A \cup B)
<1>1. PICK S : Q \in Seq(NodesWith(S))
  BY DEF GoodPattern
<1>2. /\ Len(Q) \in Nat \ {0} /\ Len(c) = Len(Q) /\ c \in Seq(Seq(Tags))
      /\ \A o \in 0 .. Len(Q) - 1 : Q[o + 1].then \in 0 .. Len(Q) - 1 /\ NodeGood(Q, c, o)
  BY GoodIs
<1>3. /\ 0 \in A
      /\ \A o \in A : /\ o \in 0 .. Len(Q) - 1 /\ Plain(Q, c, o, <<>>) /\ Q[o + 1].fn # "ARBN"
                      /\ Q[o + 1].or # 0 => Q[o + 1].or \in A
  BY DEF GoodPattern, FirstGood
<1>4. \A o \in B : /\ o \in 0 .. Len(Q) - 1 /\ Plain(Q, c, o, <<>>) /\ Q[o + 1].fn # "ARBN"
                   /\ Q[o + 1].or # 0 => Q[o + 1].or \in B
  BY DEF Listing
<1>5. m \in 0 .. Len(Q) - 1 /\ q \in 1 .. Len(Q) - 1 /\ m + 1 \in 1 .. Len(Q) /\ q \in Nat
  <2>1. m \in 0 .. Len(Q) - 1
    BY <1>3
  <2>2. q \in 0 .. Len(Q) - 1
    BY <1>4
  <2> QED BY <1>2, <2>1, <2>2
<1>6. DOMAIN P = 1 .. Len(Q) /\ DOMAIN Q = 1 .. Len(Q)
  BY <1>1, <1>2
<1>7. ASSUME NEW i \in 1 .. Len(Q)
      PROVE  /\ P[i] \in NodesWith(S)
             /\ Q[i].fn \in Fns /\ Q[i].or \in 0 .. Len(Q) - 1
             /\ P[i].fn = Q[i].fn /\ P[i].then = Q[i].then /\ P[i].val = Q[i].val
             /\ P[i].res = Q[i].res /\ P[i].arg = Q[i].arg
             /\ P[i].or = IF i = m + 1 THEN q ELSE Q[i].or
  <2>1. Q[i] \in NodesWith(S)
    BY <1>1
  <2>2. Q[i].fn \in Fns /\ Q[i].or \in 0 .. Len(Q) - 1
    <3>1. i - 1 \in 0 .. Len(Q) - 1 /\ (i - 1) + 1 = i
      BY <1>2
    <3> QED BY <3>1, GoodIs
  <2>3. CASE i = m + 1
    <3> DEFINE n == Q[i]
               y == [n EXCEPT !.or = q]
    <3>1. P[i] = y
      BY <1>6, <2>3
    <3> HIDE DEF n
    <3>2. n \in NodesWith(S)
      BY <2>1 DEF n
    <3>3. y \in NodesWith(S)
      BY ONLY <1>5, <3>2 DEF NodesWith
    <3>4. y.fn = n.fn /\ y.then = n.then /\ y.val = n.val /\ y.res = n.res /\ y.arg = n.arg /\ y.or = q
      BY ONLY <1>5, <3>2 DEF NodesWith
    <3> HIDE DEF y
    <3> QED BY <2>2, <2>3, <3>1, <3>3, <3>4 DEF n
  <2>4. CASE i # m + 1
    <3>1. P[i] = Q[i]
      BY <1>6, <2>4
    <3> QED BY <2>1, <2>2, <2>4, <3>1
  <2> QED BY <2>3, <2>4
<1>8. P \in Seq(NodesWith(S)) /\ Len(P) = Len(Q)
  <2>1. P = [i \in 1 .. Len(Q) |-> P[i]]
    BY <1>6
  <2>2. P \in [1 .. Len(Q) -> NodesWith(S)]
    BY <1>7, <2>1, Zenon
  <2>3. Len(Q) \in Nat
    BY <1>2
  <2> QED BY ONLY <2>2, <2>3
<1>9. Relinked(Q, P, m, q)
  <2>1. Role(Q, m) = "plain" /\ Role(Q, q) = "plain" /\ Q[m + 1].fn # "ARBN"
    BY <1>3, <1>4 DEF Plain
  <2> QED BY <1>2, <1>5, <1>7, <1>8, <2>1 DEF Relinked
<1>10. c[m + 1] = <<>> /\ c[q + 1] = <<>>
  BY <1>3, <1>4 DEF Plain
<1>11. ASSUME NEW o \in 0 .. Len(P) - 1 PROVE NodeGood(P, c, o)
  <2>1. o \in 0 .. Len(Q) - 1
    BY <1>8
  <2>2. Q[o + 1].then \in Nat /\ NodeGood(Q, c, o)
    BY <1>2, <2>1
  <2> QED BY <1>9, <1>10, <2>1, <2>2, RelinkedNode
<1>12. FirstGood(P, c, A \cup B)
  <2>1. ASSUME NEW o \in A \cup B
        PROVE  /\ o \in 0 .. Len(P) - 1 /\ Plain(P, c, o, <<>>) /\ P[o + 1].fn # "ARBN"
               /\ P[o + 1].or # 0 => P[o + 1].or \in A \cup B
    <3>1. /\ o \in 0 .. Len(Q) - 1 /\ Plain(Q, c, o, <<>>) /\ Q[o + 1].fn # "ARBN"
          /\ Q[o + 1].or # 0 => Q[o + 1].or \in A \cup B
      BY <1>3, <1>4
    <3>2. Plain(P, c, o, <<>>) = Plain(Q, c, o, <<>>)
      BY <1>9, <3>1, RelinkedPlain
    <3>3. o + 1 \in 1 .. Len(Q)
      BY <1>2, <3>1
    <3>4. P[o + 1].fn = Q[o + 1].fn /\ P[o + 1].or = IF o + 1 = m + 1 THEN q ELSE Q[o + 1].or
      BY <1>7, <3>3
    <3>5. P[o + 1].or # 0 => P[o + 1].or \in A \cup B
      BY <3>1, <3>4
    <3> QED BY <1>8, <3>1, <3>2, <3>4, <3>5
  <2> QED BY <1>3, <2>1 DEF FirstGood
<1> QED BY <1>2, <1>8, <1>11, <1>12 DEF GoodPattern

LEMMA OrsGood ==
  ASSUME NEW X, NEW Y, Good(X), Good(Y)
  PROVE  Good(OR(X, Y))
<1>1. PICK d, A : GoodPattern(X, d, A)
  BY DEF Good
<1>2. PICK e, B : GoodPattern(Y, e, B)
  BY DEF Good
<1> DEFINE Q == CPYPAT(X, 0, 0, 0) \o CPYPAT(Y, 0, Len(X), 0)
           c == d \o e
           F == {Len(X) + b : b \in B}
           m == Max(Alternatives(Q))
           P == [Q EXCEPT ![m + 1].or = Len(X)]
<1>3. OR(X, Y) = P
  BY DEF OR, LINKOR
<1>4. 0 \in Nat /\ 0 \in {0, Len(X)} /\ Len(X) # 0
  BY <1>1, GoodIs
<1>5. Joined(Q, X, Y, 0, 0)
  BY <1>4, Zenon DEF Joined
<1> HIDE DEF Q
<1>6. GoodPattern(Q, c, A) /\ Len(X) \in F /\ Listing(Q, c, F)
  <2>1. /\ GoodPattern(Q, d \o e, A)
        /\ Len(X) \in {Len(X) + b : b \in B} /\ Listing(Q, d \o e, {Len(X) + b : b \in B})
    BY ONLY <1>1, <1>2, <1>5, JoinedGood
  <2> QED BY <2>1
<1> HIDE DEF c, F
<1>7. m \in A
  <2>1. /\ Len(Q) \in Nat \ {0} /\ DOMAIN Q = 1 .. Len(Q) /\ 0 \in A
        /\ \A o \in A : o \in 0 .. Len(Q) - 1 /\ (Q[o + 1].or # 0 => Q[o + 1].or \in A)
    BY <1>6, FirstIs
  <2> QED BY <2>1, LastAlternative
<1>8. P = [Q EXCEPT ![m + 1].or = Len(X)]
  OBVIOUS
<1> HIDE DEF m, P
<1>9. GoodPattern(P, c, A \cup F)
  BY <1>4, <1>6, <1>7, <1>8, RelinkedGood
<1> QED BY <1>3, <1>9 DEF Good

-----------------------------------------------------------------------------
(* Nodes that are made alone, and X . name and X $ name.                    *)

Made(n, fn, then, or, val, arg) ==
    n.fn = fn /\ n.then = then /\ n.or = or /\ n.val = val /\ n.res = 0 /\ n.arg = arg

LEMMA NodeMade ==
  ASSUME NEW fn \in Fns, NEW then \in Nat, NEW or \in Nat, NEW val \in Nat, NEW arg
  PROVE  /\ Node(fn, then, or, val, arg) \in NodesWith({arg})
         /\ Made(Node(fn, then, or, val, arg), fn, then, or, val, arg)
  BY DEF Node, NodesWith, Made

LEMMA MadeIs ==
  ASSUME NEW fn \in Fns, NEW val \in Nat, NEW arg
  PROVE  /\ MAKNOD(fn, val, arg) \in Seq(NodesWith({arg})) /\ Len(MAKNOD(fn, val, arg)) = 1
         /\ Made(MAKNOD(fn, val, arg)[1], fn, 0, 0, val, arg)
<1> DEFINE n == Node(fn, 0, 0, val, arg)
<1>1. n \in NodesWith({arg}) /\ Made(n, fn, 0, 0, val, arg)
  BY NodeMade
<1>2. MAKNOD(fn, val, arg) = <<n>>
  BY DEF MAKNOD
<1> HIDE DEF n
<1> QED BY <1>1, <1>2

\* The places of X, under t.
Beneath(t, d) == [i \in 1 .. Len(d) |-> t \o d[i]]

LEMMA BeneathIs ==
  ASSUME NEW t \in Seq(Tags), NEW d \in Seq(Seq(Tags))
  PROVE  /\ Beneath(t, d) \in Seq(Seq(Tags)) /\ Len(Beneath(t, d)) = Len(d)
         /\ \A i \in 1 .. Len(d) : Beneath(t, d)[i] = t \o d[i]
<1>1. Len(d) \in Nat /\ \A i \in 1 .. Len(d) : d[i] \in Seq(Tags)
  OBVIOUS
<1>2. \A i \in 1 .. Len(d) : t \o d[i] \in Seq(Tags)
  BY <1>1
<1>3. Beneath(t, d) = [i \in 1 .. Len(d) |-> t \o d[i]]
  BY DEF Beneath
<1>4. Beneath(t, d) \in [1 .. Len(d) -> Seq(Tags)]
  BY <1>2, <1>3
<1> QED BY <1>1, <1>3, <1>4

LEMMA ThreeParts ==
  ASSUME NEW K, NEW u \in Seq(K), NEW v \in Seq(K), NEW w \in Seq(K), NEW z, z = u \o v \o w
  PROVE  /\ z \in Seq(K) /\ Len(z) = (Len(u) + Len(v)) + Len(w)
         /\ Len(u) \in Nat /\ Len(v) \in Nat /\ Len(w) \in Nat
         /\ \A i \in 1 .. Len(u) : z[i] = u[i]
         /\ \A i \in 1 .. Len(v) : z[Len(u) + i] = v[i]
         /\ \A i \in 1 .. Len(w) : z[(Len(u) + Len(v)) + i] = w[i]
<1> DEFINE y == u \o v
<1>1. /\ y \in Seq(K) /\ Len(y) = Len(u) + Len(v) /\ Len(u) \in Nat /\ Len(v) \in Nat
      /\ \A i \in 1 .. Len(u) : y[i] = u[i]
      /\ \A i \in 1 .. Len(v) : y[Len(u) + i] = v[i]
  BY ConcatIs
<1>2. z = y \o w
  OBVIOUS
<1> HIDE DEF y
<1>3. /\ z \in Seq(K) /\ Len(z) = Len(y) + Len(w) /\ Len(w) \in Nat
      /\ \A i \in 1 .. Len(y) : z[i] = y[i]
      /\ \A i \in 1 .. Len(w) : z[Len(y) + i] = w[i]
  <2>1. y \in Seq(K)
    BY <1>1
  <2>2. /\ y \o w \in Seq(K) /\ Len(y \o w) = Len(y) + Len(w) /\ Len(w) \in Nat
        /\ \A i \in 1 .. Len(y) : (y \o w)[i] = y[i]
        /\ \A i \in 1 .. Len(w) : (y \o w)[Len(y) + i] = w[i]
    BY ONLY w \in Seq(K), <2>1, ConcatIs
  <2> QED BY ONLY <1>2, <2>2
<1>4. \A i \in 1 .. Len(u) : z[i] = u[i]
  <2> TAKE i \in 1 .. Len(u)
  <2>1. i \in 1 .. Len(y)
    BY <1>1
  <2> QED BY <1>1, <1>3, <2>1
<1>5. \A i \in 1 .. Len(v) : z[Len(u) + i] = v[i]
  <2> TAKE i \in 1 .. Len(v)
  <2>1. Len(u) + i \in 1 .. Len(y)
    BY <1>1
  <2> QED BY <1>1, <1>3, <2>1
<1> QED BY <1>1, <1>3, <1>4, <1>5

\* A node that leaves the stack alone, or closes a name, and ends its pattern, is a good one.
LEMMA EndGood ==
  ASSUME NEW Z, NEW c, NEW o \in Nat, o + 1 = Len(Z), Z[o + 1].then = 0, Z[o + 1].or = 0,
         Z[o + 1].fn \in Simple \cup {"ENME", "ENMI"}, Fits(Z[o + 1]),
         c[o + 1] = IF Z[o + 1].fn \in {"ENME", "ENMI"} THEN <<"name">> ELSE <<>>
  PROVE  NodeGood(Z, c, o) /\ Role(Z, o) = "plain"
<1> DEFINE n == Z[o + 1]
<1>1. n.fn \notin {"NME", "ARBN", "ARBF", "EARB", "ONAR", "ONRF", "STAR", "DSAR"}
  BY DEF Simple, Measuring
<1>2. Role(Z, o) = "plain"
  BY <1>1 DEF Role
<1>3. Closes(n, c[o + 1]) /\ Leaves(n, c[o + 1]) = <<>>
  <2>1. CASE n.fn \in {"ENME", "ENMI"}
    <3>1. c[o + 1] = <<"name">>
      BY <2>1
    <3>2. <<"name">> # <<>> /\ Last(<<"name">>) = "name" /\ Front(<<"name">>) = <<>>
      BY DEF Last, Front
    <3>3. Closes(n, <<"name">>)
      BY <2>1, <3>2 DEF Closes
    <3>4. Leaves(n, <<"name">>) = <<>>
      BY <2>1, <3>2 DEF Leaves
    <3> QED BY <3>1, <3>3, <3>4
  <2>2. CASE n.fn \notin {"ENME", "ENMI"}
    <3>1. c[o + 1] = <<>>
      BY <2>2
    <3> QED BY <1>1, <2>2, <3>1 DEF Closes, Leaves
  <2> QED BY <2>1, <2>2
<1>4. Around(Z, c, o)
  BY <1>1, <1>2 DEF Around
<1>5. ThenGood(Z, c, o) /\ OrGood(Z, c, o)
  BY <1>3 DEF ThenGood, OrGood
<1>6. 0 < Len(Z)
  BY o + 1 = Len(Z)
<1> QED BY <1>2, <1>3, <1>4, <1>5, <1>6 DEF NodeGood

LEMMA AtomGood ==
  ASSUME NEW fn \in Simple, NEW val \in Nat, NEW arg, Fits(Node(fn, 0, 0, val, arg))
  PROVE  Good(MAKNOD(fn, val, arg))
<1> DEFINE P == MAKNOD(fn, val, arg)
           c == << <<>> >>
<1>1. fn \in Fns /\ fn \notin {"ENME", "ENMI", "ARBN"}
  BY DEF Fns, Simple, Measuring
<1>2. P \in Seq(NodesWith({arg})) /\ Len(P) = 1 /\ Made(P[1], fn, 0, 0, val, arg)
  <2>1. fn \in Fns
    BY <1>1
  <2> QED BY ONLY <2>1, val \in Nat, MadeIs
<1>3. Made(Node(fn, 0, 0, val, arg), fn, 0, 0, val, arg)
  <2>1. fn \in Fns /\ 0 \in Nat
    BY <1>1
  <2> QED BY ONLY <2>1, val \in Nat, NodeMade
<1> HIDE DEF P
<1>4. Fits(P[1])
  BY <1>2, <1>3, Zenon DEF Fits, Made
<1>5. c \in Seq(Seq(Tags)) /\ Len(c) = 1 /\ c[1] = <<>>
  <2>1. <<>> \in Seq(Tags)
    OBVIOUS
  <2> QED BY <2>1
<1> HIDE DEF c
<1>6. NodeGood(P, c, 0) /\ Role(P, 0) = "plain"
  <2>1. 0 \in Nat /\ 0 + 1 = Len(P) /\ 0 + 1 = 1
    BY <1>2
  <2>2. /\ P[0 + 1].then = 0 /\ P[0 + 1].or = 0 /\ P[0 + 1].fn \in Simple \cup {"ENME", "ENMI"}
        /\ Fits(P[0 + 1]) /\ c[0 + 1] = IF P[0 + 1].fn \in {"ENME", "ENMI"} THEN <<"name">> ELSE <<>>
    BY <1>1, <1>2, <1>4, <1>5, <2>1 DEF Made
  <2> QED BY <2>1, <2>2, EndGood
<1>7. FirstGood(P, c, {0})
  <2>1. Plain(P, c, 0, <<>>)
    BY <1>5, <1>6 DEF Plain
  <2>2. P[0 + 1].fn # "ARBN" /\ P[0 + 1].or = 0
    BY <1>1, <1>2 DEF Made
  <2>3. 0 \in 0 .. Len(P) - 1
    BY <1>2
  <2> QED BY <2>1, <2>2, <2>3 DEF FirstGood
<1>8. \A o \in 0 .. Len(P) - 1 : NodeGood(P, c, o)
  <2>1. \A o \in 0 .. Len(P) - 1 : o = 0
    BY <1>2
  <2> QED BY <1>6, <2>1
<1>9. GoodPattern(P, c, {0})
  BY <1>2, <1>5, <1>7, <1>8 DEF GoodPattern
<1> QED BY <1>9 DEF Good, P

LEMMA NamGood ==
  ASSUME NEW X, Good(X), NEW fn \in {"ENME", "ENMI"}, NEW name, fn = "ENMI" => name # Keyword
  PROVE  Good(NAM5(X, fn, name))
<1>1. PICK d, A : GoodPattern(X, d, A)
  BY DEF Good
<1>2. PICK S : X \in Seq(NodesWith(S))
  BY <1>1 DEF GoodPattern
<1>3. Len(X) \in Nat \ {0} /\ Len(d) = Len(X) /\ d \in Seq(Seq(Tags))
  BY <1>1, GoodIs
<1>4. LVALUE(X) \in Nat
  BY ONLY <1>1, LvalueIs
<1> DEFINE a == LVALUE(X)
           N == MAKNOD("NME", 0, 0)
           E == MAKNOD(fn, 0, name)
           u == CPYPAT(N, a, 0, 1)
           v == CPYPAT(X, 0, 1, Len(X) + 1)
           w == CPYPAT(E, 0, Len(X) + 1, 0)
           Z == NAM5(X, fn, name)
           K == NodesWith((S \cup {0}) \cup {name})
           t == <<"name">>
           D == Beneath(t, d)
           c == << <<>> >> \o D \o <<t>>
<1>5. Z = u \o v \o w
  BY DEF NAM5
<1>6. N \in Seq(NodesWith({0})) /\ Len(N) = 1 /\ Made(N[1], "NME", 0, 0, 0, 0)
  <2>1. "NME" \in Fns /\ 0 \in Nat
    BY DEF Fns
  <2> QED BY ONLY <2>1, MadeIs
<1>7. E \in Seq(NodesWith({name})) /\ Len(E) = 1 /\ Made(E[1], fn, 0, 0, 0, name)
  <2>1. fn \in Fns /\ 0 \in Nat
    BY DEF Fns
  <2> QED BY ONLY <2>1, MadeIs
<1> HIDE DEF N, E
<1>8. u \in Seq(NodesWith({0})) /\ Len(u) = 1 /\ Copied(N[1], u[1], a, 0, 1)
  <2>1. 0 \in Nat /\ 1 \in Nat /\ a \in Nat /\ 1 \in 1 .. Len(N)
    BY <1>4, <1>6
  <2> HIDE DEF a
  <2> QED BY ONLY <1>6, <2>1, CopyIs
<1>9. v \in Seq(NodesWith(S)) /\ Len(v) = Len(X)
  <2>1. 0 \in Nat /\ 1 \in Nat /\ Len(X) + 1 \in Nat
    BY <1>3
  <2> QED BY ONLY <1>2, <2>1, CopyIs
<1>10. w \in Seq(NodesWith({name})) /\ Len(w) = 1 /\ Copied(E[1], w[1], 0, Len(X) + 1, 0)
  <2>1. 0 \in Nat /\ Len(X) + 1 \in Nat /\ 1 \in 1 .. Len(E)
    BY <1>3, <1>7
  <2> QED BY ONLY <1>7, <2>1, CopyIs
<1>11. t \in Seq(Tags) /\ <<>> \in Seq(Tags) /\ t # <<>>
  <2>1. "name" \in Tags
    BY DEF Tags
  <2> QED BY <2>1
<1>12. D \in Seq(Seq(Tags)) /\ Len(D) = Len(X) /\ \A i \in 1 .. Len(X) : D[i] = t \o d[i]
  BY <1>3, <1>11, BeneathIs
<1> HIDE DEF D, t, u, w, Z, a
<1>13. u \in Seq(K) /\ v \in Seq(K) /\ w \in Seq(K)
  <2> HIDE DEF v
  <2> DEFINE T == (S \cup {0}) \cup {name}
  <2>1. {0} \subseteq T /\ S \subseteq T /\ {name} \subseteq T
    OBVIOUS
  <2> HIDE DEF T
  <2>2. u \in Seq(NodesWith(T))
    BY ONLY <1>8, <2>1, Wider
  <2>3. v \in Seq(NodesWith(T))
    BY ONLY <1>9, <2>1, Wider
  <2>4. w \in Seq(NodesWith(T))
    BY ONLY <1>10, <2>1, Wider
  <2> QED BY <2>2, <2>3, <2>4 DEF T
<1> HIDE DEF v
<1>14. /\ Z \in Seq(K) /\ Len(Z) = (Len(u) + Len(v)) + Len(w)
       /\ \A i \in 1 .. Len(u) : Z[i] = u[i]
       /\ \A i \in 1 .. Len(v) : Z[Len(u) + i] = v[i]
       /\ \A i \in 1 .. Len(w) : Z[(Len(u) + Len(v)) + i] = w[i]
  <2> HIDE DEF K
  <2> QED BY ONLY <1>5, <1>13, ThreeParts
<1>15. /\ c \in Seq(Seq(Tags)) /\ Len(c) = (1 + Len(X)) + 1
       /\ c[1] = <<>> /\ (\A i \in 1 .. Len(X) : c[1 + i] = t \o d[i]) /\ c[(1 + Len(X)) + 1] = t
  <2> DEFINE f == << <<>> >>
             g == <<t>>
  <2>1. f \in Seq(Seq(Tags)) /\ Len(f) = 1 /\ f[1] = <<>> /\ g \in Seq(Seq(Tags)) /\ Len(g) = 1 /\ g[1] = t
    BY <1>11
  <2>2. c = f \o D \o g
    OBVIOUS
  <2> HIDE DEF f, g, c
  <2> DEFINE TT == Seq(Tags)
  <2>5. f \in Seq(TT) /\ D \in Seq(TT) /\ g \in Seq(TT)
    BY <1>12, <2>1
  <2> HIDE DEF TT
  <2>3. /\ c \in Seq(TT) /\ Len(c) = (Len(f) + Len(D)) + Len(g)
        /\ \A i \in 1 .. Len(f) : c[i] = f[i]
        /\ \A i \in 1 .. Len(D) : c[Len(f) + i] = D[i]
        /\ \A i \in 1 .. Len(g) : c[(Len(f) + Len(D)) + i] = g[i]
    BY ONLY <2>2, <2>5, ThreeParts
  <2>4. 1 \in 1 .. Len(f) /\ 1 \in 1 .. Len(g)
    BY <2>1
  <2> QED BY <1>12, <2>1, <2>3, <2>4 DEF TT
<1> HIDE DEF c, K
<1>16. /\ Len(Z) = Len(X) + 2 /\ Len(Z) \in Nat /\ Z[1] = u[1] /\ Z[Len(X) + 2] = w[1]
       /\ \A i \in 1 .. Len(X) : Z[1 + i] = v[i]
  <2>1. Len(Z) = Len(X) + 2
    BY <1>3, <1>8, <1>9, <1>10, <1>14
  <2>2. 1 \in 1 .. Len(u) /\ 1 \in 1 .. Len(w) /\ (Len(u) + Len(v)) + 1 = Len(X) + 2
    BY <1>3, <1>8, <1>9, <1>10
  <2> QED BY <1>3, <1>8, <1>9, <1>14, <2>1, <2>2
<1>17. Placed(Z, c, X, d, 0, 1, Len(X) + 1, t)
  <2>1. \A i \in 1 .. Len(X) : Z[1 + i] = v[i] /\ c[1 + i] = t \o d[i]
    BY <1>15, <1>16
  <2>2. 0 \in Nat /\ 1 \in Nat /\ Len(X) + 1 \in Nat /\ 1 + Len(X) <= Len(Z)
    BY <1>3, <1>16
  <2>3. v = CPYPAT(X, 0, 1, Len(X) + 1)
    BY DEF v
  <2> QED BY ONLY <1>1, <1>11, <2>1, <2>2, <2>3, Placing
<1> DEFINE last == Len(X) + 1
<1>18. last \in Nat /\ last + 1 = Len(Z) /\ last + 1 = Len(X) + 2
  BY <1>3, <1>16
<1>19. Z[last + 1].fn = fn /\ Z[last + 1].then = 0 /\ Z[last + 1].or = 0 /\ Z[last + 1].arg = name
       /\ c[last + 1] = t
  <2>1. c[last + 1] = t
    <3>1. (1 + Len(X)) + 1 = last + 1
      BY <1>3
    <3> QED BY <1>15, <3>1
  <2> QED BY <1>7, <1>10, <1>16, <1>18, <2>1 DEF Copied, Made
<1>20. NodeGood(Z, c, last) /\ Role(Z, last) = "plain"
  <2>1. Fits(Z[last + 1])
    <3>1. fn \notin {"CHR", "ANYC", "NNYC"} \cup Measuring
      BY DEF Measuring
    <3> QED BY <1>19, <3>1 DEF Fits
  <2>2. c[last + 1] = IF Z[last + 1].fn \in {"ENME", "ENMI"} THEN <<"name">> ELSE <<>>
    BY <1>19 DEF t
  <2> HIDE DEF last
  <2> QED BY <1>18, <1>19, <2>1, <2>2, EndGood
<1>21. Goes(Z, c, last, t)
  <2>1. Plain(Z, c, last, t)
    BY <1>19, <1>20 DEF Plain
  <2>2. last # 0 /\ last < Len(Z)
    BY <1>3, <1>18
  <2> QED BY <2>1, <2>2 DEF Goes
<1> HIDE DEF last
<1>22. \A o \in 0 .. Len(X) - 1 : NodeGood(Z, c, 1 + o)
  <2>1. Placed(Z, c, X, d, 0, 1, last, t)
    BY <1>17 DEF last
  <2> QED BY ONLY <1>1, <1>16, <1>21, <2>1, PlacedGood
<1>23. Z[1].fn = "NME" /\ Z[1].or = 0 /\ Z[1].then = 1
  BY <1>6, <1>8, <1>16 DEF Copied, Made
<1>24. Role(Z, 0) = "plain"
  BY <1>23 DEF Role
<1>25. NodeGood(Z, c, 0)
  <2>1. Plain(Z, c, 1, t)
    <3>1. 0 \in 0 .. Len(X) - 1 /\ 1 + 0 = 1
      BY <1>3
    <3>2. Plain(X, d, 0, <<>>)
      BY <1>1 DEF GoodPattern, FirstGood
    <3>3. Plain(Z, c, 1 + 0, t \o <<>>)
      BY ONLY <1>1, <1>17, <3>1, <3>2, PlacedPlain
    <3>4. t \o <<>> = t
      BY <1>11
    <3> QED BY <3>1, <3>3, <3>4
  <2>2. Leaves(Z[1], c[1]) = t
    <3>1. Append(<<>>, "name") = t
      BY DEF t
    <3> QED BY <1>15, <1>23, <3>1 DEF Leaves
  <2>3. Fits(Z[0 + 1]) /\ Closes(Z[0 + 1], c[0 + 1])
    BY <1>23 DEF Fits, Closes, Measuring
  <2>4. Around(Z, c, 0)
    BY <1>23 DEF Around
  <2>5. ThenGood(Z, c, 0) /\ OrGood(Z, c, 0)
    BY <1>23, <2>1, <2>2 DEF ThenGood, OrGood
  <2>6. Z[0 + 1].then < Len(Z) /\ Z[0 + 1].or < Len(Z)
    BY <1>3, <1>16, <1>23
  <2> QED BY <2>3, <2>4, <2>5, <2>6 DEF NodeGood
<1>26. FirstGood(Z, c, {0})
  <2>1. Plain(Z, c, 0, <<>>)
    BY <1>15, <1>24 DEF Plain
  <2>2. Z[0 + 1].fn # "ARBN" /\ Z[0 + 1].or = 0
    BY <1>23
  <2>3. 0 \in 0 .. Len(Z) - 1
    BY <1>3, <1>16
  <2> QED BY <2>1, <2>2, <2>3 DEF FirstGood
<1>27. ASSUME NEW o \in 0 .. Len(Z) - 1 PROVE NodeGood(Z, c, o)
  <2>1. CASE o = 0
    BY <1>25, <2>1
  <2>2. CASE o \in 1 .. Len(X)
    <3>1. o - 1 \in 0 .. Len(X) - 1 /\ 1 + (o - 1) = o
      BY <1>3, <2>2
    <3> QED BY <1>22, <3>1
  <2>3. CASE o = last
    BY <1>20, <2>3
  <2>4. o = 0 \/ o \in 1 .. Len(X) \/ o = last
    BY <1>3, <1>16, <1>18
  <2> QED BY <2>1, <2>2, <2>3, <2>4
<1>28. Len(c) = Len(Z)
  BY <1>3, <1>15, <1>16
<1>29. GoodPattern(Z, c, {0})
  BY <1>14, <1>15, <1>26, <1>27, <1>28 DEF GoodPattern, K
<1> QED BY <1>29 DEF Good, Z

-----------------------------------------------------------------------------
(* ARB, BAL and *X.                                                         *)

\* What is to be shown of a pattern that is made at once.
LEMMA ThreeMade ==
  ASSUME NEW S, NEW n1 \in NodesWith(S), NEW n2 \in NodesWith(S), NEW n3 \in NodesWith(S),
         NEW P, P = <<n1, n2, n3>>, NEW c, c = << <<>>, <<>>, <<>> >>,
         P[1].fn # "ARBN", P[1].or = 0, Role(P, 0) = "plain",
         NodeGood(P, c, 0), NodeGood(P, c, 1), NodeGood(P, c, 2)
  PROVE  Good(P)
<1>1. P \in Seq(NodesWith(S)) /\ Len(P) = 3
  <2> DEFINE K == NodesWith(S)
  <2>1. n1 \in K /\ n2 \in K /\ n3 \in K
    OBVIOUS
  <2> HIDE DEF K
  <2>2. P \in Seq(K) /\ Len(P) = 3
    BY ONLY <2>1, P = <<n1, n2, n3>>
  <2> QED BY <2>2 DEF K
<1>2. c \in Seq(Seq(Tags)) /\ Len(c) = 3 /\ c[1] = <<>>
  <2>1. <<>> \in Seq(Tags)
    OBVIOUS
  <2> QED BY <2>1
<1>3. FirstGood(P, c, {0})
  <2>1. Plain(P, c, 0, <<>>)
    BY <1>2 DEF Plain
  <2>2. 0 \in 0 .. Len(P) - 1
    BY <1>1
  <2> QED BY <2>1, <2>2 DEF FirstGood
<1>4. ASSUME NEW o \in 0 .. Len(P) - 1 PROVE NodeGood(P, c, o)
  <2>1. o = 0 \/ o = 1 \/ o = 2
    BY <1>1
  <2> QED BY <2>1
<1>5. GoodPattern(P, c, {0})
  BY <1>1, <1>2, <1>3, <1>4 DEF GoodPattern
<1> QED BY <1>5 DEF Good

LEMMA ThreeGood ==
  ASSUME NEW f \in Simple, NEW g \in Simple, f \notin {"CHR", "ANYC", "NNYC"} \cup Measuring,
         g \notin {"CHR", "ANYC", "NNYC"} \cup Measuring,
         NEW P, P = <<Node("SCOK", 1, 0, 0, 0), Node(f, 0, 2, 0, 0), Node(g, 0, 2, 0, 0)>>
  PROVE  Good(P)
<1> DEFINE n1 == Node("SCOK", 1, 0, 0, 0)
           n2 == Node(f, 0, 2, 0, 0)
           n3 == Node(g, 0, 2, 0, 0)
           c == << <<>>, <<>>, <<>> >>
<1>1. n1 \in NodesWith({0}) /\ n2 \in NodesWith({0}) /\ n3 \in NodesWith({0})
  BY DEF Node, NodesWith, Fns, Simple
<1>2. /\ n1.fn = "SCOK" /\ n1.then = 1 /\ n1.or = 0
      /\ n2.fn = f /\ n2.then = 0 /\ n2.or = 2
      /\ n3.fn = g /\ n3.then = 0 /\ n3.or = 2
  BY DEF Node
<1> HIDE DEF n1, n2, n3
<1>3. P = <<n1, n2, n3>> /\ P[1] = n1 /\ P[2] = n2 /\ P[3] = n3 /\ Len(P) = 3
  BY DEF n1, n2, n3
<1>4. c[1] = <<>> /\ c[2] = <<>> /\ c[3] = <<>>
  OBVIOUS
<1> HIDE DEF c
<1>5. /\ f \notin {"NME", "ENME", "ENMI", "ARBN", "ARBF", "EARB", "ONAR", "ONRF", "STAR", "DSAR"}
      /\ g \notin {"NME", "ENME", "ENMI", "ARBN", "ARBF", "EARB", "ONAR", "ONRF", "STAR", "DSAR"}
  BY DEF Simple, Measuring
<1>6. Role(P, 0) = "plain" /\ Role(P, 1) = "plain" /\ Role(P, 2) = "plain"
  <2>1. /\ P[0 + 1] = n1 /\ P[1 + 1] = n2 /\ P[2 + 1] = n3
    BY <1>3
  <2> QED BY <1>2, <1>5, <2>1 DEF Role
<1>7. Plain(P, c, 1, <<>>) /\ Plain(P, c, 2, <<>>)
  BY <1>4, <1>6 DEF Plain
<1>8. NodeGood(P, c, 0)
  <2>1. P[0 + 1].fn = "SCOK" /\ P[0 + 1].then = 1 /\ P[0 + 1].or = 0 /\ c[0 + 1] = <<>>
    BY <1>2, <1>3, <1>4
  <2>2. Leaves(P[0 + 1], c[0 + 1]) = <<>>
    BY <2>1 DEF Leaves
  <2>3. Fits(P[0 + 1]) /\ Closes(P[0 + 1], c[0 + 1])
    BY <2>1 DEF Fits, Closes, Measuring
  <2>4. Around(P, c, 0)
    BY <1>6, <2>1 DEF Around
  <2>5. ThenGood(P, c, 0) /\ OrGood(P, c, 0)
    BY <1>7, <2>1, <2>2 DEF ThenGood, OrGood
  <2> QED BY <1>3, <2>1, <2>3, <2>4, <2>5 DEF NodeGood
<1>9. ASSUME NEW o \in {1, 2} PROVE NodeGood(P, c, o)
  <2>1. P[o + 1].fn \in {f, g} /\ P[o + 1].then = 0 /\ P[o + 1].or = 2 /\ c[o + 1] = <<>>
    BY <1>2, <1>3, <1>4
  <2>2. Leaves(P[o + 1], c[o + 1]) = <<>>
    BY <1>5, <2>1 DEF Leaves
  <2>3. Fits(P[o + 1])
    BY <1>5, <2>1 DEF Fits
  <2>4. Closes(P[o + 1], c[o + 1])
    BY <1>5, <2>1 DEF Closes
  <2>5. Around(P, c, o)
    <3>1. Role(P, o) = "plain"
      BY <1>6
    <3> QED BY <1>5, <2>1, <3>1 DEF Around
  <2>6. ThenGood(P, c, o) /\ OrGood(P, c, o)
    BY <1>7, <2>1, <2>2 DEF ThenGood, OrGood
  <2> QED BY <1>3, <2>1, <2>3, <2>4, <2>5, <2>6 DEF NodeGood
<1>10. P[1].fn # "ARBN" /\ P[1].or = 0
  BY <1>2, <1>3
<1>11. NodeGood(P, c, 1) /\ NodeGood(P, c, 2)
  BY <1>9
<1> QED BY <1>1, <1>3, <1>6, <1>8, <1>10, <1>11, ThreeMade DEF c

LEMMA ArbBalGood == Good(ARBPT) /\ Good(BALPT)
<1>1. "SCOK" \in Simple /\ "FARB" \in Simple /\ "BAL" \in Simple /\ "BALF" \in Simple
  BY DEF Simple
<1>2. {"SCOK", "FARB", "BAL", "BALF"} \cap ({"CHR", "ANYC", "NNYC"} \cup Measuring) = {}
  BY DEF Measuring
<1>3. ARBPT = <<Node("SCOK", 1, 0, 0, 0), Node("SCOK", 0, 2, 0, 0), Node("FARB", 0, 2, 0, 0)>>
  BY DEF ARBPT
<1>4. BALPT = <<Node("SCOK", 1, 0, 0, 0), Node("BAL", 0, 2, 0, 0), Node("BALF", 0, 2, 0, 0)>>
  BY DEF BALPT
<1> QED BY <1>1, <1>2, <1>3, <1>4, ThreeGood

LEMMA StarGood ==
  ASSUME NEW x \in Names
  PROVE  Good(STARPT(x))
<1> DEFINE P == STARPT(x)
           n1 == Node("STAR", 1, 0, 1, x)
           n2 == Node("SCOK", 0, 2, 0, 0)
           n3 == Node("DSAR", 1, 0, 0, x)
           c == << <<>>, <<>>, <<>> >>
<1>1. n1 \in NodesWith({x, 0}) /\ n2 \in NodesWith({x, 0}) /\ n3 \in NodesWith({x, 0})
  BY DEF Node, NodesWith, Fns, Simple
<1>2. Made(n1, "STAR", 1, 0, 1, x) /\ Made(n2, "SCOK", 0, 2, 0, 0) /\ Made(n3, "DSAR", 1, 0, 0, x)
  BY DEF Node, Made
<1>3. P = <<n1, n2, n3>>
  BY DEF STARPT
<1> HIDE DEF n1, n2, n3, P
<1>4. P[1] = n1 /\ P[2] = n2 /\ P[3] = n3 /\ Len(P) = 3
  BY <1>3
<1>5. c[1] = <<>> /\ c[2] = <<>> /\ c[3] = <<>>
  OBVIOUS
<1> HIDE DEF c
<1>6. Role(P, 0) = "plain" /\ Role(P, 1) = "DSAR" /\ Role(P, 2) = "DSAR"
  <2>1. /\ P[0 + 1] = n1 /\ P[1 + 1] = n2 /\ P[2 + 1] = n3
    BY <1>4
  <2> QED BY <1>2, <2>1 DEF Role, Made
<1>7. NodeGood(P, c, 0)
  <2>1. Made(P[0 + 1], "STAR", 1, 0, 1, x) /\ P[0 + 1] = P[1]
    BY <1>2, <1>4
  <2>2. STARGood(P, c, 0)
    BY <1>2, <1>4, <1>5 DEF STARGood, Made
  <2>3. Fits(P[0 + 1]) /\ Closes(P[0 + 1], c[0 + 1])
    BY <2>1 DEF Fits, Closes, Made, Measuring
  <2>4. Around(P, c, 0)
    BY <2>1, <2>2 DEF Around, Made
  <2>5. ThenGood(P, c, 0) /\ OrGood(P, c, 0)
    BY <2>1 DEF ThenGood, OrGood, Made
  <2> QED BY <1>4, <2>1, <2>3, <2>4, <2>5 DEF NodeGood, Made
<1>8. NodeGood(P, c, 1)
  <2>1. Made(P[1 + 1], "SCOK", 0, 2, 0, 0) /\ c[1 + 1] = <<>>
    BY <1>2, <1>4, <1>5
  <2>2. Fits(P[1 + 1]) /\ Closes(P[1 + 1], c[1 + 1])
    BY <2>1 DEF Fits, Closes, Made, Measuring
  <2>3. Around(P, c, 1)
    BY <1>2, <1>4, <1>6, <2>1 DEF Around, Made
  <2>4. Leaves(P[1 + 1], c[1 + 1]) = <<>>
    BY <2>1 DEF Leaves, Made
  <2>5. ThenGood(P, c, 1) /\ OrGood(P, c, 1)
    BY <1>6, <2>1, <2>4 DEF ThenGood, OrGood, Made
  <2> QED BY <1>4, <2>1, <2>2, <2>3, <2>5 DEF NodeGood, Made
<1>9. NodeGood(P, c, 2)
  <2>1. Made(P[2 + 1], "DSAR", 1, 0, 0, x)
    BY <1>2, <1>4
  <2>2. Fits(P[2 + 1]) /\ Closes(P[2 + 1], c[2 + 1])
    BY <2>1 DEF Fits, Closes, Made, Measuring
  <2>3. Around(P, c, 2)
    BY <1>2, <1>4, <1>6, <2>1 DEF Around, Made
  <2>4. ThenGood(P, c, 2) /\ OrGood(P, c, 2)
    BY <1>6, <2>1 DEF ThenGood, OrGood, Made
  <2> QED BY <1>4, <2>1, <2>2, <2>3, <2>4 DEF NodeGood, Made
<1>10. P[1].fn # "ARBN" /\ P[1].or = 0
  BY <1>2, <1>4 DEF Made
<1> QED BY <1>1, <1>3, <1>6, <1>7, <1>8, <1>9, <1>10, ThreeMade DEF c, P

-----------------------------------------------------------------------------
(* ARBNO.                                                                   *)

LEMMA FourParts ==
  ASSUME NEW K, NEW u \in Seq(K), NEW v \in Seq(K), NEW w \in Seq(K), NEW x \in Seq(K),
         NEW z, z = u \o v \o w \o x
  PROVE  /\ z \in Seq(K) /\ Len(z) = ((Len(u) + Len(v)) + Len(w)) + Len(x)
         /\ Len(u) \in Nat /\ Len(v) \in Nat /\ Len(w) \in Nat /\ Len(x) \in Nat
         /\ \A i \in 1 .. Len(u) : z[i] = u[i]
         /\ \A i \in 1 .. Len(v) : z[Len(u) + i] = v[i]
         /\ \A i \in 1 .. Len(w) : z[(Len(u) + Len(v)) + i] = w[i]
         /\ \A i \in 1 .. Len(x) : z[((Len(u) + Len(v)) + Len(w)) + i] = x[i]
<1> DEFINE y == u \o v \o w
<1>0. y = u \o v \o w /\ z = y \o x
  OBVIOUS
<1> HIDE DEF y
<1>1. /\ y \in Seq(K) /\ Len(y) = (Len(u) + Len(v)) + Len(w)
      /\ Len(u) \in Nat /\ Len(v) \in Nat /\ Len(w) \in Nat
      /\ \A i \in 1 .. Len(u) : y[i] = u[i]
      /\ \A i \in 1 .. Len(v) : y[Len(u) + i] = v[i]
      /\ \A i \in 1 .. Len(w) : y[(Len(u) + Len(v)) + i] = w[i]
  BY ONLY u \in Seq(K), v \in Seq(K), w \in Seq(K), <1>0, ThreeParts
<1>2. /\ z \in Seq(K) /\ Len(z) = Len(y) + Len(x) /\ Len(x) \in Nat
      /\ \A i \in 1 .. Len(y) : z[i] = y[i]
      /\ \A i \in 1 .. Len(x) : z[Len(y) + i] = x[i]
  <2>1. y \in Seq(K)
    BY <1>1
  <2>2. /\ y \o x \in Seq(K) /\ Len(y \o x) = Len(y) + Len(x) /\ Len(x) \in Nat
        /\ \A i \in 1 .. Len(y) : (y \o x)[i] = y[i]
        /\ \A i \in 1 .. Len(x) : (y \o x)[Len(y) + i] = x[i]
    BY ONLY x \in Seq(K), <2>1, ConcatIs
  <2> QED BY ONLY <1>0, <2>2
<1>3. \A i \in 1 .. Len(u) : z[i] = u[i]
  <2> TAKE i \in 1 .. Len(u)
  <2>1. i \in 1 .. Len(y)
    BY <1>1
  <2> QED BY <1>1, <1>2, <2>1
<1>4. \A i \in 1 .. Len(v) : z[Len(u) + i] = v[i]
  <2> TAKE i \in 1 .. Len(v)
  <2>1. Len(u) + i \in 1 .. Len(y)
    BY <1>1
  <2> QED BY <1>1, <1>2, <2>1
<1>5. \A i \in 1 .. Len(w) : z[(Len(u) + Len(v)) + i] = w[i]
  <2> TAKE i \in 1 .. Len(w)
  <2>1. (Len(u) + Len(v)) + i \in 1 .. Len(y)
    BY <1>1
  <2> QED BY <1>1, <1>2, <2>1
<1> QED BY <1>1, <1>2, <1>3, <1>4, <1>5

LEMMA EndsOfArbno ==
  /\ ARHED \in Seq(NodesWith({0})) /\ Len(ARHED) = 4
  /\ Made(ARHED[1], "SCOK", 1, 0, 0, 0) /\ Made(ARHED[2], "SCOK", 0, 2, 0, 0)
  /\ Made(ARHED[3], "ARBN", 4, 3, 0, 0) /\ Made(ARHED[4], "ARBF", 0, 0, 0, 0)
  /\ ARTAL \in Seq(NodesWith({0})) /\ Len(ARTAL) = 2
  /\ Made(ARTAL[1], "EARB", 1, 0, 0, 0) /\ Made(ARTAL[2], "SCOK", 0, 2, 0, 0)
  /\ ARBAK \in Seq(NodesWith({0})) /\ Len(ARBAK) = 2
  /\ Made(ARBAK[1], "ONAR", 0, 1, 0, 0) /\ Made(ARBAK[2], "ONRF", 0, 0, 0, 0)
<1> DEFINE K == NodesWith({0})
           a1 == Node("SCOK", 1, 0, 0, 0)
           a2 == Node("SCOK", 0, 2, 0, 0)
           a3 == Node("ARBN", 4, 3, 0, 0)
           a4 == Node("ARBF", 0, 0, 0, 0)
           b1 == Node("EARB", 1, 0, 0, 0)
           d1 == Node("ONAR", 0, 1, 0, 0)
           d2 == Node("ONRF", 0, 0, 0, 0)
<1>1. {"SCOK", "ARBN", "ARBF", "EARB", "ONAR", "ONRF"} \subseteq Fns
  BY DEF Fns, Simple
<1>2. a1 \in K /\ a2 \in K /\ a3 \in K /\ a4 \in K /\ b1 \in K /\ d1 \in K /\ d2 \in K
  BY <1>1 DEF Node, NodesWith
<1>3. /\ Made(a1, "SCOK", 1, 0, 0, 0) /\ Made(a2, "SCOK", 0, 2, 0, 0)
      /\ Made(a3, "ARBN", 4, 3, 0, 0) /\ Made(a4, "ARBF", 0, 0, 0, 0)
      /\ Made(b1, "EARB", 1, 0, 0, 0) /\ Made(d1, "ONAR", 0, 1, 0, 0) /\ Made(d2, "ONRF", 0, 0, 0, 0)
  BY DEF Node, Made
<1>4. ARHED = <<a1, a2, a3, a4>> /\ ARTAL = <<b1, a2>> /\ ARBAK = <<d1, d2>>
  BY DEF ARHED, ARTAL, ARBAK
<1> HIDE DEF K, a1, a2, a3, a4, b1, d1, d2
<1>5. /\ ARHED \in Seq(K) /\ Len(ARHED) = 4
      /\ ARHED[1] = a1 /\ ARHED[2] = a2 /\ ARHED[3] = a3 /\ ARHED[4] = a4
  BY <1>2, <1>4
<1>6. ARTAL \in Seq(K) /\ Len(ARTAL) = 2 /\ ARTAL[1] = b1 /\ ARTAL[2] = a2
  BY <1>2, <1>4
<1>7. ARBAK \in Seq(K) /\ Len(ARBAK) = 2 /\ ARBAK[1] = d1 /\ ARBAK[2] = d2
  BY <1>2, <1>4
<1> QED BY <1>3, <1>5, <1>6, <1>7, Zenon DEF K

InArbno == <<"arbno">>

\* The nodes of ARBNO(X), n being the number of nodes of X, and their places.
ArbnoNodes(Z, n) ==
    /\ Len(Z) = n + 8
    /\ Made(Z[1], "SCOK", 1, 0, 0, 0) /\ Made(Z[2], "SCOK", 0, 2, 0, 0)
    /\ Made(Z[3], "ARBN", 4, 3, 0, 0) /\ Made(Z[4], "ARBF", 0, 0, 0, 0)
    /\ Made(Z[n + 5], "EARB", n + 5, 0, 0, 0) /\ Made(Z[n + 6], "SCOK", 0, n + 6, 0, 0)
    /\ Made(Z[n + 7], "ONAR", 2, n + 7, 0, 0) /\ Made(Z[n + 8], "ONRF", 2, 0, 0, 0)

ArbnoPlaces(c, d, n) ==
    /\ c \in Seq(Seq(Tags)) /\ Len(c) = n + 8
    /\ c[1] = <<>> /\ c[2] = <<>> /\ c[3] = <<>> /\ c[4] = InArbno
    /\ \A i \in 1 .. n : c[4 + i] = InArbno \o d[i]
    /\ c[n + 5] = InArbno /\ c[n + 6] = <<>> /\ c[n + 7] = <<>> /\ c[n + 8] = <<>>

ArbnoIs(Z, X, S) ==
    /\ Z \in Seq(NodesWith(S \cup {0})) /\ ArbnoNodes(Z, Len(X))
    /\ \A i \in 1 .. Len(X) : Z[4 + i] = CPYPAT(X, 0, 4, Len(X) + 4)[i]

LEMMA InArbnoIs == InArbno \in Seq(Tags) /\ InArbno # <<>> /\ Last(InArbno) = "arbno"
                   /\ Front(InArbno) = <<>> /\ Append(<<>>, "arbno") = InArbno
<1>1. "arbno" \in Tags
  BY DEF Tags
<1> QED BY <1>1 DEF InArbno, Last, Front

LEMMA ArbnoMade ==
  ASSUME NEW S, NEW X \in Seq(NodesWith(S)), Len(X) # 0, NEW Z, Z = ARBNO(X)
  PROVE  ArbnoIs(Z, X, S)
<1> DEFINE n == Len(X)
           u == CPYPAT(ARHED, 0, 0, 0)
           v == CPYPAT(X, 0, 4, n + 4)
           w == CPYPAT(ARTAL, 0, n + 4, 0)
           x == CPYPAT(ARBAK, 0, n + 6, 2)
           T == S \cup {0}
<1>1. n \in Nat \ {0}
  OBVIOUS
<1>2. Z = u \o v \o w \o x
  <2>1. Len(ARHED) = 4 /\ Len(ARTAL) = 2
    BY EndsOfArbno
  <2>2. Len(ARHED) + Len(X) = n + 4 /\ (n + 4) + Len(ARTAL) = n + 6
    BY <1>1, <2>1
  <2> DEFINE tail == Len(ARHED) + Len(X)
  <2>3. Z = CPYPAT(ARHED, 0, 0, 0) \o CPYPAT(X, 0, Len(ARHED), tail)
              \o CPYPAT(ARTAL, 0, tail, 0) \o CPYPAT(ARBAK, 0, tail + Len(ARTAL), 2)
    BY DEF ARBNO
  <2>4. tail = n + 4
    BY <2>2
  <2> HIDE DEF tail, n
  <2> QED BY <2>1, <2>2, <2>3, <2>4, Zenon
<1> HIDE DEF n
<1>3. 0 \in Nat /\ 2 \in Nat /\ 4 \in Nat /\ n + 4 \in Nat /\ n + 6 \in Nat
  BY <1>1
<1>4. /\ u \in Seq(NodesWith({0})) /\ Len(u) = 4
      /\ \A i \in 1 .. 4 : Copied(ARHED[i], u[i], 0, 0, 0)
  <2>1. ARHED \in Seq(NodesWith({0})) /\ Len(ARHED) = 4
    BY EndsOfArbno
  <2>2. /\ u \in Seq(NodesWith({0})) /\ Len(u) = Len(ARHED)
        /\ \A i \in 1 .. Len(ARHED) : Copied(ARHED[i], u[i], 0, 0, 0)
    <3> DEFINE z == 0
    <3>1. z \in Nat
      OBVIOUS
    <3> HIDE DEF z
    <3>2. /\ CPYPAT(ARHED, z, z, z) \in Seq(NodesWith({0})) /\ Len(CPYPAT(ARHED, z, z, z)) = Len(ARHED)
          /\ \A i \in 1 .. Len(ARHED) : Copied(ARHED[i], CPYPAT(ARHED, z, z, z)[i], z, z, z)
      BY ONLY <2>1, <3>1, CopyIs
    <3> QED BY <3>2, Zenon DEF z
  <2> QED BY ONLY <2>1, <2>2
<1>5. v \in Seq(NodesWith(S)) /\ Len(v) = n
  <2>1. v \in Seq(NodesWith(S)) /\ Len(v) = Len(X)
    BY ONLY <1>3, X \in Seq(NodesWith(S)), CopyIs
  <2> QED BY <2>1 DEF n
<1>6. /\ w \in Seq(NodesWith({0})) /\ Len(w) = 2
      /\ \A i \in 1 .. 2 : Copied(ARTAL[i], w[i], 0, n + 4, 0)
  <2>1. ARTAL \in Seq(NodesWith({0})) /\ Len(ARTAL) = 2
    BY EndsOfArbno
  <2>2. /\ w \in Seq(NodesWith({0})) /\ Len(w) = Len(ARTAL)
        /\ \A i \in 1 .. Len(ARTAL) : Copied(ARTAL[i], w[i], 0, n + 4, 0)
    BY ONLY <1>3, <2>1, CopyIs
  <2> QED BY ONLY <2>1, <2>2
<1>7. /\ x \in Seq(NodesWith({0})) /\ Len(x) = 2
      /\ \A i \in 1 .. 2 : Copied(ARBAK[i], x[i], 0, n + 6, 2)
  <2>1. ARBAK \in Seq(NodesWith({0})) /\ Len(ARBAK) = 2
    BY EndsOfArbno
  <2>2. /\ x \in Seq(NodesWith({0})) /\ Len(x) = Len(ARBAK)
        /\ \A i \in 1 .. Len(ARBAK) : Copied(ARBAK[i], x[i], 0, n + 6, 2)
    BY ONLY <1>3, <2>1, CopyIs
  <2> QED BY ONLY <2>1, <2>2
<1> HIDE DEF u, v, w, x
<1>8. u \in Seq(NodesWith(T)) /\ v \in Seq(NodesWith(T)) /\ w \in Seq(NodesWith(T)) /\ x \in Seq(NodesWith(T))
  <2>1. {0} \subseteq T /\ S \subseteq T
    OBVIOUS
  <2> HIDE DEF T
  <2>2. u \in Seq(NodesWith(T))
    BY ONLY <1>4, <2>1, Wider
  <2>3. v \in Seq(NodesWith(T))
    BY ONLY <1>5, <2>1, Wider
  <2>4. w \in Seq(NodesWith(T))
    BY ONLY <1>6, <2>1, Wider
  <2>5. x \in Seq(NodesWith(T))
    BY ONLY <1>7, <2>1, Wider
  <2> QED BY <2>2, <2>3, <2>4, <2>5
<1>9. /\ Z \in Seq(NodesWith(T)) /\ Len(Z) = ((Len(u) + Len(v)) + Len(w)) + Len(x)
      /\ \A i \in 1 .. Len(u) : Z[i] = u[i]
      /\ \A i \in 1 .. Len(v) : Z[Len(u) + i] = v[i]
      /\ \A i \in 1 .. Len(w) : Z[(Len(u) + Len(v)) + i] = w[i]
      /\ \A i \in 1 .. Len(x) : Z[((Len(u) + Len(v)) + Len(w)) + i] = x[i]
  <2> DEFINE K == NodesWith(T)
  <2>1. u \in Seq(K) /\ v \in Seq(K) /\ w \in Seq(K) /\ x \in Seq(K)
    BY <1>8
  <2> HIDE DEF K
  <2>2. /\ Z \in Seq(K) /\ Len(Z) = ((Len(u) + Len(v)) + Len(w)) + Len(x)
        /\ \A i \in 1 .. Len(u) : Z[i] = u[i]
        /\ \A i \in 1 .. Len(v) : Z[Len(u) + i] = v[i]
        /\ \A i \in 1 .. Len(w) : Z[(Len(u) + Len(v)) + i] = w[i]
        /\ \A i \in 1 .. Len(x) : Z[((Len(u) + Len(v)) + Len(w)) + i] = x[i]
    BY ONLY <1>2, <2>1, FourParts
  <2> QED BY <2>2 DEF K
<1> HIDE DEF T
<1>10. Len(Z) = n + 8 /\ (\A i \in 1 .. n : Z[4 + i] = v[i])
  BY <1>1, <1>4, <1>5, <1>6, <1>7, <1>9
<1>11. Z[1] = u[1] /\ Z[2] = u[2] /\ Z[3] = u[3] /\ Z[4] = u[4]
  <2>1. 1 \in 1 .. Len(u) /\ 2 \in 1 .. Len(u) /\ 3 \in 1 .. Len(u) /\ 4 \in 1 .. Len(u)
    BY <1>4
  <2> QED BY <1>9, <2>1
<1>12. Z[n + 5] = w[1] /\ Z[n + 6] = w[2]
  <2>1. 1 \in 1 .. Len(w) /\ 2 \in 1 .. Len(w)
    BY <1>6
  <2>2. (Len(u) + Len(v)) + 1 = n + 5 /\ (Len(u) + Len(v)) + 2 = n + 6
    BY <1>1, <1>4, <1>5
  <2>3. Z[(Len(u) + Len(v)) + 1] = w[1] /\ Z[(Len(u) + Len(v)) + 2] = w[2]
    BY <1>9, <2>1
  <2> QED BY <2>2, <2>3, Zenon
<1>13. Z[n + 7] = x[1] /\ Z[n + 8] = x[2]
  <2>1. 1 \in 1 .. Len(x) /\ 2 \in 1 .. Len(x)
    BY <1>7
  <2>2. ((Len(u) + Len(v)) + Len(w)) + 1 = n + 7 /\ ((Len(u) + Len(v)) + Len(w)) + 2 = n + 8
    BY <1>1, <1>4, <1>5, <1>6
  <2>3. Z[((Len(u) + Len(v)) + Len(w)) + 1] = x[1] /\ Z[((Len(u) + Len(v)) + Len(w)) + 2] = x[2]
    BY <1>9, <2>1
  <2> QED BY <2>2, <2>3, Zenon
<1>14. Made(Z[1], "SCOK", 1, 0, 0, 0) /\ Made(Z[2], "SCOK", 0, 2, 0, 0)
  <2>1. Copied(ARHED[1], Z[1], 0, 0, 0) /\ Copied(ARHED[2], Z[2], 0, 0, 0)
    BY <1>4, <1>11
  <2> QED BY <2>1, EndsOfArbno DEF Copied, Made
<1>15. Made(Z[3], "ARBN", 4, 3, 0, 0) /\ Made(Z[4], "ARBF", 0, 0, 0, 0)
  <2>1. Copied(ARHED[3], Z[3], 0, 0, 0) /\ Copied(ARHED[4], Z[4], 0, 0, 0)
    BY <1>4, <1>11
  <2> QED BY <2>1, EndsOfArbno DEF Copied, Made
<1>16. Made(Z[n + 5], "EARB", n + 5, 0, 0, 0) /\ Made(Z[n + 6], "SCOK", 0, n + 6, 0, 0)
  <2>1. Copied(ARTAL[1], Z[n + 5], 0, n + 4, 0) /\ Copied(ARTAL[2], Z[n + 6], 0, n + 4, 0)
    BY <1>6, <1>12
  <2>2. 1 + (n + 4) = n + 5 /\ 2 + (n + 4) = n + 6
    BY <1>1
  <2> QED BY <2>1, <2>2, EndsOfArbno DEF Copied, Made
<1>17. Made(Z[n + 7], "ONAR", 2, n + 7, 0, 0) /\ Made(Z[n + 8], "ONRF", 2, 0, 0, 0)
  <2>1. Copied(ARBAK[1], Z[n + 7], 0, n + 6, 2) /\ Copied(ARBAK[2], Z[n + 8], 0, n + 6, 2)
    BY <1>7, <1>13
  <2>2. 1 + (n + 6) = n + 7
    BY <1>1
  <2> QED BY <2>1, <2>2, EndsOfArbno DEF Copied, Made
<1>18. ArbnoNodes(Z, n)
  BY <1>10, <1>14, <1>15, <1>16, <1>17 DEF ArbnoNodes
<1> QED BY <1>9, <1>10, <1>18 DEF T, n, v, ArbnoIs

LEMMA ArbnoPlaced ==
  ASSUME NEW d \in Seq(Seq(Tags)), NEW c,
         c = << <<>>, <<>>, <<>>, InArbno>> \o Beneath(InArbno, d) \o <<InArbno, <<>>, <<>>, <<>> >>
  PROVE  ArbnoPlaces(c, d, Len(d))
<1> DEFINE TT == Seq(Tags)
           f == << <<>>, <<>>, <<>>, InArbno>>
           D == Beneath(InArbno, d)
           g == <<InArbno, <<>>, <<>>, <<>> >>
           n == Len(d)
<1>1. <<>> \in TT /\ InArbno \in TT
  BY InArbnoIs
<1>2. D \in Seq(Seq(Tags)) /\ Len(D) = n /\ \A i \in 1 .. n : D[i] = InArbno \o d[i]
  BY ONLY InArbnoIs, d \in Seq(Seq(Tags)), BeneathIs
<1>3. D \in Seq(TT) /\ n \in Nat
  BY <1>2
<1> HIDE DEF TT, D, n
<1>4. /\ f \in Seq(TT) /\ Len(f) = 4 /\ f[1] = <<>> /\ f[2] = <<>> /\ f[3] = <<>> /\ f[4] = InArbno
      /\ g \in Seq(TT) /\ Len(g) = 4 /\ g[1] = InArbno /\ g[2] = <<>> /\ g[3] = <<>> /\ g[4] = <<>>
  BY <1>1
<1>5. c = f \o D \o g
  BY DEF D
<1> HIDE DEF f, g
<1>6. /\ c \in Seq(TT) /\ Len(c) = (Len(f) + Len(D)) + Len(g)
      /\ \A i \in 1 .. Len(f) : c[i] = f[i]
      /\ \A i \in 1 .. Len(D) : c[Len(f) + i] = D[i]
      /\ \A i \in 1 .. Len(g) : c[(Len(f) + Len(D)) + i] = g[i]
  <2>1. f \in Seq(TT) /\ g \in Seq(TT)
    BY <1>4
  <2> QED BY ONLY <1>3, <1>5, <2>1, ThreeParts
<1>7. c[1] = <<>> /\ c[2] = <<>> /\ c[3] = <<>> /\ c[4] = InArbno
  <2>1. 1 \in 1 .. Len(f) /\ 2 \in 1 .. Len(f) /\ 3 \in 1 .. Len(f) /\ 4 \in 1 .. Len(f)
    BY <1>4
  <2> QED BY <1>4, <1>6, <2>1
<1>8. c[n + 5] = InArbno /\ c[n + 6] = <<>> /\ c[n + 7] = <<>> /\ c[n + 8] = <<>>
  <2>1. 1 \in 1 .. Len(g) /\ 2 \in 1 .. Len(g) /\ 3 \in 1 .. Len(g) /\ 4 \in 1 .. Len(g)
    BY <1>4
  <2>2. /\ (Len(f) + Len(D)) + 1 = n + 5 /\ (Len(f) + Len(D)) + 2 = n + 6
        /\ (Len(f) + Len(D)) + 3 = n + 7 /\ (Len(f) + Len(D)) + 4 = n + 8
    BY <1>2, <1>3, <1>4
  <2>3. /\ c[(Len(f) + Len(D)) + 1] = g[1] /\ c[(Len(f) + Len(D)) + 2] = g[2]
        /\ c[(Len(f) + Len(D)) + 3] = g[3] /\ c[(Len(f) + Len(D)) + 4] = g[4]
    BY <1>6, <2>1
  <2> QED BY <1>4, <2>2, <2>3, Zenon
<1>9. \A i \in 1 .. n : c[4 + i] = InArbno \o d[i]
  BY <1>2, <1>4, <1>6
<1>10. Len(c) = n + 8
  BY <1>2, <1>3, <1>4, <1>6
<1>11. c \in Seq(Seq(Tags))
  BY <1>6 DEF TT
<1>12. ArbnoPlaces(c, d, n)
  BY <1>7, <1>8, <1>9, <1>10, <1>11 DEF ArbnoPlaces
<1> QED BY <1>12 DEF n

\* The first four of its nodes are good, when what follows them is.
LEMMA ArbnoHead ==
  ASSUME NEW Z, NEW c, NEW d, NEW n \in Nat \ {0}, ArbnoNodes(Z, n), ArbnoPlaces(c, d, n),
         Plain(Z, c, 4, InArbno)
  PROVE  /\ NodeGood(Z, c, 0) /\ NodeGood(Z, c, 1) /\ NodeGood(Z, c, 2) /\ NodeGood(Z, c, 3)
         /\ Plain(Z, c, 0, <<>>) /\ Plain(Z, c, 2, <<>>)
<1>1. /\ Made(Z[0 + 1], "SCOK", 1, 0, 0, 0) /\ Made(Z[1 + 1], "SCOK", 0, 2, 0, 0)
      /\ Made(Z[2 + 1], "ARBN", 4, 3, 0, 0) /\ Made(Z[3 + 1], "ARBF", 0, 0, 0, 0)
      /\ Z[0 + 1] = Z[1] /\ Z[1 + 1] = Z[2] /\ Z[2 + 1] = Z[3] /\ Z[3 + 1] = Z[4]
  BY DEF ArbnoNodes
<1>2. Len(Z) = n + 8 /\ 4 < Len(Z) /\ 4 <= Len(Z)
  BY DEF ArbnoNodes
<1>3. c[0 + 1] = <<>> /\ c[1 + 1] = <<>> /\ c[2 + 1] = <<>> /\ c[3 + 1] = InArbno
  BY DEF ArbnoPlaces
<1>4. Role(Z, 0) = "plain" /\ Role(Z, 1) = "plain" /\ Role(Z, 2) = "plain" /\ Role(Z, 3) = "ARBF"
  BY <1>1 DEF Role, Made
<1>5. Plain(Z, c, 0, <<>>) /\ Plain(Z, c, 1, <<>>) /\ Plain(Z, c, 2, <<>>)
  BY <1>3, <1>4 DEF Plain
<1>6. \A o \in 0 .. 3 : Fits(Z[o + 1]) /\ Closes(Z[o + 1], c[o + 1])
  <2> TAKE o \in 0 .. 3
  <2>1. Z[o + 1].fn \in {"SCOK", "ARBN", "ARBF"}
    BY <1>1 DEF Made
  <2> QED BY <2>1 DEF Fits, Closes, Measuring
<1>7. NodeGood(Z, c, 0)
  <2>1. Leaves(Z[0 + 1], c[0 + 1]) = <<>>
    BY <1>1, <1>3 DEF Leaves, Made
  <2>2. ThenGood(Z, c, 0) /\ OrGood(Z, c, 0)
    BY <1>1, <1>5, <2>1 DEF ThenGood, OrGood, Made
  <2>3. Around(Z, c, 0)
    BY <1>1, <1>4 DEF Around, Made
  <2>4. Fits(Z[0 + 1]) /\ Closes(Z[0 + 1], c[0 + 1])
    BY <1>6
  <2>5. Z[0 + 1].then < Len(Z) /\ Z[0 + 1].or < Len(Z)
    BY <1>1, <1>2 DEF Made
  <2> QED BY <2>2, <2>3, <2>4, <2>5 DEF NodeGood
<1>8. NodeGood(Z, c, 1)
  <2>1. Leaves(Z[1 + 1], c[1 + 1]) = <<>>
    BY <1>1, <1>3 DEF Leaves, Made
  <2>2. ThenGood(Z, c, 1) /\ OrGood(Z, c, 1)
    BY <1>1, <1>3, <1>5, <2>1 DEF ThenGood, OrGood, Made
  <2>3. Around(Z, c, 1)
    BY <1>1, <1>4 DEF Around, Made
  <2>4. Fits(Z[1 + 1]) /\ Closes(Z[1 + 1], c[1 + 1])
    BY <1>6
  <2>5. Z[1 + 1].then < Len(Z) /\ Z[1 + 1].or < Len(Z)
    BY <1>1, <1>2 DEF Made
  <2> QED BY <2>2, <2>3, <2>4, <2>5 DEF NodeGood
<1>9. NodeGood(Z, c, 2)
  <2>1. Leaves(Z[2 + 1], c[2 + 1]) = InArbno
    BY <1>1, <1>3, InArbnoIs DEF Leaves, Made
  <2>2. ThenGood(Z, c, 2) /\ OrGood(Z, c, 2)
    BY <1>1, <2>1 DEF ThenGood, OrGood, Made
  <2>3. ARBNGood(Z, c, 2)
    <3>1. 2 + 2 <= Len(Z) /\ 2 + 2 = 3 + 1 /\ 2 + 1 = 3
      BY <1>2
    <3>2. c[2 + 2] = Append(c[2 + 1], "arbno")
      BY <1>3, <3>1, InArbnoIs
    <3> QED BY <1>1, <3>1, <3>2 DEF ARBNGood, Made
  <2>4. Around(Z, c, 2)
    BY <1>1, <2>3 DEF Around, Made
  <2>5. Fits(Z[2 + 1]) /\ Closes(Z[2 + 1], c[2 + 1])
    BY <1>6
  <2>6. Z[2 + 1].then < Len(Z) /\ Z[2 + 1].or < Len(Z)
    BY <1>1, <1>2 DEF Made
  <2> QED BY <2>2, <2>4, <2>5, <2>6 DEF NodeGood
<1>10. NodeGood(Z, c, 3)
  <2>1. ThenGood(Z, c, 3) /\ OrGood(Z, c, 3)
    BY <1>1 DEF ThenGood, OrGood, Made
  <2>2. Around(Z, c, 3)
    BY <1>1 DEF Around, Made
  <2>3. Fits(Z[3 + 1]) /\ Closes(Z[3 + 1], c[3 + 1])
    BY <1>6
  <2>4. Z[3 + 1].then < Len(Z) /\ Z[3 + 1].or < Len(Z)
    BY <1>1, <1>2 DEF Made
  <2> QED BY <2>1, <2>2, <2>3, <2>4 DEF NodeGood
<1> QED BY <1>5, <1>7, <1>8, <1>9, <1>10

\* So are the last four.
LEMMA ArbnoTail ==
  ASSUME NEW Z, NEW c, NEW d, NEW n \in Nat \ {0}, ArbnoNodes(Z, n), ArbnoPlaces(c, d, n),
         NEW o, o = n + 4, Plain(Z, c, 2, <<>>)
  PROVE  /\ NodeGood(Z, c, o) /\ NodeGood(Z, c, o + 1) /\ NodeGood(Z, c, o + 2) /\ NodeGood(Z, c, o + 3)
         /\ Plain(Z, c, o, InArbno)
<1>1. /\ o \in Nat /\ o + 1 = n + 5 /\ o + 2 = n + 6 /\ o + 3 = n + 7 /\ o + 4 = n + 8
      /\ (o + 1) + 1 = o + 2 /\ (o + 2) + 1 = o + 3 /\ (o + 3) + 1 = o + 4
      /\ (o + 2) - 1 = o + 1 /\ (o + 3) - 2 = o + 1 /\ o + 1 >= 1 /\ o + 2 >= 2 /\ o + 3 >= 3
      /\ o + 2 # 0 /\ o + 3 # 0
  OBVIOUS
<1>2. /\ Made(Z[o + 1], "EARB", o + 1, 0, 0, 0) /\ Made(Z[(o + 1) + 1], "SCOK", 0, o + 2, 0, 0)
      /\ Made(Z[(o + 2) + 1], "ONAR", 2, o + 3, 0, 0) /\ Made(Z[(o + 3) + 1], "ONRF", 2, 0, 0, 0)
  BY <1>1 DEF ArbnoNodes
<1>3. Len(Z) = o + 4 /\ o + 3 < Len(Z) /\ 2 < Len(Z) /\ o + 1 < Len(Z) /\ o + 2 < Len(Z) /\ 0 < Len(Z)
      /\ o + 4 <= Len(Z)
  <2>1. Len(Z) = o + 4
    BY <1>1 DEF ArbnoNodes
  <2> QED BY ONLY <1>1, <2>1, n \in Nat \ {0}, o = n + 4
<1>4. /\ c[o + 1] = InArbno /\ c[(o + 1) + 1] = <<>> /\ c[(o + 2) + 1] = <<>> /\ c[(o + 3) + 1] = <<>>
  BY <1>1 DEF ArbnoPlaces
<1>5. Role(Z, o) = "plain" /\ Role(Z, o + 1) = "ONAR" /\ Role(Z, o + 2) = "ONAR" /\ Role(Z, o + 3) = "ONAR"
  <2>1. Role(Z, o) = "plain"
    BY <1>2 DEF Role, Made
  <2>2. Role(Z, o + 1) = "ONAR"
    BY <1>1, <1>2 DEF Role, Made
  <2>3. Role(Z, o + 2) = "ONAR"
    BY <1>2 DEF Role, Made
  <2>4. Role(Z, o + 3) = "ONAR"
    BY <1>2 DEF Role, Made
  <2> QED BY <2>1, <2>2, <2>3, <2>4
<1>6. Plain(Z, c, o, InArbno)
  BY <1>4, <1>5 DEF Plain
<1>7. EARBGood(Z, c, o)
  <2>1. /\ Made(Z[o + 2], "SCOK", 0, o + 2, 0, 0) /\ Made(Z[o + 3], "ONAR", 2, o + 3, 0, 0)
        /\ Made(Z[o + 4], "ONRF", 2, 0, 0, 0)
    BY <1>1, <1>2
  <2>2. c[o + 2] = <<>> /\ c[o + 3] = <<>> /\ c[o + 4] = <<>> /\ Front(c[o + 1]) = <<>>
    BY <1>1, <1>4, InArbnoIs
  <2>3. \A k \in 2 .. 4 : Z[o + k].val = Z[o + 1].val /\ c[o + k] = Front(c[o + 1])
    <3> TAKE k \in 2 .. 4
    <3>1. k = 2 \/ k = 3 \/ k = 4
      OBVIOUS
    <3>2. Z[o + 2].val = 0 /\ Z[o + 3].val = 0 /\ Z[o + 4].val = 0 /\ Z[o + 1].val = 0
      BY <1>2, <2>1 DEF Made
    <3> QED BY <2>2, <3>1, <3>2
  <2> QED BY <1>2, <1>3, <2>1, <2>3 DEF EARBGood, Made
<1>8. NodeGood(Z, c, o)
  <2>1. Fits(Z[o + 1]) /\ Closes(Z[o + 1], c[o + 1])
    BY <1>2, <1>4, InArbnoIs DEF Fits, Closes, Measuring, Made
  <2>2. Around(Z, c, o)
    BY <1>2, <1>7 DEF Around, Made
  <2>3. ThenGood(Z, c, o) /\ OrGood(Z, c, o)
    BY <1>2 DEF ThenGood, OrGood, Made
  <2>4. Z[o + 1].then < Len(Z) /\ Z[o + 1].or < Len(Z)
    BY <1>2, <1>3 DEF Made
  <2> QED BY <2>1, <2>2, <2>3, <2>4 DEF NodeGood
<1>9. NodeGood(Z, c, o + 1)
  <2>1. Fits(Z[(o + 1) + 1]) /\ Closes(Z[(o + 1) + 1], c[(o + 1) + 1])
    BY <1>2 DEF Fits, Closes, Measuring, Made
  <2>2. Around(Z, c, o + 1)
    BY <1>1, <1>2, <1>5 DEF Around, Made
  <2>3. Leaves(Z[(o + 1) + 1], c[(o + 1) + 1]) = <<>>
    BY <1>2, <1>4 DEF Leaves, Made
  <2>4. ThenGood(Z, c, o + 1) /\ OrGood(Z, c, o + 1)
    BY <1>2, <1>5, <2>3 DEF ThenGood, OrGood, Made
  <2>5. Z[(o + 1) + 1].then < Len(Z) /\ Z[(o + 1) + 1].or < Len(Z)
    BY <1>2, <1>3 DEF Made
  <2> QED BY <2>1, <2>2, <2>4, <2>5 DEF NodeGood
<1>10. NodeGood(Z, c, o + 2)
  <2>1. Fits(Z[(o + 2) + 1]) /\ Closes(Z[(o + 2) + 1], c[(o + 2) + 1])
    BY <1>2 DEF Fits, Closes, Measuring, Made
  <2>2. Around(Z, c, o + 2)
    BY <1>1, <1>2 DEF Around, Made
  <2>3. Leaves(Z[(o + 2) + 1], c[(o + 2) + 1]) = <<>>
    BY <1>2, <1>4 DEF Leaves, Made
  <2>4. ThenGood(Z, c, o + 2) /\ OrGood(Z, c, o + 2)
    BY <1>2, <1>5, <2>3 DEF ThenGood, OrGood, Made
  <2>5. Z[(o + 2) + 1].then < Len(Z) /\ Z[(o + 2) + 1].or < Len(Z)
    BY <1>2, <1>3 DEF Made
  <2> QED BY <2>1, <2>2, <2>4, <2>5 DEF NodeGood
<1>11. NodeGood(Z, c, o + 3)
  <2>1. Fits(Z[(o + 3) + 1]) /\ Closes(Z[(o + 3) + 1], c[(o + 3) + 1])
    BY <1>2 DEF Fits, Closes, Measuring, Made
  <2>2. Around(Z, c, o + 3)
    BY <1>1, <1>2 DEF Around, Made
  <2>3. ThenGood(Z, c, o + 3) /\ OrGood(Z, c, o + 3)
    BY <1>2, <1>5 DEF ThenGood, OrGood, Made
  <2>4. Z[(o + 3) + 1].then < Len(Z) /\ Z[(o + 3) + 1].or < Len(Z)
    BY <1>2, <1>3 DEF Made
  <2> QED BY <2>1, <2>2, <2>3, <2>4 DEF NodeGood
<1> QED BY <1>6, <1>8, <1>9, <1>10, <1>11

LEMMA ArbnoGood ==
  ASSUME NEW X, Good(X)
  PROVE  Good(ARBNO(X))
<1>1. PICK d, A : GoodPattern(X, d, A)
  BY DEF Good
<1>2. PICK S : X \in Seq(NodesWith(S))
  BY <1>1 DEF GoodPattern
<1> DEFINE Z == ARBNO(X)
           n == Len(X)
           c == << <<>>, <<>>, <<>>, InArbno>> \o Beneath(InArbno, d) \o <<InArbno, <<>>, <<>>, <<>> >>
<1>3. n \in Nat \ {0} /\ Len(d) = n /\ d \in Seq(Seq(Tags))
  BY <1>1, GoodIs
<1>4. /\ Z \in Seq(NodesWith(S \cup {0})) /\ ArbnoNodes(Z, Len(X))
      /\ \A i \in 1 .. Len(X) : Z[4 + i] = CPYPAT(X, 0, 4, Len(X) + 4)[i]
  <2>1. Len(X) # 0
    BY <1>3
  <2>2. Z = ARBNO(X)
    OBVIOUS
  <2> HIDE DEF Z, n
  <2>3. ArbnoIs(Z, X, S)
    BY ONLY <1>2, <2>1, <2>2, ArbnoMade
  <2> QED BY <2>3 DEF ArbnoIs
<1>5. ArbnoPlaces(c, d, n)
  <2>1. ArbnoPlaces(c, d, Len(d))
    BY ONLY <1>3, ArbnoPlaced
  <2> QED BY <1>3, <2>1
<1> HIDE DEF c, Z
<1>6. Len(Z) = n + 8 /\ Len(Z) \in Nat
  BY <1>3, <1>4 DEF ArbnoNodes
<1>7. Placed(Z, c, X, d, 0, 4, n + 4, InArbno)
  <2>1. \A i \in 1 .. Len(X) : Z[4 + i] = CPYPAT(X, 0, 4, n + 4)[i] /\ c[4 + i] = InArbno \o d[i]
    BY <1>4, <1>5 DEF ArbnoPlaces
  <2>2. 0 \in Nat /\ 4 \in Nat /\ n + 4 \in Nat /\ 4 + Len(X) <= Len(Z)
    BY <1>3, <1>6
  <2>3. InArbno \in Seq(Tags)
    BY InArbnoIs
  <2> DEFINE next == n + 4
             base == 4
             none == 0
             Y == CPYPAT(X, none, base, next)
  <2>4. \A i \in 1 .. Len(X) : Z[4 + i] = Y[i] /\ c[4 + i] = InArbno \o d[i]
    BY <2>1
  <2>5. Y = CPYPAT(X, none, base, next)
    OBVIOUS
  <2>6. none \in Nat /\ base \in Nat /\ next \in Nat /\ base + Len(X) <= Len(Z)
    BY <2>2
  <2>7. \A i \in 1 .. Len(X) : Z[base + i] = Y[i] /\ c[base + i] = InArbno \o d[i]
    BY <2>4
  <2> HIDE DEF Y, n, next, base, none
  <2>8. Placed(Z, c, X, d, none, base, next, InArbno)
    BY ONLY <1>1, <2>3, <2>5, <2>6, <2>7, Placing
  <2> QED BY <2>8 DEF next, base, none
<1>8. Plain(Z, c, 4, InArbno)
  <2>1. 0 \in 0 .. Len(X) - 1 /\ 4 + 0 = 4
    BY <1>3
  <2>2. Plain(X, d, 0, <<>>)
    BY <1>1 DEF GoodPattern, FirstGood
  <2>3. Plain(Z, c, 4 + 0, InArbno \o <<>>)
    BY ONLY <1>1, <1>7, <2>1, <2>2, PlacedPlain
  <2>4. InArbno \o <<>> = InArbno
    BY InArbnoIs
  <2> QED BY <2>1, <2>3, <2>4
<1>9. ArbnoNodes(Z, n)
  BY <1>4
<1> HIDE DEF n
<1>10. /\ NodeGood(Z, c, 0) /\ NodeGood(Z, c, 1) /\ NodeGood(Z, c, 2) /\ NodeGood(Z, c, 3)
       /\ Plain(Z, c, 0, <<>>) /\ Plain(Z, c, 2, <<>>)
  BY ONLY <1>3, <1>5, <1>8, <1>9, ArbnoHead
<1> DEFINE o == n + 4
<1>11. /\ NodeGood(Z, c, o) /\ NodeGood(Z, c, o + 1) /\ NodeGood(Z, c, o + 2) /\ NodeGood(Z, c, o + 3)
       /\ Plain(Z, c, o, InArbno)
  <2>1. o = n + 4
    OBVIOUS
  <2> HIDE DEF o
  <2> QED BY ONLY <1>3, <1>5, <1>9, <1>10, <2>1, ArbnoTail
<1>12. Goes(Z, c, o, InArbno)
  <2>1. o # 0 /\ o < Len(Z)
    BY <1>3, <1>6
  <2> QED BY <1>11, <2>1 DEF Goes
<1>13. \A q \in 0 .. n - 1 : NodeGood(Z, c, 4 + q)
  <2>1. Placed(Z, c, X, d, 0, 4, o, InArbno)
    BY <1>7
  <2> HIDE DEF o
  <2>2. \A q \in 0 .. Len(X) - 1 : NodeGood(Z, c, 4 + q)
    BY ONLY <1>1, <1>6, <1>12, <2>1, PlacedGood
  <2> QED BY <2>2 DEF n
<1>14. ASSUME NEW q \in 0 .. Len(Z) - 1 PROVE NodeGood(Z, c, q)
  <2>1. CASE q \in 0 .. 3
    <3>1. q = 0 \/ q = 1 \/ q = 2 \/ q = 3
      BY <2>1
    <3> QED BY <1>10, <3>1
  <2>2. CASE q \in 4 .. n + 3
    <3>1. q - 4 \in 0 .. n - 1 /\ 4 + (q - 4) = q
      BY <1>3, <2>2
    <3> QED BY <1>13, <3>1
  <2>3. CASE q \in n + 4 .. n + 7
    <3>1. q = o \/ q = o + 1 \/ q = o + 2 \/ q = o + 3
      BY <1>3, <2>3
    <3> HIDE DEF o
    <3> QED BY <1>11, <3>1
  <2>4. q \in 0 .. 3 \/ q \in 4 .. n + 3 \/ q \in n + 4 .. n + 7
    BY <1>3, <1>6
  <2> QED BY <2>1, <2>2, <2>3, <2>4
<1>15. FirstGood(Z, c, {0})
  <2>1. Z[0 + 1].fn = "SCOK" /\ Z[0 + 1].or = 0
    BY <1>9 DEF ArbnoNodes, Made
  <2>2. 0 \in 0 .. Len(Z) - 1
    BY <1>3, <1>6
  <2> QED BY <1>10, <2>1, <2>2 DEF FirstGood
<1>16. Len(c) = Len(Z) /\ c \in Seq(Seq(Tags))
  BY <1>5, <1>6 DEF ArbnoPlaces
<1>17. GoodPattern(Z, c, {0})
  BY <1>4, <1>14, <1>15, <1>16 DEF GoodPattern
<1> QED BY <1>17 DEF Good, Z

-----------------------------------------------------------------------------
(* What the procedures of PatternNodes make, of one another: CONCAT, OR,    *)
(* NAM5 and ARBNO of patterns that were made before, from nodes of MAKNOD,  *)
(* and ARB, BAL and *X.                                                     *)

\* P is made from patterns of S, or from none.
Atom(P) == \E fn \in Simple, val \in Nat : \E arg :
               Fits(Node(fn, 0, 0, val, arg)) /\ P = MAKNOD(fn, val, arg)
Named(X, P) == \E fn \in {"ENME", "ENMI"} : \E name :
                   (fn = "ENMI" => name # Keyword) /\ P = NAM5(X, fn, name)
MadeFrom(S, P) ==
    \/ Atom(P) \/ P \in {ARBPT, BALPT} \/ \E x \in Names : P = STARPT(x)
    \/ \E X, Y \in S : P = CON(X, Y) \/ P = OR(X, Y)
    \/ \E X \in S : P = ARBNO(X) \/ Named(X, P)

\* D lists what was made on the way to P, which is the last of it.
Built(P) ==
    \E D : /\ AnySeq(D) /\ D # <<>> /\ P = D[Len(D)]
           /\ \A i \in 1 .. Len(D) : MadeFrom({D[j] : j \in 1 .. i - 1}, D[i])

LEMMA MadeGood ==
  ASSUME NEW S, \A X \in S : Good(X), NEW P, MadeFrom(S, P)
  PROVE  Good(P)
<1>1. CASE Atom(P)
  <2>1. PICK fn \in Simple, val \in Nat : \E arg :
               Fits(Node(fn, 0, 0, val, arg)) /\ P = MAKNOD(fn, val, arg)
    BY <1>1 DEF Atom
  <2>2. PICK arg : Fits(Node(fn, 0, 0, val, arg)) /\ P = MAKNOD(fn, val, arg)
    BY <2>1
  <2>3. Fits(Node(fn, 0, 0, val, arg))
    BY <2>2
  <2>4. Good(MAKNOD(fn, val, arg))
    BY ONLY <2>3, AtomGood
  <2> QED BY <2>2, <2>4
<1>2. CASE P \in {ARBPT, BALPT} \/ \E x \in Names : P = STARPT(x)
  BY <1>2, ArbBalGood, StarGood
<1>3. CASE \E X, Y \in S : P = CON(X, Y) \/ P = OR(X, Y)
  BY <1>3, ConGood, OrsGood
<1>4. CASE \E X \in S : P = ARBNO(X)
  BY <1>4, ArbnoGood
<1>5. CASE \E X \in S : Named(X, P)
  BY <1>5, NamGood DEF Named
<1> QED BY <1>1, <1>2, <1>3, <1>4, <1>5 DEF MadeFrom

\* No first one of them is not good.
LEMMA BuiltGood ==
  ASSUME NEW P, Built(P)
  PROVE  Good(P)
<1>1. PICK D : /\ AnySeq(D) /\ D # <<>> /\ P = D[Len(D)]
               /\ \A i \in 1 .. Len(D) : MadeFrom({D[j] : j \in 1 .. i - 1}, D[i])
  BY DEF Built
<1>2. Len(D) \in Nat \ {0}
  BY <1>1 DEF AnySeq
<1> DEFINE Bad == {i \in 1 .. Len(D) : ~Good(D[i])}
<1>3. Bad = {}
  <2> SUFFICES ASSUME Bad # {} PROVE FALSE
    OBVIOUS
  <2>1. Bad \in SUBSET Nat
    OBVIOUS
  <2>2. PICK n \in Bad : \A m \in Bad : n <= m
    <3> HIDE DEF Bad
    <3> QED BY <2>1, NatLeast
  <2>3. n \in 1 .. Len(D) /\ ~Good(D[n])
    OBVIOUS
  <2>4. ASSUME NEW j \in 1 .. n - 1 PROVE Good(D[j])
    <3>1. j \in 1 .. Len(D) /\ ~(n <= j)
      BY <1>2, <2>3
    <3> QED BY <2>2, <3>1
  <2> DEFINE S == {D[j] : j \in 1 .. n - 1}
  <2>5. \A X \in S : Good(X)
    BY <2>4
  <2>6. MadeFrom(S, D[n])
    BY <1>1, <2>3
  <2> HIDE DEF S, Bad
  <2>7. Good(D[n])
    BY <2>5, <2>6, MadeGood
  <2> QED BY <2>3, <2>7
<1>4. Len(D) \in 1 .. Len(D)
  BY <1>2
<1> QED BY <1>1, <1>3, <1>4

-----------------------------------------------------------------------------
(* Matches.  A statement's match has a level for itself and one for each    *)
(* SCIN in progress: the pattern, MAXLEN, the height of the stack below it, *)
(* and the starts it has on the stack.  C is a sequence of levels.  F is    *)
(* what the lists held when the statement began.                            *)

\* The patterns, their places, and the mode.
Worlds(W) ==
    /\ Names \subseteq DOMAIN W.nodes /\ {W.quick, W.anchored} \subseteq BOOLEAN
    /\ \A p \in DOMAIN W.nodes : \E A : GoodPattern(W.nodes[p], W.open[p], A)

AllSubjects == (UNION {{p.subject, p.inner.subject} : p \in Problems}) \cup {<<>>}
Registers(W) ==
    [PATBCL : DOMAIN W.nodes, PATICL : Int, then : Int, res : Int, LENFCL : BOOLEAN,
     MAXLEN : Int, TXSP : Int, HEADSP : Int, XSP : AllSubjects, TCL : Int, PDLHED : Int, NHEDCL : Int]
EntryFns == {Link, "SCON", "SCFL", "RTNUL3", "SUCF", "BRKXF", "FNME", "DNME", "DNME1", "started"}
EntrySet(W) ==
    [fn : EntryFns, or : Int, then : Int, cur : Int, res : Int, len : BOOLEAN, owner : DOMAIN W.nodes]

Levels(W) == [pat : DOMAIN W.nodes, max : Int, at : Nat, open : Seq(Tags)]
Sound(W, C) ==
    /\ C \in Seq(Levels(W)) /\ C # <<>>
    /\ \A j, k \in 1 .. Len(C) : j < k => C[j].at + Len(C[j].open) < C[k].at
Height(C) == Last(C).at + Len(Last(C).open)

Pushed(C, tag) == [C EXCEPT ![Len(C)].open = Append(@, tag)]
Level(x, max, at) == [pat |-> x, max |-> max, at |-> at, open |-> <<>>]
Opened(C, x, max) == Append(C, Level(x, max, Height(C) + 1))

Pat(W, C) == W.nodes[Last(C).pat]
NodeOf(W, C, o) == W.nodes[Last(C).pat][o + 1]
RoleOf(W, C, o) == Role(W.nodes[Last(C).pat], o)

\* What the node at o needs to have open is open.
Place(W, C, o) == /\ o \in 0 .. Len(W.nodes[Last(C).pat]) - 1
                  /\ Last(C).open = W.open[Last(C).pat][o + 1]
Short(W, C, o, cur) == W.quick /\ cur + NodeOf(W, C, o).val > Last(C).max
Needed(W, n) == IF W.quick THEN n.val ELSE 0

\* The name of *X of which the node at o is a part.
Star(W, C, o) == IF NodeOf(W, C, o).fn = "DSAR" THEN NodeOf(W, C, o).arg
                 ELSE NodeOf(W, C, NodeOf(W, C, o).or).arg

\* The node at o may be next, at the cursor cur, on levels C, where backing up would be on
\* levels B, and top is the last entry of the history list.
JoinsARBF(W, B, top, o, cur, C) ==
    /\ top.fn # "started"
    /\ Short(W, C, o, cur) => C = B /\ Place(W, Pushed(C, "arbno"), o)
    /\ ~ Short(W, C, o, cur) => Place(W, C, o) /\ C = Pushed(B, "arbno")
JoinsONAR(W, B, top, o, cur, C) ==
    /\ Place(W, C, o) /\ C = B /\ top.fn = "started" /\ top.cur = cur
    /\ ~ Short(W, C, o, cur)
JoinsDSAR(W, B, top, o, cur, C) ==
    /\ Place(W, C, o) /\ top.fn # "started"
    /\ IsString(Star(W, C, o)) => C = B
    /\ ~ IsString(Star(W, C, o)) =>
         /\ ~ Short(W, C, o, cur)
         /\ B = Opened(C, Star(W, C, o), Last(C).max - Needed(W, NodeOf(W, C, o)))
Joins(W, B, top, o, cur, C) ==
    \/ RoleOf(W, C, o) = "plain" /\ Place(W, C, o) /\ C = B /\ top.fn # "started"
    \/ RoleOf(W, C, o) = "ARBF" /\ JoinsARBF(W, B, top, o, cur, C)
    \/ RoleOf(W, C, o) = "ONAR" /\ JoinsONAR(W, B, top, o, cur, C)
    \/ RoleOf(W, C, o) = "DSAR" /\ JoinsDSAR(W, B, top, o, cur, C)

\* The pattern may go on at the node then, or end: SCOK.
Ends(W, C, cur) == Last(C).open = <<>> /\ (W.quick => cur <= Last(C).max)
Follows(W, C, then, cur) ==
    \/ then = 0 /\ Ends(W, C, cur)
    \/ then # 0 /\ RoleOf(W, C, then) = "plain" /\ Place(W, C, then)
GoesOn(W, B, top, then, cur, C) ==
    \/ then = 0 /\ C = B /\ top.fn # "started" /\ Ends(W, C, cur)
    \/ then # 0 /\ Joins(W, B, top, then, cur, C)

\* A break character was found for the node at o, whose entry is below.
Breaks(W, C, o, below) ==
    /\ Place(W, C, o) /\ NodeOf(W, C, o).fn = "BRKX"
    /\ below.fn = Link /\ below.then = NodeOf(W, C, o).then

\* The entry e, above under and under2, leads from levels C back to levels B.
StepLink(W, B, under, e, C) ==
    /\ e.or = 0 => C = B /\ under.fn # "started"
    /\ e.or # 0 => /\ Joins(W, B, under, e.or, e.cur, C) /\ e.owner = Last(C).pat
                   /\ RoleOf(W, C, e.or) = "ARBF" => ~ Short(W, C, e.or, e.cur)
StepSUCF(W, B, under, e, C) == C = B /\ under.fn = Link /\ Follows(W, C, under.then, e.cur)
StepBRKXF(W, B, under2, under, C) ==
    C = B /\ under.fn = Link /\ under.or = 0 /\ Breaks(W, C, under.cur, under2)
Step(W, B, under2, under, e, C) ==
    \/ e.fn = Link /\ StepLink(W, B, under, e, C)
    \/ e.fn = "started" /\ B = Pushed(C, "arbno") /\ under.fn # "started"
    \/ e.fn = "FNME" /\ C = Pushed(B, "name") /\ under.fn # "started"
    \/ e.fn \in {"DNME", "DNME1"} /\ B = Pushed(C, "name") /\ under.fn # "started"
    \/ e.fn = "SCFL" /\ C = Opened(B, Last(C).pat, Last(C).max) /\ under.fn # "started"
    \/ e.fn = "RTNUL3" /\ C = B /\ under.fn # "started"
    \/ e.fn = "SUCF" /\ StepSUCF(W, B, under, e, C)
    \/ e.fn = "BRKXF" /\ StepBRKXF(W, B, under2, under, C)

\* The history list h leads from levels G[n] at its n-th entry to those at its first one,
\* which is that of the statement.
Bot(F) == Len(F.hist) + 1
Under(F, h, k) == IF k > Bot(F) THEN h[k - 1] ELSE h[Bot(F)]
Bottom(W, F, h, G) ==
    /\ h[Bot(F)].fn = IF W.anchored THEN "SCFL" ELSE "SCON"
    /\ Len(G[Bot(F)]) = 1 /\ G[Bot(F)][1].open = <<>>
Steps(W, F, h, G) ==
    /\ Prefix(F.hist, h) /\ Len(h) >= Bot(F)
    /\ \A k \in Bot(F) .. Len(h) : h[k] \in EntrySet(W) /\ Sound(W, G[k])
    /\ Bottom(W, F, h, G)
    /\ \A k \in Bot(F) + 1 .. Len(h) :
         Step(W, G[k - 1], Under(F, h, k - 1), h[k - 1], h[k], G[k])
Leads(W, F, h, B) == \E G : Steps(W, F, h, G) /\ B = G[Len(h)]

\* The name list nm has a name for each entry that is to shorten it.
OwnWith(F, h, fns) == {k \in Bot(F) .. Len(h) : h[k].fn \in fns}
NamedBy(F, h, nm) ==
    Prefix(F.named, nm) /\ Len(nm) = Len(F.named) + Cardinality(OwnWith(F, h, {"DNME"}))
Held(W, F, h, nm, B) == Leads(W, F, h, B) /\ NamedBy(F, h, nm)

\* What STAR and DSAR have pushed: to go on behind *X on the level below.
Waits(W, F, L, M, cell) ==
    /\ cell.use = "kept" /\ cell.r \in Registers(W)
    /\ cell.r.PDLHED = Len(F.hist) /\ cell.r.NHEDCL = Len(F.named)
    /\ cell.r.PATBCL = L.pat /\ cell.r.MAXLEN = L.max
    /\ M.at = L.at + Len(L.open) + 1
    /\ \E o \in 1 .. Len(W.nodes[L.pat]) - 1 :
         LET n == W.nodes[L.pat][o + 1]
         IN  /\ cell.r.then = o /\ n.fn = "SCOK" /\ Role(W.nodes[L.pat], o) = "DSAR"
             /\ L.open = W.open[L.pat][o + 1]
             /\ W.nodes[L.pat][n.or + 1].arg = M.pat /\ ~ IsString(M.pat)
             /\ M.max = L.max - Needed(W, n)

\* The stack and the calls are those of levels C.
StartsOf(L, s) == \A i \in 1 .. Len(L.open) : s[L.at + i] \in [use : {L.open[i]}, n : Int]
Floor(W, F) == Len(F.stk) + IF W.anchored THEN 0 ELSE 1
Stands(W, F, C, s, cs) ==
    /\ Sound(W, C) /\ Prefix(F.stk, s) /\ Prefix(F.calls, cs)
    /\ C[1].at = Floor(W, F) /\ (W.anchored \/ s[Floor(W, F)].use = "head")
    /\ Len(s) = Height(C) /\ Len(cs) = Len(F.calls) + Len(C) - 1
    /\ \A j \in 1 .. Len(C) : StartsOf(C[j], s)
    /\ \A j \in 1 .. Len(C) - 1 :
         /\ Waits(W, F, C[j], C[j + 1], s[C[j + 1].at])
         /\ cs[Len(F.calls) + j] = [use |-> "SCIN", at |-> C[j + 1].at]

\* The entry that SCIN3 has made for the node n.
OwnEntry(e, n, cur, pat) ==
    e.fn = Link /\ e.or = n.or /\ e.then = n.then /\ e.cur = cur /\ e.res = n.res /\ e.owner = pat

\* The procedures of nodes that run on the levels that their entry leads to; and of those that
\* do not.
Own1 == (Simple \ {"SCOK", "SALF", "RTNUL3", "SUCF", "BRKX"})
          \cup {"NME", "ENME", "ENMI", "EARB", "STAR", "STARV"}
Own2 == {"ARBN", "ARBF", "ONAR", "ONRF", "DSAR"}
ProcOf(td) == IF td = "STARV" THEN "STAR" ELSE td

\* The registers are those of the node at PATICL.
At(W, regs, td, C) ==
    /\ regs.PATICL \in 0 .. Len(W.nodes[Last(C).pat]) - 1
    /\ NodeOf(W, C, regs.PATICL).fn = ProcOf(td)
    /\ regs.then = NodeOf(W, C, regs.PATICL).then
Entered(W, h, regs, C) ==
    /\ OwnEntry(Last(h), NodeOf(W, C, regs.PATICL), regs.TXSP, Last(C).pat)
    /\ regs.res = NodeOf(W, C, regs.PATICL).res /\ ~ Short(W, C, regs.PATICL, regs.TXSP)

\* Where a match is; td is the procedure that runs next.
Backing(W, F, h, nm, C) == Held(W, F, h, nm, C) /\ Last(h).fn # "started"
Shortened(W, F, h, nm, C) ==
    /\ AnySeq(h) /\ Len(h) > Bot(F) /\ Held(W, F, Front(h), nm, C) /\ Last(Front(h)).fn # "started"
    /\ Last(h) \in EntrySet(W)
    /\ \E p \in 0 .. Len(Pat(W, C)) - 1 :
         /\ NodeOf(W, C, p).fn = "ARBN" /\ Place(W, C, p)
         /\ OwnEntry(Last(h), NodeOf(W, C, p), Last(h).cur, Last(C).pat)
         /\ Short(W, C, p, Last(h).cur)
Going(W, F, h, nm, regs, C) ==
    \E B : Held(W, F, h, nm, B) /\ GoesOn(W, B, Last(h), regs.then, regs.TXSP, C)
Joining(W, F, h, nm, regs, C) ==
    \E B : Held(W, F, h, nm, B) /\ Joins(W, B, Last(h), regs.PATICL, regs.TXSP, C)
InNode1(W, F, h, nm, regs, td, C) ==
    /\ Len(h) > Bot(F) /\ Held(W, F, h, nm, C)
    /\ At(W, regs, td, C) /\ Place(W, C, regs.PATICL) /\ RoleOf(W, C, regs.PATICL) = "plain"
    /\ Entered(W, h, regs, C)
InNode2(W, F, h, nm, regs, td, C) ==
    /\ AnySeq(h) /\ Len(h) > Bot(F) /\ At(W, regs, td, C) /\ Entered(W, h, regs, C)
    /\ Last(h) \in EntrySet(W)
    /\ \E B : /\ Held(W, F, Front(h), nm, B)
              /\ Joins(W, B, Last(Front(h)), regs.PATICL, regs.TXSP, C)
InENMI2(W, F, h, nm, regs, C) ==
    /\ Len(h) > Bot(F) /\ Held(W, F, h, nm, Pushed(C, "name")) /\ Last(h).fn = Link
    /\ At(W, regs, "ENMI", C) /\ Place(W, Pushed(C, "name"), regs.PATICL)
    /\ W.quick => regs.TXSP <= Last(C).max
InBRKX(W, F, h, nm, regs, C) ==
    /\ Len(h) > Bot(F) /\ Held(W, F, h, nm, C) /\ Last(h).fn = Link
    /\ At(W, regs, "BRKX", C) /\ Place(W, C, regs.PATICL) /\ Last(h).then = regs.then
InSUCF(W, F, h, nm, regs, C) ==
    /\ Len(h) > Bot(F) /\ Held(W, F, h, nm, C) /\ Last(h).fn = Link
    /\ Follows(W, C, Last(h).then, regs.TXSP)
InBRKXF(W, F, h, nm, regs, C) ==
    /\ Len(h) > Bot(F) /\ Held(W, F, h, nm, C) /\ Last(h).fn = Link /\ Last(h).or = 0
    /\ Breaks(W, C, Last(h).cur, Under(F, h, Len(h)))
AtBottom(W, F, h, nm, C) ==
    /\ Prefix(F.hist, h) /\ Len(h) = Len(F.hist) /\ Prefix(F.named, nm) /\ Len(nm) = Len(F.named)
    /\ Len(C) = 1 /\ C[1].open = <<>>
InNME(W, F, h, nm, td, C) ==
    /\ Last(h).fn # "started"
    /\ \/ td = "FNME" /\ (\E B : Held(W, F, h, nm, B) /\ C = Pushed(B, "name"))
       \/ /\ td = "DNME" /\ nm # <<>> /\ Prefix(F.named, nm)
          /\ Held(W, F, h, Front(nm), Pushed(C, "name"))
       \/ td = "DNME1" /\ Held(W, F, h, nm, Pushed(C, "name"))
       \/ /\ td = "SCFL" /\ Len(C) > 1 /\ Held(W, F, h, nm, Front(C))
Phase(W, F, h, nm, regs, td, C) ==
    \/ td \in {"SALT", "SALF"} /\ Backing(W, F, h, nm, C)
    \/ td = "SALT" /\ Shortened(W, F, h, nm, C)
    \/ td = "SCOK" /\ Going(W, F, h, nm, regs, C)
    \/ td = "node" /\ Joining(W, F, h, nm, regs, C)
    \/ td \in Own1 /\ InNode1(W, F, h, nm, regs, td, C)
    \/ td \in Own2 /\ InNode2(W, F, h, nm, regs, td, C)
    \/ td = "ENMI2" /\ InENMI2(W, F, h, nm, regs, C)
    \/ td = "BRKX" /\ InBRKX(W, F, h, nm, regs, C)
    \/ td = "SUCF" /\ InSUCF(W, F, h, nm, regs, C)
    \/ td = "BRKXF" /\ InBRKXF(W, F, h, nm, regs, C)
    \/ td \in {"FNME", "DNME", "DNME1", "SCFL"} /\ InNME(W, F, h, nm, td, C)
    \/ td = "RTNUL3" /\ Prefix(F.hist, h) /\ Prefix(F.named, nm)
    \/ td = "SCFL" /\ AtBottom(W, F, h, nm, C)
    \/ td = "SCON" /\ ~ W.anchored /\ AtBottom(W, F, h, nm, C)

Of(F, regs) == regs.PDLHED = Len(F.hist) /\ regs.NHEDCL = Len(F.named)
Ours(W, F, regs) == regs \in Registers(W) /\ Of(F, regs)
MatchAt(W, F, h, s, cs, nm, regs, td, C) ==
    /\ Stands(W, F, C, s, cs) /\ Ours(W, F, regs)
    /\ regs.PATBCL = Last(C).pat /\ regs.MAXLEN = Last(C).max
    /\ Phase(W, F, h, nm, regs, td, C)
Live(W, F, h, s, cs, nm, regs, td) == \E C : MatchAt(W, F, h, s, cs, nm, regs, td, C)

-----------------------------------------------------------------------------
(* Levels.                                                                  *)

(* Numbers: what a level has on the stack is behind the place it is at.    *)
LEMMA Covers ==
  ASSUME NEW p \in Nat, NEW l \in Nat, NEW m \in Nat, p + l <= m \/ p + l < m
  PROVE  \A i \in 1 .. l : p + i \in 1 .. m
OBVIOUS

LEMMA CoversLess ==
  ASSUME NEW p \in Nat, NEW l \in Nat, NEW d \in Nat, NEW e \in Nat, NEW m, m = d + e + 1, p + l < m
  PROVE  \A i \in 1 .. l : p + i \in 1 .. m - 1
OBVIOUS

LEMMA NextPlace ==
  ASSUME NEW p \in Nat, NEW l \in Nat, NEW q \in Nat, NEW m \in Nat, q = p + l + 1, q <= m
  PROVE  q \in 1 .. m
OBVIOUS

LEMMA NextBelow ==
  ASSUME NEW p \in Nat, NEW l \in Nat, NEW q \in Nat, NEW k \in Nat, NEW m \in Nat,
         q = p + l + 1, q <= k, k <= m
  PROVE  q \in 1 .. m
OBVIOUS

LEMMA SoundIs ==
  ASSUME NEW W, NEW C, Sound(W, C)
  PROVE  /\ AnySeq(C) /\ Len(C) \in Nat \ {0} /\ Last(C) = C[Len(C)] /\ DOMAIN C = 1 .. Len(C)
         /\ \A j \in 1 .. Len(C) : C[j] \in Levels(W)
         /\ Last(C) \in Levels(W) /\ Height(C) \in Nat
<1>1. C \in Seq(Levels(W)) /\ C # <<>>
  BY DEF Sound
<1>2. AnySeq(C)
  BY <1>1, AnyElements
<1>3. Len(C) \in Nat \ {0} /\ Last(C) = C[Len(C)] /\ DOMAIN C = 1 .. Len(C)
  BY <1>1, <1>2, AnyFront, AnyRange
<1>4. \A j \in 1 .. Len(C) : C[j] \in Levels(W)
  BY <1>1
<1>5. Last(C) \in Levels(W)
  BY <1>3, <1>4
<1>6. Last(C).at \in Nat /\ Len(Last(C).open) \in Nat
  BY <1>5 DEF Levels
<1>7. Height(C) \in Nat
  BY <1>6 DEF Height
<1> QED BY <1>2, <1>3, <1>4, <1>5, <1>7

LEMMA LevelIs ==
  ASSUME NEW W, NEW L \in Levels(W)
  PROVE  /\ L.pat \in DOMAIN W.nodes /\ L.max \in Int /\ L.at \in Nat /\ L.open \in Seq(Tags)
         /\ AnySeq(L.open) /\ Len(L.open) \in Nat
         /\ L = [pat |-> L.pat, max |-> L.max, at |-> L.at, open |-> L.open]
<1>1. L.pat \in DOMAIN W.nodes /\ L.max \in Int /\ L.at \in Nat /\ L.open \in Seq(Tags)
  BY DEF Levels
<1>2. AnySeq(L.open) /\ Len(L.open) \in Nat
  BY <1>1, AnyElements, AnyRange
<1>3. L = [pat |-> L.pat, max |-> L.max, at |-> L.at, open |-> L.open]
  BY DEF Levels
<1> QED BY <1>1, <1>2, <1>3

(* The same level with other starts.                                       *)
Reopened(C, open) == [C EXCEPT ![Len(C)].open = open]

LEMMA ReopenedIs ==
  ASSUME NEW W, NEW C, Sound(W, C), NEW open \in Seq(Tags)
  PROVE  /\ Sound(W, Reopened(C, open)) /\ Len(Reopened(C, open)) = Len(C)
         /\ Last(Reopened(C, open)) = [Last(C) EXCEPT !.open = open]
         /\ Last(Reopened(C, open)).pat = Last(C).pat /\ Last(Reopened(C, open)).max = Last(C).max
         /\ Last(Reopened(C, open)).at = Last(C).at /\ Last(Reopened(C, open)).open = open
         /\ Height(Reopened(C, open)) = Last(C).at + Len(open)
         /\ \A j \in 1 .. Len(C) - 1 : Reopened(C, open)[j] = C[j]
<1> DEFINE D == Reopened(C, open)
           L == [Last(C) EXCEPT !.open = open]
<1>1. /\ Len(C) \in Nat \ {0} /\ Last(C) = C[Len(C)] /\ DOMAIN C = 1 .. Len(C)
      /\ Last(C) \in Levels(W) /\ \A j \in 1 .. Len(C) : C[j] \in Levels(W)
  BY SoundIs
<1>2. L \in Levels(W) /\ L.pat = Last(C).pat /\ L.max = Last(C).max /\ L.at = Last(C).at /\ L.open = open
  BY <1>1 DEF Levels
<1>3. D = [j \in 1 .. Len(C) |-> IF j = Len(C) THEN L ELSE C[j]]
  BY <1>1 DEF Reopened
<1> HIDE DEF L
<1> HIDE DEF D
<1>4. D \in Seq(Levels(W)) /\ Len(D) = Len(C)
  <2>1. \A j \in 1 .. Len(C) : (IF j = Len(C) THEN L ELSE C[j]) \in Levels(W)
    BY <1>1, <1>2, Zenon
  <2>2. D \in [1 .. Len(C) -> Levels(W)]
    BY <1>3, <2>1, Zenon
  <2> QED BY <1>1, <2>2
<1>5. D[Len(C)] = L /\ \A j \in 1 .. Len(C) - 1 : D[j] = C[j]
  <2>1. Len(C) \in Nat \ {0}
    BY <1>1
  <2>2. Len(C) \in 1 .. Len(C) /\ \A j \in 1 .. Len(C) - 1 : j \in 1 .. Len(C) /\ j # Len(C)
    BY ONLY <2>1
  <2> QED BY <1>3, <2>2, Zenon
<1>6. Last(D) = L
  BY <1>4, <1>5 DEF Last
<1>7. Height(D) = Last(C).at + Len(open)
  BY <1>2, <1>6 DEF Height
<1>8. ASSUME NEW j \in 1 .. Len(D), NEW k \in 1 .. Len(D), j < k PROVE D[j].at + Len(D[j].open) < D[k].at
  <2>1. j \in 1 .. Len(C) - 1 /\ D[j] = C[j] /\ D[k].at = C[k].at /\ j \in 1 .. Len(C) /\ k \in 1 .. Len(C)
    <3>1. j \in 1 .. Len(C) - 1 /\ j \in 1 .. Len(C) /\ k \in 1 .. Len(C) /\ (k \in 1 .. Len(C) - 1 \/ k = Len(C))
      <4>1. Len(C) \in Nat /\ j \in 1 .. Len(C) /\ k \in 1 .. Len(C)
        BY <1>1, <1>4
      <4> QED BY <1>8, <4>1, BeforeLast, UptoLast
    <3> QED BY <1>1, <1>2, <1>5, <3>1, Zenon
  <2>2. C[j].at + Len(C[j].open) < C[k].at
    BY <1>8, <2>1 DEF Sound
  <2> QED BY <2>1, <2>2
<1>9. D # <<>>
  BY <1>1, <1>4
<1>10. Sound(W, D)
  BY <1>4, <1>8, <1>9 DEF Sound
<1>11. Last(D) = L /\ Last(D).pat = Last(C).pat /\ Last(D).max = Last(C).max /\ Last(D).at = Last(C).at /\ Last(D).open = open
  BY <1>2, <1>6
<1>12. /\ Sound(W, D) /\ Len(D) = Len(C) /\ Height(D) = Last(C).at + Len(open)
       /\ \A j \in 1 .. Len(C) - 1 : D[j] = C[j]
  BY <1>4, <1>5, <1>7, <1>10
<1> QED BY <1>11, <1>12 DEF D, L

LEMMA PushedIs ==
  ASSUME NEW W, NEW C, Sound(W, C), NEW tag \in Tags
  PROVE  /\ Sound(W, Pushed(C, tag)) /\ Len(Pushed(C, tag)) = Len(C)
         /\ Last(Pushed(C, tag)).pat = Last(C).pat /\ Last(Pushed(C, tag)).max = Last(C).max
         /\ Last(Pushed(C, tag)).at = Last(C).at
         /\ Last(Pushed(C, tag)).open = Append(Last(C).open, tag)
         /\ Height(Pushed(C, tag)) = Height(C) + 1
         /\ \A j \in 1 .. Len(C) - 1 : Pushed(C, tag)[j] = C[j]
<1>1. Last(C) \in Levels(W) /\ Last(C) = C[Len(C)] /\ Len(C) \in Nat \ {0} /\ DOMAIN C = 1 .. Len(C)
  BY SoundIs
<1>2. Last(C).open \in Seq(Tags) /\ Last(C).at \in Nat /\ AnySeq(Last(C).open) /\ Len(Last(C).open) \in Nat
  BY <1>1, LevelIs
<1>3. Append(Last(C).open, tag) \in Seq(Tags) /\ Len(Append(Last(C).open, tag)) = Len(Last(C).open) + 1
  BY <1>2
<1> DEFINE o == Append(Last(C).open, tag)
           D == Pushed(C, tag)
<1>4. D = Reopened(C, o)
  BY <1>1 DEF Pushed, Reopened
<1>5. Last(C).at + Len(o) = Height(C) + 1
  BY <1>2, <1>3 DEF Height
<1>6. o \in Seq(Tags)
  BY <1>3
<1> HIDE DEF o, D
<1>7. /\ Sound(W, D) /\ Len(D) = Len(C) /\ Last(D).pat = Last(C).pat /\ Last(D).max = Last(C).max
      /\ Last(D).at = Last(C).at /\ Last(D).open = o /\ Height(D) = Last(C).at + Len(o)
      /\ \A j \in 1 .. Len(C) - 1 : D[j] = C[j]
  BY <1>4, <1>6, ReopenedIs
<1> QED BY <1>5, <1>7 DEF o, D

Popped(C) == [C EXCEPT ![Len(C)].open = Front(@)]

LEMMA PoppedIs ==
  ASSUME NEW W, NEW C, Sound(W, C), Last(C).open # <<>>
  PROVE  /\ Sound(W, Popped(C)) /\ Len(Popped(C)) = Len(C)
         /\ Last(Popped(C)).pat = Last(C).pat /\ Last(Popped(C)).max = Last(C).max
         /\ Last(Popped(C)).open = Front(Last(C).open)
         /\ Last(Last(C).open) \in Tags /\ Pushed(Popped(C), Last(Last(C).open)) = C
<1> DEFINE o == Last(C).open
           B == Popped(C)
           tag == Last(o)
<1>1. /\ Last(C) \in Levels(W) /\ Last(C) = C[Len(C)] /\ Len(C) \in Nat \ {0} /\ DOMAIN C = 1 .. Len(C)
      /\ AnySeq(C)
  BY SoundIs
<1>2. o \in Seq(Tags) /\ AnySeq(o)
  BY <1>1, LevelIs
<1>3. Front(o) \in Seq(Tags) /\ tag \in Tags
  BY <1>2, AnyFront DEF Front
<1>4. B = Reopened(C, Front(o))
  BY <1>1 DEF Popped, Reopened
<1>5. /\ Sound(W, B) /\ Len(B) = Len(C) /\ Last(B) = [Last(C) EXCEPT !.open = Front(o)] /\ Last(B).open = Front(o)
      /\ Last(B).pat = Last(C).pat /\ Last(B).max = Last(C).max /\ Last(B).at = Last(C).at
      /\ \A j \in 1 .. Len(C) - 1 : B[j] = C[j]
  <2> HIDE DEF o, B
  <2> QED BY <1>3, <1>4, ReopenedIs
<1>6. Append(Front(o), tag) = o
  BY <1>2, AnyRebuilt
<1>7. /\ Sound(W, Pushed(B, tag)) /\ Len(Pushed(B, tag)) = Len(C) /\ Last(Pushed(B, tag)).pat = Last(C).pat
      /\ Last(Pushed(B, tag)).max = Last(C).max /\ Last(Pushed(B, tag)).at = Last(C).at
      /\ Last(Pushed(B, tag)).open = o /\ \A j \in 1 .. Len(C) - 1 : Pushed(B, tag)[j] = C[j]
  <2> DEFINE D == Pushed(B, tag)
  <2> HIDE DEF o, B, tag
  <2>1. /\ Sound(W, D) /\ Len(D) = Len(B) /\ Last(D).pat = Last(B).pat /\ Last(D).max = Last(B).max
        /\ Last(D).at = Last(B).at /\ Last(D).open = Append(Last(B).open, tag)
        /\ \A j \in 1 .. Len(B) - 1 : D[j] = B[j]
    <3>1. Sound(W, B) /\ tag \in Tags
      BY <1>3, <1>5
    <3> QED BY ONLY <3>1, PushedIs DEF D
  <2>2. \A j \in 1 .. Len(C) - 1 : D[j] = B[j]
    BY <1>5, <2>1
  <2> HIDE DEF D
  <2>3. Last(D).open = o
    BY <1>5, <1>6, <2>1
  <2>4. \A j \in 1 .. Len(C) - 1 : D[j] = C[j]
    BY <1>5, <2>2
  <2>5. /\ Sound(W, D) /\ Len(D) = Len(C) /\ Last(D).pat = Last(C).pat
        /\ Last(D).max = Last(C).max /\ Last(D).at = Last(C).at
    BY <1>5, <2>1
  <2> QED BY <2>3, <2>4, <2>5 DEF D
<1> HIDE DEF B, tag
<1>8. /\ Last(Pushed(B, tag)) \in Levels(W) /\ AnySeq(Pushed(B, tag))
      /\ Last(Pushed(B, tag)) = Pushed(B, tag)[Len(Pushed(B, tag))]
  BY <1>7, SoundIs
<1>9. Last(Pushed(B, tag)) = Last(C)
  BY <1>1, <1>7, <1>8, LevelIs
<1>10. ASSUME NEW j \in 1 .. Len(C) PROVE Pushed(B, tag)[j] = C[j]
  <2>1. j \in 1 .. Len(C) - 1 \/ j = Len(C)
    <3>1. Len(C) \in Nat /\ j \in 1 .. Len(C)
      BY <1>1
    <3> HIDE DEF o
    <3> QED BY ONLY <3>1
  <2> QED BY <1>1, <1>7, <1>8, <1>9, <2>1, Zenon
<1>11. Pushed(B, tag) = C
  BY <1>1, <1>7, <1>8, <1>10, AnyEqual
<1> QED BY <1>3, <1>5, <1>11 DEF B, tag

LEMMA OpenedIs ==
  ASSUME NEW W, NEW C, Sound(W, C), NEW x \in DOMAIN W.nodes, NEW max \in Int
  PROVE  /\ Sound(W, Opened(C, x, max)) /\ Len(Opened(C, x, max)) = Len(C) + 1
         /\ Last(Opened(C, x, max)) = Level(x, max, Height(C) + 1)
         /\ Height(Opened(C, x, max)) = Height(C) + 1 /\ Front(Opened(C, x, max)) = C
         /\ Opened(C, x, max)[Len(C) + 1] = Level(x, max, Height(C) + 1)
         /\ \A j \in 1 .. Len(C) : Opened(C, x, max)[j] = C[j]
<1> DEFINE L == Level(x, max, Height(C) + 1)
           D == Opened(C, x, max)
<1>1. /\ AnySeq(C) /\ Len(C) \in Nat \ {0} /\ Height(C) \in Nat /\ C \in Seq(Levels(W)) /\ Last(C) = C[Len(C)]
      /\ \A j \in 1 .. Len(C) : C[j] \in Levels(W)
  BY SoundIs DEF Sound
<1>2. L \in Levels(W) /\ L.open = <<>> /\ L.at = Height(C) + 1
  BY <1>1 DEF Level, Levels
<1>3. D = Append(C, L)
  BY DEF Opened
<1> HIDE DEF L, D
<1>4. /\ AnySeq(D) /\ Len(D) = Len(C) + 1 /\ D # <<>> /\ D[Len(C) + 1] = L /\ Last(D) = L
      /\ Front(D) = C /\ \A j \in 1 .. Len(C) : D[j] = C[j]
  BY <1>1, <1>3, AnyAppend
<1>5. D \in Seq(Levels(W))
  BY <1>1, <1>2, <1>3
<1>6. Height(D) = Height(C) + 1
  BY <1>1, <1>2, <1>4 DEF Height
<1>7. ASSUME NEW j \in 1 .. Len(D), NEW k \in 1 .. Len(D), j < k PROVE D[j].at + Len(D[j].open) < D[k].at
  <2>1. j \in 1 .. Len(C) /\ D[j] = C[j] /\ (k \in 1 .. Len(C) \/ k = Len(C) + 1)
    BY <1>1, <1>4, <1>7
  <2>2. CASE k \in 1 .. Len(C)
    BY <1>4, <1>7, <2>1, <2>2 DEF Sound
  <2>3. CASE k = Len(C) + 1
    <3>1. j = Len(C) \/ j < Len(C)
      BY <1>1, <2>1
    <3>2. C[j].at \in Nat /\ Len(C[j].open) \in Nat /\ C[Len(C)].at \in Nat /\ Len(C[Len(C)].open) \in Nat
      <4>1. C[j] \in Levels(W) /\ C[Len(C)] \in Levels(W)
        BY <1>1, <2>1
      <4> QED BY ONLY <4>1, LevelIs
    <3>3. C[j].at + Len(C[j].open) <= C[Len(C)].at + Len(C[Len(C)].open)
      <4>1. CASE j = Len(C)
        BY <3>2, <4>1
      <4>2. CASE j < Len(C)
        <5> DEFINE a == C[j].at + Len(C[j].open)
                   b == C[Len(C)].at
                   d == Len(C[Len(C)].open)
        <5>1. a < b
          BY <1>1, <2>1, <4>2 DEF Sound
        <5>2. a \in Nat /\ b \in Nat /\ d \in Nat
          BY <3>2
        <5> HIDE DEF a, b, d
        <5>3. a <= b + d
          BY <5>1, <5>2
        <5> QED BY <5>3 DEF a, b, d
      <4> QED BY <3>1, <4>1, <4>2
    <3>4. Height(C) = C[Len(C)].at + Len(C[Len(C)].open)
      BY <1>1 DEF Height
    <3>5. D[k].at = Height(C) + 1
      BY <1>2, <1>4, <2>3
    <3> QED BY <1>1, <2>1, <3>2, <3>3, <3>4, <3>5
  <2> QED BY <2>1, <2>2, <2>3
<1>8. Sound(W, D)
  BY <1>4, <1>5, <1>7 DEF Sound
<1>9. /\ Sound(W, D) /\ Len(D) = Len(C) + 1 /\ Last(D) = L /\ Height(D) = Height(C) + 1 /\ Front(D) = C
      /\ D[Len(C) + 1] = L /\ \A j \in 1 .. Len(C) : D[j] = C[j]
  BY <1>4, <1>6, <1>8
<1> QED BY <1>9 DEF D, L

LEMMA ClosedIs ==
  ASSUME NEW W, NEW C, Sound(W, C), Len(C) > 1
  PROVE  /\ Sound(W, Front(C)) /\ Len(Front(C)) = Len(C) - 1 /\ Last(Front(C)) = C[Len(C) - 1]
         /\ \A j \in 1 .. Len(C) - 1 : Front(C)[j] = C[j]
<1>1. /\ AnySeq(C) /\ Len(C) \in Nat \ {0} /\ C \in Seq(Levels(W)) /\ C # <<>>
      /\ \A j \in 1 .. Len(C) : C[j] \in Levels(W)
  BY SoundIs DEF Sound
<1>2. /\ AnySeq(Front(C)) /\ Len(Front(C)) = Len(C) - 1 /\ \A j \in 1 .. Len(C) - 1 : Front(C)[j] = C[j]
  BY <1>1, AnyFront
<1>3. Front(C) \in Seq(Levels(W)) /\ Front(C) # <<>>
  <2>1. Front(C) \in Seq(Levels(W))
    BY <1>1, Len(C) - 1 \in Nat DEF Front
  <2>2. Len(Front(C)) # 0
    BY <1>1, <1>2
  <2>3. Len(<<>>) = 0
    OBVIOUS
  <2> QED BY <2>1, <2>2, <2>3, Zenon
<1>4. Last(Front(C)) = C[Len(C) - 1]
  <2>1. Last(Front(C)) = Front(C)[Len(C) - 1] /\ Len(C) - 1 \in 1 .. Len(C) - 1
    BY <1>1, <1>2, <1>3, AnyFront
  <2> QED BY <1>2, <2>1
<1>5. \A j, k \in 1 .. Len(Front(C)) : j < k => Front(C)[j].at + Len(Front(C)[j].open) < Front(C)[k].at
  <2>1. \A j \in 1 .. Len(Front(C)) : j \in 1 .. Len(C) /\ Front(C)[j] = C[j]
    BY <1>1, <1>2
  <2> QED BY <2>1 DEF Sound
<1> QED BY <1>2, <1>3, <1>4, <1>5 DEF Sound

-----------------------------------------------------------------------------
(* The stack of a match.                                                    *)

LEMMA Lower ==
  ASSUME NEW W, NEW C, Sound(W, C), NEW j \in 1 .. Len(C)
  PROVE  /\ C[j].at \in Nat /\ Len(C[j].open) \in Nat /\ Last(C).at \in Nat
         /\ C[j].at <= Last(C).at
         /\ j < Len(C) => C[j].at + Len(C[j].open) < Last(C).at
         /\ C[j].at + Len(C[j].open) <= Height(C)
<1>1. /\ Last(C) = C[Len(C)] /\ Len(C) \in Nat \ {0} /\ Last(C) \in Levels(W) /\ C[j] \in Levels(W)
  BY SoundIs
<1> DEFINE a == C[j].at
           l == Len(C[j].open)
           b == Last(C).at
           m == Len(Last(C).open)
<1>2. a \in Nat /\ l \in Nat /\ b \in Nat /\ m \in Nat
  BY <1>1, LevelIs
<1>3. j < Len(C) => a + l < b
  BY <1>1 DEF Sound
<1>4. Height(C) = b + m
  BY DEF Height
<1>5. j = Len(C) => a = b /\ l = m
  BY <1>1
<1>6. j = Len(C) \/ j < Len(C)
  BY <1>1
<1> HIDE DEF a, b, l, m
<1>7. a <= b /\ a + l <= b + m
  BY <1>2, <1>3, <1>5, <1>6
<1> QED BY <1>2, <1>3, <1>4, <1>7 DEF a, b, l, m

LEMMA StandsIs ==
  ASSUME NEW W, NEW F, NEW C, NEW s, NEW cs, Stands(W, F, C, s, cs)
  PROVE  /\ Sound(W, C) /\ AnySeq(s) /\ AnySeq(cs) /\ AnySeq(F.stk) /\ AnySeq(F.calls)
         /\ Len(s) \in Nat /\ Len(cs) \in Nat /\ Len(F.stk) \in Nat /\ Len(F.calls) \in Nat
         /\ Floor(W, F) \in Nat /\ (~ W.anchored => Floor(W, F) > 0)
         /\ Len(F.stk) <= Floor(W, F) /\ Floor(W, F) <= Last(C).at /\ Last(C).at <= Len(s)
         /\ Last(C).at + Len(Last(C).open) = Len(s)
<1>1. Sound(W, C) /\ Prefix(F.stk, s) /\ Prefix(F.calls, cs) /\ C[1].at = Floor(W, F) /\ Len(s) = Height(C)
  BY DEF Stands
<1>2. /\ AnySeq(s) /\ AnySeq(cs) /\ AnySeq(F.stk) /\ AnySeq(F.calls)
      /\ Len(s) \in Nat /\ Len(cs) \in Nat /\ Len(F.stk) \in Nat /\ Len(F.calls) \in Nat
  BY <1>1, AnyRange DEF Prefix
<1>3. Floor(W, F) \in Nat /\ (~ W.anchored => Floor(W, F) > 0) /\ Len(F.stk) <= Floor(W, F)
  <2>1. CASE W.anchored
    BY <1>2, <2>1 DEF Floor
  <2>2. CASE ~ W.anchored
    BY <1>2, <2>2 DEF Floor
  <2> QED BY <2>1, <2>2
<1>4. 1 \in 1 .. Len(C) /\ Last(C).at \in Nat /\ Len(Last(C).open) \in Nat
  <2>1. Len(C) \in Nat \ {0} /\ Last(C) \in Levels(W)
    BY <1>1, SoundIs
  <2> QED BY <2>1, LevelIs
<1>5. C[1].at <= Last(C).at
  BY <1>1, <1>4, Lower
<1>6. Last(C).at + Len(Last(C).open) = Len(s)
  BY <1>1 DEF Height
<1>7. Last(C).at <= Len(s)
  BY <1>4, <1>6
<1> QED BY <1>1, <1>2, <1>3, <1>5, <1>6, <1>7

LEMMA StandsReopened ==
  ASSUME NEW W, NEW F, NEW C, NEW s, NEW cs, Stands(W, F, C, s, cs),
         NEW open \in Seq(Tags), NEW s2, Prefix(F.stk, s2), Len(s2) = Last(C).at + Len(open),
         \A i \in 1 .. Last(C).at : s2[i] = s[i],
         StartsOf([Last(C) EXCEPT !.open = open], s2)
  PROVE  Stands(W, F, Reopened(C, open), s2, cs)
<1> DEFINE D == Reopened(C, open)
           a == Last(C).at
<1>1. Sound(W, C) /\ Floor(W, F) \in Nat /\ (~ W.anchored => Floor(W, F) > 0) /\ Floor(W, F) <= a
  BY StandsIs
<1>2. /\ Sound(W, D) /\ Len(D) = Len(C) /\ Last(D) = [Last(C) EXCEPT !.open = open]
      /\ Last(D).pat = Last(C).pat /\ Last(D).max = Last(C).max /\ Last(D).at = a
      /\ Height(D) = a + Len(open)
      /\ \A j \in 1 .. Len(C) - 1 : D[j] = C[j]
  BY <1>1, ReopenedIs
<1>3. /\ Len(C) \in Nat \ {0} /\ Last(C) = C[Len(C)] /\ a \in Nat
  <2>1. Len(C) \in Nat \ {0} /\ Last(C) = C[Len(C)] /\ Last(C) \in Levels(W)
    BY <1>1, SoundIs
  <2> QED BY <2>1, LevelIs
<1> HIDE DEF D
<1>4. Last(D) = D[Len(C)]
  BY <1>2, SoundIs
<1>5. ASSUME NEW j \in 1 .. Len(C)
      PROVE  D[j].at = C[j].at /\ D[j].pat = C[j].pat /\ D[j].max = C[j].max
  BY <1>2, <1>3, <1>4, UptoLast
<1>6. D[1].at = Floor(W, F)
  <2>1. 1 \in 1 .. Len(C)
    BY <1>3
  <2> QED BY <1>5, <2>1 DEF Stands
<1>7. W.anchored \/ s2[Floor(W, F)].use = "head"
  <2>1. ~ W.anchored => Floor(W, F) \in 1 .. a
    BY <1>1, <1>3
  <2> QED BY <2>1 DEF Stands
<1>8. ASSUME NEW j \in 1 .. Len(C) PROVE StartsOf(D[j], s2)
  <2>1. CASE j = Len(C)
    BY <1>2, <1>4, <2>1
  <2>2. CASE j \in 1 .. Len(C) - 1
    <3>1. StartsOf(C[j], s) /\ D[j] = C[j]
      BY <1>2, <2>2 DEF Stands
    <3>2. C[j].at \in Nat /\ Len(C[j].open) \in Nat /\ C[j].at + Len(C[j].open) < a
      <4>1. j < Len(C)
        BY <1>3, <2>2
      <4> QED BY <1>1, <4>1, Lower
    <3>3. \A i \in 1 .. Len(C[j].open) : C[j].at + i \in 1 .. a
      <4>1. C[j].at \in Nat /\ Len(C[j].open) \in Nat /\ a \in Nat
        BY <1>3, <3>2, Zenon
      <4>2. C[j].at + Len(C[j].open) < a
        BY <3>2, Zenon
      <4> HIDE DEF a
      <4> QED BY ONLY <4>1, <4>2, Covers
    <3> QED BY <3>1, <3>3 DEF StartsOf
  <2> QED BY <1>3, <2>1, <2>2, UptoLast
<1>9. ASSUME NEW j \in 1 .. Len(C) - 1
      PROVE  /\ Waits(W, F, D[j], D[j + 1], s2[D[j + 1].at])
             /\ cs[Len(F.calls) + j] = [use |-> "SCIN", at |-> D[j + 1].at]
  <2>1. j + 1 \in 1 .. Len(C) /\ D[j] = C[j] /\ Len(C[j].open) \in Nat /\ C[j].at \in Nat
    <3>1. j \in 1 .. Len(C) /\ j + 1 \in 1 .. Len(C)
      BY <1>3
    <3> QED BY <1>1, <1>2, <3>1, Lower
  <2>2. D[j + 1].at = C[j + 1].at /\ D[j + 1].pat = C[j + 1].pat /\ D[j + 1].max = C[j + 1].max
    BY <1>5, <2>1
  <2>3. Waits(W, F, C[j], C[j + 1], s[C[j + 1].at]) /\ cs[Len(F.calls) + j] = [use |-> "SCIN", at |-> C[j + 1].at]
    BY DEF Stands
  <2>4. C[j + 1].at \in 1 .. a
    <3>1. C[j + 1].at = C[j].at + Len(C[j].open) + 1 /\ C[j + 1].at <= a
      BY <1>1, <2>1, <2>3, Lower, Zenon DEF Waits
    <3>2. a \in Nat /\ C[j + 1].at \in Nat
      <4>1. j + 1 \in 1 .. Len(C)
        BY <2>1, Zenon
      <4> QED BY <1>1, <1>3, <4>1, Lower
    <3> HIDE DEF a
    <3> QED BY ONLY <2>1, <3>1, <3>2, NextPlace
  <2>5. s2[D[j + 1].at] = s[C[j + 1].at]
    BY <2>2, <2>4
  <2>6. Waits(W, F, D[j], D[j + 1], s2[D[j + 1].at])
    BY <2>1, <2>2, <2>3, <2>5, Zenon DEF Waits
  <2> QED BY <2>2, <2>3, <2>6
<1>10. Len(s2) = Height(D) /\ Len(cs) = Len(F.calls) + Len(D) - 1 /\ Prefix(F.calls, cs)
  BY <1>2 DEF Stands
<1>11. Stands(W, F, D, s2, cs)
  BY <1>2, <1>6, <1>7, <1>8, <1>9, <1>10 DEF Stands
<1> QED BY <1>11 DEF D

LEMMA StandsPushed ==
  ASSUME NEW W, NEW F, NEW C, NEW s, NEW cs, Stands(W, F, C, s, cs), NEW tag \in Tags, NEW n \in Int
  PROVE  Stands(W, F, Pushed(C, tag), Append(s, Cell(tag, n)), cs)
<1> DEFINE o == Last(C).open
           o2 == Append(o, tag)
           a == Last(C).at
           s2 == Append(s, Cell(tag, n))
           L == [Last(C) EXCEPT !.open = o2]
<1>1. Sound(W, C) /\ AnySeq(s) /\ Len(s) \in Nat /\ Floor(W, F) <= a /\ a <= Len(s) /\ a + Len(o) = Len(s)
  BY StandsIs
<1>2. Last(C) \in Levels(W) /\ DOMAIN C = 1 .. Len(C) /\ Len(C) \in Nat \ {0} /\ Last(C) = C[Len(C)]
  BY <1>1, SoundIs
<1>3. o \in Seq(Tags) /\ AnySeq(o) /\ a \in Nat /\ Len(o) \in Nat
  BY <1>2, LevelIs
<1>4. L.at = a /\ L.open = o2
  BY <1>2 DEF Levels
<1>5. Pushed(C, tag) = Reopened(C, o2)
  BY <1>2 DEF Pushed, Reopened
<1>6. o2 \in Seq(Tags) /\ Len(o2) = Len(o) + 1 /\ o2[Len(o) + 1] = tag /\ \A i \in 1 .. Len(o) : o2[i] = o[i]
  BY <1>3
<1>7. AnySeq(s2) /\ Len(s2) = Len(s) + 1 /\ s2[Len(s) + 1] = Cell(tag, n) /\ \A i \in 1 .. Len(s) : s2[i] = s[i]
  BY <1>1, AnyAppend
<1>8. Prefix(F.stk, s2)
  BY PrefixAppend DEF Stands
<1> HIDE DEF o, o2, a, s2, L
<1>9. ASSUME NEW i \in 1 .. Len(o2) PROVE s2[a + i] \in [use : {o2[i]}, n : Int]
  <2>1. CASE i \in 1 .. Len(o)
    <3>1. s[a + i] \in [use : {o[i]}, n : Int]
      <4>1. StartsOf(C[Len(C)], s)
        BY <1>2 DEF Stands
      <4> QED BY <1>2, <2>1, <4>1 DEF StartsOf, o, a
    <3>2. a + i \in 1 .. Len(s)
      BY <1>1, <1>3, <2>1
    <3> QED BY <1>6, <1>7, <2>1, <3>1, <3>2
  <2>2. CASE i = Len(o) + 1
    <3>1. a + i = Len(s) + 1
      BY <1>1, <1>3, <2>2
    <3>2. s2[a + i] = Cell(tag, n) /\ o2[i] = tag
      BY <1>6, <1>7, <2>2, <3>1
    <3> QED BY <3>2 DEF Cell
  <2> QED BY <1>3, <1>6, <2>1, <2>2
<1>10. StartsOf(L, s2)
  BY <1>4, <1>9 DEF StartsOf
<1>11. \A i \in 1 .. a : s2[i] = s[i]
  BY <1>1, <1>3, <1>7
<1>12. Len(s2) = a + Len(o2)
  BY <1>1, <1>3, <1>6, <1>7
<1>13. Stands(W, F, Reopened(C, o2), s2, cs)
  BY <1>6, <1>8, <1>10, <1>11, <1>12, StandsReopened DEF L, a
<1> QED BY <1>5, <1>13 DEF s2, o2, o

LEMMA StandsPopped ==
  ASSUME NEW W, NEW F, NEW C, NEW s, NEW cs, NEW tag \in Tags, Sound(W, C),
         Stands(W, F, Pushed(C, tag), s, cs)
  PROVE  /\ Stands(W, F, C, Front(s), cs) /\ s # <<>>
         /\ Last(s) \in [use : {tag}, n : Int]
<1> DEFINE D == Pushed(C, tag)
           o == Last(C).open
           a == Last(C).at
           s2 == Front(s)
<1>1. Last(C) \in Levels(W) /\ DOMAIN C = 1 .. Len(C) /\ Len(C) \in Nat \ {0} /\ Last(C) = C[Len(C)] /\ AnySeq(C)
  BY SoundIs
<1>2. o \in Seq(Tags) /\ AnySeq(o) /\ a \in Nat /\ Len(o) \in Nat
  BY <1>1, LevelIs
<1>3. /\ Sound(W, D) /\ Len(D) = Len(C) /\ Last(D).at = a /\ Last(D).open = Append(o, tag) /\ Last(D).pat = Last(C).pat
      /\ Last(D).max = Last(C).max /\ \A j \in 1 .. Len(C) - 1 : D[j] = C[j]
  BY PushedIs
<1>4. AnySeq(s) /\ Len(s) \in Nat /\ Floor(W, F) <= a /\ Len(F.stk) <= Floor(W, F) /\ Len(F.stk) \in Nat
      /\ Floor(W, F) \in Nat /\ a + Len(Append(o, tag)) = Len(s)
  <2> HIDE DEF D
  <2>1. Stands(W, F, D, s, cs)
    BY DEF D
  <2> QED BY <1>3, <2>1, StandsIs
<1>5. Len(Append(o, tag)) = Len(o) + 1 /\ Append(o, tag)[Len(o) + 1] = tag /\ \A i \in 1 .. Len(o) : Append(o, tag)[i] = o[i]
  BY <1>2
<1>6. Reopened(D, o) = C
  <2>1. Last(D) \in Levels(W) /\ Last(D) = D[Len(D)] /\ DOMAIN D = 1 .. Len(D)
    BY <1>3, SoundIs
  <2>2. /\ Sound(W, Reopened(D, o)) /\ Len(Reopened(D, o)) = Len(D) /\ Last(Reopened(D, o)).open = o
        /\ Last(Reopened(D, o)).pat = Last(D).pat /\ Last(Reopened(D, o)).max = Last(D).max
        /\ Last(Reopened(D, o)).at = Last(D).at
        /\ \A j \in 1 .. Len(D) - 1 : Reopened(D, o)[j] = D[j]
    BY <1>2, <1>3, ReopenedIs
  <2> DEFINE E == Reopened(D, o)
  <2> HIDE DEF E, D
  <2>3. Last(E) \in Levels(W) /\ Last(E) = E[Len(E)] /\ AnySeq(E) /\ Len(E) = Len(C)
    BY <1>3, <2>2, SoundIs DEF E
  <2>4. Last(E) = Last(C)
    BY <1>1, <1>3, <2>2, <2>3, LevelIs DEF E
  <2>5. ASSUME NEW j \in 1 .. Len(E) PROVE E[j] = C[j]
    <3>1. \A k \in 1 .. Len(C) - 1 : E[k] = C[k]
      BY <1>3, <2>2 DEF E
    <3> QED BY <1>1, <2>3, <2>4, <3>1, UptoLast
  <2> QED BY <1>1, <2>3, <2>5, AnyEqual DEF E
<1>7. Len(s) = a + Len(o) + 1 /\ s # <<>>
  BY <1>2, <1>4, <1>5
<1>8. AnySeq(s2) /\ Len(s2) = a + Len(o) /\ Last(s) = s[Len(s)] /\ \A i \in 1 .. a + Len(o) : s2[i] = s[i]
  <2>1. AnySeq(s2) /\ Len(s2) = Len(s) - 1 /\ Last(s) = s[Len(s)] /\ \A i \in 1 .. Len(s) - 1 : s2[i] = s[i]
    BY <1>4, <1>7, AnyFront
  <2>2. Len(s) - 1 = a + Len(o)
    BY <1>2, <1>7
  <2> QED BY <2>1, <2>2
<1>9. \A i \in 1 .. Len(o) + 1 : s[a + i] \in [use : {Append(o, tag)[i]}, n : Int]
  <2>1. StartsOf(D[Len(D)], s)
    BY <1>1, <1>3 DEF Stands
  <2>2. Last(D) = D[Len(D)]
    BY <1>3, SoundIs
  <2> HIDE DEF D
  <2>3. StartsOf(Last(D), s)
    BY <2>1, <2>2, Zenon
  <2>4. Last(D).at = a /\ Last(D).open = Append(o, tag) /\ Len(Append(o, tag)) = Len(o) + 1
    BY <1>3, <1>5, Zenon
  <2> QED BY <2>3, <2>4, Zenon DEF StartsOf
<1>10. Last(s) \in [use : {tag}, n : Int]
  <2>1. Len(o) + 1 \in 1 .. Len(o) + 1 /\ a + (Len(o) + 1) = Len(s)
    BY <1>2, <1>7
  <2>2. s[a + (Len(o) + 1)] \in [use : {tag}, n : Int]
    BY <1>5, <1>9, <2>1
  <2> QED BY <1>8, <2>1, <2>2
<1>11. Prefix(F.stk, s2)
  <2>1. Prefix(F.stk, s) /\ Len(s) > Len(F.stk)
    BY <1>2, <1>4, <1>7 DEF Stands
  <2> QED BY <2>1, PrefixFront
<1> HIDE DEF D, o, a, s2
<1>12. StartsOf([Last(D) EXCEPT !.open = o], s2)
  <2>1. Last(D) \in Levels(W)
    BY <1>3, SoundIs
  <2>2. [Last(D) EXCEPT !.open = o].at = a /\ [Last(D) EXCEPT !.open = o].open = o
    BY <1>3, <2>1 DEF Levels
  <2>3. ASSUME NEW i \in 1 .. Len(o) PROVE s2[a + i] \in [use : {o[i]}, n : Int]
    <3>1. a + i \in 1 .. a + Len(o) /\ i \in 1 .. Len(o) + 1
      BY <1>2
    <3> QED BY <1>5, <1>8, <1>9, <3>1
  <2> QED BY <2>2, <2>3 DEF StartsOf
<1>13. \A i \in 1 .. a : s2[i] = s[i]
  BY <1>2, <1>8
<1>14. Stands(W, F, Reopened(D, o), s2, cs)
  <2>1. Stands(W, F, D, s, cs)
    BY DEF D
  <2> QED BY <1>2, <1>3, <1>8, <1>11, <1>12, <1>13, <2>1, StandsReopened
<1> QED BY <1>6, <1>7, <1>10, <1>14 DEF s2

LEMMA StandsOpened ==
  ASSUME NEW W, NEW F, NEW C, NEW s, NEW cs, Stands(W, F, C, s, cs), NEW x \in DOMAIN W.nodes,
         NEW max \in Int, NEW cell, Waits(W, F, Last(C), Level(x, max, Height(C) + 1), cell)
  PROVE  Stands(W, F, Opened(C, x, max), Append(s, cell),
                Append(cs, [use |-> "SCIN", at |-> Len(s) + 1]))
<1> DEFINE D == Opened(C, x, max)
           L == Level(x, max, Height(C) + 1)
           s2 == Append(s, cell)
           call == [use |-> "SCIN", at |-> Len(s) + 1]
           cs2 == Append(cs, call)
<1>1. /\ Sound(W, C) /\ AnySeq(s) /\ AnySeq(cs) /\ Len(s) \in Nat /\ Len(cs) \in Nat /\ Len(F.calls) \in Nat
      /\ Floor(W, F) \in Nat /\ (~ W.anchored => Floor(W, F) > 0)
      /\ Floor(W, F) <= Last(C).at /\ Last(C).at <= Len(s)
  BY StandsIs
<1>2. /\ Len(s) = Height(C) /\ Len(cs) = Len(F.calls) + Len(C) - 1 /\ C[1].at = Floor(W, F)
      /\ Prefix(F.stk, s) /\ Prefix(F.calls, cs)
  BY DEF Stands
<1>3. Len(C) \in Nat \ {0} /\ Last(C) = C[Len(C)] /\ Height(C) \in Nat
  BY <1>1, SoundIs
<1>4. /\ Sound(W, D) /\ Len(D) = Len(C) + 1 /\ Height(D) = Height(C) + 1 /\ D[Len(C) + 1] = L
      /\ \A j \in 1 .. Len(C) : D[j] = C[j]
  <2>1. /\ Sound(W, Opened(C, x, max)) /\ Len(Opened(C, x, max)) = Len(C) + 1
        /\ Height(Opened(C, x, max)) = Height(C) + 1
        /\ Opened(C, x, max)[Len(C) + 1] = Level(x, max, Height(C) + 1)
        /\ \A j \in 1 .. Len(C) : Opened(C, x, max)[j] = C[j]
    <3>1. Sound(W, C) /\ x \in DOMAIN W.nodes /\ max \in Int
      BY <1>1
    <3> QED BY ONLY <3>1, OpenedIs
  <2> QED BY <2>1, Zenon
<1>5. L.open = <<>> /\ L.at = Height(C) + 1
  BY DEF Level
<1>6. AnySeq(s2) /\ Len(s2) = Len(s) + 1 /\ s2[Len(s) + 1] = cell /\ \A i \in 1 .. Len(s) : s2[i] = s[i]
  BY <1>1, AnyAppend
<1>7. /\ AnySeq(cs2) /\ Len(cs2) = Len(cs) + 1 /\ cs2[Len(cs) + 1] = call
      /\ \A i \in 1 .. Len(cs) : cs2[i] = cs[i]
  BY <1>1, AnyAppend
<1>8. Prefix(F.stk, s2) /\ Prefix(F.calls, cs2)
  BY <1>2, PrefixAppend
<1> HIDE DEF D, L, s2, call, cs2
<1>9. D[1].at = Floor(W, F) /\ (W.anchored \/ s2[Floor(W, F)].use = "head")
  <2>1. 1 \in 1 .. Len(C)
    BY <1>3
  <2>2. ~ W.anchored => s2[Floor(W, F)] = s[Floor(W, F)]
    <3>1. ~ W.anchored => Floor(W, F) \in 1 .. Len(s)
      <4>1. Last(C).at \in Nat
        BY <1>1, <2>1, Lower
      <4> QED BY <1>1, <4>1
    <3> QED BY <1>6, <3>1
  <2>3. W.anchored \/ s[Floor(W, F)].use = "head"
    BY DEF Stands
  <2> QED BY <1>2, <1>4, <2>1, <2>2, <2>3
<1>10. Len(s2) = Height(D) /\ Len(cs2) = Len(F.calls) + Len(D) - 1
  BY <1>1, <1>2, <1>3, <1>4, <1>6, <1>7
<1>11. ASSUME NEW j \in 1 .. Len(D) PROVE StartsOf(D[j], s2)
  <2>1. CASE j = Len(C) + 1
    <3>1. D[j].open = <<>>
      BY <1>4, <1>5, <2>1
    <3> QED BY <3>1 DEF StartsOf
  <2>2. CASE j \in 1 .. Len(C)
    <3>1. StartsOf(C[j], s) /\ D[j] = C[j]
      BY <1>4, <2>2 DEF Stands
    <3>2. C[j].at \in Nat /\ Len(C[j].open) \in Nat /\ C[j].at + Len(C[j].open) <= Len(s)
      BY <1>1, <1>2, <2>2, Lower
    <3>3. \A i \in 1 .. Len(C[j].open) : C[j].at + i \in 1 .. Len(s)
      <4>1. Len(s) \in Nat
        BY <1>1
      <4> QED BY ONLY <3>2, <4>1, Covers
    <3> QED BY <1>6, <3>1, <3>3 DEF StartsOf
  <2>3. j \in 1 .. Len(C) \/ j = Len(C) + 1
    BY <1>3, <1>4
  <2> QED BY <2>1, <2>2, <2>3
<1>12. ASSUME NEW j \in 1 .. Len(D) - 1
       PROVE  /\ Waits(W, F, D[j], D[j + 1], s2[D[j + 1].at])
              /\ cs2[Len(F.calls) + j] = [use |-> "SCIN", at |-> D[j + 1].at]
  <2>1. j \in 1 .. Len(C) /\ D[j] = C[j]
    BY <1>3, <1>4
  <2>2. CASE j = Len(C)
    <3>1. D[j + 1] = L /\ D[j] = Last(C)
      BY <1>3, <1>4, <2>1, <2>2
    <3>2. s2[D[j + 1].at] = cell
      BY <1>2, <1>5, <1>6, <3>1
    <3>3. Len(F.calls) + j = Len(cs) + 1
      BY <1>1, <1>2, <1>3, <2>2
    <3>4. cs2[Len(F.calls) + j] = call /\ call = [use |-> "SCIN", at |-> D[j + 1].at]
      BY <1>2, <1>5, <1>7, <3>1, <3>3 DEF call
    <3> QED BY <3>1, <3>2, <3>4 DEF L
  <2>3. CASE j \in 1 .. Len(C) - 1
    <3>1. j + 1 \in 1 .. Len(C)
      BY <1>3, <2>3
    <3>2. D[j + 1] = C[j + 1] /\ C[j + 1].at \in Nat /\ C[j].at \in Nat /\ Len(C[j].open) \in Nat
      BY <1>1, <1>4, <2>1, <3>1, Lower
    <3>3. /\ Waits(W, F, C[j], C[j + 1], s[C[j + 1].at])
          /\ cs[Len(F.calls) + j] = [use |-> "SCIN", at |-> C[j + 1].at]
      BY <2>3 DEF Stands
    <3>4. C[j + 1].at \in 1 .. Len(s)
      <4>1. C[j + 1].at = C[j].at + Len(C[j].open) + 1 /\ C[j + 1].at <= Last(C).at
        BY <1>1, <3>1, <3>3, Lower, Zenon DEF Waits
      <4>2. Last(C).at \in Nat
        BY <1>1, <2>1, Lower
      <4>3. Last(C).at <= Len(s) /\ Len(s) \in Nat
        BY <1>1
      <4> QED BY ONLY <3>2, <4>1, <4>2, <4>3, NextBelow
    <3>5. Len(F.calls) + j \in 1 .. Len(cs)
      BY <1>1, <1>2, <1>3, <2>3
    <3> QED BY <1>6, <1>7, <2>1, <3>2, <3>3, <3>4, <3>5
  <2> QED BY <1>3, <2>1, <2>2, <2>3, UptoLast
<1>13. Stands(W, F, D, s2, cs2)
  BY <1>4, <1>8, <1>9, <1>10, <1>11, <1>12 DEF Stands
<1> QED BY <1>13 DEF D, s2, cs2, call

LEMMA StandsClosed ==
  ASSUME NEW W, NEW F, NEW C, NEW s, NEW cs, Stands(W, F, C, s, cs), Len(C) > 1
  PROVE  /\ cs # <<>> /\ Len(cs) > Len(F.calls) /\ Last(cs) = [use |-> "SCIN", at |-> Last(C).at]
         /\ Waits(W, F, Last(Front(C)), Last(C), s[Last(C).at])
         /\ Stands(W, F, Front(C), SubSeq(s, 1, Last(C).at - 1), Front(cs))
<1> DEFINE D == Front(C)
           a == Last(C).at
           s2 == SubSeq(s, 1, a - 1)
           cs2 == Front(cs)
<1>1. /\ Sound(W, C) /\ AnySeq(s) /\ AnySeq(cs) /\ Len(s) \in Nat /\ Len(cs) \in Nat /\ Len(F.calls) \in Nat
      /\ Floor(W, F) \in Nat /\ (~ W.anchored => Floor(W, F) > 0) /\ Len(F.stk) <= Floor(W, F)
      /\ Floor(W, F) <= a /\ a <= Len(s) /\ Len(F.stk) \in Nat
  BY StandsIs
<1>2. /\ Len(s) = Height(C) /\ Len(cs) = Len(F.calls) + Len(C) - 1 /\ C[1].at = Floor(W, F)
      /\ Prefix(F.stk, s) /\ Prefix(F.calls, cs)
  BY DEF Stands
<1>3. Len(C) \in Nat \ {0} /\ Last(C) = C[Len(C)]
  BY <1>1, SoundIs
<1>4. /\ Sound(W, D) /\ Len(D) = Len(C) - 1 /\ Last(D) = C[Len(C) - 1]
      /\ \A j \in 1 .. Len(C) - 1 : D[j] = C[j]
  BY <1>1, ClosedIs
<1>5. Len(cs) > Len(F.calls) /\ cs # <<>> /\ Len(cs) = Len(F.calls) + (Len(C) - 1)
  <2>1. Len(cs) > Len(F.calls) /\ Len(cs) # 0 /\ Len(cs) = Len(F.calls) + (Len(C) - 1)
    BY <1>1, <1>2, <1>3
  <2> QED BY <2>1
<1> HIDE DEF D, a, s2, cs2
<1>6. Len(C) - 1 \in 1 .. Len(C) - 1 /\ (Len(C) - 1) + 1 = Len(C) /\ Len(C) - 1 \in 1 .. Len(C) /\ Len(C) - 1 < Len(C)
  BY <1>3
<1>7. Waits(W, F, Last(D), Last(C), s[a])
  <2>1. Waits(W, F, C[Len(C) - 1], C[(Len(C) - 1) + 1], s[C[(Len(C) - 1) + 1].at])
    BY <1>6 DEF Stands
  <2> QED BY <1>3, <1>4, <1>6, <2>1 DEF a
<1>8. Last(cs) = [use |-> "SCIN", at |-> a]
  <2>1. cs[Len(F.calls) + (Len(C) - 1)] = [use |-> "SCIN", at |-> C[(Len(C) - 1) + 1].at]
    BY <1>6 DEF Stands
  <2>2. Last(cs) = cs[Len(cs)]
    BY DEF Last
  <2> QED BY <1>3, <1>5, <1>6, <2>1, <2>2 DEF a
<1>9. a = Last(D).at + Len(Last(D).open) + 1
  BY <1>7 DEF Waits, a
<1>10. Last(D).at \in Nat /\ Len(Last(D).open) \in Nat
  BY <1>1, <1>4, <1>6, Lower
<1>11. AnySeq(s2) /\ Len(s2) = a - 1 /\ \A i \in 1 .. a - 1 : s2[i] = s[i]
  <2>1. a - 1 \in 0 .. Len(s)
    <3>1. a <= Len(s) /\ Len(s) \in Nat
      BY <1>1, Zenon
    <3> QED BY ONLY <1>9, <1>10, <3>1
  <2> QED BY <1>1, <2>1, AnySub DEF s2
<1>12. AnySeq(cs2) /\ Len(cs2) = Len(cs) - 1 /\ \A i \in 1 .. Len(cs) - 1 : cs2[i] = cs[i]
  BY <1>1, <1>5, AnyFront DEF cs2
<1>13. C[1].at <= Last(D).at
  <2>1. 1 \in 1 .. Len(D) /\ 1 \in 1 .. Len(C) - 1
    BY <1>3, <1>4, <1>6
  <2>2. D[1].at <= Last(D).at
    BY <1>4, <2>1, Lower
  <2> QED BY <1>4, <2>1, <2>2
<1>14. Prefix(F.stk, s2) /\ Prefix(F.calls, cs2)
  <2>1. a - 1 \in Len(F.stk) .. Len(s)
    <3> DEFINE d == Last(D).at
               l == Len(Last(D).open)
               f == Floor(W, F)
               n == Len(F.stk)
               m == Len(s)
    <3>1. a = d + l + 1 /\ d \in Nat /\ l \in Nat /\ f \in Nat /\ f <= d
      BY <1>1, <1>2, <1>9, <1>10, <1>13
    <3>2. n <= f /\ n \in Nat /\ m \in Nat /\ a <= m
      BY <1>1
    <3> HIDE DEF d, l, f, n, m
    <3>3. a - 1 \in n .. m
      BY <3>1, <3>2
    <3> QED BY <3>3 DEF n, m
  <2>2. Prefix(F.stk, s2)
    BY <1>2, <2>1, PrefixSub DEF s2
  <2>3. Prefix(F.calls, cs2)
    BY <1>2, <1>5, PrefixFront DEF cs2
  <2> QED BY <2>2, <2>3
<1>15. D[1].at = Floor(W, F) /\ (W.anchored \/ s2[Floor(W, F)].use = "head")
  <2>1. 1 \in 1 .. Len(C) - 1
    BY <1>3, <1>6
  <2>2. ~ W.anchored => Floor(W, F) \in 1 .. a - 1
    <3> DEFINE d == Last(D).at
               l == Len(Last(D).open)
               f == Floor(W, F)
    <3>1. a = d + l + 1 /\ d \in Nat /\ l \in Nat /\ f \in Nat /\ f <= d
      BY <1>1, <1>2, <1>9, <1>10, <1>13
    <3>2. ~ W.anchored => f > 0
      BY <1>1
    <3> HIDE DEF d, l, f
    <3> QED BY <3>1, <3>2 DEF f
  <2>3. W.anchored \/ s[Floor(W, F)].use = "head"
    BY DEF Stands
  <2> QED BY <1>2, <1>4, <1>11, <2>1, <2>2, <2>3
<1>16. Len(s2) = Height(D) /\ Len(cs2) = Len(F.calls) + Len(D) - 1
  <2>1. Height(D) = Last(D).at + Len(Last(D).open)
    BY DEF Height
  <2>2. Len(s2) = Height(D)
    BY ONLY <1>9, <1>10, <1>11, <2>1
  <2>3. Len(F.calls) \in Nat /\ Len(C) \in Nat /\ Len(D) = Len(C) - 1
    BY <1>1, <1>3, <1>4
  <2>4. Len(cs) = Len(F.calls) + (Len(C) - 1) /\ Len(cs2) = Len(cs) - 1
    BY <1>5, <1>12, Zenon
  <2> QED BY ONLY <2>2, <2>3, <2>4
<1>17. ASSUME NEW j \in 1 .. Len(D) PROVE StartsOf(D[j], s2)
  <2>1. j \in 1 .. Len(C) - 1 /\ j \in 1 .. Len(C) /\ j < Len(C)
    BY <1>3, <1>4
  <2>2. StartsOf(C[j], s) /\ D[j] = C[j]
    BY <1>4, <2>1 DEF Stands
  <2>3. C[j].at \in Nat /\ Len(C[j].open) \in Nat /\ C[j].at + Len(C[j].open) < a
    BY <1>1, <2>1, Lower DEF a
  <2>4. \A i \in 1 .. Len(C[j].open) : C[j].at + i \in 1 .. a - 1
    BY ONLY <1>9, <1>10, <2>3, CoversLess
  <2> QED BY <1>11, <2>2, <2>4 DEF StartsOf
<1>18. ASSUME NEW j \in 1 .. Len(D) - 1
       PROVE  /\ Waits(W, F, D[j], D[j + 1], s2[D[j + 1].at])
              /\ cs2[Len(F.calls) + j] = [use |-> "SCIN", at |-> D[j + 1].at]
  <2>1. j \in 1 .. Len(C) - 1 /\ j + 1 \in 1 .. Len(C) - 1 /\ j \in 1 .. Len(C) /\ j + 1 \in 1 .. Len(C) /\ j + 1 < Len(C)
    BY <1>3, <1>4
  <2>2. D[j] = C[j] /\ D[j + 1] = C[j + 1]
    BY <1>4, <2>1
  <2>3. /\ Waits(W, F, C[j], C[j + 1], s[C[j + 1].at])
        /\ cs[Len(F.calls) + j] = [use |-> "SCIN", at |-> C[j + 1].at]
    BY <2>1 DEF Stands
  <2>4. C[j + 1].at \in 1 .. a - 1
    <3>1. C[j].at \in Nat /\ Len(C[j].open) \in Nat
      BY <1>1, <2>1, Lower
    <3>2. C[j + 1].at \in Nat /\ Len(C[j + 1].open) \in Nat /\ C[j + 1].at + Len(C[j + 1].open) < a
      BY <1>1, <2>1, Lower DEF a
    <3>3. C[j + 1].at = C[j].at + Len(C[j].open) + 1
      BY <2>3, Zenon DEF Waits
    <3> DEFINE p == C[j].at
               l == Len(C[j].open)
               q == C[j + 1].at
               m == Len(C[j + 1].open)
    <3>4. p \in Nat /\ l \in Nat /\ q \in Nat /\ m \in Nat /\ q + m < a /\ q = p + l + 1
      BY <3>1, <3>2, <3>3
    <3>5. a \in Nat
      BY <1>9, <1>10
    <3> HIDE DEF p, l, q, m
    <3>6. q \in 1 .. a - 1
      BY <3>4, <3>5
    <3> QED BY <3>6 DEF q
  <2>5. Len(F.calls) + j \in 1 .. Len(cs) - 1
    BY <1>1, <1>3, <1>4, <1>5
  <2> QED BY <1>11, <1>12, <2>2, <2>3, <2>4, <2>5
<1>19. Stands(W, F, D, s2, cs2)
  BY <1>4, <1>14, <1>15, <1>16, <1>17, <1>18 DEF Stands
<1> QED BY <1>5, <1>7, <1>8, <1>19 DEF D, s2, cs2, a

-----------------------------------------------------------------------------
(* The history list.                                                        *)

LEMMA OwnAppended ==
  ASSUME NEW F, NEW h, Prefix(F.hist, h), NEW e, NEW fns
  PROVE  /\ IsFiniteSet(OwnWith(F, h, fns)) /\ Cardinality(OwnWith(F, h, fns)) \in Nat
         /\ Cardinality(OwnWith(F, Append(h, e), fns))
              = Cardinality(OwnWith(F, h, fns)) + (IF e.fn \in fns THEN 1 ELSE 0)
<1> DEFINE X == OwnWith(F, h, fns)
           Y == OwnWith(F, Append(h, e), fns)
<1>1. AnySeq(h) /\ Len(h) \in Nat /\ Len(F.hist) \in Nat /\ Len(F.hist) <= Len(h)
  BY AnyRange DEF Prefix
<1>2. Bot(F) \in Nat /\ Bot(F) <= Len(h) + 1
  BY <1>1 DEF Bot
<1>3. /\ Len(Append(h, e)) = Len(h) + 1 /\ Append(h, e)[Len(h) + 1] = e
      /\ \A i \in 1 .. Len(h) : Append(h, e)[i] = h[i]
  BY <1>1, AnyAppend
<1>4. IsFiniteSet(Bot(F) .. Len(h))
  BY <1>1, <1>2, FS_Interval
<1>5. IsFiniteSet(X)
  <2>1. X \subseteq Bot(F) .. Len(h)
    BY DEF OwnWith
  <2> QED BY <1>4, <2>1, FS_Subset
<1>6. Cardinality(X) \in Nat
  BY <1>5, FS_CardinalityType
<1>7. Len(h) + 1 \notin X
  BY <1>1 DEF OwnWith
<1>8. Y = IF e.fn \in fns THEN X \cup {Len(h) + 1} ELSE X
  <2>1. Bot(F) .. Len(h) + 1 = (Bot(F) .. Len(h)) \cup {Len(h) + 1}
    BY <1>1, <1>2
  <2>2. \A k \in Bot(F) .. Len(h) : k \in 1 .. Len(h)
    BY <1>1 DEF Bot
  <2>3. Y = {k \in (Bot(F) .. Len(h)) \cup {Len(h) + 1} : Append(h, e)[k].fn \in fns}
    BY <1>3, <2>1 DEF OwnWith
  <2>4. X = {k \in Bot(F) .. Len(h) : h[k].fn \in fns}
    BY DEF OwnWith
  <2> HIDE DEF X, Y
  <2>5. \A k \in Bot(F) .. Len(h) : Append(h, e)[k].fn = h[k].fn
    BY <1>3, <2>2
  <2> QED BY <1>3, <2>3, <2>4, <2>5
<1> HIDE DEF X, Y
<1>9. CASE e.fn \in fns
  <2>1. Cardinality(X \cup {Len(h) + 1}) = Cardinality(X) + 1
    BY <1>5, <1>7, FS_AddElement
  <2> QED BY <1>5, <1>6, <1>8, <1>9, <2>1 DEF X, Y
<1>10. CASE e.fn \notin fns
  BY <1>5, <1>6, <1>8, <1>10 DEF X, Y
<1> QED BY <1>9, <1>10

LEMMA LeadsIs ==
  ASSUME NEW W, NEW F, NEW h, NEW B, Leads(W, F, h, B)
  PROVE  /\ Prefix(F.hist, h) /\ AnySeq(h) /\ Len(h) \in Nat /\ Bot(F) \in Nat \ {0} /\ Len(h) >= Bot(F)
         /\ Len(F.hist) \in Nat /\ h # <<>> /\ Last(h) = h[Len(h)] /\ Last(h) \in EntrySet(W)
         /\ Sound(W, B)
         /\ h[Bot(F)].fn = IF W.anchored THEN "SCFL" ELSE "SCON"
         /\ Len(h) = Bot(F) => Len(B) = 1 /\ B[1].open = <<>>
<1>1. PICK G : Steps(W, F, h, G) /\ B = G[Len(h)]
  BY DEF Leads
<1>2. Prefix(F.hist, h) /\ Len(h) >= Bot(F) /\ Bottom(W, F, h, G)
  BY <1>1 DEF Steps
<1>3. AnySeq(h) /\ Len(h) \in Nat /\ Len(F.hist) \in Nat
  BY <1>2, AnyRange DEF Prefix
<1>4. Bot(F) \in Nat \ {0}
  BY <1>3 DEF Bot
<1>5. Len(h) \in Bot(F) .. Len(h) /\ Len(h) # 0
  BY <1>2, <1>3, <1>4
<1>6. h # <<>>
  BY <1>5
<1>7. h[Len(h)] \in EntrySet(W) /\ Sound(W, B)
  BY <1>1, <1>5 DEF Steps
<1>8. h[Bot(F)].fn = IF W.anchored THEN "SCFL" ELSE "SCON"
  BY <1>2 DEF Bottom
<1>9. Len(h) = Bot(F) => Len(B) = 1 /\ B[1].open = <<>>
  BY <1>1, <1>2 DEF Bottom
<1> QED BY <1>2, <1>3, <1>4, <1>6, <1>7, <1>8, <1>9 DEF Last

LEMMA LeadsPushed ==
  ASSUME NEW W, NEW F, NEW h, NEW B, Leads(W, F, h, B), NEW e \in EntrySet(W), NEW C, Sound(W, C),
         Step(W, B, Under(F, h, Len(h)), Last(h), e, C)
  PROVE  Leads(W, F, Append(h, e), C)
<1>1. PICK G : Steps(W, F, h, G) /\ B = G[Len(h)]
  BY DEF Leads
<1>2. /\ Prefix(F.hist, h) /\ AnySeq(h) /\ Len(h) \in Nat /\ Bot(F) \in Nat \ {0} /\ Len(h) >= Bot(F)
      /\ Last(h) = h[Len(h)]
  BY LeadsIs
<1> DEFINE n == Len(h)
           h2 == Append(h, e)
           H == [k \in Bot(F) .. n + 1 |-> IF k = n + 1 THEN C ELSE G[k]]
<1>3. Len(h2) = n + 1 /\ h2[n + 1] = e /\ \A i \in 1 .. n : h2[i] = h[i]
  BY <1>2, AnyAppend
<1>4. Prefix(F.hist, h2)
  BY <1>2, PrefixAppend
<1> HIDE DEF h2
<1>5. H[n + 1] = C /\ \A k \in Bot(F) .. n : H[k] = G[k]
  <2>1. n + 1 \in Bot(F) .. n + 1 /\ \A k \in Bot(F) .. n : k \in Bot(F) .. n + 1 /\ k # n + 1
    BY <1>2
  <2> QED BY <2>1
<1> HIDE DEF H
<1>6. \A k \in Bot(F) .. n + 1 : k = n + 1 \/ k \in Bot(F) .. n
  BY <1>2
<1>7. \A k \in Bot(F) .. n : k \in 1 .. n
  BY <1>2
<1>8. ASSUME NEW k \in Bot(F) .. n + 1 PROVE h2[k] \in EntrySet(W) /\ Sound(W, H[k])
  <2>1. CASE k = n + 1
    BY <1>3, <1>5, <2>1
  <2>2. CASE k \in Bot(F) .. n
    <3>1. h2[k] = h[k] /\ H[k] = G[k]
      BY <1>3, <1>5, <1>7, <2>2
    <3> QED BY <1>1, <2>2, <3>1 DEF Steps
  <2> QED BY <1>6, <2>1, <2>2
<1>9. Bottom(W, F, h2, H)
  <2>1. Bot(F) \in Bot(F) .. n
    BY <1>2
  <2>2. h2[Bot(F)] = h[Bot(F)] /\ H[Bot(F)] = G[Bot(F)]
    BY <1>3, <1>5, <1>7, <2>1
  <2> QED BY <1>1, <2>2 DEF Steps, Bottom
<1>10. \A k \in Bot(F) .. n : Under(F, h2, k) = Under(F, h, k)
  <2> SUFFICES ASSUME NEW k \in Bot(F) .. n PROVE Under(F, h2, k) = Under(F, h, k)
    OBVIOUS
  <2>1. k > Bot(F) => k - 1 \in 1 .. n
    BY <1>2
  <2>2. Bot(F) \in 1 .. n
    BY <1>2
  <2> QED BY <1>3, <2>1, <2>2 DEF Under
<1>11. ASSUME NEW k \in Bot(F) + 1 .. n + 1
       PROVE  Step(W, H[k - 1], Under(F, h2, k - 1), h2[k - 1], h2[k], H[k])
  <2>1. k - 1 \in Bot(F) .. n /\ k \in Bot(F) .. n + 1
    BY <1>2
  <2>2. Under(F, h2, k - 1) = Under(F, h, k - 1) /\ h2[k - 1] = h[k - 1] /\ H[k - 1] = G[k - 1]
    BY <1>3, <1>5, <1>7, <1>10, <2>1
  <2>3. CASE k = n + 1
    <3>1. k - 1 = n
      BY <1>2, <2>3
    <3>2. h2[k] = e /\ H[k] = C /\ Under(F, h2, k - 1) = Under(F, h, n) /\ h2[k - 1] = h[n] /\ H[k - 1] = B
      BY <1>1, <1>3, <1>5, <2>2, <2>3, <3>1
    <3> QED BY <1>2, <3>2
  <2>4. CASE k \in Bot(F) .. n
    <3>1. k \in Bot(F) + 1 .. n
      BY <1>2, <2>4
    <3>2. h2[k] = h[k] /\ H[k] = G[k]
      BY <1>3, <1>5, <1>7, <2>4
    <3> QED BY <1>1, <2>2, <3>1, <3>2 DEF Steps
  <2> QED BY <1>6, <2>1, <2>3, <2>4
<1>12. Len(h2) >= Bot(F)
  BY <1>2, <1>3
<1>13. Steps(W, F, h2, H)
  BY <1>3, <1>4, <1>8, <1>9, <1>11, <1>12 DEF Steps
<1>14. C = H[Len(h2)]
  BY <1>3, <1>5
<1> QED BY <1>13, <1>14 DEF Leads, h2

LEMMA LeadsPopped ==
  ASSUME NEW W, NEW F, NEW h, NEW C, Leads(W, F, h, C), Len(h) > Bot(F)
  PROVE  \E B : /\ Leads(W, F, Front(h), B)
                /\ Step(W, B, Under(F, Front(h), Len(Front(h))), Last(Front(h)), Last(h), C)
<1>1. PICK G : Steps(W, F, h, G) /\ C = G[Len(h)]
  BY DEF Leads
<1>2. /\ Prefix(F.hist, h) /\ AnySeq(h) /\ Len(h) \in Nat /\ Bot(F) \in Nat \ {0} /\ Len(h) >= Bot(F)
      /\ Last(h) = h[Len(h)] /\ h # <<>> /\ Len(F.hist) \in Nat
  BY LeadsIs
<1> DEFINE n == Len(h) - 1
           h2 == Front(h)
<1>3. AnySeq(h2) /\ Len(h2) = n /\ \A i \in 1 .. n : h2[i] = h[i]
  BY <1>2, AnyFront
<1>4. n \in Nat /\ n >= Bot(F) /\ Len(h) = n + 1
  BY <1>2
<1>5. Prefix(F.hist, h2)
  <2>1. Len(h) > Len(F.hist)
    BY <1>2 DEF Bot
  <2> QED BY <1>2, <2>1, PrefixFront
<1> HIDE DEF n, h2
<1>6. Last(h2) = h2[n]
  BY <1>3 DEF Last
<1>7. \A k \in Bot(F) .. n : k \in 1 .. n /\ k \in Bot(F) .. Len(h)
  BY <1>2, <1>4
<1>8. \A k \in Bot(F) .. n : Under(F, h2, k) = Under(F, h, k)
  <2> SUFFICES ASSUME NEW k \in Bot(F) .. n PROVE Under(F, h2, k) = Under(F, h, k)
    OBVIOUS
  <2>1. k > Bot(F) => k - 1 \in 1 .. n
    BY <1>2, <1>4
  <2>2. Bot(F) \in 1 .. n
    BY <1>2, <1>4
  <2> QED BY <1>3, <2>1, <2>2 DEF Under
<1>9. \A k \in Bot(F) .. n : h2[k] = h[k]
  BY <1>3, <1>7
<1>10. Bottom(W, F, h2, G)
  <2>1. Bot(F) \in Bot(F) .. n
    BY <1>2, <1>4
  <2> QED BY <1>1, <1>9, <2>1 DEF Steps, Bottom
<1>11. ASSUME NEW k \in Bot(F) + 1 .. n
       PROVE  Step(W, G[k - 1], Under(F, h2, k - 1), h2[k - 1], h2[k], G[k])
  <2>1. k - 1 \in Bot(F) .. n /\ k \in Bot(F) .. n /\ k \in Bot(F) + 1 .. Len(h)
    BY <1>2, <1>4
  <2>2. Step(W, G[k - 1], Under(F, h, k - 1), h[k - 1], h[k], G[k])
    BY <1>1, <2>1 DEF Steps
  <2> QED BY <1>8, <1>9, <2>1, <2>2
<1>12. \A k \in Bot(F) .. n : h2[k] \in EntrySet(W) /\ Sound(W, G[k])
  BY <1>1, <1>7, <1>9 DEF Steps
<1>13. Steps(W, F, h2, G)
  BY <1>3, <1>4, <1>5, <1>10, <1>11, <1>12 DEF Steps
<1>14. Leads(W, F, h2, G[n])
  BY <1>3, <1>13 DEF Leads
<1>15. Step(W, G[n], Under(F, h2, n), h2[n], h[n + 1], G[n + 1])
  <2>1. n + 1 \in Bot(F) + 1 .. Len(h) /\ (n + 1) - 1 = n /\ n \in Bot(F) .. n
    BY <1>2, <1>4
  <2>2. Step(W, G[n], Under(F, h, n), h[n], h[n + 1], G[n + 1])
    <3>1. Step(W, G[(n + 1) - 1], Under(F, h, (n + 1) - 1), h[(n + 1) - 1], h[n + 1], G[n + 1])
      BY <1>1, <2>1 DEF Steps
    <3> QED BY <2>1, <3>1
  <2> QED BY <1>8, <1>9, <2>1, <2>2
<1> QED BY <1>1, <1>2, <1>3, <1>4, <1>6, <1>14, <1>15 DEF h2

LEMMA HeldIs ==
  ASSUME NEW W, NEW F, NEW h, NEW nm, NEW B, Held(W, F, h, nm, B)
  PROVE  /\ Leads(W, F, h, B) /\ Prefix(F.hist, h) /\ AnySeq(h) /\ Len(h) \in Nat /\ Bot(F) \in Nat \ {0}
         /\ Len(h) >= Bot(F) /\ Len(F.hist) \in Nat /\ h # <<>> /\ Last(h) = h[Len(h)]
         /\ Last(h) \in EntrySet(W) /\ Sound(W, B)
         /\ Prefix(F.named, nm) /\ AnySeq(nm) /\ Len(nm) \in Nat /\ Len(F.named) \in Nat
<1>1. Leads(W, F, h, B) /\ Prefix(F.named, nm)
  BY DEF Held, NamedBy
<1>2. AnySeq(nm) /\ Len(nm) \in Nat /\ Len(F.named) \in Nat
  BY <1>1, AnyRange DEF Prefix
<1> QED BY <1>1, <1>2, LeadsIs

LEMMA HeldPushed ==
  ASSUME NEW W, NEW F, NEW h, NEW nm, NEW B, Held(W, F, h, nm, B), NEW e \in EntrySet(W), NEW C,
         Sound(W, C), Step(W, B, Under(F, h, Len(h)), Last(h), e, C), e.fn # "DNME"
  PROVE  Held(W, F, Append(h, e), nm, C)
<1>1. Leads(W, F, h, B) /\ Prefix(F.hist, h)
  BY HeldIs
<1>2. Leads(W, F, Append(h, e), C)
  BY <1>1, LeadsPushed
<1>3. /\ Cardinality(OwnWith(F, Append(h, e), {"DNME"})) = Cardinality(OwnWith(F, h, {"DNME"})) + 0
      /\ Cardinality(OwnWith(F, h, {"DNME"})) \in Nat
  BY <1>1, OwnAppended
<1>4. NamedBy(F, Append(h, e), nm)
  BY <1>3 DEF Held, NamedBy
<1> QED BY <1>2, <1>4 DEF Held

LEMMA HeldNamed ==
  ASSUME NEW W, NEW F, NEW h, NEW nm, NEW B, Held(W, F, h, nm, B), NEW e \in EntrySet(W), NEW C,
         Sound(W, C), Step(W, B, Under(F, h, Len(h)), Last(h), e, C), e.fn = "DNME", NEW x
  PROVE  Held(W, F, Append(h, e), Append(nm, x), C)
<1>1. Leads(W, F, h, B) /\ Prefix(F.hist, h) /\ AnySeq(nm) /\ Prefix(F.named, nm) /\ Len(nm) \in Nat /\ Len(F.named) \in Nat
  BY HeldIs
<1>2. Leads(W, F, Append(h, e), C)
  BY <1>1, LeadsPushed
<1>3. /\ Cardinality(OwnWith(F, Append(h, e), {"DNME"})) = Cardinality(OwnWith(F, h, {"DNME"})) + 1
      /\ Cardinality(OwnWith(F, h, {"DNME"})) \in Nat
  BY <1>1, OwnAppended
<1>4. Prefix(F.named, Append(nm, x)) /\ Len(Append(nm, x)) = Len(nm) + 1
  BY <1>1, PrefixAppend, AnyAppend
<1>5. Len(nm) = Len(F.named) + Cardinality(OwnWith(F, h, {"DNME"}))
  BY DEF Held, NamedBy
<1>6. NamedBy(F, Append(h, e), Append(nm, x))
  BY <1>1, <1>3, <1>4, <1>5 DEF NamedBy
<1> QED BY <1>2, <1>6 DEF Held

(* What Last(h) has been appended to.                                      *)
LEMMA OwnRemoved ==
  ASSUME NEW W, NEW F, NEW h, NEW C, Leads(W, F, h, C), NEW fns
  PROVE  /\ Prefix(F.hist, Front(h)) /\ Cardinality(OwnWith(F, Front(h), fns)) \in Nat
         /\ Cardinality(OwnWith(F, h, fns))
              = Cardinality(OwnWith(F, Front(h), fns)) + (IF Last(h).fn \in fns THEN 1 ELSE 0)
<1>1. /\ Prefix(F.hist, h) /\ AnySeq(h) /\ h # <<>> /\ Len(h) \in Nat /\ Bot(F) \in Nat /\ Len(h) >= Bot(F)
      /\ Len(F.hist) \in Nat
  BY LeadsIs
<1>2. Len(h) > Len(F.hist)
  BY <1>1 DEF Bot
<1>3. Prefix(F.hist, Front(h))
  BY <1>1, <1>2, PrefixFront
<1>4. Append(Front(h), Last(h)) = h
  BY <1>1, AnyRebuilt
<1>5. /\ Cardinality(OwnWith(F, Front(h), fns)) \in Nat
      /\ Cardinality(OwnWith(F, Append(Front(h), Last(h)), fns))
           = Cardinality(OwnWith(F, Front(h), fns)) + (IF Last(h).fn \in fns THEN 1 ELSE 0)
  BY <1>3, OwnAppended
<1> QED BY <1>3, <1>4, <1>5

LEMMA HeldPopped ==
  ASSUME NEW W, NEW F, NEW h, NEW nm, NEW C, Held(W, F, h, nm, C), Len(h) > Bot(F), Last(h).fn # "DNME"
  PROVE  \E B : /\ Held(W, F, Front(h), nm, B)
                /\ Step(W, B, Under(F, Front(h), Len(Front(h))), Last(Front(h)), Last(h), C)
<1>1. Leads(W, F, h, C)
  BY HeldIs
<1>2. PICK B : /\ Leads(W, F, Front(h), B)
               /\ Step(W, B, Under(F, Front(h), Len(Front(h))), Last(Front(h)), Last(h), C)
  BY <1>1, LeadsPopped
<1>3. /\ Cardinality(OwnWith(F, h, {"DNME"})) = Cardinality(OwnWith(F, Front(h), {"DNME"})) + 0
      /\ Cardinality(OwnWith(F, Front(h), {"DNME"})) \in Nat
  BY <1>1, OwnRemoved
<1>4. NamedBy(F, Front(h), nm)
  BY <1>3 DEF Held, NamedBy
<1> QED BY <1>2, <1>4 DEF Held

LEMMA HeldUnnamed ==
  ASSUME NEW W, NEW F, NEW h, NEW nm, NEW C, Held(W, F, h, nm, C), Len(h) > Bot(F), Last(h).fn = "DNME"
  PROVE  /\ nm # <<>>
         /\ \E B : /\ Held(W, F, Front(h), Front(nm), B)
                   /\ Step(W, B, Under(F, Front(h), Len(Front(h))), Last(Front(h)), Last(h), C)
<1>1. Leads(W, F, h, C) /\ AnySeq(nm) /\ Prefix(F.named, nm) /\ Len(nm) \in Nat /\ Len(F.named) \in Nat
  BY HeldIs
<1>2. PICK B : /\ Leads(W, F, Front(h), B)
               /\ Step(W, B, Under(F, Front(h), Len(Front(h))), Last(Front(h)), Last(h), C)
  BY <1>1, LeadsPopped
<1>3. /\ Cardinality(OwnWith(F, h, {"DNME"})) = Cardinality(OwnWith(F, Front(h), {"DNME"})) + 1
      /\ Cardinality(OwnWith(F, Front(h), {"DNME"})) \in Nat
  BY <1>1, OwnRemoved
<1>4. Len(nm) = Len(F.named) + Cardinality(OwnWith(F, h, {"DNME"}))
  BY DEF Held, NamedBy
<1>5. Len(nm) > Len(F.named) /\ Len(nm) # 0
  BY <1>1, <1>3, <1>4
<1>6. nm # <<>>
  BY <1>5
<1>7. Prefix(F.named, Front(nm)) /\ Len(Front(nm)) = Len(nm) - 1
  BY <1>1, <1>5, <1>6, PrefixFront, AnyFront
<1>8. NamedBy(F, Front(h), Front(nm))
  BY <1>1, <1>3, <1>4, <1>7 DEF NamedBy
<1> QED BY <1>2, <1>6, <1>8 DEF Held

LEMMA HeldStarts ==
  ASSUME NEW W, NEW F, AnySeq(F.hist), AnySeq(F.named), NEW e \in EntrySet(W), NEW C, Sound(W, C),
         e.fn = IF W.anchored THEN "SCFL" ELSE "SCON", Len(C) = 1, C[1].open = <<>>
  PROVE  Held(W, F, Append(F.hist, e), F.named, C)
<1> DEFINE h == Append(F.hist, e)
           G == [k \in {Bot(F)} |-> C]
<1>1. Len(F.hist) \in Nat /\ Bot(F) = Len(F.hist) + 1 /\ Prefix(F.hist, F.hist)
  BY AnyRange, PrefixSelf DEF Bot
<1>2. Len(h) = Bot(F) /\ h[Bot(F)] = e
  BY <1>1, AnyAppend
<1>3. Prefix(F.hist, h)
  BY <1>1, PrefixAppend
<1>4. Bot(F) .. Len(h) = {Bot(F)} /\ Bot(F) + 1 .. Len(h) = {}
  BY <1>1, <1>2
<1>5. G[Bot(F)] = C
  OBVIOUS
<1> HIDE DEF h, G
<1>6. \A k \in Bot(F) .. Len(h) : h[k] \in EntrySet(W) /\ Sound(W, G[k])
  BY <1>2, <1>4, <1>5
<1>7. Bottom(W, F, h, G)
  BY <1>2, <1>5 DEF Bottom
<1>8. Len(h) >= Bot(F)
  BY <1>1, <1>2
<1>9. Steps(W, F, h, G)
  BY <1>3, <1>4, <1>6, <1>7, <1>8 DEF Steps
<1>10. Leads(W, F, h, C)
  BY <1>2, <1>5, <1>9 DEF Leads
<1>11. e.fn \notin {"DNME"}
  OBVIOUS
<1>12. Cardinality(OwnWith(F, h, {"DNME"})) = 0
  <2>1. OwnWith(F, h, {"DNME"}) = {}
    BY <1>2, <1>4, <1>11 DEF OwnWith
  <2> QED BY <2>1, FS_EmptySet
<1>13. NamedBy(F, h, F.named)
  BY <1>12, AnyRange, PrefixSelf DEF NamedBy
<1> QED BY <1>10, <1>13 DEF Held, h

LEMMA HeldEnds ==
  ASSUME NEW W, NEW F, NEW h, NEW nm, NEW C, Held(W, F, h, nm, C), Len(h) = Bot(F)
  PROVE  /\ AtBottom(W, F, Front(h), nm, C)
         /\ Last(h).fn = IF W.anchored THEN "SCFL" ELSE "SCON"
<1>1. /\ Leads(W, F, h, C) /\ Prefix(F.hist, h) /\ AnySeq(h) /\ Len(h) \in Nat /\ Len(F.hist) \in Nat /\ h # <<>>
      /\ Last(h) = h[Len(h)] /\ Prefix(F.named, nm) /\ Len(F.named) \in Nat
  BY HeldIs
<1>2. h[Bot(F)].fn = (IF W.anchored THEN "SCFL" ELSE "SCON") /\ Len(C) = 1 /\ C[1].open = <<>>
  BY <1>1, LeadsIs
<1>3. Len(h) > Len(F.hist) /\ Len(Front(h)) = Len(F.hist)
  BY <1>1, AnyFront DEF Bot
<1>4. Prefix(F.hist, Front(h))
  BY <1>1, <1>3, PrefixFront
<1>5. Last(h).fn \notin {"DNME"}
  BY <1>1, <1>2
<1>6. Cardinality(OwnWith(F, h, {"DNME"})) = 0
  <2>1. Bot(F) .. Len(h) = {Len(h)}
    BY <1>1
  <2>2. OwnWith(F, h, {"DNME"}) = {}
    BY <1>1, <1>5, <2>1 DEF OwnWith
  <2> QED BY <2>2, FS_EmptySet
<1>7. Len(nm) = Len(F.named)
  BY <1>1, <1>6 DEF Held, NamedBy
<1> QED BY <1>1, <1>2, <1>3, <1>4, <1>7 DEF AtBottom

(* The last entry put back with other levels.                              *)
LEMMA HeldAgain ==
  ASSUME NEW W, NEW F, NEW h, AnySeq(h), h # <<>>, NEW nm, NEW B, Held(W, F, Front(h), nm, B),
         Last(h) \in EntrySet(W), Last(h).fn # "DNME", NEW C, Sound(W, C),
         Step(W, B, Under(F, Front(h), Len(Front(h))), Last(Front(h)), Last(h), C)
  PROVE  Held(W, F, h, nm, C)
<1>1. Held(W, F, Append(Front(h), Last(h)), nm, C)
  BY HeldPushed
<1> QED BY <1>1, AnyRebuilt

-----------------------------------------------------------------------------
(* Nodes.                                                                   *)

LEMMA LinkIs ==
  /\ Link \notin {"SCON", "SCFL", "RTNUL3", "SUCF", "BRKXF", "FNME", "DNME", "DNME1", "started"}
  /\ Link \in EntryFns
BY DEF Link, EntryFns

LEMMA RoleIs ==
  ASSUME NEW P, NEW o
  PROVE  Role(P, o) \in {"plain", "ARBF", "ONAR", "DSAR"}
BY DEF Role

LEMMA WorldIs ==
  ASSUME NEW W, Worlds(W), NEW p \in DOMAIN W.nodes
  PROVE  /\ AnySeq(W.nodes[p]) /\ Len(W.nodes[p]) \in Nat \ {0}
         /\ W.open[p] \in Seq(Seq(Tags)) /\ Len(W.open[p]) = Len(W.nodes[p])
         /\ Plain(W.nodes[p], W.open[p], 0, <<>>)
         /\ \A o \in 0 .. Len(W.nodes[p]) - 1 : NodeGood(W.nodes[p], W.open[p], o)
<1>1. PICK A : GoodPattern(W.nodes[p], W.open[p], A)
  BY DEF Worlds
<1>2. PICK X : W.nodes[p] \in Seq(NodesWith(X))
  BY <1>1 DEF GoodPattern
<1>3. AnySeq(W.nodes[p])
  BY <1>2, AnyElements
<1>4. 0 \in 0 .. Len(W.nodes[p]) - 1 /\ Plain(W.nodes[p], W.open[p], 0, <<>>)
  BY <1>1 DEF GoodPattern, FirstGood
<1>5. Len(W.nodes[p]) \in Nat \ {0}
  BY <1>3, <1>4, AnyRange
<1> QED BY <1>1, <1>3, <1>4, <1>5 DEF GoodPattern

LEMMA NodeIs ==
  ASSUME NEW W, Worlds(W), NEW p \in DOMAIN W.nodes, NEW o \in 0 .. Len(W.nodes[p]) - 1
  PROVE  /\ W.nodes[p][o + 1].fn \in Fns /\ W.nodes[p][o + 1].then \in Nat /\ W.nodes[p][o + 1].or \in Nat
         /\ W.nodes[p][o + 1].val \in Nat /\ W.nodes[p][o + 1].res \in Nat
         /\ o \in Nat /\ o + 1 \in 1 .. Len(W.nodes[p])
         /\ W.open[p][o + 1] \in Seq(Tags)
         /\ W.nodes[p][o + 1].then < Len(W.nodes[p]) /\ W.nodes[p][o + 1].or < Len(W.nodes[p])
         /\ NodeGood(W.nodes[p], W.open[p], o)
<1>1. PICK A : GoodPattern(W.nodes[p], W.open[p], A)
  BY DEF Worlds
<1>2. PICK X : W.nodes[p] \in Seq(NodesWith(X))
  BY <1>1 DEF GoodPattern
<1>3. /\ Len(W.nodes[p]) \in Nat /\ W.open[p] \in Seq(Seq(Tags)) /\ Len(W.open[p]) = Len(W.nodes[p])
      /\ NodeGood(W.nodes[p], W.open[p], o)
  BY WorldIs
<1>4. o \in Nat /\ o + 1 \in 1 .. Len(W.nodes[p])
  BY <1>3
<1>5. W.nodes[p][o + 1] \in NodesWith(X)
  BY <1>2, <1>4
<1>6. /\ W.nodes[p][o + 1].fn \in Fns /\ W.nodes[p][o + 1].then \in Nat /\ W.nodes[p][o + 1].or \in Nat
      /\ W.nodes[p][o + 1].val \in Nat /\ W.nodes[p][o + 1].res \in Nat
  BY <1>5 DEF NodesWith
<1>7. W.open[p][o + 1] \in Seq(Tags)
  BY <1>3, <1>4
<1> QED BY <1>3, <1>4, <1>6, <1>7 DEF NodeGood

(* What follows from where a match is.                                     *)
LEMMA Phases ==
  ASSUME NEW W, NEW F, NEW h, NEW nm, NEW regs, NEW td, NEW C, Phase(W, F, h, nm, regs, td, C)
  PROVE  /\ td \in {"SALT", "SALF"} =>
              Backing(W, F, h, nm, C) \/ (td = "SALT" /\ Shortened(W, F, h, nm, C))
         /\ td = "SCOK" => Going(W, F, h, nm, regs, C)
         /\ td = "node" => Joining(W, F, h, nm, regs, C)
         /\ td \in Own1 => InNode1(W, F, h, nm, regs, td, C)
         /\ td \in Own2 => InNode2(W, F, h, nm, regs, td, C)
         /\ td = "ENMI2" => InENMI2(W, F, h, nm, regs, C)
         /\ td = "BRKX" => InBRKX(W, F, h, nm, regs, C)
         /\ td = "SUCF" => InSUCF(W, F, h, nm, regs, C)
         /\ td = "BRKXF" => InBRKXF(W, F, h, nm, regs, C)
         /\ td \in {"FNME", "DNME", "DNME1"} => InNME(W, F, h, nm, td, C)
         /\ td = "RTNUL3" => Prefix(F.hist, h) /\ Prefix(F.named, nm)
         /\ td = "SCFL" => InNME(W, F, h, nm, td, C) \/ AtBottom(W, F, h, nm, C)
         /\ td = "SCON" => ~ W.anchored /\ AtBottom(W, F, h, nm, C)
<1> USE DEF Phase, Own1, Own2, Simple, Measuring
<1>1. td \in {"SALT", "SALF"} => Backing(W, F, h, nm, C) \/ (td = "SALT" /\ Shortened(W, F, h, nm, C))
  OBVIOUS
<1>2. td = "SCOK" => Going(W, F, h, nm, regs, C)
  OBVIOUS
<1>3. td = "node" => Joining(W, F, h, nm, regs, C)
  OBVIOUS
<1>4. td \in Own1 => InNode1(W, F, h, nm, regs, td, C)
  OBVIOUS
<1>5. td \in Own2 => InNode2(W, F, h, nm, regs, td, C)
  OBVIOUS
<1>6. td = "ENMI2" => InENMI2(W, F, h, nm, regs, C)
  OBVIOUS
<1>7. td = "BRKX" => InBRKX(W, F, h, nm, regs, C)
  OBVIOUS
<1>8. td = "SUCF" => InSUCF(W, F, h, nm, regs, C)
  OBVIOUS
<1>9. td = "BRKXF" => InBRKXF(W, F, h, nm, regs, C)
  OBVIOUS
<1>10. td \in {"FNME", "DNME", "DNME1"} => InNME(W, F, h, nm, td, C)
  OBVIOUS
<1>11. td = "RTNUL3" => Prefix(F.hist, h) /\ Prefix(F.named, nm)
  OBVIOUS
<1>12. td = "SCFL" => InNME(W, F, h, nm, td, C) \/ AtBottom(W, F, h, nm, C)
  OBVIOUS
<1>13. td = "SCON" => ~ W.anchored /\ AtBottom(W, F, h, nm, C)
  OBVIOUS
<1> QED BY <1>1, <1>2, <1>3, <1>4, <1>5, <1>6, <1>7, <1>8, <1>9, <1>10, <1>11, <1>12, <1>13

LEMMA RegistersAre ==
  ASSUME NEW W, NEW regs \in Registers(W)
  PROVE  /\ regs.PATBCL \in DOMAIN W.nodes /\ regs.PATICL \in Int /\ regs.then \in Int /\ regs.res \in Int
         /\ regs.LENFCL \in BOOLEAN /\ regs.MAXLEN \in Int /\ regs.TXSP \in Int /\ regs.HEADSP \in Int
         /\ regs.XSP \in AllSubjects /\ regs.TCL \in Int /\ regs.PDLHED \in Int /\ regs.NHEDCL \in Int
BY DEF Registers

(* The registers of two moments of one match.                              *)
Later(W, regs, regs2) ==
    /\ regs2 \in Registers(W) /\ regs2.PDLHED = regs.PDLHED /\ regs2.NHEDCL = regs.NHEDCL
    /\ regs2.PATBCL = regs.PATBCL /\ regs2.MAXLEN = regs.MAXLEN

-----------------------------------------------------------------------------
(* What happens at one node.                                                *)

LEMMA MatchIs ==
  ASSUME NEW W, NEW F, NEW h, NEW s, NEW cs, NEW nm, NEW regs, NEW td, NEW C,
         Worlds(W), MatchAt(W, F, h, s, cs, nm, regs, td, C)
  PROVE  /\ Stands(W, F, C, s, cs) /\ Ours(W, F, regs) /\ regs \in Registers(W) /\ Sound(W, C)
         /\ regs.PATBCL = Last(C).pat /\ regs.MAXLEN = Last(C).max
         /\ Last(C).pat \in DOMAIN W.nodes /\ Last(C).max \in Int /\ Last(C).open \in Seq(Tags)
         /\ Phase(W, F, h, nm, regs, td, C)
         /\ regs.TXSP \in Int /\ regs.MAXLEN \in Int /\ regs.LENFCL \in BOOLEAN
<1>1. /\ Stands(W, F, C, s, cs) /\ Ours(W, F, regs) /\ regs \in Registers(W)
      /\ regs.PATBCL = Last(C).pat /\ regs.MAXLEN = Last(C).max /\ Phase(W, F, h, nm, regs, td, C)
  BY DEF MatchAt, Ours
<1>2. Sound(W, C)
  BY <1>1 DEF Stands
<1>3. Last(C) \in Levels(W)
  BY <1>2, SoundIs
<1>4. Last(C).pat \in DOMAIN W.nodes /\ Last(C).max \in Int /\ Last(C).open \in Seq(Tags)
  BY <1>3, LevelIs
<1>5. regs.TXSP \in Int /\ regs.MAXLEN \in Int /\ regs.LENFCL \in BOOLEAN
  BY <1>1, RegistersAre
<1> QED BY <1>1, <1>2, <1>4, <1>5

(* The next moments of a match at levels C: of the same statement, pattern and MAXLEN. *)
Next_(W, F, C, cs, regs, C2, s2, regs2) ==
    /\ Ours(W, F, regs) /\ regs.PATBCL = Last(C).pat /\ regs.MAXLEN = Last(C).max
    /\ Later(W, regs, regs2) /\ Last(C2).pat = Last(C).pat /\ Last(C2).max = Last(C).max
    /\ Stands(W, F, C2, s2, cs)

LEMMA LiveNext ==
  ASSUME NEW W, NEW F, NEW C, NEW cs, NEW regs, NEW C2, NEW s2, NEW regs2,
         Next_(W, F, C, cs, regs, C2, s2, regs2), NEW h2, NEW nm2, NEW td2,
         Phase(W, F, h2, nm2, regs2, td2, C2)
  PROVE  Live(W, F, h2, s2, cs, nm2, regs2, td2)
BY DEF Live, MatchAt, Ours, Of, Later, Next_

LEMMA LiveBacking ==
  ASSUME NEW W, NEW F, NEW C, NEW cs, NEW regs, NEW C2, NEW s2, NEW regs2,
         Next_(W, F, C, cs, regs, C2, s2, regs2), NEW h2, NEW nm2, NEW td2 \in {"SALT", "SALF"},
         Held(W, F, h2, nm2, C2), Last(h2).fn # "started"
  PROVE  Live(W, F, h2, s2, cs, nm2, regs2, td2)
<1>1. Phase(W, F, h2, nm2, regs2, td2, C2)
  BY DEF Phase, Backing
<1> QED BY <1>1, LiveNext

LEMMA LiveGoing ==
  ASSUME NEW W, NEW F, NEW C, NEW cs, NEW regs, NEW C2, NEW s2, NEW regs2,
         Next_(W, F, C, cs, regs, C2, s2, regs2), NEW h2, NEW nm2, NEW B,
         Held(W, F, h2, nm2, B), GoesOn(W, B, Last(h2), regs2.then, regs2.TXSP, C2)
  PROVE  Live(W, F, h2, s2, cs, nm2, regs2, "SCOK")
<1>1. Phase(W, F, h2, nm2, regs2, "SCOK", C2)
  BY DEF Phase, Going
<1> QED BY <1>1, LiveNext

LEMMA LiveJoining ==
  ASSUME NEW W, NEW F, NEW C, NEW cs, NEW regs, NEW C2, NEW s2, NEW regs2,
         Next_(W, F, C, cs, regs, C2, s2, regs2), NEW h2, NEW nm2, NEW B,
         Held(W, F, h2, nm2, B), Joins(W, B, Last(h2), regs2.PATICL, regs2.TXSP, C2)
  PROVE  Live(W, F, h2, s2, cs, nm2, regs2, "node")
<1>1. Phase(W, F, h2, nm2, regs2, "node", C2)
  BY DEF Phase, Joining
<1> QED BY <1>1, LiveNext

(* After the node at o the pattern goes on where it should.                *)
Passing == Fns \ {"STAR", "DSAR", "EARB", "ARBF", "ONRF"}

LEMMA FollowsAfter ==
  ASSUME NEW W, Worlds(W), NEW C, Last(C).pat \in DOMAIN W.nodes,
         NEW o \in 0 .. Len(Pat(W, C)) - 1, NodeOf(W, C, o).fn \in Passing,
         Last(C).open = Leaves(NodeOf(W, C, o), W.open[Last(C).pat][o + 1]),
         NEW cur, W.quick => cur <= Last(C).max
  PROVE  Follows(W, C, NodeOf(W, C, o).then, cur)
<1> DEFINE p == Last(C).pat
           P == W.nodes[p]
           n == P[o + 1]
<1>1. o \in 0 .. Len(P) - 1 /\ p \in DOMAIN W.nodes
  BY DEF Pat
<1>2. NodeGood(P, W.open[p], o) /\ n.then \in Nat /\ n.then < Len(P) /\ Len(P) \in Nat
  <2> HIDE DEF p
  <2> QED BY <1>1, NodeIs, WorldIs
<1>3. ThenGood(P, W.open[p], o)
  BY <1>2 DEF NodeGood
<1>4. IF n.then = 0 THEN Leaves(n, W.open[p][o + 1]) = <<>> ELSE Plain(P, W.open[p], n.then, Leaves(n, W.open[p][o + 1]))
  BY <1>3 DEF ThenGood, Passing, NodeOf
<1>5. CASE n.then = 0
  BY <1>4, <1>5 DEF Follows, Ends, NodeOf
<1>6. CASE n.then # 0
  <2>1. n.then \in 0 .. Len(P) - 1
    <3> DEFINE t == n.then
               l == Len(P)
    <3>1. t \in Nat /\ l \in Nat /\ t < l
      BY <1>2
    <3> HIDE DEF t, l
    <3> QED BY <3>1 DEF t, l
  <2>2. Plain(P, W.open[p], n.then, Last(C).open)
    BY <1>4, <1>6 DEF NodeOf
  <2> QED BY <1>6, <2>1, <2>2 DEF Follows, Plain, Place, RoleOf, NodeOf
<1> QED BY <1>5, <1>6

LEMMA FollowsOn ==
  ASSUME NEW W, NEW C, NEW then, NEW cur, Follows(W, C, then, cur), NEW top, top.fn # "started"
  PROVE  GoesOn(W, C, top, then, cur, C)
BY DEF Follows, GoesOn, Joins

LEMMA GoesAfter ==
  ASSUME NEW W, Worlds(W), NEW C, Last(C).pat \in DOMAIN W.nodes,
         NEW o \in 0 .. Len(Pat(W, C)) - 1, NodeOf(W, C, o).fn \in Passing,
         Last(C).open = Leaves(NodeOf(W, C, o), W.open[Last(C).pat][o + 1]),
         NEW cur, W.quick => cur <= Last(C).max, NEW top, top.fn # "started"
  PROVE  GoesOn(W, C, top, NodeOf(W, C, o).then, cur, C)
BY FollowsAfter, FollowsOn

(* The entry of a node that nothing else leads to.                         *)
LEMMA OwnStep ==
  ASSUME NEW W, Worlds(W), NEW C, Last(C).pat \in DOMAIN W.nodes, NEW o, Place(W, C, o),
         RoleOf(W, C, o) = "plain", NodeOf(W, C, o).fn # "ARBN",
         NEW under, under.fn # "started", NEW under2, NEW e, e.fn = Link, e.or = NodeOf(W, C, o).or,
         e.owner = Last(C).pat
  PROVE  Step(W, C, under2, under, e, C)
<1> DEFINE p == Last(C).pat
           P == W.nodes[p]
           n == P[o + 1]
<1>1. o \in 0 .. Len(P) - 1 /\ p \in DOMAIN W.nodes /\ Last(C).open = W.open[p][o + 1]
  BY DEF Place
<1>2. NodeGood(P, W.open[p], o) /\ n.or \in Nat /\ n.or < Len(P) /\ Len(P) \in Nat
  <2> HIDE DEF p
  <2> QED BY <1>1, NodeIs, WorldIs
<1>3. n.or = 0 \/ Plain(P, W.open[p], n.or, W.open[p][o + 1])
  BY <1>2 DEF NodeGood, OrGood, RoleOf, NodeOf
<1>4. n.or \in 0 .. Len(P) - 1
  <2> DEFINE t == n.or
             l == Len(P)
  <2>1. t \in Nat /\ l \in Nat /\ t < l
    BY <1>2
  <2> HIDE DEF t, l
  <2> QED BY <2>1 DEF t, l
<1>5. n.or # 0 => Place(W, C, n.or) /\ RoleOf(W, C, n.or) = "plain"
  BY <1>1, <1>3, <1>4 DEF Plain, Place, RoleOf
<1>6. e.or = n.or
  BY DEF NodeOf
<1> HIDE DEF n, P, p
<1>7. StepLink(W, C, under, e, C)
  BY <1>5, <1>6, Zenon DEF StepLink, Joins
<1> QED BY <1>7 DEF Step

(* What such an entry on top was pushed on.                                *)
LEMMA OwnPopped ==
  ASSUME NEW W, Worlds(W), NEW F, NEW h, NEW nm, NEW C, Held(W, F, h, nm, C), Len(h) > Bot(F),
         Last(C).pat \in DOMAIN W.nodes, NEW o, Place(W, C, o),
         RoleOf(W, C, o) = "plain", NodeOf(W, C, o).fn # "ARBN",
         Last(h).fn = Link, Last(h).or = NodeOf(W, C, o).or
  PROVE  /\ Held(W, F, Front(h), nm, C) /\ Last(Front(h)).fn # "started"
<1>1. Last(h).fn # "DNME" /\ Link # "started"
  BY LinkIs
<1>2. PICK B : /\ Held(W, F, Front(h), nm, B)
               /\ Step(W, B, Under(F, Front(h), Len(Front(h))), Last(Front(h)), Last(h), C)
  BY <1>1, HeldPopped
<1>3. StepLink(W, B, Last(Front(h)), Last(h), C)
  BY <1>2, LinkIs DEF Step
<1>4. CASE Last(h).or = 0
  BY <1>2, <1>3, <1>4 DEF StepLink
<1>5. CASE Last(h).or # 0
  <2> DEFINE p == Last(C).pat
             P == W.nodes[p]
             n == P[o + 1]
  <2>1. o \in 0 .. Len(P) - 1 /\ p \in DOMAIN W.nodes
    BY DEF Place
  <2>2. NodeGood(P, W.open[p], o)
    <3> HIDE DEF p
    <3> QED BY <2>1, NodeIs
  <2>3. n.or = 0 \/ Plain(P, W.open[p], n.or, W.open[p][o + 1])
    BY <2>2 DEF NodeGood, OrGood, RoleOf, NodeOf
  <2>4. RoleOf(W, C, Last(h).or) = "plain"
    BY <1>5, <2>3 DEF Plain, RoleOf, NodeOf
  <2>5. Joins(W, B, Last(Front(h)), Last(h).or, Last(h).cur, C)
    BY <1>3, <1>5 DEF StepLink
  <2>6. C = B /\ Last(Front(h)).fn # "started"
    BY <2>4, <2>5 DEF Joins
  <2> QED BY <1>2, <2>6
<1> QED BY <1>4, <1>5

(* An entry of a node, or of EARB, is above that of the statement.         *)
LEMMA AboveBottom ==
  ASSUME NEW W, NEW F, NEW h, NEW nm, NEW C, Held(W, F, h, nm, C), Last(h).fn \in {Link, "started"}
  PROVE  Len(h) > Bot(F)
<1>1. /\ Len(h) >= Bot(F) /\ Last(h) = h[Len(h)] /\ Len(h) \in Nat /\ Bot(F) \in Nat
      /\ h[Bot(F)].fn = IF W.anchored THEN "SCFL" ELSE "SCON"
  BY HeldIs, LeadsIs
<1>2. Len(h) # Bot(F)
  BY <1>1, LinkIs
<1> QED BY <1>1, <1>2
=============================================================================
