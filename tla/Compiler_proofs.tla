--------------------------- MODULE Compiler_proofs ---------------------------
(* Theorems about Compiler: its trees are linked as the procedures that    *)
(* read on expect them, whatever the program, and its object code stays    *)
(* within the blocks.                                                      *)
EXTENDS Compiler, FiniteSetTheorems, SequenceTheorems, WellFoundedInduction, TLAPS

-----------------------------------------------------------------------------
(* Induction.  What is false for some natural number is false for a least  *)
(* one.                                                                    *)
LEMMA NatLeast ==
  ASSUME NEW X \in SUBSET Nat, X # {}
  PROVE  \E n \in X : \A m \in X : n <= m
<1> DEFINE Lower == {ss \in Nat \X Nat : ss[1] < ss[2]}
<1>1. IsWellFoundedOn(Lower, Nat)
  BY NatLessThanWellFounded DEF OpToRel
<1> HIDE DEF Lower
<1>2. \E x \in X : \A y \in X : ~ (<<y, x>> \in Lower)
  BY <1>1, WFMin
<1>3. PICK n \in X : \A m \in X : ~ (<<m, n>> \in Lower)
  BY <1>2
<1>4. ASSUME NEW m \in X, m < n PROVE FALSE
  <2>1. <<m, n>> \in Nat \X Nat /\ <<m, n>>[1] < <<m, n>>[2]
    BY <1>4
  <2>2. <<m, n>> \in Lower
    BY <2>1, Zenon DEF Lower
  <2> QED BY <1>3, <2>2
<1>5. ASSUME NEW m \in X PROVE n <= m
  BY <1>4
<1> QED BY <1>5

(* A set of numbers that holds 0 and with each number up to n the next one *)
(* holds all of them up to n.                                              *)
LEMMA Counting ==
  ASSUME NEW n \in Nat, NEW X, 0 \in X,
         \A m \in 1 .. n : m - 1 \in X => m \in X
  PROVE  0 .. n \subseteq X
<1> SUFFICES ASSUME 0 .. n \ X # {} PROVE FALSE
  OBVIOUS
<1>1. PICK m \in 0 .. n \ X : \A k \in 0 .. n \ X : m <= k
  <2>1. 0 .. n \ X \in SUBSET Nat
    OBVIOUS
  <2> QED BY <2>1, NatLeast
<1>2. m \in 1 .. n
  BY <1>1
<1>3. m - 1 \in 0 .. n /\ ~ m <= m - 1
  BY <1>2
<1> QED BY <1>1, <1>2, <1>3

(* Where each step is defined by a function, there is a function that is   *)
(* defined by recursion.                                                   *)
Recurs(Dom, base, n, step) ==
    \E f \in [0 .. n -> Dom] :
        /\ f[0] = base
        /\ \A k \in 1 .. n : f[k] = step[k][f[k - 1]]

LEMMA Recursion ==
  ASSUME NEW Dom, NEW base \in Dom, NEW n \in Nat, NEW step \in [1 .. n -> [Dom -> Dom]]
  PROVE  Recurs(Dom, base, n, step)
<1> DEFINE Upto(m, f) == /\ f[0] = base
                         /\ \A k \in 1 .. m : f[k] = step[k][f[k - 1]]
           X == {m \in 0 .. n : \E f \in [0 .. m -> Dom] : Upto(m, f)}
<1>1. 0 \in X
  <2>1. [k \in 0 .. 0 |-> base] \in [0 .. 0 -> Dom] /\ Upto(0, [k \in 0 .. 0 |-> base])
    OBVIOUS
  <2>2. \E f \in [0 .. 0 -> Dom] : Upto(0, f)
    BY <2>1, Zenon
  <2>3. 0 \in 0 .. n
    OBVIOUS
  <2> QED BY <2>2, <2>3
<1>2. ASSUME NEW m \in 1 .. n, m - 1 \in X PROVE m \in X
  <2>1. PICK f \in [0 .. m - 1 -> Dom] : Upto(m - 1, f)
    BY <1>2
  <2> DEFINE g == [k \in 0 .. m |-> IF k = m THEN step[m][f[m - 1]] ELSE f[k]]
  <2>2. m - 1 \in 0 .. m - 1 /\ f[m - 1] \in Dom /\ step[m] \in [Dom -> Dom]
    OBVIOUS
  <2>3. g \in [0 .. m -> Dom]
    BY <2>2
  <2>4. g[0] = base
    BY <2>1
  <2>5. ASSUME NEW k \in 1 .. m PROVE g[k] = step[k][g[k - 1]]
    <3>1. k - 1 \in 0 .. m /\ k \in 0 .. m /\ k - 1 # m
      OBVIOUS
    <3>2. g[k - 1] = f[k - 1] /\ g[k] = IF k = m THEN step[m][f[m - 1]] ELSE f[k]
      BY <3>1
    <3>3. CASE k = m
      BY <3>2, <3>3
    <3>4. CASE k # m
      <4>1. k \in 1 .. m - 1
        BY <3>4
      <4> QED BY <2>1, <3>2, <3>4, <4>1
    <3> QED BY <3>3, <3>4
  <2> HIDE DEF g
  <2>6. Upto(m, g) /\ m \in 0 .. n
    BY <2>4, <2>5
  <2> QED BY <2>3, <2>6
<1> HIDE DEF X
<1>3. \A m \in 1 .. n : m - 1 \in X => m \in X
  BY <1>2
<1>4. 0 .. n \subseteq X
  BY <1>1, <1>3, Counting
<1>5. n \in X
  BY <1>4
<1> QED BY <1>5 DEF X, Recurs

-----------------------------------------------------------------------------
(* The operations on trees.                                                *)
Linked(t) == t \in Seq(Nodes(Len(t)))
Hanging(t, k) == k \in 1 .. Len(t) /\ t[k].father # 0
\* The tree t has become u: no node is lost or taken from below another one.
Grown(t, u) ==
    /\ Linked(u) /\ Len(t) <= Len(u)
    /\ \A k \in 1 .. Len(t) : t[k].father # 0 => u[k].father # 0

LEMMA LinkedNode ==
  ASSUME NEW t, Linked(t), NEW k \in 1 .. Len(t)
  PROVE  /\ Len(t) \in Nat /\ DOMAIN t = 1 .. Len(t)
         /\ t[k] \in Nodes(Len(t)) /\ t[k].op \in Ops /\ t[k].n \in Nat
         /\ t[k].father \in 0 .. Len(t) /\ t[k].lson \in 0 .. Len(t) /\ t[k].rsib \in 0 .. Len(t)
<1>1. Len(t) \in Nat /\ DOMAIN t = 1 .. Len(t) /\ t[k] \in Nodes(Len(t))
  BY DEF Linked
<1> QED BY <1>1 DEF Nodes

LEMMA LinkedLen ==
  ASSUME NEW t, Linked(t)
  PROVE  Len(t) \in Nat /\ DOMAIN t = 1 .. Len(t)
BY DEF Linked

LEMMA LinkedBy ==
  ASSUME NEW t, NEW n \in Nat, DOMAIN t = 1 .. n, t = [k \in 1 .. n |-> t[k]],
         \A k \in 1 .. n : t[k] \in Nodes(n)
  PROVE  Linked(t) /\ Len(t) = n
<1>1. t \in [1 .. n -> Nodes(n)]
  OBVIOUS
<1>2. t \in Seq(Nodes(n)) /\ Len(t) = n
  BY <1>1
<1> QED BY <1>2 DEF Linked

LEMMA GrownTrans ==
  ASSUME NEW t, NEW u, NEW v, Linked(t), Grown(t, u), Grown(u, v)
  PROVE  Grown(t, v)
<1>1. Len(t) \in Nat /\ Len(u) \in Nat /\ Len(v) \in Nat
  BY LinkedLen DEF Grown
<1> QED BY <1>1 DEF Grown

LEMMA GrownSelf ==
  ASSUME NEW t, Linked(t)
  PROVE  Grown(t, t)
BY LinkedLen DEF Grown

LEMMA GrownHanging ==
  ASSUME NEW t, NEW u, Linked(t), Grown(t, u), NEW k, Hanging(t, k)
  PROVE  Hanging(u, k)
<1>1. Len(t) \in Nat /\ Len(u) \in Nat
  BY LinkedLen DEF Grown
<1> QED BY <1>1 DEF Grown, Hanging

\* A change of nodes that leaves links to nodes, and a father that is one.
LEMMA GrownBy ==
  ASSUME NEW t, Linked(t), NEW u, DOMAIN u = DOMAIN t, u = [k \in DOMAIN t |-> u[k]],
         \A k \in 1 .. Len(t) : u[k] \in Nodes(Len(t)) /\ (t[k].father # 0 => u[k].father # 0)
  PROVE  Grown(t, u) /\ Len(u) = Len(t)
<1>1. Len(t) \in Nat /\ DOMAIN t = 1 .. Len(t)
  BY LinkedLen
<1>2. Linked(u) /\ Len(u) = Len(t)
  BY <1>1, LinkedBy
<1> QED BY <1>1, <1>2 DEF Grown

LEMMA AppendGrown ==
  ASSUME NEW t, Linked(t), NEW op \in Ops, NEW n \in Nat
  PROVE  LET u == Append(t, NewNode(op, n))
         IN  Grown(t, u) /\ Len(u) = Len(t) + 1 /\ \A k \in 1 .. Len(t) : u[k] = t[k]
<1> DEFINE u == Append(t, NewNode(op, n))
           m == Len(t) + 1
<1>1. Len(t) \in Nat /\ m \in Nat /\ 0 \in 0 .. m /\ 0 .. Len(t) \subseteq 0 .. m
  BY LinkedLen
<1>2. t \in Seq(Nodes(m))
  <2>1. Nodes(Len(t)) \subseteq Nodes(m)
    BY <1>1 DEF Nodes
  <2> QED BY <2>1 DEF Linked
<1>3. NewNode(op, n) \in Nodes(m)
  BY <1>1 DEF NewNode, Nodes
<1>4. u \in Seq(Nodes(m)) /\ Len(u) = m /\ \A k \in 1 .. Len(t) : u[k] = t[k]
  <2> HIDE DEF m
  <2> DEFINE x == NewNode(op, n)
  <2> HIDE DEF x
  <2>1. x \in Nodes(m)
    BY <1>3 DEF x
  <2>2. Append(t, x) \in Seq(Nodes(m)) /\ Len(Append(t, x)) = Len(t) + 1
        /\ \A k \in 1 .. Len(t) : Append(t, x)[k] = t[k]
    BY <1>2, <2>1
  <2> QED BY <2>2 DEF x, m
<1>5. Linked(u)
  BY <1>4 DEF Linked
<1> QED BY <1>1, <1>4, <1>5 DEF Grown

\* One link of one node is changed.
LEMMA FatherGrown ==
  ASSUME NEW t, Linked(t), NEW k \in 1 .. Len(t), NEW f \in 1 .. Len(t)
  PROVE  LET u == [t EXCEPT ![k].father = f] IN Grown(t, u) /\ Len(u) = Len(t) /\ u[k].father = f
<1> DEFINE u == [t EXCEPT ![k].father = f]
<1>1. DOMAIN t = 1 .. Len(t) /\ DOMAIN u = DOMAIN t /\ u = [i \in DOMAIN t |-> u[i]]
  BY LinkedLen
<1>2. \A i \in 1 .. Len(t) : t[i] \in Nodes(Len(t))
  BY LinkedNode
<1>3. \A i \in 1 .. Len(t) : u[i] \in Nodes(Len(t)) /\ (t[i].father # 0 => u[i].father # 0)
  <2>1. Len(t) \in Nat /\ f \in 0 .. Len(t) /\ f # 0
    BY LinkedLen
  <2> QED BY <1>1, <1>2, <2>1 DEF Nodes
<1>4. u[k].father = f
  BY <1>1, <1>2 DEF Nodes
<1> HIDE DEF u
<1> QED BY <1>1, <1>3, <1>4, GrownBy DEF u

LEMMA LsonGrown ==
  ASSUME NEW t, Linked(t), NEW k \in 1 .. Len(t), NEW f \in 0 .. Len(t)
  PROVE  LET u == [t EXCEPT ![k].lson = f]
         IN  Grown(t, u) /\ Len(u) = Len(t) /\ \A i \in 1 .. Len(t) : u[i].father = t[i].father
<1> DEFINE u == [t EXCEPT ![k].lson = f]
<1>1. DOMAIN t = 1 .. Len(t) /\ DOMAIN u = DOMAIN t /\ u = [i \in DOMAIN t |-> u[i]]
  BY LinkedLen
<1>2. \A i \in 1 .. Len(t) : t[i] \in Nodes(Len(t))
  BY LinkedNode
<1>3. \A i \in 1 .. Len(t) : u[i] \in Nodes(Len(t)) /\ u[i].father = t[i].father
  BY <1>1, <1>2 DEF Nodes
<1> HIDE DEF u
<1> QED BY <1>1, <1>3, GrownBy DEF u

LEMMA RsibGrown ==
  ASSUME NEW t, Linked(t), NEW k, NEW f \in 0 .. Len(t)
  PROVE  LET u == [t EXCEPT ![k].rsib = f]
         IN  Grown(t, u) /\ Len(u) = Len(t) /\ \A i \in 1 .. Len(t) : u[i].father = t[i].father
<1> DEFINE u == [t EXCEPT ![k].rsib = f]
<1>1. DOMAIN t = 1 .. Len(t) /\ DOMAIN u = DOMAIN t /\ u = [i \in DOMAIN t |-> u[i]]
  BY LinkedLen
<1>2. \A i \in 1 .. Len(t) : t[i] \in Nodes(Len(t))
  BY LinkedNode
<1>3. \A i \in 1 .. Len(t) : u[i] \in Nodes(Len(t)) /\ u[i].father = t[i].father
  BY <1>1, <1>2 DEF Nodes
<1> HIDE DEF u
<1> QED BY <1>1, <1>3, GrownBy DEF u

LEMMA CountGrown ==
  ASSUME NEW t, Linked(t), NEW k \in 1 .. Len(t), NEW c \in Nat
  PROVE  LET u == [t EXCEPT ![k].n = c]
         IN  Grown(t, u) /\ Len(u) = Len(t) /\ \A i \in 1 .. Len(t) : u[i].father = t[i].father
<1> DEFINE u == [t EXCEPT ![k].n = c]
<1>1. DOMAIN t = 1 .. Len(t) /\ DOMAIN u = DOMAIN t /\ u = [i \in DOMAIN t |-> u[i]]
  BY LinkedLen
<1>2. \A i \in 1 .. Len(t) : t[i] \in Nodes(Len(t))
  BY LinkedNode
<1>3. \A i \in 1 .. Len(t) : u[i] \in Nodes(Len(t)) /\ u[i].father = t[i].father
  BY <1>1, <1>2 DEF Nodes
<1> HIDE DEF u
<1> QED BY <1>1, <1>3, GrownBy DEF u

LEMMA AddsonGrown ==
  ASSUME NEW t, Linked(t), NEW a \in 1 .. Len(t), NEW b \in 1 .. Len(t)
  PROVE  LET u == addson(t, a, b) IN Grown(t, u) /\ Len(u) = Len(t) /\ Hanging(u, b)
<1> DEFINE x == t[a].lson
           t1 == [t EXCEPT ![b].father = a]
           t2 == [t1 EXCEPT ![b].rsib = x]
           t3 == [t2 EXCEPT ![a].lson = b]
           c == t[a].n + 1
           t4 == [t3 EXCEPT ![a].n = c]
<1>1. addson(t, a, b) = t4
  BY DEF addson
<1>2. Len(t) \in Nat /\ x \in 0 .. Len(t) /\ c \in Nat
  BY LinkedNode
<1> HIDE DEF x, c
<1>3. Grown(t, t1) /\ Len(t1) = Len(t) /\ t1[b].father = a
  BY FatherGrown
<1> HIDE DEF t1
<1>4. Grown(t1, t2) /\ Len(t2) = Len(t) /\ t2[b].father = a
  BY <1>2, <1>3, RsibGrown DEF Grown
<1> HIDE DEF t2
<1>5. Grown(t2, t3) /\ Len(t3) = Len(t) /\ t3[b].father = a
  <2>1. Linked(t2) /\ b \in 0 .. Len(t2) /\ a \in 1 .. Len(t2) /\ b \in 1 .. Len(t2)
    BY <1>2, <1>4 DEF Grown
  <2> QED BY <2>1, <1>4, LsonGrown
<1> HIDE DEF t3
<1>6. Grown(t3, t4) /\ Len(t4) = Len(t) /\ t4[b].father = a
  BY <1>2, <1>5, CountGrown DEF Grown
<1> HIDE DEF t4
<1>7. Grown(t, t4)
  <2>1. Linked(t1) /\ Linked(t2) /\ Linked(t3)
    BY <1>3, <1>4, <1>5 DEF Grown
  <2>2. Grown(t, t2) /\ Grown(t2, t4)
    BY <2>1, <1>3, <1>4, <1>5, <1>6, GrownTrans
  <2> QED BY <2>1, <2>2, GrownTrans
<1> QED BY <1>1, <1>2, <1>6, <1>7 DEF Hanging

LEMMA AddsibGrown ==
  ASSUME NEW t, Linked(t), NEW a, Hanging(t, a), NEW b \in 1 .. Len(t)
  PROVE  LET u == addsib(t, a, b) IN Grown(t, u) /\ Len(u) = Len(t) /\ Hanging(u, b)
<1> DEFINE x == t[a].rsib
           f == t[a].father
           t1 == [t EXCEPT ![b].rsib = x]
           t2 == [t1 EXCEPT ![b].father = f]
           t3 == [t2 EXCEPT ![a].rsib = b]
           c == t[f].n + 1
           t4 == [t3 EXCEPT ![f].n = c]
<1>0. a \in 1 .. Len(t)
  BY DEF Hanging
<1>1. addsib(t, a, b) = t4
  BY DEF addsib
<1>2. Len(t) \in Nat /\ x \in 0 .. Len(t) /\ f \in 1 .. Len(t)
  BY <1>0, LinkedNode DEF Hanging
<1>8. c \in Nat
  BY <1>2, LinkedNode
<1> HIDE DEF x, f, c
<1>3. Grown(t, t1) /\ Len(t1) = Len(t)
  BY <1>2, RsibGrown
<1> HIDE DEF t1
<1>4. Grown(t1, t2) /\ Len(t2) = Len(t) /\ t2[b].father = f
  BY <1>2, <1>3, FatherGrown DEF Grown
<1> HIDE DEF t2
<1>5. Grown(t2, t3) /\ Len(t3) = Len(t) /\ t3[b].father = f
  <2>1. Linked(t2) /\ b \in 0 .. Len(t2) /\ a \in 1 .. Len(t2) /\ b \in 1 .. Len(t2)
    BY <1>0, <1>2, <1>4 DEF Grown
  <2> QED BY <2>1, <1>4, RsibGrown
<1> HIDE DEF t3
<1>6. Grown(t3, t4) /\ Len(t4) = Len(t) /\ t4[b].father = f
  BY <1>2, <1>5, <1>8, CountGrown DEF Grown
<1> HIDE DEF t4
<1>7. Grown(t, t4)
  <2>1. Linked(t1) /\ Linked(t2) /\ Linked(t3)
    BY <1>3, <1>4, <1>5 DEF Grown
  <2>2. Grown(t, t2) /\ Grown(t2, t4)
    BY <2>1, <1>3, <1>4, <1>5, <1>6, GrownTrans
  <2> QED BY <2>1, <2>2, GrownTrans
<1> QED BY <1>1, <1>2, <1>6, <1>7 DEF Hanging

LEMMA InsertGrown ==
  ASSUME NEW t, Linked(t), NEW a, Hanging(t, a), NEW b \in 1 .. Len(t)
  PROVE  LET u == insert(t, a, b) IN Grown(t, u) /\ Len(u) = Len(t) /\ Hanging(u, a)
<1> DEFINE y == CHOOSE k \in DOMAIN t : t[k].rsib = a
           f == t[a].father
           t1 == [t EXCEPT ![y].rsib = b]
           t2 == [t1 EXCEPT ![b].father = f]
           t3 == [t2 EXCEPT ![b].lson = a]
           c == t[b].n + 1
           t4 == [t3 EXCEPT ![b].n = c]
           t5 == [t4 EXCEPT ![a].father = b]
<1>0. a \in 1 .. Len(t)
  BY DEF Hanging
<1>1. insert(t, a, b) = t5
  BY DEF insert
<1>2. Len(t) \in Nat /\ f \in 1 .. Len(t) /\ c \in Nat
  BY <1>0, LinkedNode DEF Hanging
<1> HIDE DEF f, y, c
<1>3. Grown(t, t1) /\ Len(t1) = Len(t)
  <2>1. b \in 0 .. Len(t)
    BY <1>2
  <2> QED BY <2>1, RsibGrown
<1> HIDE DEF t1
<1>4. Grown(t1, t2) /\ Len(t2) = Len(t)
  BY <1>2, <1>3, FatherGrown DEF Grown
<1> HIDE DEF t2
<1>5. Grown(t2, t3) /\ Len(t3) = Len(t)
  <2>1. Linked(t2) /\ b \in 1 .. Len(t2) /\ a \in 0 .. Len(t2)
    BY <1>0, <1>2, <1>4 DEF Grown
  <2> QED BY <2>1, <1>4, LsonGrown
<1> HIDE DEF t3
<1>6. Grown(t3, t4) /\ Len(t4) = Len(t)
  BY <1>2, <1>5, CountGrown DEF Grown
<1> HIDE DEF t4
<1>7. Grown(t4, t5) /\ Len(t5) = Len(t) /\ t5[a].father = b
  BY <1>0, <1>6, FatherGrown DEF Grown
<1> HIDE DEF t5
<1>8. Grown(t, t5)
  <2>1. Linked(t1) /\ Linked(t2) /\ Linked(t3) /\ Linked(t4)
    BY <1>3, <1>4, <1>5, <1>6 DEF Grown
  <2>2. Grown(t, t2) /\ Grown(t2, t4)
    BY <2>1, <1>3, <1>4, <1>5, <1>6, GrownTrans
  <2>3. Grown(t, t4)
    BY <2>1, <2>2, GrownTrans
  <2> QED BY <2>1, <2>3, <1>7, GrownTrans
<1> QED BY <1>0, <1>1, <1>2, <1>7, <1>8 DEF Hanging

LEMMA RenameGrown ==
  ASSUME NEW t, Linked(t), NEW k \in 1 .. Len(t), NEW op \in Ops
  PROVE  LET u == [t EXCEPT ![k].op = op] IN Grown(t, u) /\ Len(u) = Len(t)
<1> DEFINE u == [t EXCEPT ![k].op = op]
<1>1. DOMAIN t = 1 .. Len(t) /\ DOMAIN u = DOMAIN t /\ u = [i \in DOMAIN t |-> u[i]]
  BY LinkedLen
<1>2. \A i \in 1 .. Len(t) : t[i] \in Nodes(Len(t))
  BY LinkedNode
<1>3. \A i \in 1 .. Len(t) : u[i] \in Nodes(Len(t)) /\ (t[i].father # 0 => u[i].father # 0)
  BY <1>1, <1>2 DEF Nodes
<1> HIDE DEF u
<1> QED BY <1>1, <1>3, GrownBy DEF u

(* A set of numbers up to n has a greatest and a least one.                *)
LEMMA Greatest ==
  ASSUME NEW n \in Nat, NEW S \in SUBSET (0 .. n), S # {}
  PROVE  Max(S) \in S /\ \A y \in S : y <= Max(S)
<1> DEFINE Rest == {d \in 0 .. n : n - d \in S}
<1>1. PICK x \in S : TRUE
  OBVIOUS
<1>2. n - x \in Rest
  <2>1. x \in 0 .. n /\ n - (n - x) = x
    OBVIOUS
  <2> QED BY <2>1
<1>3. PICK d \in Rest : \A m \in Rest : d <= m
  <2>1. Rest \in SUBSET Nat
    OBVIOUS
  <2> HIDE DEF Rest
  <2>2. Rest # {}
    BY <1>2
  <2> QED BY <2>1, <2>2, NatLeast
<1>4. ASSUME NEW y \in S PROVE y <= n - d
  <2>1. y \in 0 .. n /\ n - (n - y) = y
    OBVIOUS
  <2>2. n - y \in Rest
    BY <2>1
  <2>3. d <= n - y /\ d \in 0 .. n
    BY <1>3, <2>2
  <2> QED BY <2>1, <2>3
<1>5. n - d \in S /\ \A y \in S : n - d >= y
  BY <1>4
<1>6. Max(S) \in S /\ \A y \in S : Max(S) >= y
  BY <1>5, Zenon DEF Max
<1> QED BY <1>6

LEMMA Least ==
  ASSUME NEW n \in Nat, NEW S \in SUBSET (0 .. n), S # {}
  PROVE  Min(S) \in S /\ \A y \in S : Min(S) <= y
<1>1. S \in SUBSET Nat
  OBVIOUS
<1>2. \E x \in S : \A y \in S : x =< y
  BY <1>1, NatLeast
<1> QED BY <1>2, Zenon DEF Min

(* A walk from k on: what it visits are nodes, each the next of the one    *)
(* before, and it does not stop at k where k has a next.                   *)
Walked(next, w, k, n) ==
    /\ w \in Seq(1 .. n) /\ Len(w) >= 1 /\ w[1] = k
    /\ \A i \in 1 .. Len(w) - 1 : next[w[i]] = w[i + 1]
    /\ next[k] # 0 => Len(w) >= 2

LEMMA WalkRight ==
  ASSUME NEW n \in Nat, NEW next \in [1 .. n -> 0 .. n], NEW k \in 1 .. n
  PROVE  Walked(next, Walk(next, k), k, n)
<1> DEFINE on(m) == IF m = 0 THEN 0 ELSE next[m]
           step == [i \in 1 .. n |-> [m \in 0 .. n |-> on(m)]]
           node == CHOOSE f : f = [i \in 0 .. Len(next) |-> IF i = 0 THEN k ELSE on(f[i - 1])]
           S == {i \in 0 .. Len(next) : i = 0 \/ node[i] # 0}
           steps == Max(S)
<1>1. Len(next) = n
  OBVIOUS
<1>2. \A m \in 0 .. n : on(m) \in 0 .. n
  OBVIOUS
<1>3. Walk(next, k) = [i \in 1 .. steps + 1 |-> node[i - 1]]
  BY DEF Walk
<1>4. PICK f \in [0 .. n -> 0 .. n] : f[0] = k /\ \A i \in 1 .. n : f[i] = step[i][f[i - 1]]
  <2>1. step \in [1 .. n -> [0 .. n -> 0 .. n]] /\ k \in 0 .. n
    BY <1>2
  <2> DEFINE Dom == 0 .. n
             N == n
             base == k
  <2>2. base \in Dom /\ N \in Nat /\ step \in [1 .. N -> [Dom -> Dom]]
    BY <2>1
  <2> HIDE DEF step, on, Dom, N, base, node, S, steps
  <2>3. Recurs(Dom, base, N, step)
    BY <2>2, Recursion
  <2> QED BY <2>3 DEF Recurs, Dom, N, base
<1>5. \A i \in 1 .. n : f[i - 1] \in 0 .. n /\ f[i] = on(f[i - 1])
  <2> TAKE i \in 1 .. n
  <2>1. i - 1 \in 0 .. n
    OBVIOUS
  <2>2. f[i - 1] \in 0 .. n
    BY <2>1
  <2>3. step[i][f[i - 1]] = on(f[i - 1])
    BY <2>2
  <2> HIDE DEF step, on
  <2> QED BY <1>4, <2>2, <2>3
<1>6. \E g : g = [i \in 0 .. Len(next) |-> IF i = 0 THEN k ELSE on(g[i - 1])]
  <2> HIDE DEF on
  <2>1. \A i \in 0 .. n : f[i] = IF i = 0 THEN k ELSE on(f[i - 1])
    BY <1>4, <1>5
  <2>2. f = [i \in 0 .. n |-> IF i = 0 THEN k ELSE on(f[i - 1])]
    BY <2>1
  <2> QED BY <1>1, <2>2
<1>7. node = [i \in 0 .. n |-> IF i = 0 THEN k ELSE on(node[i - 1])]
  <2> HIDE DEF on
  <2> QED BY <1>1, <1>6, Zenon
<1> HIDE DEF node, steps, S
<1>8. node[0] = k /\ \A i \in 1 .. n : node[i] = on(node[i - 1])
  <2> DEFINE g == [i \in 0 .. n |-> IF i = 0 THEN k ELSE on(node[i - 1])]
  <2> HIDE DEF on
  <2>1. g[0] = k /\ \A i \in 1 .. n : g[i] = on(node[i - 1])
    OBVIOUS
  <2>2. node = g
    BY <1>7
  <2> HIDE DEF g
  <2> QED BY <2>1, <2>2
<1>20. node[0] = k /\ k # 0 /\ k \in 0 .. n
  BY <1>8
<1>9. \A i \in 0 .. n : node[i] \in 0 .. n
  <2> DEFINE X == {i \in 0 .. n : node[i] \in 0 .. n}
  <2>1. 0 \in X
    <3>1. 0 \in 0 .. n /\ node[0] \in 0 .. n
      BY <1>20
    <3> QED BY <3>1
  <2>2. ASSUME NEW i \in 1 .. n, i - 1 \in X PROVE i \in X
    <3>1. node[i] = on(node[i - 1]) /\ node[i - 1] \in 0 .. n
      BY <1>8, <2>2
    <3> HIDE DEF on
    <3>2. node[i] \in 0 .. n
      BY <1>2, <3>1
    <3> QED BY <3>2
  <2> HIDE DEF X
  <2>3. 0 .. n \subseteq X
    BY <2>1, <2>2, Counting
  <2> QED BY <2>3 DEF X
<1>10. 0 \in S /\ S \in SUBSET (0 .. n) /\ S = {i \in 0 .. n : i = 0 \/ node[i] # 0}
  BY <1>1 DEF S
<1>11. steps \in S /\ \A y \in S : y <= steps
  BY <1>10, Greatest DEF steps
<1>12. steps \in 0 .. n
  BY <1>10, <1>11
<1>13. ASSUME NEW j \in 0 .. steps PROVE node[j] # 0
  <2> SUFFICES ASSUME node[j] = 0 PROVE FALSE
    OBVIOUS
  <2> DEFINE X == {d \in 0 .. steps - j : node[j + d] = 0}
  <2>1. 0 \in X
    BY <1>12
  <2>2. ASSUME NEW d \in 1 .. steps - j, d - 1 \in X PROVE d \in X
    <3>1. j + d \in 1 .. n /\ (j + d) - 1 = j + (d - 1) /\ d \in 0 .. steps - j
      BY <1>12
    <3>2. node[j + (d - 1)] = 0
      BY <2>2
    <3>3. node[j + d] = 0
      BY <1>8, <3>1, <3>2
    <3> QED BY <3>1, <3>3
  <2>3. steps - j \in Nat
    BY <1>12
  <2> HIDE DEF X
  <2>4. 0 .. steps - j \subseteq X
    BY <2>1, <2>2, <2>3, Counting
  <2>5. node[j + (steps - j)] = 0
    BY <2>3, <2>4 DEF X
  <2>6. node[steps] = 0
    BY <1>12, <2>5
  <2> QED BY <1>20, <1>10, <1>11, <2>6
<1> DEFINE w == [i \in 1 .. steps + 1 |-> node[i - 1]]
<1>14. w \in Seq(1 .. n) /\ Len(w) = steps + 1
  <2>1. \A i \in 1 .. steps + 1 : i - 1 \in 0 .. steps /\ i - 1 \in 0 .. n
    BY <1>12
  <2>2. \A i \in 1 .. steps + 1 : node[i - 1] \in 1 .. n
    BY <1>9, <1>13, <2>1
  <2>3. w \in [1 .. steps + 1 -> 1 .. n] /\ steps + 1 \in Nat
    BY <1>12, <2>2
  <2> DEFINE m == steps + 1
  <2> HIDE DEF w, m
  <2>4. w \in [1 .. m -> 1 .. n] /\ m \in Nat
    BY <2>3 DEF m
  <2>5. w \in Seq(1 .. n) /\ Len(w) = m
    BY <2>4
  <2> QED BY <2>5 DEF m
<1>15. w[1] = k
  BY <1>20, <1>12
<1>16. ASSUME NEW i \in 1 .. steps PROVE next[w[i]] = w[i + 1]
  <2>1. i \in 1 .. steps + 1 /\ i + 1 \in 1 .. steps + 1 /\ (i + 1) - 1 = i /\ i \in 1 .. n /\ i - 1 \in 0 .. steps
    BY <1>12
  <2>2. w[i] = node[i - 1] /\ w[i + 1] = node[i] /\ node[i - 1] # 0
    BY <1>13, <2>1
  <2> QED BY <1>8, <2>1, <2>2
<1>17. next[k] # 0 => steps >= 1
  <2> SUFFICES ASSUME next[k] # 0 PROVE steps >= 1
    OBVIOUS
  <2>1. 1 \in 1 .. n /\ 1 - 1 = 0
    OBVIOUS
  <2>2. node[1] = on(node[0])
    BY <1>8, <2>1
  <2>3. node[1] = next[k]
    BY <1>20, <2>2
  <2>4. 1 \in S
    <3>1. 1 \in 0 .. n /\ node[1] # 0
      BY <2>1, <2>3
    <3> QED BY <1>10, <3>1
  <2> QED BY <1>11, <1>12, <2>4
<1>18. Len(w) - 1 = steps /\ Len(w) >= 1 /\ (next[k] # 0 => Len(w) >= 2)
  BY <1>12, <1>14, <1>17
<1> HIDE DEF w
<1>19. Walked(next, w, k, n)
  BY <1>14, <1>15, <1>16, <1>18 DEF Walked
<1> QED BY <1>3, <1>19 DEF w

(* The nodes above a node: each the father of the one before.              *)
LEMMA AboveRight ==
  ASSUME NEW t, Linked(t), NEW k \in 1 .. Len(t)
  PROVE  /\ Above(t, k) \in Seq(1 .. Len(t)) /\ Len(Above(t, k)) >= 1 /\ Above(t, k)[1] = k
         /\ \A i \in 1 .. Len(Above(t, k)) - 1 : t[Above(t, k)[i]].father = Above(t, k)[i + 1]
         /\ t[k].father # 0 => Len(Above(t, k)) >= 2
<1> DEFINE next == [m \in DOMAIN t |-> t[m].father]
           n == Len(t)
<1>1. n \in Nat /\ DOMAIN t = 1 .. n
  BY LinkedLen
<1>2. \A m \in 1 .. n : t[m].father \in 0 .. n
  BY LinkedNode
<1>3. next \in [1 .. n -> 0 .. n] /\ \A m \in 1 .. n : next[m] = t[m].father
  BY <1>1, <1>2
<1>4. Above(t, k) = Walk(next, k)
  BY DEF Above
<1> HIDE DEF next
<1>5. Walked(next, Above(t, k), k, n)
  BY <1>1, <1>3, <1>4, WalkRight
<1> DEFINE w == Above(t, k)
<1> HIDE DEF w
<1>6. w \in Seq(1 .. n) /\ Len(w) >= 1 /\ w[1] = k /\ (t[k].father # 0 => Len(w) >= 2)
      /\ \A i \in 1 .. Len(w) - 1 : next[w[i]] = w[i + 1]
  BY <1>3, <1>5 DEF Walked, w
<1>7. \A i \in 1 .. Len(w) - 1 : t[w[i]].father = w[i + 1]
  <2> TAKE i \in 1 .. Len(w) - 1
  <2>1. i \in 1 .. Len(w)
    BY <1>6
  <2>2. w[i] \in 1 .. n
    BY <1>6, <2>1
  <2> QED BY <1>3, <1>6, <2>2
<1> QED BY <1>6, <1>7 DEF w

LEMMA RootRight ==
  ASSUME NEW t, Linked(t), NEW k \in 1 .. Len(t)
  PROVE  Root(t, k) \in 1 .. Len(t)
<1> DEFINE w == Above(t, k)
<1>1. Len(t) \in Nat
  BY LinkedLen
<1>2. w \in Seq(1 .. Len(t)) /\ Len(w) >= 1
  BY AboveRight
<1> HIDE DEF w
<1>3. w[Len(w)] \in 1 .. Len(t)
  BY <1>2
<1>4. Root(t, k) = w[Len(w)]
  BY <1>1 DEF Root, Last, w
<1> QED BY <1>3, <1>4

(* What TREPUB publishes of a tree: one cell at least.                     *)
LEMMA FollowingRight ==
  ASSUME NEW t, Linked(t), NEW k \in 1 .. Len(t)
  PROVE  Following(t, k) \in 0 .. Len(t)
<1> DEFINE up == Above(t, k)
           brothers == {i \in DOMAIN up : t[up[i]].rsib # 0}
<1>1. Len(t) \in Nat /\ t[k].lson \in 0 .. Len(t)
  BY LinkedNode
<1>2. up \in Seq(1 .. Len(t))
  BY AboveRight
<1>3. brothers # {} => t[up[Min(brothers)]].rsib \in 0 .. Len(t)
  <2> SUFFICES ASSUME brothers # {} PROVE t[up[Min(brothers)]].rsib \in 0 .. Len(t)
    OBVIOUS
  <2>1. Len(up) \in Nat /\ DOMAIN up = 1 .. Len(up) /\ brothers \in SUBSET (0 .. Len(up))
    BY <1>2
  <2> HIDE DEF up
  <2>2. Min(brothers) \in brothers
    <3> HIDE DEF brothers
    <3> QED BY <2>1, Least
  <2>3. Min(brothers) \in DOMAIN up
    BY <2>2
  <2>4. up[Min(brothers)] \in 1 .. Len(t)
    BY <1>2, <2>1, <2>3
  <2> QED BY <2>4, LinkedNode
<1>4. Following(t, k) = IF t[k].lson # 0 THEN t[k].lson
                        ELSE IF brothers = {} THEN 0 ELSE t[up[Min(brothers)]].rsib
  BY DEF Following
<1> HIDE DEF up, brothers
<1> QED BY <1>1, <1>3, <1>4

LEMMA FlatRight ==
  ASSUME NEW t, Linked(t), NEW k \in 1 .. Len(t)
  PROVE  Flat(t, k) \in Seq(Cells) /\ Len(Flat(t, k)) >= 1
<1> DEFINE next == [m \in DOMAIN t |-> Following(t, m)]
           n == Len(t)
           w == Walk(next, k)
<1>1. n \in Nat /\ DOMAIN t = 1 .. n
  BY LinkedLen
<1>2. \A m \in 1 .. n : Following(t, m) \in 0 .. n
  BY FollowingRight
<1>3. next \in [1 .. n -> 0 .. n]
  BY <1>1, <1>2
<1>4. Flat(t, k) = [i \in DOMAIN w |-> Cell(t[w[i]].op, t[w[i]].n)]
  BY DEF Flat
<1> HIDE DEF next
<1>5. Walked(next, w, k, n)
  BY <1>1, <1>3, WalkRight
<1> HIDE DEF w
<1>6. w \in Seq(1 .. n) /\ Len(w) >= 1 /\ Len(w) \in Nat
  BY <1>5 DEF Walked
<1>7. \A i \in 1 .. Len(w) : Cell(t[w[i]].op, t[w[i]].n) \in Cells
  <2> TAKE i \in 1 .. Len(w)
  <2>1. w[i] \in 1 .. n
    BY <1>6
  <2>2. t[w[i]].op \in Ops /\ t[w[i]].n \in Nat
    BY <2>1, LinkedNode
  <2> QED BY <2>2 DEF Cell, Cells
<1>8. DOMAIN w = 1 .. Len(w)
  BY <1>6
<1>9. Flat(t, k) \in [1 .. Len(w) -> Cells]
  BY <1>4, <1>7, <1>8
<1> QED BY <1>6, <1>9

-----------------------------------------------------------------------------
(* The stack of callers: the statement's procedure is the first, and a     *)
(* caller of ELEMNT is above, and below, a caller of EXPR.                 *)
Goals == {"CMPUGO", "CMPSGO", "CMPFGO", "CMPILN"}
Statements == Goals \cup {"CMPAT1", "CMPAT2", "CMPFRM", "CMPASP"}
Inside == {"ELENST", "ELEMN7", "ELEMN2", "ELEAR1"}
Readers == {"CMPSUB", "EXPR", "EXPR1"}
First(p) == p \in Statements \/ p = "CMPSUB"
Known(p) == p \in Readers \/ p \in Inside \/ p \in Statements

LEMMA ProceduresAre ==
  /\ \A p \in {"EXPR", "EXPR1"} : p \in Readers /\ ~ First(p) /\ Known(p)
  /\ \A p \in Inside : ~ p \in Readers /\ ~ First(p) /\ Known(p)
  /\ \A p \in Statements : ~ p \in Readers /\ First(p) /\ Known(p)
  /\ "CMPSUB" \in Readers /\ First("CMPSUB") /\ Known("CMPSUB")
  /\ \A p \in Goals : p \in Statements
  /\ \A p : Known(p) /\ ~ p \in Readers => p \in Inside \/ p \in Statements
  /\ \A p : p \in Readers => p = "CMPSUB" \/ p \in {"EXPR", "EXPR1"}
BY DEF Goals, Statements, Inside, Readers, First, Known

Alternates(s) ==
    /\ \A i \in 1 .. Len(s) : Known(s[i].proc) /\ (First(s[i].proc) <=> i = 1)
    /\ \A i \in 1 .. Len(s) - 1 : s[i].proc \in Readers <=> ~ s[i + 1].proc \in Readers
\* The nodes that the callers keep.
HeldBy(t, f) ==
    /\ f.proc \in {"EXPR1", "ELEMN2", "ELEAR1"} => Hanging(t, f.node)
    /\ f.proc = "ELEMN7" => f.node # 0
Stack(t, s) ==
    /\ s \in Seq(Frames(Len(t))) /\ Alternates(s)
    /\ \A i \in 1 .. Len(s) : HeldBy(t, s[i])
\* The statement's procedure.
Bottom(s) == IF s = <<>> THEN "" ELSE s[1].proc

LEMMA StackGrown ==
  ASSUME NEW t, NEW u, Linked(t), Grown(t, u), NEW s, Stack(t, s)
  PROVE  Stack(u, s)
<1>1. Len(t) \in Nat /\ Len(u) \in Nat /\ Len(t) <= Len(u)
  BY LinkedLen DEF Grown
<1>2. s \in Seq(Frames(Len(u)))
  <2>1. 0 .. Len(t) \subseteq 0 .. Len(u)
    BY <1>1
  <2>2. Frames(Len(t)) \subseteq Frames(Len(u))
    BY <2>1 DEF Frames
  <2> QED BY <2>2 DEF Stack
<1>3. \A f : HeldBy(t, f) => HeldBy(u, f)
  BY GrownHanging DEF HeldBy
<1> QED BY <1>2, <1>3 DEF Stack

LEMMA StackEmpty ==
  ASSUME NEW t
  PROVE  Stack(t, <<>>) /\ Bottom(<<>>) = ""
BY DEF Stack, Alternates, Bottom

LEMMA StackTop ==
  ASSUME NEW t, NEW s, Stack(t, s), s # <<>>
  PROVE  /\ Last(s) \in Frames(Len(t)) /\ Known(Last(s).proc) /\ HeldBy(t, Last(s))
         /\ Last(s).node \in 0 .. Len(t) /\ Last(s).close \in Brackets
         /\ First(Last(s).proc) => Bottom(s) = Last(s).proc
<1>1. s \in Seq(Frames(Len(t))) /\ Len(s) \in 1 .. Len(s) /\ Len(s) \in Nat
  BY DEF Stack
<1>2. Last(s) = s[Len(s)] /\ s[Len(s)] \in Frames(Len(t))
  BY <1>1 DEF Last
<1>3. Known(s[Len(s)].proc) /\ HeldBy(t, s[Len(s)]) /\ (First(s[Len(s)].proc) => Len(s) = 1)
  BY <1>1 DEF Stack, Alternates
<1>4. First(Last(s).proc) => Bottom(s) = Last(s).proc
  BY <1>2, <1>3 DEF Bottom
<1>5. \A f \in Frames(Len(t)) : f.node \in 0 .. Len(t) /\ f.close \in Brackets
  BY DEF Frames
<1> QED BY <1>2, <1>3, <1>4, <1>5

LEMMA StackPush ==
  ASSUME NEW t, NEW s, Stack(t, s), NEW f \in Frames(Len(t)), HeldBy(t, f), Known(f.proc),
         IF s = <<>> THEN First(f.proc)
         ELSE ~ First(f.proc) /\ (Last(s).proc \in Readers <=> ~ f.proc \in Readers)
  PROVE  /\ Stack(t, Append(s, f)) /\ Append(s, f) # <<>> /\ Last(Append(s, f)) = f
         /\ s # <<>> => Bottom(Append(s, f)) = Bottom(s)
         /\ s = <<>> => Bottom(Append(s, f)) = f.proc
<1> DEFINE n == Len(s)
           u == Append(s, f)
<1>1. s \in Seq(Frames(Len(t))) /\ n \in Nat /\ (s = <<>> <=> n = 0)
  BY DEF Stack
<1>2. u \in Seq(Frames(Len(t))) /\ Len(u) = n + 1 /\ u # <<>> /\ u[n + 1] = f
      /\ \A i \in 1 .. n : u[i] = s[i]
  BY <1>1, AppendProperties
<1> HIDE DEF u
<1>3. Last(s) = s[n]
  BY DEF Last
<1> HIDE DEF n
<1>4. ASSUME NEW i \in 1 .. Len(u)
      PROVE  Known(u[i].proc) /\ (First(u[i].proc) <=> i = 1) /\ HeldBy(t, u[i])
  <2>1. CASE i \in 1 .. n
    BY <1>2, <2>1 DEF Stack, Alternates, n
  <2>2. CASE i = n + 1
    BY <1>1, <1>2, <2>2
  <2> QED BY <1>1, <1>2, <2>1, <2>2
<1>5. ASSUME NEW i \in 1 .. Len(u) - 1 PROVE u[i].proc \in Readers <=> ~ u[i + 1].proc \in Readers
  <2>1. CASE i \in 1 .. n - 1
    <3>1. i \in 1 .. n /\ i + 1 \in 1 .. n
      BY <1>1, <2>1
    <3> QED BY <1>2, <2>1, <3>1 DEF Stack, Alternates, n
  <2>2. CASE i = n
    <3>1. s # <<>> /\ n \in 1 .. n
      BY <1>1, <1>2, <2>2
    <3> QED BY <1>2, <1>3, <2>2, <3>1
  <2> QED BY <1>1, <1>2, <2>1, <2>2
<1>6. Stack(t, u)
  BY <1>2, <1>4, <1>5 DEF Stack, Alternates
<1>7. Last(u) = f /\ (s # <<>> => u[1] = s[1]) /\ (s = <<>> => u[1] = f)
  BY <1>1, <1>2 DEF Last
<1> QED BY <1>2, <1>6, <1>7 DEF Bottom, u

LEMMA StackPop ==
  ASSUME NEW t, NEW s, Stack(t, s), s # <<>>
  PROVE  /\ Stack(t, Front(s))
         /\ First(Last(s).proc) => Front(s) = <<>>
         /\ ~ First(Last(s).proc) => /\ Front(s) # <<>> /\ Bottom(Front(s)) = Bottom(s)
                                     /\ Last(Front(s)).proc \in Readers <=> ~ Last(s).proc \in Readers
<1> DEFINE n == Len(s)
           u == Front(s)
<1>1. s \in Seq(Frames(Len(t))) /\ n \in Nat /\ n >= 1
  BY DEF Stack
<1>2. u \in Seq(Frames(Len(t))) /\ Len(u) = n - 1 /\ \A i \in 1 .. n - 1 : u[i] = s[i]
  <2> HIDE DEF n
  <2>1. u = SubSeq(s, 1, n - 1)
    BY DEF Front, n
  <2>2. 1 \in 1 .. Len(s) + 1 /\ n - 1 \in 1 - 1 .. Len(s)
    BY <1>1 DEF n
  <2>3. SubSeq(s, 1, n - 1) \in Seq(Frames(Len(t))) /\ Len(SubSeq(s, 1, n - 1)) = n - 1
        /\ \A i \in 1 .. n - 1 : SubSeq(s, 1, n - 1)[i] = s[i]
    BY <1>1, <2>2
  <2> QED BY <2>1, <2>3
<1>3. Last(s) = s[n] /\ Last(u) = u[n - 1]
  BY <1>2 DEF Last
<1> HIDE DEF u
<1>4. Stack(t, u)
  <2>1. \A i \in 1 .. n - 1 : i \in 1 .. n
    BY <1>1
  <2>2. \A i \in 1 .. (n - 1) - 1 : i \in 1 .. n - 1 /\ i + 1 \in 1 .. n - 1
    BY <1>1
  <2> QED BY <1>2, <2>1, <2>2 DEF Stack, Alternates
<1>5. First(s[n].proc) <=> n = 1
  <2>1. n \in 1 .. n
    BY <1>1
  <2> QED BY <2>1 DEF Stack, Alternates
<1>6. n # 1 => s[n - 1].proc \in Readers <=> ~ s[n].proc \in Readers
  <2> SUFFICES ASSUME n # 1 PROVE s[n - 1].proc \in Readers <=> ~ s[n].proc \in Readers
    OBVIOUS
  <2> HIDE DEF n
  <2>1. n - 1 \in 1 .. n - 1 /\ (n - 1) + 1 = n
    BY <1>1
  <2> QED BY <2>1 DEF Stack, Alternates, n
<1>7. u = <<>> <=> n = 1
  BY <1>1, <1>2
<1>8. n # 1 => u[1] = s[1] /\ u[n - 1] = s[n - 1]
  BY <1>1, <1>2
<1> HIDE DEF n
<1>9. n # 1 => Bottom(u) = Bottom(s)
  BY <1>7, <1>8 DEF Bottom
<1> QED BY <1>3, <1>4, <1>5, <1>6, <1>7, <1>8, <1>9 DEF u

LEMMA FrameIn ==
  ASSUME NEW n \in Nat, NEW p \in Procedures, NEW node \in 0 .. n, NEW close \in Brackets
  PROVE  /\ Frame(p, node, close) \in Frames(n) /\ Frame(p, node, close).proc = p
         /\ Frame(p, node, close).node = node
BY DEF Frame, Frames

LEMMA BracketsAre == "" \in Brackets /\ ")" \in Brackets /\ ">" \in Brackets
BY Zenon DEF Brackets

LEMMA ExprFrame ==
  ASSUME NEW n \in Nat
  PROVE  Frame("EXPR", 0, "") \in Frames(n) /\ Frame("EXPR", 0, "").proc = "EXPR"
<1> DEFINE none == ""
<1>1. none \in Brackets
  BY BracketsAre, Zenon
<1> HIDE DEF none
<1>2. "EXPR" \in Procedures /\ 0 \in 0 .. n
  BY DEF Procedures
<1>3. Frame("EXPR", 0, none) \in Frames(n) /\ Frame("EXPR", 0, none).proc = "EXPR"
  BY <1>1, <1>2, FrameIn
<1> QED BY <1>3, Zenon DEF none

LEMMA AppendTwo ==
  ASSUME NEW S, NEW s \in Seq(S), NEW f \in S, NEW g \in S
  PROVE  s \o <<f, g>> = Append(Append(s, f), g)
OBVIOUS

LEMMA StackExpr ==
  ASSUME NEW t, Linked(t), NEW s, Stack(t, s), NEW p, NEW node \in 0 .. Len(t), NEW close \in Brackets,
         HeldBy(t, Frame(p, node, close)),
         s = <<>> => p \in Statements,
         s # <<>> => p \in Inside /\ Last(s).proc \in Readers
  PROVE  LET u == EXPR(s, p, node, close)
         IN  /\ Stack(t, u) /\ u # <<>> /\ Last(u).proc = "EXPR"
             /\ s # <<>> => Bottom(u) = Bottom(s)
             /\ s = <<>> => Bottom(u) = p
<1> DEFINE f == Frame(p, node, close)
           g == Frame("EXPR", 0, "")
           v == Append(s, f)
<1>0. Len(t) \in Nat /\ 0 \in 0 .. Len(t)
  BY LinkedLen
<1>1. f \in Frames(Len(t)) /\ f.proc = p
  <2>1. p \in Procedures
    BY DEF Statements, Inside, Goals, Procedures
  <2> HIDE DEF f
  <2> QED BY <1>0, <2>1, FrameIn DEF f
<1>2. g \in Frames(Len(t)) /\ g.proc = "EXPR"
  BY <1>0, ExprFrame, Zenon
<1> HIDE DEF g
<1>9. HeldBy(t, g)
  BY <1>2 DEF HeldBy
<1>3. s \in Seq(Frames(Len(t)))
  BY DEF Stack
<1>4. EXPR(s, p, node, close) = Append(v, g)
  <2> HIDE DEF f
  <2>1. s \o <<f, g>> = Append(Append(s, f), g)
    BY <1>1, <1>2, <1>3, AppendTwo
  <2> QED BY <2>1, Zenon DEF EXPR, f, g
<1> HIDE DEF f
<1>5. HeldBy(t, f) /\ Known(f.proc) /\ ~ f.proc \in Readers
      /\ (s = <<>> => First(f.proc)) /\ (s # <<>> => ~ First(f.proc) /\ Last(s).proc \in Readers)
  BY <1>1, ProceduresAre DEF f
<1>6. Stack(t, v) /\ v # <<>> /\ Last(v) = f /\ (s # <<>> => Bottom(v) = Bottom(s))
      /\ (s = <<>> => Bottom(v) = f.proc)
  BY <1>1, <1>5, StackPush
<1> HIDE DEF v
<1>7. Known(g.proc) /\ ~ First(g.proc) /\ g.proc \in Readers
  BY <1>2, ProceduresAre
<1>8. Stack(t, Append(v, g)) /\ Append(v, g) # <<>> /\ Last(Append(v, g)) = g
      /\ Bottom(Append(v, g)) = Bottom(v)
  BY <1>2, <1>5, <1>6, <1>7, <1>9, StackPush
<1> QED BY <1>1, <1>2, <1>4, <1>6, <1>8

-----------------------------------------------------------------------------
(* The invariant of what is read: where the compiler is, its callers and   *)
(* the nodes it keeps fit each other.                                      *)
Ready(td, s) ==
    /\ td = "element" => s # <<>> /\ Last(s).proc \in {"EXPR", "EXPR1"}
    /\ td \in {"unary", "tail"} => s # <<>> /\ Last(s).proc \in Readers
    /\ td \in {"binop", "value"} => s # <<>> /\ ~ Last(s).proc \in Readers
    /\ ~ td \in {"element", "unary", "tail", "binop", "value"} => s = <<>>
Reached(t, regs, td) ==
    /\ td \in {"tail", "value"} => regs.XPTR # 0
    /\ td = "binop" => regs.EXELND # 0 /\ (regs.EXPRND # 0 => Hanging(t, regs.EXPRND))
Parts(regs, td, p) ==
    /\ td = "subject" \/ p \in {"CMPFRM", "CMPAT2", "CMPASP"} => regs.SUBJND # 0
    /\ p = "CMPASP" => regs.PATND # 0
    /\ td = "failure" \/ p = "CMPILN" => regs.FGOND # 0
Good(t, regs, s, td, tx) ==
    /\ Linked(t) /\ regs \in Registers(Len(t)) /\ Stack(t, s) /\ td \in Points /\ tx \in Texts
    /\ Ready(td, s) /\ Reached(t, regs, td) /\ Parts(regs, td, Bottom(s))
TreeInv == Good(T, r, calls, todo, text)

LEMMA RegistersGrown ==
  ASSUME NEW m \in Nat, NEW n \in Nat, m <= n, NEW regs \in Registers(m)
  PROVE  regs \in Registers(n)
<1>1. 0 .. m \subseteq 0 .. n
  OBVIOUS
<1> QED BY <1>1 DEF Registers

LEMMA RegistersAre ==
  ASSUME NEW n \in Nat, NEW regs \in Registers(n)
  PROVE  /\ regs.EXPRND \in 0 .. n /\ regs.EXELND \in 0 .. n /\ regs.EXOPND \in 0 .. n
         /\ regs.ELEMND \in 0 .. n /\ regs.XPTR \in 0 .. n /\ regs.SUBJND \in 0 .. n
         /\ regs.PATND \in 0 .. n /\ regs.FGOND \in 0 .. n
BY DEF Registers

LEMMA KindsAre ==
  /\ "un" \in Kinds /\ "leaf" \in Kinds /\ "lit" \in Kinds /\ "(" \in Kinds /\ "f(" \in Kinds
  /\ "a<" \in Kinds /\ "<" \in Kinds /\ "op" \in Kinds
  /\ \A b \in Breaks : b \in Kinds
BY Zenon DEF Kinds

LEMMA OpsAre ==
  /\ "MNS" \in Ops /\ "x" \in Ops /\ "LIT" \in Ops /\ "lit" \in Ops /\ "null" \in Ops /\ "ITEM" \in Ops
  /\ "CMA" \in Ops /\ "ASGN" \in Ops /\ "SCAN" \in Ops /\ "SJSR" \in Ops
  /\ \A op \in Operators : op \in Ops
  /\ \A f \in Functions : f \in Ops
BY DEF Ops

LEMMA ReadsRight ==
  ASSUME text \in Texts, NEW kind \in Kinds, NEW v, v \in Ops \/ v = "", Reads(kind, v)
  PROVE  text' \in Texts
<1> DEFINE Tokens == Kinds \X (Ops \cup {""})
<1>1. v \in Ops \cup {""}
  BY Zenon
<1>2. <<kind, v>> \in Tokens
  BY <1>1, Zenon
<1>3. text \in Seq(Tokens) /\ text' = Append(text, <<kind, v>>)
  BY Zenon DEF Texts, Reads
<1> DEFINE x == <<kind, v>>
<1>4. x \in Tokens /\ text' = Append(text, x)
  BY <1>2, <1>3, Zenon
<1> HIDE DEF x, Tokens
<1>5. text' \in Seq(Tokens)
  BY ONLY <1>3, <1>4
<1> QED BY <1>5, Zenon DEF Tokens, Texts

\* The text's length is the place of the last token.
LEMMA TextLen ==
  ASSUME text \in Texts
  PROVE  Place \in Nat
<1> DEFINE Tokens == Kinds \X (Ops \cup {""})
<1>1. text \in Seq(Tokens)
  BY Zenon DEF Texts
<1> HIDE DEF Tokens
<1> QED BY <1>1 DEF Place

LEMMA ChainGrown ==
  ASSUME NEW t, Linked(t), NEW c \in 0 .. Len(t), NEW k \in 1 .. Len(t)
  PROVE  LET u == IF c = 0 THEN t ELSE addson(t, c, k) IN Grown(t, u) /\ Len(u) = Len(t)
<1>1. CASE c = 0
  BY <1>1, GrownSelf
<1>2. CASE c # 0
  <2>1. c \in 1 .. Len(t)
    BY <1>2, LinkedLen
  <2>2. Grown(t, addson(t, c, k)) /\ Len(addson(t, c, k)) = Len(t)
    BY <2>1, AddsonGrown
  <2> QED BY <1>2, <2>2
<1> QED BY <1>1, <1>2

\* What is read inside a statement leaves its other parts alone.
LEMMA StillGood ==
  ASSUME NEW t, NEW regs, NEW s, NEW td, NEW tx, Good(t, regs, s, td, tx),
         NEW u, Grown(t, u), NEW regs2 \in Registers(Len(u)), NEW s2, Stack(u, s2), NEW td2 \in Points,
         NEW tx2 \in Texts, Bottom(s2) = Bottom(s), Ready(td2, s2), Reached(u, regs2, td2),
         td2 # "subject", td2 # "failure",
         regs2.SUBJND = regs.SUBJND, regs2.PATND = regs.PATND, regs2.FGOND = regs.FGOND
  PROVE  Good(u, regs2, s2, td2, tx2)
BY DEF Good, Grown, Parts

LEMMA ElementReady ==
  ASSUME TreeInv, ReadsElement
  PROVE  calls # <<>> /\ Last(calls).proc \in Readers
BY ProceduresAre DEF TreeInv, Good, Ready, ReadsElement

\* ELEMN1 and ELEARG.
LEMMA AttachedGood ==
  ASSUME TreeInv, ReadsElement, NEW t, Grown(T, t), NEW k \in 1 .. Len(t), Attached(t, k),
         calls' = calls, text' \in Texts
  PROVE  TreeInv'
<1> DEFINE u == IF Chain = 0 THEN t ELSE addson(t, Chain, k)
           x == IF Chain = 0 THEN k ELSE Root(t, Chain)
<1>1. Linked(T) /\ Linked(t) /\ Len(T) \in Nat /\ Len(t) \in Nat /\ Len(T) <= Len(t)
      /\ r \in Registers(Len(T)) /\ Stack(T, calls)
  BY LinkedLen DEF TreeInv, Good, Grown
<1>2. r \in Registers(Len(t)) /\ r.ELEMND \in 0 .. Len(t)
  BY <1>1, RegistersGrown, RegistersAre
<1>3. Chain \in 0 .. Len(t)
  BY <1>1, <1>2 DEF Chain
<1>4. T' = u /\ r' = [r EXCEPT !.ELEMND = Chain, !.XPTR = x] /\ todo' = "tail"
  BY DEF Attached
<1>5. Grown(t, u) /\ Len(u) = Len(t)
  BY <1>1, <1>3, ChainGrown
<1>6. x \in 1 .. Len(t) /\ x \in 0 .. Len(t) /\ x # 0
  <2>1. CASE Chain = 0
    BY <1>1, <2>1
  <2>2. CASE Chain # 0
    <3>1. Chain \in 1 .. Len(t)
      BY <1>1, <1>3, <2>2
    <3>2. Root(t, Chain) \in 1 .. Len(t)
      BY <1>1, <3>1, RootRight
    <3> QED BY <1>1, <2>2, <3>2
  <2> QED BY <2>1, <2>2
<1> HIDE DEF u, x
<1>7. Grown(T, u)
  BY <1>1, <1>5, GrownTrans
<1>8. r' \in Registers(Len(u)) /\ r'.XPTR = x /\ r'.SUBJND = r.SUBJND /\ r'.PATND = r.PATND
      /\ r'.FGOND = r.FGOND
  BY <1>2, <1>3, <1>4, <1>5, <1>6 DEF Registers
<1>9. Stack(u, calls)
  BY <1>1, <1>7, StackGrown
<1>10. Ready("tail", calls) /\ Reached(u, r', "tail") /\ "tail" \in Points
  BY <1>6, <1>8, ElementReady DEF Ready, Reached, Points
<1>11. Good(u, r', calls, "tail", text')
  BY <1>7, <1>8, <1>9, <1>10, StillGood DEF TreeInv
<1> QED BY <1>4, <1>11 DEF TreeInv

LEMMA AppliedGood ==
  ASSUME TreeInv, NEW t, Grown(T, t), NEW op \in Ops, NEW chain \in 0 .. Len(t), NEW first \in 1 .. Len(t),
         NEW stack, Stack(t, stack), stack # <<>>, Last(stack).proc \in Readers, Bottom(stack) = Bottom(calls),
         NEW close \in Brackets, Applied(t, op, chain, first, stack, close), r' = r, text' \in Texts
  PROVE  TreeInv'
<1> DEFINE k == Len(t) + 1
           node == Append(t, NewNode(op, 0))
           linked == IF chain = 0 THEN node ELSE addson(node, chain, k)
           u == addson(linked, k, first)
           s == EXPR(stack, "ELEAR1", first, close)
<1>1. Linked(T) /\ Linked(t) /\ Len(T) \in Nat /\ Len(t) \in Nat /\ Len(T) <= Len(t) /\ r \in Registers(Len(T))
  BY LinkedLen DEF TreeInv, Good, Grown
<1>2. T' = u /\ calls' = s /\ todo' = "element"
  BY DEF Applied
<1>3. Grown(t, node) /\ Linked(node) /\ Len(node) = Len(t) + 1
  BY <1>1, AppendGrown DEF Grown
<1> HIDE DEF node
<1>4. chain \in 0 .. Len(node) /\ k \in 1 .. Len(node)
  BY <1>1, <1>3
<1>5. Grown(node, linked) /\ Linked(linked) /\ Len(linked) = Len(t) + 1
  BY <1>3, <1>4, ChainGrown DEF Grown
<1> HIDE DEF linked
<1>6. k \in 1 .. Len(linked) /\ first \in 1 .. Len(linked)
  BY <1>1, <1>5
<1> HIDE DEF k
<1>7. Grown(linked, u) /\ Len(u) = Len(t) + 1 /\ Hanging(u, first) /\ Linked(u)
  BY <1>5, <1>6, AddsonGrown DEF Grown
<1> HIDE DEF u
<1>8. Grown(t, u)
  <2>1. Grown(t, linked)
    BY <1>1, <1>3, <1>5, GrownTrans
  <2> QED BY <1>1, <1>7, <2>1, GrownTrans
<1>9. Grown(T, u)
  BY <1>1, <1>8, GrownTrans
<1>10. Stack(u, stack)
  BY <1>1, <1>8, StackGrown
<1>11. Stack(u, s) /\ s # <<>> /\ Last(s).proc = "EXPR" /\ Bottom(s) = Bottom(calls)
  <2>1. first \in 0 .. Len(u) /\ "ELEAR1" \in Inside /\ "ELEAR1" \in Procedures
    BY <1>1, <1>7 DEF Inside, Procedures
  <2>2. HeldBy(u, Frame("ELEAR1", first, close))
    <3> DEFINE f == Frame("ELEAR1", first, close)
    <3>1. f.proc = "ELEAR1" /\ f.node = first
      BY <1>7, <2>1, LinkedLen, FrameIn
    <3> HIDE DEF f
    <3>2. HeldBy(u, f)
      BY <1>7, <3>1 DEF HeldBy
    <3> QED BY <3>2 DEF f
  <2> QED BY <1>7, <1>10, <2>1, <2>2, StackExpr
<1> HIDE DEF s
<1>12. r \in Registers(Len(u))
  BY <1>1, <1>7, RegistersGrown
<1>13. Ready("element", s) /\ Reached(u, r, "element") /\ "element" \in Points
  BY <1>11 DEF Ready, Reached, Points
<1>14. Good(u, r, s, "element", text')
  BY <1>9, <1>11, <1>12, <1>13, StillGood DEF TreeInv
<1> QED BY <1>2, <1>14 DEF TreeInv

\* EXPR returns.
LEMMA ReturnedGood ==
  ASSUME TreeInv, NEW t, Grown(T, t), NEW k \in 1 .. Len(t),
         NEW stack, Stack(T, stack), stack # <<>>, ~ Last(stack).proc \in Readers, Bottom(stack) = Bottom(calls),
         NEW b \in Breaks, Returned(t, k, stack, b)
  PROVE  TreeInv'
<1> DEFINE x == Root(t, k)
<1>1. Linked(T) /\ Linked(t) /\ Len(T) \in Nat /\ Len(t) \in Nat /\ Len(T) <= Len(t)
      /\ r \in Registers(Len(T)) /\ text \in Texts
  BY LinkedLen DEF TreeInv, Good, Grown
<1>2. T' = t /\ calls' = stack /\ todo' = "value" /\ r' = [r EXCEPT !.XPTR = x, !.BRTYPE = b]
  BY Zenon DEF Returned
<1>3. text' \in Texts
  <2>1. CASE Nested(Last(stack))
    <3>1. Reads(b, "")
      BY <2>1, Zenon DEF Returned
    <3> QED BY <1>1, <3>1, KindsAre, ReadsRight, Zenon
  <2>2. CASE ~ Nested(Last(stack))
    <3>1. text' = text
      BY <2>2, Zenon DEF Returned
    <3> QED BY <1>1, <3>1
  <2> QED BY <2>1, <2>2
<1>4. x \in 0 .. Len(t) /\ x # 0
  BY <1>1, RootRight
<1> HIDE DEF x
<1>5. r \in Registers(Len(t))
  BY <1>1, RegistersGrown
<1>6. r' \in Registers(Len(t)) /\ r'.XPTR = x /\ r'.SUBJND = r.SUBJND /\ r'.PATND = r.PATND
      /\ r'.FGOND = r.FGOND
  BY <1>2, <1>4, <1>5 DEF Registers
<1>7. Stack(t, stack)
  BY <1>1, StackGrown
<1>8. Ready("value", stack) /\ Reached(t, r', "value") /\ "value" \in Points
  BY <1>4, <1>6 DEF Ready, Reached, Points
<1>9. Good(t, r', stack, "value", text')
  BY <1>3, <1>6, <1>7, <1>8, StillGood DEF TreeInv
<1> QED BY <1>2, <1>9 DEF TreeInv

LEMMA TreeFacts ==
  ASSUME TreeInv
  PROVE  /\ Linked(T) /\ Len(T) \in Nat /\ Grown(T, T) /\ r \in Registers(Len(T)) /\ Stack(T, calls)
         /\ text \in Texts /\ Place \in Nat /\ Next1 = Len(T) + 1
BY LinkedLen, GrownSelf, TextLen DEF TreeInv, Good, Next1

LEMMA AppendT ==
  ASSUME TreeInv, NEW op \in Ops, NEW n \in Nat
  PROVE  LET u == Append(T, NewNode(op, n))
         IN  Grown(T, u) /\ Linked(u) /\ Len(u) = Next1 /\ Next1 \in 1 .. Len(u) /\ Next1 # 0
<1>1. Linked(T) /\ Len(T) \in Nat /\ Next1 = Len(T) + 1
  BY TreeFacts
<1> DEFINE u == Append(T, NewNode(op, n))
<1>2. Grown(T, u) /\ Linked(u) /\ Len(u) = Len(T) + 1
  BY <1>1, AppendGrown DEF Grown
<1> HIDE DEF u
<1> QED BY <1>1, <1>2 DEF u

\* Two nodes, the first over the second.
LEMMA PairGrown ==
  ASSUME NEW t, Linked(t), NEW op \in Ops, NEW op2 \in Ops, NEW n2 \in Nat
  PROVE  LET u == addson(t \o <<NewNode(op, 0), NewNode(op2, n2)>>, Len(t) + 1, Len(t) + 2)
         IN  /\ Grown(t, u) /\ Len(u) = Len(t) + 2 /\ Len(t) + 1 \in 1 .. Len(u)
             /\ Len(t) + 2 \in 1 .. Len(u)
<1> DEFINE a == NewNode(op, 0)
           b == NewNode(op2, n2)
           v == Append(t, a)
           w == Append(v, b)
           u == addson(w, Len(t) + 1, Len(t) + 2)
<1>1. Len(t) \in Nat
  BY LinkedLen
<1>2. Grown(t, v) /\ Linked(v) /\ Len(v) = Len(t) + 1
  BY AppendGrown DEF Grown
<1>3. Grown(v, w) /\ Linked(w) /\ Len(w) = Len(t) + 2
  <2> HIDE DEF v
  <2>1. Grown(v, w) /\ Linked(w) /\ Len(w) = Len(v) + 1
    BY <1>2, AppendGrown DEF Grown
  <2> QED BY <1>1, <1>2, <2>1
<1>4. t \o <<a, b>> = w
  <2> DEFINE S == Nodes(Len(t)) \cup {a, b}
  <2>1. t \in Seq(S)
    BY DEF Linked
  <2>2. a \in S /\ b \in S
    OBVIOUS
  <2> HIDE DEF S, a, b
  <2> QED BY <2>1, <2>2, AppendTwo
<1> HIDE DEF v, w
<1>5. Len(t) + 1 \in 1 .. Len(w) /\ Len(t) + 2 \in 1 .. Len(w)
  BY <1>1, <1>3
<1>6. Grown(w, u) /\ Len(u) = Len(w)
  BY <1>3, <1>5, AddsonGrown
<1> HIDE DEF u
<1>7. Grown(t, w)
  BY <1>2, <1>3, GrownTrans
<1>8. Grown(t, u)
  BY <1>6, <1>7, GrownTrans
<1>9. u = addson(t \o <<NewNode(op, 0), NewNode(op2, n2)>>, Len(t) + 1, Len(t) + 2)
  BY <1>4 DEF u
<1> QED BY <1>3, <1>5, <1>6, <1>8, <1>9

LEMMA NullGrown ==
  ASSUME NEW t, Linked(t)
  PROVE  /\ Grown(t, Null(t)) /\ Linked(Null(t)) /\ Len(Null(t)) = Len(t) + 2
         /\ Len(t) + 1 \in 1 .. Len(Null(t))
<1>1. Null(t) = addson(t \o <<NewNode("LIT", 0), NewNode("null", 0)>>, Len(t) + 1, Len(t) + 2)
  BY DEF Null
<1>2. "LIT" \in Ops /\ "null" \in Ops /\ 0 \in Nat
  BY OpsAre
<1> QED BY <1>1, <1>2, PairGrown DEF Grown

-----------------------------------------------------------------------------
(* The steps that read.                                                    *)
LEMMA UNOPGood ==
  ASSUME TreeInv, UNOP("MNS")
  PROVE  TreeInv'
<1> DEFINE t == Append(T, NewNode("MNS", 0))
           u == IF Chain = 0 THEN t ELSE addson(t, Chain, Next1)
<1>1. ReadsElement /\ Reads("un", "MNS") /\ T' = u /\ r' = [r EXCEPT !.ELEMND = Next1]
      /\ todo' = "unary" /\ calls' = calls
  BY DEF UNOP
<1>2. text' \in Texts
  BY <1>1, TreeFacts, KindsAre, OpsAre, ReadsRight
<1>3. Linked(T) /\ Len(T) \in Nat /\ r \in Registers(Len(T)) /\ Stack(T, calls)
  BY TreeFacts
<1>4. Grown(T, t) /\ Linked(t) /\ Len(t) = Next1 /\ Next1 \in 1 .. Len(t) /\ Len(T) <= Len(t) /\ Len(t) \in Nat
  BY <1>3, OpsAre, AppendT, LinkedLen DEF Grown
<1> HIDE DEF t
<1>5. r \in Registers(Len(t)) /\ r.ELEMND \in 0 .. Len(t)
  BY <1>3, <1>4, RegistersGrown, RegistersAre
<1>6. Chain \in 0 .. Len(t)
  BY <1>4, <1>5 DEF Chain
<1>7. Grown(t, u) /\ Len(u) = Len(t)
  BY <1>4, <1>6, ChainGrown
<1> HIDE DEF u
<1>8. Grown(T, u)
  BY <1>3, <1>4, <1>7, GrownTrans
<1>9. r' \in Registers(Len(u)) /\ r'.SUBJND = r.SUBJND /\ r'.PATND = r.PATND /\ r'.FGOND = r.FGOND
  <2>1. Next1 \in 0 .. Len(t)
    BY <1>4
  <2> QED BY <1>1, <1>5, <1>7, <2>1 DEF Registers
<1>10. Stack(u, calls)
  BY <1>3, <1>8, StackGrown
<1>11. Ready("unary", calls) /\ Reached(u, r', "unary") /\ "unary" \in Points
  BY <1>1, ElementReady DEF Ready, Reached, Points
<1>12. Good(u, r', calls, "unary", text')
  BY <1>2, <1>8, <1>9, <1>10, <1>11, StillGood DEF TreeInv
<1> QED BY <1>1, <1>12 DEF TreeInv

LEMMA ELEVBLGood ==
  ASSUME TreeInv, ELEVBL
  PROVE  TreeInv'
<1> DEFINE t == Append(T, NewNode("x", Place))
<1>1. ReadsElement /\ Reads("leaf", "") /\ Attached(t, Next1) /\ calls' = calls
  BY Zenon DEF ELEVBL
<1>2. text' \in Texts
  BY <1>1, TreeFacts, KindsAre, ReadsRight, Zenon
<1>3. Grown(T, t) /\ Next1 \in 1 .. Len(t)
  BY TreeFacts, OpsAre, AppendT
<1> HIDE DEF t
<1> QED BY ONLY TreeInv, <1>1, <1>2, <1>3, AttachedGood

LEMMA ELEMN5Good ==
  ASSUME TreeInv, ELEMN5
  PROVE  TreeInv'
<1> DEFINE t == addson(T \o <<NewNode("LIT", 0), NewNode("lit", Place)>>, Len(T) + 1, Len(T) + 2)
<1>1. ReadsElement /\ Reads("lit", "") /\ calls' = calls
      /\ Attached(addson(T \o <<NewNode("LIT", 0), NewNode("lit", Place)>>, Next1, Next1 + 1), Next1)
  BY Zenon DEF ELEMN5
<1>2. text' \in Texts
  BY <1>1, TreeFacts, KindsAre, ReadsRight, Zenon
<1>3. Grown(T, t) /\ Next1 \in 1 .. Len(t)
  BY TreeFacts, OpsAre, PairGrown
<1>4. Next1 = Len(T) + 1 /\ Next1 + 1 = Len(T) + 2
  BY TreeFacts
<1>5. Attached(t, Next1)
  BY <1>1, <1>4, Zenon
<1> HIDE DEF t
<1>6. ReadsElement /\ calls' = calls
  BY <1>1
<1> QED BY ONLY TreeInv, <1>2, <1>3, <1>5, <1>6, AttachedGood

\* EXPR is called from inside an element.
LEMMA PushedGood ==
  ASSUME TreeInv, NEW t, Grown(T, t), NEW p \in Inside, NEW node \in 0 .. Len(t),
         p \in {"ELEMN2", "ELEAR1"} => Hanging(t, node), p = "ELEMN7" => node # 0,
         NEW stack, Stack(T, stack), stack # <<>>, Last(stack).proc \in Readers, Bottom(stack) = Bottom(calls),
         NEW close \in Brackets, T' = t, r' = r, calls' = EXPR(stack, p, node, close),
         todo' = "element", text' \in Texts
  PROVE  TreeInv'
<1> DEFINE s == EXPR(stack, p, node, close)
<1>1. Linked(T) /\ Linked(t) /\ Len(T) \in Nat /\ Len(t) \in Nat /\ Len(T) <= Len(t) /\ r \in Registers(Len(T))
  BY TreeFacts, LinkedLen DEF Grown
<1>2. r \in Registers(Len(t))
  BY <1>1, RegistersGrown
<1>3. Stack(t, stack)
  BY <1>1, StackGrown
<1>4. HeldBy(t, Frame(p, node, close))
  <2> DEFINE f == Frame(p, node, close)
  <2>1. p \in Procedures /\ p # "EXPR1"
    BY DEF Inside, Procedures
  <2>2. f.proc = p /\ f.node = node
    BY <1>1, <2>1, FrameIn
  <2> HIDE DEF f
  <2>3. HeldBy(t, f)
    BY <2>1, <2>2 DEF HeldBy
  <2> QED BY <2>3 DEF f
<1>6. Stack(t, s) /\ s # <<>> /\ Last(s).proc = "EXPR" /\ Bottom(s) = Bottom(calls)
  BY <1>1, <1>3, <1>4, StackExpr
<1> HIDE DEF s
<1>7. Ready("element", s) /\ Reached(t, r, "element") /\ "element" \in Points
  BY <1>6 DEF Ready, Reached, Points
<1>8. Good(t, r, s, "element", text')
  BY <1>2, <1>6, <1>7, StillGood DEF TreeInv
<1> QED BY <1>8 DEF TreeInv, s

LEMMA ELENSTGood ==
  ASSUME TreeInv, ELENST
  PROVE  TreeInv'
<1>1. ReadsElement /\ Reads("(", "") /\ calls' = EXPR(calls, "ELENST", Chain, ")") /\ todo' = "element"
      /\ T' = T /\ r' = r
  BY Zenon DEF ELENST
<1>2. text' \in Texts
  BY <1>1, TreeFacts, KindsAre, ReadsRight, Zenon
<1>3. Grown(T, T) /\ Chain \in 0 .. Len(T)
  BY TreeFacts, RegistersAre DEF Chain
<1> DEFINE close == ")"
<1>4. calls' = EXPR(calls, "ELENST", Chain, close) /\ close \in Brackets
  BY <1>1, BracketsAre, Zenon
<1> HIDE DEF close
<1>5. "ELENST" \in Inside /\ ~ "ELENST" \in {"ELEMN2", "ELEAR1"} /\ "ELENST" # "ELEMN7"
  BY DEF Inside
<1>6. todo' = "element" /\ T' = T /\ r' = r
  BY <1>1
<1>7. Stack(T, calls) /\ calls # <<>> /\ Last(calls).proc \in Readers /\ Bottom(calls) = Bottom(calls)
  BY <1>1, TreeFacts, ElementReady
<1> QED BY ONLY TreeInv, <1>2, <1>3, <1>4, <1>5, <1>6, <1>7, PushedGood

LEMMA ELEFNCGood ==
  ASSUME TreeInv, NEW f \in Functions, ELEFNC(f)
  PROVE  TreeInv'
<1> DEFINE t == Append(T, NewNode(f, 0))
           u == IF Chain = 0 THEN t ELSE addson(t, Chain, Next1)
           close == ")"
<1>1. ReadsElement /\ Reads("f(", f) /\ T' = u /\ calls' = EXPR(calls, "ELEMN7", Next1, close)
      /\ todo' = "element" /\ r' = r /\ close \in Brackets
  BY BracketsAre, Zenon DEF ELEFNC
<1> HIDE DEF close
<1>2. text' \in Texts
  BY <1>1, TreeFacts, KindsAre, OpsAre, ReadsRight, Zenon
<1>3. Linked(T) /\ Len(T) \in Nat /\ r \in Registers(Len(T))
  BY TreeFacts
<1>4. Grown(T, t) /\ Linked(t) /\ Len(t) = Next1 /\ Next1 \in 1 .. Len(t) /\ Next1 # 0 /\ Len(T) <= Len(t)
      /\ Len(t) \in Nat
  BY <1>3, OpsAre, AppendT, LinkedLen DEF Grown
<1> HIDE DEF t
<1>5. Chain \in 0 .. Len(t)
  BY <1>3, <1>4, RegistersGrown, RegistersAre DEF Chain
<1>6. Grown(t, u) /\ Len(u) = Len(t)
  BY <1>4, <1>5, ChainGrown
<1> HIDE DEF u
<1>7. Grown(T, u)
  BY <1>3, <1>4, <1>6, GrownTrans
<1>8. "ELEMN7" \in Inside /\ ~ "ELEMN7" \in {"ELEMN2", "ELEAR1"} /\ Next1 # 0 /\ Next1 \in 0 .. Len(u)
  BY <1>4, <1>6 DEF Inside
<1>10. Stack(T, calls) /\ calls # <<>> /\ Last(calls).proc \in Readers /\ Bottom(calls) = Bottom(calls)
  BY <1>1, TreeFacts, ElementReady
<1>9. calls' = EXPR(calls, "ELEMN7", Next1, close) /\ close \in Brackets
      /\ todo' = "element" /\ T' = u /\ r' = r
  BY <1>1
<1> QED BY ONLY TreeInv, <1>2, <1>7, <1>8, <1>9, <1>10, PushedGood

LEMMA ELEARYGood ==
  ASSUME TreeInv, ELEARY
  PROVE  TreeInv'
<1> DEFINE t == Append(T, NewNode("x", Place))
           close == ">"
<1>1. ReadsElement /\ Reads("a<", "") /\ Applied(t, "ITEM", Chain, Next1, calls, close) /\ r' = r
      /\ close \in Brackets
  BY BracketsAre, Zenon DEF ELEARY
<1> HIDE DEF close
<1>2. text' \in Texts
  BY <1>1, TreeFacts, KindsAre, ReadsRight, Zenon
<1>3. Linked(T) /\ Len(T) \in Nat /\ r \in Registers(Len(T)) /\ Stack(T, calls)
  BY TreeFacts
<1>4. Grown(T, t) /\ Linked(t) /\ Next1 \in 1 .. Len(t) /\ Len(T) <= Len(t) /\ Len(t) \in Nat
  BY <1>3, TreeFacts, OpsAre, AppendT, LinkedLen DEF Grown
<1> HIDE DEF t
<1>5. Chain \in 0 .. Len(t) /\ Stack(t, calls)
  BY <1>3, <1>4, RegistersGrown, RegistersAre, StackGrown DEF Chain
<1>6. calls # <<>> /\ Last(calls).proc \in Readers
  BY <1>1, ElementReady
<1>7. Applied(t, "ITEM", Chain, Next1, calls, close) /\ r' = r /\ close \in Brackets /\ "ITEM" \in Ops
  BY <1>1, OpsAre
<1>8. Bottom(calls) = Bottom(calls)
  OBVIOUS
<1> QED BY ONLY TreeInv, <1>2, <1>4, <1>5, <1>6, <1>7, <1>8, AppliedGood

LEMMA EmptyBottom ==
  \A p \in {"CMPFRM", "CMPAT2", "CMPASP", "CMPILN"} : Bottom(<<>>) # p
BY Zenon DEF Bottom

LEMMA ELEAR2Good ==
  ASSUME TreeInv, ELEAR2
  PROVE  TreeInv'
<1> DEFINE close == ">"
<1>1. todo = "tail" /\ Reads("<", "") /\ Applied(T, "ITEM", 0, r.XPTR, calls, close) /\ r' = r
      /\ close \in Brackets
  BY BracketsAre, Zenon DEF ELEAR2
<1> HIDE DEF close
<1>2. text' \in Texts
  BY <1>1, TreeFacts, KindsAre, ReadsRight, Zenon
<1>3. Grown(T, T) /\ Stack(T, calls) /\ r \in Registers(Len(T)) /\ Len(T) \in Nat /\ 0 \in 0 .. Len(T)
  BY TreeFacts
<1>4. r.XPTR \in 1 .. Len(T)
  <2>1. r.XPTR \in 0 .. Len(T) /\ r.XPTR # 0
    BY <1>1, <1>3, RegistersAre DEF TreeInv, Good, Reached
  <2> QED BY <1>3, <2>1
<1>5. calls # <<>> /\ Last(calls).proc \in Readers
  BY <1>1 DEF TreeInv, Good, Ready
<1>6. Applied(T, "ITEM", 0, r.XPTR, calls, close) /\ r' = r /\ close \in Brackets /\ "ITEM" \in Ops
      /\ Bottom(calls) = Bottom(calls)
  BY <1>1, OpsAre
<1> QED BY ONLY TreeInv, <1>2, <1>3, <1>4, <1>5, <1>6, AppliedGood

LEMMA ElementEndsGood ==
  ASSUME TreeInv, ElementEnds
  PROVE  TreeInv'
<1>1. todo = "tail" /\ calls' = Front(calls) /\ T' = T /\ text' = text
      /\ IF Top.proc = "CMPSUB"
         THEN r' = [r EXCEPT !.SUBJND = r.XPTR] /\ todo' = "subject"
         ELSE r' = [r EXCEPT !.EXPRND = Kept(Top), !.EXELND = r.XPTR] /\ todo' = "binop"
  BY DEF ElementEnds, Below
<1>2. Linked(T) /\ Len(T) \in Nat /\ Grown(T, T) /\ r \in Registers(Len(T)) /\ Stack(T, calls) /\ text \in Texts
  BY TreeFacts
<1>3. calls # <<>> /\ Last(calls).proc \in Readers /\ r.XPTR # 0 /\ r.XPTR \in 0 .. Len(T)
  BY <1>1, <1>2, RegistersAre DEF TreeInv, Good, Ready, Reached
<1>4. CASE Top.proc = "CMPSUB"
  <2>1. Front(calls) = <<>>
    BY <1>2, <1>3, <1>4, StackPop, ProceduresAre DEF Top
  <2>2. r' \in Registers(Len(T)) /\ r'.SUBJND = r.XPTR
    BY <1>1, <1>2, <1>3, <1>4 DEF Registers
  <2>3. Stack(T, <<>>)
    BY StackEmpty
  <2>4. Ready("subject", <<>>) /\ Reached(T, r', "subject") /\ "subject" \in Points
    BY DEF Ready, Reached, Points
  <2>5. Parts(r', "subject", Bottom(<<>>))
    <3> DEFINE p == Bottom(<<>>)
    <3>1. p # "CMPASP" /\ p # "CMPILN"
      BY EmptyBottom
    <3> HIDE DEF p
    <3>2. Parts(r', "subject", p)
      BY <1>3, <2>2, <3>1 DEF Parts
    <3> QED BY <3>2 DEF p
  <2>6. Good(T, r', <<>>, "subject", text)
    BY <1>2, <2>2, <2>3, <2>4, <2>5 DEF Good
  <2> QED BY <1>1, <1>4, <2>1, <2>6 DEF TreeInv
<1>5. CASE Top.proc # "CMPSUB"
  <2> DEFINE s == Front(calls)
             x == Kept(Top)
  <2>1. Top.proc \in {"EXPR", "EXPR1"} /\ ~ First(Top.proc)
    BY <1>3, <1>5, ProceduresAre DEF Top
  <2>2. Stack(T, s) /\ s # <<>> /\ Bottom(s) = Bottom(calls) /\ ~ Last(s).proc \in Readers
    BY <1>2, <1>3, <2>1, StackPop DEF Top
  <2> HIDE DEF s
  <2>3. x \in 0 .. Len(T) /\ (x # 0 => Hanging(T, x))
    <3>1. CASE Top.proc = "EXPR"
      BY <1>2, <3>1 DEF Kept
    <3>2. CASE Top.proc = "EXPR1"
      <4>1. HeldBy(T, Top) /\ Top.node \in 0 .. Len(T)
        BY <1>2, <1>3, StackTop DEF Top
      <4> QED BY <3>2, <4>1 DEF Kept, HeldBy
    <3> QED BY <2>1, <3>1, <3>2
  <2> HIDE DEF x
  <2>4. r' = [r EXCEPT !.EXPRND = x, !.EXELND = r.XPTR] /\ todo' = "binop"
    BY <1>1, <1>5 DEF x
  <2>5. r' \in Registers(Len(T)) /\ r'.EXPRND = x /\ r'.EXELND = r.XPTR /\ r'.SUBJND = r.SUBJND
        /\ r'.PATND = r.PATND /\ r'.FGOND = r.FGOND
    BY <1>2, <1>3, <2>3, <2>4 DEF Registers
  <2>6. Ready("binop", s) /\ Reached(T, r', "binop") /\ "binop" \in Points
    BY <1>3, <2>2, <2>3, <2>5 DEF Ready, Reached, Points
  <2>7. Good(T, r', s, "binop", text)
    BY <1>2, <2>2, <2>5, <2>6, StillGood DEF TreeInv
  <2> QED BY <1>1, <2>4, <2>7 DEF TreeInv, s
<1> QED BY <1>4, <1>5

\* The stack below the caller, and what it keeps.
LEMMA BelowFacts ==
  ASSUME TreeInv, calls # <<>>
  PROVE  /\ Stack(T, Below) /\ HeldBy(T, Top) /\ Top.node \in 0 .. Len(T) /\ Top.close \in Brackets
         /\ Top.proc \in Inside \cup {"EXPR", "EXPR1"} =>
              /\ Below # <<>> /\ Bottom(Below) = Bottom(calls)
              /\ Last(Below).proc \in Readers <=> ~ Top.proc \in Readers
<1>1. Stack(T, calls)
  BY TreeFacts
<1>2. Stack(T, Below) /\ HeldBy(T, Top) /\ Top.node \in 0 .. Len(T) /\ Top.close \in Brackets
  BY <1>1, StackTop, StackPop DEF Top, Below
<1>3. Top.proc \in Inside \cup {"EXPR", "EXPR1"} => ~ First(Top.proc)
  BY ProceduresAre
<1> QED BY <1>1, <1>2, <1>3, StackPop DEF Top, Below

LEMMA EXPNULGood ==
  ASSUME TreeInv, NEW b \in Breaks, EXPNUL(b)
  PROVE  TreeInv'
<1>1. todo = "element" /\ Top.proc = "EXPR" /\ Returned(Null(T), Next1, Below, b)
  BY Zenon DEF EXPNUL
<1>2. Linked(T) /\ Next1 = Len(T) + 1 /\ calls # <<>>
  BY <1>1, TreeFacts DEF TreeInv, Good, Ready
<1>3. Grown(T, Null(T)) /\ Next1 \in 1 .. Len(Null(T))
  BY <1>2, NullGrown
<1>4. Stack(T, Below) /\ Below # <<>> /\ Bottom(Below) = Bottom(calls) /\ ~ Last(Below).proc \in Readers
  BY <1>1, <1>2, BelowFacts, ProceduresAre
<1> QED BY <1>1, <1>3, <1>4, ReturnedGood

LEMMA EXPR12Good ==
  ASSUME TreeInv, NEW b \in Breaks, EXPR12(b)
  PROVE  TreeInv'
<1> DEFINE t == Null(T)
           u == IF Top.node = 0 THEN t ELSE addsib(t, Top.node, Next1)
<1>1. todo = "element" /\ Top.proc = "EXPR1" /\ Returned(u, Next1, Below, b)
  BY Zenon DEF EXPR12
<1>2. Linked(T) /\ Next1 = Len(T) + 1 /\ calls # <<>>
  BY <1>1, TreeFacts DEF TreeInv, Good, Ready
<1>3. Grown(T, t) /\ Linked(t) /\ Next1 \in 1 .. Len(t)
  BY <1>2, NullGrown
<1> HIDE DEF t
<1>4. Stack(T, Below) /\ Below # <<>> /\ Bottom(Below) = Bottom(calls) /\ ~ Last(Below).proc \in Readers
      /\ HeldBy(T, Top)
  BY <1>1, <1>2, BelowFacts, ProceduresAre
<1>5. Hanging(t, Top.node)
  BY <1>1, <1>2, <1>3, <1>4, GrownHanging DEF HeldBy
<1>6. Grown(t, addsib(t, Top.node, Next1)) /\ Len(addsib(t, Top.node, Next1)) = Len(t)
  BY <1>3, <1>5, AddsibGrown
<1>7. Grown(T, u) /\ Next1 \in 1 .. Len(u)
  BY <1>2, <1>3, <1>6, GrownTrans
<1> HIDE DEF u
<1> QED BY <1>1, <1>4, <1>7, ReturnedGood

LEMMA BinopFacts ==
  ASSUME TreeInv, todo = "binop"
  PROVE  /\ calls # <<>> /\ ~ Last(calls).proc \in Readers
         /\ r.EXELND \in 1 .. Len(T) /\ (r.EXPRND # 0 => Hanging(T, r.EXPRND))
<1>1. Len(T) \in Nat /\ r.EXELND \in 0 .. Len(T)
  BY TreeFacts, RegistersAre
<1>2. calls # <<>> /\ ~ Last(calls).proc \in Readers /\ r.EXELND # 0
      /\ (r.EXPRND # 0 => Hanging(T, r.EXPRND))
  BY DEF TreeInv, Good, Ready, Reached
<1> QED BY <1>1, <1>2

LEMMA EXPR7Good ==
  ASSUME TreeInv, NEW b \in Breaks, EXPR7(b)
  PROVE  TreeInv'
<1> DEFINE u == IF r.EXPRND = 0 THEN T ELSE addsib(T, r.EXPRND, r.EXELND)
<1>1. todo = "binop" /\ Returned(u, r.EXELND, calls, b)
  BY Zenon DEF EXPR7
<1>2. Linked(T) /\ Grown(T, T) /\ Stack(T, calls)
  BY TreeFacts
<1>3. calls # <<>> /\ ~ Last(calls).proc \in Readers /\ r.EXELND \in 1 .. Len(T)
      /\ (r.EXPRND # 0 => Hanging(T, r.EXPRND))
  BY <1>1, BinopFacts
<1>4. Grown(T, u) /\ r.EXELND \in 1 .. Len(u)
  <2>1. CASE r.EXPRND = 0
    BY <1>2, <1>3, <2>1
  <2>2. CASE r.EXPRND # 0
    <3>1. Grown(T, addsib(T, r.EXPRND, r.EXELND)) /\ Len(addsib(T, r.EXPRND, r.EXELND)) = Len(T)
      BY <1>2, <1>3, <2>2, AddsibGrown
    <3> QED BY <1>3, <2>2, <3>1
  <2> QED BY <2>1, <2>2
<1> HIDE DEF u
<1>5. Bottom(calls) = Bottom(calls)
  OBVIOUS
<1> QED BY ONLY TreeInv, b \in Breaks, <1>1, <1>2, <1>3, <1>4, <1>5, ReturnedGood

\* The next element is read, with the node k kept for a brother.
LEMMA EXPR1Good ==
  ASSUME TreeInv, NEW t, Grown(T, t), NEW k, Hanging(t, k), NEW op \in 0 .. Len(t),
         NEW stack, Stack(t, stack), stack # <<>>, ~ Last(stack).proc \in Readers,
         Parts(r, "element", Bottom(stack)), T' = t, EXPR1(stack, k, op), text' \in Texts
  PROVE  TreeInv'
<1> DEFINE f == Frame("EXPR1", k, "")
           s == Append(stack, f)
<1>1. Linked(T) /\ Linked(t) /\ Len(T) \in Nat /\ Len(t) \in Nat /\ Len(T) <= Len(t) /\ r \in Registers(Len(T))
  BY TreeFacts, LinkedLen DEF Grown
<1>2. r' = [r EXCEPT !.EXPRND = k, !.EXOPND = op] /\ calls' = s /\ todo' = "element"
  BY Zenon DEF EXPR1
<1>3. k \in 0 .. Len(t)
  BY <1>1 DEF Hanging
<1>4. f \in Frames(Len(t)) /\ f.proc = "EXPR1" /\ f.node = k
  <2> DEFINE none == ""
  <2>1. none \in Brackets /\ f = Frame("EXPR1", k, none)
    BY BracketsAre, Zenon
  <2> HIDE DEF none, f
  <2>2. "EXPR1" \in Procedures
    BY DEF Procedures
  <2> QED BY <1>1, <1>3, <2>1, <2>2, FrameIn
<1> HIDE DEF f
<1>5. HeldBy(t, f) /\ Known(f.proc) /\ ~ First(f.proc) /\ f.proc \in Readers
  BY <1>4, ProceduresAre DEF HeldBy
<1>6. Stack(t, s) /\ s # <<>> /\ Last(s) = f /\ Bottom(s) = Bottom(stack)
  BY <1>4, <1>5, StackPush
<1> HIDE DEF s
<1>7. r \in Registers(Len(t))
  BY <1>1, RegistersGrown
<1>8. r' \in Registers(Len(t)) /\ r'.SUBJND = r.SUBJND /\ r'.PATND = r.PATND /\ r'.FGOND = r.FGOND
  BY <1>2, <1>3, <1>7 DEF Registers
<1>9. Ready("element", s) /\ Reached(t, r', "element") /\ "element" \in Points
  BY <1>4, <1>6 DEF Ready, Reached, Points
<1>10. Parts(r', "element", Bottom(s))
  BY <1>6, <1>8 DEF Parts
<1>11. Good(t, r', s, "element", text')
  BY <1>1, <1>6, <1>8, <1>9, <1>10 DEF Good
<1> QED BY <1>2, <1>11 DEF TreeInv

LEMMA PartsHere ==
  ASSUME TreeInv, todo # "subject", todo # "failure"
  PROVE  Parts(r, "element", Bottom(calls))
BY DEF TreeInv, Good, Parts

LEMMA TailIs ==
  ASSUME NEW S, NEW s \in Seq(S), Len(s) >= 1
  PROVE  Tail(s) \in Seq(S) /\ Len(Tail(s)) = Len(s) - 1 /\ \A i \in 1 .. Len(s) - 1 : Tail(s)[i] = s[i + 1]
<1>1. s # <<>>
  OBVIOUS
<1> QED BY <1>1

\* The operators above the last operand: nodes, each below the next.
LEMMA PendingFacts ==
  ASSUME TreeInv, todo = "binop", r.EXPRND # 0
  PROVE  /\ Pending \in Seq(1 .. Len(T)) /\ Len(Pending) \in Nat /\ Len(Pending) >= 1
         /\ \A i \in 1 .. Len(Pending) - 1 : Hanging(T, Pending[i])
<1> DEFINE up == Above(T, r.EXPRND)
           n == Len(T)
<1>1. Linked(T) /\ n \in Nat /\ r.EXPRND \in 1 .. n /\ T[r.EXPRND].father # 0
  BY TreeFacts, BinopFacts DEF Hanging
<1>2. up \in Seq(1 .. n) /\ Len(up) >= 2 /\ \A i \in 1 .. Len(up) - 1 : T[up[i]].father = up[i + 1]
  BY <1>1, AboveRight
<1>3. Pending = Tail(up)
  BY DEF Pending
<1> HIDE DEF up, n
<1>4. Len(up) \in Nat /\ Len(up) >= 1
  BY <1>2
<1>5. Pending \in Seq(1 .. n) /\ Len(Pending) = Len(up) - 1 /\ \A i \in 1 .. Len(up) - 1 : Pending[i] = up[i + 1]
  BY <1>2, <1>3, <1>4, TailIs
<1>6. ASSUME NEW i \in 1 .. Len(Pending) - 1 PROVE Hanging(T, Pending[i])
  <2>1. i \in 1 .. Len(up) - 1 /\ i + 1 \in 1 .. Len(up) - 1 /\ i + 1 \in 1 .. Len(up) /\ (i + 1) + 1 \in 1 .. Len(up)
    BY <1>4, <1>5
  <2>2. Pending[i] = up[i + 1]
    BY <1>5, <2>1
  <2>3. T[up[i + 1]].father = up[(i + 1) + 1]
    <3> DEFINE j == i + 1
    <3>1. j \in 1 .. Len(up) - 1
      BY <2>1
    <3> HIDE DEF j
    <3>2. T[up[j]].father = up[j + 1]
      BY ONLY <1>2, <3>1
    <3> QED BY <3>2 DEF j
  <2>4. up[i + 1] \in 1 .. n /\ up[(i + 1) + 1] \in 1 .. n
    <3> DEFINE j == i + 1
               j2 == (i + 1) + 1
    <3>1. j \in 1 .. Len(up) /\ j2 \in 1 .. Len(up)
      BY <2>1
    <3> HIDE DEF j, j2
    <3>2. up[j] \in 1 .. n /\ up[j2] \in 1 .. n
      <4>1. up \in Seq(1 .. n)
        BY <1>2
      <4> QED BY ONLY <4>1, <3>1, ElementOfSeq
    <3> QED BY <3>2 DEF j, j2
  <2>5. Pending[i] \in 1 .. n /\ T[Pending[i]].father # 0
    BY <1>1, <2>2, <2>3, <2>4
  <2> QED BY <2>5 DEF Hanging, n
<1> QED BY <1>2, <1>4, <1>5, <1>6 DEF n

LEMMA EXPR15Good ==
  ASSUME TreeInv, EXPR15
  PROVE  TreeInv'
<1> DEFINE m == Pending[Min(Matches)]
           v == [T EXCEPT ![m].op = "SJSR"]
           t == addsib(v, r.EXPRND, r.EXELND)
           up == Above(t, r.EXELND)
<1>1. todo = "binop" /\ Matches # {} /\ Reads("op", "ASGN") /\ T' = t
      /\ EXPR1(calls, up[Len(up) - 1], Last(up))
  BY Zenon DEF EXPR15, ReadsOperator, Replaces
<1>2. text' \in Texts
  BY <1>1, TreeFacts, KindsAre, OpsAre, ReadsRight, Zenon
<1>3. Linked(T) /\ Len(T) \in Nat /\ Stack(T, calls)
  BY TreeFacts
<1>4. calls # <<>> /\ ~ Last(calls).proc \in Readers /\ r.EXELND \in 1 .. Len(T)
  BY <1>1, BinopFacts
<1>5. r.EXPRND # 0
  <2> SUFFICES ASSUME r.EXPRND = 0 PROVE FALSE
    OBVIOUS
  <2>1. Pending = <<>>
    BY DEF Pending
  <2>2. DOMAIN Pending = {}
    BY <2>1
  <2> QED BY <1>1, <2>2 DEF Matches
<1>6. m \in 1 .. Len(T)
  <2>1. Pending \in Seq(1 .. Len(T)) /\ Len(Pending) \in Nat
    BY <1>1, <1>5, PendingFacts
  <2>2. Matches \in SUBSET (0 .. Len(Pending)) /\ Matches \subseteq 1 .. Len(Pending)
    BY <2>1 DEF Matches
  <2>3. Min(Matches) \in Matches
    BY <1>1, <2>1, <2>2, Least
  <2>4. Min(Matches) \in 1 .. Len(Pending)
    BY <2>2, <2>3
  <2> DEFINE j == Min(Matches)
  <2> HIDE DEF j
  <2>5. Pending[j] \in 1 .. Len(T)
    BY <2>1, <2>4 DEF j
  <2> QED BY <2>5 DEF j
<1> HIDE DEF m
<1>7. Grown(T, v) /\ Linked(v) /\ Len(v) = Len(T)
  BY <1>3, <1>6, OpsAre, RenameGrown DEF Grown
<1> HIDE DEF v
<1>8. Hanging(v, r.EXPRND)
  BY <1>1, <1>3, <1>5, <1>7, BinopFacts, GrownHanging
<1>9. Grown(v, t) /\ Linked(t) /\ Len(t) = Len(T) /\ Hanging(t, r.EXELND)
  BY <1>4, <1>7, <1>8, AddsibGrown DEF Grown
<1> HIDE DEF t
<1>10. Grown(T, t)
  BY <1>3, <1>7, <1>9, GrownTrans
<1>11. up \in Seq(1 .. Len(T)) /\ Len(up) >= 2 /\ \A i \in 1 .. Len(up) - 1 : t[up[i]].father = up[i + 1]
  <2>1. r.EXELND \in 1 .. Len(t) /\ t[r.EXELND].father # 0
    BY <1>9 DEF Hanging
  <2> QED BY <1>9, <2>1, AboveRight
<1> HIDE DEF up
<1>12. Hanging(t, up[Len(up) - 1]) /\ Last(up) \in 0 .. Len(t)
  <2>1. Len(up) \in Nat /\ Len(up) - 1 \in 1 .. Len(up) - 1 /\ Len(up) - 1 \in 1 .. Len(up)
        /\ (Len(up) - 1) + 1 = Len(up) /\ Len(up) \in 1 .. Len(up)
    BY <1>11
  <2>2. up[Len(up) - 1] \in 1 .. Len(T) /\ up[Len(up)] \in 1 .. Len(T)
    BY <1>11, <2>1
  <2>3. t[up[Len(up) - 1]].father = up[Len(up)]
    BY <1>11, <2>1
  <2> QED BY <1>3, <1>9, <2>2, <2>3 DEF Hanging, Last
<1>13. Stack(t, calls)
  BY <1>3, <1>10, StackGrown
<1>14. Parts(r, "element", Bottom(calls))
  BY <1>1, PartsHere
<1>15. T' = t /\ EXPR1(calls, up[Len(up) - 1], Last(up))
  BY <1>1
<1> QED BY ONLY TreeInv, <1>2, <1>4, <1>10, <1>12, <1>13, <1>14, <1>15, EXPR1Good

\* EXPR14's tree, and the node it keeps.
LEMMA OperatorGrown ==
  ASSUME TreeInv, todo = "binop", NEW op \in Ops, NEW stop \in SUBSET (DOMAIN Pending)
  PROVE  LET t == Append(T, NewNode(op, 0))
             k == Next1
             full == addsib(t, r.EXPRND, r.EXELND)
             left == IF stop = {} THEN Last(Pending) ELSE Pending[Min(stop) - 1]
             one == addson(t, k, r.EXELND)
             two == addson(addsib(t, r.EXPRND, k), k, r.EXELND)
             three == IF stop = {} THEN addson(full, k, left) ELSE insert(full, left, k)
         IN  /\ r.EXPRND = 0 => Grown(T, one) /\ Hanging(one, r.EXELND) /\ k \in 0 .. Len(one)
             /\ r.EXPRND # 0 /\ 1 \in stop => Grown(T, two) /\ Hanging(two, r.EXELND) /\ k \in 0 .. Len(two)
             /\ r.EXPRND # 0 /\ ~ 1 \in stop => Grown(T, three) /\ Hanging(three, left) /\ k \in 0 .. Len(three)
<1> DEFINE t == Append(T, NewNode(op, 0))
           k == Next1
           full == addsib(t, r.EXPRND, r.EXELND)
           left == IF stop = {} THEN Last(Pending) ELSE Pending[Min(stop) - 1]
           one == addson(t, k, r.EXELND)
           below == addsib(t, r.EXPRND, k)
           two == addson(below, k, r.EXELND)
           three == IF stop = {} THEN addson(full, k, left) ELSE insert(full, left, k)
<1>1. Linked(T) /\ Len(T) \in Nat /\ r.EXELND \in 1 .. Len(T)
  BY TreeFacts, BinopFacts
<1>2. Grown(T, t) /\ Linked(t) /\ Len(t) = Len(T) + 1 /\ k \in 1 .. Len(t) /\ k \in 0 .. Len(t)
  BY <1>1, TreeFacts, AppendT
<1> HIDE DEF t, k
<1>3. r.EXELND \in 1 .. Len(t)
  BY <1>1, <1>2
<1>4. Grown(t, one) /\ Len(one) = Len(t) /\ Hanging(one, r.EXELND)
  BY <1>2, <1>3, AddsonGrown
<1>5. r.EXPRND = 0 => Grown(T, one) /\ Hanging(one, r.EXELND) /\ k \in 0 .. Len(one)
  BY <1>1, <1>2, <1>4, GrownTrans
<1>6. ASSUME r.EXPRND # 0 PROVE Hanging(t, r.EXPRND)
  BY <1>1, <1>2, <1>6, BinopFacts, GrownHanging
<1>7. ASSUME r.EXPRND # 0
      PROVE  Grown(T, two) /\ Hanging(two, r.EXELND) /\ k \in 0 .. Len(two)
  <2>1. Grown(t, below) /\ Linked(below) /\ Len(below) = Len(t)
    BY <1>2, <1>6, <1>7, AddsibGrown DEF Grown
  <2> HIDE DEF below
  <2>2. Grown(below, two) /\ Len(two) = Len(t) /\ Hanging(two, r.EXELND)
    BY <1>2, <1>3, <2>1, AddsonGrown
  <2> HIDE DEF two
  <2>3. Grown(T, below)
    BY <1>1, <1>2, <2>1, GrownTrans
  <2> QED BY <1>1, <1>2, <2>2, <2>3, GrownTrans
<1>8. ASSUME r.EXPRND # 0, ~ 1 \in stop
      PROVE  Grown(T, three) /\ Hanging(three, left) /\ k \in 0 .. Len(three)
  <2>1. Grown(t, full) /\ Linked(full) /\ Len(full) = Len(t)
    BY <1>2, <1>3, <1>6, <1>8, AddsibGrown DEF Grown
  <2> HIDE DEF full
  <2>2. Grown(T, full)
    BY <1>1, <1>2, <2>1, GrownTrans
  <2>3. Pending \in Seq(1 .. Len(T)) /\ Len(Pending) \in Nat /\ Len(Pending) >= 1
        /\ \A i \in 1 .. Len(Pending) - 1 : Hanging(T, Pending[i])
    BY <1>8, PendingFacts
  <2>4. CASE stop = {}
    <3>1. left = Pending[Len(Pending)] /\ three = addson(full, k, left)
      BY <2>4 DEF Last
    <3> HIDE DEF left, three
    <3>2. left \in 1 .. Len(full) /\ k \in 1 .. Len(full)
      BY <1>1, <1>2, <2>1, <2>3, <3>1
    <3>3. Grown(full, three) /\ Len(three) = Len(t) /\ Hanging(three, left)
      BY <2>1, <3>1, <3>2, AddsonGrown
    <3> QED BY <1>1, <1>2, <2>2, <3>3, GrownTrans
  <2>5. CASE stop # {}
    <3>1. left = Pending[Min(stop) - 1] /\ three = insert(full, left, k)
      BY <2>5
    <3> HIDE DEF left, three
    <3>2. stop \in SUBSET (0 .. Len(Pending)) /\ stop \subseteq 1 .. Len(Pending)
      BY <2>3
    <3>3. Min(stop) \in stop
      BY <2>3, <2>5, <3>2, Least
    <3>4. Min(stop) - 1 \in 1 .. Len(Pending) - 1
      BY <1>8, <2>3, <3>2, <3>3
    <3>5. Hanging(full, left)
      BY <1>1, <2>2, <2>3, <3>1, <3>4, GrownHanging
    <3>6. k \in 1 .. Len(full)
      BY <1>2, <2>1
    <3>7. Grown(full, three) /\ Len(three) = Len(t) /\ Hanging(three, left)
      BY <2>1, <3>1, <3>5, <3>6, InsertGrown
    <3> QED BY <1>1, <1>2, <2>2, <3>7, GrownTrans
  <2> QED BY <2>4, <2>5
<1> HIDE DEF one, two, three, left
<1>9. /\ r.EXPRND = 0 => Grown(T, one) /\ Hanging(one, r.EXELND) /\ k \in 0 .. Len(one)
      /\ r.EXPRND # 0 /\ 1 \in stop => Grown(T, two) /\ Hanging(two, r.EXELND) /\ k \in 0 .. Len(two)
      /\ r.EXPRND # 0 /\ ~ 1 \in stop => Grown(T, three) /\ Hanging(three, left) /\ k \in 0 .. Len(three)
  BY <1>5, <1>7, <1>8
<1> QED BY <1>9 DEF one, two, three, left, full, below, t, k

LEMMA EXPR14Good ==
  ASSUME TreeInv, NEW op \in Operators, EXPR14(op)
  PROVE  TreeInv'
<1> DEFINE t == Append(T, NewNode(op, 0))
           k == Next1
           stop == {i \in DOMAIN Pending : ~ Binds(Pending[i], op)}
           full == addsib(t, r.EXPRND, r.EXELND)
           left == IF stop = {} THEN Last(Pending) ELSE Pending[Min(stop) - 1]
           one == addson(t, k, r.EXELND)
           two == addson(addsib(t, r.EXPRND, k), k, r.EXELND)
           three == IF stop = {} THEN addson(full, k, left) ELSE insert(full, left, k)
<1>1. todo = "binop" /\ Reads("op", op)
      /\ IF r.EXPRND = 0 THEN T' = one /\ EXPR1(calls, r.EXELND, k)
         ELSE IF 1 \in stop THEN T' = two /\ EXPR1(calls, r.EXELND, k)
         ELSE T' = three /\ EXPR1(calls, left, k)
  BY Zenon DEF EXPR14, ReadsOperator
<1>2. text' \in Texts
  BY <1>1, TreeFacts, KindsAre, OpsAre, ReadsRight, Zenon
<1>3. Linked(T) /\ Stack(T, calls)
  BY TreeFacts
<1>4. calls # <<>> /\ ~ Last(calls).proc \in Readers /\ Parts(r, "element", Bottom(calls))
  BY <1>1, BinopFacts, PartsHere
<1>5. stop \in SUBSET (DOMAIN Pending) /\ op \in Ops
  BY OpsAre
<1>6. /\ r.EXPRND = 0 => Grown(T, one) /\ Hanging(one, r.EXELND) /\ k \in 0 .. Len(one)
      /\ r.EXPRND # 0 /\ 1 \in stop => Grown(T, two) /\ Hanging(two, r.EXELND) /\ k \in 0 .. Len(two)
      /\ r.EXPRND # 0 /\ ~ 1 \in stop => Grown(T, three) /\ Hanging(three, left) /\ k \in 0 .. Len(three)
  <2> HIDE DEF stop
  <2> QED BY <1>1, <1>5, OperatorGrown
<1> HIDE DEF one, two, three, left, k, stop
<1>7. PICK u, n : T' = u /\ EXPR1(calls, n, k) /\ Grown(T, u) /\ Hanging(u, n) /\ k \in 0 .. Len(u)
  BY <1>1, <1>6
<1>8. Stack(u, calls)
  BY <1>3, <1>7, StackGrown
<1> QED BY ONLY TreeInv, <1>2, <1>4, <1>7, <1>8, EXPR1Good

\* An element that goes on in the caller: what is read last is below the node e.
Continues(e, x) == r' = [r EXCEPT !.ELEMND = e, !.XPTR = x]
LEMMA TailGood ==
  ASSUME TreeInv, NEW t, Grown(T, t), NEW e \in 0 .. Len(t), NEW x \in 1 .. Len(t),
         NEW stack, Stack(T, stack), stack # <<>>, Last(stack).proc \in Readers, Bottom(stack) = Bottom(calls),
         T' = t, Continues(e, x), calls' = stack, todo' = "tail", text' = text
  PROVE  TreeInv'
<1>1. Linked(T) /\ Linked(t) /\ Len(T) \in Nat /\ Len(t) \in Nat /\ Len(T) <= Len(t)
      /\ r \in Registers(Len(T)) /\ text \in Texts
  BY TreeFacts, LinkedLen DEF Grown
<1>2. r \in Registers(Len(t)) /\ x \in 0 .. Len(t) /\ x # 0
  BY <1>1, RegistersGrown
<1>3. r' \in Registers(Len(t)) /\ r'.XPTR = x /\ r'.SUBJND = r.SUBJND /\ r'.PATND = r.PATND
      /\ r'.FGOND = r.FGOND
  BY <1>2 DEF Registers, Continues
<1>4. Stack(t, stack)
  BY <1>1, StackGrown
<1>5. Ready("tail", stack) /\ Reached(t, r', "tail") /\ "tail" \in Points
  BY <1>2, <1>3 DEF Ready, Reached, Points
<1>6. Good(T, r, calls, todo, text)
  BY DEF TreeInv
<1>7. "tail" # "subject" /\ "tail" # "failure" /\ Bottom(stack) = Bottom(calls) /\ Grown(T, t)
  OBVIOUS
<1>8. Good(t, r', stack, "tail", text)
  BY ONLY <1>1, <1>3, <1>4, <1>5, <1>6, <1>7, StillGood
<1> QED BY <1>8 DEF TreeInv

\* What EXPR was called for, and by whom.
LEMMA ValueFacts ==
  ASSUME TreeInv, todo = "value"
  PROVE  /\ calls # <<>> /\ r.XPTR \in 1 .. Len(T)
         /\ Top.proc \in Inside =>
              /\ Stack(T, Below) /\ Below # <<>> /\ Bottom(Below) = Bottom(calls)
              /\ Last(Below).proc \in Readers
         /\ HeldBy(T, Top) /\ Top.node \in 0 .. Len(T) /\ Top.close \in Brackets
<1>1. calls # <<>> /\ r.XPTR # 0 /\ r.XPTR \in 0 .. Len(T) /\ Len(T) \in Nat
  BY TreeFacts, RegistersAre DEF TreeInv, Good, Ready, Reached
<1>2. \A p \in Inside : ~ p \in Readers
  BY ProceduresAre
<1> QED BY <1>1, <1>2, BelowFacts

LEMMA ELENST1Good ==
  ASSUME TreeInv, ELENST1
  PROVE  TreeInv'
<1> DEFINE chain == Top.node
           u == IF chain = 0 THEN T ELSE addson(T, chain, r.XPTR)
           x == IF chain = 0 THEN r.XPTR ELSE Root(T, chain)
           close == ")"
<1>1. todo = "value" /\ Top.proc = "ELENST" /\ text' = text
      /\ \/ T' = u /\ Continues(chain, x) /\ calls' = Below /\ todo' = "tail"
         \/ Applied(T, "CMA", chain, r.XPTR, Below, close) /\ r' = r
  BY Zenon DEF ELENST1, Calling, Continues
<1>2. Linked(T) /\ Len(T) \in Nat /\ Grown(T, T) /\ text \in Texts
  BY TreeFacts
<1>3. r.XPTR \in 1 .. Len(T) /\ Stack(T, Below) /\ Below # <<>> /\ Bottom(Below) = Bottom(calls)
      /\ Last(Below).proc \in Readers /\ chain \in 0 .. Len(T) /\ close \in Brackets
  <2>1. "ELENST" \in Inside
    BY DEF Inside
  <2>2. close \in Brackets
    BY BracketsAre, Zenon
  <2> HIDE DEF close
  <2> QED BY <1>1, <2>1, <2>2, ValueFacts
<1> HIDE DEF close
<1>4. CASE T' = u /\ Continues(chain, x) /\ calls' = Below /\ todo' = "tail"
  <2>1. Grown(T, u) /\ Len(u) = Len(T)
    BY <1>2, <1>3, ChainGrown
  <2>2. x \in 1 .. Len(u) /\ chain \in 0 .. Len(u)
    BY <1>2, <1>3, <2>1, RootRight
  <2> HIDE DEF u, x, chain
  <2>3. text' = text
    BY <1>1
  <2> QED BY ONLY TreeInv, <1>3, <1>4, <2>1, <2>2, <2>3, TailGood
<1>5. CASE Applied(T, "CMA", chain, r.XPTR, Below, close) /\ r' = r
  <2>1. "CMA" \in Ops /\ text' \in Texts
    BY <1>1, <1>2, OpsAre
  <2> HIDE DEF chain
  <2> QED BY ONLY TreeInv, <1>2, <1>3, <1>5, <2>1, AppliedGood
<1> QED BY <1>1, <1>4, <1>5

LEMMA ELEAR1Good ==
  ASSUME TreeInv, ELEAR1
  PROVE  TreeInv'
<1> DEFINE node == Top.node
           u == addsib(T, node, r.XPTR)
           x == Root(T, node)
           close == Top.close
<1>1. todo = "value" /\ Top.proc = "ELEAR1" /\ text' = text /\ T' = u
      /\ \/ calls' = EXPR(Below, "ELEAR1", r.XPTR, close) /\ todo' = "element" /\ r' = r
         \/ Continues(r.XPTR, x) /\ calls' = Below /\ todo' = "tail"
  BY Zenon DEF ELEAR1, Calling, Continues
<1>2. Linked(T) /\ Len(T) \in Nat /\ text \in Texts
  BY TreeFacts
<1>3. r.XPTR \in 1 .. Len(T) /\ Stack(T, Below) /\ Below # <<>> /\ Bottom(Below) = Bottom(calls)
      /\ Last(Below).proc \in Readers /\ close \in Brackets /\ Hanging(T, node)
  <2>1. "ELEAR1" \in Inside
    BY DEF Inside
  <2>2. HeldBy(T, Top)
    BY <1>1, ValueFacts
  <2> QED BY <1>1, <2>1, <2>2, ValueFacts DEF HeldBy
<1>4. Grown(T, u) /\ Len(u) = Len(T) /\ Hanging(u, r.XPTR)
  BY <1>2, <1>3, AddsibGrown
<1>5. x \in 1 .. Len(u) /\ r.XPTR \in 0 .. Len(u)
  BY <1>2, <1>3, <1>4, RootRight DEF Hanging
<1> HIDE DEF u, x, close, node
<1>6. CASE calls' = EXPR(Below, "ELEAR1", r.XPTR, close) /\ todo' = "element" /\ r' = r
  <2>1. "ELEAR1" \in Inside /\ "ELEAR1" # "ELEMN7" /\ text' \in Texts
    BY <1>1, <1>2 DEF Inside
  <2>2. T' = u
    BY <1>1
  <2> QED BY ONLY TreeInv, <1>3, <1>4, <1>5, <1>6, <2>1, <2>2, PushedGood
<1>7. CASE Continues(r.XPTR, x) /\ calls' = Below /\ todo' = "tail"
  <2>1. T' = u /\ text' = text
    BY <1>1
  <2> QED BY ONLY TreeInv, <1>3, <1>4, <1>5, <1>7, <2>1, TailGood
<1> QED BY <1>1, <1>6, <1>7

\* A function that is given fewer arguments than it has.
LEMMA LacksRight ==
  ASSUME NEW op, NEW n \in Nat
  PROVE  Lacks(op, n) \in Nat
<1>1. op \in DOMAIN Arity => Arity[op] \in Nat
  BY ArityAssumption
<1> QED BY <1>1 DEF Lacks

Links == [op : Ops, n : Nat, father : Nat, lson : Nat, rsib : Nat]
Padding(t) == {s \in [t : Seq(Links), last : Nat] : Grown(t, s.t) /\ Hanging(s.t, s.last)}
OneMore(s) == [t |-> addsib(Null(s.t), s.last, Len(s.t) + 1), last |-> Len(s.t) + 1]

LEMMA PaddingIn ==
  ASSUME NEW t, NEW u, Grown(t, u), NEW k, Hanging(u, k)
  PROVE  [t |-> u, last |-> k] \in Padding(t)
<1>1. Linked(u)
  BY DEF Grown
<1>2. Len(u) \in Nat /\ 0 .. Len(u) \subseteq Nat
  BY <1>1, LinkedLen
<1>3. Nodes(Len(u)) \subseteq Links
  BY <1>2 DEF Nodes, Links
<1>4. u \in Seq(Links) /\ k \in Nat
  <2>1. u \in Seq(Nodes(Len(u)))
    BY <1>1 DEF Linked
  <2> QED BY <1>2, <1>3, <2>1 DEF Hanging
<1> QED BY <1>4 DEF Padding

LEMMA OneMoreRight ==
  ASSUME NEW t, Linked(t), NEW s \in Padding(t)
  PROVE  OneMore(s) \in Padding(t)
<1> DEFINE u == s.t
           last == s.last
           v == Null(u)
           k == Len(u) + 1
           w == addsib(v, last, k)
<1>1. Grown(t, u) /\ Hanging(u, last) /\ Linked(u)
  BY DEF Padding, Grown
<1>2. OneMore(s) = [t |-> w, last |-> k]
  BY DEF OneMore
<1> HIDE DEF u, last
<1>3. Grown(u, v) /\ Linked(v) /\ k \in 1 .. Len(v)
  BY <1>1, NullGrown
<1> HIDE DEF v, k
<1>4. Hanging(v, last)
  BY <1>1, <1>3, GrownHanging
<1>5. Grown(v, w) /\ Hanging(w, k)
  BY <1>3, <1>4, AddsibGrown
<1> HIDE DEF w
<1>6. Grown(t, w)
  <2>1. Grown(t, v)
    BY <1>1, <1>3, GrownTrans
  <2> QED BY <1>5, <2>1, GrownTrans
<1> QED BY <1>2, <1>5, <1>6, PaddingIn

LEMMA PaddedGrown ==
  ASSUME NEW t, Linked(t), NEW f \in 1 .. Len(t), NEW last, Hanging(t, last)
  PROVE  Grown(t, Padded(t, f, last))
<1> DEFINE more(s) == [t |-> addsib(Null(s.t), s.last, Len(s.t) + 1), last |-> Len(s.t) + 1]
           N == Lacks(t[f].op, t[f].n)
           base == [t |-> t, last |-> last]
           padded == CHOOSE g : g = [i \in 0 .. N |-> IF i = 0 THEN base ELSE more(g[i - 1])]
           Dom == Padding(t)
           step == [i \in 1 .. N |-> [s \in Dom |-> OneMore(s)]]
<1>1. Padded(t, f, last) = padded[N].t
  BY DEF Padded
<1>2. N \in Nat
  BY LinkedNode, LacksRight
<1>3. \A s : more(s) = OneMore(s)
  BY DEF OneMore
<1> HIDE DEF more, N
<1>4. base \in Dom
  BY GrownSelf, PaddingIn
<1>5. \A s \in Dom : OneMore(s) \in Dom
  BY OneMoreRight
<1> HIDE DEF base, Dom, padded
<1>6. step \in [1 .. N -> [Dom -> Dom]]
  BY <1>5
<1> HIDE DEF step
<1>7. Recurs(Dom, base, N, step)
  BY <1>2, <1>4, <1>6, Recursion
<1>8. PICK h \in [0 .. N -> Dom] : h[0] = base /\ \A i \in 1 .. N : h[i] = step[i][h[i - 1]]
  BY <1>7 DEF Recurs
<1>9. ASSUME NEW i \in 0 .. N PROVE h[i] = IF i = 0 THEN base ELSE more(h[i - 1])
  <2>1. CASE i = 0
    BY <1>8, <2>1
  <2>2. CASE i # 0
    <3>1. i \in 1 .. N /\ i - 1 \in 0 .. N
      BY <1>2, <2>2
    <3>2. h[i - 1] \in Dom
      BY <3>1
    <3>3. step[i][h[i - 1]] = OneMore(h[i - 1])
      BY <3>1, <3>2 DEF step
    <3> QED BY <1>3, <1>8, <2>2, <3>1, <3>3
  <2> QED BY <2>1, <2>2
<1>10. h = [i \in 0 .. N |-> IF i = 0 THEN base ELSE more(h[i - 1])]
  BY <1>9
<1>11. padded = [i \in 0 .. N |-> IF i = 0 THEN base ELSE more(padded[i - 1])]
  <2>1. \E g : g = [i \in 0 .. N |-> IF i = 0 THEN base ELSE more(g[i - 1])]
    BY <1>10
  <2> QED BY <2>1, Zenon DEF padded
<1>12. padded[0] = base /\ \A i \in 1 .. N : padded[i] = more(padded[i - 1])
  <2> DEFINE g == [i \in 0 .. N |-> IF i = 0 THEN base ELSE more(padded[i - 1])]
  <2>1. g[0] = base /\ \A i \in 1 .. N : g[i] = more(padded[i - 1])
    BY <1>2
  <2>2. padded = g
    BY <1>11
  <2> HIDE DEF g
  <2> QED BY <2>1, <2>2
<1>13. N \in {i \in 0 .. N : padded[i] \in Dom}
  <2> DEFINE X == {i \in 0 .. N : padded[i] \in Dom}
  <2>1. 0 \in X
    BY <1>2, <1>4, <1>12
  <2>2. ASSUME NEW i \in 1 .. N, i - 1 \in X PROVE i \in X
    <3>1. padded[i] = OneMore(padded[i - 1]) /\ padded[i - 1] \in Dom /\ i \in 0 .. N
      BY <1>2, <1>3, <1>12, <2>2
    <3> QED BY <1>5, <3>1
  <2> HIDE DEF X
  <2>3. 0 .. N \subseteq X
    BY <1>2, <2>1, <2>2, Counting
  <2>4. N \in 0 .. N
    BY <1>2
  <2> QED BY <2>3, <2>4 DEF X
<1> QED BY <1>1, <1>13 DEF Dom, Padding

LEMMA ELEMN2Good ==
  ASSUME TreeInv, ELEMN2
  PROVE  TreeInv'
<1> DEFINE node == Top.node
           u == IF Top.proc = "ELEMN7" THEN addson(T, node, r.XPTR) ELSE addsib(T, node, r.XPTR)
           v == Padded(u, u[r.XPTR].father, r.XPTR)
           x == Root(u, r.XPTR)
           close == ")"
<1>1. todo = "value" /\ Top.proc \in {"ELEMN7", "ELEMN2"} /\ text' = text
      /\ \/ T' = u /\ calls' = EXPR(Below, "ELEMN2", r.XPTR, close) /\ todo' = "element" /\ r' = r
         \/ T' = v /\ Continues(r.XPTR, x) /\ calls' = Below /\ todo' = "tail"
  BY Zenon DEF ELEMN2, Continues
<1>2. Linked(T) /\ Len(T) \in Nat /\ text \in Texts
  BY TreeFacts
<1>3. r.XPTR \in 1 .. Len(T) /\ Stack(T, Below) /\ Below # <<>> /\ Bottom(Below) = Bottom(calls)
      /\ Last(Below).proc \in Readers /\ close \in Brackets
  <2>1. Top.proc \in Inside
    BY <1>1 DEF Inside
  <2>2. close \in Brackets
    BY BracketsAre, Zenon
  <2> HIDE DEF close, node
  <2> QED BY <1>1, <2>1, <2>2, ValueFacts
<1> HIDE DEF close
<1>4. Grown(T, u) /\ Len(u) = Len(T) /\ Hanging(u, r.XPTR) /\ Linked(u)
  <2>1. HeldBy(T, Top) /\ node \in 0 .. Len(T)
    BY <1>1, ValueFacts
  <2>2. CASE Top.proc = "ELEMN7"
    <3>1. node \in 1 .. Len(T)
      BY <1>2, <2>1, <2>2 DEF HeldBy
    <3>2. u = addson(T, node, r.XPTR)
      BY <2>2
    <3> HIDE DEF u, node
    <3> QED BY <1>2, <1>3, <3>1, <3>2, AddsonGrown DEF Grown
  <2>3. CASE Top.proc # "ELEMN7"
    <3>1. Hanging(T, node)
      BY <1>1, <2>1, <2>3 DEF HeldBy
    <3>2. u = addsib(T, node, r.XPTR)
      BY <2>3
    <3> HIDE DEF u, node
    <3> QED BY <1>2, <1>3, <3>1, <3>2, AddsibGrown DEF Grown
  <2> QED BY <2>2, <2>3
<1> HIDE DEF u
<1>5. r.XPTR \in 1 .. Len(u) /\ r.XPTR \in 0 .. Len(u) /\ x \in 1 .. Len(u)
  BY <1>2, <1>3, <1>4, RootRight
<1> HIDE DEF x
<1>6. CASE T' = u /\ calls' = EXPR(Below, "ELEMN2", r.XPTR, close) /\ todo' = "element" /\ r' = r
  <2>1. "ELEMN2" \in Inside /\ "ELEMN2" # "ELEMN7" /\ text' \in Texts
    BY <1>1, <1>2 DEF Inside
  <2> QED BY ONLY TreeInv, <1>3, <1>4, <1>5, <1>6, <2>1, PushedGood
<1>7. CASE T' = v /\ Continues(r.XPTR, x) /\ calls' = Below /\ todo' = "tail"
  <2>1. u[r.XPTR].father \in 1 .. Len(u)
    <3>1. u[r.XPTR].father # 0 /\ u[r.XPTR].father \in 0 .. Len(u) /\ Len(u) \in Nat
      BY <1>4, <1>5, LinkedNode DEF Hanging
    <3> QED BY <3>1
  <2>2. Grown(u, v)
    BY <1>4, <2>1, PaddedGrown
  <2> HIDE DEF v
  <2>3. Grown(T, v)
    BY <1>2, <1>4, <2>2, GrownTrans
  <2>4. r.XPTR \in 0 .. Len(v) /\ x \in 1 .. Len(v)
    BY <1>2, <1>4, <1>5, <2>2, LinkedLen DEF Grown
  <2>5. text' = text
    BY <1>1
  <2> QED BY ONLY TreeInv, <1>3, <1>7, <2>3, <2>4, <2>5, TailGood
<1> QED BY <1>1, <1>6, <1>7

-----------------------------------------------------------------------------
(* Statements.                                                             *)
LEMMA NothingIn == "eos" \in Breaks /\ <<>> \in Texts
<1>1. "eos" \in Breaks
  BY Zenon DEF Breaks
<1> DEFINE Tokens == Kinds \X (Ops \cup {""})
<1>2. Texts = Seq(Tokens)
  BY Zenon DEF Texts
<1> HIDE DEF Tokens
<1>3. <<>> \in Seq(Tokens)
  OBVIOUS
<1> QED BY <1>1, <1>2, <1>3, Zenon

\* Nothing has been read of a statement.
LEMMA NothingGood == Good(<<>>, NoNodes, <<>>, "label", <<>>)
<1> DEFINE none == <<>>
           eos == "eos"
<1>1. none \in Texts /\ eos \in Breaks
  BY NothingIn
<1>2. Len(none) = 0 /\ Linked(none)
  BY DEF Linked
<1>3. NoNodes \in Registers(0)
  BY <1>1 DEF NoNodes, Registers
<1>4. Stack(none, none) /\ none = <<>>
  BY StackEmpty
<1>5. Ready("label", none) /\ Reached(none, NoNodes, "label") /\ "label" \in Points
  BY DEF Ready, Reached, Points
<1>6. Parts(NoNodes, "label", Bottom(none))
  <2> DEFINE p == Bottom(none)
  <2>1. p # "CMPASP" /\ p # "CMPILN" /\ p # "CMPFRM" /\ p # "CMPAT2"
    BY EmptyBottom
  <2> HIDE DEF p
  <2>2. Parts(NoNodes, "label", p)
    BY <2>1 DEF Parts
  <2> QED BY <2>2 DEF p
<1> HIDE DEF none
<1>7. Good(none, NoNodes, none, "label", none)
  BY <1>1, <1>2, <1>3, <1>4, <1>5, <1>6 DEF Good
<1> QED BY <1>7 DEF none

LEMMA DoneGood ==
  ASSUME NEW s, Done(s)
  PROVE  TreeInv'
<1>1. T' = <<>> /\ r' = NoNodes /\ calls' = <<>> /\ todo' = "label" /\ text' = <<>>
  BY Zenon DEF Done
<1> QED BY <1>1, NothingGood, Zenon DEF TreeInv

\* Between the expressions of a statement.
Between == {"label", "body", "goto", "end", "success", "failure", "stop"}
LEMMA BetweenGood ==
  ASSUME TreeInv, T' = T, r' \in Registers(Len(T)), calls' = <<>>, todo' \in Between, text' \in Texts,
         todo' = "failure" => r'.FGOND # 0
  PROVE  TreeInv'
<1> DEFINE none == <<>>
           td == todo'
<1>1. Linked(T) /\ Stack(T, none) /\ none = <<>>
  BY TreeFacts, StackEmpty
<1>2. td \in Points /\ Ready(td, none) /\ Reached(T, r', td)
  BY DEF Between, Points, Ready, Reached
<1>3. Parts(r', td, Bottom(none))
  <2> DEFINE p == Bottom(none)
  <2>1. p # "CMPASP" /\ p # "CMPILN" /\ p # "CMPFRM" /\ p # "CMPAT2"
    BY EmptyBottom
  <2> HIDE DEF p
  <2>2. td # "subject" /\ (td = "failure" => r'.FGOND # 0)
    BY DEF Between
  <2>3. Parts(r', td, p)
    BY <2>1, <2>2 DEF Parts
  <2> QED BY <2>3 DEF p
<1> HIDE DEF td
<1>4. T' = T /\ calls' = none /\ todo' = td
  BY DEF td
<1> HIDE DEF none
<1>5. Good(T, r', none, td, text')
  BY <1>1, <1>2, <1>3 DEF Good
<1> QED BY <1>4, <1>5 DEF TreeInv

\* An expression of a statement is read next.
LEMMA GoalGood ==
  ASSUME TreeInv, T' = T, r' \in Registers(Len(T)), NEW p \in Statements, NEW close \in Brackets,
         calls' = EXPR(<<>>, p, 0, close), todo' \in {"element", "unary"}, text' \in Texts,
         Parts(r', "element", p)
  PROVE  TreeInv'
<1> DEFINE none == <<>>
           s == EXPR(none, p, 0, close)
           td == todo'
<1>1. Linked(T) /\ Stack(T, none) /\ Len(T) \in Nat /\ 0 \in 0 .. Len(T)
  <2>1. Stack(T, none)
    BY StackEmpty
  <2>2. Linked(T) /\ Len(T) \in Nat
    BY TreeFacts
  <2> HIDE DEF none
  <2> QED BY ONLY <2>1, <2>2
<1>2. HeldBy(T, Frame(p, 0, close))
  <2> DEFINE f == Frame(p, 0, close)
  <2>1. p \in Procedures /\ ~ p \in {"EXPR1", "ELEMN2", "ELEAR1"} /\ p # "ELEMN7"
    BY DEF Statements, Goals, Procedures
  <2>2. f.proc = p
    BY <1>1, <2>1, FrameIn
  <2> HIDE DEF f
  <2>3. HeldBy(T, f)
    BY <2>1, <2>2 DEF HeldBy
  <2> QED BY <2>3 DEF f
<1>3. Stack(T, s) /\ s # <<>> /\ Last(s).proc = "EXPR" /\ Bottom(s) = p
  <2>1. none = <<>> /\ p \in Statements
    OBVIOUS
  <2> HIDE DEF none
  <2>2. none # <<>> => p \in Inside /\ Last(none).proc \in Readers
    BY <2>1
  <2>3. Linked(T) /\ Stack(T, none) /\ HeldBy(T, Frame(p, 0, close)) /\ 0 \in 0 .. Len(T)
    BY <1>1, <1>2
  <2> QED BY ONLY <2>1, <2>2, <2>3, close \in Brackets, StackExpr
<1> HIDE DEF s
<1>4. td \in Points /\ Ready(td, s) /\ Reached(T, r', td)
  BY <1>3, ProceduresAre DEF Points, Ready, Reached
<1>5. Parts(r', td, p)
  BY DEF Parts
<1> HIDE DEF td
<1>6. calls' = s /\ todo' = td
  BY DEF s, td
<1>7. Good(T, r', s, td, text')
  BY <1>1, <1>3, <1>4, <1>5 DEF Good
<1> QED BY <1>6, <1>7 DEF TreeInv

LEMMA FirstStack ==
  ASSUME NEW t, Linked(t), NEW p, First(p)
  PROVE  LET s == <<Frame(p, 0, "")>>
         IN  Stack(t, s) /\ s # <<>> /\ Last(s).proc = p /\ Bottom(s) = p
<1> DEFINE close == ""
           f == Frame(p, 0, close)
           none == <<>>
<1>1. close \in Brackets
  BY BracketsAre, Zenon
<1> HIDE DEF close
<1>2. Len(t) \in Nat /\ 0 \in 0 .. Len(t) /\ p \in Procedures /\ Known(p)
      /\ ~ p \in {"EXPR1", "ELEMN2", "ELEAR1"} /\ p # "ELEMN7"
  BY LinkedLen DEF First, Known, Readers, Statements, Goals, Procedures
<1>3. f \in Frames(Len(t)) /\ f.proc = p
  BY <1>1, <1>2, FrameIn
<1> HIDE DEF f
<1>4. HeldBy(t, f) /\ Known(f.proc) /\ First(f.proc) /\ Stack(t, none)
  BY <1>2, <1>3, StackEmpty DEF HeldBy
<1>5. Stack(t, Append(none, f)) /\ Append(none, f) # <<>> /\ Last(Append(none, f)) = f
      /\ Bottom(Append(none, f)) = p
  BY <1>3, <1>4, StackPush
<1>6. Append(none, f) = <<f>>
  OBVIOUS
<1>7. <<f>> = <<Frame(p, 0, "")>>
  BY Zenon DEF f, close
<1> HIDE DEF none
<1> QED BY <1>3, <1>5, <1>6, <1>7

LEMMA StatementEndsGood ==
  ASSUME EmptyStatement \/ CMPNGO \/ EndOfGoto \/ CMPSGO1 \/ CMPFGO1 \/ CMPILN \/ CDIAG
         \/ \E l \in Labels : CERR2(l)
  PROVE  TreeInv'
<1>1. \E s : Done(s)
  <2>1. \A c, s : NextStatement(c, s) => Done(s)
    BY Zenon DEF NextStatement
  <2>2. CASE EmptyStatement
    BY <2>1, <2>2, Zenon DEF EmptyStatement
  <2>3. CASE CMPNGO
    BY <2>1, <2>3, Zenon DEF CMPNGO
  <2>4. CASE EndOfGoto
    BY <2>1, <2>4, Zenon DEF EndOfGoto
  <2>5. CASE CMPSGO1
    BY <2>1, <2>5, Zenon DEF CMPSGO1
  <2>6. CASE CMPFGO1
    BY <2>1, <2>6, Zenon DEF CMPFGO1
  <2>7. CASE CMPILN
    BY <2>1, <2>7, Zenon DEF CMPILN
  <2>8. CASE CDIAG
    BY <2>1, <2>8, Zenon DEF CDIAG
  <2>9. CASE \E l \in Labels : CERR2(l)
    BY <2>1, <2>9, Zenon DEF CERR2
  <2> QED BY <2>2, <2>3, <2>4, <2>5, <2>6, <2>7, <2>8, <2>9
<1> QED BY <1>1, DoneGood

LEMMA BetweenFacts ==
  ASSUME TreeInv, todo \in Between \cup {"subject"}
  PROVE  calls = <<>>
<1>1. ~ todo \in {"element", "unary", "tail", "binop", "value"}
  BY DEF Between
<1> QED BY <1>1 DEF TreeInv, Good, Ready

\* The label, an empty subject and the end of the program.
LEMMA LabelGood ==
  ASSUME TreeInv, CMPILA \/ XLAEND \/ CMPGO0 \/ \E l \in Labels : CMPILC(l)
  PROVE  TreeInv'
<1>1. T' = T /\ r' = r /\ calls' = calls /\ text' = text /\ todo \in {"label", "body"}
      /\ todo' \in {"body", "stop", "goto"}
  <2>1. CASE CMPILA
    BY <2>1, Zenon DEF CMPILA
  <2>2. CASE XLAEND
    BY <2>2, Zenon DEF XLAEND
  <2>3. CASE CMPGO0
    BY <2>3, Zenon DEF CMPGO0
  <2>4. CASE \E l \in Labels : CMPILC(l)
    BY <2>4, Zenon DEF CMPILC
  <2> QED BY <2>1, <2>2, <2>3, <2>4
<1>2. calls' = <<>>
  BY <1>1, BetweenFacts DEF Between
<1>3. todo' \in Between /\ todo' # "failure"
  BY <1>1 DEF Between
<1> QED BY <1>1, <1>2, <1>3, TreeFacts, BetweenGood

LEMMA CMPSUBGood ==
  ASSUME TreeInv, CMPSUB
  PROVE  TreeInv'
<1> DEFINE s == <<Frame("CMPSUB", 0, "")>>
<1>1. T' = T /\ r' = r /\ calls' = s /\ text' = text /\ todo' = "unary"
  BY Zenon DEF CMPSUB
<1>2. Linked(T) /\ r \in Registers(Len(T)) /\ text \in Texts
  BY TreeFacts
<1>3. Stack(T, s) /\ s # <<>> /\ Last(s).proc = "CMPSUB" /\ Bottom(s) = "CMPSUB"
  BY <1>2, FirstStack, ProceduresAre
<1> HIDE DEF s
<1>4. Ready("unary", s) /\ Reached(T, r, "unary") /\ "unary" \in Points /\ Parts(r, "unary", Bottom(s))
  BY <1>3, ProceduresAre DEF Ready, Reached, Points, Parts
<1>5. Good(T, r, s, "unary", text)
  BY <1>2, <1>3, <1>4 DEF Good
<1> QED BY <1>1, <1>5 DEF TreeInv

LEMMA SubjectFacts ==
  ASSUME TreeInv, todo = "subject"
  PROVE  r.SUBJND \in 1 .. Len(T) /\ calls = <<>>
<1>1. r.SUBJND # 0 /\ r.SUBJND \in 0 .. Len(T) /\ Len(T) \in Nat
  BY TreeFacts, RegistersAre DEF TreeInv, Good, Parts
<1> QED BY <1>1, BetweenFacts

LEMMA CMPATNGood ==
  ASSUME TreeInv, CMPATN
  PROVE  TreeInv'
<1> DEFINE t == Append(T, NewNode("SCAN", 0))
           u == addson(t, Next1, r.SUBJND)
           s == <<Frame("CMPAT1", 0, "")>>
           close == ""
           none == <<>>
           regs == [r EXCEPT !.ELEMND = 0]
<1>1. todo = "subject" /\ Reads("op", "SCAN")
      /\ \/ T' = u /\ EXPR1(s, r.SUBJND, Next1)
         \/ calls' = EXPR(none, "CMPAT2", 0, close) /\ todo' = "unary" /\ r' = regs /\ T' = T
  BY Zenon DEF CMPATN
<1>2. text' \in Texts
  BY <1>1, TreeFacts, KindsAre, OpsAre, ReadsRight, Zenon
<1>3. Linked(T) /\ Len(T) \in Nat /\ r \in Registers(Len(T)) /\ r.SUBJND \in 1 .. Len(T)
  BY <1>1, TreeFacts, SubjectFacts
<1>4. close \in Brackets
  BY BracketsAre, Zenon
<1> HIDE DEF close, none
<1>5. CASE T' = u /\ EXPR1(s, r.SUBJND, Next1)
  <2>1. Grown(T, t) /\ Linked(t) /\ Len(t) = Next1 /\ Next1 \in 1 .. Len(t) /\ Len(T) <= Len(t)
        /\ Len(t) \in Nat
    BY <1>3, OpsAre, AppendT, LinkedLen DEF Grown
  <2> HIDE DEF t
  <2>2. Grown(t, u) /\ Len(u) = Len(t) /\ Hanging(u, r.SUBJND)
    BY <1>3, <2>1, AddsonGrown
  <2> HIDE DEF u
  <2>3. Grown(T, u) /\ Next1 \in 0 .. Len(u) /\ Linked(u)
    BY <1>3, <2>1, <2>2, GrownTrans DEF Grown
  <2>4. Stack(u, s) /\ s # <<>> /\ ~ Last(s).proc \in Readers /\ Parts(r, "element", Bottom(s))
    <3>1. First("CMPAT1") /\ ~ "CMPAT1" \in Readers
      BY DEF First, Readers, Statements
    <3>2. Stack(u, s) /\ s # <<>> /\ Last(s).proc = "CMPAT1" /\ Bottom(s) = "CMPAT1"
      BY <2>3, <3>1, FirstStack
    <3> HIDE DEF s
    <3> QED BY <3>1, <3>2 DEF Parts
  <2> HIDE DEF s
  <2> QED BY ONLY TreeInv, <1>2, <1>5, <2>2, <2>3, <2>4, EXPR1Good
<1>6. CASE calls' = EXPR(none, "CMPAT2", 0, close) /\ todo' = "unary" /\ r' = regs /\ T' = T
  <2>1. regs \in Registers(Len(T)) /\ regs.SUBJND = r.SUBJND
    BY <1>3 DEF Registers
  <2> HIDE DEF regs
  <2>2. Parts(r', "element", "CMPAT2") /\ r' \in Registers(Len(T))
    BY <1>3, <1>6, <2>1 DEF Parts
  <2>3. "CMPAT2" \in Statements /\ todo' \in {"element", "unary"} /\ none = <<>>
    BY <1>6 DEF Statements, none
  <2> QED BY ONLY TreeInv, <1>2, <1>4, <1>6, <2>2, <2>3, GoalGood
<1> QED BY <1>1, <1>5, <1>6

LEMMA CMPFRMGood ==
  ASSUME TreeInv, CMPFRM
  PROVE  TreeInv'
<1> DEFINE close == ""
<1>1. todo = "subject" /\ Reads("op", "ASGN") /\ T' = T /\ r' = r /\ todo' = "element"
      /\ calls' = EXPR(<<>>, "CMPFRM", 0, close)
  BY Zenon DEF CMPFRM
<1>2. text' \in Texts
  BY <1>1, TreeFacts, KindsAre, OpsAre, ReadsRight, Zenon
<1>3. close \in Brackets
  BY BracketsAre, Zenon
<1> HIDE DEF close
<1>4. r \in Registers(Len(T)) /\ r.SUBJND # 0
  BY <1>1, TreeFacts, SubjectFacts
<1>5. "CMPFRM" \in Statements /\ todo' \in {"element", "unary"} /\ Parts(r', "element", "CMPFRM")
      /\ T' = T /\ r' \in Registers(Len(T))
  BY <1>1, <1>4 DEF Statements, Parts
<1>6. calls' = EXPR(<<>>, "CMPFRM", 0, close)
  BY <1>1
<1> QED BY ONLY TreeInv, <1>2, <1>3, <1>5, <1>6, GoalGood

LEMMA GotosNextGood ==
  ASSUME TreeInv, NEW c, NEW b, GotosNext(c, b)
  PROVE  TreeInv'
<1>1. \/ \E s : Done(s)
      \/ T' = T /\ r' = r /\ calls' = <<>> /\ todo' = "goto" /\ text' = <<>>
  BY Zenon DEF GotosNext
<1>2. CASE \E s : Done(s)
  BY <1>2, DoneGood
<1>3. CASE T' = T /\ r' = r /\ calls' = <<>> /\ todo' = "goto" /\ text' = <<>>
  <2>1. todo' \in Between /\ todo' # "failure"
    BY <1>3 DEF Between
  <2>2. text' \in Texts
    BY <1>3, NothingIn, Zenon
  <2>3. r' \in Registers(Len(T))
    BY <1>3, TreeFacts
  <2> QED BY <1>3, <2>1, <2>2, <2>3, BetweenGood
<1> QED BY <1>1, <1>2, <1>3

\* What the statement's procedure has called EXPR for.
LEMMA GoalFacts ==
  ASSUME TreeInv, todo = "value", Top.proc \in Statements
  PROVE  /\ r.XPTR \in 1 .. Len(T) /\ r \in Registers(Len(T)) /\ Bottom(calls) = Top.proc
         /\ Parts(r, "value", Top.proc)
<1>1. Stack(T, calls) /\ r \in Registers(Len(T)) /\ calls # <<>> /\ r.XPTR \in 1 .. Len(T)
  BY TreeFacts, ValueFacts
<1>2. First(Top.proc)
  BY DEF First
<1>3. Bottom(calls) = Top.proc
  BY <1>1, <1>2, StackTop DEF Top
<1>4. Parts(r, "value", Bottom(calls))
  BY DEF TreeInv, Good
<1> QED BY <1>1, <1>3, <1>4

LEMMA BodyEndsGood ==
  ASSUME TreeInv, CMPAT1 \/ CMPASP \/ CMPFT \/ \E b \in Breaks : CMPSB1(b)
  PROVE  TreeInv'
<1>1. \E c, b : GotosNext(c, b)
  <2>1. CASE CMPAT1
    BY <2>1, Zenon DEF CMPAT1
  <2>2. CASE CMPASP
    BY <2>2, Zenon DEF CMPASP
  <2>3. CASE CMPFT
    BY <2>3, Zenon DEF CMPFT
  <2>4. CASE \E b \in Breaks : CMPSB1(b)
    BY <2>4, Zenon DEF CMPSB1
  <2> QED BY <2>1, <2>2, <2>3, <2>4
<1> QED BY <1>1, GotosNextGood

LEMMA CMPAT2Good ==
  ASSUME TreeInv, CMPAT2
  PROVE  TreeInv'
<1> DEFINE close == ""
           regs == [r EXCEPT !.PATND = r.XPTR]
<1>1. todo = "value" /\ Top.proc = "CMPAT2"
      /\ \/ /\ r' = regs /\ Reads("op", "ASGN") /\ T' = T
            /\ calls' = EXPR(<<>>, "CMPASP", 0, close) /\ todo' = "element"
         \/ \E c, b : GotosNext(c, b)
  BY Zenon DEF CMPAT2, Calling
<1>2. CASE \E c, b : GotosNext(c, b)
  BY <1>2, GotosNextGood
<1>3. CASE /\ r' = regs /\ Reads("op", "ASGN") /\ T' = T
           /\ calls' = EXPR(<<>>, "CMPASP", 0, close) /\ todo' = "element"
  <2>1. text' \in Texts
    BY <1>3, TreeFacts, KindsAre, OpsAre, ReadsRight, Zenon
  <2>2. close \in Brackets
    BY BracketsAre, Zenon
  <2> HIDE DEF close
  <2>3. r.XPTR \in 1 .. Len(T) /\ r \in Registers(Len(T)) /\ r.SUBJND # 0 /\ Len(T) \in Nat
    <3>1. Top.proc \in Statements
      BY <1>1 DEF Statements
    <3> QED BY <1>1, <3>1, GoalFacts, TreeFacts DEF Parts
  <2>4. regs \in Registers(Len(T)) /\ regs.SUBJND # 0 /\ regs.PATND # 0
    BY <2>3 DEF Registers
  <2> HIDE DEF regs
  <2>5. r' \in Registers(Len(T)) /\ Parts(r', "element", "CMPASP") /\ "CMPASP" \in Statements
    BY <1>3, <2>4 DEF Parts, Statements
  <2>6. T' = T /\ calls' = EXPR(<<>>, "CMPASP", 0, close) /\ todo' \in {"element", "unary"}
    BY <1>3
  <2> QED BY ONLY TreeInv, <2>1, <2>2, <2>5, <2>6, GoalGood
<1> QED BY <1>1, <1>2, <1>3

\* Gotos.
LEMMA BracketIn ==
  ASSUME NEW go
  PROVE  Bracket(go) \in Brackets
BY Zenon, BracketsAre DEF Bracket

LEMMA GotoGood ==
  ASSUME TreeInv, NEW go \in {"GOTL", "GOTG"}, CMPILL(go) \/ CMPILM(go) \/ \E p \in {"CMPUGO", "CMPSGO", "CMPFGO"} : CMPGG(p, go)
  PROVE  TreeInv'
<1> DEFINE regs == [r EXCEPT !.GOGOCL = go]
<1>1. r \in Registers(Len(T)) /\ text \in Texts
  BY TreeFacts
<1>2. regs \in Registers(Len(T)) /\ regs.FGOND = r.FGOND
  BY <1>1 DEF Registers
<1> HIDE DEF regs
<1>3. PICK p \in Goals : /\ T' = T /\ text' = text /\ calls' = EXPR(<<>>, p, 0, Bracket(go)) /\ todo' = "element"
                         /\ r' = regs \/ r' = r
                         /\ p = "CMPILN" => todo = "failure" /\ r' = r
  <2>1. CASE CMPILL(go)
    <3>1. "CMPUGO" \in Goals /\ "CMPUGO" # "CMPILN"
      BY DEF Goals
    <3> QED BY <2>1, <3>1, Zenon DEF CMPILL, ReadsGoto, regs
  <2>2. CASE CMPILM(go)
    <3>1. "CMPILN" \in Goals
      BY DEF Goals
    <3> QED BY <2>2, <3>1, Zenon DEF CMPILM, ReadsGoto
  <2>3. CASE \E p \in {"CMPUGO", "CMPSGO", "CMPFGO"} : CMPGG(p, go)
    <3>1. PICK p \in {"CMPUGO", "CMPSGO", "CMPFGO"} : CMPGG(p, go)
      BY <2>3
    <3>2. p \in Goals /\ p # "CMPILN"
      BY DEF Goals
    <3> QED BY <3>1, <3>2, Zenon DEF CMPGG, ReadsGoto, regs
  <2> QED BY <2>1, <2>2, <2>3
<1> DEFINE close == Bracket(go)
<1>4. close \in Brackets
  BY BracketIn
<1> HIDE DEF close
<1>5. p \in Statements /\ p # "CMPFRM" /\ p # "CMPAT2" /\ p # "CMPASP"
  BY DEF Statements, Goals
<1>6. todo = "failure" => r.FGOND # 0
  BY DEF TreeInv, Good, Parts
<1>7. Parts(r', "element", p) /\ r' \in Registers(Len(T))
  BY <1>1, <1>2, <1>3, <1>5, <1>6 DEF Parts
<1>8. T' = T /\ calls' = EXPR(<<>>, p, 0, close) /\ todo' \in {"element", "unary"} /\ text' \in Texts
  BY <1>1, <1>3 DEF close
<1> QED BY ONLY TreeInv, <1>4, <1>5, <1>7, <1>8, GoalGood

LEMMA GotoEndsGood ==
  ASSUME TreeInv, CMPUGO \/ CMPSGO \/ CMPFGO
  PROVE  TreeInv'
<1> DEFINE regs == [r EXCEPT !.FGOND = r.XPTR]
<1>1. /\ todo = "value" /\ T' = T /\ calls' = <<>> /\ text' = <<>>
      /\ \/ r' = r /\ todo' \in {"end", "success"}
         \/ r' = regs /\ todo' = "failure"
  <2>1. CASE CMPUGO
    BY <2>1, Zenon DEF CMPUGO
  <2>2. CASE CMPSGO
    BY <2>2, Zenon DEF CMPSGO
  <2>3. CASE CMPFGO
    BY <2>3, Zenon DEF CMPFGO
  <2> QED BY <2>1, <2>2, <2>3
<1>2. r \in Registers(Len(T)) /\ r.XPTR \in 1 .. Len(T) /\ Len(T) \in Nat
  BY <1>1, TreeFacts, ValueFacts
<1>3. regs \in Registers(Len(T)) /\ regs.FGOND # 0
  BY <1>2 DEF Registers
<1> HIDE DEF regs
<1>4. text' \in Texts
  BY <1>1, NothingIn, Zenon
<1>5. r' \in Registers(Len(T)) /\ todo' \in Between /\ (todo' = "failure" => r'.FGOND # 0)
  BY <1>1, <1>2, <1>3 DEF Between
<1>6. T' = T /\ calls' = <<>>
  BY <1>1
<1> QED BY ONLY TreeInv, <1>4, <1>5, <1>6, BetweenGood

-----------------------------------------------------------------------------
(* The invariant of what is read is inductive.                             *)
LEMMA TreeInit ==
  ASSUME Init
  PROVE  TreeInv
<1>1. T = <<>> /\ r = NoNodes /\ calls = <<>> /\ todo = "label" /\ text = <<>>
  BY Zenon DEF Init
<1> QED BY <1>1, NothingGood, Zenon DEF TreeInv

\* The actions that read an expression, and those of the statement.
ReadsExpression ==
    \/ UNOP("MNS") \/ ELEVBL \/ ELEMN5 \/ ELENST \/ ELEARY \/ ELEAR2 \/ ElementEnds
    \/ \E f \in Functions : ELEFNC(f)
    \/ \E b \in Breaks : EXPNUL(b) \/ EXPR12(b) \/ EXPR7(b)
    \/ EXPR15
    \/ \E op \in Operators : EXPR14(op)
    \/ ELENST1 \/ ELEMN2 \/ ELEAR1
ReadsStatement ==
    \/ CMPILA \/ XLAEND \/ CMPGO0 \/ \E l \in Labels : CMPILC(l)
    \/ EmptyStatement \/ CMPNGO \/ EndOfGoto \/ CMPSGO1 \/ CMPFGO1 \/ CMPILN \/ CDIAG
    \/ \E l \in Labels : CERR2(l)
    \/ CMPSUB \/ CMPATN \/ CMPFRM \/ CMPAT2
    \/ CMPAT1 \/ CMPASP \/ CMPFT \/ \E b \in Breaks : CMPSB1(b)
    \/ \E go \in {"GOTL", "GOTG"} :
          CMPILL(go) \/ CMPILM(go) \/ \E p \in {"CMPUGO", "CMPSGO", "CMPFGO"} : CMPGG(p, go)
    \/ CMPUGO \/ CMPSGO \/ CMPFGO

LEMMA NextReads ==
  ASSUME Next
  PROVE  ReadsExpression \/ ReadsStatement
BY Zenon DEF Next, ReadsExpression, ReadsStatement

LEMMA ExpressionGood ==
  ASSUME TreeInv, ReadsExpression
  PROVE  TreeInv'
<1>1. CASE UNOP("MNS")
  BY <1>1, UNOPGood
<1>2. CASE ELEVBL \/ ELEMN5
  BY <1>2, ELEVBLGood, ELEMN5Good
<1>3. CASE ELENST \/ \E f \in Functions : ELEFNC(f)
  BY <1>3, ELENSTGood, ELEFNCGood
<1>4. CASE ELEARY \/ ELEAR2 \/ ElementEnds
  BY <1>4, ELEARYGood, ELEAR2Good, ElementEndsGood
<1>5. CASE \E b \in Breaks : EXPNUL(b) \/ EXPR12(b) \/ EXPR7(b)
  BY <1>5, EXPNULGood, EXPR12Good, EXPR7Good
<1>6. CASE EXPR15 \/ \E op \in Operators : EXPR14(op)
  BY <1>6, EXPR15Good, EXPR14Good
<1>7. CASE ELENST1 \/ ELEMN2 \/ ELEAR1
  BY <1>7, ELENST1Good, ELEMN2Good, ELEAR1Good
<1> QED BY <1>1, <1>2, <1>3, <1>4, <1>5, <1>6, <1>7 DEF ReadsExpression

LEMMA StatementGood ==
  ASSUME TreeInv, ReadsStatement
  PROVE  TreeInv'
<1>1. CASE CMPILA \/ XLAEND \/ CMPGO0 \/ \E l \in Labels : CMPILC(l)
  BY <1>1, LabelGood
<1>2. CASE EmptyStatement \/ CMPNGO \/ EndOfGoto \/ CMPSGO1 \/ CMPFGO1 \/ CMPILN \/ CDIAG
           \/ \E l \in Labels : CERR2(l)
  BY <1>2, StatementEndsGood
<1>3. CASE CMPSUB \/ CMPATN \/ CMPFRM \/ CMPAT2
  BY <1>3, CMPSUBGood, CMPATNGood, CMPFRMGood, CMPAT2Good
<1>4. CASE CMPAT1 \/ CMPASP \/ CMPFT \/ \E b \in Breaks : CMPSB1(b)
  BY <1>4, BodyEndsGood
<1>5. CASE \E go \in {"GOTL", "GOTG"} :
               CMPILL(go) \/ CMPILM(go) \/ \E p \in {"CMPUGO", "CMPSGO", "CMPFGO"} : CMPGG(p, go)
  BY <1>5, GotoGood
<1>6. CASE CMPUGO \/ CMPSGO \/ CMPFGO
  BY <1>6, GotoEndsGood
<1> QED BY <1>1, <1>2, <1>3, <1>4, <1>5, <1>6 DEF ReadsStatement

LEMMA TreeStep ==
  ASSUME TreeInv, [Next]_vars
  PROVE  TreeInv'
<1>1. CASE Next
  BY <1>1, NextReads, ExpressionGood, StatementGood
<1>2. CASE UNCHANGED vars
  BY <1>2 DEF vars, TreeInv
<1> QED BY <1>1, <1>2

LEMMA TreeAlways == Spec => []TreeInv
<1>1. Init => TreeInv
  BY TreeInit
<1>2. TreeInv /\ [Next]_vars => TreeInv'
  BY TreeStep
<1> QED BY <1>1, <1>2, PTL DEF Spec

LEMMA TreeHangs ==
  ASSUME TreeInv
  PROVE  BrothersHang
<1>1. ASSUME NEW i \in DOMAIN calls, calls[i].proc \in {"EXPR1", "ELEMN2", "ELEAR1"}
      PROVE  Hangs(calls[i].node)
  <2>1. Stack(T, calls) /\ i \in 1 .. Len(calls) /\ Len(T) \in Nat
    BY TreeFacts DEF Stack
  <2>2. Hanging(T, calls[i].node)
    BY <1>1, <2>1 DEF Stack, HeldBy
  <2> QED BY <2>1, <2>2 DEF Hanging, Hangs
<1>2. ASSUME todo = "binop", r.EXPRND # 0
      PROVE  Hangs(r.EXPRND)
  <2>1. Hanging(T, r.EXPRND)
    BY <1>2, BinopFacts
  <2> QED BY <1>2, <2>1 DEF Hanging, Hangs
<1> QED BY <1>1, <1>2 DEF BrothersHang

\* Whatever the program, the compiler gives a brother only to a node that is below
\* another one, which addsib counts it at.
THEOREM BrothersHangHolds == Spec => []BrothersHang
<1>1. TreeInv => BrothersHang
  BY TreeHangs
<1> QED BY <1>1, TreeAlways, PTL

-----------------------------------------------------------------------------
(* The object code.  At is the place of the next cell, Sound that the base *)
(* is in a block of OCLIM + 7 cells, where nothing is written behind it.   *)
At(c) == c.base.at + c.CMOFCL
Sound(c) ==
    /\ c \in ObjectCode /\ c.base.block \in 1 .. Len(c.mem) /\ Len(c.mem[c.base.block]) = c.OCLIM + 7
    /\ c.base.at <= c.OCLIM + 1 /\ c.overrun = FALSE
\* Only cells of the block have been written.
Beside(c, d) ==
    /\ d.base = c.base /\ d.OCLIM = c.OCLIM /\ d.BOSCL = c.BOSCL /\ d.FRNCL = c.FRNCL /\ d.SRNCL = c.SRNCL
    /\ Len(d.mem) = Len(c.mem)

LEMMA CodeAre ==
  ASSUME NEW c \in ObjectCode
  PROVE  /\ c.mem \in Seq(Seq(Cells)) /\ c.base \in Address /\ c.base.block \in Nat /\ c.base.at \in Nat
         /\ c.CMOFCL \in Nat /\ c.BOSCL \in Nat /\ c.FRNCL \in Nat /\ c.SRNCL \in Nat /\ c.OCLIM \in Nat
         /\ c.LPTR \in Labels \cup {NoLabel} /\ c.attrib \in [Labels -> Address] /\ c.overrun \in BOOLEAN
BY DEF ObjectCode, Address

\* The block of the base.
LEMMA BlockIs ==
  ASSUME NEW c, Sound(c)
  PROVE  /\ c.mem[c.base.block] \in Seq(Cells) /\ DOMAIN c.mem[c.base.block] = 1 .. c.OCLIM + 7
         /\ \A i \in 1 .. c.OCLIM + 7 : c.mem[c.base.block][i] \in Cells
<1>1. c.mem \in Seq(Seq(Cells)) /\ c.base.block \in 1 .. Len(c.mem) /\ Len(c.mem[c.base.block]) = c.OCLIM + 7
  BY CodeAre DEF Sound
<1> DEFINE m == c.mem
           b == c.base.block
           old == m[b]
           n == c.OCLIM + 7
<1>2. m \in Seq(Seq(Cells)) /\ b \in 1 .. Len(m) /\ Len(old) = n
  BY <1>1
<1> HIDE DEF m, b
<1>3. old \in Seq(Cells)
  BY <1>2
<1> HIDE DEF old, n
<1>4. DOMAIN old = 1 .. n /\ \A i \in 1 .. n : old[i] \in Cells
  BY <1>2, <1>3
<1> QED BY <1>3, <1>4 DEF old, n, m, b

LEMMA PutAllSound ==
  ASSUME NEW c, Sound(c), NEW k \in Nat, NEW cells \in Seq(Cells), c.base.at + k >= 1,
         c.base.at + k + Len(cells) <= c.OCLIM + 8
  PROVE  LET d == PutAll(c, k, cells)
         IN  Sound(d) /\ Beside(c, d) /\ d.CMOFCL = c.CMOFCL /\ d.LPTR = c.LPTR /\ d.attrib = c.attrib
<1> DEFINE b == c.base.block
           old == c.mem[b]
           n == c.OCLIM + 7
           at == c.base.at + k
           room == at .. at + Len(cells) - 1
           new == [i \in DOMAIN old |-> IF i \in room THEN cells[i - at + 1] ELSE old[i]]
           over == c.overrun \/ ~ room \subseteq DOMAIN old
           m == [c.mem EXCEPT ![b] = new]
           d == PutAll(c, k, cells)
<1>1. c \in ObjectCode /\ c.mem \in Seq(Seq(Cells)) /\ b \in 1 .. Len(c.mem) /\ Len(old) = n
      /\ c.base.at <= c.OCLIM + 1 /\ c.overrun = FALSE
  BY CodeAre DEF Sound
<1>20. at \in Nat /\ n \in Nat /\ Len(cells) \in Nat /\ at >= 1 /\ at + Len(cells) <= n + 1
  <2>1. c.base.at \in Nat /\ c.OCLIM \in Nat
    BY <1>1, CodeAre
  <2> QED BY <2>1
<1>2. DOMAIN old = 1 .. n /\ \A i \in 1 .. n : old[i] \in Cells
  BY BlockIs
<1>3. d = [c EXCEPT !.mem = m, !.overrun = over]
  BY DEF PutAll
<1> HIDE DEF old, n, d, at
<1>4. room \subseteq DOMAIN old
  BY <1>2, <1>20
<1>5. over = FALSE
  BY <1>1, <1>4, Zenon
<1> HIDE DEF over
<1>6. \A i \in 1 .. n : (IF i \in room THEN cells[i - at + 1] ELSE old[i]) \in Cells
  <2> TAKE i \in 1 .. n
  <2>1. CASE i \in room
    <3> DEFINE j == i - at + 1
    <3>1. j \in 1 .. Len(cells)
      BY <1>20, <2>1
    <3> HIDE DEF j
    <3>2. cells[j] \in Cells
      BY <3>1
    <3> QED BY <2>1, <3>2 DEF j
  <2>2. CASE ~ i \in room
    BY <1>2, <2>2
  <2> QED BY <2>1, <2>2
<1>7. new \in [1 .. n -> Cells]
  BY <1>2, <1>6
<1> HIDE DEF new
<1>8. new \in Seq(Cells) /\ Len(new) = n
  BY <1>20, <1>7
<1>9. m \in Seq(Seq(Cells)) /\ Len(m) = Len(c.mem) /\ m[b] = new
  BY <1>1, <1>8
<1> HIDE DEF m
<1>10. d \in ObjectCode /\ d.mem = m /\ d.overrun = over /\ d.base = c.base /\ d.OCLIM = c.OCLIM
       /\ d.BOSCL = c.BOSCL /\ d.FRNCL = c.FRNCL /\ d.SRNCL = c.SRNCL /\ d.CMOFCL = c.CMOFCL
       /\ d.LPTR = c.LPTR /\ d.attrib = c.attrib
  BY <1>1, <1>3, <1>5, <1>9 DEF ObjectCode
<1>11. Sound(d)
  BY <1>1, <1>5, <1>8, <1>9, <1>10 DEF Sound, n
<1>12. Beside(c, d)
  BY <1>9, <1>10 DEF Beside
<1> QED BY <1>10, <1>11, <1>12 DEF d

LEMMA MovedSound ==
  ASSUME NEW c, Sound(c), NEW n \in Nat
  PROVE  LET d == [c EXCEPT !.CMOFCL = n]
         IN  Sound(d) /\ Beside(c, d) /\ d.CMOFCL = n /\ d.LPTR = c.LPTR /\ d.attrib = c.attrib
<1> DEFINE d == [c EXCEPT !.CMOFCL = n]
<1>1. c \in ObjectCode
  BY DEF Sound
<1>2. d \in ObjectCode /\ d.mem = c.mem /\ d.overrun = c.overrun /\ d.base = c.base /\ d.OCLIM = c.OCLIM
      /\ d.BOSCL = c.BOSCL /\ d.FRNCL = c.FRNCL /\ d.SRNCL = c.SRNCL /\ d.CMOFCL = n
      /\ d.LPTR = c.LPTR /\ d.attrib = c.attrib
  BY <1>1 DEF ObjectCode
<1> HIDE DEF d
<1>3. Sound(d) /\ Beside(c, d)
  BY <1>2 DEF Sound, Beside
<1> QED BY <1>2, <1>3 DEF d

\* Cells that the block has room for.
LEMMA EmitAllSound ==
  ASSUME NEW c, Sound(c), NEW cells \in Seq(Cells), At(c) + Len(cells) <= c.OCLIM + 7
  PROVE  LET d == EmitAll(c, cells)
         IN  Sound(d) /\ Beside(c, d) /\ d.CMOFCL = c.CMOFCL + Len(cells) /\ d.LPTR = c.LPTR
             /\ d.attrib = c.attrib
<1> DEFINE k == c.CMOFCL + 1
           e == PutAll(c, k, cells)
           n == c.CMOFCL + Len(cells)
           d == [e EXCEPT !.CMOFCL = n]
<1>1. c.CMOFCL \in Nat /\ c.base.at \in Nat /\ c.OCLIM \in Nat /\ Len(cells) \in Nat
  BY CodeAre DEF Sound
<1>2. k \in Nat /\ n \in Nat /\ c.base.at + k >= 1 /\ c.base.at + k + Len(cells) <= c.OCLIM + 8
  <2> DEFINE a == c.base.at
             m == c.CMOFCL
             l == Len(cells)
             lim == c.OCLIM
  <2>1. a \in Nat /\ m \in Nat /\ l \in Nat /\ lim \in Nat /\ a + m + l <= lim + 7
    BY <1>1 DEF At
  <2> HIDE DEF a, m, l, lim
  <2>2. m + 1 \in Nat /\ m + l \in Nat /\ a + (m + 1) >= 1 /\ a + (m + 1) + l <= lim + 8
    BY <2>1
  <2> QED BY <2>2 DEF a, m, l, lim
<1> HIDE DEF k
<1>3. Sound(e) /\ Beside(c, e) /\ e.CMOFCL = c.CMOFCL /\ e.LPTR = c.LPTR /\ e.attrib = c.attrib
  BY <1>2, PutAllSound
<1> HIDE DEF e
<1>4. EmitAll(c, cells) = d
  <2>1. EmitAll(c, cells) = [e EXCEPT !.CMOFCL = e.CMOFCL + Len(cells)]
    BY DEF EmitAll, e, k
  <2>2. e.CMOFCL + Len(cells) = n
    BY <1>3
  <2> QED BY <2>1, <2>2
<1> HIDE DEF n
<1>5. Sound(d) /\ Beside(e, d) /\ d.CMOFCL = n /\ d.LPTR = e.LPTR /\ d.attrib = e.attrib
  BY <1>2, <1>3, MovedSound
<1> HIDE DEF d
<1>6. Beside(c, d)
  BY <1>3, <1>5 DEF Beside
<1> QED BY <1>3, <1>4, <1>5, <1>6 DEF n

LEMMA CellIn ==
  ASSUME NEW n \in Nat
  PROVE  /\ \A op \in Ops : Cell(op, n) \in Cells
         /\ \A op \in {"INIT", "EROR", "END", "BASE", "GOTO", "GOTL", "GOTG", "stno", "line", "file",
                        "fail", "at", "block", "free"} : Cell(op, n) \in Cells
BY DEF Cell, Cells

LEMMA EmitSound ==
  ASSUME NEW c, Sound(c), NEW cell \in Cells, At(c) <= c.OCLIM + 6
  PROVE  LET d == Emit(c, cell)
         IN  Sound(d) /\ Beside(c, d) /\ d.CMOFCL = c.CMOFCL + 1 /\ d.LPTR = c.LPTR
             /\ d.attrib = c.attrib
<1> DEFINE cells == <<cell>>
<1>1. cells \in Seq(Cells) /\ Len(cells) = 1
  OBVIOUS
<1>2. Emit(c, cell) = EmitAll(c, cells)
  BY DEF Emit
<1>3. c.CMOFCL \in Nat /\ c.base.at \in Nat /\ c.OCLIM \in Nat
  BY CodeAre DEF Sound
<1>4. At(c) + Len(cells) <= c.OCLIM + 7
  BY <1>1, <1>3 DEF At
<1> HIDE DEF cells
<1> QED BY <1>1, <1>2, <1>4, EmitAllSound

\* A single cell behind the base.
LEMMA PutSound ==
  ASSUME NEW c, Sound(c), NEW cell \in Cells, NEW k \in Nat, c.base.at + k \in 1 .. c.OCLIM + 7
  PROVE  LET d == Put(c, k, cell)
         IN  Sound(d) /\ Beside(c, d) /\ d.CMOFCL = c.CMOFCL
<1> DEFINE cells == <<cell>>
<1>1. cells \in Seq(Cells) /\ Len(cells) = 1
  OBVIOUS
<1>2. Put(c, k, cell) = PutAll(c, k, cells)
  BY DEF Put
<1>3. c.base.at \in Nat /\ c.OCLIM \in Nat
  BY CodeAre DEF Sound
<1>4. c.base.at + k >= 1 /\ c.base.at + k + Len(cells) <= c.OCLIM + 8
  BY <1>1, <1>3
<1> HIDE DEF cells
<1> QED BY <1>1, <1>2, <1>4, PutAllSound

\* The goto to the next block fits into what is kept of a full one.
LEMMA ForwardSound ==
  ASSUME NEW c, Sound(c), NEW k \in Nat, c.base.at + k >= 1, k <= 1
  PROVE  LET d == Forward(c, k)
         IN  Sound(d) /\ Beside(c, d) /\ d.CMOFCL = c.CMOFCL /\ d.LPTR = c.LPTR /\ d.attrib = c.attrib
<1> DEFINE x == Cell("GOTG", 1)
           y == Cell("LIT", 1)
           z == Cell("block", Len(c.mem) + 1)
           cells == <<x, y, z>>
<1>1. c.mem \in Seq(Seq(Cells)) /\ c.base.at \in Nat /\ c.OCLIM \in Nat /\ c.base.at <= c.OCLIM + 1
  BY CodeAre DEF Sound
<1>2. x \in Cells /\ y \in Cells /\ z \in Cells
  <2>1. "LIT" \in Ops
    BY OpsAre
  <2>2. 1 \in Nat /\ Len(c.mem) + 1 \in Nat
    BY <1>1
  <2> QED BY <2>1, <2>2, CellIn
<1>3. Forward(c, k) = PutAll(c, k, cells)
  BY DEF Forward
<1> HIDE DEF x, y, z
<1>4. cells \in Seq(Cells) /\ Len(cells) = 3
  BY <1>2
<1> HIDE DEF cells
<1>5. c.base.at + k + Len(cells) <= c.OCLIM + 8
  BY <1>1, <1>4
<1> QED BY <1>3, <1>4, <1>5, PutAllSound

\* Offsets from the base stay what they are when the code moves to a new block.
Alike(c, d) == d.BOSCL = c.BOSCL /\ d.FRNCL = c.FRNCL /\ d.SRNCL = c.SRNCL

LEMMA FreeIn == Cell("free", 0) \in Cells
BY CellIn

NewBlock(c, block, base, lim, attrib) ==
    [c EXCEPT !.mem = Append(c.mem, block), !.base = base, !.OCLIM = lim, !.attrib = attrib]
LEMMA NewBlockSound ==
  ASSUME NEW c, Sound(c), NEW block \in Seq(Cells), NEW base \in Address, NEW lim \in Nat,
         NEW attrib \in [Labels -> Address], Len(block) = lim + 7, base.block = Len(c.mem) + 1,
         base.at <= lim + 1
  PROVE  LET d == NewBlock(c, block, base, lim, attrib)
         IN  Sound(d) /\ Alike(c, d) /\ d.CMOFCL = c.CMOFCL /\ d.base = base /\ d.OCLIM = lim
<1> DEFINE m == Append(c.mem, block)
           d == [c EXCEPT !.mem = m, !.base = base, !.OCLIM = lim, !.attrib = attrib]
<1>1. c \in ObjectCode /\ c.mem \in Seq(Seq(Cells)) /\ c.overrun = FALSE
  BY CodeAre DEF Sound
<1>2. m \in Seq(Seq(Cells)) /\ Len(m) = Len(c.mem) + 1 /\ m[Len(c.mem) + 1] = block /\ Len(c.mem) \in Nat
  BY <1>1
<1> HIDE DEF m
<1>3. d \in ObjectCode /\ d.mem = m /\ d.base = base /\ d.OCLIM = lim /\ d.overrun = c.overrun
      /\ d.CMOFCL = c.CMOFCL /\ d.BOSCL = c.BOSCL /\ d.FRNCL = c.FRNCL /\ d.SRNCL = c.SRNCL
  BY <1>1, <1>2 DEF ObjectCode
<1> HIDE DEF d
<1>4. d.base.block \in 1 .. Len(d.mem) /\ Len(d.mem[d.base.block]) = d.OCLIM + 7
  BY <1>2, <1>3
<1>5. Sound(d)
  BY <1>1, <1>3, <1>4 DEF Sound
<1>6. NewBlock(c, block, base, lim, attrib) = d
  BY DEF NewBlock, d, m
<1> QED BY <1>3, <1>5, <1>6 DEF Alike

LEMMA SplitSound ==
  ASSUME NEW c, Sound(c), At(c) <= c.OCLIM + 7
  PROVE  LET d == Split(c)
         IN  Sound(d) /\ Alike(c, d) /\ d.CMOFCL = c.CMOFCL /\ At(d) <= d.OCLIM
<1> DEFINE n == c.CMOFCL
           size1 == n + CODELT
           lim == n + CODELT - 7
           old == c.mem[c.base.block]
           free == Cell("free", 0)
           block == [k \in 1 .. size1 |-> IF k <= n THEN old[c.base.at + k] ELSE free]
           f == Forward(c, 1)
           base == [block |-> Len(c.mem) + 1, at |-> 0]
           attrib == IF c.LPTR = NoLabel THEN f.attrib ELSE [f.attrib EXCEPT ![c.LPTR] = base]
           d == NewBlock(f, block, base, lim, attrib)
<1>1. n \in Nat /\ c.base.at \in Nat /\ c.OCLIM \in Nat /\ Len(c.mem) \in Nat /\ c.mem \in Seq(Seq(Cells))
      /\ c.attrib \in [Labels -> Address] /\ c.base.at + n <= c.OCLIM + 7
  BY CodeAre DEF Sound, At
<1>2. Split(c) = d
  BY DEF Split, NewBlock
<1>3. size1 \in Nat /\ lim \in Nat /\ size1 = lim + 7 /\ n <= lim
  <2> HIDE DEF n
  <2> QED BY <1>1, SizesAssumption
<1>4. free \in Cells
  BY FreeIn
<1>5. \A k \in 1 .. size1 : (IF k <= n THEN old[c.base.at + k] ELSE free) \in Cells
  <2> TAKE k \in 1 .. size1
  <2>1. CASE k <= n
    <3> DEFINE j == c.base.at + k
    <3>1. j \in 1 .. c.OCLIM + 7
      BY <1>1, <1>3, <2>1
    <3> HIDE DEF j
    <3>2. old[j] \in Cells
      BY <3>1, BlockIs
    <3> QED BY <2>1, <3>2 DEF j
  <2>2. CASE ~ k <= n
    BY <1>4, <2>2
  <2> QED BY <2>1, <2>2
<1> HIDE DEF old, free
<1>6. block \in [1 .. size1 -> Cells]
  BY <1>5
<1> HIDE DEF block, size1
<1>7. block \in Seq(Cells) /\ Len(block) = lim + 7
  BY <1>3, <1>6
<1>8. Sound(f) /\ Beside(c, f) /\ f.CMOFCL = n /\ f.attrib = c.attrib
  <2>1. 1 \in Nat /\ c.base.at + 1 >= 1 /\ 1 <= 1
    BY <1>1
  <2> QED BY <2>1, ForwardSound
<1> HIDE DEF f, n
<1>9. base \in Address /\ base.at <= lim + 1 /\ base.block = Len(f.mem) + 1 /\ base.at = 0
  BY <1>1, <1>3, <1>8 DEF Address, Beside
<1> HIDE DEF base
<1>10. attrib \in [Labels -> Address]
  BY <1>1, <1>8, <1>9
<1> HIDE DEF attrib, lim
<1>11. Sound(d) /\ Alike(f, d) /\ d.CMOFCL = n /\ d.base = base /\ d.OCLIM = lim
  <2> HIDE DEF lim
  <2> QED BY <1>3, <1>7, <1>8, <1>9, <1>10, NewBlockSound
<1> HIDE DEF d
<1>12. At(d) <= d.OCLIM
  BY <1>1, <1>3, <1>9, <1>11 DEF At
<1>13. Alike(c, d)
  BY <1>8, <1>11 DEF Alike, Beside
<1> QED BY <1>2, <1>11, <1>12, <1>13 DEF n

\* A cell that is published leaves OCLIM ahead.
Within(c, d) == Sound(d) /\ Alike(c, d) /\ d.CMOFCL > c.CMOFCL /\ At(d) <= d.OCLIM

LEMMA PublishSound ==
  ASSUME NEW c, Sound(c), NEW cell \in Cells, At(c) <= c.OCLIM + 6
  PROVE  Within(c, Publish(c, cell))
<1> DEFINE e == Emit(c, cell)
           d == IF Full(e) THEN Split(e) ELSE e
<1>1. c.CMOFCL \in Nat /\ c.base.at \in Nat /\ c.OCLIM \in Nat
  BY CodeAre DEF Sound
<1>2. Sound(e) /\ Beside(c, e) /\ e.CMOFCL = c.CMOFCL + 1
  BY EmitSound
<1>3. Publish(c, cell) = d
  BY DEF Publish
<1> HIDE DEF e
<1>4. At(e) <= e.OCLIM + 7 /\ Alike(c, e) /\ e.CMOFCL > c.CMOFCL
  <2> DEFINE a == c.base.at
             m == c.CMOFCL
             lim == c.OCLIM
  <2>1. a \in Nat /\ m \in Nat /\ lim \in Nat /\ a + m <= lim + 6
    BY <1>1 DEF At
  <2>2. e.base.at = a /\ e.CMOFCL = m + 1 /\ e.OCLIM = lim
    BY <1>2 DEF Beside
  <2> HIDE DEF a, m, lim
  <2>3. a + (m + 1) <= lim + 7 /\ m + 1 > m
    BY <2>1
  <2>4. At(e) <= e.OCLIM + 7 /\ e.CMOFCL > m
    BY <2>2, <2>3 DEF At
  <2> QED BY <1>2, <2>4 DEF Beside, Alike, m
<1>5. CASE Full(e)
  <2>1. Sound(Split(e)) /\ Alike(e, Split(e)) /\ Split(e).CMOFCL = e.CMOFCL /\ At(Split(e)) <= Split(e).OCLIM
    BY <1>2, <1>4, SplitSound
  <2>2. Alike(c, Split(e))
    BY <1>4, <2>1 DEF Alike
  <2> QED BY <1>3, <1>4, <1>5, <2>1, <2>2 DEF Within
<1>6. CASE ~ Full(e)
  <2>1. At(e) <= e.OCLIM
    <3>1. e.base.at \in Nat /\ e.CMOFCL \in Nat /\ e.OCLIM \in Nat
      BY <1>2, CodeAre DEF Sound
    <3> QED BY <1>6, <3>1 DEF Full, At
  <2> QED BY <1>2, <1>3, <1>4, <1>6, <2>1 DEF Within
<1> QED BY <1>5, <1>6

\* What is published on the way, cell by cell.
Fit(c) == {d \in ObjectCode : Sound(d) /\ Alike(c, d) /\ d.CMOFCL >= c.CMOFCL /\ At(d) <= d.OCLIM + 6}

LEMMA FitSelf ==
  ASSUME NEW c, Sound(c), At(c) <= c.OCLIM + 6
  PROVE  c \in Fit(c)
<1>1. c \in ObjectCode /\ c.CMOFCL \in Nat
  BY CodeAre DEF Sound
<1> QED BY <1>1 DEF Fit, Alike

LEMMA FitWithin ==
  ASSUME NEW c, Sound(c), NEW d \in Fit(c), NEW e, Within(d, e)
  PROVE  Within(c, e) /\ e \in Fit(c)
<1>1. Sound(d) /\ Alike(c, d) /\ d.CMOFCL >= c.CMOFCL
  BY DEF Fit
<1>2. Sound(e) /\ Alike(d, e) /\ e.CMOFCL > d.CMOFCL /\ At(e) <= e.OCLIM
  BY DEF Within
<1>3. c.CMOFCL \in Nat /\ d.CMOFCL \in Nat /\ e.CMOFCL \in Nat /\ e.OCLIM \in Nat /\ e.base.at \in Nat
      /\ e \in ObjectCode
  BY <1>1, <1>2, CodeAre DEF Sound
<1>4. e.CMOFCL > c.CMOFCL /\ e.CMOFCL >= c.CMOFCL
  BY <1>1, <1>2, <1>3
<1>5. Alike(c, e)
  BY <1>1, <1>2 DEF Alike
<1>6. At(e) <= e.OCLIM + 6
  <2>1. At(e) \in Nat
    BY <1>3 DEF At
  <2> QED BY <1>2, <1>3, <2>1
<1> QED BY <1>2, <1>3, <1>4, <1>5, <1>6 DEF Within, Fit

LEMMA FitPublish ==
  ASSUME NEW c, Sound(c), NEW d \in Fit(c), NEW cell \in Cells
  PROVE  Within(c, Publish(d, cell)) /\ Publish(d, cell) \in Fit(c)
<1>1. Sound(d) /\ At(d) <= d.OCLIM + 6
  BY DEF Fit
<1>2. Within(d, Publish(d, cell))
  BY <1>1, PublishSound
<1> QED BY <1>2, FitWithin

LEMMA TREPUBSound ==
  ASSUME Linked(T), NEW k \in 1 .. Len(T), NEW c, Sound(c), At(c) <= c.OCLIM + 6
  PROVE  Within(c, TREPUB(c, k))
<1> DEFINE cells == Flat(T, k)
           N == Len(cells)
           upto == CHOOSE g : g = [i \in 0 .. Len(cells) |-> IF i = 0 THEN c ELSE Publish(g[i - 1], cells[i])]
           Dom == Fit(c)
           step == [i \in 1 .. N |-> [d \in Dom |-> Publish(d, cells[i])]]
<1>1. TREPUB(c, k) = upto[N]
  BY DEF TREPUB
<1>2. N \in Nat /\ N >= 1 /\ \A i \in 1 .. N : cells[i] \in Cells
  <2>1. cells \in Seq(Cells) /\ Len(cells) >= 1
    BY FlatRight
  <2> HIDE DEF cells
  <2> QED BY <2>1
<1> HIDE DEF cells
<1>3. c \in Dom
  BY FitSelf
<1>4. \A i \in 1 .. N : \A d \in Dom : Publish(d, cells[i]) \in Dom /\ Within(c, Publish(d, cells[i]))
  BY <1>2, FitPublish
<1> HIDE DEF Dom, upto
<1>5. step \in [1 .. N -> [Dom -> Dom]]
  BY <1>4
<1> HIDE DEF step, N
<1>6. Recurs(Dom, c, N, step)
  BY <1>2, <1>3, <1>5, Recursion
<1>7. PICK h \in [0 .. N -> Dom] : h[0] = c /\ \A i \in 1 .. N : h[i] = step[i][h[i - 1]]
  BY <1>6 DEF Recurs
<1>8. ASSUME NEW i \in 0 .. N PROVE h[i] = IF i = 0 THEN c ELSE Publish(h[i - 1], cells[i])
  <2>1. CASE i = 0
    BY <1>7, <2>1
  <2>2. CASE i # 0
    <3>1. i \in 1 .. N /\ i - 1 \in 0 .. N
      BY <1>2, <2>2
    <3>2. h[i - 1] \in Dom
      BY <3>1
    <3>3. step[i][h[i - 1]] = Publish(h[i - 1], cells[i])
      BY <3>1, <3>2 DEF step
    <3> QED BY <1>7, <2>2, <3>1, <3>3
  <2> QED BY <2>1, <2>2
<1>9. h = [i \in 0 .. N |-> IF i = 0 THEN c ELSE Publish(h[i - 1], cells[i])]
  BY <1>8
<1>10. upto = [i \in 0 .. N |-> IF i = 0 THEN c ELSE Publish(upto[i - 1], cells[i])]
  <2>1. \E g : g = [i \in 0 .. N |-> IF i = 0 THEN c ELSE Publish(g[i - 1], cells[i])]
    BY <1>9
  <2> QED BY <2>1, Zenon DEF upto, N
<1>11. upto[0] = c /\ \A i \in 1 .. N : upto[i] = Publish(upto[i - 1], cells[i])
  <2> DEFINE g == [i \in 0 .. N |-> IF i = 0 THEN c ELSE Publish(upto[i - 1], cells[i])]
  <2>1. g[0] = c /\ \A i \in 1 .. N : g[i] = Publish(upto[i - 1], cells[i])
    BY <1>2
  <2>2. upto = g
    BY <1>10
  <2> HIDE DEF g
  <2> QED BY <2>1, <2>2
<1>12. 0 .. N \subseteq {i \in 0 .. N : upto[i] \in Dom}
  <2> DEFINE X == {i \in 0 .. N : upto[i] \in Dom}
  <2>1. 0 \in X
    BY <1>2, <1>3, <1>11
  <2>2. ASSUME NEW i \in 1 .. N, i - 1 \in X PROVE i \in X
    <3>1. upto[i] = Publish(upto[i - 1], cells[i]) /\ upto[i - 1] \in Dom /\ i \in 0 .. N
      BY <1>2, <1>11, <2>2
    <3> QED BY <1>4, <3>1
  <2> HIDE DEF X
  <2>3. 0 .. N \subseteq X
    BY <1>2, <2>1, <2>2, Counting
  <2> QED BY <2>3 DEF X
<1>13. N \in 1 .. N /\ N - 1 \in 0 .. N
  BY <1>2
<1>14. upto[N] = Publish(upto[N - 1], cells[N]) /\ upto[N - 1] \in Dom
  BY <1>11, <1>12, <1>13
<1> QED BY <1>1, <1>4, <1>13, <1>14

LEMMA FitTREPUB ==
  ASSUME Linked(T), NEW c, Sound(c), NEW d \in Fit(c), NEW k \in 1 .. Len(T)
  PROVE  Within(c, TREPUB(d, k)) /\ TREPUB(d, k) \in Fit(c)
<1>1. Sound(d) /\ At(d) <= d.OCLIM + 6
  BY DEF Fit
<1>2. Within(d, TREPUB(d, k))
  BY <1>1, TREPUBSound
<1> QED BY <1>2, FitWithin

\* An operator, and its operands after it.
LEMMA PublishAllSound ==
  ASSUME Linked(T), NEW nodes \in Seq(1 .. Len(T)), Len(nodes) >= 1, NEW cell \in Cells,
         NEW c, Sound(c), At(c) <= c.OCLIM + 5
  PROVE  Within(c, PublishAll(c, cell, nodes))
<1> DEFINE N == Len(nodes)
           base == Emit(c, cell)
           upto == CHOOSE g : g = [i \in 0 .. Len(nodes) |-> IF i = 0 THEN Emit(c, cell)
                                                              ELSE TREPUB(g[i - 1], nodes[i])]
           Dom == Fit(c)
           step == [i \in 1 .. N |-> [d \in Dom |-> TREPUB(d, nodes[i])]]
<1>1. PublishAll(c, cell, nodes) = upto[N]
  BY DEF PublishAll
<1>2. N \in Nat /\ N >= 1 /\ \A i \in 1 .. N : nodes[i] \in 1 .. Len(T)
  OBVIOUS
<1>3. base \in Dom
  <2>1. c.CMOFCL \in Nat /\ c.base.at \in Nat /\ c.OCLIM \in Nat
    BY CodeAre DEF Sound
  <2> DEFINE a == c.base.at
             m == c.CMOFCL
             lim == c.OCLIM
  <2>2. a \in Nat /\ m \in Nat /\ lim \in Nat /\ a + m <= lim + 5 /\ At(c) = a + m
    BY <2>1 DEF At
  <2> HIDE DEF a, m, lim
  <2>3. a + m <= lim + 6 /\ a + (m + 1) <= lim + 6 /\ m + 1 >= m
    BY <2>2
  <2>4. Sound(base) /\ Beside(c, base) /\ base.CMOFCL = m + 1
    <3>1. At(c) <= c.OCLIM + 6
      BY <2>2, <2>3 DEF lim
    <3> QED BY <3>1, EmitSound DEF m
  <2> HIDE DEF base
  <2>5. At(base) <= base.OCLIM + 6 /\ base.CMOFCL >= c.CMOFCL
    BY <2>3, <2>4 DEF At, Beside, a, m, lim
  <2> QED BY <2>4, <2>5 DEF Fit, Sound, Alike, Beside
<1>4. \A i \in 1 .. N : \A d \in Dom : TREPUB(d, nodes[i]) \in Dom /\ Within(c, TREPUB(d, nodes[i]))
  BY <1>2, FitTREPUB
<1> HIDE DEF Dom, upto, base
<1>5. step \in [1 .. N -> [Dom -> Dom]]
  BY <1>4
<1> HIDE DEF step, N
<1>6. Recurs(Dom, base, N, step)
  BY <1>2, <1>3, <1>5, Recursion
<1>7. PICK h \in [0 .. N -> Dom] : h[0] = base /\ \A i \in 1 .. N : h[i] = step[i][h[i - 1]]
  BY <1>6 DEF Recurs
<1>8. ASSUME NEW i \in 0 .. N PROVE h[i] = IF i = 0 THEN base ELSE TREPUB(h[i - 1], nodes[i])
  <2>1. CASE i = 0
    BY <1>7, <2>1
  <2>2. CASE i # 0
    <3>1. i \in 1 .. N /\ i - 1 \in 0 .. N
      BY <1>2, <2>2
    <3>2. h[i - 1] \in Dom
      BY <3>1
    <3>3. step[i][h[i - 1]] = TREPUB(h[i - 1], nodes[i])
      BY <3>1, <3>2 DEF step
    <3> QED BY <1>7, <2>2, <3>1, <3>3
  <2> QED BY <2>1, <2>2
<1>9. h = [i \in 0 .. N |-> IF i = 0 THEN base ELSE TREPUB(h[i - 1], nodes[i])]
  BY <1>8
<1>10. upto = [i \in 0 .. N |-> IF i = 0 THEN base ELSE TREPUB(upto[i - 1], nodes[i])]
  <2>1. \E g : g = [i \in 0 .. N |-> IF i = 0 THEN base ELSE TREPUB(g[i - 1], nodes[i])]
    BY <1>9
  <2> QED BY <2>1, Zenon DEF upto, N, base
<1>11. upto[0] = base /\ \A i \in 1 .. N : upto[i] = TREPUB(upto[i - 1], nodes[i])
  <2> DEFINE g == [i \in 0 .. N |-> IF i = 0 THEN base ELSE TREPUB(upto[i - 1], nodes[i])]
  <2>1. g[0] = base /\ \A i \in 1 .. N : g[i] = TREPUB(upto[i - 1], nodes[i])
    BY <1>2
  <2>2. upto = g
    BY <1>10
  <2> HIDE DEF g
  <2> QED BY <2>1, <2>2
<1>12. 0 .. N \subseteq {i \in 0 .. N : upto[i] \in Dom}
  <2> DEFINE X == {i \in 0 .. N : upto[i] \in Dom}
  <2>1. 0 \in X
    BY <1>2, <1>3, <1>11
  <2>2. ASSUME NEW i \in 1 .. N, i - 1 \in X PROVE i \in X
    <3>1. upto[i] = TREPUB(upto[i - 1], nodes[i]) /\ upto[i - 1] \in Dom /\ i \in 0 .. N
      BY <1>2, <1>11, <2>2
    <3> QED BY <1>4, <3>1
  <2> HIDE DEF X
  <2>3. 0 .. N \subseteq X
    BY <1>2, <2>1, <2>2, Counting
  <2> QED BY <2>3 DEF X
<1>13. N \in 1 .. N /\ N - 1 \in 0 .. N
  BY <1>2
<1>14. upto[N] = TREPUB(upto[N - 1], nodes[N]) /\ upto[N - 1] \in Dom
  BY <1>11, <1>12, <1>13
<1> QED BY <1>1, <1>4, <1>13, <1>14

LEMMA FailHereSound ==
  ASSUME NEW c, Sound(c), c.FRNCL \in 1 .. c.CMOFCL, At(c) <= c.OCLIM + 7
  PROVE  Sound(FailHere(c)) /\ Beside(c, FailHere(c)) /\ FailHere(c).CMOFCL = c.CMOFCL
<1> DEFINE cell == Cell("fail", c.CMOFCL)
           k == c.FRNCL
<1>1. c.CMOFCL \in Nat /\ c.base.at \in Nat /\ c.OCLIM \in Nat /\ k \in Nat
  BY CodeAre DEF Sound
<1>2. cell \in Cells
  BY <1>1, CellIn
<1>3. FailHere(c) = Put(c, k, cell)
  BY DEF FailHere
<1>4. c.base.at + k \in 1 .. c.OCLIM + 7
  BY <1>1 DEF At
<1> HIDE DEF cell, k
<1> QED BY <1>1, <1>2, <1>3, <1>4, PutSound

\* The base is where the next cell is.
Based(c, base) == [c EXCEPT !.base = base]
Reset(c) == [c EXCEPT !.CMOFCL = 0, !.BOSCL = 0]

LEMMA BasedSound ==
  ASSUME NEW c, Sound(c), NEW base \in Address, base.block = c.base.block, base.at <= c.OCLIM + 1
  PROVE  LET d == Based(c, base)
         IN  Sound(d) /\ d.base = base /\ d.OCLIM = c.OCLIM /\ Len(d.mem) = Len(c.mem) /\ d.attrib = c.attrib
<1> DEFINE d == [c EXCEPT !.base = base]
<1>1. c \in ObjectCode /\ c.overrun = FALSE
  BY DEF Sound
<1>2. d \in ObjectCode /\ d.mem = c.mem /\ d.overrun = c.overrun /\ d.base = base /\ d.OCLIM = c.OCLIM
      /\ d.attrib = c.attrib
  BY <1>1 DEF ObjectCode
<1>3. Based(c, base) = d
  BY DEF Based
<1> HIDE DEF d
<1>4. Sound(d)
  BY <1>1, <1>2 DEF Sound
<1> QED BY <1>2, <1>3, <1>4

LEMMA ResetSound ==
  ASSUME NEW c, Sound(c)
  PROVE  LET d == Reset(c)
         IN  Sound(d) /\ d.base = c.base /\ d.OCLIM = c.OCLIM /\ d.CMOFCL = 0 /\ d.BOSCL = 0
<1> DEFINE d == [c EXCEPT !.CMOFCL = 0, !.BOSCL = 0]
<1>1. c \in ObjectCode /\ c.overrun = FALSE
  BY DEF Sound
<1>2. d \in ObjectCode /\ d.mem = c.mem /\ d.overrun = c.overrun /\ d.base = c.base /\ d.OCLIM = c.OCLIM
      /\ d.CMOFCL = 0 /\ d.BOSCL = 0
  BY <1>1 DEF ObjectCode
<1>3. Reset(c) = d
  BY DEF Reset
<1> HIDE DEF d
<1>4. Sound(d)
  BY <1>1, <1>2 DEF Sound
<1> QED BY <1>2, <1>3, <1>4

LEMMA RebaseSound ==
  ASSUME NEW c, Sound(c), At(c) <= c.OCLIM
  PROVE  LET d == Rebase(c) IN Sound(d) /\ At(d) <= d.OCLIM /\ d.CMOFCL = 0 /\ d.BOSCL = 0
<1> DEFINE mark == Cell("BASE", 0)
           e == Emit(c, mark)
           to == [e.base EXCEPT !.at = @ + e.CMOFCL]
           here == Based(e, to)
           block == [Empty(CODELT) EXCEPT ![1] = mark]
           f == Forward(here, 0)
           base == [block |-> Len(c.mem) + 1, at |-> 1]
           lim == CODELT - 7
           new == NewBlock(f, block, base, lim, f.attrib)
           moved == IF here.base.at < c.OCLIM THEN here ELSE new
<1>1. c.CMOFCL \in Nat /\ c.base.at \in Nat /\ c.base.block \in Nat /\ c.OCLIM \in Nat /\ Len(c.mem) \in Nat
      /\ c.mem \in Seq(Seq(Cells)) /\ c.base \in Address
  BY CodeAre DEF Sound
<1>2. mark \in Cells
  BY CellIn
<1>3. Sound(e) /\ Beside(c, e) /\ e.CMOFCL = c.CMOFCL + 1 /\ e.attrib = c.attrib
  <2>1. At(c) <= c.OCLIM + 6
    BY <1>1 DEF At
  <2> HIDE DEF mark
  <2> QED BY <1>2, <2>1, EmitSound
<1>4. to \in Address /\ to.block = c.base.block /\ to.at = At(c) + 1 /\ to.at \in Nat /\ to.at <= c.OCLIM + 1
  <2>1. e.base = c.base /\ to = [c.base EXCEPT !.at = c.base.at + (c.CMOFCL + 1)]
    BY <1>3 DEF Beside
  <2> HIDE DEF to, e
  <2>2. to \in Address /\ to.block = c.base.block /\ to.at = c.base.at + (c.CMOFCL + 1)
    BY <1>1, <2>1 DEF Address
  <2> QED BY <1>1, <2>2 DEF At
<1> HIDE DEF to, e
<1>5. Sound(here) /\ here.base = to /\ here.OCLIM = c.OCLIM /\ Len(here.mem) = Len(c.mem)
      /\ here.attrib = c.attrib
  BY <1>3, <1>4, BasedSound DEF Beside
<1> HIDE DEF here
<1>6. Sound(f) /\ Beside(here, f) /\ f.attrib = here.attrib
  <2>1. 0 \in Nat /\ here.base.at + 0 >= 1 /\ 0 <= 1
    <3>1. At(c) \in Nat
      BY <1>1 DEF At
    <3> QED BY <1>4, <1>5, <3>1
  <2> QED BY <1>5, <2>1, ForwardSound
<1> HIDE DEF f
<1>7. block \in Seq(Cells) /\ Len(block) = lim + 7 /\ lim \in Nat /\ lim >= 2
  <2>1. Empty(CODELT) \in [1 .. CODELT -> Cells] /\ CODELT \in Nat /\ CODELT > 8
    BY FreeIn, SizesAssumption DEF Empty
  <2> HIDE DEF mark
  <2>2. block \in [1 .. CODELT -> Cells]
    BY <1>2, <2>1
  <2> HIDE DEF block
  <2>3. block \in Seq(Cells) /\ Len(block) = CODELT
    BY <2>1, <2>2
  <2> QED BY <2>1, <2>3
<1> HIDE DEF block, lim
<1>8. base \in Address /\ base.block = Len(f.mem) + 1 /\ base.at <= lim + 1 /\ base.at = 1
  BY <1>1, <1>5, <1>6, <1>7 DEF Address, Beside
<1> HIDE DEF base
<1>9. Sound(new) /\ new.base = base /\ new.OCLIM = lim
  <2>1. f.attrib \in [Labels -> Address]
    BY <1>6, CodeAre DEF Sound
  <2> DEFINE attrib == f.attrib
  <2>2. attrib \in [Labels -> Address] /\ new = NewBlock(f, block, base, lim, attrib)
    BY <2>1
  <2> HIDE DEF attrib, new
  <2> QED BY <1>6, <1>7, <1>8, <2>2, NewBlockSound
<1> HIDE DEF new
<1>10. Sound(moved) /\ moved.base.at \in Nat /\ moved.base.at <= moved.OCLIM
  <2>1. CASE here.base.at < c.OCLIM
    BY <1>1, <1>4, <1>5, <2>1
  <2>2. CASE ~ here.base.at < c.OCLIM
    BY <1>7, <1>8, <1>9, <2>2
  <2> QED BY <2>1, <2>2
<1>11. Rebase(c) = Reset(moved)
  <2>1. new = [f EXCEPT !.mem = Append(@, block), !.OCLIM = lim, !.base = base]
    <3>1. f \in ObjectCode
      BY <1>6 DEF Sound
    <3> QED BY <3>1 DEF new, NewBlock, ObjectCode
  <2>2. here = [e EXCEPT !.base.at = @ + e.CMOFCL]
    BY DEF here, to, Based
  <2> QED BY <2>1, <2>2 DEF Rebase, Reset, e, f, block, base, lim
<1> HIDE DEF moved
<1>12. Sound(Reset(moved)) /\ Reset(moved).base = moved.base /\ Reset(moved).OCLIM = moved.OCLIM
       /\ Reset(moved).CMOFCL = 0 /\ Reset(moved).BOSCL = 0
  BY <1>10, ResetSound
<1>13. At(Reset(moved)) <= Reset(moved).OCLIM
  BY <1>10, <1>12 DEF At
<1> QED BY <1>11, <1>12, <1>13

Named(c, l, attrib) == [c EXCEPT !.LPTR = l, !.attrib = attrib]
LEMMA NamedSound ==
  ASSUME NEW c, Sound(c), NEW l \in Labels, NEW attrib \in [Labels -> Address]
  PROVE  LET d == Named(c, l, attrib)
         IN  Sound(d) /\ d.base = c.base /\ d.OCLIM = c.OCLIM /\ d.CMOFCL = c.CMOFCL /\ d.BOSCL = c.BOSCL
<1> DEFINE d == [c EXCEPT !.LPTR = l, !.attrib = attrib]
<1>1. c \in ObjectCode /\ c.overrun = FALSE
  BY DEF Sound
<1>2. d \in ObjectCode /\ d.mem = c.mem /\ d.overrun = c.overrun /\ d.base = c.base /\ d.OCLIM = c.OCLIM
      /\ d.CMOFCL = c.CMOFCL /\ d.BOSCL = c.BOSCL
  BY <1>1 DEF ObjectCode
<1>3. Named(c, l, attrib) = d
  BY DEF Named
<1> HIDE DEF d
<1>4. Sound(d)
  BY <1>1, <1>2 DEF Sound
<1> QED BY <1>2, <1>3, <1>4

LEMMA LabelledSound ==
  ASSUME NEW c, Sound(c), At(c) <= c.OCLIM, NEW l \in Labels
  PROVE  Sound(Labelled(c, l)) /\ At(Labelled(c, l)) <= Labelled(c, l).OCLIM
<1> DEFINE n == Rebase(c)
           attrib == [n.attrib EXCEPT ![l] = n.base]
<1>1. Sound(n) /\ At(n) <= n.OCLIM
  BY RebaseSound
<1>2. Labelled(c, l) = Named(n, l, attrib)
  BY DEF Labelled, Named
<1> HIDE DEF n
<1>3. attrib \in [Labels -> Address]
  <2>1. n.attrib \in [Labels -> Address] /\ n.base \in Address
    BY <1>1, CodeAre DEF Sound
  <2> QED BY <2>1
<1> HIDE DEF attrib
<1> DEFINE d == Named(n, l, attrib)
<1>4. Sound(d) /\ d.base = n.base /\ d.OCLIM = n.OCLIM /\ d.CMOFCL = n.CMOFCL
  BY <1>1, <1>3, NamedSound
<1> HIDE DEF d
<1>5. At(d) <= d.OCLIM
  BY <1>1, <1>4 DEF At
<1> QED BY <1>2, <1>4, <1>5 DEF d

LEMMA FourIn ==
  ASSUME NEW a \in Cells, NEW b \in Cells, NEW c \in Cells, NEW d \in Cells
  PROVE  <<a, b, c, d>> \in Seq(Cells) /\ Len(<<a, b, c, d>>) = 4
OBVIOUS

LEMMA BegunSound ==
  ASSUME NEW c, Sound(c), At(c) <= c.OCLIM
  PROVE  LET d == Begun(c)
         IN  Sound(d) /\ At(d) = At(c) + 4 /\ d.OCLIM = c.OCLIM /\ d.FRNCL \in 1 .. d.CMOFCL
<1> DEFINE m == c.CMOFCL
           k == m + 2
           e == [c EXCEPT !.FRNCL = k]
           x == Cell("INIT", 1)
           y == Cell("free", 0)
           z == Cell("line", 0)
           w == Cell("file", 0)
           cells == <<x, y, z, w>>
           d == EmitAll(e, cells)
<1>1. c \in ObjectCode /\ c.overrun = FALSE /\ m \in Nat /\ c.base.at \in Nat /\ c.OCLIM \in Nat
  BY CodeAre DEF Sound
<1>2. Begun(c) = d
  BY DEF Begun
<1> HIDE DEF m
<1>3. k \in Nat
  BY <1>1
<1>4. e \in ObjectCode /\ e.mem = c.mem /\ e.overrun = c.overrun /\ e.base = c.base /\ e.OCLIM = c.OCLIM
      /\ e.CMOFCL = m /\ e.FRNCL = k
  BY <1>1, <1>3 DEF ObjectCode, m
<1> HIDE DEF e, k
<1>5. Sound(e) /\ At(e) = At(c)
  BY <1>1, <1>4 DEF Sound, At, m
<1>6. x \in Cells /\ y \in Cells /\ z \in Cells /\ w \in Cells
  BY CellIn
<1> HIDE DEF x, y, z, w
<1>7. cells \in Seq(Cells) /\ Len(cells) = 4
  BY <1>6, FourIn
<1> HIDE DEF cells
<1>8. At(e) + Len(cells) <= e.OCLIM + 7
  <2>1. At(c) \in Nat
    BY <1>1 DEF At, m
  <2> QED BY <1>1, <1>4, <1>5, <1>7, <2>1
<1>9. Sound(d) /\ Beside(e, d) /\ d.CMOFCL = m + 4
  BY <1>4, <1>5, <1>7, <1>8, EmitAllSound
<1> HIDE DEF d
<1>10. d.base = c.base /\ d.OCLIM = c.OCLIM /\ d.FRNCL = m + 2
  BY <1>4, <1>9 DEF Beside, k
<1>11. At(d) = At(c) + 4
  BY <1>1, <1>9, <1>10 DEF At, m
<1>12. d.FRNCL \in 1 .. d.CMOFCL
  BY <1>1, <1>9, <1>10
<1> QED BY <1>2, <1>9, <1>10, <1>11, <1>12

LEMMA DiagnosedSound ==
  ASSUME \E S : program \in Seq(S), NEW c, Sound(c), c.base.at + c.BOSCL + 4 <= c.OCLIM
  PROVE  Sound(Diagnosed(c)) /\ At(Diagnosed(c)) <= Diagnosed(c).OCLIM
<1> DEFINE m == c.BOSCL
           e == [c EXCEPT !.CMOFCL = m]
           no == Len(program) + 1
           x == Cell("EROR", no)
           y == Cell("stno", 0)
           z == Cell("line", 0)
           w == Cell("file", 0)
           cells == <<x, y, z, w>>
           d == EmitAll(e, cells)
<1>1. m \in Nat /\ c.base.at \in Nat /\ c.OCLIM \in Nat /\ no \in Nat
  <2>1. Len(program) \in Nat
    OBVIOUS
  <2> QED BY <2>1, CodeAre DEF Sound
<1>2. Diagnosed(c) = d
  BY DEF Diagnosed
<1> HIDE DEF m, no
<1>3. Sound(e) /\ Beside(c, e) /\ e.CMOFCL = m
  BY <1>1, MovedSound
<1> HIDE DEF e
<1>4. x \in Cells /\ y \in Cells /\ z \in Cells /\ w \in Cells
  BY <1>1, CellIn
<1> HIDE DEF x, y, z, w
<1>5. cells \in Seq(Cells) /\ Len(cells) = 4
  BY <1>4, FourIn
<1> HIDE DEF cells
<1>6. At(e) + Len(cells) <= e.OCLIM + 7
  <2>1. e.base.at = c.base.at /\ e.OCLIM = c.OCLIM /\ c.base.at + m + 4 <= c.OCLIM
    BY <1>3 DEF Beside, m
  <2>2. At(e) = c.base.at + m
    BY <1>3, <2>1 DEF At
  <2> QED BY <1>1, <1>5, <2>1, <2>2
<1>7. Sound(d) /\ Beside(e, d) /\ d.CMOFCL = m + 4
  BY <1>3, <1>5, <1>6, EmitAllSound
<1> HIDE DEF d
<1>8. At(d) <= d.OCLIM
  <2>1. d.base.at = c.base.at /\ d.OCLIM = c.OCLIM /\ c.base.at + m + 4 <= c.OCLIM
    BY <1>3, <1>7 DEF Beside, m
  <2> QED BY <1>1, <1>7, <2>1 DEF At
<1> QED BY <1>2, <1>7, <1>8

-----------------------------------------------------------------------------
(* The invariant of the object code.  Up to four cells, those of INIT, are *)
(* behind OCLIM while the statement's first expression is read; what is    *)
(* published after it brings the code back below.                          *)
Resting == {"label", "body", "goto", "end", "success", "failure"}
CodeGood(c, td, s) ==
    /\ Sound(c) /\ At(c) <= c.OCLIM + 4
    /\ td \in Resting \/ Bottom(s) \in Goals => At(c) <= c.OCLIM
    /\ ~ td \in {"label", "body", "stop"} => c.FRNCL \in 1 .. c.CMOFCL
CodeInv == CodeGood(code, todo, calls) /\ \E S : program \in Seq(S)

LEMMA CodeFacts ==
  ASSUME CodeInv
  PROVE  /\ Sound(code) /\ At(code) <= code.OCLIM + 4 /\ At(code) \in Nat /\ code.OCLIM \in Nat
         /\ At(code) <= code.OCLIM + 5 /\ At(code) <= code.OCLIM + 6 /\ At(code) <= code.OCLIM + 7
         /\ todo \in Resting \/ Bottom(calls) \in Goals => At(code) <= code.OCLIM
         /\ ~ todo \in {"label", "body", "stop"} => code.FRNCL \in 1 .. code.CMOFCL
<1>1. Sound(code) /\ At(code) <= code.OCLIM + 4
  BY DEF CodeInv, CodeGood
<1>2. At(code) \in Nat /\ code.OCLIM \in Nat
  BY <1>1, CodeAre DEF Sound, At
<1>3. At(code) <= code.OCLIM + 5 /\ At(code) <= code.OCLIM + 6 /\ At(code) <= code.OCLIM + 7
  BY <1>1, <1>2
<1> QED BY <1>1, <1>2, <1>3 DEF CodeInv, CodeGood

LEMMA StatementsSeq ==
  ASSUME \E S : program \in Seq(S), NEW s, program' = Append(program, s)
  PROVE  \E S : program' \in Seq(S)
<1>1. PICK S : program \in Seq(S)
  OBVIOUS
<1> DEFINE S2 == S \cup {s}
<1>2. program \in Seq(S2) /\ s \in S2
  BY <1>1
<1> HIDE DEF S2
<1>3. program' \in Seq(S2)
  BY <1>2
<1> QED BY <1>3

LEMMA NextStatementCode ==
  ASSUME CodeInv, NEW c, Sound(c), At(c) <= c.OCLIM, NEW s, NextStatement(c, s)
  PROVE  CodeInv'
<1>1. code' = c /\ todo' = "label" /\ program' = Append(program, s)
  BY Zenon DEF NextStatement, Done
<1>2. \E S : program' \in Seq(S)
  BY <1>1, StatementsSeq DEF CodeInv
<1>3. At(c) <= c.OCLIM + 4
  <2>1. At(c) \in Nat /\ c.OCLIM \in Nat
    BY CodeAre DEF Sound, At
  <2> QED BY <2>1
<1> DEFINE s2 == calls'
<1>4. CodeGood(c, "label", s2)
  <2> HIDE DEF s2
  <2> QED BY <1>3 DEF CodeGood
<1> QED BY <1>1, <1>2, <1>4 DEF CodeInv

\* While an expression is read, the statement's procedure stays at the bottom.
LEMMA BottomEXPR ==
  ASSUME NEW S, NEW s \in Seq(S), s # <<>>, NEW p, NEW node, NEW close
  PROVE  Bottom(EXPR(s, p, node, close)) = Bottom(s)
<1> DEFINE a == Frame(p, node, close)
           b == Frame("EXPR", 0, "")
           u == s \o <<a, b>>
           S2 == S \cup {a, b}
<1>1. EXPR(s, p, node, close) = u
  BY Zenon DEF EXPR
<1> HIDE DEF a, b
<1>2. s \in Seq(S2) /\ a \in S2 /\ b \in S2
  OBVIOUS
<1> HIDE DEF S2
<1>3. u # <<>> /\ u[1] = s[1]
  BY <1>2
<1> HIDE DEF u
<1> QED BY <1>1, <1>3 DEF Bottom

LEMMA BottomFirst ==
  ASSUME NEW p, NEW node, NEW close
  PROVE  Bottom(EXPR(<<>>, p, node, close)) = p
<1> DEFINE a == Frame(p, node, close)
           b == Frame("EXPR", 0, "")
           u == <<>> \o <<a, b>>
<1>1. EXPR(<<>>, p, node, close) = u
  BY Zenon DEF EXPR
<1>2. a.proc = p
  BY DEF Frame
<1> HIDE DEF a, b
<1>3. u # <<>> /\ u[1] = a
  OBVIOUS
<1> HIDE DEF u
<1> QED BY <1>1, <1>2, <1>3 DEF Bottom

LEMMA BottomAppend ==
  ASSUME NEW S, NEW s \in Seq(S), s # <<>>, NEW f
  PROVE  Bottom(Append(s, f)) = Bottom(s)
<1> DEFINE S2 == S \cup {f}
           u == Append(s, f)
<1>1. s \in Seq(S2) /\ f \in S2
  OBVIOUS
<1> HIDE DEF S2
<1>2. u # <<>> /\ u[1] = s[1]
  BY <1>1
<1> HIDE DEF u
<1> QED BY <1>2 DEF Bottom, u

LEMMA BottomBelow ==
  ASSUME TreeInv, calls # <<>>, Bottom(Below) \in Goals
  PROVE  Below # <<>> /\ Bottom(calls) = Bottom(Below)
<1>1. Stack(T, calls)
  BY TreeFacts
<1> DEFINE none == ""
<1>2. ~ none \in Goals
  BY Zenon DEF Goals
<1>3. Below # <<>>
  <2> SUFFICES ASSUME Below = <<>> PROVE FALSE
    OBVIOUS
  <2>1. Bottom(Below) = none
    BY Zenon DEF Bottom
  <2> QED BY <1>2, <2>1, Zenon
<1> HIDE DEF none
<1> QED BY <1>1, <1>3, StackPop DEF Below

Reading == {"element", "unary", "tail", "binop", "value"}
Onward == {"element", "unary", "tail", "binop", "value", "subject"}
\* What reading an expression leaves alone.
Aside == code' = code /\ program' = program /\ SPITCL' = SPITCL /\ todo \in Reading /\ todo' \in Onward

LEMMA ExpressionAside ==
  ASSUME ReadsExpression
  PROVE  /\ Aside
         /\ \/ calls' = calls
            \/ \E p, node, close : calls' = EXPR(calls, p, node, close)
            \/ \E f : calls' = Append(calls, f)
            \/ calls' = Below
            \/ Top.proc \in Inside /\ \E p, node, close : calls' = EXPR(Below, p, node, close)
<1>1. CASE UNOP("MNS")
  <2>1. todo \in Reading /\ todo' \in Onward
    BY <1>1, Zenon DEF UNOP, ReadsElement, Reading, Onward
  <2> QED BY <1>1, <2>1, Zenon DEF UNOP, Aside, reading
<1>2. CASE ELEVBL
  <2>1. todo \in Reading /\ todo' \in Onward
    BY <1>2, Zenon DEF ELEVBL, Attached, ReadsElement, Reading, Onward
  <2> QED BY <1>2, <2>1, Zenon DEF ELEVBL, Aside, reading
<1>3. CASE ELEMN5
  <2>1. todo \in Reading /\ todo' \in Onward
    BY <1>3, Zenon DEF ELEMN5, Attached, ReadsElement, Reading, Onward
  <2> QED BY <1>3, <2>1, Zenon DEF ELEMN5, Aside, reading
<1>4. CASE ELENST
  <2>1. todo \in Reading /\ todo' \in Onward
    BY <1>4, Zenon DEF ELENST, ReadsElement, Reading, Onward
  <2> QED BY <1>4, <2>1, Zenon DEF ELENST, Aside, reading
<1>5. CASE ELEARY
  <2>1. todo \in Reading /\ todo' \in Onward
    BY <1>5, Zenon DEF ELEARY, Applied, ReadsElement, Reading, Onward
  <2> QED BY <1>5, <2>1, Zenon DEF ELEARY, Applied, Aside, reading
<1>6. CASE ELEAR2
  <2>1. todo \in Reading /\ todo' \in Onward
    BY <1>6, Zenon DEF ELEAR2, Applied, Reading, Onward
  <2> QED BY <1>6, <2>1, Zenon DEF ELEAR2, Applied, Aside, reading
<1>7. CASE ElementEnds
  <2>1. todo \in Reading /\ todo' \in Onward
    BY <1>7, Zenon DEF ElementEnds, Reading, Onward
  <2> QED BY <1>7, <2>1, Zenon DEF ElementEnds, Aside, reading
<1>8. CASE \E f \in Functions : ELEFNC(f)
  <2>1. todo \in Reading /\ todo' \in Onward
    BY <1>8, Zenon DEF ELEFNC, ReadsElement, Reading, Onward
  <2> QED BY <1>8, <2>1, Zenon DEF ELEFNC, Aside, reading
<1>9. CASE \E b \in Breaks : EXPNUL(b) \/ EXPR12(b) \/ EXPR7(b)
  <2>1. todo \in Reading /\ todo' \in Onward
    BY <1>9, Zenon DEF EXPNUL, EXPR12, EXPR7, Returned, Reading, Onward
  <2> QED BY <1>9, <2>1, Zenon DEF EXPNUL, EXPR12, EXPR7, Returned, Aside, reading
<1>10. CASE EXPR15
  <2>1. todo \in Reading /\ todo' \in Onward
    BY <1>10, Zenon DEF EXPR15, EXPR1, ReadsOperator, Reading, Onward
  <2> QED BY <1>10, <2>1, Zenon DEF EXPR15, EXPR1, Aside, reading
<1>11. CASE \E op \in Operators : EXPR14(op)
  <2>1. todo \in Reading /\ todo' \in Onward
    BY <1>11, Zenon DEF EXPR14, EXPR1, ReadsOperator, Reading, Onward
  <2> QED BY <1>11, <2>1, Zenon DEF EXPR14, EXPR1, Aside, reading
<1>12. CASE ELENST1 \/ ELEMN2 \/ ELEAR1
  <2>1. todo \in Reading /\ todo' \in Onward
    BY <1>12, Zenon DEF ELENST1, ELEMN2, ELEAR1, Applied, Reading, Onward
  <2>2. Top.proc \in Inside
    BY <1>12, Zenon DEF ELENST1, ELEMN2, ELEAR1, Calling, Inside
  <2> QED BY <1>12, <2>1, <2>2, Zenon DEF ELENST1, ELEMN2, ELEAR1, Applied, Aside, reading
<1> QED BY <1>1, <1>2, <1>3, <1>4, <1>5, <1>6, <1>7, <1>8, <1>9, <1>10, <1>11, <1>12 DEF ReadsExpression

LEMMA ExpressionCode ==
  ASSUME TreeInv, CodeInv, ReadsExpression
  PROVE  CodeInv'
<1>1. code' = code /\ program' = program /\ todo \in Reading /\ todo' \in Onward
  BY ExpressionAside DEF Aside
<1>2. calls # <<>> /\ calls \in Seq(Frames(Len(T)))
  <2>1. calls # <<>>
    BY <1>1, ProceduresAre DEF TreeInv, Good, Ready, Reading
  <2> QED BY <2>1, TreeFacts DEF Stack
<1>3. Bottom(calls') \in Goals => Bottom(calls) \in Goals
  <2> SUFFICES ASSUME Bottom(calls') \in Goals PROVE Bottom(calls) \in Goals
    OBVIOUS
  <2>1. CASE calls' = calls
    BY <2>1
  <2>2. CASE \E p, node, close : calls' = EXPR(calls, p, node, close)
    BY <1>2, <2>2, BottomEXPR
  <2>3. CASE \E f : calls' = Append(calls, f)
    BY <1>2, <2>3, BottomAppend
  <2>4. CASE calls' = Below
    BY <1>2, <2>4, BottomBelow
  <2>5. CASE Top.proc \in Inside /\ \E p, node, close : calls' = EXPR(Below, p, node, close)
    <3>1. PICK p, node, close : calls' = EXPR(Below, p, node, close)
      BY <2>5
    <3>2. Below \in Seq(Frames(Len(T))) /\ Below # <<>> /\ Bottom(Below) = Bottom(calls)
      BY <1>2, <2>5, BelowFacts DEF Stack
    <3> QED BY <3>1, <3>2, BottomEXPR
  <2> QED BY <2>1, <2>2, <2>3, <2>4, <2>5, ExpressionAside
<1>4. ~ todo \in {"label", "body", "stop"} /\ ~ todo' \in {"label", "body", "stop"} /\ ~ todo' \in Resting
  BY <1>1 DEF Reading, Onward, Resting
<1>5. CodeGood(code, todo', calls')
  BY <1>3, <1>4, CodeFacts DEF CodeGood
<1> QED BY <1>1, <1>5 DEF CodeInv

-----------------------------------------------------------------------------
(* The statements' steps.                                                  *)
LEMMA WithinFacts ==
  ASSUME NEW c, Sound(c), c.FRNCL \in 1 .. c.CMOFCL, NEW d, Within(c, d)
  PROVE  /\ Sound(d) /\ At(d) <= d.OCLIM /\ d.FRNCL \in 1 .. d.CMOFCL /\ At(d) <= d.OCLIM + 5
         /\ At(d) <= d.OCLIM + 7
<1>1. Sound(d) /\ At(d) <= d.OCLIM /\ d.FRNCL = c.FRNCL /\ d.CMOFCL > c.CMOFCL
  BY DEF Within, Alike
<1>2. c.CMOFCL \in Nat /\ d.CMOFCL \in Nat /\ d.OCLIM \in Nat /\ At(d) \in Nat
  <2>1. c \in ObjectCode /\ d \in ObjectCode
    BY <1>1 DEF Sound
  <2> QED BY <2>1, CodeAre DEF At
<1>3. d.FRNCL \in 1 .. d.CMOFCL
  BY <1>1, <1>2
<1> QED BY <1>1, <1>2, <1>3

\* A statement's failure exit is set where the code is.
LEMMA FailHereFacts ==
  ASSUME NEW c, Sound(c), c.FRNCL \in 1 .. c.CMOFCL, At(c) <= c.OCLIM
  PROVE  LET d == FailHere(c)
         IN  Sound(d) /\ At(d) <= d.OCLIM /\ At(d) <= d.OCLIM + 5 /\ d.FRNCL \in 1 .. d.CMOFCL
             /\ d.CMOFCL = c.CMOFCL
<1> DEFINE d == FailHere(c)
<1>1. At(c) \in Nat /\ c.OCLIM \in Nat
  BY CodeAre DEF Sound, At
<1>2. Sound(d) /\ Beside(c, d) /\ d.CMOFCL = c.CMOFCL
  <2>1. At(c) <= c.OCLIM + 7
    BY <1>1
  <2> QED BY <2>1, FailHereSound
<1> HIDE DEF d
<1>3. At(d) = At(c) /\ d.OCLIM = c.OCLIM /\ d.FRNCL = c.FRNCL
  BY <1>2 DEF At, Beside
<1>4. At(d) <= d.OCLIM + 5
  BY <1>1, <1>3
<1> QED BY <1>2, <1>3, <1>4 DEF d

LEMMA GotosNextCode ==
  ASSUME CodeInv, NEW c, Sound(c), At(c) <= c.OCLIM, c.FRNCL \in 1 .. c.CMOFCL, NEW b, GotosNext(c, b)
  PROVE  CodeInv'
<1>1. \/ \E s : NextStatement(FailHere(c), s)
      \/ code' = c /\ todo' = "goto" /\ program' = program
  BY Zenon DEF GotosNext, NextStatement, reading
<1>2. CASE \E s : NextStatement(FailHere(c), s)
  <2>1. Sound(FailHere(c)) /\ At(FailHere(c)) <= FailHere(c).OCLIM
    BY FailHereFacts
  <2> QED BY <1>2, <2>1, NextStatementCode
<1>3. CASE code' = c /\ todo' = "goto" /\ program' = program
  <2> DEFINE s2 == calls'
  <2>1. At(c) <= c.OCLIM + 4
    <3>1. At(c) \in Nat /\ c.OCLIM \in Nat
      BY CodeAre DEF Sound, At
    <3> QED BY <3>1
  <2> HIDE DEF s2
  <2>2. CodeGood(c, "goto", s2)
    BY <2>1 DEF CodeGood
  <2> QED BY <1>3, <2>2 DEF CodeInv, s2
<1> QED BY <1>1, <1>2, <1>3

\* The body of a statement is published.
LEMMA BodyCode ==
  ASSUME CodeInv, ~ todo \in {"label", "body", "stop"}, NEW d, Within(code, d), NEW b, GotosNext(d, b)
  PROVE  CodeInv'
<1>1. Sound(code) /\ code.FRNCL \in 1 .. code.CMOFCL
  BY CodeFacts
<1>2. Sound(d) /\ At(d) <= d.OCLIM /\ d.FRNCL \in 1 .. d.CMOFCL
  BY <1>1, WithinFacts
<1> QED BY <1>2, GotosNextCode

LEMMA NodesOne ==
  ASSUME NEW S, NEW a \in S
  PROVE  <<a>> \in Seq(S) /\ Len(<<a>>) >= 1
OBVIOUS

LEMMA NodesTwo ==
  ASSUME NEW S, NEW a \in S, NEW b \in S
  PROVE  <<a, b>> \in Seq(S) /\ Len(<<a, b>>) >= 1
OBVIOUS

LEMMA NodesThree ==
  ASSUME NEW S, NEW a \in S, NEW b \in S, NEW c \in S
  PROVE  <<a, b, c>> \in Seq(S) /\ Len(<<a, b, c>>) >= 1
OBVIOUS

LEMMA CMPSB1Code ==
  ASSUME TreeInv, CodeInv, NEW b, CMPSB1(b)
  PROVE  CodeInv'
<1> DEFINE d == TREPUB(code, r.SUBJND)
<1>1. todo = "subject" /\ GotosNext(d, b)
  BY Zenon DEF CMPSB1
<1>2. Within(code, d)
  BY <1>1, TreeFacts, SubjectFacts, CodeFacts, TREPUBSound
<1> HIDE DEF d
<1>3. ~ todo \in {"label", "body", "stop"}
  BY <1>1
<1> QED BY <1>1, <1>2, <1>3, BodyCode

LEMMA CMPAT1Code ==
  ASSUME TreeInv, CodeInv, CMPAT1
  PROVE  CodeInv'
<1> DEFINE d == TREPUB(code, r.XPTR)
<1>1. todo = "value" /\ GotosNext(d, r.BRTYPE)
  BY Zenon DEF CMPAT1
<1>2. Within(code, d)
  BY <1>1, TreeFacts, ValueFacts, CodeFacts, TREPUBSound
<1> HIDE DEF d
<1>3. ~ todo \in {"label", "body", "stop"}
  BY <1>1
<1> QED BY <1>1, <1>2, <1>3, BodyCode

\* The parts of a match, a replacement or an assignment.
LEMMA BodyNodes ==
  ASSUME TreeInv, todo = "value", Top.proc \in {"CMPAT2", "CMPASP", "CMPFRM"}
  PROVE  /\ r.SUBJND \in 1 .. Len(T) /\ r.XPTR \in 1 .. Len(T)
         /\ Top.proc = "CMPASP" => r.PATND \in 1 .. Len(T)
<1>1. Top.proc \in Statements
  BY DEF Statements
<1>2. r.XPTR \in 1 .. Len(T) /\ r \in Registers(Len(T)) /\ Parts(r, "value", Top.proc)
  BY <1>1, GoalFacts
<1>3. r.SUBJND # 0 /\ (Top.proc = "CMPASP" => r.PATND # 0)
  BY <1>2 DEF Parts
<1>4. Len(T) \in Nat /\ r.SUBJND \in 0 .. Len(T) /\ r.PATND \in 0 .. Len(T)
  BY <1>2, TreeFacts, RegistersAre
<1> QED BY <1>2, <1>3, <1>4

LEMMA CMPAT2Code ==
  ASSUME TreeInv, CodeInv, CMPAT2
  PROVE  CodeInv'
<1> DEFINE cell == Cell("SCAN", 2)
           nodes == <<r.SUBJND, r.XPTR>>
           d == PublishAll(code, cell, nodes)
<1>1. todo = "value" /\ Top.proc = "CMPAT2"
      /\ \/ /\ code' = code /\ program' = program /\ todo' = "element"
            /\ calls' = EXPR(<<>>, "CMPASP", 0, "")
         \/ GotosNext(d, r.BRTYPE)
  BY Zenon DEF CMPAT2, Calling, reading
<1>2. ~ todo \in {"label", "body", "stop"}
  BY <1>1
<1>3. CASE GotosNext(d, r.BRTYPE)
  <2>1. nodes \in Seq(1 .. Len(T)) /\ Len(nodes) >= 1
    BY <1>1, BodyNodes, NodesTwo
  <2>2. cell \in Cells
    BY CellIn, OpsAre
  <2> HIDE DEF nodes, cell
  <2>3. Linked(T) /\ Sound(code) /\ At(code) <= code.OCLIM + 5
    BY TreeFacts, CodeFacts
  <2>4. Within(code, d)
    BY <2>1, <2>2, <2>3, PublishAllSound
  <2> HIDE DEF d
  <2> QED BY <1>2, <1>3, <2>4, BodyCode
<1>4. CASE /\ code' = code /\ program' = program /\ todo' = "element"
           /\ calls' = EXPR(<<>>, "CMPASP", 0, "")
  <2> DEFINE s2 == calls'
  <2>3. Bottom(s2) = "CMPASP"
    BY <1>4, BottomFirst
  <2>4. ~ Bottom(s2) \in Goals /\ ~ "element" \in Resting
    BY <2>3 DEF Goals, Resting
  <2> HIDE DEF s2
  <2>5. CodeGood(code, "element", s2)
    BY <1>2, <2>4, CodeFacts DEF CodeGood
  <2> QED BY <1>4, <2>5 DEF CodeInv, s2
<1> QED BY <1>1, <1>3, <1>4

LEMMA CMPASPCode ==
  ASSUME TreeInv, CodeInv, CMPASP
  PROVE  CodeInv'
<1> DEFINE cell == Cell("SJSR", 3)
           nodes == <<r.SUBJND, r.PATND, r.XPTR>>
           d == PublishAll(code, cell, nodes)
<1>1. todo = "value" /\ Top.proc = "CMPASP" /\ GotosNext(d, r.BRTYPE)
  BY Zenon DEF CMPASP, Calling
<1>2. ~ todo \in {"label", "body", "stop"}
  BY <1>1
<1>3. nodes \in Seq(1 .. Len(T)) /\ Len(nodes) >= 1
  BY <1>1, BodyNodes, NodesThree
<1>4. cell \in Cells
  BY CellIn, OpsAre
<1> HIDE DEF nodes, cell
<1>5. Linked(T) /\ Sound(code) /\ At(code) <= code.OCLIM + 5
  BY TreeFacts, CodeFacts
<1>6. Within(code, d)
  BY <1>3, <1>4, <1>5, PublishAllSound
<1> HIDE DEF d
<1> QED BY <1>1, <1>2, <1>6, BodyCode

LEMMA CMPFTCode ==
  ASSUME TreeInv, CodeInv, CMPFT
  PROVE  CodeInv'
<1> DEFINE cell == Cell("ASGN", 2)
           nodes == <<r.SUBJND, r.XPTR>>
           d == PublishAll(code, cell, nodes)
<1>1. todo = "value" /\ Top.proc = "CMPFRM" /\ GotosNext(d, r.BRTYPE)
  BY Zenon DEF CMPFT, Calling
<1>2. ~ todo \in {"label", "body", "stop"}
  BY <1>1
<1>3. nodes \in Seq(1 .. Len(T)) /\ Len(nodes) >= 1
  BY <1>1, BodyNodes, NodesTwo
<1>4. cell \in Cells
  BY CellIn, OpsAre
<1> HIDE DEF nodes, cell
<1>5. Linked(T) /\ Sound(code) /\ At(code) <= code.OCLIM + 5
  BY TreeFacts, CodeFacts
<1>6. Within(code, d)
  BY <1>3, <1>4, <1>5, PublishAllSound
<1> HIDE DEF d
<1> QED BY <1>1, <1>2, <1>6, BodyCode

LEMMA CMPATNCode ==
  ASSUME TreeInv, CodeInv, CMPATN
  PROVE  CodeInv'
<1> DEFINE s == <<Frame("CMPAT1", 0, "")>>
           s2 == calls'
<1>1. /\ todo = "subject" /\ code' = code /\ program' = program /\ todo' \in {"element", "unary"}
      /\ \/ \E f : s2 = Append(s, f)
         \/ s2 = EXPR(<<>>, "CMPAT2", 0, "")
  BY Zenon DEF CMPATN, EXPR1, reading
<1>2. Bottom(s2) \in {"CMPAT1", "CMPAT2"}
  <2>1. CASE \E f : s2 = Append(s, f)
    <3>1. PICK f : s2 = Append(s, f)
      BY <2>1
    <3>2. s \in Seq({Frame("CMPAT1", 0, "")}) /\ s # <<>> /\ s[1].proc = "CMPAT1"
      <4> DEFINE a == Frame("CMPAT1", 0, "")
      <4>1. a.proc = "CMPAT1"
        BY DEF Frame
      <4> HIDE DEF a
      <4>2. <<a>> \in Seq({a}) /\ <<a>> # <<>> /\ <<a>>[1].proc = "CMPAT1"
        BY <4>1
      <4> QED BY <4>2 DEF a
    <3> HIDE DEF s, s2
    <3>3. Bottom(s2) = Bottom(s)
      BY <3>1, <3>2, BottomAppend
    <3> QED BY <3>2, <3>3 DEF Bottom
  <2>2. CASE s2 = EXPR(<<>>, "CMPAT2", 0, "")
    BY <2>2, BottomFirst
  <2> QED BY <1>1, <2>1, <2>2
<1> HIDE DEF s, s2
<1>3. ~ Bottom(s2) \in Goals /\ ~ todo' \in Resting /\ ~ todo \in {"label", "body", "stop"}
  BY <1>1, <1>2 DEF Goals, Resting
<1>4. CodeGood(code, todo', s2)
  BY <1>3, CodeFacts DEF CodeGood
<1> QED BY <1>1, <1>4 DEF CodeInv, s2

LEMMA CMPFRMCode ==
  ASSUME TreeInv, CodeInv, CMPFRM
  PROVE  CodeInv'
<1> DEFINE s2 == calls'
<1>1. /\ todo = "subject" /\ code' = code /\ program' = program /\ todo' = "element"
      /\ s2 = EXPR(<<>>, "CMPFRM", 0, "")
  BY Zenon DEF CMPFRM, reading
<1>2. Bottom(s2) = "CMPFRM"
  BY <1>1, BottomFirst
<1> HIDE DEF s2
<1>3. ~ Bottom(s2) \in Goals /\ ~ todo' \in Resting /\ ~ todo \in {"label", "body", "stop"}
  BY <1>1, <1>2 DEF Goals, Resting
<1>4. CodeGood(code, todo', s2)
  BY <1>3, CodeFacts DEF CodeGood
<1> QED BY <1>1, <1>4 DEF CodeInv, s2

\* Where the limit is kept and no expression is open.
LEMMA RestingCode ==
  ASSUME CodeInv, NEW c, Sound(c), At(c) <= c.OCLIM, code' = c, program' = program,
         todo' \in {"label", "body", "stop"} \/ c.FRNCL \in 1 .. c.CMOFCL
  PROVE  CodeInv'
<1> DEFINE td == todo'
           s2 == calls'
<1>1. At(c) <= c.OCLIM + 4
  <2>1. At(c) \in Nat /\ c.OCLIM \in Nat
    BY CodeAre DEF Sound, At
  <2> QED BY <2>1
<1>2. td \in {"label", "body", "stop"} \/ c.FRNCL \in 1 .. c.CMOFCL
  OBVIOUS
<1> HIDE DEF td, s2
<1>3. CodeGood(c, td, s2)
  BY <1>1, <1>2 DEF CodeGood
<1> QED BY <1>3 DEF CodeInv, td, s2

LEMMA RestFacts ==
  ASSUME CodeInv, todo \in Resting
  PROVE  Sound(code) /\ At(code) <= code.OCLIM
BY CodeFacts

LEMMA CMPILACode ==
  ASSUME CodeInv, CMPILA
  PROVE  CodeInv'
<1> DEFINE d == [code EXCEPT !.BOSCL = code.CMOFCL]
<1>1. todo = "label" /\ code' = d /\ program' = program /\ todo' = "body"
  BY Zenon DEF CMPILA, reading
<1>2. Sound(code) /\ At(code) <= code.OCLIM
  BY <1>1, RestFacts DEF Resting
<1>3. code \in ObjectCode /\ code.CMOFCL \in Nat
  BY <1>2, CodeAre DEF Sound
<1>4. d \in ObjectCode /\ d.mem = code.mem /\ d.overrun = code.overrun /\ d.base = code.base
      /\ d.OCLIM = code.OCLIM /\ d.CMOFCL = code.CMOFCL
  BY <1>3 DEF ObjectCode
<1> HIDE DEF d
<1>5. Sound(d) /\ At(d) <= d.OCLIM
  BY <1>2, <1>4 DEF Sound, At
<1> QED BY <1>1, <1>5, RestingCode

LEMMA CMPILCCode ==
  ASSUME CodeInv, NEW l \in Labels, CMPILC(l)
  PROVE  CodeInv'
<1>1. todo = "label" /\ code' = Labelled(code, l) /\ program' = program /\ todo' = "body"
  BY Zenon DEF CMPILC, reading
<1>2. Sound(code) /\ At(code) <= code.OCLIM
  BY <1>1, RestFacts DEF Resting
<1>3. Sound(Labelled(code, l)) /\ At(Labelled(code, l)) <= Labelled(code, l).OCLIM
  BY <1>2, LabelledSound
<1> QED BY <1>1, <1>3, RestingCode

LEMMA XLAENDCode ==
  ASSUME TreeInv, CodeInv, XLAEND
  PROVE  CodeInv'
<1> DEFINE n == Rebase(code)
           cell == Cell("END", 0)
           d == Emit(n, cell)
           s2 == calls'
<1>1. todo = "label" /\ code' = d /\ program' = program /\ todo' = "stop" /\ calls' = calls
  BY Zenon DEF XLAEND, reading
<1>2. Sound(code) /\ At(code) <= code.OCLIM
  BY <1>1, RestFacts DEF Resting
<1>3. Sound(n) /\ At(n) <= n.OCLIM /\ n.CMOFCL = 0
  BY <1>2, RebaseSound
<1> HIDE DEF n
<1>4. n.base.at \in Nat /\ n.OCLIM \in Nat /\ At(n) = n.base.at
  BY <1>3, CodeAre DEF Sound, At
<1>5. cell \in Cells
  BY CellIn
<1> HIDE DEF cell
<1>6. Sound(d) /\ Beside(n, d) /\ d.CMOFCL = n.CMOFCL + 1
  <2>1. At(n) <= n.OCLIM + 6
    BY <1>3, <1>4
  <2> QED BY <1>3, <1>5, <2>1, EmitSound
<1> HIDE DEF d
<1>7. At(d) <= d.OCLIM + 4
  BY <1>3, <1>4, <1>6 DEF At, Beside
<1>8. ~ "stop" \in Resting
  BY DEF Resting
<1>9. Bottom(calls) \in Goals => At(d) <= d.OCLIM
  <2> DEFINE none == ""
  <2>1. ~ none \in Goals
    BY Zenon DEF Goals
  <2>2. calls = <<>>
    BY <1>1, BetweenFacts DEF Between
  <2>3. Bottom(calls) = none
    BY <2>2, Zenon DEF Bottom
  <2> QED BY <2>1, <2>3, Zenon
<1>10. CodeGood(d, "stop", calls)
  BY <1>6, <1>7, <1>8, <1>9 DEF CodeGood
<1> QED BY <1>1, <1>10 DEF CodeInv

\* What is told of an error fits where the statement was, which is what
\* "unchecked" leaves out.
LEMMA CERR2Code ==
  ASSUME "unchecked" \notin Defects, CodeInv, NEW l \in Labels, CERR2(l)
  PROVE  CodeInv'
<1> DEFINE n == Rebase(code)
           c == [n EXCEPT !.LPTR = l]
           d == Diagnosed(c)
<1>1. todo = "label" /\ RoomFor(c, 4) /\ \E s : NextStatement(d, s)
  BY Zenon DEF CERR2
<1>2. Sound(code) /\ At(code) <= code.OCLIM
  BY <1>1, RestFacts DEF Resting
<1>3. Sound(n) /\ n.BOSCL = 0
  BY <1>2, RebaseSound
<1> HIDE DEF n
<1>4. n \in ObjectCode /\ n.attrib \in [Labels -> Address]
  BY <1>3, CodeAre DEF Sound
<1>5. c = Named(n, l, n.attrib)
  BY <1>4 DEF ObjectCode, Named
<1>6. Sound(c) /\ c.BOSCL = 0
  <2> DEFINE attrib == n.attrib
  <2>1. attrib \in [Labels -> Address] /\ c = Named(n, l, attrib)
    BY <1>4, <1>5
  <2> HIDE DEF attrib, c
  <2> QED BY <1>3, <2>1, NamedSound
<1> HIDE DEF c
<1>7. c.base.at + c.BOSCL + 4 <= c.OCLIM
  <2>1. c.base.at \in Nat /\ c.base.at + 4 <= c.OCLIM
    BY <1>1, <1>6, CodeAre DEF Sound, RoomFor
  <2> QED BY <1>6, <2>1
<1>8. Sound(d) /\ At(d) <= d.OCLIM
  <2>1. \E S : program \in Seq(S)
    BY DEF CodeInv
  <2> QED BY <1>6, <1>7, <2>1, DiagnosedSound
<1> HIDE DEF d
<1> QED BY <1>1, <1>8, NextStatementCode

LEMMA CDIAGCode ==
  ASSUME "unchecked" \notin Defects, CodeInv, CDIAG
  PROVE  CodeInv'
<1> DEFINE d == Diagnosed(code)
<1>1. RoomFor(code, code.BOSCL + 4) /\ \E s : NextStatement(d, s)
  BY Zenon DEF CDIAG
<1>2. Sound(code) /\ \E S : program \in Seq(S)
  BY CodeFacts DEF CodeInv
<1>3. code.base.at + code.BOSCL + 4 <= code.OCLIM
  <2>1. code.base.at \in Nat /\ code.BOSCL \in Nat /\ code.base.at + (code.BOSCL + 4) <= code.OCLIM
    BY <1>1, <1>2, CodeAre DEF Sound, RoomFor
  <2> QED BY <2>1
<1>4. Sound(d) /\ At(d) <= d.OCLIM
  BY <1>2, <1>3, DiagnosedSound
<1> HIDE DEF d
<1> QED BY <1>1, <1>4, NextStatementCode

\* The statement ends without more code.
LEMMA EndsCode ==
  ASSUME CodeInv, EmptyStatement \/ EndOfGoto \/ CMPNGO \/ CMPSGO1
  PROVE  CodeInv'
<1>1. CASE EmptyStatement \/ EndOfGoto
  <2>1. todo \in {"body", "end"} /\ \E s : NextStatement(code, s)
    BY <1>1, Zenon DEF EmptyStatement, EndOfGoto
  <2>2. Sound(code) /\ At(code) <= code.OCLIM
    BY <2>1, RestFacts DEF Resting
  <2> QED BY <2>1, <2>2, NextStatementCode
<1>2. CASE CMPNGO \/ CMPSGO1
  <2> DEFINE d == FailHere(code)
  <2>1. todo \in {"goto", "success"} /\ \E s : NextStatement(d, s)
    BY <1>2, Zenon DEF CMPNGO, CMPSGO1
  <2>2. Sound(code) /\ At(code) <= code.OCLIM
    BY <2>1, RestFacts DEF Resting
  <2>3. code.FRNCL \in 1 .. code.CMOFCL
    BY <2>1, CodeFacts
  <2>4. Sound(d) /\ At(d) <= d.OCLIM
    BY <2>2, <2>3, FailHereFacts
  <2> HIDE DEF d
  <2> QED BY <2>1, <2>4, NextStatementCode
<1> QED BY <1>1, <1>2

LEMMA CMPSUBCode ==
  ASSUME CodeInv, CMPSUB
  PROVE  CodeInv'
<1> DEFINE d == Begun(code)
           f == Frame("CMPSUB", 0, "")
           s2 == <<f>>
<1>1. todo = "body" /\ code' = d /\ program' = program /\ todo' = "unary" /\ calls' = s2
  BY Zenon DEF CMPSUB, reading
<1>2. Sound(code) /\ At(code) <= code.OCLIM
  BY <1>1, RestFacts DEF Resting
<1>3. Sound(d) /\ At(d) = At(code) + 4 /\ d.OCLIM = code.OCLIM /\ d.FRNCL \in 1 .. d.CMOFCL
  BY <1>2, BegunSound
<1> HIDE DEF d
<1>4. At(d) <= d.OCLIM + 4
  <2>1. At(code) \in Nat /\ code.OCLIM \in Nat
    BY CodeFacts
  <2> QED BY <1>2, <1>3, <2>1
<1>5. ~ Bottom(s2) \in Goals
  <2>1. f.proc = "CMPSUB"
    BY DEF Frame
  <2> HIDE DEF f
  <2>2. s2 # <<>> /\ s2[1] = f
    OBVIOUS
  <2> HIDE DEF s2
  <2> QED BY <2>1, <2>2 DEF Bottom, Goals
<1> HIDE DEF s2
<1>6. ~ "unary" \in Resting
  BY DEF Resting
<1>7. CodeGood(d, "unary", s2)
  BY <1>3, <1>4, <1>5, <1>6 DEF CodeGood
<1> QED BY <1>1, <1>7 DEF CodeInv

LEMMA CMPGO0Code ==
  ASSUME "unchecked" \notin Defects, CodeInv, CMPGO0
  PROVE  CodeInv'
<1> DEFINE d == Begun(code)
<1>1. todo = "body" /\ code' = d /\ program' = program /\ RoomFor(code, code.CMOFCL + 4)
  BY Zenon DEF CMPGO0, reading
<1>2. Sound(code) /\ At(code) <= code.OCLIM
  BY <1>1, RestFacts DEF Resting
<1>3. Sound(d) /\ At(d) = At(code) + 4 /\ d.OCLIM = code.OCLIM /\ d.FRNCL \in 1 .. d.CMOFCL
  BY <1>2, BegunSound
<1> HIDE DEF d
<1>4. At(d) <= d.OCLIM
  <2> DEFINE a == code.base.at
             m == code.CMOFCL
             lim == code.OCLIM
  <2>1. a \in Nat /\ m \in Nat /\ a + (m + 4) <= lim /\ At(code) = a + m
    BY <1>1, <1>2, CodeAre DEF Sound, RoomFor, At
  <2>2. d.OCLIM = lim
    BY <1>3
  <2> HIDE DEF a, m, lim
  <2> QED BY <1>3, <2>1, <2>2
<1> QED BY <1>1, <1>3, <1>4, RestingCode

\* A goto is read next: where an unconditional one starts, a failure goes too.
LEMMA GotoCode ==
  ASSUME CodeInv, NEW go \in {"GOTL", "GOTG"},
         CMPILL(go) \/ CMPILM(go) \/ \E p \in {"CMPUGO", "CMPSGO", "CMPFGO"} : CMPGG(p, go)
  PROVE  CodeInv'
<1> DEFINE d == FailHere(code)
<1>1. todo \in {"success", "failure", "goto"} /\ program' = program /\ todo' = "element"
      /\ (code' = d \/ code' = code)
  <2>1. CASE CMPILL(go)
    BY <2>1, Zenon DEF CMPILL, ReadsGoto, reading
  <2>2. CASE CMPILM(go)
    BY <2>2, Zenon DEF CMPILM, ReadsGoto, reading
  <2>3. CASE \E p \in {"CMPUGO", "CMPSGO", "CMPFGO"} : CMPGG(p, go)
    BY <2>3, Zenon DEF CMPGG, ReadsGoto, reading
  <2> QED BY <2>1, <2>2, <2>3
<1>2. Sound(code) /\ At(code) <= code.OCLIM
  BY <1>1, RestFacts DEF Resting
<1>3. code.FRNCL \in 1 .. code.CMOFCL
  BY <1>1, CodeFacts
<1>4. Sound(d) /\ At(d) <= d.OCLIM /\ d.FRNCL \in 1 .. d.CMOFCL
  BY <1>2, <1>3, FailHereFacts
<1> HIDE DEF d
<1>5. CASE code' = d
  BY <1>1, <1>4, <1>5, RestingCode
<1>6. CASE code' = code
  <2> DEFINE c == code
  <2>1. Sound(c) /\ At(c) <= c.OCLIM /\ c.FRNCL \in 1 .. c.CMOFCL /\ code' = c
    BY <1>2, <1>3, <1>6
  <2> HIDE DEF c
  <2> QED BY <1>1, <2>1, RestingCode
<1> QED BY <1>1, <1>5, <1>6

\* The code while the expression of a goto has been read.
LEMMA GoalCode ==
  ASSUME TreeInv, CodeInv, todo = "value", Top.proc \in Goals
  PROVE  Sound(code) /\ At(code) <= code.OCLIM /\ At(code) <= code.OCLIM + 5
         /\ code.FRNCL \in 1 .. code.CMOFCL /\ r.XPTR \in 1 .. Len(T) /\ r \in Registers(Len(T))
         /\ (Top.proc = "CMPILN" => r.FGOND # 0)
<1>1. Top.proc \in Statements
  BY DEF Statements
<1>2. r.XPTR \in 1 .. Len(T) /\ r \in Registers(Len(T)) /\ Bottom(calls) = Top.proc
      /\ Parts(r, "value", Top.proc)
  BY <1>1, GoalFacts
<1>3. Bottom(calls) \in Goals
  BY <1>2
<1> QED BY <1>2, <1>3, CodeFacts DEF Parts

\* A goto is an operation and the tree of its expression.
LEMMA GotoPublished ==
  ASSUME Linked(T), NEW c, Sound(c), At(c) <= c.OCLIM + 5, NEW op \in {"GOTL", "GOTG"},
         NEW k \in 1 .. Len(T)
  PROVE  Within(c, PublishAll(c, Cell(op, 1), <<k>>))
<1> DEFINE cell == Cell(op, 1)
           nodes == <<k>>
<1>1. cell \in Cells
  BY CellIn
<1>2. nodes \in Seq(1 .. Len(T)) /\ Len(nodes) >= 1
  BY NodesOne
<1> HIDE DEF cell, nodes
<1>3. Within(c, PublishAll(c, cell, nodes))
  BY <1>1, <1>2, PublishAllSound
<1> QED BY <1>3 DEF cell, nodes

LEMMA GotoEndsCode ==
  ASSUME TreeInv, CodeInv, CMPUGO \/ CMPSGO
  PROVE  CodeInv'
<1> DEFINE d == PublishAll(code, Cell(r.GOGOCL, 1), <<r.XPTR>>)
<1>1. todo = "value" /\ Top.proc \in {"CMPUGO", "CMPSGO"} /\ code' = d /\ program' = program
  BY Zenon DEF CMPUGO, CMPSGO, Calling, reading
<1>2. Sound(code) /\ At(code) <= code.OCLIM + 5 /\ code.FRNCL \in 1 .. code.CMOFCL
      /\ r.XPTR \in 1 .. Len(T) /\ r \in Registers(Len(T))
  BY <1>1, GoalCode DEF Goals
<1>3. r.GOGOCL \in {"GOTL", "GOTG"}
  BY <1>2 DEF Registers
<1>4. Within(code, d)
  BY <1>2, <1>3, TreeFacts, GotoPublished
<1> HIDE DEF d
<1>5. Sound(d) /\ At(d) <= d.OCLIM /\ d.FRNCL \in 1 .. d.CMOFCL
  BY <1>2, <1>4, WithinFacts
<1> QED BY <1>1, <1>5, RestingCode

LEMMA CMPFGOCode ==
  ASSUME TreeInv, CodeInv, CMPFGO
  PROVE  CodeInv'
<1> DEFINE c == code
<1>1. todo = "value" /\ Top.proc = "CMPFGO" /\ code' = c /\ program' = program
  BY Zenon DEF CMPFGO, Calling, reading
<1>2. Sound(c) /\ At(c) <= c.OCLIM /\ c.FRNCL \in 1 .. c.CMOFCL
  BY <1>1, GoalCode DEF Goals
<1> HIDE DEF c
<1> QED BY <1>1, <1>2, RestingCode

\* The goto that passes the failure goto by, and the failure goto.
LEMMA CMPFGO1Code ==
  ASSUME TreeInv, CodeInv, CMPFGO1
  PROVE  CodeInv'
<1> DEFINE x == Cell("GOTO", 1)
           y == Cell("free", 0)
           cells == <<x, y>>
           c == EmitAll(code, cells)
           e == [c EXCEPT !.SRNCL = c.CMOFCL]
           f == FailHere(e)
           g == PublishAll(f, Cell(r.GOGOCL, 1), <<r.FGOND>>)
           exit == Cell("at", SuccessExit(g))
           d == Put(g, g.SRNCL, exit)
<1>1. todo = "failure" /\ \E s : NextStatement(d, s)
  BY Zenon DEF CMPFGO1
<1>2. Sound(code) /\ At(code) <= code.OCLIM /\ At(code) \in Nat /\ code.OCLIM \in Nat
      /\ code.FRNCL \in 1 .. code.CMOFCL
  BY <1>1, CodeFacts DEF Resting
<1>3. r.FGOND \in 1 .. Len(T) /\ r.GOGOCL \in {"GOTL", "GOTG"} /\ Linked(T)
  <2>1. r.FGOND # 0 /\ r \in Registers(Len(T)) /\ Len(T) \in Nat
    BY <1>1, TreeFacts DEF TreeInv, Good, Parts
  <2>2. r.FGOND \in 0 .. Len(T) /\ r.GOGOCL \in {"GOTL", "GOTG"}
    BY <2>1 DEF Registers
  <2> QED BY <2>1, <2>2, TreeFacts
<1>4. x \in Cells /\ y \in Cells
  BY CellIn
<1> HIDE DEF x, y
<1>5. cells \in Seq(Cells) /\ Len(cells) = 2
  BY <1>4
<1> HIDE DEF cells
<1>6. Sound(c) /\ Beside(code, c) /\ c.CMOFCL = code.CMOFCL + 2
  <2>1. At(code) + Len(cells) <= code.OCLIM + 7
    BY <1>2, <1>5
  <2> QED BY <1>2, <1>5, <2>1, EmitAllSound
<1> HIDE DEF c
<1>7. c \in ObjectCode /\ c.CMOFCL \in Nat
  BY <1>6, CodeAre DEF Sound
<1>8. e \in ObjectCode /\ e.mem = c.mem /\ e.overrun = c.overrun /\ e.base = c.base /\ e.OCLIM = c.OCLIM
      /\ e.CMOFCL = c.CMOFCL /\ e.FRNCL = c.FRNCL /\ e.SRNCL = c.CMOFCL
  BY <1>7 DEF ObjectCode
<1> HIDE DEF e
<1>9. Sound(e) /\ At(e) = At(code) + 2 /\ e.OCLIM = code.OCLIM /\ e.FRNCL \in 1 .. e.CMOFCL
  <2>1. Sound(e)
    BY <1>6, <1>8 DEF Sound
  <2>2. e.base = code.base /\ e.OCLIM = code.OCLIM /\ e.FRNCL = code.FRNCL /\ e.CMOFCL = code.CMOFCL + 2
    BY <1>6, <1>8 DEF Beside
  <2>3. code.base.at \in Nat /\ code.CMOFCL \in Nat
    BY <1>2, CodeAre DEF Sound
  <2> QED BY <1>2, <2>1, <2>2, <2>3 DEF At
<1>10. Sound(f) /\ Beside(e, f) /\ f.CMOFCL = e.CMOFCL
  <2>1. At(e) <= e.OCLIM + 7
    BY <1>2, <1>9
  <2> QED BY <1>9, <2>1, FailHereSound
<1> HIDE DEF f
<1>11. At(f) <= f.OCLIM + 5 /\ f.SRNCL = f.CMOFCL /\ f.CMOFCL >= 1
  <2>1. At(f) = At(e) /\ f.OCLIM = e.OCLIM /\ f.SRNCL = e.SRNCL
    BY <1>10 DEF At, Beside
  <2>2. At(f) <= f.OCLIM + 5
    BY <1>2, <1>9, <2>1
  <2>3. f.CMOFCL >= 1
    BY <1>7, <1>8, <1>9, <1>10
  <2> QED BY <1>8, <1>10, <2>1, <2>2, <2>3
<1>12. Within(f, g)
  BY <1>3, <1>10, <1>11, GotoPublished
<1> HIDE DEF g
<1>13. Sound(g) /\ At(g) <= g.OCLIM /\ g.SRNCL = f.SRNCL /\ g.CMOFCL > f.CMOFCL
  BY <1>12 DEF Within, Alike
<1>14. g.base.at \in Nat /\ g.CMOFCL \in Nat /\ g.SRNCL \in Nat /\ g.OCLIM \in Nat /\ f.CMOFCL \in Nat
  BY <1>10, <1>13, CodeAre DEF Sound
<1>15. exit \in Cells
  BY <1>14, CellIn DEF SuccessExit
<1> HIDE DEF exit
<1>16. g.base.at + g.SRNCL \in 1 .. g.OCLIM + 7
  <2> DEFINE a == g.base.at
             m == g.CMOFCL
             lim == g.OCLIM
             k == g.SRNCL
  <2>1. a \in Nat /\ m \in Nat /\ lim \in Nat /\ k \in Nat /\ a + m <= lim /\ k >= 1 /\ k <= m
    BY <1>11, <1>13, <1>14 DEF At
  <2> HIDE DEF a, m, lim, k
  <2>2. a + k \in 1 .. lim + 7
    BY <2>1
  <2> QED BY <2>2 DEF a, lim, k
<1>17. Sound(d) /\ Beside(g, d) /\ d.CMOFCL = g.CMOFCL
  <2> DEFINE k == g.SRNCL
  <2>1. k \in Nat /\ g.base.at + k \in 1 .. g.OCLIM + 7
    BY <1>14, <1>16
  <2> HIDE DEF k
  <2>2. Sound(Put(g, k, exit)) /\ Beside(g, Put(g, k, exit)) /\ Put(g, k, exit).CMOFCL = g.CMOFCL
    BY <1>13, <1>15, <2>1, PutSound
  <2> QED BY <2>2 DEF k
<1> HIDE DEF d
<1>18. At(d) <= d.OCLIM
  BY <1>13, <1>17 DEF At, Beside
<1> QED BY <1>1, <1>17, <1>18, NextStatementCode

LEMMA CMPILNCode ==
  ASSUME TreeInv, CodeInv, CMPILN
  PROVE  CodeInv'
<1> DEFINE c == PublishAll(code, Cell(Operation, 1), <<r.XPTR>>)
           f == FailHere(c)
           d == PublishAll(f, Cell(r.GOGOCL, 1), <<r.FGOND>>)
<1>1. todo = "value" /\ Top.proc = "CMPILN" /\ \E s : NextStatement(d, s)
  BY Zenon DEF CMPILN, Calling
<1>2. Sound(code) /\ At(code) <= code.OCLIM + 5 /\ code.FRNCL \in 1 .. code.CMOFCL
      /\ r.XPTR \in 1 .. Len(T) /\ r \in Registers(Len(T)) /\ r.FGOND # 0
  BY <1>1, GoalCode DEF Goals
<1>3. r.FGOND \in 1 .. Len(T) /\ r.GOGOCL \in {"GOTL", "GOTG"} /\ Linked(T)
  <2>1. r.FGOND \in 0 .. Len(T) /\ r.GOGOCL \in {"GOTL", "GOTG"}
    BY <1>2 DEF Registers
  <2> QED BY <1>2, <2>1, TreeFacts
<1>4. Operation \in {"GOTL", "GOTG"}
  BY Zenon DEF Operation
<1>5. Within(code, c)
  BY <1>2, <1>3, <1>4, GotoPublished
<1> HIDE DEF c
<1>6. Sound(c) /\ At(c) <= c.OCLIM /\ c.FRNCL \in 1 .. c.CMOFCL
  BY <1>2, <1>5, WithinFacts
<1>7. Sound(f) /\ At(f) <= f.OCLIM + 5
  BY <1>6, FailHereFacts
<1> HIDE DEF f
<1>8. Within(f, d)
  BY <1>3, <1>7, GotoPublished
<1> HIDE DEF d
<1>9. Sound(d) /\ At(d) <= d.OCLIM
  BY <1>8 DEF Within
<1> QED BY <1>1, <1>9, NextStatementCode

-----------------------------------------------------------------------------
(* The invariant of the object code is inductive, where what "unchecked"   *)
(* stands for is left out.                                                 *)
LEMMA CodeInit ==
  ASSUME Init
  PROVE  CodeInv
<1> DEFINE block == Empty(OCASIZ)
           base == [block |-> 1, at |-> 0]
           attrib == [l \in Labels |-> NoCode]
           lim == OCASIZ - 7
           none == <<>>
           mem == <<block>>
           c == [mem |-> mem, base |-> base, CMOFCL |-> 0, BOSCL |-> 0, FRNCL |-> 0, SRNCL |-> 0,
                 OCLIM |-> lim, LPTR |-> NoLabel, attrib |-> attrib, overrun |-> FALSE]
<1>1. code = c /\ todo = "label" /\ calls = none /\ program = none
  BY Zenon DEF Init
<1>2. base \in Address /\ attrib \in [Labels -> Address] /\ base.block = 1 /\ base.at = 0
  BY DEF Address, NoCode
<1>3. lim \in Nat /\ lim + 7 = OCASIZ /\ OCASIZ \in Nat
  BY SizesAssumption
<1>4. block \in Seq(Cells) /\ Len(block) = OCASIZ
  <2>1. block \in [1 .. OCASIZ -> Cells]
    BY FreeIn DEF Empty
  <2> HIDE DEF block
  <2> QED BY <1>3, <2>1
<1> HIDE DEF block, base, attrib, lim
<1>5. mem \in Seq(Seq(Cells)) /\ Len(mem) = 1 /\ mem[1] = block
  BY <1>4
<1> HIDE DEF mem
<1>6. c \in ObjectCode
  BY <1>2, <1>3, <1>5 DEF ObjectCode
<1>7. c.mem = mem /\ c.base = base /\ c.OCLIM = lim /\ c.overrun = FALSE /\ c.CMOFCL = 0
  OBVIOUS
<1> HIDE DEF c
<1>8. Sound(c) /\ At(c) <= c.OCLIM /\ At(c) <= c.OCLIM + 4
  <2>1. c.base.block = 1 /\ c.base.at = 0 /\ c.mem[c.base.block] = block
    BY <1>2, <1>5, <1>7
  <2>2. c.base.block \in 1 .. Len(c.mem) /\ Len(c.mem[c.base.block]) = c.OCLIM + 7
    <3>1. Len(c.mem) = 1
      BY <1>5, <1>7
    <3>2. c.base.block \in 1 .. Len(c.mem)
      BY <2>1, <3>1
    <3>3. Len(c.mem[c.base.block]) = OCASIZ
      BY <1>4, <2>1, Zenon
    <3>4. OCASIZ = c.OCLIM + 7
      BY <1>3, <1>7
    <3> QED BY <3>2, <3>3, <3>4, Zenon
  <2>3. c.base.at <= c.OCLIM + 1 /\ c.base.at + c.CMOFCL <= c.OCLIM
        /\ c.base.at + c.CMOFCL <= c.OCLIM + 4
    BY <1>3, <1>7, <2>1
  <2> QED BY <1>6, <1>7, <2>2, <2>3 DEF Sound, At
<1>9. CodeGood(c, "label", none)
  BY <1>8 DEF CodeGood
<1>10. none \in Seq({})
  OBVIOUS
<1> HIDE DEF none
<1> QED BY <1>1, <1>9, <1>10 DEF CodeInv

LEMMA StatementCode ==
  ASSUME "unchecked" \notin Defects, TreeInv, CodeInv, ReadsStatement
  PROVE  CodeInv'
<1>1. CASE CMPILA \/ XLAEND \/ CMPGO0 \/ \E l \in Labels : CMPILC(l)
  BY <1>1, CMPILACode, XLAENDCode, CMPGO0Code, CMPILCCode
<1>2. CASE EmptyStatement \/ CMPNGO \/ EndOfGoto \/ CMPSGO1
  BY <1>2, EndsCode
<1>3. CASE CMPFGO1 \/ CMPILN \/ CDIAG \/ \E l \in Labels : CERR2(l)
  BY <1>3, CMPFGO1Code, CMPILNCode, CDIAGCode, CERR2Code
<1>4. CASE CMPSUB \/ CMPATN \/ CMPFRM \/ CMPAT2
  BY <1>4, CMPSUBCode, CMPATNCode, CMPFRMCode, CMPAT2Code
<1>5. CASE CMPAT1 \/ CMPASP \/ CMPFT \/ \E b \in Breaks : CMPSB1(b)
  BY <1>5, CMPAT1Code, CMPASPCode, CMPFTCode, CMPSB1Code
<1>6. CASE \E go \in {"GOTL", "GOTG"} :
               CMPILL(go) \/ CMPILM(go) \/ \E p \in {"CMPUGO", "CMPSGO", "CMPFGO"} : CMPGG(p, go)
  BY <1>6, GotoCode
<1>7. CASE CMPUGO \/ CMPSGO \/ CMPFGO
  BY <1>7, GotoEndsCode, CMPFGOCode
<1> QED BY <1>1, <1>2, <1>3, <1>4, <1>5, <1>6, <1>7 DEF ReadsStatement

LEMMA CodeStep ==
  ASSUME "unchecked" \notin Defects, TreeInv, CodeInv, [Next]_vars
  PROVE  CodeInv'
<1>1. CASE Next
  BY <1>1, NextReads, ExpressionCode, StatementCode
<1>2. CASE UNCHANGED vars
  BY <1>2 DEF vars, CodeInv
<1> QED BY <1>1, <1>2

LEMMA CodeAlways == ASSUME "unchecked" \notin Defects PROVE Spec => []CodeInv
<1>1. Init => CodeInv
  BY CodeInit
<1>2. TreeInv /\ CodeInv /\ [Next]_vars => CodeInv'
  BY CodeStep
<1> QED BY <1>1, <1>2, TreeAlways, PTL DEF Spec

\* Every cell of object code is written inside its block, whatever the program,
\* as far as no statement ends a block that is not published or is a failure goto
\* alone: the limit is OCLIM, and what is written where it is not tested, INIT with
\* its three cells, an operator, the goto that skips a failure goto and the goto to
\* the next block, fits into the seven cells behind it (TREPUB, CMPILE, OCLIM).
THEOREM WithinBlocksHolds == ASSUME "unchecked" \notin Defects PROVE Spec => []WithinBlocks
<1>1. CodeInv => WithinBlocks
  BY CodeFacts DEF WithinBlocks, Sound
<1> QED BY <1>1, CodeAlways, PTL

-----------------------------------------------------------------------------
(* The types.                                                              *)
LEMMA SPITCLKept ==
  ASSUME [Next]_vars
  PROVE  SPITCL' = SPITCL
<1>1. CASE ReadsExpression
  BY <1>1, ExpressionAside DEF Aside
<1>2. CASE CMPILA \/ XLAEND \/ CMPGO0 \/ \E l \in Labels : CMPILC(l)
  BY <1>2, Zenon DEF CMPILA, XLAEND, CMPGO0, CMPILC, reading
<1>3. CASE EmptyStatement \/ CMPNGO \/ EndOfGoto \/ CMPSGO1 \/ CMPFGO1
  BY <1>3, Zenon DEF EmptyStatement, CMPNGO, EndOfGoto, CMPSGO1, CMPFGO1
<1>4. CASE CMPILN \/ CDIAG \/ \E l \in Labels : CERR2(l)
  BY <1>4, Zenon DEF CMPILN, CDIAG, CERR2
<1>5. CASE CMPSUB \/ CMPFRM \/ CMPATN
  BY <1>5, Zenon DEF CMPSUB, CMPFRM, CMPATN, reading
<1>6. CASE CMPAT2 \/ CMPAT1 \/ CMPASP \/ CMPFT \/ \E b \in Breaks : CMPSB1(b)
  <2>1. ASSUME NEW c, NEW b, GotosNext(c, b) PROVE SPITCL' = SPITCL
    BY <2>1, Zenon DEF GotosNext, reading
  <2> QED BY <1>6, <2>1, Zenon DEF CMPAT2, CMPAT1, CMPASP, CMPFT, CMPSB1, reading
<1>7. CASE \E go \in {"GOTL", "GOTG"} :
               CMPILL(go) \/ CMPILM(go) \/ \E p \in {"CMPUGO", "CMPSGO", "CMPFGO"} : CMPGG(p, go)
  BY <1>7, Zenon DEF CMPILL, CMPILM, CMPGG, reading
<1>8. CASE CMPUGO \/ CMPSGO \/ CMPFGO
  BY <1>8, Zenon DEF CMPUGO, CMPSGO, CMPFGO, reading
<1>9. CASE UNCHANGED vars
  BY <1>9 DEF vars
<1> QED BY <1>1, <1>2, <1>3, <1>4, <1>5, <1>6, <1>7, <1>8, <1>9, NextReads DEF ReadsStatement

\* Every link of a tree, every node that the compiler keeps or has pushed and every
\* field of the object code has a value of its type, whatever the program.
THEOREM TypesHold == ASSUME "unchecked" \notin Defects PROVE Spec => []TypeOK
<1> DEFINE Plus == SPITCL \in PlusOps
<1>1. Init => Plus
  BY DEF Init
<1>2. Plus /\ [Next]_vars => Plus'
  BY SPITCLKept
<1>3. TreeInv /\ CodeInv /\ Plus => TypeOK
  <2> SUFFICES ASSUME TreeInv, CodeInv, Plus PROVE TypeOK
    OBVIOUS
  <2>1. T \in Seq(Nodes(Len(T))) /\ r \in Registers(Len(T)) /\ calls \in Seq(Frames(Len(T)))
    BY TreeFacts DEF Linked, Stack
  <2>2. todo \in Points /\ text \in Texts
    BY DEF TreeInv, Good
  <2>3. code \in ObjectCode
    BY CodeFacts DEF Sound
  <2> QED BY <2>1, <2>2, <2>3 DEF TypeOK
<1> QED BY <1>1, <1>2, <1>3, TreeAlways, CodeAlways, PTL DEF Spec
=============================================================================
