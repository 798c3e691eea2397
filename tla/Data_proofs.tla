---------------------------- MODULE Data_proofs ----------------------------
(* Theorems about Sorting: SORT1 ends, whatever the keys, and sorts those   *)
(* that are exact;                                                          *)
(* and about Data: the slots of tables, the fields of objects, what         *)
(* CONVERT() and SORT() return, and that Data implements Maps.              *)
EXTENDS Data, FiniteSetTheorems, SequenceTheorems, WellFoundedInduction, TLAPS

-----------------------------------------------------------------------------
(* Induction.  What is false for some natural number is false for a least  *)
(* one.                                                                    *)
LEMMA NatLeast ==
  ASSUME NEW X \in SUBSET Nat, X # {}
  PROVE  \E n \in X : \A m \in X : n <= m
<1> DEFINE Lower == {ss \in Nat \X Nat : ss[1] < ss[2]}
<1>1. IsWellFoundedOn(Lower, Nat)
  BY NatLessThanWellFounded DEF OpToRel
<1> HIDE DEF Lower
<1>2. \E x \in X : \A y \in X : ~ (<<y, x>> \in Lower)
  BY <1>1, WFMin
<1>3. PICK n \in X : \A m \in X : ~ (<<m, n>> \in Lower)
  BY <1>2
<1>4. ASSUME NEW m \in X, m < n PROVE FALSE
  <2>1. <<m, n>> \in Nat \X Nat /\ <<m, n>>[1] < <<m, n>>[2]
    BY <1>4
  <2>2. <<m, n>> \in Lower
    BY <2>1, Zenon DEF Lower
  <2> QED BY <1>3, <2>2
<1>5. ASSUME NEW m \in X PROVE n <= m
  BY <1>4
<1> QED BY <1>5

(* A set of numbers that holds 0 and with each number up to n the next one *)
(* holds all of them up to n.                                              *)
LEMMA Counting ==
  ASSUME NEW n \in Nat, NEW X, 0 \in X,
         \A m \in 1 .. n : m - 1 \in X => m \in X
  PROVE  0 .. n \subseteq X
<1> SUFFICES ASSUME 0 .. n \ X # {} PROVE FALSE
  OBVIOUS
<1>1. PICK m \in 0 .. n \ X : \A k \in 0 .. n \ X : m <= k
  <2>1. 0 .. n \ X \in SUBSET Nat
    OBVIOUS
  <2> QED BY <2>1, NatLeast
<1>2. m \in 1 .. n
  BY <1>1
<1>3. m - 1 \in 0 .. n /\ ~ m <= m - 1
  BY <1>2
<1> QED BY <1>1, <1>2, <1>3

(* Where each step is defined by a function, there is a function that is   *)
(* defined by recursion.                                                   *)
LEMMA Recursion ==
  ASSUME NEW Dom, NEW base \in Dom, NEW n \in Nat, NEW step \in [1 .. n -> [Dom -> Dom]]
  PROVE  \E f \in [0 .. n -> Dom] :
           /\ f[0] = base
           /\ \A k \in 1 .. n : f[k] = step[k][f[k - 1]]
<1> DEFINE Upto(m, f) == /\ f[0] = base
                         /\ \A k \in 1 .. m : f[k] = step[k][f[k - 1]]
           X == {m \in 0 .. n : \E f \in [0 .. m -> Dom] : Upto(m, f)}
<1>1. 0 \in X
  <2>1. [k \in 0 .. 0 |-> base] \in [0 .. 0 -> Dom] /\ Upto(0, [k \in 0 .. 0 |-> base])
    OBVIOUS
  <2>2. \E f \in [0 .. 0 -> Dom] : Upto(0, f)
    BY <2>1, Zenon
  <2>3. 0 \in 0 .. n
    OBVIOUS
  <2> QED BY <2>2, <2>3
<1>2. ASSUME NEW m \in 1 .. n, m - 1 \in X PROVE m \in X
  <2>1. PICK f \in [0 .. m - 1 -> Dom] : Upto(m - 1, f)
    BY <1>2
  <2> DEFINE g == [k \in 0 .. m |-> IF k = m THEN step[m][f[m - 1]] ELSE f[k]]
  <2>2. m - 1 \in 0 .. m - 1 /\ f[m - 1] \in Dom /\ step[m] \in [Dom -> Dom]
    OBVIOUS
  <2>3. g \in [0 .. m -> Dom]
    BY <2>2
  <2>4. g[0] = base
    BY <2>1
  <2>5. ASSUME NEW k \in 1 .. m PROVE g[k] = step[k][g[k - 1]]
    <3>1. k - 1 \in 0 .. m /\ k \in 0 .. m /\ k - 1 # m
      OBVIOUS
    <3>2. g[k - 1] = f[k - 1] /\ g[k] = IF k = m THEN step[m][f[m - 1]] ELSE f[k]
      BY <3>1
    <3>3. CASE k = m
      BY <3>2, <3>3
    <3>4. CASE k # m
      <4>1. k \in 1 .. m - 1
        BY <3>4
      <4> QED BY <2>1, <3>2, <3>4, <4>1
    <3> QED BY <3>3, <3>4
  <2> HIDE DEF g
  <2>6. Upto(m, g) /\ m \in 0 .. n
    BY <2>4, <2>5
  <2> QED BY <2>3, <2>6
<1> HIDE DEF X
<1>3. \A m \in 1 .. n : m - 1 \in X => m \in X
  BY <1>2
<1>4. 0 .. n \subseteq X
  BY <1>1, <1>3, Counting
<1>5. n \in X
  BY <1>4
<1> QED BY <1>5 DEF X

(* The same, in a form that is easy to cite.                               *)
Iterates(f, Dom, base, n, step) ==
  /\ f \in [0 .. n -> Dom]
  /\ f[0] = base
  /\ \A k \in 1 .. n : f[k] = step[k][f[k - 1]]

LEMMA Iteration ==
  ASSUME NEW Dom, NEW base \in Dom, NEW n \in Nat, NEW step \in [1 .. n -> [Dom -> Dom]]
  PROVE  \E f : Iterates(f, Dom, base, n, step)
<1>1. PICK f \in [0 .. n -> Dom] : f[0] = base /\ \A k \in 1 .. n : f[k] = step[k][f[k - 1]]
  BY Recursion
<1> QED BY <1>1 DEF Iterates

-----------------------------------------------------------------------------
(* The comparison.  A value that can be sorted has a type and a place in   *)
(* the order of its type; an integer that is exact has the same place      *)
(* among the reals.                                                        *)
Sortable == {x \in [type : Nat, v : Int] : x.type = I => x.v <= Exact}

LEMMA SortableType ==
  ASSUME NEW x \in Sortable
  PROVE  /\ x.type \in Nat /\ x.v \in Int
         /\ x.type = I => AsReal(x) = x.v
         /\ x.type # I => AsReal(x) = x.v
         /\ IsNaN(x) => x.type = R
<1>1. x \in [type : Nat, v : Int] /\ (x.type = I => x.v <= Exact)
  BY DEF Sortable
<1>2. x.type \in Nat /\ x.v \in Int
  BY <1>1
<1>3. x.type = I => ~ x.v > Exact
  BY <1>1, <1>2, ExactAssumption
<1>4. AsReal(x) = x.v
  BY <1>3 DEF AsReal
<1> QED BY <1>2, <1>4 DEF IsNaN

(* SORT9 decides what the order of values is (Less), in both directions.   *)
LEMMA ComparedRight ==
  ASSUME NEW x \in Sortable, NEW y \in Sortable
  PROVE  /\ Compared(x, y) = "LT" <=> Less(x, y)
         /\ Compared(x, y) = "GT" <=> Less(y, x)
         /\ Compared(x, y) = "EQ" <=> ~ Less(x, y) /\ ~ Less(y, x)
<1>1. /\ x.type \in Nat /\ x.v \in Int /\ AsReal(x) = x.v /\ (IsNaN(x) => x.type = R)
      /\ y.type \in Nat /\ y.v \in Int /\ AsReal(y) = y.v /\ (IsNaN(y) => y.type = R)
  BY SortableType
<1>2. CASE Numbers(x, y)
  <2>1. Numbers(y, x)
    BY <1>2 DEF Numbers
  <2>2. /\ Less(x, y) <=> ~ IsNaN(x) /\ (IsNaN(y) \/ x.v < y.v)
        /\ Less(y, x) <=> ~ IsNaN(y) /\ (IsNaN(x) \/ y.v < x.v)
    BY <1>2, <2>1 DEF Less
  <2>3. CASE IsNaN(x)
    <3>1. Compared(x, y) = IF IsNaN(y) THEN "EQ" ELSE "GT"
      BY <1>2, <2>3 DEF Compared
    <3> QED BY <2>2, <2>3, <3>1
  <2>4. CASE ~ IsNaN(x) /\ IsNaN(y)
    <3>1. Compared(x, y) = "LT"
      BY <1>2, <2>4 DEF Compared
    <3> QED BY <2>2, <2>4, <3>1
  <2>5. CASE ~ IsNaN(x) /\ ~ IsNaN(y)
    <3>1. Compared(x, y) = Before(x.v, y.v)
      BY <1>1, <1>2, <2>5 DEF Compared
    <3> QED BY <1>1, <2>2, <2>5, <3>1 DEF Before
  <2> QED BY <2>3, <2>4, <2>5
<1>3. CASE ~ Numbers(x, y) /\ x.type = y.type
  <2>1. ~ Numbers(y, x) /\ ~ IsNaN(x) /\ ~ IsNaN(y)
    BY <1>1, <1>3 DEF Numbers
  <2>2. Compared(x, y) = Before(x.v, y.v)
    BY <1>3, <2>1 DEF Compared
  <2>3. (Less(x, y) <=> x.v < y.v) /\ (Less(y, x) <=> y.v < x.v)
    BY <1>3, <2>1 DEF Less
  <2> QED BY <1>1, <2>2, <2>3 DEF Before
<1>4. CASE ~ Numbers(x, y) /\ x.type # y.type
  <2>1. ~ Numbers(y, x)
    BY <1>4 DEF Numbers
  <2>2. Compared(x, y) = Before(x.type, y.type)
    BY <1>4, <2>1 DEF Compared
  <2>3. (Less(x, y) <=> x.type < y.type) /\ (Less(y, x) <=> y.type < x.type)
    BY <1>4, <2>1 DEF Less
  <2> QED BY <1>1, <2>2, <2>3 DEF Before
<1> QED BY <1>2, <1>3, <1>4

(* The order of values is a weak order.                                    *)
LEMMA LessOrder ==
  ASSUME NEW x \in Sortable, NEW y \in Sortable, NEW z \in Sortable
  PROVE  /\ ~ Less(x, x)
         /\ ~ (Less(x, y) /\ Less(y, x))
         /\ ~ Less(x, y) /\ ~ Less(y, z) => ~ Less(x, z)
<1> DEFINE Number(w) == w.type \in {I, R}
           LessIs(w, u) == IF Number(w) /\ Number(u)
                           THEN ~ IsNaN(w) /\ (IsNaN(u) \/ w.v < u.v)
                           ELSE IF w.type = u.type THEN w.v < u.v
                           ELSE w.type < u.type
<1>1. ASSUME NEW w \in {x, y, z}, NEW u \in {x, y, z} PROVE Less(w, u) <=> LessIs(w, u)
  <2>1. Numbers(w, u) <=> Number(w) /\ Number(u)
    BY DEF Numbers
  <2>2. CASE Numbers(w, u)
    BY <2>1, <2>2 DEF Less
  <2>3. CASE ~ Numbers(w, u) /\ w.type = u.type
    BY <2>1, <2>3 DEF Less
  <2>4. CASE ~ Numbers(w, u) /\ w.type # u.type
    BY <2>1, <2>4 DEF Less
  <2> QED BY <2>2, <2>3, <2>4
<1>2. \A w \in {x, y, z} : /\ w.type \in Nat /\ w.v \in Int /\ IsNaN(w) \in BOOLEAN
  BY SortableType DEF IsNaN
<1>3. ~ LessIs(x, x)
  BY <1>2
<1>4. ~ (LessIs(x, y) /\ LessIs(y, x))
  BY <1>2
<1>5. ~ LessIs(x, y) /\ ~ LessIs(y, z) => ~ LessIs(x, z)
  <2> HIDE DEF Number
  <2>1. \A w \in {x, y, z} : Number(w) <=> w.type = 6 \/ w.type = 7
    BY DEF Number, I, R
  <2> QED BY <1>2, <2>1
<1> QED BY <1>1, <1>3, <1>4, <1>5

-----------------------------------------------------------------------------
(* What is sorted: n rows with these keys, in one direction.               *)
Keys(n) == [1 .. n -> Sortable]
Rows(n) == {r \in [1 .. n -> 1 .. n] : \A i, j \in 1 .. n : r[i] = r[j] => i = j}

(* That row i need not come after row j.                                   *)
Stays(i, j, key, down) == ~ Swaps(i, j, key, down)

LEMMA SwapsWhen ==
  ASSUME NEW n \in Nat, NEW key \in Keys(n), NEW down \in BOOLEAN,
         NEW i \in 1 .. n, NEW j \in 1 .. n
  PROVE  Swaps(i, j, key, down) <=>
           LET x == IF down THEN key[j] ELSE key[i]
               y == IF down THEN key[i] ELSE key[j]
           IN  Less(y, x) \/ (~ Less(x, y) /\ i > j)
<1>1. key[i] \in Sortable /\ key[j] \in Sortable
  BY DEF Keys
<1>2. /\ Compared(key[i], key[j]) = "LT" <=> Less(key[i], key[j])
      /\ Compared(key[i], key[j]) = "GT" <=> Less(key[j], key[i])
      /\ Compared(key[i], key[j]) = "EQ" <=>
           ~ Less(key[i], key[j]) /\ ~ Less(key[j], key[i])
  BY <1>1, ComparedRight
<1>3. ~ (Less(key[i], key[j]) /\ Less(key[j], key[i]))
  BY <1>1, LessOrder
<1>4. CASE down
  BY <1>2, <1>3, <1>4 DEF Swaps
<1>5. CASE ~ down
  BY <1>2, <1>3, <1>5 DEF Swaps
<1> QED BY <1>4, <1>5

(* Two rows have to be exchanged in one order only, and rows can be put in *)
(* a row, as those with equal keys go by their numbers.                    *)
LEMMA StaysOrder ==
  ASSUME NEW n \in Nat, NEW key \in Keys(n), NEW down \in BOOLEAN
  PROVE  /\ \A i \in 1 .. n : Stays(i, i, key, down)
         /\ \A i, j \in 1 .. n : Stays(i, j, key, down) \/ Stays(j, i, key, down)
         /\ \A i, j, k \in 1 .. n :
              Stays(i, j, key, down) /\ Stays(j, k, key, down) => Stays(i, k, key, down)
<1> DEFINE L(i, j) == IF down THEN Less(key[j], key[i]) ELSE Less(key[i], key[j])
<1>1. ASSUME NEW i \in 1 .. n, NEW j \in 1 .. n
      PROVE  Stays(i, j, key, down) <=> ~ L(j, i) /\ (L(i, j) \/ i <= j)
  BY SwapsWhen DEF Stays
<1>2. ASSUME NEW i \in 1 .. n, NEW j \in 1 .. n, NEW k \in 1 .. n
      PROVE  /\ ~ L(i, i) /\ ~ (L(i, j) /\ L(j, i))
             /\ ~ L(i, j) /\ ~ L(j, k) => ~ L(i, k)
  <2>1. key[i] \in Sortable /\ key[j] \in Sortable /\ key[k] \in Sortable
    BY DEF Keys
  <2>2. CASE down
    BY <2>1, <2>2, LessOrder
  <2>3. CASE ~ down
    BY <2>1, <2>3, LessOrder
  <2> QED BY <2>2, <2>3
<1> HIDE DEF L
<1>3. \A i \in 1 .. n : Stays(i, i, key, down)
  BY <1>1, <1>2
<1>4. \A i, j \in 1 .. n : Stays(i, j, key, down) \/ Stays(j, i, key, down)
  BY <1>1, <1>2
<1>5. ASSUME NEW i \in 1 .. n, NEW j \in 1 .. n, NEW k \in 1 .. n,
             Stays(i, j, key, down), Stays(j, k, key, down)
      PROVE  Stays(i, k, key, down)
  <2>1. ~ L(j, i) /\ (L(i, j) \/ i <= j) /\ ~ L(k, j) /\ (L(j, k) \/ j <= k)
    BY <1>1, <1>5
  <2>2. ~ L(k, i)
    BY <1>2, <2>1
  <2>3. ASSUME ~ L(i, k) PROVE i <= k
    <3>1. ~ L(i, j) /\ ~ L(j, k)
      BY <1>2, <2>1, <2>3
    <3> QED BY <2>1, <3>1
  <2> QED BY <1>1, <2>2, <2>3
<1> QED BY <1>3, <1>4, <1>5

-----------------------------------------------------------------------------
(* A pass.                                                                 *)

LEMMA RowsType ==
  ASSUME NEW n \in Nat, NEW r \in Rows(n)
  PROVE  /\ r \in [1 .. n -> 1 .. n] /\ r \in Seq(1 .. n) /\ Len(r) = n
         /\ DOMAIN r = 1 .. n
<1>1. r \in [1 .. n -> 1 .. n]
  BY DEF Rows
<1>2. r \in Seq(1 .. n) /\ Len(r) = n
  BY <1>1, LenProperties, IsASeq
<1> QED BY <1>1, <1>2

LEMMA ExchangedRows ==
  ASSUME NEW n \in Nat, NEW r \in Rows(n), NEW k \in 1 .. n, NEW l \in 1 .. n,
         NEW key, NEW down
  PROVE  Exchanged(r, k, l, key, down) \in Rows(n)
<1>1. r \in [1 .. n -> 1 .. n] /\ \A i, j \in 1 .. n : r[i] = r[j] => i = j
  BY DEF Rows
<1> DEFINE q == [r EXCEPT ![k] = r[l], ![l] = r[k]]
<1>2. /\ q \in [1 .. n -> 1 .. n]
      /\ \A i \in 1 .. n : q[i] = IF i = l THEN r[k] ELSE IF i = k THEN r[l] ELSE r[i]
  BY <1>1
<1> HIDE DEF q
<1>3. \A i, j \in 1 .. n : q[i] = q[j] => i = j
  BY <1>1, <1>2
<1>4. q \in Rows(n)
  BY <1>2, <1>3 DEF Rows
<1> QED BY <1>4 DEF Exchanged, q

(* The rows after each of the comparisons of a pass.                       *)
Passing(f, n, gap, r, key, down) ==
  /\ f \in [0 .. n - gap -> Rows(n)]
  /\ f[0] = r
  /\ \A k \in 1 .. n - gap : f[k] = Exchanged(f[k - 1], k, k + gap, key, down)

LEMMA PassSteps ==
  ASSUME NEW n \in Nat, NEW gap \in 1 .. n, NEW r \in Rows(n), NEW key, NEW down
  PROVE  \E f : /\ Passing(f, n, gap, r, key, down)
                /\ Pass(r, gap, key, down) = f[n - gap]
<1> DEFINE N == n - gap
           step == [k \in 1 .. N |->
                      [s \in Rows(n) |-> Exchanged(s, k, k + gap, key, down)]]
           E(f) == [k \in 0 .. N |-> IF k = 0 THEN r
                                     ELSE Exchanged(f[k - 1], k, k + gap, key, down)]
           after == CHOOSE f : f = E(f)
<1>1. N \in Nat /\ Len(r) = n
  BY RowsType
<1>2. step \in [1 .. N -> [Rows(n) -> Rows(n)]]
  <2>1. ASSUME NEW k \in 1 .. N, NEW s \in Rows(n)
        PROVE  Exchanged(s, k, k + gap, key, down) \in Rows(n)
    <3>1. k \in 1 .. n /\ k + gap \in 1 .. n
      BY <1>1
    <3> QED BY <3>1, ExchangedRows
  <2> QED BY <2>1
<1>3. PICK f \in [0 .. N -> Rows(n)] :
        f[0] = r /\ \A k \in 1 .. N : f[k] = step[k][f[k - 1]]
  <2> DEFINE Dom == Rows(n)
  <2>1. r \in Dom /\ N \in Nat /\ step \in [1 .. N -> [Dom -> Dom]]
    BY <1>1, <1>2
  <2> HIDE DEF step, N, Dom, E, after
  <2>2. \E f \in [0 .. N -> Dom] : f[0] = r /\ \A k \in 1 .. N : f[k] = step[k][f[k - 1]]
    BY <2>1, Recursion
  <2> QED BY <2>2 DEF Dom
<1>4. \A k \in 1 .. N : f[k] = Exchanged(f[k - 1], k, k + gap, key, down)
  <2> SUFFICES ASSUME NEW k \in 1 .. N
               PROVE  f[k] = Exchanged(f[k - 1], k, k + gap, key, down)
    OBVIOUS
  <2>1. k - 1 \in 0 .. N
    BY <1>1
  <2> QED BY <1>3, <2>1
<1>5. f = E(f)
  BY <1>3, <1>4
<1>6. after = E(after)
  BY <1>5
<1> HIDE DEF N, after
<1>7. after[0] = r /\ \A k \in 1 .. N : after[k] = Exchanged(after[k - 1], k, k + gap, key, down)
  <2>1. 0 \in 0 .. N /\ \A k \in 1 .. N : k \in 0 .. N /\ k # 0
    BY <1>1
  <2> QED BY <1>6, <2>1
<1>8. 0 .. N \subseteq {k \in 0 .. N : after[k] = f[k]}
  <2>1. 0 \in {k \in 0 .. N : after[k] = f[k]}
    BY <1>1, <1>3, <1>7
  <2>2. ASSUME NEW m \in 1 .. N, m - 1 \in {k \in 0 .. N : after[k] = f[k]}
        PROVE  m \in {k \in 0 .. N : after[k] = f[k]}
    BY <1>1, <1>4, <1>7, <2>2
  <2> QED BY <1>1, <2>1, <2>2, Counting
<1>9. after[N] = f[N]
  BY <1>1, <1>8
<1>10. Pass(r, gap, key, down) = after[N]
  BY <1>1 DEF Pass, after, N
<1> QED BY <1>3, <1>4, <1>9, <1>10 DEF Passing, N

-----------------------------------------------------------------------------
(* The places that a gap leads to from place a, a among them.              *)
Chained(a, b, gap) == \E m \in Nat : b = a + m * gap

LEMMA ChainedFacts ==
  ASSUME NEW gap \in Nat \ {0}, NEW a \in Nat, NEW b \in Nat
  PROVE  /\ Chained(a, a, gap)
         /\ Chained(a, b, gap) => a <= b /\ Chained(a, b + gap, gap)
         /\ Chained(a, b, gap) /\ a # b =>
              /\ a + gap <= b
              /\ Chained(a + gap, b, gap)
              /\ Chained(a, b - gap, gap)
<1>1. Chained(a, a, gap)
  <2>1. a = a + 0 * gap /\ 0 \in Nat
    OBVIOUS
  <2> QED BY <2>1 DEF Chained
<1>2. ASSUME NEW m \in Nat, b = a + m * gap
      PROVE  /\ a <= b /\ Chained(a, b + gap, gap)
             /\ a # b => /\ a + gap <= b
                         /\ Chained(a + gap, b, gap)
                         /\ Chained(a, b - gap, gap)
  <2>1. PICK c \in Nat : c = m * gap
    OBVIOUS
  <2>2. a <= b
    BY <1>2, <2>1
  <2>3. Chained(a, b + gap, gap)
    <3>1. (m + 1) * gap = m * gap + gap /\ m + 1 \in Nat
      OBVIOUS
    <3>2. b + gap = a + (m + 1) * gap
      BY <1>2, <2>1, <3>1
    <3> QED BY <3>1, <3>2 DEF Chained
  <2>4. ASSUME a # b
        PROVE  /\ a + gap <= b /\ Chained(a + gap, b, gap) /\ Chained(a, b - gap, gap)
    <3>1. m # 0
      BY <1>2, <2>4
    <3>2. PICK k \in Nat : m = k + 1
      <4>1. m - 1 \in Nat /\ m = (m - 1) + 1
        BY <3>1
      <4> QED BY <4>1
    <3>3. PICK d \in Nat : d = k * gap
      OBVIOUS
    <3>4. (k + 1) * gap = d + gap
      BY <3>3
    <3>5. b = a + (d + gap)
      BY <1>2, <3>2, <3>4
    <3>6. b = (a + gap) + d /\ b - gap = a + d /\ a + gap <= b
      BY <3>5
    <3> QED BY <3>3, <3>6 DEF Chained
  <2> QED BY <2>2, <2>3, <2>4
<1> QED BY <1>1, <1>2 DEF Chained

(* Rows that are to be exchanged are not to be exchanged back, whatever    *)
(* their keys, also where the order is not total.                          *)
LEMMA ComparedOpposite ==
  ASSUME NEW x \in Values, NEW y \in Values
  PROVE  /\ Compared(x, y) = "GT" <=> Compared(y, x) = "LT"
         /\ Compared(x, y) = "EQ" <=> Compared(y, x) = "EQ"
<1>1. /\ x.type \in Nat /\ x.v \in Int /\ (IsNaN(x) => x.type = R)
      /\ y.type \in Nat /\ y.v \in Int /\ (IsNaN(y) => y.type = R)
  BY DEF Values, IsNaN
<1>2. AsReal(x) \in Int /\ AsReal(y) \in Int
  BY <1>1 DEF AsReal
<1>3. Numbers(x, y) <=> Numbers(y, x)
  BY DEF Numbers
<1>4. \A m, n \in Int : /\ Before(m, n) = "GT" <=> Before(n, m) = "LT"
                        /\ Before(m, n) = "EQ" <=> Before(n, m) = "EQ"
  BY DEF Before
<1>5. CASE Numbers(x, y) /\ IsNaN(x)
  <2>1. Compared(x, y) = IF IsNaN(y) THEN "EQ" ELSE "GT"
    BY <1>5 DEF Compared
  <2>2. CASE IsNaN(y)
    <3>1. Compared(y, x) = "EQ"
      BY <1>3, <1>5, <2>2 DEF Compared
    <3> QED BY <2>1, <2>2, <3>1
  <2>3. CASE ~ IsNaN(y)
    <3>1. Compared(y, x) = "LT"
      BY <1>3, <1>5, <2>3 DEF Compared
    <3> QED BY <2>1, <2>3, <3>1
  <2> QED BY <2>2, <2>3
<1>6. CASE Numbers(x, y) /\ ~ IsNaN(x) /\ IsNaN(y)
  <2>1. Compared(x, y) = "LT" /\ Compared(y, x) = "GT"
    BY <1>3, <1>6 DEF Compared
  <2> QED BY <2>1
<1>7. CASE ~ IsNaN(x) /\ ~ IsNaN(y) /\ Numbers(x, y) /\ x.type # y.type
  <2>1. Compared(x, y) = Before(AsReal(x), AsReal(y)) /\ Compared(y, x) = Before(AsReal(y), AsReal(x))
    BY <1>3, <1>7 DEF Compared
  <2> QED BY <1>2, <1>4, <2>1
<1>8. CASE ~ IsNaN(x) /\ ~ IsNaN(y) /\ x.type = y.type
  <2>1. Compared(x, y) = Before(x.v, y.v) /\ Compared(y, x) = Before(y.v, x.v)
    BY <1>8 DEF Compared
  <2> QED BY <1>1, <1>4, <2>1
<1>9. CASE ~ Numbers(x, y) /\ x.type # y.type
  <2>1. Compared(x, y) = Before(x.type, y.type) /\ Compared(y, x) = Before(y.type, x.type)
    BY <1>3, <1>9 DEF Compared
  <2> QED BY <1>1, <1>4, <2>1
<1>10. ~ Numbers(x, y) /\ x.type = y.type => ~ IsNaN(x) /\ ~ IsNaN(y)
  BY <1>1 DEF Numbers
<1> QED BY <1>5, <1>6, <1>7, <1>8, <1>9, <1>10

LEMMA SwapsOpposite ==
  ASSUME NEW n \in Nat, NEW key \in [1 .. n -> Values], NEW down \in BOOLEAN,
         NEW i \in 1 .. n, NEW j \in 1 .. n, Swaps(i, j, key, down)
  PROVE  ~ Swaps(j, i, key, down)
<1>1. key[i] \in Values /\ key[j] \in Values
  OBVIOUS
<1>2. /\ Compared(key[i], key[j]) = "GT" <=> Compared(key[j], key[i]) = "LT"
      /\ Compared(key[j], key[i]) = "GT" <=> Compared(key[i], key[j]) = "LT"
      /\ Compared(key[i], key[j]) = "EQ" <=> Compared(key[j], key[i]) = "EQ"
  BY <1>1, ComparedOpposite
<1> DEFINE c == Compared(key[i], key[j])
           d == Compared(key[j], key[i])
<1>3. /\ Swaps(i, j, key, down) <=> IF c = "EQ" THEN i > j ELSE c = IF down THEN "LT" ELSE "GT"
      /\ Swaps(j, i, key, down) <=> IF d = "EQ" THEN j > i ELSE d = IF down THEN "LT" ELSE "GT"
  BY DEF Swaps
<1> HIDE DEF c, d
<1>4. (c = "GT" <=> d = "LT") /\ (d = "GT" <=> c = "LT") /\ (c = "EQ" <=> d = "EQ")
  BY <1>2 DEF c, d
<1> QED BY <1>3, <1>4

(* The pairs of rows on one chain whose first has to come after their      *)
(* second.                                                                 *)
Wrong(s, n, gap, key, down) ==
  {z \in (1 .. n) \X (1 .. n) :
     /\ Swaps(z[1], z[2], key, down)
     /\ \E a, b \in 1 .. n : a < b /\ Chained(a, b, gap) /\ s[a] = z[1] /\ s[b] = z[2]}

(* An exchange takes one pair away from them, and adds none.               *)
LEMMA ExchangeShrinks ==
  ASSUME NEW n \in Nat, NEW key \in [1 .. n -> Values], NEW down \in BOOLEAN,
         NEW gap \in 1 .. n, NEW s \in Rows(n), NEW k \in 1 .. n, k + gap \in 1 .. n,
         Swaps(s[k], s[k + gap], key, down)
  PROVE  LET q == Exchanged(s, k, k + gap, key, down)
         IN  /\ Wrong(q, n, gap, key, down) \subseteq Wrong(s, n, gap, key, down)
             /\ <<s[k], s[k + gap]>> \in Wrong(s, n, gap, key, down)
             /\ <<s[k], s[k + gap]>> \notin Wrong(q, n, gap, key, down)
<1> DEFINE q == Exchanged(s, k, k + gap, key, down)
           l == k + gap
           C(a, b) == Chained(a, b, gap)
<1>1. s \in [1 .. n -> 1 .. n] /\ \A i, j \in 1 .. n : s[i] = s[j] => i = j
  BY DEF Rows
<1>2. q = [s EXCEPT ![k] = s[l], ![l] = s[k]]
  BY DEF Exchanged
<1>3. l \in 1 .. n /\ k < l
  OBVIOUS
<1>4. q[k] = s[l] /\ q[l] = s[k] /\ \A b \in 1 .. n : b # k /\ b # l => q[b] = s[b]
  BY <1>1, <1>2, <1>3
<1>5. ASSUME NEW a \in 1 .. n, NEW b \in 1 .. n
      PROVE  /\ C(a, a)
             /\ C(a, b) => a <= b /\ C(a, b + gap)
             /\ C(a, b) /\ a # b => a + gap <= b /\ C(a + gap, b) /\ C(a, b - gap)
  <2>1. a \in Nat /\ b \in Nat /\ gap \in Nat \ {0}
    OBVIOUS
  <2> QED BY <2>1, ChainedFacts
<1>6. \A b \in 1 .. n : C(l, b) => C(k, b)
  <2> SUFFICES ASSUME NEW b \in 1 .. n, NEW m \in Nat, b = l + m * gap PROVE C(k, b)
    BY DEF Chained
  <2>1. (m + 1) * gap = m * gap + gap /\ m + 1 \in Nat /\ m * gap \in Nat
    OBVIOUS
  <2>2. b = k + (m + 1) * gap
    BY <2>1
  <2> QED BY <2>1, <2>2 DEF Chained
<1>7. C(k, l) /\ l - gap = k
  BY <1>5
<1>8. <<s[k], s[l]>> \in Wrong(s, n, gap, key, down)
  <2>1. s[k] \in 1 .. n /\ s[l] \in 1 .. n
    BY <1>1, <1>3
  <2> HIDE DEF l, C
  <2>2. \E a, b \in 1 .. n : a < b /\ C(a, b) /\ s[a] = s[k] /\ s[b] = s[l]
    BY <1>3, <1>7
  <2>3. Swaps(s[k], s[l], key, down)
    BY DEF l
  <2> QED BY <2>1, <2>2, <2>3 DEF Wrong, C
<1> HIDE DEF q, l, C
<1>9. <<s[k], s[l]>> \notin Wrong(q, n, gap, key, down)
  <2> SUFFICES ASSUME NEW a \in 1 .. n, NEW b \in 1 .. n, a < b, q[a] = s[k], q[b] = s[l]
               PROVE  FALSE
    BY DEF Wrong
  <2>1. a = l
    BY <1>1, <1>3, <1>4
  <2>2. b = k
    BY <1>1, <1>3, <1>4
  <2> QED BY <1>3, <2>1, <2>2
<1>10. ASSUME NEW z \in Wrong(q, n, gap, key, down) PROVE z \in Wrong(s, n, gap, key, down)
  <2>1. /\ z \in (1 .. n) \X (1 .. n) /\ Swaps(z[1], z[2], key, down)
        /\ \E a, b \in 1 .. n : a < b /\ C(a, b) /\ q[a] = z[1] /\ q[b] = z[2]
    BY DEF Wrong, C
  <2>2. PICK a \in 1 .. n, b \in 1 .. n : a < b /\ C(a, b) /\ q[a] = z[1] /\ q[b] = z[2]
    BY <2>1
  <2>3. \E c, d \in 1 .. n : c < d /\ C(c, d) /\ s[c] = z[1] /\ s[d] = z[2]
    <3>1. CASE a # k /\ a # l /\ b # k /\ b # l
      BY <1>4, <2>2, <3>1
    <3>2. CASE a = k /\ b = l
      <4>1. z[1] = s[l] /\ z[2] = s[k] /\ s[l] \in 1 .. n /\ s[k] \in 1 .. n
        BY <1>1, <1>3, <1>4, <2>2, <3>2
      <4>2. Swaps(s[k], s[l], key, down)
        BY DEF l
      <4>3. ~ Swaps(s[l], s[k], key, down)
        BY <4>1, <4>2, SwapsOpposite
      <4> QED BY <2>1, <4>1, <4>3
    <3>3. CASE a = k /\ b # l
      <4>1. C(l, b) /\ l <= b
        BY <1>5, <2>2, <3>3 DEF l
      <4>2. q[a] = s[l] /\ q[b] = s[b] /\ l < b
        BY <1>3, <1>4, <2>2, <3>3, <4>1
      <4> QED BY <1>3, <2>2, <4>1, <4>2
    <3>4. CASE a = l
      <4>1. C(k, b) /\ k < b /\ b # l /\ b # k
        BY <1>3, <1>6, <2>2, <3>4
      <4>2. q[a] = s[k] /\ q[b] = s[b]
        BY <1>4, <3>4, <4>1
      <4> QED BY <2>2, <4>1, <4>2
    <3>5. CASE b = k
      <4>1. C(a, l) /\ a < l /\ a # k /\ a # l
        BY <1>3, <1>5, <2>2, <3>5 DEF l
      <4>2. q[a] = s[a] /\ q[b] = s[l]
        BY <1>4, <3>5, <4>1
      <4> QED BY <1>3, <2>2, <4>1, <4>2
    <3>6. CASE b = l /\ a # k
      <4>1. C(a, k) /\ a + gap <= l /\ a # l
        BY <1>3, <1>5, <1>7, <2>2, <3>6
      <4>2. a < k
        BY <3>6, <4>1 DEF l
      <4>3. q[a] = s[a] /\ q[b] = s[k]
        BY <1>4, <3>6, <4>1
      <4> QED BY <2>2, <4>1, <4>2, <4>3
    <3> QED BY <3>1, <3>2, <3>3, <3>4, <3>5, <3>6
  <2> QED BY <2>1, <2>3 DEF Wrong, C
<1>11. Wrong(q, n, gap, key, down) \subseteq Wrong(s, n, gap, key, down)
  BY <1>10
<1> QED BY <1>8, <1>9, <1>11 DEF q, l

(* A pass that exchanges rows takes pairs away from them, so that its rows *)
(* are others; one that exchanges none compares all neighbours.            *)
LEMMA PassShrinks ==
  ASSUME NEW n \in Nat, NEW key \in [1 .. n -> Values], NEW down \in BOOLEAN,
         NEW gap \in 1 .. n, NEW r \in Rows(n)
  PROVE  LET next == Pass(r, gap, key, down)
             before == Wrong(r, n, gap, key, down)
         IN  /\ next \in Rows(n)
             /\ \/ /\ next = r
                   /\ \A k \in 1 .. n - gap : ~ Swaps(r[k], r[k + gap], key, down)
                \/ /\ next # r
                   /\ Wrong(next, n, gap, key, down) \subseteq before
                   /\ \E z \in before : z \notin Wrong(next, n, gap, key, down)
<1>1. PICK f : /\ Passing(f, n, gap, r, key, down)
               /\ Pass(r, gap, key, down) = f[n - gap]
  BY PassSteps
<1> DEFINE N == n - gap
           W(s) == Wrong(s, n, gap, key, down)
           None(s, k) == s = r /\ \A i \in 1 .. k : ~ Swaps(r[i], r[i + gap], key, down)
           Fewer(s) == W(s) \subseteq W(r) /\ \E z \in W(r) : z \notin W(s)
           Inv(s, k) == None(s, k) \/ Fewer(s)
           X == {k \in 0 .. N : Inv(f[k], k)}
<1>2. /\ f \in [0 .. N -> Rows(n)] /\ f[0] = r /\ N \in Nat
      /\ \A k \in 1 .. N : f[k] = Exchanged(f[k - 1], k, k + gap, key, down)
  BY <1>1 DEF Passing
<1> HIDE DEF W
<1>3. 0 \in X
  BY <1>2
<1>4. ASSUME NEW k \in 1 .. N, Inv(f[k - 1], k - 1) PROVE Inv(f[k], k)
  <2>1. k \in 1 .. n /\ k + gap \in 1 .. n /\ k - 1 \in 0 .. N
    BY <1>2
  <2>2. PICK s \in Rows(n) : s = f[k - 1]
    BY <1>2, <2>1
  <2>3. f[k] = Exchanged(s, k, k + gap, key, down)
    BY <1>2, <2>2
  <2>4. CASE Swaps(s[k], s[k + gap], key, down)
    <3>1. /\ W(f[k]) \subseteq W(s)
          /\ <<s[k], s[k + gap]>> \in W(s) /\ <<s[k], s[k + gap]>> \notin W(f[k])
      BY <2>1, <2>3, <2>4, ExchangeShrinks DEF W
    <3>2. W(s) \subseteq W(r)
      BY <1>4, <2>2
    <3>3. Fewer(f[k])
      BY <3>1, <3>2
    <3> QED BY <3>3
  <2>5. CASE ~ Swaps(s[k], s[k + gap], key, down)
    <3>1. f[k] = s
      BY <2>3, <2>5 DEF Exchanged
    <3>2. CASE None(s, k - 1)
      <4>1. \A i \in 1 .. k : i \in 1 .. k - 1 \/ i = k
        OBVIOUS
      <4>2. None(s, k)
        BY <2>5, <3>2, <4>1
      <4> QED BY <3>1, <4>2
    <3> QED BY <1>4, <2>2, <3>1, <3>2
  <2> QED BY <2>4, <2>5
<1>5. ASSUME NEW k \in 1 .. N, k - 1 \in X PROVE k \in X
  <2> HIDE DEF Inv
  <2>1. k \in 0 .. N
    BY <1>2
  <2> QED BY <1>4, <1>5, <2>1
<1> HIDE DEF X
<1>6. 0 .. N \subseteq X
  BY <1>2, <1>3, <1>5, Counting
<1>7. Inv(f[N], N) /\ f[N] \in Rows(n)
  <2>1. N \in 0 .. N
    BY <1>2
  <2> QED BY <1>2, <1>6, <2>1 DEF X
<1>8. Fewer(f[N]) => f[N] # r
  OBVIOUS
<1>9. \/ None(f[N], N) \/ (Fewer(f[N]) /\ f[N] # r)
  BY <1>7, <1>8
<1> QED BY <1>1, <1>7, <1>9 DEF W

-----------------------------------------------------------------------------
(* The passes with one gap.                                                *)

LEMMA PassRows ==
  ASSUME NEW n \in Nat, NEW gap \in 1 .. n, NEW r \in Rows(n), NEW key, NEW down
  PROVE  Pass(r, gap, key, down) \in Rows(n)
<1>1. PICK f : /\ Passing(f, n, gap, r, key, down)
               /\ Pass(r, gap, key, down) = f[n - gap]
  BY PassSteps
<1>2. n - gap \in 0 .. n - gap
  OBVIOUS
<1> QED BY <1>1, <1>2 DEF Passing

(* The rows after each of the passes, and whether the last one exchanged   *)
(* nothing.                                                                *)
Turns(n) == [rows : Rows(n), ended : BOOLEAN]

LEMMA RepeatedType ==
  ASSUME NEW n \in Nat, NEW gap \in 1 .. n, NEW s \in Turns(n), NEW key, NEW down
  PROVE  /\ Repeated(s, gap, key, down) \in Turns(n)
         /\ s.ended => Repeated(s, gap, key, down) = s
         /\ ~ s.ended =>
              /\ Repeated(s, gap, key, down).rows = Pass(s.rows, gap, key, down)
              /\ Repeated(s, gap, key, down).ended <=> Pass(s.rows, gap, key, down) = s.rows
<1>1. s.rows \in Rows(n) /\ s.ended \in BOOLEAN
  BY DEF Turns
<1>2. CASE s.ended
  BY <1>2 DEF Repeated
<1>3. CASE ~ s.ended
  <2> DEFINE next == Pass(s.rows, gap, key, down)
  <2>1. Repeated(s, gap, key, down) = [rows |-> next, ended |-> next = s.rows]
    BY <1>3 DEF Repeated
  <2>2. next \in Rows(n)
    BY <1>1, PassRows
  <2> HIDE DEF next
  <2>3. [rows |-> next, ended |-> next = s.rows] \in Turns(n)
    BY <2>2 DEF Turns
  <2> DEFINE same == next = s.rows
             turn == [rows |-> next, ended |-> same]
  <2>4. turn.rows = next /\ turn.ended = same
    OBVIOUS
  <2>5. turn \in Turns(n) /\ Repeated(s, gap, key, down) = turn
    BY <2>1, <2>3
  <2> HIDE DEF turn
  <2>6. Repeated(s, gap, key, down).rows = next /\ Repeated(s, gap, key, down).ended = same
    BY <2>4, <2>5
  <2> HIDE DEF next
  <2> QED BY <1>3, <2>5, <2>6, Zenon DEF next
<1> QED BY <1>1, <1>2, <1>3

Turning(f, N, n, gap, r, key, down) ==
  /\ f \in [0 .. N -> Turns(n)]
  /\ f[0] = [rows |-> r, ended |-> FALSE]
  /\ \A k \in 1 .. N : f[k] = Repeated(f[k - 1], gap, key, down)
  /\ Rounds(r, gap, key, down) = f[N]

LEMMA RoundsSteps ==
  ASSUME NEW n \in Nat, NEW gap \in 1 .. n, NEW r \in Rows(n), NEW key, NEW down
  PROVE  \E f : Turning(f, n * n + 1, n, gap, r, key, down)
<1> DEFINE N == n * n + 1
           Dom == Turns(n)
           base == [rows |-> r, ended |-> FALSE]
           step == [k \in 1 .. N |-> [s \in Dom |-> Repeated(s, gap, key, down)]]
           E(f) == [k \in 0 .. N |-> IF k = 0 THEN base ELSE Repeated(f[k - 1], gap, key, down)]
           after == CHOOSE f : f = E(f)
<1>1. Len(r) = n /\ N \in Nat
  BY RowsType
<1>2. base \in Dom
  BY DEF Turns
<1>3. step \in [1 .. N -> [Dom -> Dom]]
  BY RepeatedType
<1> HIDE DEF N, base
<1>4. PICK f \in [0 .. N -> Dom] :
        f[0] = base /\ \A k \in 1 .. N : f[k] = step[k][f[k - 1]]
  <2>1. base \in Dom
    BY <1>2
  <2>2. N \in Nat
    BY <1>1
  <2>3. step \in [1 .. N -> [Dom -> Dom]]
    BY <1>3
  <2> HIDE DEF step, Dom, E, after
  <2>4. PICK f : Iterates(f, Dom, base, N, step)
    BY ONLY <2>1, <2>2, <2>3, Iteration
  <2> QED BY <2>4 DEF Iterates
<1>5. \A k \in 1 .. N : f[k] = Repeated(f[k - 1], gap, key, down)
  <2> SUFFICES ASSUME NEW k \in 1 .. N
               PROVE  f[k] = Repeated(f[k - 1], gap, key, down)
    OBVIOUS
  <2>1. k - 1 \in 0 .. N
    BY <1>1
  <2> QED BY <1>4, <2>1
<1>6. f = E(f)
  BY <1>1, <1>4, <1>5
<1>7. after = E(after)
  BY <1>6
<1> HIDE DEF after
<1>8. after[0] = base /\ \A k \in 1 .. N : after[k] = Repeated(after[k - 1], gap, key, down)
  <2>1. 0 \in 0 .. N /\ \A k \in 1 .. N : k \in 0 .. N /\ k # 0
    BY <1>1
  <2> QED BY <1>7, <2>1
<1>9. 0 .. N \subseteq {k \in 0 .. N : after[k] = f[k]}
  <2>1. 0 \in {k \in 0 .. N : after[k] = f[k]}
    BY <1>1, <1>4, <1>8
  <2>2. ASSUME NEW m \in 1 .. N, m - 1 \in {k \in 0 .. N : after[k] = f[k]}
        PROVE  m \in {k \in 0 .. N : after[k] = f[k]}
    BY <1>1, <1>5, <1>8, <2>2
  <2> QED BY <1>1, <2>1, <2>2, Counting
<1>10. after[N] = f[N]
  BY <1>1, <1>9
<1>11. Rounds(r, gap, key, down) = after[N]
  BY <1>1 DEF Rounds, after, N, base
<1>12. Turning(f, N, n, gap, r, key, down)
  BY <1>4, <1>5, <1>10, <1>11 DEF base, Turning
<1> QED BY <1>12 DEF N

LEMMA PassesRows ==
  ASSUME NEW n \in Nat, NEW gap \in 1 .. n, NEW r \in Rows(n), NEW key, NEW down
  PROVE  Passes(r, gap, key, down) \in Rows(n)
<1>1. Rounds(r, gap, key, down) \in Turns(n)
  <2> DEFINE N == n * n + 1
  <2>1. PICK f : Turning(f, N, n, gap, r, key, down)
    BY RoundsSteps
  <2>2. N \in 0 .. N
    OBVIOUS
  <2> HIDE DEF N
  <2> QED BY <2>1, <2>2 DEF Turning
<1> QED BY <1>1 DEF Passes, Turns

(* There are at most as many pairs as the square of the number of rows.    *)
LEMMA WrongFew ==
  ASSUME NEW n \in Nat, NEW s, NEW gap, NEW key, NEW down
  PROVE  LET W == Wrong(s, n, gap, key, down)
         IN  IsFiniteSet(W) /\ Cardinality(W) \in Nat /\ Cardinality(W) <= n * n
<1> DEFINE D == 1 .. n
           W == Wrong(s, n, gap, key, down)
<1>1. IsFiniteSet(D) /\ Cardinality(D) = n
  <2>1. IsFiniteSet(1 .. n) /\ Cardinality(1 .. n) = IF 1 > n THEN 0 ELSE n - 1 + 1
    BY FS_Interval
  <2> QED BY <2>1
<1> HIDE DEF D
<1>2. IsFiniteSet(D \X D) /\ Cardinality(D \X D) = n * n
  <2>1. IsFiniteSet(D \X D) /\ Cardinality(D \X D) = Cardinality(D) * Cardinality(D)
    BY <1>1, FS_Product
  <2> QED BY <1>1, <2>1
<1>3. W \subseteq D \X D
  BY DEF D, Wrong
<1> HIDE DEF W
<1>4. IsFiniteSet(W) /\ Cardinality(W) <= Cardinality(D \X D)
  BY <1>2, <1>3, FS_Subset
<1>5. Cardinality(W) \in Nat
  BY <1>4, FS_CardinalityType
<1> QED BY <1>2, <1>4, <1>5 DEF W

(* The loop of SORT11 ends, whatever the keys: the comparisons of two rows *)
(* are opposite to one another, but nothing else is asked of the order.    *)
(* Passes makes as many passes as are needed.                              *)
THEOREM PassesEnd ==
  ASSUME NEW n \in Nat, NEW key \in [1 .. n -> Values], NEW down \in BOOLEAN,
         NEW gap \in 1 .. n, NEW r \in Rows(n)
  PROVE  Rounds(r, gap, key, down).ended
<1> DEFINE square == n * n
           N == square + 1
           W(s) == Wrong(s, n, gap, key, down)
           c(s) == Cardinality(W(s))
<1>1. square \in Nat /\ N \in Nat /\ N \in 0 .. N /\ square \in 0 .. N /\ N - 1 = square
  OBVIOUS
<1>2. \A s : IsFiniteSet(W(s)) /\ c(s) \in Nat /\ c(s) <= square
  BY WrongFew
<1>3. PICK f \in [0 .. N -> Turns(n)] :
           /\ f[0] = [rows |-> r, ended |-> FALSE]
           /\ \A k \in 1 .. N : f[k] = Repeated(f[k - 1], gap, key, down)
           /\ Rounds(r, gap, key, down) = f[N]
  <2>1. PICK f : Turning(f, N, n, gap, r, key, down)
    BY RoundsSteps
  <2> HIDE DEF N
  <2> QED BY <2>1 DEF Turning
<1> DEFINE Near(k) == f[k].ended \/ c(f[k].rows) <= square - k
           X == {k \in 0 .. square : Near(k)}
<1> HIDE DEF square
<1>4. 0 \in X
  BY <1>1, <1>2, <1>3
<1>5. ASSUME NEW k \in 1 .. N, ~ f[k].ended
      PROVE  ~ f[k - 1].ended /\ c(f[k].rows) < c(f[k - 1].rows)
  <2>1. k - 1 \in 0 .. N
    BY <1>1
  <2>2. PICK s \in Turns(n) : s = f[k - 1]
    BY <1>3, <2>1
  <2>3. f[k] = Repeated(s, gap, key, down)
    BY <1>3, <2>2
  <2>4. /\ s.ended => f[k] = s
        /\ ~ s.ended => /\ f[k].rows = Pass(s.rows, gap, key, down)
                        /\ f[k].ended <=> Pass(s.rows, gap, key, down) = s.rows
    BY <2>3, RepeatedType
  <2>5. ~ s.ended /\ f[k].rows = Pass(s.rows, gap, key, down) /\ f[k].rows # s.rows
    BY <1>5, <2>4
  <2>6. s.rows \in Rows(n)
    BY DEF Turns
  <2>7. W(f[k].rows) \subseteq W(s.rows) /\ \E z \in W(s.rows) : z \notin W(f[k].rows)
    BY <2>5, <2>6, PassShrinks
  <2>8. W(f[k].rows) # W(s.rows)
    BY <2>7
  <2> HIDE DEF W
  <2>9. Cardinality(W(f[k].rows)) < Cardinality(W(s.rows))
    <3>1. /\ Cardinality(W(f[k].rows)) <= Cardinality(W(s.rows))
          /\ Cardinality(W(f[k].rows)) = Cardinality(W(s.rows)) => W(f[k].rows) = W(s.rows)
      BY <1>2, <2>7, FS_Subset
    <3> QED BY <1>2, <2>8, <3>1
  <2> QED BY <2>2, <2>5, <2>9
<1> HIDE DEF c
<1>6. ASSUME NEW k \in 1 .. square, k - 1 \in X PROVE k \in X
  <2>1. k \in 1 .. N /\ k \in 0 .. square
    BY <1>1
  <2>2. ~ f[k].ended => c(f[k].rows) < c(f[k - 1].rows) /\ c(f[k - 1].rows) <= square - (k - 1)
    BY <1>5, <1>6, <2>1
  <2>3. Near(k)
    BY <1>1, <1>2, <2>1, <2>2
  <2> QED BY <2>1, <2>3
<1> HIDE DEF X
<1>7. square \in X
  <2>1. square \in Nat /\ square \in 0 .. square
    BY <1>1
  <2>2. 0 .. square \subseteq X
    BY <1>4, <1>6, <2>1, Counting
  <2> QED BY <2>1, <2>2
<1>8. f[square].ended \/ c(f[square].rows) <= square - square
  BY <1>7 DEF X
<1>9. f[N].ended
  <2> SUFFICES ASSUME ~ f[N].ended PROVE FALSE
    OBVIOUS
  <2>1. N \in 1 .. N
    BY <1>1
  <2>2. ~ f[square].ended /\ c(f[N].rows) < c(f[square].rows)
    BY <1>1, <1>5, <2>1
  <2> QED BY <1>1, <1>2, <1>8, <2>2
<1> QED BY <1>3, <1>9

(* Where the order is total, each chain is in order when nothing is        *)
(* exchanged: in s nothing that the gap leads to place b from has to come  *)
(* after what is there.                                                    *)
Settled(s, b, gap, key, down) ==
  \A a \in 1 .. b : Chained(a, b, gap) => Stays(s[a], s[b], key, down)

LEMMA NeighboursSettle ==
  ASSUME NEW n \in Nat, NEW key \in Keys(n), NEW down \in BOOLEAN,
         NEW gap \in 1 .. n, NEW s \in Rows(n),
         \A k \in 1 .. n - gap : ~ Swaps(s[k], s[k + gap], key, down)
  PROVE  \A b \in 1 .. n : Settled(s, b, gap, key, down)
<1>1. s \in [1 .. n -> 1 .. n]
  BY DEF Rows
<1>2. /\ \A i \in 1 .. n : Stays(i, i, key, down)
      /\ \A i, l, k \in 1 .. n :
           Stays(i, l, key, down) /\ Stays(l, k, key, down) => Stays(i, k, key, down)
  BY StaysOrder
<1> DEFINE Bad == {b \in 1 .. n : ~ Settled(s, b, gap, key, down)}
<1> SUFFICES ASSUME Bad # {} PROVE FALSE
  OBVIOUS
<1>3. Bad \in SUBSET Nat
  OBVIOUS
<1>4. PICK b \in Bad : \A m \in Bad : b <= m
  BY <1>3, NatLeast
<1>5. b \in 1 .. n /\ ~ Settled(s, b, gap, key, down)
  BY <1>4
<1>6. PICK a \in 1 .. b : Chained(a, b, gap) /\ ~ Stays(s[a], s[b], key, down)
  BY <1>5 DEF Settled
<1>7. a \in 1 .. n /\ s[a] \in 1 .. n /\ s[b] \in 1 .. n
  BY <1>1, <1>5
<1>8. a # b
  BY <1>2, <1>6, <1>7
<1>9. Chained(a, b - gap, gap) /\ a + gap <= b
  <2>1. gap \in Nat \ {0} /\ a \in Nat /\ b \in Nat
    BY <1>5, <1>7
  <2> QED BY <1>6, <1>8, <2>1, ChainedFacts
<1> DEFINE c == b - gap
<1>10. c \in 1 .. n - gap /\ c \in 1 .. n /\ a \in 1 .. c /\ c + gap = b /\ c < b
  BY <1>5, <1>7, <1>9
<1>11. Chained(a, c, gap)
  BY <1>9
<1> HIDE DEF c, Bad
<1>12. Settled(s, c, gap, key, down)
  <2>1. c \notin Bad
    BY <1>4, <1>5, <1>10
  <2> QED BY <1>10, <2>1 DEF Bad
<1>13. Stays(s[a], s[c], key, down)
  BY <1>10, <1>11, <1>12 DEF Settled
<1>14. Stays(s[c], s[b], key, down)
  BY <1>10 DEF Stays
<1>15. s[c] \in 1 .. n
  BY <1>1, <1>10
<1> QED BY <1>2, <1>6, <1>7, <1>13, <1>14, <1>15

(* When the passes have ended each chain is in order.                      *)
LEMMA PassesSettle ==
  ASSUME NEW n \in Nat, NEW key \in Keys(n), NEW down \in BOOLEAN,
         NEW gap \in 1 .. n, NEW r \in Rows(n)
  PROVE  \A b \in 1 .. n : Settled(Passes(r, gap, key, down), b, gap, key, down)
<1> DEFINE N == n * n + 1
           Still(x) == x.ended => \A k \in 1 .. n - gap : ~ Swaps(x.rows[k], x.rows[k + gap], key, down)
<1>1. key \in [1 .. n -> Values]
  BY DEF Keys, Sortable, Values
<1>2. PICK f \in [0 .. N -> Turns(n)] :
           /\ f[0] = [rows |-> r, ended |-> FALSE]
           /\ \A k \in 1 .. N : f[k] = Repeated(f[k - 1], gap, key, down)
           /\ Rounds(r, gap, key, down) = f[N]
  <2>1. PICK f : Turning(f, N, n, gap, r, key, down)
    BY RoundsSteps
  <2> HIDE DEF N
  <2> QED BY <2>1 DEF Turning
<1>3. N \in Nat
  OBVIOUS
<1> HIDE DEF N
<1> DEFINE X == {k \in 0 .. N : Still(f[k])}
<1>4. 0 \in X
  BY <1>2, <1>3
<1>5. ASSUME NEW k \in 1 .. N, k - 1 \in X PROVE k \in X
  <2>1. k - 1 \in 0 .. N /\ k \in 0 .. N
    BY <1>3
  <2>2. PICK s \in Turns(n) : s = f[k - 1]
    BY <1>2, <2>1
  <2>3. f[k] = Repeated(s, gap, key, down) /\ Still(s)
    BY <1>2, <1>5, <2>2
  <2>4. s.rows \in Rows(n)
    BY DEF Turns
  <2>5. CASE s.ended
    <3>1. f[k] = s
      BY <2>3, <2>5, RepeatedType
    <3>2. Still(f[k])
      BY <2>3, <3>1
    <3> QED BY <2>1, <3>2
  <2>6. CASE ~ s.ended
    <3>1. /\ f[k].rows = Pass(s.rows, gap, key, down)
          /\ f[k].ended <=> Pass(s.rows, gap, key, down) = s.rows
      BY <2>3, <2>6, RepeatedType
    <3>2. Pass(s.rows, gap, key, down) = s.rows =>
            \A i \in 1 .. n - gap : ~ Swaps(s.rows[i], s.rows[i + gap], key, down)
      BY <1>1, <2>4, PassShrinks
    <3>3. Still(f[k])
      BY <3>1, <3>2
    <3> QED BY <2>1, <3>3
  <2> QED BY <2>5, <2>6
<1> HIDE DEF X
<1>6. N \in X
  BY <1>3, <1>4, <1>5, Counting
<1>7. PICK s \in Turns(n) : s = f[N]
  BY <1>2, <1>3
<1>8. s = Rounds(r, gap, key, down) /\ Still(s) /\ s.rows \in Rows(n)
  BY <1>2, <1>6, <1>7 DEF X, Turns
<1>9. s.ended
  BY <1>1, <1>8, PassesEnd
<1>10. \A b \in 1 .. n : Settled(s.rows, b, gap, key, down)
  BY <1>8, <1>9, NeighboursSettle
<1> QED BY <1>8, <1>10 DEF Passes

-----------------------------------------------------------------------------
(* The sort.                                                               *)
States(n) == [gap : 0 .. n, rows : Rows(n)]

LEMMA NarrowedType ==
  ASSUME NEW n \in Nat, NEW s \in States(n), NEW key, NEW down
  PROVE  /\ Narrowed(s, key, down) \in States(n)
         /\ s.gap > 1 => /\ s.gap \div 2 \in 1 .. n /\ s.gap \div 2 < s.gap
                         /\ Narrowed(s, key, down).gap = s.gap \div 2
                         /\ Narrowed(s, key, down).rows
                              = Passes(s.rows, s.gap \div 2, key, down)
         /\ s.gap <= 1 => Narrowed(s, key, down) = s
<1>1. s.gap \in 0 .. n /\ s.rows \in Rows(n)
  BY DEF States
<1>2. CASE s.gap <= 1
  BY <1>1, <1>2 DEF Narrowed
<1>3. CASE s.gap > 1
  <2>1. s.gap \div 2 \in 1 .. n /\ s.gap \div 2 < s.gap
    BY <1>1, <1>3
  <2>2. Passes(s.rows, s.gap \div 2, key, down) \in Rows(n)
    BY <1>1, <2>1, PassesRows
  <2>3. Narrowed(s, key, down)
          = [gap |-> s.gap \div 2, rows |-> Passes(s.rows, s.gap \div 2, key, down)]
    BY <1>1, <1>3 DEF Narrowed
  <2>4. Narrowed(s, key, down) \in States(n)
    BY <2>1, <2>2, <2>3 DEF States
  <2> QED BY <1>1, <1>3, <2>1, <2>3, <2>4
<1> QED BY <1>1, <1>2, <1>3

(* The rows and the gap after each round of passes.                        *)
Narrowing(f, n, key, down) ==
  /\ f \in [0 .. n -> States(n)]
  /\ f[0] = [gap |-> n, rows |-> [i \in 1 .. n |-> i]]
  /\ \A k \in 1 .. n : f[k] = Narrowed(f[k - 1], key, down)

KeysSeq(key, n) == Len(key) = n /\ DOMAIN key = 1 .. n

LEMMA SORT1Steps ==
  ASSUME NEW n \in Nat, NEW key, KeysSeq(key, n), NEW down
  PROVE  \E f : /\ Narrowing(f, n, key, down)
                /\ SORT1(key, down) = f[n].rows
<1> DEFINE Dom == States(n)
           base == [gap |-> n, rows |-> [i \in 1 .. n |-> i]]
           step == [k \in 1 .. n |-> [s \in Dom |-> Narrowed(s, key, down)]]
           E(f) == [k \in 0 .. n |-> IF k = 0 THEN base ELSE Narrowed(f[k - 1], key, down)]
           after == CHOOSE f : f = E(f)
<1>1. base \in Dom
  <2>1. [i \in 1 .. n |-> i] \in Rows(n) /\ n \in 0 .. n
    BY DEF Rows
  <2> QED BY <2>1 DEF States
<1>2. step \in [1 .. n -> [Dom -> Dom]]
  BY NarrowedType
<1>3. PICK f \in [0 .. n -> Dom] :
        f[0] = base /\ \A k \in 1 .. n : f[k] = step[k][f[k - 1]]
  <2> DEFINE N == n
  <2>1. base \in Dom /\ N \in Nat /\ step \in [1 .. N -> [Dom -> Dom]]
    BY <1>1, <1>2
  <2> HIDE DEF step, Dom, E, after, N, base
  <2>2. \E f \in [0 .. N -> Dom] : f[0] = base /\ \A k \in 1 .. N : f[k] = step[k][f[k - 1]]
    BY <2>1, Recursion
  <2> QED BY <2>2 DEF N
<1> HIDE DEF base
<1>4. \A k \in 1 .. n : f[k] = Narrowed(f[k - 1], key, down)
  <2> SUFFICES ASSUME NEW k \in 1 .. n
               PROVE  f[k] = Narrowed(f[k - 1], key, down)
    OBVIOUS
  <2>1. k - 1 \in 0 .. n
    OBVIOUS
  <2> QED BY <1>3, <2>1
<1>5. f = E(f)
  BY <1>3, <1>4
<1>6. after = E(after)
  BY <1>5
<1> HIDE DEF after
<1>7. after[0] = base /\ \A k \in 1 .. n : after[k] = Narrowed(after[k - 1], key, down)
  <2>1. 0 \in 0 .. n /\ \A k \in 1 .. n : k \in 0 .. n /\ k # 0
    OBVIOUS
  <2> QED BY <1>6, <2>1
<1>8. 0 .. n \subseteq {k \in 0 .. n : after[k] = f[k]}
  <2>1. 0 \in {k \in 0 .. n : after[k] = f[k]}
    BY <1>3, <1>7
  <2>2. ASSUME NEW m \in 1 .. n, m - 1 \in {k \in 0 .. n : after[k] = f[k]}
        PROVE  m \in {k \in 0 .. n : after[k] = f[k]}
    BY <1>4, <1>7, <2>2
  <2> QED BY <2>1, <2>2, Counting
<1>9. after[n] = f[n]
  BY <1>8
<1>10. SORT1(key, down) = after[n].rows
  BY DEF SORT1, KeysSeq, after, base
<1> QED BY <1>3, <1>4, <1>9, <1>10 DEF base, Narrowing

(* SORT1 puts the rows in an order, whatever the comparison says.          *)
LEMMA SORT1Rows ==
  ASSUME NEW n \in Nat, NEW key, KeysSeq(key, n), NEW down
  PROVE  SORT1(key, down) \in Rows(n)
<1>1. PICK f : Narrowing(f, n, key, down) /\ SORT1(key, down) = f[n].rows
  BY SORT1Steps
<1>2. f[n] \in States(n)
  BY <1>1 DEF Narrowing
<1> QED BY <1>1, <1>2 DEF States

(* No row has to come after a later one.                                   *)
LEMMA SORT1Stays ==
  ASSUME NEW n \in Nat, NEW key \in Keys(n), NEW down \in BOOLEAN
  PROVE  \A b \in 1 .. n : \A a \in 1 .. b :
           Stays(SORT1(key, down)[a], SORT1(key, down)[b], key, down)
<1>1. KeysSeq(key, n)
  BY LenProperties, IsASeq DEF Keys, KeysSeq
<1>2. PICK f \in [0 .. n -> States(n)] :
        /\ f[0] = [gap |-> n, rows |-> [i \in 1 .. n |-> i]]
        /\ \A k \in 1 .. n : f[k] = Narrowed(f[k - 1], key, down)
        /\ SORT1(key, down) = f[n].rows
  <2>1. \E f : Narrowing(f, n, key, down) /\ SORT1(key, down) = f[n].rows
    BY <1>1, SORT1Steps
  <2> QED BY <2>1 DEF Narrowing
<1> DEFINE InGaps(k) ==
             /\ f[k].gap <= 1 \/ f[k].gap <= n - k
             /\ n > 0 => f[k].gap > 0
             /\ f[k].gap < n => \A b \in 1 .. n : Settled(f[k].rows, b, f[k].gap, key, down)
           X == {k \in 0 .. n : InGaps(k)}
<1>3. 0 \in X
  BY <1>2
<1>4. ASSUME NEW k \in 1 .. n, k - 1 \in X PROVE k \in X
  <2>1. PICK s \in States(n) : s = f[k - 1]
    BY <1>2
  <2>2. PICK q \in States(n) : q = f[k]
    BY <1>2
  <2>3. /\ s.gap <= 1 \/ s.gap <= n - (k - 1)
        /\ s.gap > 0
        /\ s.gap < n => \A b \in 1 .. n : Settled(s.rows, b, s.gap, key, down)
    BY <1>4, <2>1
  <2>4. s.gap \in 0 .. n /\ s.rows \in Rows(n) /\ q = Narrowed(s, key, down)
    BY <1>2, <2>1, <2>2 DEF States
  <2>5. CASE s.gap <= 1
    <3>1. q = s
      BY <2>4, <2>5, NarrowedType
    <3>2. f[k] = s
      BY <2>2, <3>1
    <3>3. InGaps(k)
      BY <2>3, <2>5, <3>2
    <3> QED BY <3>3
  <2>6. CASE s.gap > 1
    <3>1. PICK gap \in 1 .. n : gap = s.gap \div 2 /\ gap < s.gap
      BY <2>4, <2>6, NarrowedType
    <3>2. q.gap = gap /\ q.rows = Passes(s.rows, gap, key, down)
      BY <2>4, <2>6, <3>1, NarrowedType
    <3>3. \A b \in 1 .. n : Settled(q.rows, b, gap, key, down)
      BY <2>4, <3>2, PassesSettle
    <3>4. gap <= n - k
      BY <2>3, <2>4, <2>6, <3>1
    <3>5. InGaps(k)
      BY <2>2, <3>1, <3>2, <3>3, <3>4
    <3> QED BY <3>5
  <2> QED BY <2>4, <2>5, <2>6
<1> HIDE DEF X
<1>5. n \in X
  BY <1>3, <1>4, Counting
<1>6. PICK s \in States(n) : s = f[n]
  OBVIOUS
<1>7. /\ s.gap <= 1 \/ s.gap <= n - n
      /\ n > 0 => s.gap > 0
      /\ s.gap < n => \A b \in 1 .. n : Settled(s.rows, b, s.gap, key, down)
  BY <1>5, <1>6 DEF X
<1>8. s.gap \in 0 .. n /\ s.rows \in Rows(n) /\ SORT1(key, down) = s.rows
  BY <1>2, <1>6 DEF States
<1>9. ASSUME NEW b \in 1 .. n, NEW a \in 1 .. b
      PROVE  Stays(s.rows[a], s.rows[b], key, down)
  <2>1. CASE a = b
    <3>1. s.rows[a] \in 1 .. n
      BY <1>8, <2>1 DEF Rows
    <3> QED BY <2>1, <3>1, StaysOrder
  <2>2. CASE a # b
    <3>1. s.gap = 1 /\ s.gap < n
      BY <1>7, <1>8, <2>2
    <3>2. Chained(a, b, 1)
      <4>1. b - a \in Nat /\ b = a + (b - a) * 1
        OBVIOUS
      <4> QED BY <4>1 DEF Chained
    <3> QED BY <1>7, <3>1, <3>2 DEF Settled
  <2> QED BY <2>1, <2>2
<1> QED BY <1>8, <1>9

(* SORT() and RSORT() put any number of rows in the order of their keys:   *)
(* all are there, none is there twice, and rows with equal keys stay in    *)
(* the order they had.  The keys may be of any types; integers that are    *)
(* compared with reals have to be exact as reals.                          *)
THEOREM SortsInOrder ==
  ASSUME NEW n \in Nat, NEW key \in Keys(n), NEW down \in BOOLEAN
  PROVE  InOrder(SORT1(key, down), key, down)
<1>1. KeysSeq(key, n)
  BY LenProperties, IsASeq DEF Keys, KeysSeq
<1>2. PICK r \in Rows(n) : r = SORT1(key, down)
  BY <1>1, SORT1Rows
<1>3. /\ r \in [1 .. n -> 1 .. n] /\ Len(r) = n /\ DOMAIN r = 1 .. n
      /\ \A i, j \in 1 .. n : r[i] = r[j] => i = j
  BY <1>2, RowsType DEF Rows
<1>4. ToSet(r) = 1 .. n
  <2>1. r \in Injection(1 .. n, 1 .. n)
    BY <1>3 DEF Injection, IsInjective
  <2>2. IsFiniteSet(1 .. n)
    BY FS_Interval
  <2>3. r \in Surjection(1 .. n, 1 .. n)
    BY <2>1, <2>2, FS_Injection
  <2> QED BY <1>3, <2>3 DEF Surjection, ToSet
<1>5. ASSUME NEW i \in 1 .. n, NEW j \in 1 .. n, i < j
      PROVE  LET x == IF down THEN key[r[j]] ELSE key[r[i]]
                 y == IF down THEN key[r[i]] ELSE key[r[j]]
             IN  Less(x, y) \/ (~ Less(y, x) /\ r[i] < r[j])
  <2>1. r[i] \in 1 .. n /\ r[j] \in 1 .. n /\ r[i] # r[j]
    BY <1>3, <1>5
  <2>2. ~ Swaps(r[i], r[j], key, down)
    BY <1>2, <1>5, SORT1Stays DEF Stays
  <2>3. key[r[i]] \in Sortable /\ key[r[j]] \in Sortable
    BY <2>1 DEF Keys
  <2>4. ~ (Less(key[r[i]], key[r[j]]) /\ Less(key[r[j]], key[r[i]]))
    BY <2>3, LessOrder
  <2>5. CASE down
    <3> DEFINE x == key[r[j]]
               y == key[r[i]]
    <3>1. ~ (Less(y, x) \/ (~ Less(x, y) /\ r[i] > r[j]))
      BY <2>1, <2>2, <2>5, SwapsWhen
    <3> HIDE DEF x, y
    <3>2. Less(x, y) \/ (~ Less(y, x) /\ r[i] < r[j])
      BY <2>1, <3>1
    <3> QED BY <2>5, <3>2 DEF x, y
  <2>6. CASE ~ down
    <3> DEFINE x == key[r[i]]
               y == key[r[j]]
    <3>1. ~ (Less(y, x) \/ (~ Less(x, y) /\ r[i] > r[j]))
      BY <2>1, <2>2, <2>6, SwapsWhen
    <3> HIDE DEF x, y
    <3>2. Less(x, y) \/ (~ Less(y, x) /\ r[i] < r[j])
      BY <2>1, <3>1
    <3> QED BY <2>6, <3>2 DEF x, y
  <2> QED BY <2>5, <2>6
<1> QED BY <1>1, <1>2, <1>3, <1>4, <1>5 DEF InOrder, KeysSeq

-----------------------------------------------------------------------------
(* What is always so.  Of the values it is known that they can be sorted,  *)
(* if what the program starts with and writes can be.                      *)
ExactNumbers ==
    /\ Literals \subseteq Sortable
    /\ \A s \in Starts : \A k \in DOMAIN s.obj : \A p \in Places(s.obj[k]) :
         At(s.obj[k], p).v \in Sortable /\ At(s.obj[k], p).key \in Sortable
Known == IF ExactNumbers THEN Sortable ELSE Values
GoodValue(x, o) == x \in Known /\ IsValue(x, o)

(* A table: extents are not empty, free slots are the last ones of the     *)
(* last extent and have no value, and a key is in one slot.                *)
GoodTable(b) ==
    /\ b.grow > 0 /\ b.ext # <<>> /\ \A e \in DOMAIN b.ext : b.ext[e] # <<>>
    /\ \A p, q \in Places(b) : At(b, p).key = Free /\ Earlier(p, q) => At(b, q).key = Free
    /\ \A p \in Places(b) : At(b, p).key = Free => p[1] = Len(b.ext) /\ At(b, p).v = Null
    /\ "duplicates" \notin Defects =>
         \A p, q \in Places(b) : At(b, p).key = At(b, q).key /\ At(b, p).key # Free => p = q

GoodBlock(b, o, m) ==
    /\ b \in Blocks
    /\ b.type \in {A, T} \/ (IsData(b) /\ b.type - DATSTA + 1 \in DOMAIN m)
    /\ \A p \in Places(b) : /\ GoodValue(At(b, p).v, o)
                            /\ At(b, p).key = Free \/ GoodValue(At(b, p).key, o)
    /\ IsTable(b) => GoodTable(b)
    /\ ~IsTable(b) => Len(b.ext) = 1
    /\ b.type = A => b.dims # <<>> /\ Len(b.ext[1]) = Elements(b.dims)
    /\ IsData(b) => FieldsOfType(b, m)

GoodObjects(o, m) == o \in Seq(Blocks) /\ \A k \in DOMAIN o : GoodBlock(o[k], o, m)

(* A name of an element: the place is there, and it has a key in a table.  *)
GoodName(k, at, o) == /\ k \in DOMAIN o /\ at \in Places(o[k])
                      /\ IsTable(o[k]) => At(o[k], at).key # Free

GoodTodo(x, o) == /\ x.op = "value" => GoodValue(x.v, o)
                  /\ x.op = "name" => GoodName(x.obj, x.at, o)

Frames == [proc : {"ASGN"}, name : {<<>>} \cup (Nat \X (Nat \X Nat))]
          \cup [proc : {"SORT1"}, obj : Nat, n : Nat, down : BOOLEAN]
          \cup [proc : {"DEFDAT"}, name : TypeNames, args : Seq(Known), left : Nat]
          \cup [proc : {"FIELD"}, f : FieldNames]

GoodFrame(w, o, t) ==
    /\ w.proc = "ASGN" /\ w.name # <<>> => GoodName(w.name[1], w.name[2], o)
    /\ w.proc = "SORT1" =>
         /\ w.obj \in DOMAIN o /\ o[w.obj].type \in {A, T}
         /\ ~IsTable(o[w.obj]) => w.n = Height(o[w.obj]) /\ Len(o[w.obj].dims) < 3
    /\ w.proc = "DEFDAT" => t[w.name].n > 0 /\ \A i \in DOMAIN w.args : GoodValue(w.args[i], o)

GoodWait(w, o, t) == w \in Seq(Frames) /\ \A i \in DOMAIN w : GoodFrame(w[i], o, t)

IInv == /\ GoodObjects(obj, made) /\ SoundTypes(made, types, fields)
        /\ GoodTodo(todo, obj) /\ GoodWait(wait, obj, types)

-----------------------------------------------------------------------------
(* Values.                                                                 *)
LEMMA Codes == /\ S = 1 /\ A = 4 /\ T = 5 /\ I = 6 /\ R = 7 /\ DATSTA = 100
BY DEF S, A, T, I, R, DATSTA

LEMMA KnownValues ==
  /\ Known \subseteq Values /\ Null \in Known /\ Free \in Known /\ Null # Free
  /\ Literals \subseteq Known
  /\ \A t, k \in Nat : t # I => [type |-> t, v |-> k] \in Known
  /\ ExactNumbers => Known = Sortable
<1>1. Known \subseteq Values
  BY DEF Known, Sortable, Values
<1>2. \A t, k \in Nat : t # I => [type |-> t, v |-> k] \in Values /\ [type |-> t, v |-> k] \in Sortable
  BY DEF Values, Sortable
<1>3. Null \in Known /\ Free \in Known
  BY <1>2, Codes DEF Known, Null, Free
<1>4. Null # Free
  BY Codes DEF Null, Free
<1>5. Literals \subseteq Known
  BY LiteralsAssumption DEF Known, ExactNumbers
<1> QED BY <1>1, <1>2, <1>3, <1>4, <1>5 DEF Known

LEMMA NullGood == ASSUME NEW o PROVE GoodValue(Null, o)
BY KnownValues, Codes DEF GoodValue, IsValue, Null, IsData

LEMMA GoodNotFree == ASSUME NEW o, NEW x, GoodValue(x, o) PROVE x # Free /\ x \in Known /\ x \in Values
BY KnownValues DEF GoodValue, IsValue, Free

(* Objects that are there.                                                 *)
LEMMA BlockFacts ==
  ASSUME NEW o, NEW m, NEW b, GoodBlock(b, o, m)
  PROVE  /\ b.type \in Nat /\ b.type # 0 /\ b.type # I
         /\ b.dims \in Seq([low : Int, n : Nat]) /\ b.grow \in Nat /\ b.frozen \in BOOLEAN
         /\ b.ext \in Seq(Seq([key : Values, v : Values]))
         /\ IsTable(b) <=> b.type = T
         /\ b.type \in {A, T} \/ (b.type - DATSTA + 1 \in DOMAIN m)
BY Codes DEF GoodBlock, Blocks, IsTable, IsData

(* A reference to an object is a value.                                    *)
LEMMA RefGood ==
  ASSUME NEW o, NEW m, GoodObjects(o, m), NEW k \in DOMAIN o
  PROVE  GoodValue([type |-> o[k].type, v |-> k], o)
<1>1. o[k].type \in Nat /\ o[k].type # 0 /\ o[k].type # I
  BY BlockFacts DEF GoodObjects
<1>2. k \in Nat
  BY DEF GoodObjects
<1>3. [type |-> o[k].type, v |-> k] \in Known
  BY <1>1, <1>2, KnownValues
<1> QED BY <1>1, <1>3, KnownValues DEF GoodValue, IsValue

LEMMA OperandsGood ==
  ASSUME IInv
  PROVE  \A x \in Operands : GoodValue(x, obj)
<1> SUFFICES ASSUME NEW x \in Operands PROVE GoodValue(x, obj)
  OBVIOUS
<1>1. CASE x \in Literals
  <2>1. x \in Known /\ x \in Values
    BY <1>1, KnownValues
  <2>2. x.type \in {S, I, R}
    BY <1>1, LiteralsAssumption
  <2> QED BY <2>1, <2>2, Codes DEF GoodValue, IsValue, IsData
<1>2. CASE x = Null
  BY <1>2, NullGood
<1>3. CASE \E k \in Objects : x = Ref(k)
  <2>1. PICK k \in DOMAIN obj : x = [type |-> obj[k].type, v |-> k]
    BY <1>3 DEF Objects, Ref
  <2>2. GoodObjects(obj, made)
    BY DEF IInv
  <2> QED BY <2>1, <2>2, RefGood
<1> QED BY <1>1, <1>2, <1>3 DEF Operands

-----------------------------------------------------------------------------
(* Places.                                                                 *)
LEMMA PlacesAre ==
  ASSUME NEW b
  PROVE  /\ \A e, i : <<e, i>> \in Places(b) <=> e \in DOMAIN b.ext /\ i \in DOMAIN b.ext[e]
         /\ \A p \in Places(b) : p = <<p[1], p[2]>> /\ p[1] \in DOMAIN b.ext /\ p[2] \in DOMAIN b.ext[p[1]]
BY DEF Places

LEMMA ElementsOf ==
  ASSUME NEW X, NEW s \in Seq(X), NEW i \in DOMAIN s
  PROVE  s[i] \in X /\ i \in 1 .. Len(s) /\ Len(s) \in Nat
OBVIOUS

LEMMA PlacesType ==
  ASSUME NEW o, NEW m, NEW b, GoodBlock(b, o, m), NEW p \in Places(b)
  PROVE  /\ p = <<p[1], p[2]>> /\ p[1] \in 1 .. Len(b.ext) /\ p[2] \in 1 .. Len(b.ext[p[1]])
         /\ p \in Nat \X Nat /\ p[1] \in Nat /\ p[2] \in Nat
         /\ At(b, p) \in [key : Values, v : Values]
         /\ GoodValue(At(b, p).v, o)
         /\ At(b, p).key = Free \/ GoodValue(At(b, p).key, o)
<1>1. b.ext \in Seq(Seq([key : Values, v : Values]))
  BY BlockFacts
<1>2. p = <<p[1], p[2]>> /\ p[1] \in DOMAIN b.ext /\ p[2] \in DOMAIN b.ext[p[1]]
  BY PlacesAre
<1>3. /\ p[1] \in 1 .. Len(b.ext) /\ b.ext[p[1]] \in Seq([key : Values, v : Values])
  BY <1>1, <1>2
<1>4. p[2] \in 1 .. Len(b.ext[p[1]]) /\ b.ext[p[1]][p[2]] \in [key : Values, v : Values]
  BY <1>2, <1>3, ElementsOf
<1>5. p[1] \in Nat /\ p[2] \in Nat
  BY <1>3, <1>4
<1>6. p \in Nat \X Nat
  BY <1>2, <1>5
<1> QED BY <1>2, <1>3, <1>4, <1>5, <1>6 DEF At, GoodBlock

(* Of any places one is the first.                                         *)
LEMMA FirstIs ==
  ASSUME NEW P \in SUBSET (Nat \X Nat), P # {}
  PROVE  First(P) \in P /\ \A q \in P \ {First(P)} : Earlier(First(P), q)
<1> DEFINE X == {p[1] : p \in P}
<1>1. \A p \in P : p = <<p[1], p[2]>> /\ p[1] \in Nat /\ p[2] \in Nat
  OBVIOUS
<1>2. PICK e \in X : \A f \in X : e <= f
  <2>1. X \in SUBSET Nat /\ X # {}
    BY <1>1
  <2> HIDE DEF X
  <2> QED BY <2>1, NatLeast
<1> DEFINE Y == {p[2] : p \in {q \in P : q[1] = e}}
<1>3. PICK i \in Y : \A j \in Y : i <= j
  <2>1. Y \in SUBSET Nat /\ Y # {}
    BY <1>1, <1>2
  <2> HIDE DEF Y
  <2> QED BY <2>1, NatLeast
<1>4. PICK p \in P : p[1] = e /\ p[2] = i
  BY <1>3
<1>5. ASSUME NEW q \in P \ {p} PROVE Earlier(p, q)
  <2>1. q = <<q[1], q[2]>> /\ q[1] \in Nat /\ q[2] \in Nat /\ p = <<p[1], p[2]>> /\ p[1] \in Nat /\ p[2] \in Nat
    BY <1>1
  <2>2. e <= q[1]
    BY <1>2
  <2>3. q[1] = e => i <= q[2]
    BY <1>3
  <2>4. q[1] # e \/ q[2] # i
    BY <2>1, <1>4
  <2> QED BY <1>4, <2>1, <2>2, <2>3, <2>4 DEF Earlier
<1> QED BY <1>5 DEF First

LEMMA OrderOfPlaces ==
  ASSUME NEW P \in SUBSET (Nat \X Nat)
  PROVE  /\ \A p \in P : ~Earlier(p, p)
         /\ \A p, q \in P : p = q \/ Earlier(p, q) \/ Earlier(q, p)
         /\ \A p, q \in P : Earlier(p, q) => ~Earlier(q, p)
         /\ \A p, q, r \in P : Earlier(p, q) /\ Earlier(q, r) => Earlier(p, r)
<1>1. \A p \in P : p = <<p[1], p[2]>> /\ p[1] \in Nat /\ p[2] \in Nat
  OBVIOUS
<1> QED BY <1>1 DEF Earlier

-----------------------------------------------------------------------------
(* Objects keep their types and dimensions, and their elements the places  *)
(* and keys they have.                                                     *)
Grew(b, c) == /\ c.type = b.type /\ c.dims = b.dims /\ Places(b) \subseteq Places(c)
              /\ \A p \in Places(b) : IsTable(b) /\ At(b, p).key # Free => At(c, p).key = At(b, p).key
Kept(o, n) == \A k \in DOMAIN o : k \in DOMAIN n /\ Grew(o[k], n[k])

LEMMA KeptSame == ASSUME NEW o PROVE Kept(o, o)
BY DEF Kept, Grew

LEMMA ValueKept ==
  ASSUME NEW o, NEW n, Kept(o, n), NEW x, GoodValue(x, o)
  PROVE  GoodValue(x, n)
BY DEF Kept, Grew, GoodValue, IsValue

LEMMA BlockKept ==
  ASSUME NEW o, NEW n, Kept(o, n), NEW m, NEW b, GoodBlock(b, o, m)
  PROVE  GoodBlock(b, n, m)
<1>1. \A x : GoodValue(x, o) => GoodValue(x, n)
  BY ValueKept
<1> QED BY <1>1 DEF GoodBlock

LEMMA NameKept ==
  ASSUME NEW o, NEW n, Kept(o, n), NEW k, NEW at, GoodName(k, at, o)
  PROVE  GoodName(k, at, n)
BY DEF Kept, Grew, GoodName, IsTable

LEMMA FrameKept ==
  ASSUME NEW o, NEW n, Kept(o, n), NEW t, NEW w, GoodFrame(w, o, t)
  PROVE  GoodFrame(w, n, t)
<1>1. \A x : GoodValue(x, o) => GoodValue(x, n)
  BY ValueKept
<1>2. w.proc = "ASGN" /\ w.name # <<>> => GoodName(w.name[1], w.name[2], n)
  BY NameKept DEF GoodFrame
<1>3. w.proc = "SORT1" =>
         /\ w.obj \in DOMAIN n /\ n[w.obj].type \in {A, T}
         /\ ~IsTable(n[w.obj]) => w.n = Height(n[w.obj]) /\ Len(n[w.obj].dims) < 3
  BY DEF GoodFrame, Kept, Grew, IsTable, Height
<1>4. w.proc = "DEFDAT" => t[w.name].n > 0 /\ \A i \in DOMAIN w.args : GoodValue(w.args[i], n)
  BY <1>1 DEF GoodFrame
<1> QED BY <1>2, <1>3, <1>4 DEF GoodFrame

LEMMA WaitKept ==
  ASSUME NEW o, NEW n, Kept(o, n), NEW t, NEW w, GoodWait(w, o, t)
  PROVE  GoodWait(w, n, t)
BY FrameKept DEF GoodWait

(* A new object.                                                           *)
LEMMA ObjectAdded ==
  ASSUME NEW o, NEW m, GoodObjects(o, m), NEW b, GoodBlock(b, o, m)
  PROVE  /\ GoodObjects(Append(o, b), m) /\ Kept(o, Append(o, b))
         /\ Len(Append(o, b)) = Len(o) + 1 /\ Append(o, b)[Len(o) + 1] = b
         /\ \A k \in DOMAIN o : k \in DOMAIN Append(o, b) /\ Append(o, b)[k] = o[k]
         /\ GoodValue([type |-> b.type, v |-> Len(o) + 1], Append(o, b))
<1> DEFINE n == Append(o, b)
<1>1. o \in Seq(Blocks) /\ b \in Blocks
  BY DEF GoodObjects, GoodBlock
<1>2. /\ n \in Seq(Blocks) /\ Len(n) = Len(o) + 1 /\ n[Len(o) + 1] = b
      /\ \A k \in 1 .. Len(o) : n[k] = o[k]
      /\ DOMAIN n = 1 .. Len(o) + 1 /\ DOMAIN o = 1 .. Len(o) /\ Len(o) \in Nat
  BY <1>1
<1> HIDE DEF n
<1>3. \A k \in DOMAIN o : k \in DOMAIN n /\ n[k] = o[k]
  BY <1>2
<1>4. Kept(o, n)
  BY <1>3 DEF Kept, Grew
<1>5. GoodBlock(b, n, m) /\ \A k \in DOMAIN o : GoodBlock(o[k], n, m)
  BY <1>4, BlockKept DEF GoodObjects
<1>6. \A k \in DOMAIN n : k \in DOMAIN o \/ k = Len(o) + 1
  BY <1>2
<1>7. GoodObjects(n, m)
  BY <1>2, <1>3, <1>5, <1>6 DEF GoodObjects
<1>8. Len(o) + 1 \in DOMAIN n
  BY <1>2
<1>9. GoodValue([type |-> n[Len(o) + 1].type, v |-> Len(o) + 1], n)
  BY <1>7, <1>8, RefGood
<1> QED BY <1>2, <1>3, <1>4, <1>7, <1>9 DEF n

(* A block that changes.                                                   *)
LEMMA ObjectChanged ==
  ASSUME NEW o, NEW m, GoodObjects(o, m), NEW k \in DOMAIN o, NEW c, Grew(o[k], c), GoodBlock(c, o, m)
  PROVE  /\ GoodObjects([o EXCEPT ![k] = c], m) /\ Kept(o, [o EXCEPT ![k] = c])
         /\ DOMAIN [o EXCEPT ![k] = c] = DOMAIN o
         /\ \A j \in DOMAIN o : [o EXCEPT ![k] = c][j] = IF j = k THEN c ELSE o[j]
<1> DEFINE n == [o EXCEPT ![k] = c]
<1>1. o \in Seq(Blocks) /\ c \in Blocks
  BY DEF GoodObjects, GoodBlock
<1>2. /\ n \in Seq(Blocks) /\ DOMAIN n = DOMAIN o
      /\ \A j \in DOMAIN o : n[j] = IF j = k THEN c ELSE o[j]
  BY <1>1
<1> HIDE DEF n
<1>3. Kept(o, n)
  BY <1>2 DEF Kept, Grew
<1>4. \A j \in DOMAIN o : GoodBlock(n[j], o, m)
  BY <1>2 DEF GoodObjects
<1>5. \A j \in DOMAIN o : GoodBlock(n[j], n, m)
  BY <1>3, <1>4, BlockKept
<1> QED BY <1>2, <1>3, <1>5 DEF n, GoodObjects

-----------------------------------------------------------------------------
(* What waits.                                                             *)
LEMMA WaitEmpty == ASSUME NEW o, NEW t PROVE GoodWait(<<>>, o, t)
<1>1. <<>> \in Seq(Frames) /\ DOMAIN << >> = {}
  OBVIOUS
<1> QED BY <1>1 DEF GoodWait

LEMMA WaitAppend ==
  ASSUME NEW o, NEW t, NEW w, GoodWait(w, o, t), NEW f \in Frames, GoodFrame(f, o, t)
  PROVE  GoodWait(Append(w, f), o, t)
<1>1. w \in Seq(Frames) /\ \A i \in DOMAIN w : GoodFrame(w[i], o, t)
  BY DEF GoodWait
<1> DEFINE n == Append(w, f)
<1>2. /\ n \in Seq(Frames) /\ DOMAIN n = 1 .. Len(w) + 1 /\ n[Len(w) + 1] = f
      /\ \A i \in 1 .. Len(w) : n[i] = w[i]
      /\ DOMAIN w = 1 .. Len(w) /\ Len(w) \in Nat
  BY <1>1
<1> HIDE DEF n
<1>3. \A i \in DOMAIN n : i \in DOMAIN w \/ i = Len(w) + 1
  BY <1>2
<1>4. \A i \in DOMAIN n : GoodFrame(n[i], o, t)
  BY <1>1, <1>2, <1>3
<1> QED BY <1>2, <1>4 DEF n, GoodWait

LEMMA WaitFront ==
  ASSUME NEW o, NEW t, NEW w, GoodWait(w, o, t), w # <<>>
  PROVE  /\ GoodWait(Front(w), o, t) /\ Last(w) \in Frames /\ GoodFrame(Last(w), o, t)
         /\ Front(w) \in Seq(Frames) /\ w = Append(Front(w), Last(w))
<1>1. w \in Seq(Frames) /\ \A i \in DOMAIN w : GoodFrame(w[i], o, t)
  BY DEF GoodWait
<1>2. Len(w) \in Nat \ {0} /\ DOMAIN w = 1 .. Len(w)
  BY <1>1
<1> DEFINE n == SubSeq(w, 1, Len(w) - 1)
<1>3. /\ n \in Seq(Frames) /\ Len(n) = Len(w) - 1
      /\ \A i \in 1 .. Len(w) - 1 : n[i] = w[i]
  BY <1>1, <1>2
<1>4. w[Len(w)] \in Frames /\ GoodFrame(w[Len(w)], o, t)
  BY <1>1, <1>2
<1> HIDE DEF n
<1>5. DOMAIN n = 1 .. Len(w) - 1 /\ \A i \in DOMAIN n : i \in DOMAIN w
  BY <1>2, <1>3
<1>6. GoodWait(n, o, t)
  BY <1>1, <1>3, <1>5 DEF GoodWait
<1>7. w = Append(n, w[Len(w)])
  <2>1. /\ Append(n, w[Len(w)]) \in Seq(Frames) /\ Len(Append(n, w[Len(w)])) = Len(n) + 1
        /\ Append(n, w[Len(w)])[Len(n) + 1] = w[Len(w)]
        /\ \A i \in 1 .. Len(n) : Append(n, w[Len(w)])[i] = n[i]
    BY <1>3, <1>4, AppendProperties
  <2>2. Len(Append(n, w[Len(w)])) = Len(w)
    BY <1>2, <1>3, <2>1
  <2>4. \A i \in 1 .. Len(w) : Append(n, w[Len(w)])[i] = w[i]
    BY <1>2, <1>3, <2>1
  <2> QED BY <1>1, <2>1, <2>2, <2>4, SeqEqual
<1> QED BY <1>3, <1>4, <1>6, <1>7 DEF n, Front, Last

-----------------------------------------------------------------------------
(* What a step has to be shown to keep.                                    *)
LEMMA TodoGood ==
  ASSUME NEW o
  PROVE  /\ GoodTodo(Fetch, o) /\ GoodTodo(Crash, o)
         /\ \A x, y : GoodValue(x, o) => GoodTodo([op |-> "value", v |-> x, by |-> y], o)
         /\ \A x : GoodValue(x, o) => GoodTodo(Value(x), o)
         /\ \A k, at : GoodName(k, at, o) => GoodTodo(Name(k, at), o)
BY DEF GoodTodo, Fetch, Crash, Value, Name

(* The arrays, objects and tables stay as they are, and so do the types.   *)
Within == /\ GoodTodo(todo', obj) /\ GoodWait(wait', obj, types)
          /\ UNCHANGED <<obj, defs>>

LEMMA NameIn ==
  ASSUME IInv, todo.op = "name"
  PROVE  /\ GoodName(todo.obj, todo.at, obj) /\ todo.obj \in DOMAIN obj
         /\ todo.at \in Places(obj[todo.obj]) /\ GoodBlock(obj[todo.obj], obj, made)
         /\ todo.obj \in Nat /\ todo.at \in Nat \X Nat
<1>1. GoodName(todo.obj, todo.at, obj) /\ todo.obj \in DOMAIN obj /\ todo.at \in Places(obj[todo.obj])
  BY DEF IInv, GoodTodo, GoodName
<1>2. GoodBlock(obj[todo.obj], obj, made) /\ todo.obj \in Nat
  BY <1>1 DEF IInv, GoodObjects
<1> QED BY <1>1, <1>2, PlacesType

LEMMA DereferencedKeeps == ASSUME IInv, Dereferenced PROVE Within
<1>1. GoodValue(At(obj[todo.obj], todo.at).v, obj)
  BY NameIn, PlacesType DEF Dereferenced, GetsName
<1>2. GoodTodo(todo', obj)
  BY <1>1, TodoGood DEF Dereferenced
<1> QED BY <1>2 DEF Within, Dereferenced, IInv

LEMMA StatementEndsKeeps == ASSUME IInv, StatementEnds PROVE Within
BY TodoGood DEF Within, StatementEnds, IInv

LEMMA OperandKeeps == ASSUME IInv, Operand PROVE Within
BY TodoGood, OperandsGood DEF Within, Operand, IInv

LEMMA FramesAre ==
  /\ [proc |-> "ASGN", name |-> <<>>] \in Frames
  /\ \A k \in Nat, at \in Nat \X Nat : [proc |-> "ASGN", name |-> <<k, at>>] \in Frames
  /\ \A k \in Nat, n \in Nat, down \in BOOLEAN :
       [proc |-> "SORT1", obj |-> k, n |-> n, down |-> down] \in Frames
  /\ \A name \in TypeNames, args \in Seq(Known), left \in Nat :
       [proc |-> "DEFDAT", name |-> name, args |-> args, left |-> left] \in Frames
  /\ \A f \in FieldNames : [proc |-> "FIELD", f |-> f] \in Frames
<1>1. [proc |-> "ASGN", name |-> <<>>] \in Frames
  BY DEF Frames
<1>2. ASSUME NEW k \in Nat, NEW at \in Nat \X Nat PROVE [proc |-> "ASGN", name |-> <<k, at>>] \in Frames
  <2>1. <<k, at>> \in Nat \X (Nat \X Nat)
    OBVIOUS
  <2> QED BY <2>1 DEF Frames
<1> QED BY <1>1, <1>2 DEF Frames

LEMMA ASGNKeeps == ASSUME IInv, ASGN PROVE Within
<1> DEFINE w == [proc |-> "ASGN", name |-> <<>>]
<1>1. w \in Frames /\ GoodFrame(w, obj, types)
  BY FramesAre DEF GoodFrame
<1>2. GoodWait(Append(wait, w), obj, types)
  BY <1>1, WaitAppend DEF IInv
<1> QED BY <1>2 DEF ASGN, Within, IInv, Fetches

LEMMA FieldKeeps == ASSUME IInv, FIELD PROVE Within
<1>1. PICK f \in FieldNames : wait' = Append(wait, [proc |-> "FIELD", f |-> f])
  BY DEF FIELD
<1> DEFINE w == [proc |-> "FIELD", f |-> f]
<1>2. w \in Frames /\ GoodFrame(w, obj, types)
  BY FramesAre DEF GoodFrame
<1>3. GoodWait(Append(wait, w), obj, types)
  BY <1>2, WaitAppend DEF IInv
<1> QED BY <1>1, <1>3 DEF FIELD, Within, IInv, Fetches

LEMMA DefdatKeeps == ASSUME IInv, DEFDAT PROVE Within
<1>1. PICK name \in TypeNames, n \in 1 .. 2 :
        /\ types[name].n > 0
        /\ wait' = Append(wait, [proc |-> "DEFDAT", name |-> name, args |-> <<>>, left |-> n])
  BY DEF DEFDAT
<1> DEFINE w == [proc |-> "DEFDAT", name |-> name, args |-> <<>>, left |-> n]
<1>2. <<>> \in Seq(Known) /\ DOMAIN << >> = {} /\ n \in Nat
  OBVIOUS
<1>3. w \in Frames
  BY <1>2, FramesAre
<1>4. GoodFrame(w, obj, types)
  BY <1>1, <1>2 DEF GoodFrame
<1>5. GoodWait(Append(wait, w), obj, types)
  BY <1>3, <1>4, WaitAppend DEF IInv
<1> QED BY <1>1, <1>5 DEF DEFDAT, Within, IInv, Fetches

LEMMA AsgnnKeeps == ASSUME IInv, ASGNN PROVE Within
<1>1. CASE FAIL
  BY <1>1, TodoGood, WaitEmpty DEF FAIL, ASGNN, Within
<1>2. CASE GetsName /\ wait' = Append(Front(wait), [proc |-> "ASGN", name |-> <<todo.obj, todo.at>>])
           /\ todo' = Fetch
  <2> DEFINE w == [proc |-> "ASGN", name |-> <<todo.obj, todo.at>>]
  <2>1. GoodName(todo.obj, todo.at, obj) /\ todo.obj \in Nat /\ todo.at \in Nat \X Nat
    BY <1>2, NameIn DEF GetsName
  <2>2. w \in Frames
    BY <2>1, FramesAre
  <2>3. GoodFrame(w, obj, types)
    BY <2>1 DEF GoodFrame
  <2>4. GoodWait(Front(wait), obj, types)
    BY WaitFront DEF IInv, ASGNN, Waits
  <2>5. GoodWait(Append(Front(wait), w), obj, types)
    BY <2>2, <2>3, <2>4, WaitAppend
  <2> QED BY <1>2, <2>5, TodoGood DEF ASGNN, Within
<1> QED BY <1>1, <1>2 DEF ASGNN

-----------------------------------------------------------------------------
(* Slots that change.                                                      *)
Slots == [key : Values, v : Values]

LEMMA Rekeyed ==
  ASSUME NEW ext \in Seq(Seq(Slots)), NEW e \in DOMAIN ext, NEW i \in DOMAIN ext[e], NEW x \in Values
  PROVE  LET n == [ext EXCEPT ![e][i].key = x]
         IN  /\ n \in Seq(Seq(Slots)) /\ Len(n) = Len(ext) /\ DOMAIN n = DOMAIN ext
             /\ \A d \in DOMAIN ext : /\ DOMAIN n[d] = DOMAIN ext[d] /\ Len(n[d]) = Len(ext[d])
                                      /\ \A j \in DOMAIN ext[d] : <<d, j>> # <<e, i>> => n[d][j] = ext[d][j]
             /\ n[e][i].key = x /\ n[e][i].v = ext[e][i].v
<1>1. ext[e] \in Seq(Slots) /\ ext[e][i] \in Slots
  BY ElementsOf
<1> DEFINE s == [ext[e][i] EXCEPT !.key = x]
           r == [ext[e] EXCEPT ![i] = s]
           n == [ext EXCEPT ![e] = r]
<1>2. s \in Slots /\ s.key = x /\ s.v = ext[e][i].v
  BY <1>1 DEF Slots
<1> HIDE DEF s
<1>3. /\ r \in Seq(Slots) /\ Len(r) = Len(ext[e]) /\ DOMAIN r = DOMAIN ext[e] /\ r[i] = s
      /\ \A j \in DOMAIN ext[e] : j # i => r[j] = ext[e][j]
  BY <1>1, <1>2
<1> HIDE DEF r
<1>4. /\ n \in Seq(Seq(Slots)) /\ Len(n) = Len(ext) /\ DOMAIN n = DOMAIN ext /\ n[e] = r
      /\ \A d \in DOMAIN ext : d # e => n[d] = ext[d]
  BY <1>3
<1> HIDE DEF n
<1>5. n = [ext EXCEPT ![e][i].key = x]
  BY DEF n, r, s
<1>6. \A d \in DOMAIN ext : /\ DOMAIN n[d] = DOMAIN ext[d] /\ Len(n[d]) = Len(ext[d])
                            /\ \A j \in DOMAIN ext[d] : <<d, j>> # <<e, i>> => n[d][j] = ext[d][j]
  BY <1>3, <1>4
<1> QED BY <1>2, <1>3, <1>4, <1>5, <1>6

LEMMA Revalued ==
  ASSUME NEW ext \in Seq(Seq(Slots)), NEW e \in DOMAIN ext, NEW i \in DOMAIN ext[e], NEW x \in Values
  PROVE  LET n == [ext EXCEPT ![e][i].v = x]
         IN  /\ n \in Seq(Seq(Slots)) /\ Len(n) = Len(ext) /\ DOMAIN n = DOMAIN ext
             /\ \A d \in DOMAIN ext : /\ DOMAIN n[d] = DOMAIN ext[d] /\ Len(n[d]) = Len(ext[d])
                                      /\ \A j \in DOMAIN ext[d] : <<d, j>> # <<e, i>> => n[d][j] = ext[d][j]
             /\ n[e][i].v = x /\ n[e][i].key = ext[e][i].key
<1>1. ext[e] \in Seq(Slots) /\ ext[e][i] \in Slots
  BY ElementsOf
<1> DEFINE s == [ext[e][i] EXCEPT !.v = x]
           r == [ext[e] EXCEPT ![i] = s]
           n == [ext EXCEPT ![e] = r]
<1>2. s \in Slots /\ s.v = x /\ s.key = ext[e][i].key
  BY <1>1 DEF Slots
<1> HIDE DEF s
<1>3. /\ r \in Seq(Slots) /\ Len(r) = Len(ext[e]) /\ DOMAIN r = DOMAIN ext[e] /\ r[i] = s
      /\ \A j \in DOMAIN ext[e] : j # i => r[j] = ext[e][j]
  BY <1>1, <1>2
<1> HIDE DEF r
<1>4. /\ n \in Seq(Seq(Slots)) /\ Len(n) = Len(ext) /\ DOMAIN n = DOMAIN ext /\ n[e] = r
      /\ \A d \in DOMAIN ext : d # e => n[d] = ext[d]
  BY <1>3
<1> HIDE DEF n
<1>5. n = [ext EXCEPT ![e][i].v = x]
  BY DEF n, r, s
<1>6. \A d \in DOMAIN ext : /\ DOMAIN n[d] = DOMAIN ext[d] /\ Len(n[d]) = Len(ext[d])
                            /\ \A j \in DOMAIN ext[d] : <<d, j>> # <<e, i>> => n[d][j] = ext[d][j]
  BY <1>3, <1>4
<1> QED BY <1>2, <1>3, <1>4, <1>5, <1>6

(* A block with other extents.                                             *)
LEMMA Rebuilt ==
  ASSUME NEW b \in Blocks, NEW ext \in Seq(Seq(Slots))
  PROVE  LET c == [b EXCEPT !.ext = ext]
         IN  /\ c \in Blocks /\ c.type = b.type /\ c.dims = b.dims /\ c.grow = b.grow
             /\ c.frozen = b.frozen /\ c.ext = ext
BY DEF Blocks, Slots

(* An element that is assigned to.                                         *)
LEMMA AssignedIs ==
  ASSUME NEW o, NEW m, NEW b, GoodBlock(b, o, m), NEW at \in Places(b), NEW x, GoodValue(x, o),
         IsTable(b) => At(b, at).key # Free
  PROVE  LET c == Assigned(b, at, x)
         IN  /\ GoodBlock(c, o, m) /\ Grew(b, c) /\ Places(c) = Places(b)
             /\ At(c, at).v = x /\ \A p \in Places(b) : At(c, p).key = At(b, p).key
             /\ \A p \in Places(b) : p # at => At(c, p).v = At(b, p).v
             /\ c.type = b.type
<1> DEFINE n == [b.ext EXCEPT ![at[1]][at[2]].v = x]
           c == [b EXCEPT !.ext = n]
<1>1. b \in Blocks /\ b.ext \in Seq(Seq(Slots)) /\ x \in Values
  BY BlockFacts, GoodNotFree DEF GoodBlock, Slots
<1>2. at = <<at[1], at[2]>> /\ at[1] \in DOMAIN b.ext /\ at[2] \in DOMAIN b.ext[at[1]]
  BY PlacesAre
<1>3. /\ n \in Seq(Seq(Slots)) /\ Len(n) = Len(b.ext) /\ DOMAIN n = DOMAIN b.ext
      /\ \A d \in DOMAIN b.ext : /\ DOMAIN n[d] = DOMAIN b.ext[d] /\ Len(n[d]) = Len(b.ext[d])
                                 /\ \A j \in DOMAIN b.ext[d] : <<d, j>> # <<at[1], at[2]>> => n[d][j] = b.ext[d][j]
      /\ n[at[1]][at[2]].v = x /\ n[at[1]][at[2]].key = b.ext[at[1]][at[2]].key
  BY <1>1, <1>2, Revalued
<1> HIDE DEF n
<1>4. /\ c \in Blocks /\ c.type = b.type /\ c.dims = b.dims /\ c.grow = b.grow
      /\ c.frozen = b.frozen /\ c.ext = n
  BY <1>1, <1>3, Rebuilt
<1>5. c = Assigned(b, at, x)
  BY DEF c, n, Assigned
<1> HIDE DEF c
<1>6. Places(c) = Places(b)
  <2>1. \A p \in Places(c) : p \in Places(b)
    <3> SUFFICES ASSUME NEW p \in Places(c) PROVE p \in Places(b)
      OBVIOUS
    <3>1. p = <<p[1], p[2]>> /\ p[1] \in DOMAIN n /\ p[2] \in DOMAIN n[p[1]]
      BY <1>4, PlacesAre
    <3>2. <<p[1], p[2]>> \in Places(b)
      BY <1>3, <3>1, PlacesAre
    <3> QED BY <3>1, <3>2
  <2>2. \A p \in Places(b) : p \in Places(c)
    <3> SUFFICES ASSUME NEW p \in Places(b) PROVE p \in Places(c)
      OBVIOUS
    <3>1. p = <<p[1], p[2]>> /\ p[1] \in DOMAIN b.ext /\ p[2] \in DOMAIN b.ext[p[1]]
      BY PlacesAre
    <3>2. p[1] \in DOMAIN c.ext /\ p[2] \in DOMAIN c.ext[p[1]]
      BY <1>3, <1>4, <3>1
    <3>3. <<p[1], p[2]>> \in Places(c)
      BY <3>2, PlacesAre
    <3> QED BY <3>1, <3>3
  <2> QED BY <2>1, <2>2
<1>7. ASSUME NEW p \in Places(b), p # at PROVE At(c, p) = At(b, p)
  <2>1. p = <<p[1], p[2]>> /\ p[1] \in DOMAIN b.ext /\ p[2] \in DOMAIN b.ext[p[1]]
    BY PlacesAre
  <2>2. <<p[1], p[2]>> # <<at[1], at[2]>>
    BY <1>2, <1>7, <2>1
  <2> QED BY <1>3, <1>4, <2>1, <2>2 DEF At
<1>8. At(c, at).v = x /\ At(c, at).key = At(b, at).key
  BY <1>3, <1>4 DEF At
<1>9. \A p \in Places(b) : At(c, p).key = At(b, p).key
  BY <1>7, <1>8
<1>10. Grew(b, c)
  BY <1>4, <1>6, <1>9 DEF Grew
<1>11. \A p \in Places(c) : /\ GoodValue(At(c, p).v, o)
                            /\ At(c, p).key = Free \/ GoodValue(At(c, p).key, o)
  BY <1>6, <1>7, <1>8, <1>9, PlacesType
<1>12. IsTable(c) => GoodTable(c)
  <2> SUFFICES ASSUME IsTable(c) PROVE GoodTable(c)
    OBVIOUS
  <2>1. IsTable(b) /\ GoodTable(b) /\ At(b, at).key # Free
    BY <1>4 DEF IsTable, GoodBlock
  <2>2. /\ c.grow > 0 /\ c.ext # <<>> /\ \A e \in DOMAIN c.ext : c.ext[e] # <<>>
    <3>1. \A e \in DOMAIN b.ext : b.ext[e] # <<>> /\ b.ext[e] \in Seq(Slots) /\ n[e] \in Seq(Slots)
      BY <1>1, <1>3, <2>1 DEF GoodTable
    <3>2. \A e \in DOMAIN b.ext : n[e] # <<>>
      <4> SUFFICES ASSUME NEW e \in DOMAIN b.ext PROVE n[e] # <<>>
        OBVIOUS
      <4>1. DOMAIN b.ext[e] = 1 .. Len(b.ext[e]) /\ Len(b.ext[e]) # 0 /\ Len(n[e]) = Len(b.ext[e])
        BY <1>3, <3>1
      <4> QED BY <4>1
    <3>3. c.ext # <<>>
      BY <1>1, <1>3, <1>4, <2>1 DEF GoodTable
    <3> QED BY <1>3, <1>4, <2>1, <3>2, <3>3 DEF GoodTable
  <2>3. \A p \in Places(c) : At(c, p).key = Free => p[1] = Len(c.ext) /\ At(c, p).v = Null
    BY <1>3, <1>4, <1>6, <1>7, <1>9, <2>1, ZenonT(30) DEF GoodTable
  <2> QED BY <1>6, <1>9, <2>1, <2>2, <2>3 DEF GoodTable
<1>13. GoodBlock(c, o, m)
  <2>1. c.type \in {A, T} \/ (IsData(c) /\ c.type - DATSTA + 1 \in DOMAIN m)
    BY <1>4 DEF GoodBlock, IsData
  <2>2. ~IsTable(c) => Len(c.ext) = 1
    BY <1>3, <1>4 DEF GoodBlock, IsTable
  <2>3. Len(b.ext) = 1 => Len(c.ext[1]) = Len(b.ext[1])
    BY <1>1, <1>3, <1>4
  <2>4. c.type = A => c.dims # <<>> /\ Len(c.ext[1]) = Elements(c.dims)
    BY <1>4, <2>3, Codes DEF GoodBlock, IsTable
  <2>5. IsData(c) => FieldsOfType(c, m)
    BY <1>4, <2>3, Codes DEF GoodBlock, IsTable, IsData, FieldsOfType
  <2> QED BY <1>4, <1>11, <1>12, <2>1, <2>2, <2>4, <2>5 DEF GoodBlock
<1> QED BY <1>4, <1>5, <1>6, <1>7, <1>8, <1>9, <1>10, <1>13

(* A table with room for a key: the first free slot is that of Unused.     *)
Ready(b, d, at) ==
    /\ Places(b) \subseteq Places(d) /\ d.type = b.type /\ d.dims = b.dims
    /\ \A p \in Places(b) : At(d, p) = At(b, p)
    /\ \A p \in Places(d) \ Places(b) : At(d, p) = Slot(Free, Null)
    /\ at \in Places(d) /\ At(d, at) = Slot(Free, Null)
    /\ \A p \in Places(d) : At(d, p).key = Free => p = at \/ Earlier(at, p)

LEMMA SameSlots ==
  ASSUME NEW X, NEW x \in X, NEW n \in Nat
  PROVE  /\ [i \in 1 .. n |-> x] \in Seq(X) /\ Len([i \in 1 .. n |-> x]) = n
         /\ DOMAIN [i \in 1 .. n |-> x] = 1 .. n /\ \A j \in 1 .. n : [i \in 1 .. n |-> x][j] = x
OBVIOUS

LEMMA RoomyIs ==
  ASSUME NEW o, NEW m, NEW b, GoodBlock(b, o, m), IsTable(b)
  PROVE  LET d == [b EXCEPT !.ext = Roomy(b)]
         IN  GoodBlock(d, o, m) /\ Ready(b, d, Unused(b)) /\ Roomy(b) \in Seq(Seq(Slots))
<1>1. b \in Blocks /\ b.ext \in Seq(Seq(Slots)) /\ GoodTable(b) /\ b.grow \in Nat \ {0}
  <2>1. b \in Blocks /\ b.ext \in Seq(Seq(Slots)) /\ GoodTable(b) /\ b.grow \in Nat
    BY BlockFacts DEF GoodBlock, Slots
  <2>2. b.grow > 0
    BY <2>1 DEF GoodTable
  <2> QED BY <2>1, <2>2
<1>2. \A p \in Places(b) : p \in Nat \X Nat
  BY PlacesType
<1>3. CASE FreeIn(b) # {}
  <2>1. Roomy(b) = b.ext /\ Unused(b) = First(FreeIn(b))
    BY <1>3 DEF Roomy, Unused
  <2>2. [b EXCEPT !.ext = b.ext] = b
    BY <1>1 DEF Blocks
  <2>3. FreeIn(b) \in SUBSET (Nat \X Nat)
    BY <1>2 DEF FreeIn
  <2>4. First(FreeIn(b)) \in FreeIn(b) /\ \A q \in FreeIn(b) \ {First(FreeIn(b))} : Earlier(First(FreeIn(b)), q)
    BY <1>3, <2>3, FirstIs
  <2>5. \A p \in Places(b) : At(b, p).key = Free => p \in FreeIn(b)
    BY <1>1 DEF GoodTable, FreeIn
  <2>6. First(FreeIn(b)) \in Places(b) /\ At(b, First(FreeIn(b))).key = Free
    BY <2>4 DEF FreeIn
  <2>7. At(b, First(FreeIn(b))) \in [key : Values, v : Values]
    BY <2>6, PlacesType
  <2>8. At(b, First(FreeIn(b))).v = Null
    BY <1>1, <2>6 DEF GoodTable
  <2>9. At(b, First(FreeIn(b))) = Slot(Free, Null)
    BY <2>6, <2>7, <2>8 DEF Slot
  <2>10. Ready(b, b, First(FreeIn(b)))
    BY <2>4, <2>5, <2>6, <2>9 DEF Ready
  <2> QED BY <1>1, <2>1, <2>2, <2>10
<1>4. CASE FreeIn(b) = {}
  <2> DEFINE r == Append(b.ext, Extent(b.grow))
             d == [b EXCEPT !.ext = r]
             at == <<Len(b.ext) + 1, 1>>
  <2>1. Roomy(b) = r
    BY <1>4 DEF Roomy, Extended
  <2>2. /\ Extent(b.grow) \in Seq(Slots) /\ Len(Extent(b.grow)) = b.grow
        /\ DOMAIN Extent(b.grow) = 1 .. b.grow /\ \A i \in 1 .. b.grow : Extent(b.grow)[i] = Slot(Free, Null)
    <3>1. Slot(Free, Null) \in Slots
      BY KnownValues DEF Slots, Slot
    <3>2. Extent(b.grow) = [i \in 1 .. b.grow |-> Slot(Free, Null)]
      BY DEF Extent
    <3> QED BY <1>1, <3>1, <3>2, SameSlots
  <2>3. /\ r \in Seq(Seq(Slots)) /\ Len(r) = Len(b.ext) + 1 /\ Len(b.ext) \in Nat
        /\ r[Len(b.ext) + 1] = Extent(b.grow) /\ \A e \in 1 .. Len(b.ext) : r[e] = b.ext[e]
    BY <1>1, <2>2, AppendProperties
  <2>4. DOMAIN r = 1 .. Len(b.ext) + 1 /\ DOMAIN b.ext = 1 .. Len(b.ext)
    BY <1>1, <2>3
  <2> HIDE DEF r
  <2>5. /\ d \in Blocks /\ d.type = b.type /\ d.dims = b.dims /\ d.grow = b.grow
        /\ d.frozen = b.frozen /\ d.ext = r
    BY <1>1, <2>3, Rebuilt
  <2> HIDE DEF d
  <2>6. Unused(b) = at
    BY <1>4, <2>1, <2>3 DEF Unused
  <2>7. ASSUME NEW p \in Places(b) PROVE p \in Places(d) /\ At(d, p) = At(b, p) /\ At(b, p).key # Free
    <3>1. p = <<p[1], p[2]>> /\ p[1] \in DOMAIN b.ext /\ p[2] \in DOMAIN b.ext[p[1]]
      BY PlacesAre
    <3>2. p[1] \in DOMAIN r /\ r[p[1]] = b.ext[p[1]]
      BY <2>3, <2>4, <3>1
    <3>3. <<p[1], p[2]>> \in Places(d)
      BY <2>5, <3>1, <3>2, PlacesAre
    <3>4. At(d, p) = At(b, p)
      BY <2>5, <3>2 DEF At
    <3>5. At(b, p).key # Free
      BY <1>1, <1>4 DEF GoodTable, FreeIn
    <3> QED BY <3>1, <3>3, <3>4, <3>5
  <2>8. ASSUME NEW p \in Places(d)
        PROVE  /\ p = <<p[1], p[2]>> /\ p[1] \in Nat /\ p[2] \in Nat
               /\ \/ p \in Places(b) /\ p[1] <= Len(b.ext)
                  \/ p[1] = Len(b.ext) + 1 /\ p[2] \in 1 .. b.grow /\ At(d, p) = Slot(Free, Null) /\ p \notin Places(b)
    <3>1. p = <<p[1], p[2]>> /\ p[1] \in DOMAIN r /\ p[2] \in DOMAIN r[p[1]]
      BY <2>5, PlacesAre
    <3>2. p[1] \in 1 .. Len(b.ext) + 1
      BY <2>4, <3>1
    <3>3. CASE p[1] = Len(b.ext) + 1
      <4>1. p[2] \in 1 .. b.grow /\ r[p[1]][p[2]] = Slot(Free, Null)
        BY <2>2, <2>3, <3>1, <3>3
      <4>2. p \notin Places(b)
        <5> SUFFICES ASSUME p \in Places(b) PROVE FALSE
          OBVIOUS
        <5>1. p[1] \in DOMAIN b.ext
          BY PlacesAre
        <5> QED BY <2>3, <2>4, <3>3, <5>1
      <4>3. At(d, p) = Slot(Free, Null)
        BY <2>5, <4>1 DEF At
      <4>4. p[1] \in Nat /\ p[2] \in Nat
        BY <2>3, <3>3, <4>1
      <4> QED BY <3>1, <3>3, <4>1, <4>2, <4>3, <4>4
    <3>4. CASE p[1] # Len(b.ext) + 1
      <4>0. p[1] \in 1 .. Len(b.ext)
        BY <2>3, <3>2, <3>4
      <4>1. p[1] \in 1 .. Len(b.ext) /\ p[1] \in DOMAIN b.ext /\ r[p[1]] = b.ext[p[1]]
        BY <2>3, <2>4, <4>0
      <4>2. <<p[1], p[2]>> \in Places(b)
        BY <3>1, <4>1, PlacesAre
      <4>3. p \in Nat \X Nat
        BY <1>2, <3>1, <4>2
      <4> QED BY <3>1, <4>1, <4>2, <4>3
    <3> QED BY <3>3, <3>4
  <2>9. at \in Places(d) /\ At(d, at) = Slot(Free, Null)
    <3>1. Len(b.ext) + 1 \in DOMAIN d.ext /\ 1 \in DOMAIN d.ext[Len(b.ext) + 1]
      BY <1>1, <2>2, <2>3, <2>4, <2>5
    <3>2. at \in Places(d)
      BY <3>1, PlacesAre
    <3> QED BY <2>3, <2>8, <3>2, <2>7
  <2>10. \A p \in Places(d) : At(d, p).key = Free => p = at \/ Earlier(at, p)
    <3> SUFFICES ASSUME NEW p \in Places(d), At(d, p).key = Free PROVE p = at \/ Earlier(at, p)
      OBVIOUS
    <3>1. p[1] = Len(b.ext) + 1 /\ p[2] \in 1 .. b.grow /\ p = <<p[1], p[2]>>
      BY <2>7, <2>8
    <3> QED BY <1>1, <2>3, <3>1 DEF Earlier
  <2>11. Ready(b, d, at)
    BY <2>5, <2>7, <2>8, <2>9, <2>10 DEF Ready
  <2>12. \A p \in Places(d) : /\ GoodValue(At(d, p).v, o)
                              /\ At(d, p).key = Free \/ GoodValue(At(d, p).key, o)
    <3> SUFFICES ASSUME NEW p \in Places(d)
                 PROVE  GoodValue(At(d, p).v, o) /\ (At(d, p).key = Free \/ GoodValue(At(d, p).key, o))
      OBVIOUS
    <3>1. CASE p \in Places(b)
      BY <2>7, <3>1, PlacesType
    <3>2. CASE p \notin Places(b)
      <4>1. At(d, p) = Slot(Free, Null)
        BY <2>8, <3>2
      <4>2. At(d, p).v = Null /\ At(d, p).key = Free
        BY <4>1 DEF Slot
      <4> QED BY <4>2, NullGood
    <3> QED BY <3>1, <3>2
  <2>13. GoodTable(d)
    <3>1. /\ d.grow > 0 /\ d.ext # <<>>
      BY <1>1, <2>3, <2>4, <2>5
    <3>2. \A e \in DOMAIN d.ext : d.ext[e] # <<>>
      <4> SUFFICES ASSUME NEW e \in 1 .. Len(b.ext) + 1 PROVE r[e] # <<>>
        BY <2>4, <2>5
      <4>1. CASE e = Len(b.ext) + 1
        <5>1. Len(r[e]) # 0
          BY <1>1, <2>2, <2>3, <4>1
        <5> QED BY <5>1
      <4>2. CASE e # Len(b.ext) + 1
        <5>1. e \in DOMAIN b.ext /\ r[e] = b.ext[e]
          BY <2>3, <2>4, <4>2
        <5> QED BY <1>1, <5>1 DEF GoodTable
      <4> QED BY <4>1, <4>2
    <3>3. \A p, q \in Places(d) : At(d, p).key = Free /\ Earlier(p, q) => At(d, q).key = Free
      <4> SUFFICES ASSUME NEW p \in Places(d), NEW q \in Places(d), At(d, p).key = Free, Earlier(p, q)
                   PROVE  At(d, q).key = Free
        OBVIOUS
      <4>1. p[1] = Len(b.ext) + 1
        BY <2>7, <2>8
      <4>2. p[1] <= q[1]
        BY <2>8, <2>3 DEF Earlier
      <4>3. At(d, q) = Slot(Free, Null)
        BY <2>3, <2>8, <4>1, <4>2
      <4> QED BY <4>3 DEF Slot
    <3>4. \A p \in Places(d) : At(d, p).key = Free => p[1] = Len(d.ext) /\ At(d, p).v = Null
      <4> SUFFICES ASSUME NEW p \in Places(d), At(d, p).key = Free
                   PROVE  p[1] = Len(d.ext) /\ At(d, p).v = Null
        OBVIOUS
      <4>1. p[1] = Len(b.ext) + 1 /\ At(d, p) = Slot(Free, Null)
        BY <2>7, <2>8
      <4> QED BY <2>3, <2>5, <4>1 DEF Slot
    <3>5. "duplicates" \notin Defects =>
             \A p, q \in Places(d) : At(d, p).key = At(d, q).key /\ At(d, p).key # Free => p = q
      <4>1. \A p \in Places(d) : At(d, p).key # Free => p \in Places(b)
        BY <2>8 DEF Slot
      <4> QED BY <1>1, <2>7, <4>1 DEF GoodTable
    <3> QED BY <3>1, <3>2, <3>3, <3>4, <3>5 DEF GoodTable
  <2>14. GoodBlock(d, o, m)
    <3>1. IsTable(d) /\ d.type # A /\ ~IsData(d)
      BY <2>5, Codes DEF IsTable, IsData
    <3>2. d.type \in {A, T}
      BY <3>1 DEF IsTable
    <3> QED BY <2>5, <2>12, <2>13, <3>1, <3>2 DEF GoodBlock
  <2> QED BY <2>1, <2>3, <2>6, <2>11, <2>14 DEF d
<1> QED BY <1>3, <1>4

(* A key that a table did not have.                                        *)
LEMMA KeyedIs ==
  ASSUME NEW o, NEW m, NEW b, GoodBlock(b, o, m), IsTable(b), NEW x, GoodValue(x, o), WithKey(b, x) = {}
  PROVE  LET at == Unused(b)
             c == Keyed(b, at, x)
         IN  /\ GoodBlock(c, o, m) /\ Grew(b, c) /\ Places(b) \subseteq Places(c)
             /\ at \in Places(c) /\ At(c, at).key = x /\ At(c, at).v = Null /\ x # Free
             /\ \A p \in Places(b) : At(c, p).v = At(b, p).v
             /\ \A p \in Places(b) : At(b, p).key # Free => At(c, p).key = At(b, p).key
             /\ \A p \in Places(c) \ Places(b) : At(c, p).v = Null
             /\ c.type = b.type
<1> DEFINE at == Unused(b)
           r == Roomy(b)
           d == [b EXCEPT !.ext = r]
           n == [r EXCEPT ![at[1]][at[2]].key = x]
           c == [b EXCEPT !.ext = n]
<1>1. GoodBlock(d, o, m) /\ Ready(b, d, at) /\ r \in Seq(Seq(Slots))
  BY RoomyIs
<1>2. c = Keyed(b, at, x)
  BY DEF Keyed
<1>3. b \in Blocks
  BY DEF GoodBlock
<1>4. d.ext = r /\ d.type = b.type /\ d.dims = b.dims /\ d.grow = b.grow /\ d.frozen = b.frozen
  BY <1>1, <1>3, Rebuilt
<1> HIDE DEF d
<1>5. /\ at \in Places(d) /\ at = <<at[1], at[2]>> /\ at[1] \in DOMAIN r /\ at[2] \in DOMAIN r[at[1]]
  BY <1>1, <1>4, PlacesAre DEF Ready
<1>6. x \in Values /\ x # Free
  BY GoodNotFree
<1> HIDE DEF r, at
<1>7. /\ n \in Seq(Seq(Slots)) /\ Len(n) = Len(r) /\ DOMAIN n = DOMAIN r
      /\ \A e \in DOMAIN r : /\ DOMAIN n[e] = DOMAIN r[e] /\ Len(n[e]) = Len(r[e])
                             /\ \A j \in DOMAIN r[e] : <<e, j>> # <<at[1], at[2]>> => n[e][j] = r[e][j]
      /\ n[at[1]][at[2]].key = x /\ n[at[1]][at[2]].v = r[at[1]][at[2]].v
  BY <1>1, <1>5, <1>6, Rekeyed
<1> HIDE DEF n
<1>8. /\ c \in Blocks /\ c.type = b.type /\ c.dims = b.dims /\ c.grow = b.grow
      /\ c.frozen = b.frozen /\ c.ext = n
  BY <1>3, <1>7, Rebuilt
<1> HIDE DEF c
<1>9. \A p : p \in Places(c) <=> p \in Places(d)
  <2>1. ASSUME NEW p \in Places(c) PROVE p \in Places(d)
    <3>1. p = <<p[1], p[2]>> /\ p[1] \in DOMAIN n /\ p[2] \in DOMAIN n[p[1]]
      BY <1>8, PlacesAre
    <3>2. p[1] \in DOMAIN d.ext /\ p[2] \in DOMAIN d.ext[p[1]]
      BY <1>4, <1>7, <3>1
    <3>3. <<p[1], p[2]>> \in Places(d)
      BY <3>2, PlacesAre
    <3> QED BY <3>1, <3>3
  <2>2. ASSUME NEW p \in Places(d) PROVE p \in Places(c)
    <3>1. p = <<p[1], p[2]>> /\ p[1] \in DOMAIN r /\ p[2] \in DOMAIN r[p[1]]
      BY <1>4, PlacesAre
    <3>2. p[1] \in DOMAIN c.ext /\ p[2] \in DOMAIN c.ext[p[1]]
      BY <1>7, <1>8, <3>1
    <3>3. <<p[1], p[2]>> \in Places(c)
      BY <3>2, PlacesAre
    <3> QED BY <3>1, <3>3
  <2> QED BY <2>1, <2>2
<1>10. ASSUME NEW p \in Places(d), p # at PROVE At(c, p) = At(d, p)
  <2>1. p = <<p[1], p[2]>> /\ p[1] \in DOMAIN r /\ p[2] \in DOMAIN r[p[1]]
    BY <1>4, PlacesAre
  <2>2. <<p[1], p[2]>> # <<at[1], at[2]>>
    BY <1>5, <1>10, <2>1
  <2> QED BY <1>4, <1>7, <1>8, <2>1, <2>2 DEF At
<1>11. At(c, at).key = x /\ At(c, at).v = At(d, at).v
  BY <1>4, <1>7, <1>8 DEF At
<1>12. At(d, at).v = Null /\ At(d, at).key = Free
  BY <1>1 DEF Ready, Slot
<1>13. \A p \in Places(d) : At(c, p).v = At(d, p).v
  BY <1>10, <1>11
<1>14. \A p \in Places(d) : At(d, p).key # Free => p # at /\ At(c, p).key = At(d, p).key
  BY <1>10, <1>12
<1>15. Places(b) \subseteq Places(c) /\ \A p \in Places(b) : At(d, p) = At(b, p) /\ p \in Places(d)
  BY <1>1, <1>9 DEF Ready
<1>16. /\ \A p \in Places(b) : At(c, p).v = At(b, p).v
       /\ \A p \in Places(b) : At(b, p).key # Free => At(c, p).key = At(b, p).key
  BY <1>13, <1>14, <1>15
<1>17. \A p \in Places(c) \ Places(b) : At(c, p).v = Null
  BY <1>1, <1>9, <1>13 DEF Ready, Slot
<1>18. Grew(b, c)
  BY <1>8, <1>15, <1>16 DEF Grew
<1>19. at \in Places(c)
  BY <1>5, <1>9
<1>20. \A p \in Places(d) : At(d, p).key # x
  <2>1. \A p \in Places(b) : At(b, p).key # x
    BY DEF WithKey
  <2> QED BY <1>1, <1>6, <2>1 DEF Ready, Slot
<1>21. GoodTable(d) /\ IsTable(c) /\ IsTable(d)
  BY <1>1, <1>4, <1>8 DEF GoodBlock, IsTable
<1>22. GoodTable(c)
  <2>1. \A e \in DOMAIN c.ext : c.ext[e] # <<>>
    <3>1. \A e \in DOMAIN r : r[e] # <<>> /\ r[e] \in Seq(Slots) /\ n[e] \in Seq(Slots)
      BY <1>1, <1>4, <1>7, <1>21 DEF GoodTable
    <3>2. \A e \in DOMAIN r : n[e] # <<>>
      <4> SUFFICES ASSUME NEW e \in DOMAIN r PROVE n[e] # <<>>
        OBVIOUS
      <4>1. DOMAIN r[e] = 1 .. Len(r[e]) /\ Len(r[e]) # 0 /\ Len(n[e]) = Len(r[e])
        BY <1>7, <3>1
      <4> QED BY <4>1
    <3> QED BY <1>7, <1>8, <3>2
  <2>2. c.grow > 0 /\ c.ext # <<>>
    <3>1. r # <<>> /\ d.grow > 0
      BY <1>4, <1>21 DEF GoodTable
    <3>2. n # <<>>
      BY <1>1, <1>7, <3>1
    <3> QED BY <1>4, <1>8, <3>1, <3>2
  <2>3. \A p \in Places(c) : At(c, p).key = Free => p \in Places(d) /\ p # at /\ At(d, p).key = Free
    BY <1>6, <1>9, <1>11, <1>14
  <2>4. \A p, q \in Places(c) : At(c, p).key = Free /\ Earlier(p, q) => At(c, q).key = Free
    <3> SUFFICES ASSUME NEW p \in Places(c), NEW q \in Places(c), At(c, p).key = Free, Earlier(p, q)
                 PROVE  At(c, q).key = Free
      OBVIOUS
    <3>1. p \in Places(d) /\ q \in Places(d) /\ At(d, p).key = Free /\ p # at
      BY <1>9, <2>3
    <3>2. Earlier(at, p)
      BY <1>1, <3>1 DEF Ready
    <3>3. p \in Nat \X Nat /\ q \in Nat \X Nat
      BY <1>1, <3>1, PlacesType
    <3>4. ~Earlier(p, at)
      <4>1. at \in Nat \X Nat
        BY <1>1, <1>5, PlacesType
      <4> QED BY <3>2, <3>3, <4>1, OrderOfPlaces
    <3>5. q # at
      BY <3>4
    <3>6. At(d, q).key = Free
      BY <1>21, <3>1 DEF GoodTable
    <3> QED BY <1>10, <3>1, <3>5, <3>6
  <2>5. \A p \in Places(c) : At(c, p).key = Free => p[1] = Len(c.ext) /\ At(c, p).v = Null
    BY <1>4, <1>7, <1>8, <1>10, <1>21, <2>3 DEF GoodTable
  <2>6. "duplicates" \notin Defects =>
          \A p, q \in Places(c) : At(c, p).key = At(c, q).key /\ At(c, p).key # Free => p = q
    <3> SUFFICES ASSUME "duplicates" \notin Defects, NEW p \in Places(c), NEW q \in Places(c),
                        At(c, p).key = At(c, q).key, At(c, p).key # Free
                 PROVE  p = q
      OBVIOUS
    <3>1. p \in Places(d) /\ q \in Places(d)
      BY <1>9
    <3>2. CASE p # at /\ q # at
      <4>1. At(c, p) = At(d, p) /\ At(c, q) = At(d, q)
        BY <1>10, <3>1, <3>2
      <4> QED BY <1>21, <3>1, <4>1 DEF GoodTable
    <3>3. CASE p = at /\ q # at
      BY <1>10, <1>11, <1>20, <3>1, <3>3
    <3>4. CASE p # at /\ q = at
      BY <1>10, <1>11, <1>20, <3>1, <3>4
    <3> QED BY <3>2, <3>3, <3>4
  <2> QED BY <2>1, <2>2, <2>4, <2>5, <2>6 DEF GoodTable
<1>23. \A p \in Places(c) : /\ GoodValue(At(c, p).v, o)
                            /\ At(c, p).key = Free \/ GoodValue(At(c, p).key, o)
  <2> SUFFICES ASSUME NEW p \in Places(c)
               PROVE  GoodValue(At(c, p).v, o) /\ (At(c, p).key = Free \/ GoodValue(At(c, p).key, o))
    OBVIOUS
  <2>1. p \in Places(d)
    BY <1>9
  <2>2. GoodValue(At(d, p).v, o) /\ (At(d, p).key = Free \/ GoodValue(At(d, p).key, o))
    BY <1>1, <2>1, PlacesType
  <2>3. CASE p = at
    BY <1>11, <1>13, <2>1, <2>2, <2>3
  <2>4. CASE p # at
    BY <1>10, <2>1, <2>2, <2>4
  <2> QED BY <2>3, <2>4
<1>24. GoodBlock(c, o, m)
  <2>1. c.type = T /\ c.type \in {A, T} /\ c.type # A /\ ~IsData(c)
    BY <1>21, Codes DEF IsTable, IsData
  <2> QED BY <1>8, <1>21, <1>22, <1>23, <2>1 DEF GoodBlock
<1> QED BY <1>2, <1>6, <1>8, <1>11, <1>12, <1>15, <1>16, <1>17, <1>18, <1>19, <1>24 DEF at

-----------------------------------------------------------------------------
(* Subscripts.  Dimensions as arrays have them.                            *)
Dims == Seq([low : Int, n : Nat])
DimOf(dims, k) == dims[Len(dims) + 1 - k]

LEMMA DimsAre ==
  ASSUME NEW dims \in Dims
  PROVE  /\ Len(dims) \in Nat /\ DOMAIN dims = 1 .. Len(dims)
         /\ \A d \in 1 .. Len(dims) : dims[d].n \in Nat /\ dims[d].low \in Int
         /\ \A k \in 1 .. Len(dims) : /\ Len(dims) + 1 - k \in 1 .. Len(dims)
                                      /\ DimOf(dims, k).n \in Nat /\ DimOf(dims, k).low \in Int
<1>1. Len(dims) \in Nat /\ DOMAIN dims = 1 .. Len(dims)
  BY DEF Dims
<1>2. ASSUME NEW d \in 1 .. Len(dims) PROVE dims[d].n \in Nat /\ dims[d].low \in Int
  <2>1. dims[d] \in [low : Int, n : Nat]
    BY <1>1, ElementsOf DEF Dims
  <2> QED BY <2>1
<1>3. \A k \in 1 .. Len(dims) : Len(dims) + 1 - k \in 1 .. Len(dims)
  BY <1>1
<1> QED BY <1>1, <1>2, <1>3 DEF DimOf

Counts(f, dims) ==
  /\ f \in [0 .. Len(dims) -> Nat] /\ f[0] = 1
  /\ \A k \in 1 .. Len(dims) : f[k] = f[k - 1] * DimOf(dims, k).n

LEMMA ElementsSteps ==
  ASSUME NEW dims \in Dims
  PROVE  \E f : Counts(f, dims) /\ Elements(dims) = f[Len(dims)]
<1> DEFINE N == Len(dims)
           step == [k \in 1 .. N |-> [s \in Nat |-> s * DimOf(dims, k).n]]
           E(f) == [k \in 0 .. N |-> IF k = 0 THEN 1 ELSE f[k - 1] * dims[N + 1 - k].n]
           after == CHOOSE f : f = E(f)
<1>1. N \in Nat
  BY DimsAre
<1>2. step \in [1 .. N -> [Nat -> Nat]]
  <2>1. ASSUME NEW k \in 1 .. N, NEW s \in Nat PROVE s * DimOf(dims, k).n \in Nat
    BY DimsAre
  <2> QED BY <2>1
<1>3. PICK f \in [0 .. N -> Nat] : f[0] = 1 /\ \A k \in 1 .. N : f[k] = step[k][f[k - 1]]
  <2> DEFINE Dom == Nat
  <2>1. 1 \in Dom /\ N \in Nat /\ step \in [1 .. N -> [Dom -> Dom]]
    BY <1>1, <1>2
  <2> HIDE DEF step, N, Dom, E, after
  <2>2. \E f \in [0 .. N -> Dom] : f[0] = 1 /\ \A k \in 1 .. N : f[k] = step[k][f[k - 1]]
    BY <2>1, Recursion
  <2> QED BY <2>2 DEF Dom
<1>4. \A k \in 1 .. N : f[k - 1] \in Nat /\ f[k] = f[k - 1] * DimOf(dims, k).n
  <2> SUFFICES ASSUME NEW k \in 1 .. N
               PROVE  f[k - 1] \in Nat /\ f[k] = f[k - 1] * DimOf(dims, k).n
    OBVIOUS
  <2>1. k - 1 \in 0 .. N
    BY <1>1
  <2> QED BY <1>3, <2>1
<1>5. f = E(f)
  BY <1>3, <1>4 DEF DimOf
<1>6. after = E(after)
  BY <1>5
<1> HIDE DEF N, after
<1>7. after[0] = 1 /\ \A k \in 1 .. N : after[k] = after[k - 1] * DimOf(dims, k).n
  <2>1. 0 \in 0 .. N /\ \A k \in 1 .. N : k \in 0 .. N /\ k # 0
    BY <1>1
  <2> QED BY <1>6, <2>1 DEF DimOf, N
<1>8. 0 .. N \subseteq {k \in 0 .. N : after[k] = f[k]}
  <2>1. 0 \in {k \in 0 .. N : after[k] = f[k]}
    BY <1>1, <1>3, <1>7
  <2>2. ASSUME NEW m \in 1 .. N, m - 1 \in {k \in 0 .. N : after[k] = f[k]}
        PROVE  m \in {k \in 0 .. N : after[k] = f[k]}
    BY <1>1, <1>4, <1>7, <2>2
  <2> QED BY <1>1, <2>1, <2>2, Counting
<1>9. after[N] = f[N]
  BY <1>1, <1>8
<1>10. Elements(dims) = after[N]
  BY DEF Elements, after, N
<1> QED BY <1>3, <1>4, <1>9, <1>10 DEF Counts, N

LEMMA ElementsFew ==
  ASSUME NEW dims \in Dims
  PROVE  /\ Elements(dims) \in Nat
         /\ Len(dims) = 1 => Elements(dims) = dims[1].n
         /\ Len(dims) = 2 => Elements(dims) = dims[2].n * dims[1].n
<1>1. PICK f : Counts(f, dims) /\ Elements(dims) = f[Len(dims)]
  BY ElementsSteps
<1>2. /\ f \in [0 .. Len(dims) -> Nat] /\ f[0] = 1 /\ Len(dims) \in Nat
      /\ \A k \in 1 .. Len(dims) : f[k] = f[k - 1] * dims[Len(dims) + 1 - k].n
  BY <1>1, DimsAre DEF Counts, DimOf
<1>3. Elements(dims) \in Nat
  BY <1>1, <1>2
<1>4. ASSUME Len(dims) = 1 PROVE Elements(dims) = dims[1].n
  <2>1. 1 \in 1 .. Len(dims) /\ 1 - 1 = 0 /\ Len(dims) + 1 - 1 = 1
    BY <1>4
  <2>2. f[1] = f[0] * dims[1].n
    BY <1>2, <2>1
  <2>3. dims[1].n \in Nat
    BY <2>1, DimsAre
  <2> QED BY <1>1, <1>2, <1>4, <2>2, <2>3
<1>5. ASSUME Len(dims) = 2 PROVE Elements(dims) = dims[2].n * dims[1].n
  <2>1. f[1] = 1 * dims[2].n /\ f[2] = f[1] * dims[1].n /\ dims[1].n \in Nat /\ dims[2].n \in Nat
    BY <1>2, <1>5, DimsAre
  <2> QED BY <1>1, <1>5, <2>1
<1> QED BY <1>3, <1>4, <1>5

(* A number and a place in a row of n make a place in m rows.              *)
LEMMA RowAndPlace ==
  ASSUME NEW m \in Int, NEW n \in Int, NEW z \in Int, NEW x \in Int, 0 <= z, z < m, 0 <= x, x < n
  PROVE  0 <= z * n + x /\ z * n + x < m * n
<1>1. 0 <= z * n
  BY SMT
<1>2. z + 1 <= m
  OBVIOUS
<1>3. (z + 1) * n <= m * n
  <2>1. 0 <= (m - (z + 1)) * n
    BY <1>2, SMT
  <2> QED BY <2>1, SMT
<1>4. (z + 1) * n = z * n + n
  BY SMT
<1> QED BY <1>1, <1>3, <1>4

(* The offset of subscripts within their bounds is one of the elements.    *)
LEMMA OffsetIn ==
  ASSUME NEW dims \in Dims, NEW subs, \A d \in 1 .. Len(dims) : subs[d] \in Int, InBounds(dims, subs)
  PROVE  Offset(dims, subs) \in 0 .. Elements(dims) - 1
<1> DEFINE N == Len(dims)
           Add(s, k) == s * DimOf(dims, k).n + (subs[N + 1 - k] - DimOf(dims, k).low)
           step == [k \in 1 .. N |-> [s \in Int |-> Add(s, k)]]
           E(f) == [k \in 0 .. N |-> IF k = 0 THEN 0 ELSE Add(f[k - 1], k)]
           after == CHOOSE f : f = E(f)
<1>1. N \in Nat /\ DOMAIN dims = 1 .. N
  BY DimsAre
<1>2. ASSUME NEW k \in 1 .. N
      PROVE  /\ N + 1 - k \in 1 .. N /\ DimOf(dims, k).n \in Nat /\ DimOf(dims, k).low \in Int
             /\ subs[N + 1 - k] \in Int
             /\ subs[N + 1 - k] - DimOf(dims, k).low \in 0 .. DimOf(dims, k).n - 1
  <2>1. /\ N + 1 - k \in 1 .. N /\ DimOf(dims, k).n \in Nat /\ DimOf(dims, k).low \in Int
    BY DimsAre
  <2>2. subs[N + 1 - k] - dims[N + 1 - k].low \in 0 .. dims[N + 1 - k].n - 1
    BY <1>1, <2>1 DEF InBounds
  <2> QED BY <2>1, <2>2 DEF DimOf
<1>3. step \in [1 .. N -> [Int -> Int]]
  <2>1. ASSUME NEW k \in 1 .. N, NEW s \in Int PROVE Add(s, k) \in Int
    BY <1>2
  <2> HIDE DEF Add
  <2> QED BY <2>1
<1>4. PICK f \in [0 .. N -> Int] : f[0] = 0 /\ \A k \in 1 .. N : f[k] = step[k][f[k - 1]]
  <2> DEFINE Dom == Int
  <2>1. 0 \in Dom /\ N \in Nat /\ step \in [1 .. N -> [Dom -> Dom]]
    <3> HIDE DEF step, N
    <3> QED BY <1>1, <1>3
  <2> HIDE DEF step, N, Dom, E, after
  <2>2. \E f \in [0 .. N -> Dom] : f[0] = 0 /\ \A k \in 1 .. N : f[k] = step[k][f[k - 1]]
    BY <2>1, Recursion
  <2> QED BY <2>2 DEF Dom
<1>5. \A k \in 1 .. N : f[k - 1] \in Int /\ f[k] = Add(f[k - 1], k)
  <2> SUFFICES ASSUME NEW k \in 1 .. N
               PROVE  f[k - 1] \in Int /\ f[k] = Add(f[k - 1], k)
    OBVIOUS
  <2>1. k - 1 \in 0 .. N
    BY <1>1
  <2> HIDE DEF Add
  <2> QED BY <1>4, <2>1
<1>8. Offset(dims, subs) = after[N]
  BY DEF Offset, DimOf
<1> HIDE DEF Add
<1>6. f = E(f)
  BY <1>4, <1>5
<1>7. after = E(after)
  BY <1>6
<1> HIDE DEF after
<1>9. after[0] = 0 /\ \A k \in 1 .. N : after[k] = Add(after[k - 1], k)
  <2>1. 0 \in 0 .. N /\ \A k \in 1 .. N : k \in 0 .. N /\ k # 0
    BY <1>1
  <2> HIDE DEF N
  <2> QED BY <1>7, <2>1
<1>10. PICK g : Counts(g, dims) /\ Elements(dims) = g[Len(dims)]
  BY ElementsSteps
<1>11. /\ g[0] = 1 /\ \A k \in 0 .. N : g[k] \in Nat
       /\ \A k \in 1 .. N : g[k] = g[k - 1] * DimOf(dims, k).n
  BY <1>10 DEF Counts
<1> HIDE DEF Add, N
<1>12. 0 .. N \subseteq {k \in 0 .. N : after[k] \in 0 .. g[k] - 1}
  <2> DEFINE X == {k \in 0 .. N : after[k] \in 0 .. g[k] - 1}
  <2>1. 0 \in X
    BY <1>1, <1>9, <1>11
  <2>2. ASSUME NEW k \in 1 .. N, k - 1 \in X PROVE k \in X
    <3> DEFINE m == g[k - 1]
               n == DimOf(dims, k).n
               z == after[k - 1]
               x == subs[N + 1 - k] - DimOf(dims, k).low
    <3>1. z \in 0 .. m - 1 /\ m \in Nat /\ n \in Nat /\ x \in 0 .. n - 1
      <4>1. k - 1 \in 0 .. N
        BY <1>1
      <4> QED BY <1>2, <1>11, <2>2, <4>1
    <3>2. after[k] = z * n + x /\ g[k] = m * n
      BY <1>9, <1>11 DEF Add
    <3> HIDE DEF m, n, z, x
    <3>3. 0 <= z * n + x /\ z * n + x < m * n
      <4>1. m \in Int /\ n \in Int /\ z \in Int /\ x \in Int /\ 0 <= z /\ z < m /\ 0 <= x /\ x < n
        BY <3>1
      <4> QED BY <4>1, RowAndPlace
    <3>4. z * n + x \in Int /\ m * n \in Int
      BY <3>1, SMT
    <3>5. after[k] \in 0 .. g[k] - 1
      <4> DEFINE u == z * n + x
                 w == m * n
      <4>1. u \in Int /\ w \in Int /\ 0 <= u /\ u < w
        BY <3>3, <3>4
      <4>2. after[k] = u /\ g[k] = w
        BY <3>2
      <4> HIDE DEF u, w
      <4> QED BY <4>1, <4>2
    <3> QED BY <1>1, <3>5
  <2> HIDE DEF X
  <2>3. 0 .. N \subseteq X
    BY <1>1, <2>1, <2>2, Counting
  <2> QED BY <2>3 DEF X
<1>13. after[N] \in 0 .. g[N] - 1
  BY <1>1, <1>12
<1> QED BY <1>8, <1>10, <1>13 DEF N

-----------------------------------------------------------------------------
(* Names of elements.                                                      *)
Keeping == /\ GoodObjects(obj', made) /\ GoodTodo(todo', obj') /\ GoodWait(wait', obj', types)
           /\ UNCHANGED defs

LEMMA KeepingKeeps == ASSUME IInv, Keeping PROVE IInv'
BY DEF IInv, Keeping, defs

LEMMA WithinKeeping == ASSUME IInv, Within PROVE Keeping
BY DEF IInv, Keeping, Within

LEMMA BlocksGood ==
  ASSUME IInv
  PROVE  /\ \A k \in Objects : k \in DOMAIN obj /\ k \in Nat /\ GoodBlock(obj[k], obj, made)
         /\ GoodObjects(obj, made) /\ GoodTodo(todo, obj) /\ GoodWait(wait, obj, types)
         /\ SoundTypes(made, types, fields)
         /\ obj \in Seq(Blocks) /\ DOMAIN obj = 1 .. Len(obj) /\ Len(obj) \in Nat
<1>1. obj \in Seq(Blocks) /\ DOMAIN obj = 1 .. Len(obj) /\ Len(obj) \in Nat
  BY DEF IInv, GoodObjects
<1> QED BY <1>1 DEF IInv, GoodObjects, Objects

LEMMA FoundIs ==
  ASSUME NEW o, NEW m, NEW b, GoodBlock(b, o, m), NEW x, WithKey(b, x) # {}
  PROVE  /\ First(WithKey(b, x)) \in Places(b) /\ At(b, First(WithKey(b, x))).key = x
<1>1. WithKey(b, x) \in SUBSET (Nat \X Nat)
  BY PlacesType DEF WithKey
<1> QED BY <1>1, FirstIs DEF WithKey

LEMMA ItemTableKeeps ==
  ASSUME IInv, NEW k \in OfType(T), NEW x \in Operands, ItemTable(k, x)
  PROVE  GoodObjects(obj', made) /\ Kept(obj, obj') /\ GoodTodo(todo', obj')
<1> DEFINE b == obj[k]
<1>1. k \in DOMAIN obj /\ GoodBlock(b, obj, made) /\ IsTable(b) /\ GoodObjects(obj, made)
  BY BlocksGood DEF OfType, IsTable
<1>2. GoodValue(x, obj) /\ x # Free
  BY OperandsGood, GoodNotFree
<1>3. CASE WithKey(b, x) # {} /\ todo' = Name(k, First(WithKey(b, x))) /\ UNCHANGED obj
  <2>1. GoodName(k, First(WithKey(b, x)), obj)
    BY <1>1, <1>2, <1>3, FoundIs DEF GoodName
  <2> QED BY <1>1, <1>3, <2>1, TodoGood, KeptSame
<1>4. CASE todo' = Value(Null) /\ UNCHANGED obj
  BY <1>1, <1>4, NullGood, TodoGood, KeptSame
<1>5. CASE /\ WithKey(b, x) = {}
           /\ obj' = [obj EXCEPT ![k] = Keyed(b, Unused(b), x)]
           /\ todo' = Name(k, Unused(b))
  <2> DEFINE at == Unused(b)
             c == Keyed(b, at, x)
  <2>1. /\ GoodBlock(c, obj, made) /\ Grew(b, c) /\ at \in Places(c) /\ At(c, at).key = x
    BY <1>1, <1>2, <1>5, KeyedIs
  <2> HIDE DEF at, c
  <2>2. /\ GoodObjects(obj', made) /\ Kept(obj, obj') /\ DOMAIN obj' = DOMAIN obj
        /\ obj'[k] = c
    BY <1>1, <1>5, <2>1, ObjectChanged DEF at, c
  <2>3. GoodName(k, at, obj')
    BY <1>1, <1>2, <2>1, <2>2 DEF GoodName
  <2> QED BY <1>5, <2>2, <2>3, TodoGood DEF at
<1> QED BY <1>3, <1>4, <1>5 DEF ItemTable

LEMMA SubscriptsAre ==
  ASSUME NEW n \in Nat, NEW subs \in [1 .. n -> Int], NEW m \in Nat, n <= m
  PROVE  Len(subs) = n /\ \A d \in 1 .. m : Missing(subs, m)[d] \in Int
<1>1. subs \in Seq(Int) /\ Len(subs) = n
  BY LenProperties, IsASeq
<1> DEFINE z == [i \in 1 .. m - n |-> 0]
<1>2. z \in Seq(Int) /\ Len(z) = m - n
  <2>1. m - n \in Nat /\ 0 \in Int
    OBVIOUS
  <2> HIDE DEF z
  <2>2. \A q \in Nat : [i \in 1 .. q |-> 0] \in Seq(Int) /\ Len([i \in 1 .. q |-> 0]) = q
    BY SameSlots
  <2> QED BY <2>1, <2>2 DEF z
<1>3. Missing(subs, m) = subs \o z
  BY <1>1 DEF Missing
<1> HIDE DEF z
<1>4. subs \o z \in Seq(Int) /\ Len(subs \o z) = m
  <2>1. subs \o z \in Seq(Int) /\ Len(subs \o z) = Len(subs) + Len(z)
    BY <1>1, <1>2, ConcatProperties
  <2> QED BY <1>1, <1>2, <2>1
<1> DEFINE all == subs \o z
<1>5. \A d \in 1 .. m : all[d] \in Int
  <2> HIDE DEF all
  <2>1. all \in Seq(Int) /\ Len(all) = m
    BY <1>4 DEF all
  <2> QED BY <2>1
<1> QED BY <1>1, <1>3, <1>5

(* Subscripts that are within their bounds are the name of an element.     *)
LEMMA SubscriptName ==
  ASSUME IInv, NEW k \in OfType(A), NEW n \in 1 .. 3, NEW subs \in [1 .. n -> 0 .. 2],
         n <= Len(obj[k].dims), InBounds(obj[k].dims, Missing(subs, Len(obj[k].dims)))
  PROVE  GoodName(k, <<1, Offset(obj[k].dims, Missing(subs, Len(obj[k].dims))) + 1>>, obj)
<1> DEFINE b == obj[k]
           all == Missing(subs, Len(b.dims))
           z == Offset(b.dims, all)
<1>1. k \in DOMAIN obj /\ GoodBlock(b, obj, made) /\ b.type = A /\ ~IsTable(b)
  BY BlocksGood, Codes DEF OfType, IsTable
<1>2. b.dims \in Dims /\ Len(b.dims) \in Nat
  BY <1>1, BlockFacts, DimsAre DEF Dims
<1>3. \A d \in 1 .. Len(b.dims) : all[d] \in Int
  <2>1. subs \in [1 .. n -> Int] /\ n \in Nat
    OBVIOUS
  <2> QED BY <1>2, <2>1, SubscriptsAre
<1> HIDE DEF all
<1>4. z \in 0 .. Elements(b.dims) - 1
  BY <1>2, <1>3, OffsetIn DEF all
<1>5. Elements(b.dims) \in Nat
  BY <1>2, ElementsFew
<1>6. Len(b.ext) = 1 /\ Len(b.ext[1]) = Elements(b.dims) /\ b.ext \in Seq(Seq(Slots))
  BY <1>1, BlockFacts DEF GoodBlock, Slots
<1> HIDE DEF z
<1>7. 1 \in DOMAIN b.ext /\ z + 1 \in DOMAIN b.ext[1]
  <2>1. 1 \in DOMAIN b.ext /\ b.ext[1] \in Seq(Slots)
    BY <1>6
  <2> QED BY <1>4, <1>5, <1>6, <2>1
<1>8. <<1, z + 1>> \in Places(b)
  BY <1>7, PlacesAre
<1> QED BY <1>1, <1>8 DEF GoodName, z, all

LEMMA ItemKeeps ==
  ASSUME IInv, ITEM
  PROVE  Keeping /\ Kept(obj, obj')
<1>0. GoodObjects(obj, made) /\ GoodWait(wait, obj, types) /\ UNCHANGED defs
  BY BlocksGood DEF ITEM
<1>1. CASE \E k \in OfType(T), x \in Operands : ItemTable(k, x) /\ UNCHANGED wait
  <2>1. GoodObjects(obj', made) /\ Kept(obj, obj') /\ GoodTodo(todo', obj') /\ UNCHANGED wait
    BY <1>1, ItemTableKeeps
  <2> QED BY <1>0, <2>1, WaitKept DEF Keeping
<1>2. ASSUME NEW k \in OfType(A), NEW n \in 1 .. 3, NEW subs \in [1 .. n -> 0 .. 2],
             UNCHANGED obj,
             LET dims == obj[k].dims
                 all == Missing(subs, Len(dims))
             IN  IF n > Len(dims) \/ ~InBounds(dims, all) THEN FAIL
                 ELSE todo' = Name(k, <<1, Offset(dims, all) + 1>>) /\ UNCHANGED wait
      PROVE  Keeping /\ Kept(obj, obj')
  <2>1. CASE FAIL
    BY <1>0, <1>2, <2>1, TodoGood, WaitEmpty, KeptSame DEF FAIL, Keeping
  <2>2. CASE ~FAIL
    <3>1. Len(obj[k].dims) \in Nat
      BY BlocksGood, BlockFacts, DimsAre DEF OfType, Dims
    <3>2. n <= Len(obj[k].dims) /\ InBounds(obj[k].dims, Missing(subs, Len(obj[k].dims)))
      BY <1>2, <2>2, <3>1
    <3>3. GoodName(k, <<1, Offset(obj[k].dims, Missing(subs, Len(obj[k].dims))) + 1>>, obj)
      BY <3>2, SubscriptName
    <3>4. todo' = Name(k, <<1, Offset(obj[k].dims, Missing(subs, Len(obj[k].dims))) + 1>>) /\ UNCHANGED wait
      BY <1>2, <2>2
    <3> QED BY <1>0, <1>2, <3>3, <3>4, TodoGood, KeptSame DEF Keeping
  <2> QED BY <2>1, <2>2
<1> QED BY <1>1, <1>2 DEF ITEM

-----------------------------------------------------------------------------
(* Steps that change an element, or give up.                               *)
LEMMA FailKeeps == ASSUME IInv, FAIL, UNCHANGED <<obj, defs>> PROVE Within
BY TodoGood, WaitEmpty DEF FAIL, Within

LEMMA AssignedTo ==
  ASSUME IInv, ASGNV
  PROVE  LET w == Last(wait)
             k == w.name[1]
             at == w.name[2]
         IN  /\ w \in Frames /\ k \in DOMAIN obj /\ at \in Places(obj[k]) /\ GoodBlock(obj[k], obj, made)
             /\ IsTable(obj[k]) => At(obj[k], at).key # Free
             /\ GoodValue(todo.v, obj)
             /\ obj' = [obj EXCEPT ![k] = Assigned(obj[k], at, todo.v)]
             /\ Grew(obj[k], Assigned(obj[k], at, todo.v))
             /\ GoodBlock(Assigned(obj[k], at, todo.v), obj, made)
<1> DEFINE w == Last(wait)
           k == w.name[1]
           at == w.name[2]
<1>1. wait # <<>> /\ w.proc = "ASGN" /\ w.name # <<>> /\ todo.op = "value"
  BY DEF ASGNV, Waits
<1>2. GoodWait(wait, obj, types) /\ GoodTodo(todo, obj)
  BY BlocksGood
<1>3. w \in Frames /\ GoodFrame(w, obj, types)
  BY <1>1, <1>2, WaitFront
<1>4. GoodName(k, at, obj)
  BY <1>1, <1>3 DEF GoodFrame
<1>5. GoodValue(todo.v, obj)
  BY <1>1, <1>2 DEF GoodTodo
<1>6. k \in DOMAIN obj /\ at \in Places(obj[k]) /\ (IsTable(obj[k]) => At(obj[k], at).key # Free)
  BY <1>4 DEF GoodName
<1>7. GoodBlock(obj[k], obj, made)
  BY <1>6, BlocksGood DEF Objects
<1>8. /\ Grew(obj[k], Assigned(obj[k], at, todo.v))
      /\ GoodBlock(Assigned(obj[k], at, todo.v), obj, made)
  BY <1>5, <1>6, <1>7, AssignedIs
<1> QED BY <1>3, <1>5, <1>6, <1>7, <1>8 DEF ASGNV

LEMMA AsgnvKeeps == ASSUME IInv, ASGNV PROVE Keeping /\ Kept(obj, obj')
<1> DEFINE k == Last(wait).name[1]
           c == Assigned(obj[k], Last(wait).name[2], todo.v)
<1>1. /\ k \in DOMAIN obj /\ GoodValue(todo.v, obj) /\ obj' = [obj EXCEPT ![k] = c]
      /\ Grew(obj[k], c) /\ GoodBlock(c, obj, made)
  BY AssignedTo
<1> HIDE DEF k, c
<1>2. GoodObjects(obj', made) /\ Kept(obj, obj')
  BY <1>1, BlocksGood, ObjectChanged
<1>3. GoodWait(Front(wait), obj, types)
  BY BlocksGood, WaitFront DEF ASGNV, Waits
<1>4. GoodWait(wait', obj', types)
  BY <1>2, <1>3, WaitKept DEF ASGNV
<1>5. GoodValue(todo.v, obj')
  BY <1>1, <1>2, ValueKept
<1>6. GoodTodo(todo', obj')
  BY <1>5, TodoGood DEF ASGNV
<1> QED BY <1>2, <1>4, <1>6 DEF Keeping, ASGNV

(* Freezing changes no element.                                            *)
LEMMA FrozenIs ==
  ASSUME NEW o, NEW m, NEW b, GoodBlock(b, o, m), NEW f \in BOOLEAN
  PROVE  LET c == [b EXCEPT !.frozen = f]
         IN  /\ GoodBlock(c, o, m) /\ Grew(b, c) /\ c.type = b.type /\ c.ext = b.ext /\ Places(c) = Places(b)
             /\ \A p : At(c, p) = At(b, p)
<1> DEFINE c == [b EXCEPT !.frozen = f]
<1>1. /\ c \in Blocks /\ c.type = b.type /\ c.dims = b.dims /\ c.grow = b.grow /\ c.ext = b.ext
  BY DEF GoodBlock, Blocks
<1> HIDE DEF c
<1>2. Places(c) = Places(b) /\ \A p : At(c, p) = At(b, p)
  BY <1>1 DEF Places, At
<1>3. GoodTable(b) => GoodTable(c)
  BY <1>1, <1>2 DEF GoodTable
<1>4. GoodBlock(c, o, m)
  BY <1>1, <1>2, <1>3 DEF GoodBlock, IsTable, IsData, FieldsOfType
<1> QED BY <1>1, <1>2, <1>4 DEF Grew, c

LEMMA FreezeKeeps == ASSUME IInv, FREEZE \/ THAW PROVE Keeping /\ Kept(obj, obj')
<1>1. PICK k \in OfType(T), f \in BOOLEAN : obj' = [obj EXCEPT ![k] = [obj[k] EXCEPT !.frozen = f]]
  BY DEF FREEZE, THAW
<1> DEFINE c == [obj[k] EXCEPT !.frozen = f]
<1>2. k \in DOMAIN obj /\ GoodBlock(obj[k], obj, made)
  BY BlocksGood DEF OfType
<1>3. GoodBlock(c, obj, made) /\ Grew(obj[k], c)
  BY <1>2, FrozenIs
<1>4. obj' = [obj EXCEPT ![k] = c]
  BY <1>1
<1> HIDE DEF c
<1>5. GoodObjects(obj', made) /\ Kept(obj, obj')
  BY <1>2, <1>3, <1>4, BlocksGood, ObjectChanged
<1>6. GoodWait(wait', obj', types) /\ UNCHANGED defs
  BY <1>5, BlocksGood, WaitKept DEF FREEZE, THAW
<1>7. GoodTodo(todo', obj')
  BY NullGood, TodoGood DEF FREEZE, THAW
<1> QED BY <1>5, <1>6, <1>7 DEF Keeping

-----------------------------------------------------------------------------
(* Steps that make a block.                                                *)
LEMMA MadeKeeps ==
  ASSUME IInv, NEW b, GoodBlock(b, obj, made), NEW x, Made(b, x), GoodWait(wait', obj, types), UNCHANGED defs
  PROVE  /\ Keeping /\ Kept(obj, obj') /\ Len(obj') = Len(obj) + 1 /\ obj'[Len(obj) + 1] = b
         /\ \A k \in DOMAIN obj : obj'[k] = obj[k]
<1>1. GoodObjects(obj, made)
  BY BlocksGood
<1>2. obj' = Append(obj, b)
  BY DEF Made
<1>3. /\ GoodObjects(obj', made) /\ Kept(obj, obj') /\ Len(obj') = Len(obj) + 1 /\ obj'[Len(obj) + 1] = b
      /\ \A k \in DOMAIN obj : obj'[k] = obj[k]
      /\ GoodValue([type |-> b.type, v |-> Len(obj) + 1], obj')
  BY <1>1, <1>2, ObjectAdded
<1>4. GoodTodo(todo', obj')
  BY <1>3, TodoGood DEF Made
<1>5. GoodWait(wait', obj', types)
  BY <1>3, WaitKept
<1> QED BY <1>3, <1>4, <1>5 DEF Keeping

(* A block of one extent.                                                  *)
LEMMA OneExtent ==
  ASSUME NEW t \in Nat, NEW d \in Dims, NEW s \in Seq(Slots), NEW g \in Nat
  PROVE  LET b == Block(t, d, <<s>>, g)
         IN  /\ b \in Blocks /\ b.type = t /\ b.dims = d /\ b.grow = g /\ b.ext[1] = s /\ Len(b.ext) = 1
             /\ DOMAIN b.ext = {1}
             /\ \A i \in DOMAIN s : <<1, i>> \in Places(b)
             /\ \A p \in Places(b) : p = <<1, p[2]>> /\ p[2] \in DOMAIN s /\ At(b, p) = s[p[2]]
<1> DEFINE b == Block(t, d, <<s>>, g)
<1>1. /\ <<s>> \in Seq(Seq(Slots)) /\ Len(<<s>>) = 1 /\ <<s>>[1] = s /\ DOMAIN <<s>> = {1}
  OBVIOUS
<1>2. b \in Blocks /\ b.type = t /\ b.dims = d /\ b.grow = g /\ b.ext = <<s>>
  BY <1>1 DEF Block, Blocks, Dims, Slots
<1> HIDE DEF b
<1>3. \A i \in DOMAIN s : <<1, i>> \in Places(b)
  BY <1>1, <1>2, PlacesAre
<1>4. ASSUME NEW p \in Places(b) PROVE p = <<1, p[2]>> /\ p[2] \in DOMAIN s /\ At(b, p) = s[p[2]]
  <2>1. p = <<p[1], p[2]>> /\ p[1] \in DOMAIN b.ext /\ p[2] \in DOMAIN b.ext[p[1]]
    BY PlacesAre
  <2>2. p[1] = 1
    BY <1>1, <1>2, <2>1
  <2> QED BY <1>1, <1>2, <2>1, <2>2 DEF At
<1> QED BY <1>1, <1>2, <1>3, <1>4 DEF b

LEMMA SeqType ==
  ASSUME NEW X, NEW Y, NEW s \in Seq(X), \A i \in 1 .. Len(s) : s[i] \in Y
  PROVE  s \in Seq(Y)
OBVIOUS

(* An array, or an object, of good values.                                 *)
LEMMA ArrayGood ==
  ASSUME NEW t \in Nat, NEW d \in Dims, NEW s \in Seq(Slots), NEW o, NEW m,
         \A i \in DOMAIN s : GoodValue(s[i].v, o) /\ (s[i].key = Free \/ GoodValue(s[i].key, o)),
         \/ t = A /\ d # <<>> /\ Len(s) = Elements(d)
         \/ t >= DATSTA /\ t - DATSTA + 1 \in DOMAIN m /\ Len(s) = Len(m[t - DATSTA + 1])
  PROVE  GoodBlock(Block(t, d, <<s>>, 0), o, m)
<1> DEFINE b == Block(t, d, <<s>>, 0)
<1>1. /\ b \in Blocks /\ b.type = t /\ b.dims = d /\ b.ext[1] = s /\ Len(b.ext) = 1
      /\ \A p \in Places(b) : p = <<1, p[2]>> /\ p[2] \in DOMAIN s /\ At(b, p) = s[p[2]]
  BY OneExtent
<1> HIDE DEF b
<1>2. t # T /\ (t = A => ~(t >= DATSTA))
  BY Codes
<1>3. \A p \in Places(b) : /\ GoodValue(At(b, p).v, o)
                           /\ At(b, p).key = Free \/ GoodValue(At(b, p).key, o)
  BY <1>1
<1>4. GoodBlock(b, o, m)
  BY <1>1, <1>2, <1>3, Codes DEF GoodBlock, IsTable, IsData, FieldsOfType
<1> QED BY <1>4 DEF b

LEMMA ArrayKeeps == ASSUME IInv, ARRAY PROVE Keeping /\ Kept(obj, obj')
<1>0. UNCHANGED defs
  BY DEF ARRAY
<1>1. CASE FAIL /\ UNCHANGED obj
  BY <1>0, <1>1, FailKeeps, WithinKeeping, KeptSame
<1>2. ASSUME NEW dims \in Protos, NEW v \in Operands, dims # <<>>, \A d \in ToSet(dims) : ~(d.n < 0),
             Made(Block(A, dims, <<Filled(dims, v)>>, 0), By("ARRAY")), UNCHANGED wait
      PROVE  Keeping /\ Kept(obj, obj')
  <2>1. dims \in Dims
    <3>1. dims \in Seq([low : Int, n : Int])
      BY SizesAssumption
    <3>2. \A i \in 1 .. Len(dims) : dims[i] \in ToSet(dims)
      BY <3>1 DEF ToSet
    <3>3. \A i \in 1 .. Len(dims) : dims[i] \in [low : Int, n : Nat]
      <4> SUFFICES ASSUME NEW i \in 1 .. Len(dims) PROVE dims[i] \in [low : Int, n : Nat]
        OBVIOUS
      <4>1. i \in DOMAIN dims
        BY <3>1
      <4>3. dims[i] \in [low : Int, n : Int]
        BY <3>1, <4>1, ElementsOf
      <4>2. ~(dims[i].n < 0)
        BY <1>2, <3>2
      <4> QED BY <4>2, <4>3
    <3> QED BY <3>1, <3>3, SeqType DEF Dims
  <2>2. Elements(dims) \in Nat
    BY <2>1, ElementsFew
  <2>3. GoodValue(v, obj) /\ v \in Values
    BY OperandsGood, GoodNotFree
  <2>4. Slot(Free, v) \in Slots
    BY <2>3, KnownValues DEF Slot, Slots
  <2>5. /\ Filled(dims, v) \in Seq(Slots) /\ Len(Filled(dims, v)) = Elements(dims)
        /\ DOMAIN Filled(dims, v) = 1 .. Elements(dims)
        /\ \A i \in 1 .. Elements(dims) : Filled(dims, v)[i] = Slot(Free, v)
    <3> DEFINE n == Elements(dims)
    <3>1. Filled(dims, v) = [i \in 1 .. n |-> Slot(Free, v)]
      BY DEF Filled
    <3> HIDE DEF n
    <3>2. n \in Nat
      BY <2>2 DEF n
    <3>3. /\ Filled(dims, v) \in Seq(Slots) /\ Len(Filled(dims, v)) = n
          /\ DOMAIN Filled(dims, v) = 1 .. n
          /\ \A i \in 1 .. n : Filled(dims, v)[i] = Slot(Free, v)
      BY <2>4, <3>1, <3>2, SameSlots
    <3> QED BY <3>3 DEF n
  <2>6. \A i \in DOMAIN Filled(dims, v) : /\ GoodValue(Filled(dims, v)[i].v, obj)
                                          /\ Filled(dims, v)[i].key = Free
    BY <2>3, <2>5 DEF Slot
  <2>7. GoodBlock(Block(A, dims, <<Filled(dims, v)>>, 0), obj, made)
    <3>1. A \in Nat
      BY Codes
    <3> QED BY <1>2, <2>1, <2>5, <2>6, <3>1, ArrayGood
  <2> QED BY <1>0, <1>2, <2>7, BlocksGood, MadeKeeps
<1> QED BY <1>1, <1>2 DEF ARRAY

LEMMA CopyKeeps == ASSUME IInv, COPY PROVE Keeping /\ Kept(obj, obj')
<1>0. UNCHANGED defs
  BY DEF COPY
<1>1. CASE FAIL /\ UNCHANGED obj
  BY <1>0, <1>1, FailKeeps, WithinKeeping, KeptSame
<1>2. ASSUME NEW k \in Objects, Made(obj[k], By("COPY")), UNCHANGED wait
      PROVE  Keeping /\ Kept(obj, obj')
  BY <1>0, <1>2, BlocksGood, MadeKeeps
<1> QED BY <1>1, <1>2 DEF COPY

-----------------------------------------------------------------------------
(* The members of a finite set in their order.  B holds the pairs of a     *)
(* member and a later one.                                                 *)
Below(P, B, x) == {y \in P : y = x \/ <<y, x>> \in B}

LEMMA RankIs ==
  ASSUME NEW P, IsFiniteSet(P), NEW B,
         \A p \in P : <<p, p>> \notin B,
         \A p, q \in P : p = q \/ <<p, q>> \in B \/ <<q, p>> \in B,
         \A p, q, r \in P : <<p, q>> \in B /\ <<q, r>> \in B => <<p, r>> \in B
  PROVE  /\ \A x \in P : Cardinality(Below(P, B, x)) \in 1 .. Cardinality(P)
         /\ \A n \in 1 .. Cardinality(P) : \E x \in P : Cardinality(Below(P, B, x)) = n
         /\ \A p, q \in P : <<p, q>> \in B => Cardinality(Below(P, B, p)) < Cardinality(Below(P, B, q))
<1> DEFINE n == Cardinality(P)
           rank == [x \in P |-> Cardinality(Below(P, B, x))]
<1>1. n \in Nat
  BY FS_CardinalityType
<1>2. ASSUME NEW x \in P
      PROVE  /\ IsFiniteSet(Below(P, B, x)) /\ x \in Below(P, B, x)
             /\ Cardinality(Below(P, B, x)) \in 1 .. n
  <2>1. Below(P, B, x) \in SUBSET P /\ x \in Below(P, B, x)
    BY DEF Below
  <2>2. IsFiniteSet(Below(P, B, x)) /\ Cardinality(Below(P, B, x)) <= n
    BY <2>1, FS_Subset
  <2>3. Cardinality(Below(P, B, x)) \in Nat
    BY <2>2, FS_CardinalityType
  <2>4. Cardinality(Below(P, B, x)) # 0
    BY <2>1, <2>2, FS_EmptySet
  <2> QED BY <1>1, <2>1, <2>2, <2>3, <2>4
<1>3. ASSUME NEW p \in P, NEW q \in P, <<p, q>> \in B
      PROVE  Cardinality(Below(P, B, p)) < Cardinality(Below(P, B, q))
  <2>1. Below(P, B, p) \in SUBSET Below(P, B, q)
    BY <1>3 DEF Below
  <2>2. q \notin Below(P, B, p)
    <3> SUFFICES ASSUME q \in Below(P, B, p) PROVE FALSE
      OBVIOUS
    <3>1. q = p \/ <<q, p>> \in B
      BY DEF Below
    <3> QED BY <1>3, <3>1
  <2>3. Below(P, B, p) # Below(P, B, q)
    BY <1>2, <2>2
  <2>4. /\ Cardinality(Below(P, B, p)) <= Cardinality(Below(P, B, q))
        /\ Cardinality(Below(P, B, p)) # Cardinality(Below(P, B, q))
    BY <1>2, <2>1, <2>3, FS_Subset
  <2>5. Cardinality(Below(P, B, p)) \in Nat /\ Cardinality(Below(P, B, q)) \in Nat
    BY <1>2, FS_CardinalityType
  <2> QED BY <2>4, <2>5
<1>4. rank \in [P -> 1 .. n] /\ \A x \in P : rank[x] = Cardinality(Below(P, B, x))
  BY <1>2
<1>5. \A p, q \in P : rank[p] = rank[q] => p = q
  <2> SUFFICES ASSUME NEW p \in P, NEW q \in P, p # q PROVE rank[p] # rank[q]
    OBVIOUS
  <2>1. rank[p] < rank[q] \/ rank[q] < rank[p]
    BY <1>3, <1>4
  <2>2. rank[p] \in Nat /\ rank[q] \in Nat
    BY <1>4
  <2> QED BY <2>1, <2>2
<1> HIDE DEF rank
<1>6. rank \in Injection(P, 1 .. n)
  BY <1>4, <1>5 DEF Injection, IsInjective
<1>7. IsFiniteSet(1 .. n) /\ Cardinality(1 .. n) = n
  <2>1. IsFiniteSet(1 .. n) /\ Cardinality(1 .. n) = IF 1 > n THEN 0 ELSE n - 1 + 1
    <3>1. 1 \in Int /\ n \in Int
      BY <1>1
    <3> HIDE DEF n
    <3> QED BY <3>1, FS_Interval
  <2> QED BY <1>1, <2>1
<1>8. rank \in Surjection(P, 1 .. n)
  BY <1>6, <1>7, FS_Injection
<1>9. \A k \in 1 .. n : \E x \in P : rank[x] = k
  BY <1>8 DEF Surjection
<1> QED BY <1>2, <1>3, <1>4, <1>9

(* s holds the members of P in this order.                                 *)
InRank(s, P, B) ==
  /\ s \in Seq(P) /\ Len(s) = Cardinality(P) /\ Cardinality(P) \in Nat /\ DOMAIN s = 1 .. Len(s)
  /\ \A x \in P : \E i \in DOMAIN s : s[i] = x
  /\ \A i, j \in DOMAIN s : i < j => <<s[i], s[j]>> \in B
  /\ \A i, j \in DOMAIN s : s[i] = s[j] => i = j

LEMMA RankedIs ==
  ASSUME NEW P, IsFiniteSet(P), NEW B,
         \A p \in P : <<p, p>> \notin B,
         \A p, q \in P : p = q \/ <<p, q>> \in B \/ <<q, p>> \in B,
         \A p, q, r \in P : <<p, q>> \in B /\ <<q, r>> \in B => <<p, r>> \in B,
         NEW s \in [1 .. Cardinality(P) -> P],
         \A k \in 1 .. Cardinality(P) : Cardinality(Below(P, B, s[k])) = k
  PROVE  InRank(s, P, B)
<1> DEFINE n == Cardinality(P)
<1>1. n \in Nat
  BY FS_CardinalityType
<1>2. /\ \A x \in P : Cardinality(Below(P, B, x)) \in 1 .. n
      /\ \A k \in 1 .. n : \E x \in P : Cardinality(Below(P, B, x)) = k
      /\ \A p, q \in P : <<p, q>> \in B => Cardinality(Below(P, B, p)) < Cardinality(Below(P, B, q))
  BY RankIs
<1>3. \A k \in 1 .. n : s[k] \in P /\ Cardinality(Below(P, B, s[k])) = k
  OBVIOUS
<1>4. s \in [1 .. n -> P]
  OBVIOUS
<1> HIDE DEF n
<1>6. s \in Seq(P) /\ Len(s) = n /\ DOMAIN s = 1 .. n
  BY <1>1, <1>4, LenProperties, IsASeq
<1>7. ASSUME NEW x \in P PROVE \E i \in 1 .. n : s[i] = x
  <2> DEFINE k == Cardinality(Below(P, B, x))
  <2>1. k \in 1 .. n /\ s[k] \in P /\ Cardinality(Below(P, B, s[k])) = k
    BY <1>2, <1>3
  <2>2. x = s[k] \/ <<x, s[k]>> \in B \/ <<s[k], x>> \in B
    BY <2>1
  <2>3. ~(k < k)
    BY <1>1, <2>1
  <2>4. x = s[k]
    BY <1>2, <2>1, <2>2, <2>3
  <2> QED BY <2>1, <2>4
<1>8. ASSUME NEW i \in 1 .. n, NEW j \in 1 .. n, i < j PROVE <<s[i], s[j]>> \in B
  <2>1. s[i] = s[j] \/ <<s[i], s[j]>> \in B \/ <<s[j], s[i]>> \in B
    BY <1>3
  <2>2. s[i] # s[j] /\ ~(j < i)
    BY <1>1, <1>3, <1>8
  <2> QED BY <1>2, <1>3, <2>1, <2>2
<1>9. \A i, j \in 1 .. n : s[i] = s[j] => i = j
  BY <1>3
<1>10. InRank(s, P, B)
  BY <1>1, <1>6, <1>7, <1>8, <1>9 DEF InRank, n
<1> QED BY <1>10

LEMMA OrderedPlaces ==
  ASSUME NEW P \in SUBSET (Nat \X Nat), IsFiniteSet(P)
  PROVE  LET s == Ordered(P)
         IN  /\ s \in Seq(P) /\ Len(s) = Cardinality(P) /\ Cardinality(P) \in Nat /\ DOMAIN s = 1 .. Len(s)
             /\ \A x \in P : \E i \in DOMAIN s : s[i] = x
             /\ \A i, j \in DOMAIN s : i < j => Earlier(s[i], s[j])
             /\ \A i, j \in DOMAIN s : s[i] = s[j] => i = j
<1> DEFINE B == {z \in P \X P : Earlier(z[1], z[2])}
<1>1. \A p, q \in P : <<p, q>> \in B <=> Earlier(p, q)
  OBVIOUS
<1> HIDE DEF B
<1>2. /\ \A p \in P : <<p, p>> \notin B
      /\ \A p, q \in P : p = q \/ <<p, q>> \in B \/ <<q, p>> \in B
      /\ \A p, q, r \in P : <<p, q>> \in B /\ <<q, r>> \in B => <<p, r>> \in B
  BY <1>1, OrderOfPlaces
<1> DEFINE s == Ordered(P)
<1>3. \A x \in P : Below(P, B, x) = {y \in P : y = x \/ Earlier(y, x)}
  BY <1>1 DEF Below
<1>4. \A k \in 1 .. Cardinality(P) : \E x \in P : Cardinality({y \in P : y = x \/ Earlier(y, x)}) = k
  <2>1. \A k \in 1 .. Cardinality(P) : \E x \in P : Cardinality(Below(P, B, x)) = k
    BY <1>2, RankIs
  <2> QED BY <1>3, <2>1
<1>5. \A k \in 1 .. Cardinality(P) : s[k] \in P /\ Cardinality({y \in P : y = s[k] \/ Earlier(y, s[k])}) = k
  BY <1>4 DEF Ordered
<1>6. s \in [1 .. Cardinality(P) -> P] /\ \A k \in 1 .. Cardinality(P) : Cardinality(Below(P, B, s[k])) = k
  <2> DEFINE c(k) == CHOOSE x \in P : Cardinality({y \in P : y = x \/ Earlier(y, x)}) = k
  <2>1. s = [k \in 1 .. Cardinality(P) |-> s[k]]
    <3>1. s = [k \in 1 .. Cardinality(P) |-> c(k)]
      BY DEF Ordered
    <3> HIDE DEF c, s
    <3> QED BY <3>1
  <2> HIDE DEF s
  <2> QED BY <1>3, <1>5, <2>1
<1> HIDE DEF s
<1>7. InRank(s, P, B)
  BY <1>2, <1>6, RankedIs
<1>8. \A i \in DOMAIN s : s[i] \in P
  BY <1>7 DEF InRank
<1> QED BY <1>1, <1>7, <1>8 DEF InRank, s

-----------------------------------------------------------------------------
(* The entries of a table.                                                 *)
(* A function that is defined as this loop is has the values of the loop.  *)
Repeats(after, Dom, base, n, step) ==
  /\ after[0] = base
  /\ \A k \in 1 .. n : after[k - 1] \in Dom => after[k] = step[k][after[k - 1]]

LEMMA LoopSame ==
  ASSUME NEW Dom, NEW base, NEW n \in Nat, NEW step, NEW f, NEW after,
         Iterates(f, Dom, base, n, step), Repeats(after, Dom, base, n, step)
  PROVE  after[n] = f[n]
<1> DEFINE X == {k \in 0 .. n : after[k] = f[k]}
<1>1. 0 \in X
  BY DEF Iterates, Repeats
<1>2. ASSUME NEW k \in 1 .. n, k - 1 \in X PROVE k \in X
  <2>1. k - 1 \in 0 .. n /\ k \in 0 .. n
    OBVIOUS
  <2>2. after[k - 1] = f[k - 1] /\ f[k - 1] \in Dom
    BY <1>2, <2>1 DEF Iterates
  <2>3. after[k] = step[k][f[k - 1]] /\ f[k] = step[k][f[k - 1]]
    BY <2>2 DEF Iterates, Repeats
  <2> QED BY <2>1, <2>3
<1> HIDE DEF X
<1>3. n \in X
  BY <1>1, <1>2, Counting
<1> QED BY <1>3 DEF X

(* s holds each member of P once.                                          *)
Lists(s, P) ==
  /\ s \in Seq(P) /\ Len(s) \in Nat /\ DOMAIN s = 1 .. Len(s)
  /\ \A x \in P : \E i \in DOMAIN s : s[i] = x
  /\ \A i, j \in DOMAIN s : s[i] = s[j] => i = j

LEMMA ListsNone == Lists(<<>>, {})
BY DEF Lists

LEMMA ListsCount ==
  ASSUME NEW s, NEW P, Lists(s, P)
  PROVE  IsFiniteSet(P) /\ Cardinality(P) = Len(s)
<1>1. /\ s \in Seq(P) /\ Len(s) \in Nat /\ DOMAIN s = 1 .. Len(s)
      /\ \A x \in P : \E i \in DOMAIN s : s[i] = x
      /\ \A i, j \in DOMAIN s : s[i] = s[j] => i = j
  BY DEF Lists
<1> DEFINE n == Len(s)
           D == 1 .. n
<1>2. IsFiniteSet(D) /\ Cardinality(D) = n
  <2>1. IsFiniteSet(1 .. n) /\ Cardinality(1 .. n) = IF 1 > n THEN 0 ELSE n - 1 + 1
    BY <1>1, FS_Interval
  <2> QED BY <1>1, <2>1
<1>3. s \in [D -> P]
  BY <1>1, LenProperties
<1> HIDE DEF D
<1>4. DOMAIN s = D
  BY <1>3
<1>5. s \in Injection(D, P) /\ s \in Surjection(D, P)
  BY <1>1, <1>3, <1>4 DEF Injection, Surjection, IsInjective
<1> HIDE DEF n
<1>6. IsFiniteSet(P) /\ Cardinality(P) = Cardinality(D)
  BY <1>2, <1>5, FS_Surjection
<1> QED BY <1>2, <1>6 DEF n

LEMMA Joined ==
  ASSUME NEW s, NEW t, NEW P, NEW Q, Lists(s, P), Lists(t, Q), P \cap Q = {}
  PROVE  Lists(s \o t, P \cup Q)
<1> DEFINE R0 == P \cup Q
           m == Len(s)
           n == Len(t)
           u == s \o t
<1>1. /\ s \in Seq(P) /\ m \in Nat /\ DOMAIN s = 1 .. m
      /\ \A x \in P : \E i \in DOMAIN s : s[i] = x
      /\ \A i, j \in DOMAIN s : s[i] = s[j] => i = j
  BY DEF Lists
<1>2. /\ t \in Seq(Q) /\ n \in Nat /\ DOMAIN t = 1 .. n
      /\ \A x \in Q : \E i \in DOMAIN t : t[i] = x
      /\ \A i, j \in DOMAIN t : t[i] = t[j] => i = j
  BY DEF Lists
<1>3. /\ \A i \in 1 .. m : s[i] \in P
      /\ \A i \in 1 .. n : t[i] \in Q
  BY <1>1, <1>2, ElementsOf
<1>4. s \in Seq(R0) /\ t \in Seq(R0)
  <2>1. P \subseteq R0 /\ Q \subseteq R0
    OBVIOUS
  <2> HIDE DEF R0
  <2> QED BY <1>1, <1>2, <2>1, SeqMonotonic
<1> HIDE DEF R0
<1>5. /\ u \in Seq(R0) /\ Len(u) = m + n
      /\ \A i \in 1 .. m + n : u[i] = IF i <= m THEN s[i] ELSE t[i - m]
  BY <1>4, ConcatProperties
<1> HIDE DEF m, n, u
<1>6. DOMAIN u = 1 .. m + n /\ Len(u) \in Nat
  <2>1. DOMAIN u = 1 .. Len(u)
    BY <1>5, LenProperties
  <2> QED BY <1>1, <1>2, <1>5, <2>1
<1>7. /\ \A i \in 1 .. m : i \in 1 .. m + n /\ u[i] = s[i]
      /\ \A i \in 1 .. n : m + i \in 1 .. m + n /\ u[m + i] = t[i]
  <2>1. ASSUME NEW i \in 1 .. m PROVE i \in 1 .. m + n /\ u[i] = s[i]
    <3>1. i \in 1 .. m + n /\ i <= m
      BY <1>1, <1>2
    <3> QED BY <1>5, <3>1
  <2>2. ASSUME NEW i \in 1 .. n PROVE m + i \in 1 .. m + n /\ u[m + i] = t[i]
    <3>1. m + i \in 1 .. m + n /\ ~ m + i <= m /\ (m + i) - m = i
      BY <1>1, <1>2
    <3>2. u[m + i] = t[(m + i) - m]
      BY <1>5, <3>1
    <3> QED BY <3>1, <3>2
  <2> QED BY <2>1, <2>2
<1>8. ASSUME NEW x \in R0 PROVE \E i \in DOMAIN u : u[i] = x
  <2>1. CASE x \in P
    BY <1>1, <1>6, <1>7, <2>1
  <2>2. CASE x \in Q
    BY <1>2, <1>6, <1>7, <2>2
  <2> QED BY <2>1, <2>2 DEF R0
<1>9. ASSUME NEW i \in 1 .. m + n, NEW j \in 1 .. m + n, u[i] = u[j] PROVE i = j
  <2>1. ASSUME NEW k \in 1 .. m + n PROVE k \in 1 .. m \/ (k - m \in 1 .. n /\ u[k] = t[k - m] /\ k > m)
    BY <1>1, <1>2, <1>5
  <2>2. ASSUME NEW k \in 1 .. m, NEW l \in 1 .. n PROVE s[k] # t[l]
    BY <1>3
  <2>3. CASE i \in 1 .. m /\ j \in 1 .. m
    BY <1>1, <1>7, <1>9, <2>3
  <2>4. CASE i \in 1 .. m /\ ~ j \in 1 .. m
    <3>1. j - m \in 1 .. n /\ u[j] = t[j - m] /\ u[i] = s[i]
      BY <1>7, <2>1, <2>4
    <3> QED BY <1>9, <2>2, <2>4, <3>1
  <2>5. CASE ~ i \in 1 .. m /\ j \in 1 .. m
    <3>1. i - m \in 1 .. n /\ u[i] = t[i - m] /\ u[j] = s[j]
      BY <1>7, <2>1, <2>5
    <3> QED BY <1>9, <2>2, <2>5, <3>1
  <2>6. CASE ~ i \in 1 .. m /\ ~ j \in 1 .. m
    <3>1. i - m \in 1 .. n /\ j - m \in 1 .. n /\ t[i - m] = t[j - m]
      BY <1>9, <2>1, <2>6
    <3>2. i - m = j - m
      BY <1>2, <3>1
    <3> QED BY <1>1, <3>2
  <2> QED BY <2>3, <2>4, <2>5, <2>6
<1> QED BY <1>5, <1>6, <1>8, <1>9 DEF Lists, R0, u

LEMMA Appended ==
  ASSUME NEW s, NEW P, Lists(s, P), NEW x, x \notin P
  PROVE  Lists(Append(s, x), P \cup {x})
<1>1. Lists(<<x>>, {x})
  <2>1. <<x>> \in Seq({x}) /\ Len(<<x>>) = 1 /\ DOMAIN <<x>> = 1 .. 1 /\ <<x>>[1] = x
    OBVIOUS
  <2> QED BY <2>1 DEF Lists
<1>2. Lists(s \o <<x>>, P \cup {x})
  BY <1>1, Joined
<1>3. Append(s, x) = s \o <<x>>
  <2> DEFINE R0 == P \cup {x}
  <2>1. s \in Seq(R0) /\ x \in R0
    <3>1. s \in Seq(P) /\ P \subseteq R0
      BY DEF Lists
    <3> HIDE DEF R0
    <3> QED BY <3>1, SeqMonotonic DEF R0
  <2> HIDE DEF R0
  <2> QED BY <2>1, AppendIsConcat
<1> QED BY <1>2, <1>3

(* The slots of extent e that are not null: those up to i, and the last i. *)
SlotsIn(b, e) == {p \in NotNull(b) : p[1] = e}
SlotsTo(b, e, i) == {p \in NotNull(b) : p[1] = e /\ p[2] <= i}
SlotsFrom(b, e, i) == {p \in NotNull(b) : p[1] = e /\ p[2] > Len(b.ext[e]) - i}

SlotsOneByOne(b, e, N) ==
  /\ N \in Nat
  /\ SlotsTo(b, e, 0) = {} /\ SlotsFrom(b, e, 0) = {}
  /\ SlotsTo(b, e, N) = SlotsIn(b, e) /\ SlotsFrom(b, e, N) = SlotsIn(b, e)
  /\ \A i \in 1 .. N :
       /\ <<e, i>> \in Nat \X Nat
       /\ At(b, <<e, i>>) = b.ext[e][i]
       /\ SlotsTo(b, e, i) = IF b.ext[e][i].v = Null THEN SlotsTo(b, e, i - 1)
                             ELSE SlotsTo(b, e, i - 1) \cup {<<e, i>>}
       /\ <<e, i>> \notin SlotsTo(b, e, i - 1)
       /\ SlotsFrom(b, e, i) = IF b.ext[e][N + 1 - i].v = Null THEN SlotsFrom(b, e, i - 1)
                               ELSE SlotsFrom(b, e, i - 1) \cup {<<e, N + 1 - i>>}
       /\ <<e, N + 1 - i>> \notin SlotsFrom(b, e, i - 1)

LEMMA SlotsAre ==
  ASSUME NEW o, NEW m, NEW b, GoodBlock(b, o, m), NEW e \in 1 .. Len(b.ext)
  PROVE  SlotsOneByOne(b, e, Len(b.ext[e]))
<1> DEFINE N == Len(b.ext[e])
<1>1. b.ext \in Seq(Seq(Slots)) /\ DOMAIN b.ext = 1 .. Len(b.ext)
  <2>1. b.ext \in Seq(Seq(Slots))
    BY BlockFacts DEF Slots
  <2> QED BY <2>1
<1>2. N \in Nat /\ DOMAIN b.ext[e] = 1 .. N
  <2>1. b.ext[e] \in Seq(Slots)
    BY <1>1, ElementsOf
  <2> QED BY <2>1
<1>3. ASSUME NEW p, p[1] = e
      PROVE  p \in NotNull(b) <=> \E i \in 1 .. N : p = <<e, i>> /\ b.ext[e][i].v # Null
  <2>1. ASSUME p \in NotNull(b) PROVE \E i \in 1 .. N : p = <<e, i>> /\ b.ext[e][i].v # Null
    <3>1. p \in Places(b) /\ At(b, p).v # Null
      BY <2>1 DEF NotNull
    <3>2. p = <<p[1], p[2]>> /\ p[2] \in DOMAIN b.ext[p[1]]
      BY <3>1, PlacesAre
    <3> QED BY <1>2, <1>3, <3>1, <3>2 DEF At
  <2>2. ASSUME NEW i \in 1 .. N, p = <<e, i>>, b.ext[e][i].v # Null PROVE p \in NotNull(b)
    <3>1. p \in Places(b)
      BY <1>1, <1>2, <2>2, PlacesAre
    <3>2. At(b, p) = b.ext[e][i]
      BY <2>2 DEF At
    <3> QED BY <2>2, <3>1, <3>2 DEF NotNull
  <2> QED BY <2>1, <2>2
<1>4. e \in Nat
  OBVIOUS
<1> HIDE DEF N
<1>5. ASSUME NEW i \in 0 .. N
      PROVE  /\ SlotsTo(b, e, i) = {<<e, j>> : j \in {k \in 1 .. N : k <= i /\ b.ext[e][k].v # Null}}
             /\ SlotsFrom(b, e, i) = {<<e, j>> : j \in {k \in 1 .. N : k > N - i /\ b.ext[e][k].v # Null}}
  <2> DEFINE Q == {k \in 1 .. N : k <= i /\ b.ext[e][k].v # Null}
             U == {k \in 1 .. N : k > N - i /\ b.ext[e][k].v # Null}
  <2>0. \A k : <<e, k>>[1] = e /\ <<e, k>>[2] = k
    OBVIOUS
  <2>1. \A p : p \in SlotsTo(b, e, i) <=> \E j \in Q : p = <<e, j>>
    BY <1>3, <2>0 DEF SlotsTo
  <2>2. \A p : p \in SlotsFrom(b, e, i) <=> \E j \in U : p = <<e, j>>
    BY <1>3, <2>0 DEF SlotsFrom, N
  <2> QED BY <2>1, <2>2
<1>6. SlotsTo(b, e, 0) = {} /\ SlotsFrom(b, e, 0) = {}
  BY <1>2, <1>5
<1>7. SlotsTo(b, e, N) = SlotsIn(b, e) /\ SlotsFrom(b, e, N) = SlotsIn(b, e)
  <2>1. \A p \in SlotsIn(b, e) : p[2] \in 1 .. N
    BY <1>3 DEF SlotsIn
  <2>2. \A k \in 1 .. N : k <= N /\ k > N - N
    BY <1>2
  <2> QED BY <2>1, <2>2 DEF SlotsIn, SlotsTo, SlotsFrom, N
<1>8. ASSUME NEW i \in 1 .. N
      PROVE  /\ <<e, i>> \in Nat \X Nat
             /\ At(b, <<e, i>>) = b.ext[e][i]
             /\ SlotsTo(b, e, i) = IF b.ext[e][i].v = Null THEN SlotsTo(b, e, i - 1)
                                   ELSE SlotsTo(b, e, i - 1) \cup {<<e, i>>}
             /\ <<e, i>> \notin SlotsTo(b, e, i - 1)
             /\ SlotsFrom(b, e, i) = IF b.ext[e][N + 1 - i].v = Null THEN SlotsFrom(b, e, i - 1)
                                     ELSE SlotsFrom(b, e, i - 1) \cup {<<e, N + 1 - i>>}
             /\ <<e, N + 1 - i>> \notin SlotsFrom(b, e, i - 1)
  <2> DEFINE l == N + 1 - i
             Q(h) == {k \in 1 .. N : k <= h /\ b.ext[e][k].v # Null}
             U(h) == {k \in 1 .. N : k > N - h /\ b.ext[e][k].v # Null}
  <2>1. i \in 0 .. N /\ i - 1 \in 0 .. N /\ l \in 1 .. N /\ i \in Nat
    BY <1>2
  <2>2. /\ Q(i) = IF b.ext[e][i].v = Null THEN Q(i - 1) ELSE Q(i - 1) \cup {i}
        /\ i \notin Q(i - 1)
    BY <1>2
  <2>3. /\ U(i) = IF b.ext[e][l].v = Null THEN U(i - 1) ELSE U(i - 1) \cup {l}
        /\ l \notin U(i - 1)
    <3>1. \A k \in 1 .. N : k > N - i <=> k > N - (i - 1) \/ k = l
      BY <1>2
    <3>2. ~ l > N - (i - 1)
      BY <1>2
    <3> HIDE DEF l
    <3> QED BY <2>1, <3>1, <3>2
  <2>4. /\ SlotsTo(b, e, i) = {<<e, j>> : j \in Q(i)} /\ SlotsTo(b, e, i - 1) = {<<e, j>> : j \in Q(i - 1)}
        /\ SlotsFrom(b, e, i) = {<<e, j>> : j \in U(i)} /\ SlotsFrom(b, e, i - 1) = {<<e, j>> : j \in U(i - 1)}
    BY <1>5, <2>1
  <2>5. At(b, <<e, i>>) = b.ext[e][i] /\ <<e, i>> \in Nat \X Nat
    BY <1>4, <2>1 DEF At
  <2> HIDE DEF l, Q, U
  <2>6. /\ SlotsTo(b, e, i) = IF b.ext[e][i].v = Null THEN SlotsTo(b, e, i - 1)
                              ELSE SlotsTo(b, e, i - 1) \cup {<<e, i>>}
        /\ <<e, i>> \notin SlotsTo(b, e, i - 1)
    BY <2>2, <2>4
  <2>7. /\ SlotsFrom(b, e, i) = IF b.ext[e][l].v = Null THEN SlotsFrom(b, e, i - 1)
                                ELSE SlotsFrom(b, e, i - 1) \cup {<<e, l>>}
        /\ <<e, l>> \notin SlotsFrom(b, e, i - 1)
    BY <2>3, <2>4
  <2> QED BY <2>5, <2>6, <2>7 DEF l
<1>9. SlotsOneByOne(b, e, N)
  BY <1>2, <1>6, <1>7, <1>8 DEF SlotsOneByOne
<1> QED BY <1>9 DEF N

(* The loop over the slots of an extent finds those that are not null.     *)
Walking(f, b, e) ==
  /\ f \in [0 .. Len(b.ext[e]) -> Seq(Nat \X Nat)] /\ f[0] = <<>>
  /\ \A i \in 1 .. Len(b.ext[e]) :
       f[i] = IF At(b, <<e, i>>).v = Null THEN f[i - 1] ELSE Append(f[i - 1], <<e, i>>)

LEMMA WalkingSteps ==
  ASSUME NEW o, NEW m, NEW b, GoodBlock(b, o, m), NEW e \in 1 .. Len(b.ext)
  PROVE  \E f : Walking(f, b, e) /\ EntriesIn(b, e) = f[Len(b.ext[e])]
<1> DEFINE N == Len(b.ext[e])
           Dom == Seq(Nat \X Nat)
           Next1(k, s) == IF At(b, <<e, k>>).v = Null THEN s ELSE Append(s, <<e, k>>)
           step == [k \in 1 .. N |-> [s \in Dom |-> Next1(k, s)]]
           E(f) == [k \in 0 .. N |-> IF k = 0 THEN <<>> ELSE Next1(k, f[k - 1])]
           after == CHOOSE f : f = E(f)
<1>1. N \in Nat /\ \A i \in 1 .. N : <<e, i>> \in Nat \X Nat
  BY SlotsAre
<1>2. <<>> \in Dom
  BY EmptySeq
<1>3. step \in [1 .. N -> [Dom -> Dom]]
  <2>1. ASSUME NEW k \in 1 .. N, NEW s \in Dom PROVE Next1(k, s) \in Dom
    <3>1. <<e, k>> \in Nat \X Nat
      BY <1>1
    <3>2. Append(s, <<e, k>>) \in Dom
      BY <3>1, AppendProperties
    <3> QED BY <3>2
  <2> HIDE DEF Next1
  <2> QED BY <2>1
<1> HIDE DEF N, Dom, Next1
<1>4. PICK f : Iterates(f, Dom, <<>>, N, step)
  <2> DEFINE base == <<>>
  <2>1. base \in Dom
    BY <1>2
  <2>2. N \in Nat
    BY <1>1
  <2>3. step \in [1 .. N -> [Dom -> Dom]]
    BY <1>3
  <2> HIDE DEF step, base, E, after
  <2>4. \E f : Iterates(f, Dom, base, N, step)
    BY ONLY <2>1, <2>2, <2>3, Iteration
  <2> QED BY <2>4 DEF base
<1>5. /\ f \in [0 .. N -> Dom] /\ f[0] = <<>>
      /\ \A k \in 1 .. N : f[k] = Next1(k, f[k - 1])
  <2>1. \A k \in 1 .. N : f[k - 1] \in Dom /\ f[k] = step[k][f[k - 1]]
    <3>1. \A k \in 1 .. N : k - 1 \in 0 .. N
      BY <1>1
    <3> HIDE DEF step
    <3> QED BY <1>4, <3>1 DEF Iterates
  <2> QED BY <1>4, <2>1 DEF Iterates
<1>6. f = E(f)
  BY <1>1, <1>5
<1>7. after = E(after)
  BY <1>6
<1> HIDE DEF after
<1>8. after[0] = <<>> /\ \A k \in 1 .. N : after[k - 1] \in Dom => after[k] = step[k][after[k - 1]]
  <2>1. 0 \in 0 .. N /\ \A k \in 1 .. N : k \in 0 .. N /\ k # 0
    BY <1>1
  <2>2. after[0] = <<>>
    BY <1>7, <2>1
  <2>3. ASSUME NEW k \in 1 .. N, after[k - 1] \in Dom PROVE after[k] = step[k][after[k - 1]]
    <3>1. after[k] = Next1(k, after[k - 1])
      <4> HIDE DEF step
      <4> QED BY <1>7, <2>1
    <3>2. step[k][after[k - 1]] = Next1(k, after[k - 1])
      <4> HIDE DEF E
      <4> QED BY <2>3
    <3> QED BY <3>1, <3>2
  <2> HIDE DEF step, E
  <2> QED BY <2>2, <2>3
<1>9. after[N] = f[N]
  <2> DEFINE base == <<>>
  <2> HIDE DEF step, E
  <2>1. Iterates(f, Dom, base, N, step) /\ N \in Nat
    BY <1>1, <1>4
  <2>2. Repeats(after, Dom, base, N, step)
    BY <1>8 DEF Repeats
  <2> HIDE DEF base
  <2> QED BY ONLY <2>1, <2>2, LoopSame
<1>10. EntriesIn(b, e) = after[N]
  BY DEF EntriesIn, after, N, Next1
<1>11. Walking(f, b, e)
  BY <1>5 DEF Walking, N, Dom, Next1
<1> QED BY <1>9, <1>10, <1>11 DEF N

LEMMA EntriesInAre ==
  ASSUME NEW o, NEW m, NEW b, GoodBlock(b, o, m), NEW e \in 1 .. Len(b.ext)
  PROVE  EntriesIn(b, e) \in Seq(Nat \X Nat) /\ Lists(EntriesIn(b, e), SlotsIn(b, e))
<1> DEFINE N == Len(b.ext[e])
           P(i) == SlotsTo(b, e, i)
<1>1. PICK f : Walking(f, b, e) /\ EntriesIn(b, e) = f[N]
  <2>1. \E f : Walking(f, b, e) /\ EntriesIn(b, e) = f[Len(b.ext[e])]
    BY WalkingSteps
  <2> QED BY ONLY <2>1 DEF N
<1>2. /\ N \in Nat /\ P(0) = {} /\ P(N) = SlotsIn(b, e)
      /\ \A i \in 1 .. N :
           /\ At(b, <<e, i>>) = b.ext[e][i]
           /\ P(i) = IF b.ext[e][i].v = Null THEN P(i - 1) ELSE P(i - 1) \cup {<<e, i>>}
           /\ <<e, i>> \notin P(i - 1)
  <2>1. SlotsOneByOne(b, e, N)
    BY SlotsAre
  <2> HIDE DEF N
  <2> QED BY <2>1 DEF SlotsOneByOne
<1>3. /\ f \in [0 .. N -> Seq(Nat \X Nat)] /\ f[0] = <<>>
      /\ \A i \in 1 .. N : f[i] = IF At(b, <<e, i>>).v = Null THEN f[i - 1] ELSE Append(f[i - 1], <<e, i>>)
  BY <1>1 DEF Walking
<1> HIDE DEF N, P
<1> DEFINE X == {i \in 0 .. N : Lists(f[i], P(i))}
<1>4. 0 \in X
  <2>1. P(0) = {} /\ f[0] = <<>> /\ 0 \in 0 .. N
    BY <1>2, <1>3
  <2>2. Lists(f[0], P(0))
    BY ONLY <2>1, ListsNone, Zenon
  <2> QED BY <2>1, <2>2
<1>5. ASSUME NEW i \in 1 .. N, i - 1 \in X PROVE i \in X
  <2>1. Lists(f[i - 1], P(i - 1)) /\ i \in 0 .. N
    BY <1>5
  <2>2. CASE b.ext[e][i].v = Null
    <3>1. f[i] = f[i - 1] /\ P(i) = P(i - 1)
      BY <1>2, <1>3, <2>2
    <3> QED BY <2>1, <3>1
  <2>3. CASE b.ext[e][i].v # Null
    <3>1. f[i] = Append(f[i - 1], <<e, i>>) /\ P(i) = P(i - 1) \cup {<<e, i>>} /\ <<e, i>> \notin P(i - 1)
      BY <1>2, <1>3, <2>3
    <3>2. Lists(Append(f[i - 1], <<e, i>>), P(i - 1) \cup {<<e, i>>})
      <4> DEFINE x == <<e, i>>
                 s == f[i - 1]
                 Q == P(i - 1)
      <4>1. Lists(s, Q) /\ x \notin Q
        BY <2>1, <3>1
      <4> HIDE DEF x, s, Q
      <4>2. Lists(Append(s, x), Q \cup {x})
        BY ONLY <4>1, Appended
      <4> QED BY <4>2 DEF x, s, Q
    <3> QED BY <2>1, <3>1, <3>2
  <2> QED BY <2>2, <2>3
<1> HIDE DEF X
<1>6. N \in X
  BY <1>2, <1>4, <1>5, Counting
<1>7. N \in 0 .. N
  BY <1>2
<1> QED BY <1>1, <1>2, <1>3, <1>6, <1>7 DEF X

(* The loop that counts them, from the other end, finds as many.           *)
Tallying(f, ext) ==
  /\ f \in [0 .. Len(ext) -> Nat] /\ f[0] = 0
  /\ \A i \in 1 .. Len(ext) :
       f[i] = IF ext[Len(ext) + 1 - i].v = Null THEN f[i - 1] ELSE f[i - 1] + 1

LEMMA TallyingSteps ==
  ASSUME NEW ext, Len(ext) \in Nat
  PROVE  \E f : Tallying(f, ext) /\ CountedIn(ext) = f[Len(ext)]
<1> DEFINE N == Len(ext)
           Dom == Nat
           Next1(k, s) == IF ext[N + 1 - k].v = Null THEN s ELSE s + 1
           step == [k \in 1 .. N |-> [s \in Dom |-> Next1(k, s)]]
           E(f) == [k \in 0 .. N |-> IF k = 0 THEN 0 ELSE Next1(k, f[k - 1])]
           after == CHOOSE f : f = E(f)
<1>1. N \in Nat
  OBVIOUS
<1>3. step \in [1 .. N -> [Dom -> Dom]]
  <2>1. \A k \in 1 .. N, s \in Dom : Next1(k, s) \in Dom
    OBVIOUS
  <2> HIDE DEF Next1
  <2> QED BY <2>1
<1>2. 0 \in Dom
  OBVIOUS
<1> HIDE DEF N, Dom, Next1
<1>4. PICK f : Iterates(f, Dom, 0, N, step)
  <2> DEFINE base == 0
  <2>1. base \in Dom
    BY <1>2
  <2>2. N \in Nat
    BY <1>1
  <2>3. step \in [1 .. N -> [Dom -> Dom]]
    BY <1>3
  <2> HIDE DEF step, base, E, after
  <2>4. \E f : Iterates(f, Dom, base, N, step)
    BY ONLY <2>1, <2>2, <2>3, Iteration
  <2> QED BY <2>4 DEF base
<1>5. /\ f \in [0 .. N -> Dom] /\ f[0] = 0
      /\ \A k \in 1 .. N : f[k] = Next1(k, f[k - 1])
  <2>1. \A k \in 1 .. N : f[k - 1] \in Dom /\ f[k] = step[k][f[k - 1]]
    <3>1. \A k \in 1 .. N : k - 1 \in 0 .. N
      BY <1>1
    <3> HIDE DEF step
    <3> QED BY <1>4, <3>1 DEF Iterates
  <2> QED BY <1>4, <2>1 DEF Iterates
<1>6. f = E(f)
  BY <1>1, <1>5
<1>7. after = E(after)
  BY <1>6
<1> HIDE DEF after
<1>8. after[0] = 0 /\ \A k \in 1 .. N : after[k - 1] \in Dom => after[k] = step[k][after[k - 1]]
  <2>1. 0 \in 0 .. N /\ \A k \in 1 .. N : k \in 0 .. N /\ k # 0
    BY <1>1
  <2>2. after[0] = 0
    BY <1>7, <2>1
  <2>3. ASSUME NEW k \in 1 .. N, after[k - 1] \in Dom PROVE after[k] = step[k][after[k - 1]]
    <3>1. after[k] = Next1(k, after[k - 1])
      <4> HIDE DEF step
      <4> QED BY <1>7, <2>1
    <3>2. step[k][after[k - 1]] = Next1(k, after[k - 1])
      <4> HIDE DEF E
      <4> QED BY <2>3
    <3> QED BY <3>1, <3>2
  <2> HIDE DEF step, E
  <2> QED BY <2>2, <2>3
<1>9. after[N] = f[N]
  <2> DEFINE base == 0
  <2> HIDE DEF step, E
  <2>1. Iterates(f, Dom, base, N, step) /\ N \in Nat
    BY <1>1, <1>4
  <2>2. Repeats(after, Dom, base, N, step)
    BY <1>8 DEF Repeats
  <2> HIDE DEF base
  <2> QED BY ONLY <2>1, <2>2, LoopSame
<1>10. CountedIn(ext) = after[N]
  BY DEF CountedIn, after, N, Next1
<1>11. Tallying(f, ext)
  BY <1>5 DEF Tallying, N, Dom, Next1
<1> QED BY <1>9, <1>10, <1>11 DEF N

LEMMA CountedInIs ==
  ASSUME NEW o, NEW m, NEW b, GoodBlock(b, o, m), NEW e \in 1 .. Len(b.ext)
  PROVE  CountedIn(b.ext[e]) = Len(EntriesIn(b, e)) /\ CountedIn(b.ext[e]) \in Nat
<1> DEFINE ext == b.ext[e]
           N == Len(ext)
           P(i) == SlotsFrom(b, e, i)
<1>1. /\ N \in Nat /\ P(0) = {} /\ P(N) = SlotsIn(b, e)
      /\ \A i \in 1 .. N :
           /\ P(i) = IF ext[N + 1 - i].v = Null THEN P(i - 1) ELSE P(i - 1) \cup {<<e, N + 1 - i>>}
           /\ <<e, N + 1 - i>> \notin P(i - 1)
  <2>1. SlotsOneByOne(b, e, N)
    BY SlotsAre
  <2> HIDE DEF N
  <2> QED BY <2>1 DEF SlotsOneByOne
<1> HIDE DEF ext
<1>2. PICK f : Tallying(f, ext) /\ CountedIn(ext) = f[N]
  BY <1>1, TallyingSteps
<1>3. /\ f \in [0 .. N -> Nat] /\ f[0] = 0
      /\ \A i \in 1 .. N : f[i] = IF ext[N + 1 - i].v = Null THEN f[i - 1] ELSE f[i - 1] + 1
  BY <1>2 DEF Tallying
<1> HIDE DEF N, P
<1> DEFINE X == {i \in 0 .. N : IsFiniteSet(P(i)) /\ f[i] = Cardinality(P(i))}
<1>4. 0 \in X
  <2>1. IsFiniteSet({}) /\ Cardinality({}) = 0
    BY FS_EmptySet
  <2>2. P(0) = {} /\ f[0] = 0 /\ 0 \in 0 .. N
    BY <1>1, <1>3
  <2>3. IsFiniteSet(P(0)) /\ f[0] = Cardinality(P(0))
    BY ONLY <2>1, <2>2
  <2> QED BY <2>2, <2>3
<1>5. ASSUME NEW i \in 1 .. N, i - 1 \in X PROVE i \in X
  <2>1. IsFiniteSet(P(i - 1)) /\ f[i - 1] = Cardinality(P(i - 1)) /\ i \in 0 .. N
    BY <1>5
  <2>2. CASE ext[N + 1 - i].v = Null
    <3>1. f[i] = f[i - 1] /\ P(i) = P(i - 1)
      BY <1>1, <1>3, <2>2
    <3> QED BY <2>1, <3>1
  <2>3. CASE ext[N + 1 - i].v # Null
    <3> DEFINE x == <<e, N + 1 - i>>
               Q == P(i - 1)
    <3>1. f[i] = f[i - 1] + 1 /\ P(i) = Q \cup {x} /\ x \notin Q
      BY <1>1, <1>3, <2>3
    <3>2. IsFiniteSet(Q)
      BY <2>1
    <3> HIDE DEF x
    <3>3. IsFiniteSet(Q \cup {x}) /\ Cardinality(Q \cup {x}) = Cardinality(Q) + 1
      <4> HIDE DEF Q
      <4> QED BY <3>1, <3>2, FS_AddElement
    <3> HIDE DEF Q
    <3>4. f[i - 1] = Cardinality(Q)
      BY <2>1 DEF Q
    <3>5. IsFiniteSet(P(i)) /\ f[i] = Cardinality(P(i))
      BY ONLY <3>1, <3>3, <3>4
    <3> QED BY <2>1, <3>5
  <2> QED BY <2>2, <2>3
<1> HIDE DEF X
<1>6. N \in X
  <2>1. N \in Nat
    BY <1>1
  <2>2. \A i \in 1 .. N : i - 1 \in X => i \in X
    BY <1>5
  <2>3. 0 .. N \subseteq X
    BY ONLY <2>1, <2>2, <1>4, Counting
  <2>4. N \in 0 .. N
    BY <2>1
  <2> QED BY <2>3, <2>4
<1>7. f[N] = Cardinality(SlotsIn(b, e)) /\ f[N] \in Nat
  <2>1. N \in 0 .. N
    BY <1>1
  <2> QED BY <1>1, <1>3, <1>6, <2>1 DEF X
<1>8. Cardinality(SlotsIn(b, e)) = Len(EntriesIn(b, e))
  BY EntriesInAre, ListsCount
<1> QED BY <1>2, <1>7, <1>8 DEF ext

(* The loop over the extents: the entries in it.                           *)
Gathering(f, b) ==
  /\ f \in [0 .. Len(b.ext) -> Seq(Nat \X Nat)] /\ f[0] = <<>>
  /\ \A e \in 1 .. Len(b.ext) : f[e] = f[e - 1] \o EntriesIn(b, e)

LEMMA GatheringSteps ==
  ASSUME NEW o, NEW m, NEW b, GoodBlock(b, o, m)
  PROVE  \E f : Gathering(f, b) /\ EntriesOf(b) = f[Len(b.ext)]
<1> DEFINE N == Len(b.ext)
           Dom == Seq(Nat \X Nat)
           Next1(k, s) == s \o EntriesIn(b, k)
           step == [k \in 1 .. N |-> [s \in Dom |-> Next1(k, s)]]
           E(f) == [k \in 0 .. N |-> IF k = 0 THEN <<>> ELSE Next1(k, f[k - 1])]
           after == CHOOSE f : f = E(f)
<1>1. N \in Nat
  <2>1. b.ext \in Seq(Seq(Slots))
    BY BlockFacts DEF Slots
  <2> QED BY <2>1
<1>2. <<>> \in Dom
  BY EmptySeq
<1>3. step \in [1 .. N -> [Dom -> Dom]]
  <2>1. ASSUME NEW k \in 1 .. N, NEW s \in Dom PROVE Next1(k, s) \in Dom
    <3>1. EntriesIn(b, k) \in Dom
      BY EntriesInAre
    <3> HIDE DEF N
    <3>2. s \o EntriesIn(b, k) \in Dom
      BY <3>1, ConcatProperties
    <3> QED BY <3>2
  <2> HIDE DEF Next1
  <2> QED BY <2>1
<1> HIDE DEF N, Dom, Next1
<1>4. PICK f : Iterates(f, Dom, <<>>, N, step)
  <2> DEFINE base == <<>>
  <2>1. base \in Dom
    BY <1>2
  <2>2. N \in Nat
    BY <1>1
  <2>3. step \in [1 .. N -> [Dom -> Dom]]
    BY <1>3
  <2> HIDE DEF step, base, E, after
  <2>4. \E f : Iterates(f, Dom, base, N, step)
    BY ONLY <2>1, <2>2, <2>3, Iteration
  <2> QED BY <2>4 DEF base
<1>5. /\ f \in [0 .. N -> Dom] /\ f[0] = <<>>
      /\ \A k \in 1 .. N : f[k] = Next1(k, f[k - 1])
  <2>1. \A k \in 1 .. N : f[k - 1] \in Dom /\ f[k] = step[k][f[k - 1]]
    <3>1. \A k \in 1 .. N : k - 1 \in 0 .. N
      BY <1>1
    <3> HIDE DEF step
    <3> QED BY <1>4, <3>1 DEF Iterates
  <2> QED BY <1>4, <2>1 DEF Iterates
<1>6. f = E(f)
  BY <1>1, <1>5
<1>7. after = E(after)
  BY <1>6
<1> HIDE DEF after
<1>8. after[0] = <<>> /\ \A k \in 1 .. N : after[k - 1] \in Dom => after[k] = step[k][after[k - 1]]
  <2>1. 0 \in 0 .. N /\ \A k \in 1 .. N : k \in 0 .. N /\ k # 0
    BY <1>1
  <2>2. after[0] = <<>>
    BY <1>7, <2>1
  <2>3. ASSUME NEW k \in 1 .. N, after[k - 1] \in Dom PROVE after[k] = step[k][after[k - 1]]
    <3>1. after[k] = Next1(k, after[k - 1])
      <4> HIDE DEF step
      <4> QED BY <1>7, <2>1
    <3>2. step[k][after[k - 1]] = Next1(k, after[k - 1])
      <4> HIDE DEF E
      <4> QED BY <2>3
    <3> QED BY <3>1, <3>2
  <2> HIDE DEF step, E
  <2> QED BY <2>2, <2>3
<1>9. after[N] = f[N]
  <2> DEFINE base == <<>>
  <2> HIDE DEF step, E
  <2>1. Iterates(f, Dom, base, N, step) /\ N \in Nat
    BY <1>1, <1>4
  <2>2. Repeats(after, Dom, base, N, step)
    BY <1>8 DEF Repeats
  <2> HIDE DEF base
  <2> QED BY ONLY <2>1, <2>2, LoopSame
<1>10. EntriesOf(b) = after[N]
  BY DEF EntriesOf, after, N, Next1
<1>11. Gathering(f, b)
  BY <1>5 DEF Gathering, N, Dom, Next1
<1> QED BY <1>9, <1>10, <1>11 DEF N

SlotsBefore(b, e) == {p \in NotNull(b) : p[1] <= e}

LEMMA ExtentsAre ==
  ASSUME NEW o, NEW m, NEW b, GoodBlock(b, o, m)
  PROVE  /\ Len(b.ext) \in Nat
         /\ SlotsBefore(b, 0) = {} /\ SlotsBefore(b, Len(b.ext)) = NotNull(b)
         /\ \A e \in 1 .. Len(b.ext) : /\ SlotsBefore(b, e) = SlotsBefore(b, e - 1) \cup SlotsIn(b, e)
                                       /\ SlotsBefore(b, e - 1) \cap SlotsIn(b, e) = {}
<1> DEFINE N == Len(b.ext)
<1>1. N \in Nat /\ DOMAIN b.ext = 1 .. N
  <2>1. b.ext \in Seq(Seq(Slots))
    BY BlockFacts DEF Slots
  <2> QED BY <2>1
<1>2. \A p \in NotNull(b) : p[1] \in 1 .. N
  <2>1. ASSUME NEW p \in NotNull(b) PROVE p[1] \in 1 .. N
    <3>1. p \in Places(b)
      BY DEF NotNull
    <3> QED BY <1>1, <3>1, PlacesAre
  <2> QED BY <2>1
<1> HIDE DEF N
<1>3. SlotsBefore(b, 0) = {} /\ SlotsBefore(b, N) = NotNull(b)
  BY <1>1, <1>2 DEF SlotsBefore
<1>4. ASSUME NEW e \in 1 .. N
      PROVE  /\ SlotsBefore(b, e) = SlotsBefore(b, e - 1) \cup SlotsIn(b, e)
             /\ SlotsBefore(b, e - 1) \cap SlotsIn(b, e) = {}
  <2>1. \A i \in 1 .. N : /\ i <= e <=> i <= e - 1 \/ i = e
                          /\ ~ (i <= e - 1 /\ i = e)
    BY <1>1
  <2> QED BY <1>2, <2>1 DEF SlotsBefore, SlotsIn
<1> QED BY <1>1, <1>3, <1>4 DEF N

LEMMA EntriesListed ==
  ASSUME NEW o, NEW m, NEW b, GoodBlock(b, o, m)
  PROVE  Lists(EntriesOf(b), NotNull(b))
<1> DEFINE N == Len(b.ext)
           P(e) == SlotsBefore(b, e)
           L(e) == EntriesIn(b, e)
<1>1. PICK f : Gathering(f, b) /\ EntriesOf(b) = f[N]
  <2>1. \E f : Gathering(f, b) /\ EntriesOf(b) = f[Len(b.ext)]
    BY GatheringSteps
  <2> QED BY ONLY <2>1 DEF N
<1>2. /\ N \in Nat /\ P(0) = {} /\ P(N) = NotNull(b)
      /\ \A e \in 1 .. N : P(e) = P(e - 1) \cup SlotsIn(b, e) /\ P(e - 1) \cap SlotsIn(b, e) = {}
  BY ExtentsAre
<1>3. /\ f[0] = <<>>
      /\ \A e \in 1 .. N : f[e] = f[e - 1] \o L(e)
  BY <1>1 DEF Gathering
<1>4. \A e \in 1 .. N : Lists(L(e), SlotsIn(b, e))
  BY EntriesInAre
<1> HIDE DEF N, P, L
<1> DEFINE X == {e \in 0 .. N : Lists(f[e], P(e))}
<1>5. 0 \in X
  <2>1. P(0) = {} /\ f[0] = <<>> /\ 0 \in 0 .. N
    BY <1>2, <1>3
  <2>2. Lists(f[0], P(0))
    BY ONLY <2>1, ListsNone, Zenon
  <2> QED BY <2>1, <2>2
<1>6. ASSUME NEW e \in 1 .. N, e - 1 \in X PROVE e \in X
  <2> DEFINE s == f[e - 1]
             t == L(e)
             U == P(e - 1)
             V == SlotsIn(b, e)
  <2>1. Lists(s, U) /\ Lists(t, V) /\ U \cap V = {} /\ e \in 0 .. N
    BY <1>2, <1>4, <1>6
  <2>2. f[e] = s \o t /\ P(e) = U \cup V
    BY <1>2, <1>3
  <2> HIDE DEF s, t, U, V
  <2>3. Lists(s \o t, U \cup V)
    BY ONLY <2>1, Joined
  <2>4. Lists(f[e], P(e))
    BY ONLY <2>2, <2>3, Zenon
  <2> QED BY <2>1, <2>4
<1> HIDE DEF X
<1>7. N \in X
  <2>1. N \in Nat /\ N \in 0 .. N
    BY <1>2
  <2>2. 0 .. N \subseteq X
    BY ONLY <2>1, <1>5, <1>6, Counting
  <2> QED BY <2>1, <2>2
<1>8. Lists(f[N], P(N))
  BY <1>7 DEF X
<1> QED BY ONLY <1>1, <1>2, <1>8, Zenon

LEMMA EntriesAre ==
  ASSUME NEW o, NEW m, NEW b, GoodBlock(b, o, m)
  PROVE  LET s == EntriesOf(b)
         IN  /\ s \in Seq(Places(b)) /\ Len(s) \in Nat /\ DOMAIN s = 1 .. Len(s)
             /\ \A i \in DOMAIN s : s[i] \in NotNull(b) /\ s[i] \in Places(b)
             /\ \A x \in NotNull(b) : \E i \in DOMAIN s : s[i] = x
             /\ \A i, j \in DOMAIN s : s[i] = s[j] => i = j
             /\ IsTable(b) => \A i \in DOMAIN s : At(b, s[i]).key # Free
<1>1. NotNull(b) \in SUBSET Places(b)
  BY DEF NotNull
<1> DEFINE s == EntriesOf(b)
<1>4. /\ s \in Seq(NotNull(b)) /\ Len(s) \in Nat /\ DOMAIN s = 1 .. Len(s)
      /\ \A x \in NotNull(b) : \E i \in DOMAIN s : s[i] = x
      /\ \A i, j \in DOMAIN s : s[i] = s[j] => i = j
  BY EntriesListed DEF Lists
<1> HIDE DEF s
<1>5. \A i \in DOMAIN s : s[i] \in NotNull(b)
  BY <1>4, ElementsOf
<1>6. s \in Seq(Places(b))
  BY <1>1, <1>4, SeqMonotonic
<1>7. IsTable(b) => \A p \in NotNull(b) : At(b, p).key # Free
  BY DEF GoodBlock, GoodTable, NotNull
<1> QED BY <1>1, <1>4, <1>5, <1>6, <1>7 DEF s

(* They are as many as are counted.                                        *)
Summing(f, b) ==
  /\ f \in [0 .. Len(b.ext) -> Nat] /\ f[0] = 0
  /\ \A e \in 1 .. Len(b.ext) : f[e] = f[e - 1] + CountedIn(b.ext[e])

LEMMA SummingSteps ==
  ASSUME NEW o, NEW m, NEW b, GoodBlock(b, o, m)
  PROVE  \E f : Summing(f, b) /\ ICNVTA(b) = f[Len(b.ext)]
<1> DEFINE N == Len(b.ext)
           Dom == Nat
           Next1(k, s) == s + CountedIn(b.ext[k])
           step == [k \in 1 .. N |-> [s \in Dom |-> Next1(k, s)]]
           E(f) == [k \in 0 .. N |-> IF k = 0 THEN 0 ELSE Next1(k, f[k - 1])]
           after == CHOOSE f : f = E(f)
<1>1. N \in Nat
  BY ExtentsAre
<1>3. step \in [1 .. N -> [Dom -> Dom]]
  <2>1. ASSUME NEW k \in 1 .. N, NEW s \in Dom PROVE Next1(k, s) \in Dom
    <3>1. CountedIn(b.ext[k]) \in Nat
      BY CountedInIs
    <3> QED BY <3>1
  <2> HIDE DEF Next1
  <2> QED BY <2>1
<1>2. 0 \in Dom
  OBVIOUS
<1> HIDE DEF N, Dom, Next1
<1>4. PICK f : Iterates(f, Dom, 0, N, step)
  <2> DEFINE base == 0
  <2>1. base \in Dom
    BY <1>2
  <2>2. N \in Nat
    BY <1>1
  <2>3. step \in [1 .. N -> [Dom -> Dom]]
    BY <1>3
  <2> HIDE DEF step, base, E, after
  <2>4. \E f : Iterates(f, Dom, base, N, step)
    BY ONLY <2>1, <2>2, <2>3, Iteration
  <2> QED BY <2>4 DEF base
<1>5. /\ f \in [0 .. N -> Dom] /\ f[0] = 0
      /\ \A k \in 1 .. N : f[k] = Next1(k, f[k - 1])
  <2>1. \A k \in 1 .. N : f[k - 1] \in Dom /\ f[k] = step[k][f[k - 1]]
    <3>1. \A k \in 1 .. N : k - 1 \in 0 .. N
      BY <1>1
    <3> HIDE DEF step
    <3> QED BY <1>4, <3>1 DEF Iterates
  <2> QED BY <1>4, <2>1 DEF Iterates
<1>6. f = E(f)
  BY <1>1, <1>5
<1>7. after = E(after)
  BY <1>6
<1> HIDE DEF after
<1>8. after[0] = 0 /\ \A k \in 1 .. N : after[k - 1] \in Dom => after[k] = step[k][after[k - 1]]
  <2>1. 0 \in 0 .. N /\ \A k \in 1 .. N : k \in 0 .. N /\ k # 0
    BY <1>1
  <2>2. after[0] = 0
    BY <1>7, <2>1
  <2>3. ASSUME NEW k \in 1 .. N, after[k - 1] \in Dom PROVE after[k] = step[k][after[k - 1]]
    <3>1. after[k] = Next1(k, after[k - 1])
      <4> HIDE DEF step
      <4> QED BY <1>7, <2>1
    <3>2. step[k][after[k - 1]] = Next1(k, after[k - 1])
      <4> HIDE DEF E
      <4> QED BY <2>3
    <3> QED BY <3>1, <3>2
  <2> HIDE DEF step, E
  <2> QED BY <2>2, <2>3
<1>9. after[N] = f[N]
  <2> DEFINE base == 0
  <2> HIDE DEF step, E
  <2>1. Iterates(f, Dom, base, N, step) /\ N \in Nat
    BY <1>1, <1>4
  <2>2. Repeats(after, Dom, base, N, step)
    BY <1>8 DEF Repeats
  <2> HIDE DEF base
  <2> QED BY ONLY <2>1, <2>2, LoopSame
<1>10. ICNVTA(b) = after[N]
  BY DEF ICNVTA, after, N, Next1
<1>11. Summing(f, b)
  BY <1>5 DEF Summing, N, Dom, Next1
<1> QED BY <1>9, <1>10, <1>11 DEF N

LEMMA CountedAre ==
  ASSUME NEW o, NEW m, NEW b, GoodBlock(b, o, m)
  PROVE  ICNVTA(b) = Len(EntriesOf(b)) /\ ICNVTA(b) \in Nat
<1> DEFINE N == Len(b.ext)
           g(e) == Len(EntriesIn(b, e))
<1>1. PICK f : Summing(f, b) /\ ICNVTA(b) = f[N]
  <2>1. \E f : Summing(f, b) /\ ICNVTA(b) = f[Len(b.ext)]
    BY SummingSteps
  <2> QED BY ONLY <2>1 DEF N
<1>2. PICK h : Gathering(h, b) /\ EntriesOf(b) = h[N]
  <2>1. \E h : Gathering(h, b) /\ EntriesOf(b) = h[Len(b.ext)]
    BY GatheringSteps
  <2> QED BY ONLY <2>1 DEF N
<1>3. N \in Nat /\ N \in 0 .. N
  BY ExtentsAre
<1>4. \A e \in 1 .. N : CountedIn(b.ext[e]) = g(e) /\ g(e) \in Nat /\ EntriesIn(b, e) \in Seq(Nat \X Nat)
  BY CountedInIs, EntriesInAre
<1>5. f[0] = 0 /\ \A e \in 1 .. N : f[e] = f[e - 1] + g(e)
  BY <1>1, <1>4 DEF Summing
<1>6. /\ h \in [0 .. N -> Seq(Nat \X Nat)] /\ h[0] = <<>>
      /\ \A e \in 1 .. N : h[e] = h[e - 1] \o EntriesIn(b, e)
  BY <1>2 DEF Gathering
<1> HIDE DEF N
<1>7. /\ Len(h[0]) = 0
      /\ \A e \in 1 .. N : Len(h[e]) = Len(h[e - 1]) + g(e)
  <2>1. ASSUME NEW e \in 1 .. N PROVE Len(h[e]) = Len(h[e - 1]) + g(e)
    <3>1. h[e - 1] \in Seq(Nat \X Nat)
      <4>1. e - 1 \in 0 .. N
        BY <1>3
      <4> QED BY <1>6, <4>1
    <3>2. EntriesIn(b, e) \in Seq(Nat \X Nat)
      BY <1>4
    <3>3. Len(h[e - 1] \o EntriesIn(b, e)) = Len(h[e - 1]) + Len(EntriesIn(b, e))
      BY ONLY <3>1, <3>2, ConcatProperties
    <3> QED BY <1>6, <3>3
  <2> QED BY <1>6, <2>1
<1> HIDE DEF g
<1> DEFINE X == {e \in 0 .. N : f[e] = Len(h[e]) /\ f[e] \in Nat}
<1>8. 0 \in X
  BY <1>3, <1>5, <1>7
<1>9. ASSUME NEW e \in 1 .. N, e - 1 \in X PROVE e \in X
  <2>1. e \in 0 .. N /\ f[e - 1] = Len(h[e - 1]) /\ f[e - 1] \in Nat
    BY <1>9
  <2>2. f[e] = f[e - 1] + g(e) /\ Len(h[e]) = Len(h[e - 1]) + g(e) /\ g(e) \in Nat
    BY <1>4, <1>5, <1>7
  <2> QED BY <2>1, <2>2
<1> HIDE DEF X
<1>10. 0 .. N \subseteq X
  BY ONLY <1>3, <1>8, <1>9, Counting
<1>11. f[N] = Len(h[N]) /\ f[N] \in Nat
  BY <1>3, <1>10 DEF X
<1> QED BY <1>1, <1>2, <1>11

(* The rows of keys and values.                                            *)
LEMMA SlotsOf ==
  ASSUME NEW n \in Nat, NEW f, \A i \in 1 .. n : f[i] \in Values
  PROVE  LET s == [i \in 1 .. n |-> Slot(Free, f[i])]
         IN  s \in Seq(Slots) /\ Len(s) = n /\ DOMAIN s = 1 .. n
<1> DEFINE s == [i \in 1 .. n |-> Slot(Free, f[i])]
<1>1. \A i \in 1 .. n : Slot(Free, f[i]) \in Slots
  BY KnownValues DEF Slot, Slots
<1>2. s \in [1 .. n -> Slots]
  BY <1>1
<1> HIDE DEF s
<1>3. s \in Seq(Slots) /\ Len(s) = n /\ DOMAIN s = 1 .. n
  BY <1>2, LenProperties, IsASeq
<1> QED BY <1>3 DEF s

LEMMA FromPlacesIs ==
  ASSUME NEW o, NEW m, NEW b, GoodBlock(b, o, m), NEW places \in Seq(Places(b)),
         \A i \in DOMAIN places : At(b, places[i]).key # Free
  PROVE  LET c == FromPlaces(b, places)
             n == Len(places)
         IN  /\ GoodBlock(c, o, m) /\ c.type = A /\ Height(c) = n /\ n \in Nat /\ c.dims = Rectangle(n)
             /\ Len(c.ext[1]) = n + n
             /\ \A i \in 1 .. n : /\ c.ext[1][i] = Slot(Free, At(b, places[i]).key)
                                  /\ c.ext[1][n + i] = Slot(Free, At(b, places[i]).v)
<1> DEFINE n == Len(places)
           key == [i \in 1 .. n |-> At(b, places[i]).key]
           val == [i \in 1 .. n |-> At(b, places[i]).v]
           x == [i \in 1 .. n |-> Slot(Free, key[i])]
           y == [i \in 1 .. n |-> Slot(Free, val[i])]
           s == x \o y
           c == Block(A, Rectangle(n), <<s>>, 0)
<1>1. n \in Nat /\ DOMAIN places = 1 .. n /\ \A i \in 1 .. n : places[i] \in Places(b)
  BY ElementsOf
<1>2. \A i \in 1 .. n : GoodValue(At(b, places[i]).v, o) /\ GoodValue(At(b, places[i]).key, o)
  BY <1>1, PlacesType
<1>3. \A i \in 1 .. n : /\ GoodValue(key[i], o) /\ key[i] \in Values /\ key[i] = At(b, places[i]).key
                        /\ GoodValue(val[i], o) /\ val[i] \in Values /\ val[i] = At(b, places[i]).v
  BY <1>2, GoodNotFree
<1> HIDE DEF key, val
<1>4. /\ x \in Seq(Slots) /\ Len(x) = n /\ DOMAIN x = 1 .. n
      /\ y \in Seq(Slots) /\ Len(y) = n /\ DOMAIN y = 1 .. n
  <2> HIDE DEF n
  <2> QED BY <1>1, <1>3, SlotsOf
<1>5. \A i \in 1 .. n : x[i] = Slot(Free, key[i]) /\ y[i] = Slot(Free, val[i])
  OBVIOUS
<1> HIDE DEF x, y
<1>6. s \in Seq(Slots) /\ Len(s) = Len(x) + Len(y)
      /\ \A i \in 1 .. Len(x) + Len(y) : s[i] = IF i <= Len(x) THEN x[i] ELSE y[i - Len(x)]
  BY <1>4, ConcatProperties, ZenonT(30)
<1> HIDE DEF s
<1>7. \A i \in 1 .. n : s[i] = Slot(Free, key[i]) /\ s[n + i] = Slot(Free, val[i])
  <2> SUFFICES ASSUME NEW i \in 1 .. n PROVE s[i] = x[i] /\ s[n + i] = y[i]
    BY <1>5
  <2>1. \A j \in 1 .. n + n : s[j] = IF j <= n THEN x[j] ELSE y[j - n]
    BY <1>4, <1>6
  <2> HIDE DEF n
  <2>2. i \in 1 .. n + n /\ i <= n
    BY <1>1
  <2>3. n + i \in 1 .. n + n /\ ~(n + i <= n) /\ n + i - n = i
    BY <1>1
  <2> DEFINE j == n + i
  <2>4. s[j] = y[j - n]
    <3>1. j \in 1 .. n + n /\ ~(j <= n)
      BY <2>3
    <3> HIDE DEF j
    <3> QED BY <2>1, <3>1
  <2>5. s[n + i] = y[i]
    <3>1. j - n = i
      BY <1>1
    <3>2. s[j] = y[i]
      <4> HIDE DEF j
      <4> QED BY <2>4, <3>1
    <3> QED BY <3>2
  <2>6. s[i] = x[i]
    BY <2>1, <2>2
  <2> QED BY <2>5, <2>6
<1>8. \A j \in DOMAIN s : \E i \in 1 .. n : j = i \/ j = n + i
  <2>1. DOMAIN s = 1 .. n + n
    BY <1>4, <1>6
  <2> SUFFICES ASSUME NEW j \in 1 .. n + n PROVE \E i \in 1 .. n : j = i \/ j = n + i
    BY <2>1
  <2> HIDE DEF n
  <2>2. CASE j <= n
    BY <1>1, <2>2
  <2>3. CASE ~(j <= n)
    <3>1. j - n \in 1 .. n /\ j = n + (j - n)
      BY <1>1, <2>3
    <3> QED BY <3>1
  <2> QED BY <2>2, <2>3
<1>9. \A j \in DOMAIN s : GoodValue(s[j].v, o) /\ s[j].key = Free
  <2>1. \A z : Slot(Free, z).v = z /\ Slot(Free, z).key = Free
    BY DEF Slot
  <2>2. \A i \in 1 .. n : /\ GoodValue(s[i].v, o) /\ s[i].key = Free
                          /\ GoodValue(s[n + i].v, o) /\ s[n + i].key = Free
    BY <1>3, <1>7, <2>1
  <2> QED BY <1>8, <2>2
<1>10. Rectangle(n) \in Dims /\ Rectangle(n) # <<>> /\ Len(Rectangle(n)) = 2 /\ Rectangle(n)[1].n = n
       /\ Rectangle(n)[2].n = 2
  <2> HIDE DEF n
  <2> QED BY <1>1 DEF Rectangle, Dims
<1>11. Elements(Rectangle(n)) = n + n
  <2>1. Elements(Rectangle(n)) = 2 * n
    BY <1>10, ElementsFew
  <2> HIDE DEF n
  <2> QED BY <1>1, <2>1
<1>12. A \in Nat /\ 0 \in Nat
  BY Codes
<1>13. GoodBlock(c, o, m)
  <2> HIDE DEF n
  <2> QED BY <1>4, <1>6, <1>9, <1>10, <1>11, <1>12, ArrayGood
<1>14. c.type = A /\ c.dims = Rectangle(n) /\ c.ext[1] = s
  <2> HIDE DEF n
  <2> QED BY <1>6, <1>10, <1>12, OneExtent
<1>15. c = FromPlaces(b, places)
  BY <1>1 DEF FromPlaces, s, x, y, key, val
<1> HIDE DEF c
<1> QED BY <1>1, <1>3, <1>4, <1>6, <1>7, <1>10, <1>13, <1>14, <1>15 DEF Height

(* The loop that fills the array puts the key and the value of an entry in *)
(* its row.                                                                *)
FillingUp(f, b, n) ==
  /\ f \in [0 .. n -> [1 .. n + n -> Slots]]
  /\ \A i \in 1 .. n :
       f[i] = [f[i - 1] EXCEPT ![n + i] = Slot(Free, At(b, EntriesOf(b)[i]).v),
                               ![i] = Slot(Free, At(b, EntriesOf(b)[i]).key)]

LEMMA FillingSteps ==
  ASSUME NEW o, NEW m, NEW b, GoodBlock(b, o, m), NEW n \in Nat, n = Len(EntriesOf(b))
  PROVE  \E f : FillingUp(f, b, n) /\ Filling(b, n) = Block(A, Rectangle(n), <<f[n]>>, 0)
<1> DEFINE Dom == [1 .. n + n -> Slots]
           base == Filled(Rectangle(n), Null)
           VS(k) == Slot(Free, At(b, EntriesOf(b)[k]).v)
           KS(k) == Slot(Free, At(b, EntriesOf(b)[k]).key)
           Next1(k, r) == [r EXCEPT ![n + k] = VS(k), ![k] = KS(k)]
           step == [k \in 1 .. n |-> [r \in Dom |-> Next1(k, r)]]
           E(f) == [k \in 0 .. n |-> IF k = 0 THEN base ELSE Next1(k, f[k - 1])]
           after == CHOOSE f : f = E(f)
<1>1. \A k \in 1 .. n : VS(k) \in Slots /\ KS(k) \in Slots
  <2>1. ASSUME NEW k \in 1 .. n PROVE VS(k) \in Slots /\ KS(k) \in Slots
    <3>1. EntriesOf(b)[k] \in Places(b)
      BY EntriesAre
    <3>2. At(b, EntriesOf(b)[k]) \in [key : Values, v : Values]
      BY <3>1, PlacesType
    <3> QED BY <3>2, KnownValues DEF Slot, Slots
  <2> QED BY <2>1
<1> HIDE DEF VS, KS
<1>2. base \in Dom
  <2>1. Rectangle(n) \in Dims /\ Len(Rectangle(n)) = 2 /\ Rectangle(n)[1].n = n /\ Rectangle(n)[2].n = 2
    BY DEF Rectangle, Dims
  <2>2. Elements(Rectangle(n)) = n + n
    BY <2>1, ElementsFew
  <2>3. Slot(Free, Null) \in Slots
    BY KnownValues DEF Slots, Slot
  <2> QED BY <2>2, <2>3 DEF Filled
<1>3. step \in [1 .. n -> [Dom -> Dom]]
  <2>1. ASSUME NEW k \in 1 .. n, NEW r \in Dom PROVE Next1(k, r) \in Dom
    BY <1>1
  <2> HIDE DEF Next1, Dom
  <2> QED BY <2>1
<1> HIDE DEF Dom, Next1, base
<1>4. PICK f : Iterates(f, Dom, base, n, step)
  <2> HIDE DEF step, E, after
  <2>4. \E f : Iterates(f, Dom, base, n, step)
    BY <1>2, <1>3, Iteration
  <2> QED BY <2>4
<1>5. /\ f \in [0 .. n -> Dom] /\ f[0] = base
      /\ \A k \in 1 .. n : f[k] = Next1(k, f[k - 1])
  <2>1. \A k \in 1 .. n : f[k - 1] \in Dom /\ f[k] = step[k][f[k - 1]]
    <3>1. \A k \in 1 .. n : k - 1 \in 0 .. n
      OBVIOUS
    <3> HIDE DEF step
    <3> QED BY <1>4, <3>1 DEF Iterates
  <2> QED BY <1>4, <2>1 DEF Iterates
<1>6. f = E(f)
  BY <1>5
<1>7. after = E(after)
  BY <1>6
<1> HIDE DEF after
<1>8. after[0] = base /\ \A k \in 1 .. n : after[k - 1] \in Dom => after[k] = step[k][after[k - 1]]
  <2>1. 0 \in 0 .. n /\ \A k \in 1 .. n : k \in 0 .. n /\ k # 0
    OBVIOUS
  <2>2. after[0] = base
    BY <1>7, <2>1
  <2>3. ASSUME NEW k \in 1 .. n, after[k - 1] \in Dom PROVE after[k] = step[k][after[k - 1]]
    <3>1. after[k] = Next1(k, after[k - 1])
      <4> HIDE DEF step
      <4> QED BY <1>7, <2>1
    <3>2. step[k][after[k - 1]] = Next1(k, after[k - 1])
      <4> HIDE DEF E
      <4> QED BY <2>3
    <3> QED BY <3>1, <3>2
  <2> HIDE DEF step, E
  <2> QED BY <2>2, <2>3
<1>9. after[n] = f[n]
  <2> HIDE DEF step, E
  <2>2. Repeats(after, Dom, base, n, step)
    BY <1>8 DEF Repeats
  <2>3. n \in Nat
    OBVIOUS
  <2> QED BY ONLY <1>4, <2>2, <2>3, LoopSame
<1>10. Filling(b, n) = Block(A, Rectangle(n), <<after[n]>>, 0)
  BY DEF Filling, after, Next1, base, VS, KS
<1>11. FillingUp(f, b, n)
  BY <1>5 DEF FillingUp, Dom, Next1, VS, KS
<1> QED BY <1>9, <1>10, <1>11

LEMMA FillingIs ==
  ASSUME NEW o, NEW m, NEW b, GoodBlock(b, o, m), IsTable(b)
  PROVE  Filling(b, ICNVTA(b)) = FromPlaces(b, EntriesOf(b))
<1> DEFINE n == ICNVTA(b)
           s == EntriesOf(b)
           x == [i \in DOMAIN s |-> Slot(Free, At(b, s[i]).key)]
           y == [i \in DOMAIN s |-> Slot(Free, At(b, s[i]).v)]
<1>1. n \in Nat /\ n = Len(EntriesOf(b))
  BY CountedAre
<1>2. DOMAIN s = 1 .. n
  BY <1>1, EntriesAre
<1> HIDE DEF n
<1>3. PICK f : FillingUp(f, b, n) /\ Filling(b, n) = Block(A, Rectangle(n), <<f[n]>>, 0)
  BY <1>1, FillingSteps
<1>4. /\ f \in [0 .. n -> [1 .. n + n -> Slots]]
      /\ \A i \in 1 .. n : f[i] = [f[i - 1] EXCEPT ![n + i] = y[i], ![i] = x[i]]
  BY <1>2, <1>3 DEF FillingUp
<1>5. x \in Seq(Slots) /\ y \in Seq(Slots) /\ Len(x) = n /\ Len(y) = n
  <2>1. ASSUME NEW i \in 1 .. n PROVE x[i] \in Slots /\ y[i] \in Slots
    <3>1. s[i] \in Places(b)
      BY <1>2, EntriesAre
    <3>2. At(b, s[i]) \in [key : Values, v : Values]
      BY <3>1, PlacesType
    <3> QED BY <1>2, <3>2, KnownValues DEF Slot, Slots
  <2>2. DOMAIN x = 1 .. n /\ DOMAIN y = 1 .. n
    BY <1>2
  <2>3. x \in [1 .. n -> Slots] /\ y \in [1 .. n -> Slots]
    BY <1>2, <2>1
  <2> HIDE DEF x, y
  <2> QED BY <1>1, <2>2, <2>3, LenProperties, IsASeq
<1> HIDE DEF x, y
<1> DEFINE Done(k) == \A i \in 1 .. k : f[k][i] = x[i] /\ f[k][n + i] = y[i]
           X == {k \in 0 .. n : Done(k)}
<1>6. 0 \in X
  BY <1>1
<1>7. ASSUME NEW k \in 1 .. n, k - 1 \in X PROVE k \in X
  <2>1. Done(k - 1) /\ k \in 0 .. n /\ k - 1 \in 0 .. n
    BY <1>1, <1>7
  <2>2. f[k - 1] \in [1 .. n + n -> Slots]
    BY <1>4, <2>1
  <2>3. f[k] = [f[k - 1] EXCEPT ![n + k] = y[k], ![k] = x[k]]
    BY <1>4
  <2>4. ASSUME NEW i \in 1 .. k PROVE f[k][i] = x[i] /\ f[k][n + i] = y[i]
    <3>1. i \in 1 .. n + n /\ n + i \in 1 .. n + n /\ n + i # k /\ i # n + k /\ k \in 1 .. n + n
          /\ n + k \in 1 .. n + n /\ n + k # k
      BY <1>1
    <3>2. CASE i = k
      BY <2>2, <2>3, <3>1, <3>2
    <3>3. CASE i # k
      <4>1. i \in 1 .. k - 1 /\ n + i # n + k
        BY <1>1, <3>3
      <4>2. f[k - 1][i] = x[i] /\ f[k - 1][n + i] = y[i]
        BY <2>1, <4>1
      <4>3. f[k][i] = f[k - 1][i] /\ f[k][n + i] = f[k - 1][n + i]
        BY <2>2, <2>3, <3>1, <3>3, <4>1
      <4> QED BY <4>2, <4>3
    <3> QED BY <3>2, <3>3
  <2> QED BY <2>1, <2>4
<1> HIDE DEF X
<1>8. Done(n) /\ f[n] \in [1 .. n + n -> Slots]
  <2>1. 0 .. n \subseteq X
    BY ONLY <1>1, <1>6, <1>7, Counting
  <2>2. n \in 0 .. n
    BY <1>1
  <2> QED BY <1>4, <2>1, <2>2 DEF X
<1> DEFINE u == x \o y
<1>9. /\ u \in Seq(Slots) /\ Len(u) = n + n
      /\ \A i \in 1 .. n + n : u[i] = IF i <= n THEN x[i] ELSE y[i - n]
  <2>1. /\ u \in Seq(Slots) /\ Len(u) = Len(x) + Len(y)
        /\ \A i \in 1 .. Len(x) + Len(y) : u[i] = IF i <= Len(x) THEN x[i] ELSE y[i - Len(x)]
    BY ONLY <1>5, ConcatProperties, ZenonT(30)
  <2> HIDE DEF u
  <2> QED BY ONLY <1>5, <2>1, ZenonT(30)
<1> HIDE DEF u
<1>10. ASSUME NEW i \in 1 .. n + n PROVE u[i] = f[n][i]
  <2>1. CASE i <= n
    <3>1. i \in 1 .. n
      BY <1>1, <2>1
    <3> QED BY <1>8, <1>9, <2>1, <3>1
  <2>2. CASE ~ i <= n
    <3>1. i - n \in 1 .. n /\ n + (i - n) = i
      BY <1>1, <2>2
    <3>2. f[n][n + (i - n)] = y[i - n]
      BY <1>8, <3>1
    <3> QED BY <1>9, <2>2, <3>1, <3>2
  <2> QED BY <2>1, <2>2
<1>11. u \in [1 .. n + n -> Slots]
  <2>1. u \in Seq(Slots) /\ Len(u) = n + n
    BY <1>9
  <2>2. u \in [1 .. Len(u) -> Slots]
    BY ONLY <2>1, LenProperties
  <2> QED BY ONLY <2>1, <2>2
<1>12. u = f[n]
  <2> DEFINE g == f[n]
             N == 1 .. n + n
  <2>1. g \in [N -> Slots] /\ u \in [N -> Slots] /\ \A i \in N : u[i] = g[i]
    BY <1>8, <1>10, <1>11
  <2> HIDE DEF g, N
  <2>2. u = g
    BY ONLY <2>1
  <2> QED BY <2>2 DEF g
<1>13. FromPlaces(b, EntriesOf(b)) = Block(A, Rectangle(n), <<u>>, 0)
  BY <1>1 DEF FromPlaces, u, x, y
<1> QED BY <1>3, <1>12, <1>13 DEF n

LEMMA CnvtaKeeps == ASSUME IInv, CNVTA PROVE Keeping /\ Kept(obj, obj')
<1>0. UNCHANGED defs
  BY DEF CNVTA
<1>1. CASE FAIL /\ UNCHANGED obj
  BY <1>0, <1>1, FailKeeps, WithinKeeping, KeptSame
<1>2. ASSUME NEW k \in OfType(T), NEW x, Made(Filling(obj[k], ICNVTA(obj[k])), x), UNCHANGED wait
      PROVE  Keeping /\ Kept(obj, obj')
  <2> DEFINE b == obj[k]
             c == FromPlaces(b, EntriesOf(b))
  <2>1. GoodBlock(b, obj, made) /\ IsTable(b)
    BY BlocksGood DEF OfType, IsTable
  <2>2. /\ EntriesOf(b) \in Seq(Places(b))
        /\ \A i \in DOMAIN EntriesOf(b) : At(b, EntriesOf(b)[i]).key # Free
    BY <2>1, EntriesAre
  <2>3. GoodBlock(c, obj, made)
    BY <2>1, <2>2, FromPlacesIs
  <2>4. Made(c, x)
    BY <1>2, <2>1, FillingIs
  <2> HIDE DEF c
  <2> QED BY <1>0, <1>2, <2>3, <2>4, BlocksGood, MadeKeeps
<1> QED BY <1>1, <1>2 DEF CNVTA

-----------------------------------------------------------------------------
(* A table of one extent.                                                  *)
LEMMA TableGood ==
  ASSUME NEW s \in Seq(Slots), s # <<>>, NEW g \in Nat, g > 0, NEW o, NEW m,
         \A i \in DOMAIN s : GoodValue(s[i].v, o) /\ (s[i].key = Free \/ GoodValue(s[i].key, o)),
         \A i, j \in DOMAIN s : s[i].key = Free /\ i < j => s[j].key = Free,
         \A i \in DOMAIN s : s[i].key = Free => s[i].v = Null,
         "duplicates" \notin Defects =>
            \A i, j \in DOMAIN s : s[i].key = s[j].key /\ s[i].key # Free => i = j
  PROVE  GoodBlock(Block(T, <<>>, <<s>>, g), o, m)
<1> DEFINE b == Block(T, <<>>, <<s>>, g)
<1>1. /\ b \in Blocks /\ b.type = T /\ b.grow = g /\ b.ext[1] = s /\ Len(b.ext) = 1
      /\ DOMAIN b.ext = {1}
      /\ \A p \in Places(b) : p = <<1, p[2]>> /\ p[2] \in DOMAIN s /\ At(b, p) = s[p[2]]
  <2>1. T \in Nat /\ <<>> \in Dims
    BY Codes DEF Dims
  <2> QED BY <2>1, OneExtent
<1> HIDE DEF b
<1>2. b.ext # <<>>
  BY <1>1
<1>3. \A p \in Places(b) : /\ p[1] = 1 /\ p[2] \in DOMAIN s /\ p = <<1, p[2]>>
                           /\ At(b, p).key = s[p[2]].key /\ At(b, p).v = s[p[2]].v
  BY <1>1
<1>4. \A p, q \in Places(b) : Earlier(p, q) => p[2] < q[2]
  BY <1>3 DEF Earlier
<1>5. \A p \in Places(b) : /\ GoodValue(At(b, p).v, o)
                           /\ At(b, p).key = Free \/ GoodValue(At(b, p).key, o)
  BY <1>3
<1>6. \A p, q \in Places(b) : At(b, p).key = Free /\ Earlier(p, q) => At(b, q).key = Free
  BY <1>3, <1>4
<1>7. \A p \in Places(b) : At(b, p).key = Free => p[1] = Len(b.ext) /\ At(b, p).v = Null
  BY <1>1, <1>3
<1>8. "duplicates" \notin Defects =>
         \A p, q \in Places(b) : At(b, p).key = At(b, q).key /\ At(b, p).key # Free => p = q
  BY <1>3
<1>9. GoodTable(b)
  BY <1>1, <1>2, <1>6, <1>7, <1>8 DEF GoodTable
<1>10. IsTable(b) /\ b.type # A /\ ~IsData(b) /\ b.type \in {A, T}
  BY <1>1, Codes DEF IsTable, IsData
<1>11. GoodBlock(b, o, m)
  BY <1>1, <1>5, <1>9, <1>10 DEF GoodBlock
<1> QED BY <1>11 DEF b

LEMMA AssocKeeps == ASSUME IInv, ASSOC PROVE Keeping /\ Kept(obj, obj')
<1>0. UNCHANGED defs
  BY DEF ASSOC
<1>1. CASE FAIL /\ UNCHANGED obj
  BY <1>0, <1>1, FailKeeps, WithinKeeping, KeptSame
<1>2. ASSUME NEW n \in Nat, NEW g \in Nat, n > 0, g > 0,
             Made(Block(T, <<>>, <<Extent(n)>>, g), By("ASSOC")), UNCHANGED wait
      PROVE  Keeping /\ Kept(obj, obj')
  <2> DEFINE s == Extent(n)
  <2>1. Slot(Free, Null) \in Slots
    BY KnownValues DEF Slots, Slot
  <2>2. /\ s \in Seq(Slots) /\ Len(s) = n /\ DOMAIN s = 1 .. n
        /\ \A i \in 1 .. n : s[i] = Slot(Free, Null)
    BY <2>1, SameSlots DEF Extent
  <2> HIDE DEF s
  <2>3. s # <<>>
    BY <1>2, <2>2
  <2>4. \A i \in DOMAIN s : s[i].key = Free /\ s[i].v = Null
    BY <2>2 DEF Slot
  <2>5. \A x : GoodValue(Null, x)
    BY NullGood
  <2>6. GoodBlock(Block(T, <<>>, <<s>>, g), obj, made)
    BY <1>2, <2>2, <2>3, <2>4, <2>5, TableGood
  <2>7. GoodBlock(Block(T, <<>>, <<Extent(n)>>, g), obj, made)
    BY <2>6 DEF s
  <2> QED BY <1>0, <1>2, <2>7, BlocksGood, MadeKeeps
<1>3. ASSUME NEW size \in Sizes, NEW grow \in Sizes, ~(size < 0 \/ grow < 0),
             LET n(x) == IF x = 0 THEN EXTSIZ ELSE x
             IN  Made(Block(T, <<>>, <<Extent(n(size))>>, n(grow)), By("ASSOC")) /\ UNCHANGED wait
      PROVE  \E n \in Nat, g \in Nat : /\ n > 0 /\ g > 0
               /\ Made(Block(T, <<>>, <<Extent(n)>>, g), By("ASSOC")) /\ UNCHANGED wait
  <2>1. size \in Int /\ grow \in Int /\ EXTSIZ \in Nat /\ EXTSIZ > 0
    BY SizesAssumption
  <2> DEFINE n == IF size = 0 THEN EXTSIZ ELSE size
             g == IF grow = 0 THEN EXTSIZ ELSE grow
  <2>2. n \in Nat /\ g \in Nat /\ n > 0 /\ g > 0
    BY <1>3, <2>1
  <2>3. Made(Block(T, <<>>, <<Extent(n)>>, g), By("ASSOC")) /\ UNCHANGED wait
    BY <1>3
  <2> HIDE DEF n, g
  <2> QED BY <2>2, <2>3
<1> QED BY <1>1, <1>2, <1>3 DEF ASSOC

(* An array of two columns and of some rows.                               *)
LEMMA RowsAre ==
  ASSUME NEW o, NEW m, NEW b, GoodBlock(b, o, m), b.type = A, TwoColumns(b)
  PROVE  LET n == Height(b)
         IN  /\ n \in Nat
             /\ \A i \in 1 .. n : /\ GoodValue(b.ext[1][i].v, o) /\ GoodValue(b.ext[1][n + i].v, o)
                                  /\ <<1, i>> \in Places(b) /\ <<1, n + i>> \in Places(b)
<1> DEFINE n == Height(b)
<1>1. b.dims \in Dims /\ b.ext \in Seq(Seq(Slots)) /\ Len(b.ext) = 1 /\ Len(b.ext[1]) = Elements(b.dims)
  BY BlockFacts, Codes DEF Dims, Slots, GoodBlock, IsTable
<1>2. Len(b.dims) = 2 /\ b.dims[2].n = 2
  BY DEF TwoColumns, Columns
<1>3. n \in Nat
  BY <1>1, <1>2, DimsAre DEF Height
<1>4. Elements(b.dims) = 2 * n
  BY <1>1, <1>2, ElementsFew DEF Height
<1> HIDE DEF n
<1>5. b.ext[1] \in Seq(Slots) /\ DOMAIN b.ext[1] = 1 .. n + n /\ 1 \in DOMAIN b.ext
  <2>1. b.ext[1] \in Seq(Slots) /\ 1 \in DOMAIN b.ext
    BY <1>1
  <2>2. Len(b.ext[1]) = n + n
    BY <1>1, <1>3, <1>4
  <2> QED BY <2>1, <2>2
<1>6. ASSUME NEW i \in 1 .. n PROVE i \in 1 .. n + n /\ n + i \in 1 .. n + n
  BY <1>3
<1>7. \A j \in 1 .. n + n : <<1, j>> \in Places(b) /\ GoodValue(b.ext[1][j].v, o)
  <2> SUFFICES ASSUME NEW j \in 1 .. n + n PROVE <<1, j>> \in Places(b) /\ GoodValue(b.ext[1][j].v, o)
    OBVIOUS
  <2>1. <<1, j>> \in Places(b)
    BY <1>5, PlacesAre
  <2>2. At(b, <<1, j>>) = b.ext[1][j]
    BY DEF At
  <2>3. GoodValue(At(b, <<1, j>>).v, o)
    BY <2>1, PlacesType
  <2> QED BY <2>1, <2>2, <2>3
<1>8. \A i \in 1 .. n : /\ GoodValue(b.ext[1][i].v, o) /\ GoodValue(b.ext[1][n + i].v, o)
                        /\ <<1, i>> \in Places(b) /\ <<1, n + i>> \in Places(b)
  BY <1>6, <1>7
<1> QED BY <1>3, <1>8 DEF n

LEMMA CnvatKeeps == ASSUME IInv, CNVAT PROVE Keeping /\ Kept(obj, obj')
<1>0. UNCHANGED defs /\ GoodWait(wait, obj, types) /\ GoodObjects(obj, made)
  BY BlocksGood DEF CNVAT
<1>1. CASE FAIL /\ UNCHANGED obj
  BY <1>0, <1>1, FailKeeps, WithinKeeping, KeptSame
<1>2. CASE todo' = Crash /\ UNCHANGED <<obj, wait>>
  BY <1>0, <1>2, TodoGood, KeptSame DEF Keeping
<1>3. ASSUME NEW k \in OfType(A), TwoColumns(obj[k]), Height(obj[k]) > 0,
             IsInjective(KeysOf(obj[k])) \/ "duplicates" \in Defects,
             Made(TableOf(obj[k]), By("CNVAT")), UNCHANGED wait
      PROVE  Keeping /\ Kept(obj, obj')
  <2> DEFINE b == obj[k]
             n == Height(b)
             s == [i \in 1 .. n |-> Slot(KeysOf(b)[i], b.ext[1][n + i].v)]
  <2>1. GoodBlock(b, obj, made) /\ b.type = A
    BY BlocksGood DEF OfType
  <2>2. /\ n \in Nat
        /\ \A i \in 1 .. n : GoodValue(b.ext[1][i].v, obj) /\ GoodValue(b.ext[1][n + i].v, obj)
    BY <1>3, <2>1, RowsAre
  <2>3. n > 0 /\ TableOf(b) = Block(T, <<>>, <<s>>, EXTSIZ)
    BY <1>3 DEF TableOf
  <2>4. DOMAIN KeysOf(b) = 1 .. n /\ \A i \in 1 .. n : KeysOf(b)[i] = b.ext[1][i].v
    BY DEF KeysOf
  <2> HIDE DEF n
  <2>5. \A i \in 1 .. n : /\ s[i].key = KeysOf(b)[i] /\ s[i].v = b.ext[1][n + i].v
                          /\ GoodValue(s[i].key, obj) /\ GoodValue(s[i].v, obj) /\ s[i].key # Free
                          /\ s[i] \in Slots
    <3> SUFFICES ASSUME NEW i \in 1 .. n
                 PROVE  /\ s[i].key = KeysOf(b)[i] /\ s[i].v = b.ext[1][n + i].v
                        /\ GoodValue(s[i].key, obj) /\ GoodValue(s[i].v, obj) /\ s[i].key # Free
                        /\ s[i] \in Slots
      OBVIOUS
    <3>1. s[i] = Slot(KeysOf(b)[i], b.ext[1][n + i].v)
      OBVIOUS
    <3>2. s[i].key = KeysOf(b)[i] /\ s[i].v = b.ext[1][n + i].v
      BY <3>1 DEF Slot
    <3>3. GoodValue(s[i].key, obj) /\ GoodValue(s[i].v, obj)
      BY <2>2, <2>4, <3>2
    <3>4. s[i] \in Slots /\ s[i].key # Free
      <4>1. s[i].key \in Values /\ s[i].v \in Values /\ s[i].key # Free
        BY <3>3, GoodNotFree
      <4> QED BY <3>1, <3>2, <4>1 DEF Slot, Slots
    <3> QED BY <3>2, <3>3, <3>4
  <2>6. s \in Seq(Slots) /\ Len(s) = n /\ DOMAIN s = 1 .. n
    <3>1. s \in [1 .. n -> Slots]
      BY <2>5
    <3> HIDE DEF s
    <3> QED BY <2>2, <3>1, LenProperties, IsASeq
  <2> HIDE DEF s
  <2>7. s # <<>>
    BY <2>2, <2>3, <2>6
  <2>8. "duplicates" \notin Defects =>
            \A i, j \in DOMAIN s : s[i].key = s[j].key /\ s[i].key # Free => i = j
    BY <1>3, <2>4, <2>5, <2>6 DEF IsInjective
  <2>9. EXTSIZ \in Nat /\ EXTSIZ > 0
    BY SizesAssumption
  <2>10. \A i \in DOMAIN s : GoodValue(s[i].v, obj) /\ GoodValue(s[i].key, obj) /\ s[i].key # Free
    BY <2>5, <2>6
  <2>11. GoodBlock(Block(T, <<>>, <<s>>, EXTSIZ), obj, made)
    BY <2>6, <2>7, <2>8, <2>9, <2>10, TableGood
  <2>12. GoodBlock(TableOf(b), obj, made)
    BY <2>3, <2>11
  <2> QED BY <1>0, <1>3, <2>12, MadeKeeps
<1> QED BY <1>1, <1>2, <1>3 DEF CNVAT

-----------------------------------------------------------------------------
(* Sorting.                                                                *)
LEMMA DivIs ==
  ASSUME NEW a \in Nat, NEW n \in Nat, n > 0
  PROVE  /\ a \div n \in Nat /\ (a \div n) * n <= a /\ a < (a \div n) * n + n
<1>1. /\ a \div n \in Int /\ a % n \in 0 .. n - 1 /\ a = n * (a \div n) + (a % n)
  BY SMT
<1>2. a \div n >= 0
  BY SMT
<1> DEFINE c == a \div n
           d == a % n
<1>3. c \in Nat /\ d \in 0 .. n - 1 /\ a = n * c + d
  BY <1>1, <1>2
<1> HIDE DEF c, d
<1>4. n * c = c * n /\ c * n \in Int
  BY <1>3, SMT
<1>5. c * n <= a /\ a < c * n + n
  <2> DEFINE e == c * n
  <2>1. e \in Int /\ a = e + d
    BY <1>3, <1>4
  <2> HIDE DEF e
  <2>2. e <= a /\ a < e + n
    BY <1>3, <2>1
  <2> QED BY <2>2 DEF e
<1> QED BY <1>3, <1>5 DEF c

LEMMA RowOf ==
  ASSUME NEW m \in Nat, NEW n \in Nat, NEW i \in 1 .. m * n, n > 0
  PROVE  LET c == (i - 1) \div n IN c \in Nat /\ c < m /\ i - c * n \in 1 .. n
<1> DEFINE c == (i - 1) \div n
<1>0. m * n \in Int /\ i \in Nat /\ i - 1 \in Nat /\ i <= m * n
  BY SMT
<1>1. c \in Nat /\ c * n <= i - 1 /\ i - 1 < c * n + n
  BY <1>0, DivIs
<1> HIDE DEF c
<1>2. c < m
  <2> SUFFICES ASSUME ~(c < m) PROVE FALSE
    OBVIOUS
  <2>1. 0 <= (c - m) * n
    BY <1>1, SMT
  <2>2. m * n <= c * n
    BY <1>1, <2>1, SMT
  <2> QED BY <1>0, <1>1, <2>2, SMT
<1>3. i - c * n \in 1 .. n
  <2>1. c * n \in Int
    BY <1>1, SMT
  <2> DEFINE e == c * n
  <2>2. e \in Int /\ e <= i - 1 /\ i - 1 < e + n
    BY <1>1, <2>1
  <2> HIDE DEF e
  <2>3. i - e \in 1 .. n
    BY <1>0, <2>2
  <2> QED BY <2>3 DEF e
<1> QED BY <1>1, <1>2, <1>3 DEF c

LEMMA Reordered ==
  ASSUME NEW o, NEW m, NEW b, GoodBlock(b, o, m), b.type = A,
         NEW s, NEW n \in Nat, Len(b.ext[1]) = n, DOMAIN s = 1 .. n, s = [i \in 1 .. n |-> s[i]],
         \A i \in 1 .. n : \E j \in 1 .. n : s[i] = b.ext[1][j]
  PROVE  LET c == [b EXCEPT !.ext = <<s>>]
         IN  GoodBlock(c, o, m) /\ c.ext = <<s>> /\ c.dims = b.dims /\ c.type = A
<1> DEFINE c == [b EXCEPT !.ext = <<s>>]
<1>1. b \in Blocks /\ b.ext \in Seq(Seq(Slots)) /\ Len(b.ext) = 1 /\ ~IsTable(b) /\ ~IsData(b)
  <2>1. b \in Blocks /\ b.ext \in Seq(Seq(Slots))
    BY BlockFacts DEF GoodBlock, Slots
  <2>2. ~IsTable(b) /\ ~IsData(b)
    BY Codes DEF IsTable, IsData
  <2> QED BY <2>1, <2>2 DEF GoodBlock
<1>2. b.ext[1] \in Seq(Slots) /\ 1 \in DOMAIN b.ext /\ DOMAIN b.ext[1] = 1 .. n
  <2>1. b.ext[1] \in Seq(Slots) /\ 1 \in DOMAIN b.ext
    BY <1>1
  <2> QED BY <2>1
<1>3. \A i \in 1 .. n : s[i] \in Slots
  <2>1. \A j \in 1 .. n : b.ext[1][j] \in Slots
    BY <1>2, ElementsOf
  <2> QED BY <2>1
<1>4. s \in Seq(Slots) /\ Len(s) = n
  <2>1. s \in [1 .. n -> Slots]
    BY <1>3
  <2> QED BY <2>1, LenProperties, IsASeq
<1>5. <<s>> \in Seq(Seq(Slots)) /\ Len(<<s>>) = 1 /\ <<s>>[1] = s /\ DOMAIN <<s>> = {1}
  BY <1>4
<1>6. /\ c \in Blocks /\ c.type = b.type /\ c.dims = b.dims /\ c.ext = <<s>>
  BY <1>1, <1>5, Rebuilt, ZenonT(30)
<1> HIDE DEF c
<1>7. \A p \in Places(c) : \E j \in 1 .. n : At(c, p) = b.ext[1][j]
  <2> SUFFICES ASSUME NEW p \in Places(c) PROVE \E j \in 1 .. n : At(c, p) = b.ext[1][j]
    OBVIOUS
  <2>1. p[1] \in DOMAIN c.ext /\ p[2] \in DOMAIN c.ext[p[1]]
    BY PlacesAre
  <2>2. p[1] = 1 /\ p[2] \in 1 .. n
    BY <1>5, <1>6, <2>1
  <2>3. At(c, p) = s[p[2]]
    BY <1>5, <1>6, <2>2 DEF At
  <2> DEFINE i == p[2]
             q == At(c, p)
  <2>4. i \in 1 .. n /\ q = s[i]
    BY <2>2, <2>3
  <2> HIDE DEF i, q
  <2>5. \E j \in 1 .. n : q = b.ext[1][j]
    BY <2>4
  <2> QED BY <2>5 DEF q
<1>8. \A j \in 1 .. n : <<1, j>> \in Places(b) /\ At(b, <<1, j>>) = b.ext[1][j]
  BY <1>2, PlacesAre DEF At
<1>9. \A p \in Places(c) : /\ GoodValue(At(c, p).v, o)
                           /\ At(c, p).key = Free \/ GoodValue(At(c, p).key, o)
  <2>1. \A j \in 1 .. n : LET x == b.ext[1][j]
                          IN  GoodValue(x.v, o) /\ (x.key = Free \/ GoodValue(x.key, o))
    <3> SUFFICES ASSUME NEW j \in 1 .. n
                 PROVE  GoodValue(b.ext[1][j].v, o) /\ (b.ext[1][j].key = Free \/ GoodValue(b.ext[1][j].key, o))
      OBVIOUS
    <3> DEFINE p == <<1, j>>
    <3>1. p \in Places(b) /\ At(b, p) = b.ext[1][j]
      BY <1>8
    <3> HIDE DEF p
    <3>2. GoodValue(At(b, p).v, o) /\ (At(b, p).key = Free \/ GoodValue(At(b, p).key, o))
      BY <3>1, PlacesType
    <3> QED BY <3>1, <3>2
  <2> QED BY <1>7, <2>1, ZenonT(30)
<1>10. ~IsTable(c) /\ ~IsData(c) /\ c.type = A
  BY <1>1, <1>6 DEF IsTable, IsData
<1>11. GoodBlock(c, o, m)
  <2>1. Len(c.ext) = 1 /\ c.ext[1] = s
    BY <1>5, <1>6
  <2>2. b.dims # <<>> /\ Len(b.ext[1]) = Elements(b.dims)
    BY DEF GoodBlock
  <2> QED BY <1>4, <1>6, <1>9, <1>10, <2>1, <2>2 DEF GoodBlock
<1> QED BY <1>6, <1>10, <1>11 DEF c

(* The rows that an array or a table has.                                  *)
RowsWithin(b, n) ==
  /\ b.type \in {A, T}
  /\ IsTable(b) => n <= Len(EntriesOf(b))
  /\ ~IsTable(b) => n = Height(b) /\ Len(b.dims) < 3

LEMMA ColumnsAre ==
  ASSUME NEW o, NEW m, NEW b, GoodBlock(b, o, m), b.type = A, Len(b.dims) < 3
  PROVE  /\ Height(b) \in Nat /\ Columns(b) \in Nat
         /\ Len(b.ext[1]) = Columns(b) * Height(b)
         /\ b.dims \in Dims /\ Len(b.dims) \in 1 .. 2
<1>1. b.dims \in Dims /\ b.dims # <<>> /\ Len(b.ext[1]) = Elements(b.dims)
  BY BlockFacts DEF Dims, GoodBlock
<1>2. Len(b.dims) \in 1 .. 2
  <2>1. Len(b.dims) \in Nat /\ Len(b.dims) # 0
    BY <1>1 DEF Dims
  <2> DEFINE l == Len(b.dims)
  <2>2. l \in Nat /\ l # 0 /\ l < 3
    BY <2>1
  <2> HIDE DEF l
  <2>3. l \in 1 .. 2
    BY <2>2
  <2> QED BY <2>3 DEF l
<1>3. CASE Len(b.dims) = 1
  <2>1. b.dims[1].n \in Nat
    BY <1>1, <1>3, DimsAre
  <2> QED BY <1>1, <1>3, <2>1, ElementsFew DEF Height, Columns
<1>4. CASE Len(b.dims) = 2
  <2>1. b.dims[1].n \in Nat /\ b.dims[2].n \in Nat
    BY <1>1, <1>4, DimsAre
  <2> QED BY <1>1, <1>4, <2>1, ElementsFew DEF Height, Columns
<1> QED BY <1>2, <1>3, <1>4

LEMMA ArrangedIs ==
  ASSUME NEW o, NEW m, NEW b, GoodBlock(b, o, m), NEW n \in Nat, RowsWithin(b, n), NEW rows \in Rows(n)
  PROVE  GoodBlock(Arranged(b, n, rows), o, m)
<1>0. \A i \in 1 .. n : rows[i] \in 1 .. n
  BY RowsType
<1>1. CASE IsTable(b)
  <2> DEFINE places == [i \in 1 .. n |-> EntriesOf(b)[rows[i]]]
             s == EntriesOf(b)
  <2>1. /\ s \in Seq(Places(b)) /\ Len(s) \in Nat /\ DOMAIN s = 1 .. Len(s)
        /\ \A i \in DOMAIN s : s[i] \in Places(b) /\ At(b, s[i]).key # Free
    BY <1>1, EntriesAre
  <2>2. n <= Len(s)
    BY <1>1 DEF RowsWithin
  <2>3. \A i \in 1 .. n : places[i] \in Places(b) /\ At(b, places[i]).key # Free
    <3> SUFFICES ASSUME NEW i \in 1 .. n PROVE s[rows[i]] \in Places(b) /\ At(b, s[rows[i]]).key # Free
      OBVIOUS
    <3>1. rows[i] \in DOMAIN s
      <4>1. rows[i] \in 1 .. n
        BY <1>0
      <4> HIDE DEF s
      <4> QED BY <2>1, <2>2, <4>1
    <3> HIDE DEF s
    <3> QED BY <2>1, <3>1
  <2> HIDE DEF s
  <2>4. places \in Seq(Places(b)) /\ DOMAIN places = 1 .. n
    <3>1. places \in [1 .. n -> Places(b)]
      BY <2>3
    <3> HIDE DEF places
    <3> QED BY <3>1, LenProperties, IsASeq
  <2>5. Arranged(b, n, rows) = FromPlaces(b, places)
    BY <1>1 DEF Arranged
  <2> HIDE DEF places
  <2> QED BY <2>3, <2>4, <2>5, FromPlacesIs
<1>2. CASE ~IsTable(b)
  <2> DEFINE s == [i \in DOMAIN b.ext[1] |-> LET c == (i - 1) \div n IN b.ext[1][c * n + rows[i - c * n]]]
  <2>1. b.type = A /\ n = Height(b) /\ Len(b.dims) < 3
    BY <1>2 DEF RowsWithin, IsTable
  <2>2. PICK k \in Nat : Len(b.ext[1]) = k * n
    BY <2>1, ColumnsAre
  <2>3. DOMAIN b.ext[1] = 1 .. k * n
    <3>1. b.ext \in Seq(Seq(Slots)) /\ Len(b.ext) = 1
      BY <1>2, BlockFacts DEF GoodBlock, Slots
    <3>2. b.ext[1] \in Seq(Slots)
      BY <3>1
    <3> QED BY <2>2, <3>2
  <2>4. k * n \in Nat
    BY SMT
  <2>5. ASSUME NEW i \in 1 .. k * n PROVE \E j \in 1 .. k * n : s[i] = b.ext[1][j]
    <3> DEFINE c == (i - 1) \div n
               x == rows[i - c * n]
    <3>1. n > 0
      <4> SUFFICES ASSUME n = 0 PROVE FALSE
        OBVIOUS
      <4>1. k * n = 0
        BY SMT
      <4> QED BY <4>1
    <3>2. c \in Nat /\ c < k /\ i - c * n \in 1 .. n
      BY <3>1, RowOf
    <3>3. x \in 1 .. n
      BY <1>0, <3>2
    <3>4. s[i] = b.ext[1][c * n + x]
      BY <2>3
    <3> HIDE DEF c, x
    <3>5. 0 <= c * n + (x - 1) /\ c * n + (x - 1) < k * n
      <4>1. k \in Int /\ n \in Int /\ c \in Int /\ x - 1 \in Int /\ 0 <= c /\ c < k /\ 0 <= x - 1 /\ x - 1 < n
        BY <3>2, <3>3
      <4> QED BY <4>1, RowAndPlace
    <3>6. c * n + x \in 1 .. k * n
      <4> DEFINE u == c * n
                 w == k * n
      <4>1. u \in Int /\ w \in Int /\ x \in Int /\ 0 <= u + (x - 1) /\ u + (x - 1) < w
        <5>1. c * n \in Int
          BY <3>2, SMT
        <5> QED BY <2>4, <3>3, <3>5, <5>1
      <4> HIDE DEF u, w
      <4>2. u + x \in 1 .. w
        BY <4>1
      <4> QED BY <4>2 DEF u, w
    <3> QED BY <3>4, <3>6
  <2>6. Arranged(b, n, rows) = [b EXCEPT !.ext = <<s>>]
    BY <1>2 DEF Arranged
  <2>7. DOMAIN s = 1 .. k * n /\ s = [i \in 1 .. k * n |-> s[i]]
    BY <2>3
  <2> DEFINE z == k * n
  <2> HIDE DEF s, z
  <2>8. GoodBlock([b EXCEPT !.ext = <<s>>], o, m)
    <3>1. z \in Nat /\ Len(b.ext[1]) = z /\ DOMAIN s = 1 .. z /\ s = [i \in 1 .. z |-> s[i]]
      BY <2>2, <2>4, <2>7 DEF z
    <3>2. \A i \in 1 .. z : \E j \in 1 .. z : s[i] = b.ext[1][j]
      BY <2>5 DEF z
    <3> QED BY <2>1, <3>1, <3>2, Reordered
  <2> QED BY <2>6, <2>8
<1> QED BY <1>1, <1>2

LEMMA SortKeysAre ==
  ASSUME NEW b, NEW by, NEW n \in Nat
  PROVE  KeysSeq(SortKeys(b, by, n), n)
<1> DEFINE key == SortKeys(b, by, n)
           K(i) == KeyOf(KeyAt(b, by, RowsOf(b, by, n)[i]), by)
           all == {K(i) : i \in 1 .. n}
<1>1. key = [i \in 1 .. n |-> K(i)]
  BY DEF SortKeys
<1>2. key \in [1 .. n -> all]
  BY <1>1
<1> HIDE DEF key, K, all
<1>3. Len(key) = n /\ DOMAIN key = 1 .. n
  BY <1>2, LenProperties, IsASeq
<1> QED BY <1>3 DEF KeysSeq, key

LEMMA SortsKeeps ==
  ASSUME IInv, NEW k \in DOMAIN obj, NEW n \in Nat, NEW by, NEW down, NEW rest,
         obj[k].type \in {A, T}, ~IsTable(obj[k]) => n = Height(obj[k]) /\ Len(obj[k].dims) < 3,
         GoodWait(rest, obj, types), Sorts(k, by, n, down, rest), UNCHANGED defs
  PROVE  Keeping /\ Kept(obj, obj')
<1> DEFINE b == obj[k]
           keys == SortKeys(b, by, n)
           c == Arranged(b, n, SORT1(keys, down))
           x == [proc |-> "SORT1", of |-> k, key |-> by, n |-> n, down |-> down]
<1>0. GoodWait(wait, obj, types) /\ GoodObjects(obj, made) /\ GoodBlock(b, obj, made)
  BY BlocksGood DEF Objects
<1>1. CASE todo' = Crash /\ UNCHANGED <<obj, wait>>
  BY <1>0, <1>1, TodoGood, KeptSame DEF Keeping
<1>2. CASE FAIL /\ UNCHANGED obj
  BY <1>2, FailKeeps, WithinKeeping, KeptSame
<1>3. CASE ~(IsTable(b) /\ Len(EntriesOf(b)) < n) /\ Made(c, x) /\ wait' = rest
  <2>1. SORT1(keys, down) \in Rows(n)
    BY SortKeysAre, SORT1Rows
  <2>2. RowsWithin(b, n)
    <3>1. IsTable(b) => Len(EntriesOf(b)) \in Nat
      BY <1>0, EntriesAre
    <3> QED BY <1>3, <3>1 DEF RowsWithin
  <2>3. GoodBlock(c, obj, made)
    BY <1>0, <2>1, <2>2, ArrangedIs
  <2> HIDE DEF c, x
  <2> QED BY <1>3, <2>3, MadeKeeps
<1>4. \/ todo' = Crash /\ UNCHANGED <<obj, wait>>
      \/ FAIL /\ UNCHANGED obj
      \/ ~(IsTable(b) /\ Len(EntriesOf(b)) < n) /\ Made(c, x) /\ wait' = rest
  BY DEF Sorts
<1> QED BY <1>1, <1>2, <1>3, <1>4

LEMMA CountIs ==
  ASSUME NEW o, NEW m, NEW b, GoodBlock(b, o, m), b.type \in {A, T}, IsTable(b) \/ Len(b.dims) < 3
  PROVE  Count(b) \in Nat
<1>1. CASE IsTable(b)
  BY <1>1, CountedAre DEF Count
<1>2. CASE ~IsTable(b)
  <2>1. b.type = A
    BY <1>2 DEF IsTable
  <2> QED BY <1>2, <2>1, ColumnsAre DEF Count
<1> QED BY <1>1, <1>2

LEMMA SortKeeps == ASSUME IInv, SORT PROVE Keeping /\ Kept(obj, obj')
<1>0. UNCHANGED defs /\ GoodWait(wait, obj, types) /\ GoodObjects(obj, made)
  BY BlocksGood DEF SORT
<1>1. CASE FAIL /\ UNCHANGED obj
  BY <1>0, <1>1, FailKeeps, WithinKeeping, KeptSame
<1>2. CASE todo' = Crash /\ UNCHANGED <<obj, wait>>
  BY <1>0, <1>2, TodoGood, KeptSame DEF Keeping
<1>3. ASSUME NEW k \in OfType(A) \cup OfType(T), NEW down \in BOOLEAN,
             IF IsTable(obj[k]) THEN ICNVTA(obj[k]) # 0 ELSE Len(obj[k].dims) < 3 /\ Places(obj[k]) # {},
             \/ Sorts(k, ByColumn(0), Count(obj[k]), down, wait)
             \/ /\ wait' = Append(wait, [proc |-> "SORT1", obj |-> k, n |-> Count(obj[k]), down |-> down])
                /\ UNCHANGED <<obj, todo>>
      PROVE  Keeping /\ Kept(obj, obj')
  <2> DEFINE b == obj[k]
             n == Count(b)
  <2>1. k \in DOMAIN obj /\ k \in Nat /\ GoodBlock(b, obj, made) /\ b.type \in {A, T}
    BY BlocksGood DEF OfType
  <2>2. n \in Nat
    BY <1>3, <2>1, CountIs
  <2>3. ~IsTable(b) => n = Height(b) /\ Len(b.dims) < 3
    BY <1>3 DEF Count
  <2>4. CASE Sorts(k, ByColumn(0), n, down, wait)
    <3> HIDE DEF n
    <3> QED BY <1>0, <2>1, <2>2, <2>3, <2>4, SortsKeeps
  <2>5. CASE /\ wait' = Append(wait, [proc |-> "SORT1", obj |-> k, n |-> n, down |-> down])
             /\ UNCHANGED <<obj, todo>>
    <3> DEFINE w == [proc |-> "SORT1", obj |-> k, n |-> n, down |-> down]
    <3> HIDE DEF n
    <3>1. w \in Frames
      BY <2>1, <2>2, FramesAre
    <3>2. GoodFrame(w, obj, types)
      BY <2>1, <2>3 DEF GoodFrame
    <3>3. GoodWait(Append(wait, w), obj, types)
      BY <1>0, <3>1, <3>2, WaitAppend
    <3>4. GoodTodo(todo, obj)
      BY BlocksGood
    <3> QED BY <1>0, <2>5, <3>3, <3>4, KeptSame DEF Keeping
  <2> QED BY <1>3, <2>4, <2>5
<1> QED BY <1>1, <1>2, <1>3 DEF SORT

(* What a frame holds.                                                     *)
LEMMA FrameIs ==
  ASSUME NEW w \in Frames
  PROVE  /\ w.proc = "SORT1" => w.obj \in Nat /\ w.n \in Nat /\ w.down \in BOOLEAN
         /\ w.proc = "DEFDAT" => /\ w.name \in TypeNames /\ w.args \in Seq(Known) /\ w.left \in Nat
                                 /\ w = [proc |-> "DEFDAT", name |-> w.name, args |-> w.args, left |-> w.left]
         /\ w.proc = "FIELD" => w.f \in FieldNames
         /\ w.proc = "ASGN" /\ w.name # <<>> => w.name[1] \in Nat /\ w.name[2] \in Nat \X Nat
BY DEF Frames

LEMMA SortvKeeps == ASSUME IInv, SORTV PROVE Keeping /\ Kept(obj, obj')
<1> DEFINE w == Last(wait)
           k == w.obj
           by == KeyChosen(obj[k], todo.v)
<1>0. UNCHANGED defs /\ GoodWait(wait, obj, types) /\ GoodObjects(obj, made)
  BY BlocksGood DEF SORTV
<1>1. CASE FAIL /\ UNCHANGED obj
  BY <1>0, <1>1, FailKeeps, WithinKeeping, KeptSame
<1>2. CASE Sorts(k, by[1], w.n, w.down, Front(wait))
  <2>1. wait # <<>> /\ w.proc = "SORT1"
    BY DEF SORTV, Waits
  <2>2. GoodWait(Front(wait), obj, types) /\ w \in Frames /\ GoodFrame(w, obj, types)
    BY <1>0, <2>1, WaitFront
  <2>3. k \in DOMAIN obj /\ obj[k].type \in {A, T} /\ w.n \in Nat
    BY <2>1, <2>2, FrameIs DEF GoodFrame
  <2>4. ~IsTable(obj[k]) => w.n = Height(obj[k]) /\ Len(obj[k].dims) < 3
    BY <2>1, <2>2 DEF GoodFrame
  <2> HIDE DEF w, k, by
  <2> QED BY <1>0, <1>2, <2>2, <2>3, <2>4, SortsKeeps
<1> QED BY <1>1, <1>2 DEF SORTV

-----------------------------------------------------------------------------
(* Objects of DATA().                                                      *)
LEMMA TypeIs ==
  ASSUME IInv, NEW name \in TypeNames, types[name].n > 0
  PROVE  LET d == types[name]
         IN  /\ d.type \in Nat /\ d.n \in Nat /\ d.type >= DATSTA
             /\ d.type - DATSTA + 1 \in DOMAIN made /\ Len(made[d.type - DATSTA + 1]) = d.n
<1> DEFINE d == types[name]
<1>1. d \in [type : Nat, n : Nat]
  BY DEF IInv, SoundTypes
<1>2. d.type - DATSTA + 1 \in DOMAIN made /\ Len(made[d.type - DATSTA + 1]) = d.n
  BY DEF IInv, SoundTypes
<1>3. made \in Seq(Seq(FieldNames))
  BY DEF IInv, SoundTypes
<1>4. d.type - DATSTA + 1 >= 1
  BY <1>2, <1>3, ElementsOf
<1>5. d.type \in Nat /\ d.n \in Nat
  BY <1>1
<1>6. d.type >= DATSTA
  <2> DEFINE t == d.type
  <2>1. t \in Nat /\ t - 100 + 1 >= 1
    BY <1>4, <1>5, Codes
  <2> HIDE DEF t
  <2>2. t >= 100
    BY <2>1
  <2> QED BY <2>2, Codes DEF t
<1> QED BY <1>2, <1>5, <1>6

LEMMA Defd3Keeps == ASSUME IInv, DEFD3 PROVE Keeping /\ Kept(obj, obj')
<1> DEFINE w == Last(wait)
           args == Append(w.args, todo.v)
           d == types[w.name]
<1>0. /\ UNCHANGED defs /\ GoodWait(wait, obj, types) /\ GoodObjects(obj, made)
      /\ wait # <<>> /\ w.proc = "DEFDAT" /\ todo.op = "value" /\ GoodTodo(todo, obj)
  BY BlocksGood DEF DEFD3, Waits
<1>1. GoodWait(Front(wait), obj, types) /\ w \in Frames /\ GoodFrame(w, obj, types)
  BY <1>0, WaitFront
<1>2. /\ w.name \in TypeNames /\ w.args \in Seq(Known) /\ w.left \in Nat
      /\ w = [proc |-> "DEFDAT", name |-> w.name, args |-> w.args, left |-> w.left]
  BY <1>0, <1>1, FrameIs
<1>3. GoodValue(todo.v, obj)
  BY <1>0 DEF GoodTodo
<1>4. d.n > 0 /\ \A i \in DOMAIN w.args : GoodValue(w.args[i], obj)
  BY <1>0, <1>1 DEF GoodFrame
<1>5. args \in Seq(Known) /\ \A i \in DOMAIN args : GoodValue(args[i], obj)
  <2> DEFINE s == w.args
             v == todo.v
  <2>1. s \in Seq(Known) /\ v \in Known /\ DOMAIN s = 1 .. Len(s) /\ Len(s) \in Nat
    BY <1>2, <1>3, GoodNotFree
  <2>2. \A i \in 1 .. Len(s) : GoodValue(s[i], obj)
    BY <1>4, <2>1
  <2> HIDE DEF s, v
  <2>3. /\ Append(s, v) \in Seq(Known) /\ Len(Append(s, v)) = Len(s) + 1
        /\ DOMAIN Append(s, v) = 1 .. Len(s) + 1
        /\ Append(s, v)[Len(s) + 1] = v /\ \A i \in 1 .. Len(s) : Append(s, v)[i] = s[i]
    BY <2>1, AppendProperties
  <2>4. \A i \in 1 .. Len(s) + 1 : i \in 1 .. Len(s) \/ i = Len(s) + 1
    BY <2>1
  <2>5. GoodValue(v, obj)
    BY <1>3 DEF v
  <2>6. \A i \in DOMAIN Append(s, v) : GoodValue(Append(s, v)[i], obj)
    BY <2>2, <2>3, <2>4, <2>5
  <2> QED BY <2>3, <2>6 DEF s, v
<1>6. CASE /\ w.left > 1
           /\ wait' = Append(Front(wait), [w EXCEPT !.args = args, !.left = @ - 1])
           /\ todo' = Fetch /\ UNCHANGED obj
  <2> DEFINE u == [w EXCEPT !.args = args, !.left = @ - 1]
             q == [proc |-> "DEFDAT", name |-> w.name, args |-> args, left |-> w.left - 1]
  <2> HIDE DEF args
  <2>1. u = q
    <3> DEFINE r == [w EXCEPT !.args = args]
    <3> HIDE DEF w
    <3>1. r = [proc |-> "DEFDAT", name |-> w.name, args |-> args, left |-> w.left]
      BY <1>2
    <3>2. u = [r EXCEPT !.left = w.left - 1]
      BY <1>2
    <3> HIDE DEF r, u
    <3>3. u = [proc |-> "DEFDAT", name |-> w.name, args |-> args, left |-> w.left - 1]
      BY <3>1, <3>2
    <3> QED BY <3>3 DEF u, w
  <2>2. w.left - 1 \in Nat
    BY <1>2, <1>6
  <2>3. q \in Frames
    BY <1>2, <1>5, <2>2, FramesAre
  <2>4. GoodFrame(q, obj, types)
    BY <1>4, <1>5 DEF GoodFrame
  <2>5. GoodWait(Append(Front(wait), q), obj, types)
    BY <1>1, <2>3, <2>4, WaitAppend
  <2> QED BY <1>0, <1>6, <2>1, <2>5, TodoGood, KeptSame DEF Keeping
<1>7. CASE /\ Made(Block(d.type, <<>>, <<[i \in 1 .. d.n |-> Slot(Free, Padded(args, d.n)[i])]>>, 0), By("DEFDAT"))
           /\ wait' = Front(wait)
  <2> DEFINE n == d.n
             val == Padded(args, n)
             s == [i \in 1 .. n |-> Slot(Free, val[i])]
  <2>1. /\ d.type \in Nat /\ n \in Nat /\ d.type >= DATSTA
        /\ d.type - DATSTA + 1 \in DOMAIN made /\ Len(made[d.type - DATSTA + 1]) = n
    BY <1>2, <1>4, TypeIs
  <2> HIDE DEF args
  <2>2. \A i \in 1 .. n : GoodValue(val[i], obj) /\ val[i] \in Values
    <3>1. \A i \in 1 .. n : GoodValue(val[i], obj)
      BY <1>5, NullGood DEF Padded
    <3> QED BY <3>1, GoodNotFree
  <2> HIDE DEF n, val
  <2>3. s \in Seq(Slots) /\ Len(s) = n /\ DOMAIN s = 1 .. n
    BY <2>1, <2>2, SlotsOf
  <2>4. \A i \in 1 .. n : GoodValue(s[i].v, obj) /\ s[i].key = Free
    BY <2>2 DEF Slot
  <2> HIDE DEF s
  <2>5. <<>> \in Dims
    BY DEF Dims
  <2> DEFINE t == d.type
  <2>6. /\ t \in Nat /\ t >= DATSTA /\ t - DATSTA + 1 \in DOMAIN made
        /\ Len(made[t - DATSTA + 1]) = Len(s)
    BY <2>1, <2>3
  <2>7. \A i \in DOMAIN s : GoodValue(s[i].v, obj) /\ s[i].key = Free
    BY <2>3, <2>4
  <2> HIDE DEF t
  <2>8. GoodBlock(Block(t, <<>>, <<s>>, 0), obj, made)
    BY <2>3, <2>5, <2>6, <2>7, ArrayGood
  <2>9. Made(Block(t, <<>>, <<s>>, 0), By("DEFDAT"))
    BY <1>7 DEF t, s, val, n
  <2> QED BY <1>0, <1>1, <1>7, <2>8, <2>9, MadeKeeps
<1> QED BY <1>6, <1>7 DEF DEFD3

LEMMA MinIs ==
  ASSUME NEW P \in SUBSET Nat, P # {}
  PROVE  /\ Min(P) \in P /\ \A y \in P : Min(P) <= y
         /\ \A x \in P : (\A y \in P : x <= y) => Min(P) = x
<1>1. \E x \in P : \A y \in P : x <= y
  BY NatLeast
<1>2. Min(P) \in P /\ \A y \in P : Min(P) <= y
  BY <1>1 DEF Min
<1>3. ASSUME NEW x \in P, \A y \in P : x <= y PROVE Min(P) = x
  <2>1. Min(P) <= x /\ x <= Min(P) /\ x \in Nat /\ Min(P) \in Nat
    BY <1>2, <1>3
  <2> DEFINE z == Min(P)
  <2>2. z <= x /\ x <= z /\ x \in Nat /\ z \in Nat
    BY <2>1
  <2> HIDE DEF z
  <2>3. z = x
    BY <2>2
  <2> QED BY <2>3 DEF z
<1> QED BY <1>2, <1>3

(* The index of a type.                                                    *)
LEMMA IndexIs ==
  ASSUME IInv, NEW t \in Nat, t - DATSTA + 1 \in DOMAIN made
  PROVE  /\ t >= DATSTA /\ t < DATSTA + Len(made) /\ DATSTA + (t - DATSTA + 1) - 1 = t
         /\ made[t - DATSTA + 1] \in Seq(FieldNames)
<1>1. made \in Seq(Seq(FieldNames)) /\ Len(made) \in Nat /\ DOMAIN made = 1 .. Len(made)
  <2>1. made \in Seq(Seq(FieldNames))
    BY DEF IInv, SoundTypes
  <2> QED BY <2>1
<1>2. t - DATSTA + 1 \in 1 .. Len(made)
  BY <1>1
<1> DEFINE l == Len(made)
<1>3. t - 100 + 1 \in 1 .. l /\ l \in Nat
  BY <1>1, <1>2, Codes
<1> HIDE DEF l
<1>4. t >= 100 /\ t < 100 + l /\ 100 + (t - 100 + 1) - 1 = t
  BY <1>3
<1>5. made[t - DATSTA + 1] \in Seq(FieldNames)
  BY <1>1, ElementsOf
<1> QED BY <1>4, <1>5, Codes DEF l

(* A field function finds the field in an object that has it.              *)
LEMMA FieldIs ==
  ASSUME IInv, NEW x, GoodValue(x, obj), NEW f \in FieldNames, HasField(x, f)
  PROVE  /\ x.v \in DOMAIN obj /\ obj[x.v].type = x.type /\ IsData(obj[x.v]) /\ ~IsTable(obj[x.v])
         /\ <<1, FieldAt(f, x.type)>> \in Places(obj[x.v])
<1> DEFINE t == x.type
           i == t - DATSTA + 1
           b == obj[x.v]
           pairs == PairsOf(fields[f], t)
           places == {j \in DOMAIN made[i] : made[i][j] = f}
<1>1. IsData(x) /\ pairs # {} /\ x \in Values
  BY GoodNotFree DEF HasField
<1>2. x.v \in DOMAIN obj /\ b.type = t /\ t \in Nat
  BY <1>1 DEF GoodValue, IsValue, Values
<1>3. IsData(b) /\ ~IsTable(b)
  BY <1>1, <1>2, Codes DEF IsData, IsTable
<1>4. GoodBlock(b, obj, made)
  BY <1>2, BlocksGood DEF Objects
<1>5. i \in DOMAIN made /\ Len(b.ext[1]) = Len(made[i]) /\ Len(b.ext) = 1
  BY <1>2, <1>3, <1>4, Codes DEF GoodBlock, FieldsOfType, IsData
<1>6. PICK j \in DOMAIN fields[f] : fields[f][j].type = t
  BY <1>1 DEF PairsOf
<1>7. f \in ToSet(made[i])
  BY <1>6 DEF IInv, SoundTypes
<1>8. made[i] \in Seq(FieldNames)
  BY <1>2, <1>5, IndexIs
<1>9. PICK q \in DOMAIN made[i] : made[i][q] = f
  BY <1>7, <1>8 DEF ToSet
<1>10. DATSTA + i - 1 = t
  BY <1>2, <1>5, IndexIs
<1>11. FieldsFound(t, made, fields)
  BY <1>5, <1>10 DEF IInv, SoundTypes
<1>12. FieldAt(f, t) = Min(places)
  BY <1>9, <1>11 DEF FieldsFound, FieldAt
<1>13. DOMAIN made[i] = 1 .. Len(made[i]) /\ Len(made[i]) \in Nat
  BY <1>8
<1>14. Min(places) \in DOMAIN made[i]
  <2>1. places \in SUBSET Nat /\ places # {}
    BY <1>9, <1>13
  <2> QED BY <2>1, MinIs
<1>15. b.ext \in Seq(Seq(Slots))
  BY <1>4, BlockFacts DEF Slots
<1>16. 1 \in DOMAIN b.ext /\ DOMAIN b.ext[1] = 1 .. Len(made[i])
  <2>1. 1 \in DOMAIN b.ext /\ b.ext[1] \in Seq(Slots)
    BY <1>5, <1>15
  <2> QED BY <1>5, <2>1
<1>17. <<1, Min(places)>> \in Places(b)
  BY <1>13, <1>14, <1>16, PlacesAre
<1> QED BY <1>2, <1>3, <1>12, <1>17

LEMMA Field1Keeps == ASSUME IInv, FIELD1 PROVE Within
<1> DEFINE f == Last(wait).f
           x == todo.v
<1>0. UNCHANGED <<obj, defs>> /\ wait # <<>> /\ Last(wait).proc = "FIELD" /\ todo.op = "value"
  BY DEF FIELD1, Waits
<1>1. CASE FAIL
  BY <1>0, <1>1, FailKeeps
<1>2. CASE /\ HasField(x, f) /\ todo' = Name(x.v, <<1, FieldAt(f, x.type)>>)
           /\ wait' = Front(wait)
  <2>1. GoodWait(Front(wait), obj, types) /\ Last(wait) \in Frames
    BY <1>0, WaitFront, BlocksGood
  <2>2. f \in FieldNames
    BY <1>0, <2>1, FrameIs
  <2>3. GoodValue(x, obj)
    BY <1>0, BlocksGood DEF GoodTodo
  <2>4. x.v \in DOMAIN obj /\ ~IsTable(obj[x.v]) /\ <<1, FieldAt(f, x.type)>> \in Places(obj[x.v])
    BY <1>2, <2>2, <2>3, FieldIs
  <2>5. GoodName(x.v, <<1, FieldAt(f, x.type)>>, obj)
    BY <2>4 DEF GoodName
  <2> QED BY <1>0, <1>2, <2>1, <2>5, TodoGood DEF Within
<1> QED BY <1>1, <1>2 DEF FIELD1

(* What a new type gives to the functions of its fields.                   *)
FieldPairs == [type : Nat, at : Nat]
PairsFit(p, t, at) ==
    /\ p \in Seq(FieldPairs) /\ DOMAIN p = 1 .. Len(p) /\ Len(p) \in Nat
    /\ \A n \in DOMAIN p : p[n].type = t /\ at # {}
    /\ at # {} => Len(p) > 0 /\ p[1].at = Min(at)

LEMMA PairsForIs ==
  ASSUME NEW names \in Seq(FieldNames), NEW f, NEW t \in Nat
  PROVE  PairsFit(PairsFor(t, names, f), t, {j \in DOMAIN names : names[j] = f})
<1> DEFINE at == {j \in DOMAIN names : names[j] = f}
           Q == {<<1, i>> : i \in at}
           s == Ordered(Q)
           p == [n \in DOMAIN s |-> [type |-> t, at |-> s[n][2]]]
<1>0. DOMAIN names = 1 .. Len(names) /\ Len(names) \in Nat
  OBVIOUS
<1>1. at \in SUBSET (1 .. Len(names)) /\ at \in SUBSET Nat
  BY <1>0
<1>2. IsFiniteSet(Q) /\ Q \in SUBSET (Nat \X Nat)
  <2>0. \A n \in Nat : IsFiniteSet(1 .. n)
    BY FS_Interval
  <2>1. IsFiniteSet(1 .. Len(names)) /\ IsFiniteSet({1})
    BY <1>0, <2>0, FS_Singleton
  <2>2. IsFiniteSet({1} \X (1 .. Len(names)))
    BY <2>1, FS_Product
  <2>3. Q \in SUBSET ({1} \X (1 .. Len(names)))
    BY <1>1
  <2>4. IsFiniteSet(Q)
    BY <2>2, <2>3, FS_Subset
  <2>5. Q \in SUBSET (Nat \X Nat)
    BY <1>1
  <2> QED BY <2>4, <2>5
<1>3. \A z : z \in Q <=> z = <<1, z[2]>> /\ z[2] \in at
  OBVIOUS
<1> HIDE DEF Q
<1>4. /\ s \in Seq(Q) /\ DOMAIN s = 1 .. Len(s) /\ Len(s) \in Nat
      /\ \A x \in Q : \E i \in DOMAIN s : s[i] = x
      /\ \A i, j \in DOMAIN s : i < j => Earlier(s[i], s[j])
  BY <1>2, OrderedPlaces
<1> HIDE DEF s
<1>5. \A n \in DOMAIN s : s[n] = <<1, s[n][2]>> /\ s[n][2] \in at
  BY <1>3, <1>4
<1>6. PairsFor(t, names, f) = p
  BY DEF PairsFor, p, s, Q
<1> HIDE DEF at
<1>7. \A n \in 1 .. Len(s) : p[n] = [type |-> t, at |-> s[n][2]] /\ p[n] \in [type : Nat, at : Nat]
  BY <1>1, <1>4, <1>5
<1>8. p \in [1 .. Len(s) -> [type : Nat, at : Nat]]
  BY <1>4, <1>7
<1> DEFINE l == Len(s)
<1>9. l \in Nat /\ DOMAIN s = 1 .. l /\ p \in [1 .. l -> [type : Nat, at : Nat]]
  BY <1>4, <1>8
<1>10. \A n \in 1 .. l : p[n].type = t /\ p[n].at = s[n][2] /\ at # {}
  BY <1>5, <1>7, <1>9
<1> HIDE DEF p, l
<1>11. p \in Seq([type : Nat, at : Nat]) /\ Len(p) = l /\ DOMAIN p = 1 .. l
  <2> DEFINE X == [type : Nat, at : Nat]
  <2>1. l \in Nat /\ p \in [1 .. l -> X]
    BY <1>9
  <2> HIDE DEF X
  <2>2. p \in Seq(X) /\ Len(p) = l /\ DOMAIN p = 1 .. l
    BY <2>1, LenProperties, IsASeq
  <2> QED BY <2>2 DEF X
<1>12. ASSUME at # {} PROVE l > 0 /\ p[1].at = Min(at)
  <2>1. PICK i \in at : TRUE
    BY <1>12
  <2>2. <<1, i>> \in Q
    BY <1>3, <2>1
  <2>3. l > 0 /\ 1 \in DOMAIN s
    BY <1>4, <1>9, <2>2
  <2> DEFINE z == s[1][2]
  <2>4. z \in at /\ s[1] = <<1, z>>
    BY <1>5, <2>3
  <2>5. ASSUME NEW y \in at PROVE z <= y
    <3>1. <<1, y>> \in Q
      BY <1>3
    <3>2. PICK k \in DOMAIN s : s[k] = <<1, y>>
      BY <1>4, <3>1
    <3>3. k = 1 \/ 1 < k
      BY <1>9
    <3>4. CASE k = 1
      <4>1. z = y
        BY <3>2, <3>4
      <4>2. y \in Nat
        BY <1>1
      <4> QED BY <4>1, <4>2
    <3>5. CASE 1 < k
      <4>1. Earlier(<<1, z>>, <<1, y>>)
        BY <1>4, <2>3, <2>4, <3>2, <3>5
      <4>3. z \in Nat /\ y \in Nat
        BY <1>1, <2>4
      <4>2. z < y /\ z \in Nat /\ y \in Nat
        <5> HIDE DEF z
        <5> QED BY <4>1, <4>3 DEF Earlier
      <4> QED BY <4>2
    <3> QED BY <3>3, <3>4, <3>5
  <2>6. Min(at) = z
    <3> HIDE DEF z
    <3> QED BY <1>1, <2>4, <2>5, MinIs
  <2>7. p[1].at = z
    BY <1>9, <1>10, <2>3
  <2> QED BY <2>3, <2>6, <2>7
<1> HIDE DEF at
<1>13. PairsFit(p, t, at)
  BY <1>9, <1>10, <1>11, <1>12 DEF PairsFit, FieldPairs
<1> QED BY <1>6, <1>13 DEF at

(* A list of pairs to which those of a new type are added.                 *)
AugmentedWith(a, l, p, t) ==
    /\ a \in Seq(FieldPairs)
    /\ \A j \in DOMAIN a : (j \in DOMAIN l /\ a[j] = l[j]) \/ (a[j].type = t /\ Len(p) > 0)
    /\ \A u : u # t => PairsOf(a, u) = PairsOf(l, u) /\ \A j \in PairsOf(l, u) : a[j] = l[j]
    /\ Len(p) > 0 => PairsOf(a, t) # {} /\ a[Min(PairsOf(a, t))] = p[1]
    /\ PairsOf(a, t) \subseteq DOMAIN a

LEMMA Augmented ==
  ASSUME NEW l \in Seq(FieldPairs), NEW p \in Seq(FieldPairs), NEW t,
         \A j \in DOMAIN l : l[j].type # t, \A n \in DOMAIN p : p[n].type = t
  PROVE  AugmentedWith(AUGATL(l, p), l, p, t)
<1> DEFINE a == l \o p
           x == Len(l)
           y == Len(p)
<1>1. /\ a \in Seq(FieldPairs) /\ x \in Nat /\ y \in Nat /\ DOMAIN l = 1 .. x /\ DOMAIN p = 1 .. y
      /\ DOMAIN a = 1 .. x + y
  <2>1. a \in Seq(FieldPairs) /\ Len(a) = x + y /\ DOMAIN l = 1 .. x /\ DOMAIN p = 1 .. y
    BY ConcatProperties
  <2> QED BY <2>1
<1>2. \A i \in 1 .. x + y : a[i] = IF i <= x THEN l[i] ELSE p[i - x]
  BY ConcatProperties
<1>3. a = AUGATL(l, p)
  BY DEF AUGATL
<1>4. x \in Nat /\ y \in Nat
  BY <1>1
<1> HIDE DEF a, x, y
<1>5. \A j \in 1 .. x : j \in 1 .. x + y /\ a[j] = l[j]
  BY <1>2, <1>4
<1>6. ASSUME NEW j \in 1 .. x + y, ~(j <= x) PROVE a[j] = p[j - x] /\ a[j].type = t /\ j - x \in 1 .. y /\ y > 0
  <2>1. j - x \in 1 .. y /\ y > 0
    BY <1>4, <1>6
  <2>2. a[j] = p[j - x]
    BY <1>2, <1>6
  <2>3. p[j - x].type = t
    BY <1>1, <2>1
  <2> QED BY <2>1, <2>2, <2>3
<1>7. \A j \in DOMAIN a : (j \in DOMAIN l /\ a[j] = l[j]) \/ (a[j].type = t /\ y > 0)
  <2> SUFFICES ASSUME NEW j \in 1 .. x + y PROVE (j \in 1 .. x /\ a[j] = l[j]) \/ (a[j].type = t /\ y > 0)
    BY <1>1
  <2>1. j \in 1 .. x \/ ~(j <= x)
    BY <1>4
  <2>2. CASE j \in 1 .. x
    <3>1. a[j] = l[j]
      BY <1>5, <2>2
    <3> QED BY <2>2, <3>1
  <2>3. CASE ~(j <= x)
    <3>1. a[j].type = t /\ y > 0
      BY <1>6, <2>3
    <3> QED BY <3>1
  <2> QED BY <2>1, <2>2, <2>3
<1>8. ASSUME NEW u, u # t PROVE PairsOf(a, u) = PairsOf(l, u) /\ \A j \in PairsOf(l, u) : a[j] = l[j]
  <2>1. \A j \in PairsOf(a, u) : j \in PairsOf(l, u)
    BY <1>7, <1>8 DEF PairsOf
  <2>2. \A j \in PairsOf(l, u) : j \in DOMAIN a /\ a[j] = l[j]
    BY <1>1, <1>5 DEF PairsOf
  <2>3. \A j \in PairsOf(l, u) : j \in PairsOf(a, u)
    BY <2>2 DEF PairsOf
  <2> QED BY <2>1, <2>2, <2>3
<1>9. ASSUME y > 0 PROVE PairsOf(a, t) # {} /\ a[Min(PairsOf(a, t))] = p[1]
  <2> DEFINE z == x + 1
  <2>1. z \in 1 .. x + y /\ ~(z <= x) /\ z - x = 1 /\ z \in Nat
    BY <1>4, <1>9
  <2>a. \A j \in PairsOf(a, t) : ~(j \in 1 .. x) /\ j \in 1 .. x + y => z <= j
    BY <1>4
  <2> HIDE DEF z
  <2>2. a[z] = p[z - x] /\ a[z].type = t
    BY <1>6, <2>1
  <2>b. a[z] = p[1]
    BY <2>1, <2>2
  <2>3. z \in PairsOf(a, t)
    BY <1>1, <2>1, <2>2 DEF PairsOf
  <2>4. \A j \in PairsOf(a, t) : j \in Nat /\ ~(j \in 1 .. x)
    BY <1>1, <1>5 DEF PairsOf
  <2>5. \A j \in PairsOf(a, t) : j \in 1 .. x + y
    BY <1>1 DEF PairsOf
  <2>6. \A j \in PairsOf(a, t) : z <= j
    BY <2>a, <2>4, <2>5
  <2>7. Min(PairsOf(a, t)) = z
    <3>1. PairsOf(a, t) \in SUBSET Nat
      BY <2>4
    <3> QED BY <2>3, <2>6, <3>1, MinIs
  <2> QED BY <2>b, <2>3, <2>7
<1>10. PairsOf(a, t) \subseteq DOMAIN a
  BY DEF PairsOf
<1>11. AugmentedWith(a, l, p, t)
  BY <1>1, <1>7, <1>8, <1>9, <1>10 DEF y, AugmentedWith
<1> QED BY <1>3, <1>11

LEMMA TypesAfter ==
  ASSUME NEW m, NEW y, NEW f, SoundTypes(m, y, f), NEW d \in Defs, NEW z,
         z = y \/ (d.good /\ z = [y EXCEPT ![d.name] = [type |-> DATSTA + Len(m), n |-> Len(d.fields)]])
  PROVE  LET n == Append(m, d.fields)
             g == [h \in FieldNames |-> AUGATL(f[h], PairsFor(DATSTA + Len(m), d.fields, h))]
         IN  /\ SoundTypes(n, z, g)
             /\ \A i \in DOMAIN m : i \in DOMAIN n /\ n[i] = m[i]
             /\ \A name \in TypeNames : y[name].n > 0 => z[name].n > 0
<1> DEFINE n == Append(m, d.fields)
           l == Len(m)
           t == DATSTA + l
           new == d.fields
           p == [h \in FieldNames |-> PairsFor(t, new, h)]
           g == [h \in FieldNames |-> AUGATL(f[h], p[h])]
<1>1. m \in Seq(Seq(FieldNames)) /\ y \in [TypeNames -> [type : Nat, n : Nat]] /\ f \in [FieldNames -> Seq(FieldPairs)]
  BY DEF SoundTypes, FieldPairs
<1>2. new \in Seq(FieldNames) /\ d.name \in TypeNames /\ (d.good => Len(new) > 0) /\ Len(new) \in Nat
  <2>1. new \in Seq(Values) /\ (d.good => new # <<>>)
    BY DefsAssumption
  <2>2. \A i \in 1 .. Len(new) : new[i] \in FieldNames
    BY <2>1 DEF ToSet, FieldNames
  <2>3. new \in Seq(FieldNames)
    BY <2>1, <2>2, SeqType
  <2>4. d.name \in TypeNames
    BY DEF TypeNames
  <2> QED BY <2>1, <2>3, <2>4
<1>3. /\ n \in Seq(Seq(FieldNames)) /\ DOMAIN n = 1 .. l + 1 /\ n[l + 1] = new
      /\ \A i \in 1 .. l : n[i] = m[i]
      /\ DOMAIN m = 1 .. l /\ l \in Nat
  <2>1. l \in Nat /\ DOMAIN m = 1 .. l
    BY <1>1
  <2>2. /\ n \in Seq(Seq(FieldNames)) /\ Len(n) = l + 1 /\ n[l + 1] = new
        /\ \A i \in 1 .. l : n[i] = m[i]
    BY <1>1, <1>2, AppendProperties
  <2> QED BY <2>1, <2>2
<1>4. t \in Nat /\ t - DATSTA + 1 = l + 1 /\ l + 1 \in DOMAIN n /\ DATSTA + (l + 1) - 1 = t
  BY <1>3, Codes
<1> HIDE DEF n, l
<1>5. \A i \in DOMAIN m : i \in DOMAIN n /\ n[i] = m[i]
  BY <1>3
<1>6. \A i \in DOMAIN n : i \in DOMAIN m \/ i = l + 1
  BY <1>3
<1>7. z \in [TypeNames -> [type : Nat, n : Nat]] /\ \A name \in TypeNames :
        LET i == z[name].type - DATSTA + 1
        IN  z[name].n > 0 => i \in DOMAIN n /\ Len(n[i]) = z[name].n
  <2>1. CASE z = y
    BY <1>1, <1>5, <2>1 DEF SoundTypes
  <2>2. CASE d.good /\ z = [y EXCEPT ![d.name] = [type |-> t, n |-> Len(new)]]
    <3>1. z \in [TypeNames -> [type : Nat, n : Nat]]
      <4>1. [type |-> t, n |-> Len(new)] \in [type : Nat, n : Nat]
        BY <1>2, <1>4
      <4> HIDE DEF t
      <4> QED BY <1>1, <2>2, <4>1
    <3>2. \A name \in TypeNames : z[name] = IF name = d.name THEN [type |-> t, n |-> Len(new)] ELSE y[name]
      BY <1>1, <2>2
    <3> HIDE DEF t
    <3>3. ASSUME NEW name \in TypeNames, z[name].n > 0
          PROVE  z[name].type - DATSTA + 1 \in DOMAIN n /\ Len(n[z[name].type - DATSTA + 1]) = z[name].n
      <4>1. CASE name = d.name
        <5>1. z[name].type = t /\ z[name].n = Len(new)
          BY <3>2, <4>1
        <5> QED BY <1>3, <1>4, <5>1
      <4>2. CASE name # d.name
        <5>1. z[name] = y[name]
          BY <3>2, <4>2
        <5>2. y[name].type - DATSTA + 1 \in DOMAIN m /\ Len(m[y[name].type - DATSTA + 1]) = y[name].n
          BY <3>3, <5>1 DEF SoundTypes
        <5> QED BY <1>5, <5>1, <5>2
      <4> QED BY <4>1, <4>2
    <3> QED BY <3>1, <3>3
  <2> QED BY <2>1, <2>2 DEF t, l
<1>8. \A name \in TypeNames : y[name].n > 0 => z[name].n > 0
  <2>1. CASE z = y
    BY <2>1
  <2>2. CASE d.good /\ z = [y EXCEPT ![d.name] = [type |-> t, n |-> Len(new)]]
    <3>1. \A name \in TypeNames : z[name] = IF name = d.name THEN [type |-> t, n |-> Len(new)] ELSE y[name]
      BY <1>1, <2>2
    <3> HIDE DEF t
    <3> QED BY <1>2, <2>2, <3>1
  <2> QED BY <2>1, <2>2 DEF t, l
<1>9. ASSUME NEW h \in FieldNames
      PROVE  LET a == g[h]
                 at == {j \in DOMAIN new : new[j] = h}
             IN  /\ a \in Seq(FieldPairs)
                 /\ \A j \in DOMAIN a : (j \in DOMAIN f[h] /\ a[j] = f[h][j]) \/ (a[j].type = t /\ at # {})
                 /\ \A u : u # t => PairsOf(a, u) = PairsOf(f[h], u) /\ \A j \in PairsOf(f[h], u) : a[j] = f[h][j]
                 /\ at # {} => PairsOf(a, t) # {} /\ a[Min(PairsOf(a, t))].at = Min(at)
  <2> DEFINE q == PairsFor(t, new, h)
             at == {j \in DOMAIN new : new[j] = h}
             b == f[h]
  <2>1. /\ q \in Seq(FieldPairs) /\ DOMAIN q = 1 .. Len(q) /\ Len(q) \in Nat
        /\ \A k \in DOMAIN q : q[k].type = t /\ at # {}
        /\ at # {} => Len(q) > 0 /\ q[1].at = Min(at)
    <3>1. new \in Seq(FieldNames) /\ t \in Nat
      BY <1>2, <1>4
    <3> HIDE DEF t, new
    <3>2. PairsFit(PairsFor(t, new, h), t, {k \in DOMAIN new : new[k] = h})
      BY <3>1, PairsForIs
    <3>3. PairsFit(q, t, at)
      BY <3>2
    <3> HIDE DEF q, at
    <3> QED BY <3>3 DEF PairsFit
  <2>2. b \in Seq(FieldPairs)
    BY <1>1
  <2>3. \A j \in DOMAIN b : b[j].type # t
    <3> SUFFICES ASSUME NEW j \in DOMAIN b, b[j].type = t PROVE FALSE
      OBVIOUS
    <3>1. b[j].type - DATSTA + 1 \in DOMAIN m
      BY DEF SoundTypes
    <3>2. l + 1 \in 1 .. l
      BY <1>3, <1>4, <3>1
    <3> QED BY <1>3, <3>2
  <2>4. g[h] = AUGATL(b, q)
    OBVIOUS
  <2> HIDE DEF q, b, at, t, g
  <2> DEFINE a == AUGATL(b, q)
  <2>5. /\ a \in Seq(FieldPairs)
        /\ \A j \in DOMAIN a : (j \in DOMAIN b /\ a[j] = b[j]) \/ (a[j].type = t /\ Len(q) > 0)
        /\ \A u : u # t => PairsOf(a, u) = PairsOf(b, u) /\ \A j \in PairsOf(b, u) : a[j] = b[j]
        /\ Len(q) > 0 => PairsOf(a, t) # {} /\ a[Min(PairsOf(a, t))] = q[1]
    <3>1. \A k \in DOMAIN q : q[k].type = t
      BY <2>1
    <3>2. q \in Seq(FieldPairs)
      BY <2>1
    <3>3. AugmentedWith(a, b, q, t)
      BY <2>2, <2>3, <3>1, <3>2, Augmented
    <3> HIDE DEF a
    <3> QED BY <3>3 DEF AugmentedWith
  <2> HIDE DEF a
  <2>6. Len(q) > 0 => at # {}
    <3>1. Len(q) > 0 => 1 \in DOMAIN q
      BY <2>1
    <3> QED BY <2>1, <3>1
  <2> QED BY <2>1, <2>4, <2>5, <2>6 DEF a, b, at
<1> HIDE DEF p, t
<1>10. g \in [FieldNames -> Seq(FieldPairs)]
  BY <1>9
<1> HIDE DEF g
<1>11. ASSUME NEW h \in FieldNames, NEW j \in DOMAIN g[h]
       PROVE  LET i == g[h][j].type - DATSTA + 1 IN i \in DOMAIN n /\ h \in ToSet(n[i])
  <2>1. CASE j \in DOMAIN f[h] /\ g[h][j] = f[h][j]
    <3> DEFINE i == f[h][j].type - DATSTA + 1
    <3>1. i \in DOMAIN m /\ h \in ToSet(m[i])
      BY <2>1 DEF SoundTypes
    <3> QED BY <1>5, <2>1, <3>1
  <2>2. CASE g[h][j].type = t /\ {k \in DOMAIN new : new[k] = h} # {}
    <3>1. h \in ToSet(new)
      BY <1>2, <2>2 DEF ToSet
    <3>2. g[h][j].type - DATSTA + 1 = l + 1
      BY <1>4, <2>2
    <3> QED BY <1>3, <1>4, <3>1, <3>2
  <2> QED BY <1>9, <2>1, <2>2
<1>12. ASSUME NEW i \in DOMAIN n PROVE FieldsFound(DATSTA + i - 1, n, g)
  <2> DEFINE u == DATSTA + i - 1
  <2>1. u - DATSTA + 1 = i
    BY <1>3, Codes
  <2>2. CASE i \in DOMAIN m
    <3>1. FieldsFound(u, m, f)
      BY <2>2 DEF SoundTypes
    <3>2. u # t
      BY <1>3, <1>4, <2>2, Codes
    <3>3. n[i] = m[i] /\ m[i] \in Seq(FieldNames)
      BY <1>1, <1>5, <2>2, ElementsOf
    <3> HIDE DEF u
    <3> DEFINE w == n[u - DATSTA + 1]
    <3>5. w = m[i]
      BY <2>1, <3>3
    <3>0. m[u - DATSTA + 1] = m[i]
      BY <2>1
    <3> HIDE DEF w
    <3>4. ASSUME NEW k \in DOMAIN w
          PROVE  LET pairs == PairsOf(g[w[k]], u)
                 IN  /\ pairs # {}
                     /\ g[w[k]][Min(pairs)].at = Min({j \in DOMAIN w : w[j] = w[k]})
      <4> DEFINE h == m[i][k]
                 pairs == PairsOf(f[h], u)
                 at == {j \in DOMAIN m[i] : m[i][j] = h}
                 at0 == {j \in DOMAIN w : w[j] = w[k]}
      <4>1. h \in FieldNames /\ w[k] = h /\ k \in DOMAIN m[i]
        BY <3>3, <3>5, ElementsOf
      <4>a. at0 = at
        BY <3>5
      <4>2. pairs # {} /\ f[h][Min(pairs)].at = Min(at)
        <5> DEFINE x == m[u - DATSTA + 1]
        <5>1. k \in DOMAIN x /\ x[k] = h
          BY <3>0, <4>1
        <5>2. {j \in DOMAIN x : x[j] = x[k]} = at
          BY <3>0
        <5>3. LET ps == PairsOf(f[x[k]], u)
              IN  ps # {} /\ f[x[k]][Min(ps)].at = Min({j \in DOMAIN x : x[j] = x[k]})
          BY <3>1, <5>1 DEF FieldsFound
        <5> HIDE DEF x, h, at
        <5> QED BY <5>1, <5>2, <5>3
      <4>3. PairsOf(g[h], u) = pairs /\ \A j \in pairs : g[h][j] = f[h][j]
        BY <1>9, <3>2, <4>1
      <4>4. Min(pairs) \in pairs
        <5>1. f[h] \in Seq(FieldPairs)
          BY <1>1, <4>1
        <5>2. pairs \in SUBSET Nat
          BY <5>1 DEF PairsOf
        <5> HIDE DEF pairs
        <5> QED BY <4>2, <5>2, MinIs
      <4> HIDE DEF h, at
      <4> QED BY <4>1, <4>a, <4>2, <4>3, <4>4
    <3>6. FieldsFound(u, n, g)
      BY <3>4 DEF FieldsFound, w
    <3> QED BY <3>6 DEF u
  <2>3. CASE i = l + 1
    <3>1. u = t /\ n[i] = new
      BY <1>3, <1>4, <2>3
    <3> DEFINE w == n[t - DATSTA + 1]
    <3>5. w = new
      BY <1>3, <1>4
    <3> HIDE DEF u, w
    <3>2. ASSUME NEW k \in DOMAIN w
          PROVE  LET pairs == PairsOf(g[w[k]], t)
                 IN  /\ pairs # {}
                     /\ g[w[k]][Min(pairs)].at = Min({j \in DOMAIN w : w[j] = w[k]})
      <4> DEFINE h == w[k]
                 at == {j \in DOMAIN new : new[j] = h}
      <4>1. h \in FieldNames
        BY <1>2, <3>5, ElementsOf
      <4>2. {j \in DOMAIN w : w[j] = w[k]} = at
        BY <3>5
      <4>3. at # {}
        BY <3>2, <3>5
      <4>4. at # {} => PairsOf(g[h], t) # {} /\ g[h][Min(PairsOf(g[h], t))].at = Min(at)
        <5> HIDE DEF h
        <5> QED BY <1>9, <4>1
      <4> HIDE DEF at
      <4> QED BY <4>2, <4>3, <4>4
    <3>6. FieldsFound(t, n, g)
      BY <3>2 DEF FieldsFound, w
    <3> QED BY <3>1, <3>6 DEF u
  <2> QED BY <1>6, <2>2, <2>3
<1>13. SoundTypes(n, z, g)
  BY <1>3, <1>7, <1>10, <1>11, <1>12 DEF SoundTypes, FieldPairs
<1> QED BY <1>5, <1>8, <1>13 DEF n, g, p, t, l

LEMMA DatdefKeeps == ASSUME IInv, DATDEF PROVE IInv'
<1>1. PICK d \in Defs :
         LET t == DATSTA + Len(made)
         IN  /\ made' = Append(made, d.fields)
             /\ fields' = [f \in FieldNames |-> AUGATL(fields[f], PairsFor(t, d.fields, f))]
             /\ IF d.good THEN types' = [types EXCEPT ![d.name] = [type |-> t, n |-> Len(d.fields)]]
                              /\ todo' = Value(Null) /\ UNCHANGED wait
                ELSE FAIL /\ UNCHANGED types
  BY DEF DATDEF
<1>2. obj' = obj /\ todo.op = "fetch"
  BY DEF DATDEF, Fetches
<1>3. types' = types \/ (d.good /\ types' = [types EXCEPT ![d.name] = [type |-> DATSTA + Len(made), n |-> Len(d.fields)]])
  BY <1>1
<1>4. /\ SoundTypes(made', types', fields')
      /\ \A i \in DOMAIN made : i \in DOMAIN made' /\ made'[i] = made[i]
      /\ \A name \in TypeNames : types[name].n > 0 => types'[name].n > 0
  BY <1>1, <1>3, TypesAfter DEF IInv
<1>5. GoodObjects(obj, made')
  <2> SUFFICES ASSUME NEW k \in DOMAIN obj PROVE GoodBlock(obj[k], obj, made')
    BY DEF IInv, GoodObjects
  <2>1. GoodBlock(obj[k], obj, made)
    BY DEF IInv, GoodObjects
  <2>2. IsData(obj[k]) => obj[k].type - DATSTA + 1 \in DOMAIN made
    BY <2>1, Codes DEF GoodBlock, IsData
  <2> QED BY <1>4, <2>1, <2>2 DEF GoodBlock, FieldsOfType
<1>6. GoodTodo(todo', obj)
  BY <1>1, NullGood DEF GoodTodo, Value, FAIL, Fetch
<1>7. GoodWait(wait', obj, types')
  <2>1. CASE wait' = wait
    <3> SUFFICES ASSUME NEW i \in DOMAIN wait PROVE GoodFrame(wait[i], obj, types')
      BY <2>1 DEF IInv, GoodWait
    <3>1. GoodFrame(wait[i], obj, types) /\ wait[i] \in Frames
      BY ElementsOf DEF IInv, GoodWait
    <3>2. wait[i].proc = "DEFDAT" => wait[i].name \in TypeNames
      BY <3>1, FrameIs
    <3> QED BY <1>4, <3>1, <3>2 DEF GoodFrame
  <2>2. CASE wait' = <<>>
    BY <2>2, WaitEmpty
  <2> QED BY <1>1, <2>1, <2>2 DEF FAIL
<1> QED BY <1>2, <1>4, <1>5, <1>6, <1>7 DEF IInv

LEMMA SoundGood ==
  ASSUME NEW o \in Seq(Blocks), NEW m, m \in Seq(Seq(FieldNames)), NEW k \in DOMAIN o,
         Sound(o[k], o, m),
         ExactNumbers => \A p \in Places(o[k]) : At(o[k], p).v \in Sortable /\ At(o[k], p).key \in Sortable
  PROVE  GoodBlock(o[k], o, m)
<1> DEFINE b == o[k]
<1>1. b \in Blocks
  BY ElementsOf
<1> HIDE DEF b
<1>2. ASSUME b.type - DATSTA + 1 \in DOMAIN m PROVE IsData(b)
  <2>1. b.type \in Nat
    BY <1>1 DEF Blocks
  <2>2. DOMAIN m = 1 .. Len(m) /\ Len(m) \in Nat
    OBVIOUS
  <2> DEFINE t == b.type
             l == Len(m)
  <2>3. t - 100 + 1 \in 1 .. l /\ l \in Nat /\ t \in Nat
    BY <1>2, <2>1, <2>2, Codes
  <2> HIDE DEF t, l
  <2>4. t >= 100
    BY <2>3
  <2> QED BY <2>4, Codes DEF IsData, t
<1>3. ASSUME NEW p \in Places(b)
      PROVE  GoodValue(At(b, p).v, o) /\ (At(b, p).key = Free \/ GoodValue(At(b, p).key, o))
  <2>1. IsValue(At(b, p).v, o) /\ (At(b, p).key = Free \/ IsValue(At(b, p).key, o))
    BY DEF Sound, b
  <2>2. ExactNumbers => At(b, p).v \in Sortable /\ At(b, p).key \in Sortable
    BY DEF b
  <2> QED BY <2>1, <2>2 DEF GoodValue, Known, IsValue
<1>4. IsTable(b) => GoodTable(b)
  BY DEF Sound, GoodTable, KeyedOnce, b
<1>5. /\ b.type \in {A, T} \/ b.type - DATSTA + 1 \in DOMAIN m
      /\ ~IsTable(b) => Len(b.ext) = 1
      /\ b.type = A => ~IsTable(b)
      /\ ~IsTable(b) /\ b.type = A => b.dims # <<>> /\ Len(b.ext[1]) = Elements(b.dims)
      /\ IsData(b) => ~IsTable(b) /\ FieldsOfType(b, m)
  <2>1. b.type = A => ~IsTable(b)
    BY Codes DEF IsTable
  <2>2. IsData(b) => ~IsTable(b)
    BY <1>1, Codes DEF IsTable, IsData
  <2> QED BY <2>1, <2>2 DEF Sound, b
<1>6. GoodBlock(b, o, m)
  BY <1>1, <1>2, <1>3, <1>4, <1>5 DEF GoodBlock
<1> QED BY <1>6 DEF b

LEMMA InitInv == Init => IInv
<1> SUFFICES ASSUME Init PROVE IInv
  OBVIOUS
<1>1. PICK s \in Starts : /\ obj = s.obj /\ made = s.made /\ types = s.types
                          /\ fields = s.fields /\ wait = <<>> /\ todo = Fetch
  BY DEF Init
<1>2. /\ obj \in Seq(Blocks) /\ SoundTypes(made, types, fields)
      /\ \A k \in DOMAIN obj : Sound(obj[k], obj, made)
  BY <1>1, StartsAssumption
<1>3. made \in Seq(Seq(FieldNames))
  BY <1>2 DEF SoundTypes
<1>4. ASSUME NEW k \in DOMAIN obj PROVE GoodBlock(obj[k], obj, made)
  <2>1. ExactNumbers => \A p \in Places(obj[k]) : At(obj[k], p).v \in Sortable /\ At(obj[k], p).key \in Sortable
    BY <1>1 DEF ExactNumbers
  <2> QED BY <1>2, <1>3, <2>1, SoundGood
<1> QED BY <1>1, <1>2, <1>4, TodoGood, WaitEmpty DEF IInv, GoodObjects

LEMMA NextInv == ASSUME IInv, [Next]_vars PROVE IInv'
<1>1. CASE ITEM
  BY <1>1, ItemKeeps, KeepingKeeps
<1>2. CASE Dereferenced
  BY <1>2, DereferencedKeeps, WithinKeeping, KeepingKeeps
<1>3. CASE StatementEnds
  BY <1>3, StatementEndsKeeps, WithinKeeping, KeepingKeeps
<1>4. CASE Operand
  BY <1>4, OperandKeeps, WithinKeeping, KeepingKeeps
<1>5. CASE ASGN
  BY <1>5, ASGNKeeps, WithinKeeping, KeepingKeeps
<1>6. CASE ASGNN
  BY <1>6, AsgnnKeeps, WithinKeeping, KeepingKeeps
<1>7. CASE ASGNV
  BY <1>7, AsgnvKeeps, KeepingKeeps
<1>8. CASE ASSOC
  BY <1>8, AssocKeeps, KeepingKeeps
<1>9. CASE ARRAY
  BY <1>9, ArrayKeeps, KeepingKeeps
<1>10. CASE COPY
  BY <1>10, CopyKeeps, KeepingKeeps
<1>11. CASE FREEZE \/ THAW
  BY <1>11, FreezeKeeps, KeepingKeeps
<1>12. CASE CNVTA
  BY <1>12, CnvtaKeeps, KeepingKeeps
<1>13. CASE CNVAT
  BY <1>13, CnvatKeeps, KeepingKeeps
<1>14. CASE SORT
  BY <1>14, SortKeeps, KeepingKeeps
<1>15. CASE SORTV
  BY <1>15, SortvKeeps, KeepingKeeps
<1>16. CASE DATDEF
  BY <1>16, DatdefKeeps
<1>17. CASE DEFDAT
  BY <1>17, DefdatKeeps, WithinKeeping, KeepingKeeps
<1>18. CASE DEFD3
  BY <1>18, Defd3Keeps, KeepingKeeps
<1>19. CASE FIELD
  BY <1>19, FieldKeeps, WithinKeeping, KeepingKeeps
<1>20. CASE FIELD1
  BY <1>20, Field1Keeps, WithinKeeping, KeepingKeeps
<1>21. CASE UNCHANGED vars
  BY <1>21 DEF vars, IInv
<1> QED BY <1>1, <1>2, <1>3, <1>4, <1>5, <1>6, <1>7, <1>8, <1>9, <1>10, <1>11, <1>12, <1>13,
           <1>14, <1>15, <1>16, <1>17, <1>18, <1>19, <1>20, <1>21 DEF Next

(* What the steps above keep: every block is what its maker makes, with    *)
(* values that refer to blocks of their type, the types and field          *)
(* functions fit, and what waits for a value still finds its block and its *)
(* element (ASSOC, ARRAY, DATDEF, ITEM, SORT1, DEFDAT).                    *)
THEOREM Sane == Spec => []IInv
<1>1. IInv /\ [Next]_vars => IInv'
  BY NextInv
<1> QED BY <1>1, InitInv, PTL DEF Spec

(* As far as arrays of equal keys are not made tables, a key is in one     *)
(* slot of a table and the free slots are the last, whatever extents ASSCR *)
(* has added and whatever became of the names of elements.                 *)
THEOREM KeysOnce == ASSUME "duplicates" \notin Defects PROVE Spec => []OneSlot
<1>1. IInv => OneSlot
  <2> SUFFICES ASSUME IInv, NEW k \in OfType(T) PROVE KeyedOnce(obj[k])
    BY DEF OneSlot
  <2>1. k \in Objects /\ IsTable(obj[k])
    BY DEF OfType, IsTable
  <2>2. GoodTable(obj[k])
    BY <2>1, BlocksGood DEF GoodBlock
  <2> QED BY <2>2 DEF GoodTable, KeyedOnce
<1> QED BY <1>1, Sane, PTL

(* Objects have the fields of their types and each field function finds    *)
(* its own, whatever DATA() has defined since, with mistakes or without    *)
(* (DATDEF, DEFD4, FIELD1).                                                *)
THEOREM FieldsFoundRight == Spec => []FieldsRight
<1>1. IInv => FieldsRight
  <2> SUFFICES ASSUME IInv, NEW k \in Objects, IsData(obj[k])
               PROVE  FieldsOfType(obj[k], made) /\ FieldsFound(obj[k].type, made, fields)
    BY DEF FieldsRight
  <2>1. GoodBlock(obj[k], obj, made)
    BY BlocksGood
  <2> DEFINE t == obj[k].type
             i == t - DATSTA + 1
  <2>2. t \in Nat /\ i \in DOMAIN made
    BY <2>1, Codes DEF GoodBlock, IsData, Blocks
  <2>3. DATSTA + i - 1 = t
    BY <2>2, IndexIs
  <2>4. FieldsFound(t, made, fields)
    BY <2>2, <2>3 DEF IInv, SoundTypes
  <2> QED BY <2>1, <2>4 DEF GoodBlock
<1> QED BY <1>1, Sane, PTL

-----------------------------------------------------------------------------
(* What is returned by whom.                                               *)
LEMMA ReturnedBy ==
  ASSUME Next, todo'.op = "value", todo'.by.proc \in {"CNVTA", "SORT1"}
  PROVE  \/ \E k \in OfType(T) : /\ Made(Filling(obj[k], ICNVTA(obj[k])), [proc |-> "CNVTA", of |-> k])
                                 /\ UNCHANGED <<wait, made, types, fields>>
         \/ SORT \/ SORTV
<1>1. ASSUME NEW b, NEW p, Made(b, By(p)), p \notin {"CNVTA", "SORT1"} PROVE FALSE
  BY <1>1 DEF Made, By
<1>2. ASSUME NEW v, todo' = Value(v) PROVE FALSE
  BY <1>2 DEF Value, By
<1>3. ASSUME todo' = Fetch \/ todo' = Crash \/ \E k, at : todo' = Name(k, at) PROVE FALSE
  BY <1>3 DEF Fetch, Crash, Name
<1>4. ~FAIL
  BY <1>3 DEF FAIL
<1>5. ~(todo.op = "fetch" /\ UNCHANGED todo)
  OBVIOUS
<1>6. CASE ITEM
  BY <1>2, <1>3, <1>4, <1>6 DEF ITEM, ItemTable
<1>7. CASE Dereferenced \/ StatementEnds \/ Operand
  BY <1>2, <1>3, <1>7 DEF Dereferenced, StatementEnds, Operand
<1>8. CASE ASGN \/ DEFDAT \/ FIELD
  BY <1>5, <1>8 DEF ASGN, DEFDAT, FIELD, Fetches
<1>9. CASE ASGNN \/ ASGNV
  BY <1>2, <1>3, <1>4, <1>9 DEF ASGNN, ASGNV
<1>10. CASE ASSOC
  BY <1>1, <1>4, <1>10 DEF ASSOC
<1>11. CASE ARRAY
  BY <1>1, <1>4, <1>11 DEF ARRAY
<1>17. CASE COPY
  BY <1>1, <1>4, <1>17 DEF COPY
<1>12. CASE FREEZE \/ THAW \/ DATDEF
  BY <1>2, <1>4, <1>12 DEF FREEZE, THAW, DATDEF
<1>13. CASE CNVTA
  BY <1>4, <1>13 DEF CNVTA, defs
<1>14. CASE CNVAT
  BY <1>1, <1>3, <1>4, <1>14 DEF CNVAT
<1>15. CASE DEFD3
  BY <1>1, <1>3, <1>15 DEF DEFD3
<1>16. CASE FIELD1
  BY <1>3, <1>4, <1>16 DEF FIELD1
<1> QED BY <1>6, <1>7, <1>8, <1>9, <1>10, <1>11, <1>12, <1>13, <1>14, <1>15, <1>16, <1>17 DEF Next

(* CONVERT() of a table.                                                   *)
RowIn(x, i) == <<x.ext[1][i].v, x.ext[1][Height(x) + i].v>>
Converted(x, b) ==
    /\ {RowIn(x, i) : i \in 1 .. Height(x)} = {<<At(b, p).key, At(b, p).v>> : p \in NotNull(b)}
    /\ \A i, j \in 1 .. Height(x) : RowIn(x, i)[1] = RowIn(x, j)[1] => i = j

LEMMA ConvertedIs ==
  ASSUME NEW o, NEW m, NEW b, GoodBlock(b, o, m), IsTable(b), "duplicates" \notin Defects
  PROVE  Converted(FromPlaces(b, EntriesOf(b)), b)
<1> DEFINE s == EntriesOf(b)
           c == FromPlaces(b, s)
           n == Len(s)
           Row(p) == <<At(b, p).key, At(b, p).v>>
<1>1. /\ s \in Seq(Places(b)) /\ n \in Nat /\ DOMAIN s = 1 .. n
      /\ \A i \in DOMAIN s : s[i] \in NotNull(b) /\ s[i] \in Places(b) /\ At(b, s[i]).key # Free
      /\ \A x \in NotNull(b) : \E i \in DOMAIN s : s[i] = x
      /\ \A i, j \in DOMAIN s : s[i] = s[j] => i = j
  BY EntriesAre
<1>2. /\ Height(c) = n
      /\ \A i \in 1 .. n : /\ c.ext[1][i] = Slot(Free, At(b, s[i]).key)
                           /\ c.ext[1][n + i] = Slot(Free, At(b, s[i]).v)
  BY <1>1, FromPlacesIs
<1> HIDE DEF c, s, n
<1>3. ASSUME NEW i \in 1 .. n PROVE RowIn(c, i) = Row(s[i])
  <2>1. c.ext[1][i].v = At(b, s[i]).key /\ c.ext[1][n + i].v = At(b, s[i]).v
    <3>1. c.ext[1][i] = Slot(Free, At(b, s[i]).key) /\ c.ext[1][n + i] = Slot(Free, At(b, s[i]).v)
      BY <1>2, <1>3
    <3>2. \A x, y : Slot(x, y).v = y
      BY DEF Slot
    <3> QED BY <3>1, <3>2
  <2> QED BY <1>2, <2>1 DEF RowIn
<1>4. {RowIn(c, i) : i \in 1 .. n} = {Row(p) : p \in NotNull(b)}
  <2> HIDE DEF Row
  <2>1. \A i \in 1 .. n : \E p \in NotNull(b) : RowIn(c, i) = Row(p)
    BY <1>1, <1>3
  <2>2. \A p \in NotNull(b) : \E i \in 1 .. n : RowIn(c, i) = Row(p)
    <3> SUFFICES ASSUME NEW p \in NotNull(b) PROVE \E i \in 1 .. n : RowIn(c, i) = Row(p)
      OBVIOUS
    <3>1. PICK i \in 1 .. n : s[i] = p
      BY <1>1
    <3>2. RowIn(c, i) = Row(p)
      BY <1>3, <3>1
    <3> QED BY <3>2
  <2> QED BY <2>1, <2>2
<1>5. ASSUME NEW i \in 1 .. n, NEW j \in 1 .. n, RowIn(c, i)[1] = RowIn(c, j)[1] PROVE i = j
  <2>1. At(b, s[i]).key = At(b, s[j]).key
    BY <1>3, <1>5
  <2>2. s[i] \in Places(b) /\ s[j] \in Places(b) /\ At(b, s[i]).key # Free
    BY <1>1
  <2>3. s[i] = s[j]
    BY <2>1, <2>2 DEF GoodBlock, GoodTable
  <2> QED BY <1>1, <2>3
<1>6. Converted(c, b)
  BY <1>2, <1>4, <1>5 DEF Converted
<1> QED BY <1>6 DEF c, s

(* CONVERT() of a table gives a row for every key that has a value, no     *)
(* other and none twice, as far as no array of equal keys was made a table *)
(* (CNVTA): what the loop back over the slots of the extents counts is     *)
(* what the loop forward over them finds, and so many rows are filled.     *)
THEOREM AllConverted == ASSUME "duplicates" \notin Defects PROVE Spec => []ConvertsAll
<1>1. Init => ConvertsAll
  <2>1. ASSUME Init PROVE todo.op = "fetch"
    BY <2>1 DEF Init, Fetch
  <2> QED BY <2>1 DEF ConvertsAll
<1>2. ASSUME IInv, ConvertsAll, [Next]_vars PROVE ConvertsAll'
  <2>1. CASE UNCHANGED vars
    <3>1. obj' = obj /\ todo' = todo
      BY <2>1 DEF vars
    <3> SUFFICES ASSUME todo'.op = "value", todo'.by.proc = "CNVTA"
                 PROVE  Converted(obj'[todo'.v.v], obj'[todo'.by.of])
      BY DEF ConvertsAll, Converted, RowIn
    <3>2. Converted(obj[todo.v.v], obj[todo.by.of])
      BY <1>2, <3>1 DEF ConvertsAll, Converted, RowIn
    <3> QED BY <3>1, <3>2
  <2>2. CASE Next
    <3> SUFFICES ASSUME todo'.op = "value", todo'.by.proc = "CNVTA"
                 PROVE  Converted(obj'[todo'.v.v], obj'[todo'.by.of])
      BY DEF ConvertsAll, Converted, RowIn
    <3>1. CASE SORT \/ SORTV
      <4>1. ASSUME NEW k, NEW by, NEW n, NEW down, NEW rest, Sorts(k, by, n, down, rest) PROVE FALSE
        BY <4>1 DEF Sorts, Made, Crash, FAIL, Fetch
      <4>2. ~FAIL /\ todo' # Crash
        BY DEF FAIL, Fetch, Crash
      <4>3. ~(todo.op = "fetch" /\ UNCHANGED todo)
        OBVIOUS
      <4> QED BY <3>1, <4>1, <4>2, <4>3 DEF SORT, SORTV, Fetches
    <3>2. ASSUME NEW k \in OfType(T),
                 Made(Filling(obj[k], ICNVTA(obj[k])), [proc |-> "CNVTA", of |-> k]),
                 UNCHANGED <<wait, made, types, fields>>
          PROVE  Converted(obj'[todo'.v.v], obj'[todo'.by.of])
      <4> DEFINE c == FromPlaces(obj[k], EntriesOf(obj[k]))
                 by == [proc |-> "CNVTA", of |-> k]
      <4>1. GoodBlock(obj[k], obj, made) /\ IsTable(obj[k]) /\ k \in DOMAIN obj
        BY <1>2, BlocksGood DEF OfType, IsTable
      <4>2. Converted(c, obj[k])
        BY <4>1, ConvertedIs
      <4>3. GoodBlock(c, obj, made)
        <5>1. /\ EntriesOf(obj[k]) \in Seq(Places(obj[k]))
              /\ \A i \in DOMAIN EntriesOf(obj[k]) : At(obj[k], EntriesOf(obj[k])[i]).key # Free
          BY <4>1, EntriesAre
        <5> QED BY <4>1, <5>1, FromPlacesIs
      <4>4. Made(c, by)
        BY <3>2, <4>1, FillingIs
      <4> HIDE DEF c, by
      <4>5. obj'[Len(obj) + 1] = c /\ obj'[k] = obj[k]
        BY <1>2, <3>2, <4>1, <4>3, <4>4, BlocksGood, MadeKeeps DEF defs
      <4>6. todo'.v.v = Len(obj) + 1 /\ todo'.by = by
        BY <4>4 DEF Made
      <4>7. todo'.by.of = k
        BY <4>6 DEF by
      <4> QED BY <4>2, <4>5, <4>6, <4>7
    <3> QED BY <2>2, <3>1, <3>2, ReturnedBy
  <2> QED BY <1>2, <2>1, <2>2
<1> QED BY <1>1, <1>2, Sane, PTL DEF Spec

-----------------------------------------------------------------------------
(* What rows are compared by, in the objects o with the field functions g. *)
HasIn(g, x, f) == IsData(x) /\ PairsOf(g[f], x.type) # {}
GetIn(o, g, x, f) == o[x.v].ext[1][g[f][Min(PairsOf(g[f], x.type))].at].v
StepIn(o, g, x, f) == IF HasIn(g, x, f) THEN GetIn(o, g, x, f) ELSE x
FollowedIn(o, g, v, f) ==
    LET after[n \in 0 .. Len(o)] == IF n = 0 THEN v ELSE StepIn(o, g, after[n - 1], f)
    IN  after[Len(o)]
KeyIn(o, g, v, by) == IF by.field THEN FollowedIn(o, g, v, by.f) ELSE v
KeysIn(o, g, b, by, n) == [i \in 1 .. n |-> KeyIn(o, g, KeyAt(b, by, RowsOf(b, by, n)[i]), by)]

LEMMA FollowedSame ==
  ASSUME NEW v, NEW f
  PROVE  /\ Followed(v, f) = FollowedIn(obj, fields, v, f)
         /\ Followed(v, f)' = FollowedIn(obj', fields', v, f)
BY DEF Followed, FollowedIn, StepIn, HasIn, GetIn, HasField, FieldOf, FieldAt

LEMMA KeysSame ==
  ASSUME NEW b, NEW by, NEW n
  PROVE  /\ SortKeys(b, by, n) = KeysIn(obj, fields, b, by, n)
         /\ SortKeys(b, by, n)' = KeysIn(obj', fields', b, by, n)
BY FollowedSame DEF SortKeys, KeysIn, KeyOf, KeyIn

Trail(a, dom, o, g, v, f) ==
    /\ a \in [0 .. Len(o) -> dom] /\ a[0] = v
    /\ \A k \in 1 .. Len(o) : a[k] = StepIn(o, g, a[k - 1], f)

LEMMA FollowedSteps ==
  ASSUME NEW dom, NEW v \in dom, NEW o, Len(o) \in Nat, NEW g, NEW f,
         \A x \in dom : StepIn(o, g, x, f) \in dom
  PROVE  \E a : Trail(a, dom, o, g, v, f) /\ FollowedIn(o, g, v, f) = a[Len(o)]
<1> DEFINE N == Len(o)
           next == [x \in dom |-> StepIn(o, g, x, f)]
           step == [k \in 1 .. N |-> next]
           E(a) == [k \in 0 .. N |-> IF k = 0 THEN v ELSE StepIn(o, g, a[k - 1], f)]
           after == CHOOSE a : a = E(a)
<1>1. N \in Nat
  OBVIOUS
<1>2. step \in [1 .. N -> [dom -> dom]]
  OBVIOUS
<1>3. PICK a \in [0 .. N -> dom] : a[0] = v /\ \A k \in 1 .. N : a[k] = step[k][a[k - 1]]
  <2> HIDE DEF step, N, E, after
  <2>2. \E a \in [0 .. N -> dom] : a[0] = v /\ \A k \in 1 .. N : a[k] = step[k][a[k - 1]]
    BY <1>1, <1>2, Recursion, SMTT(30)
  <2> QED BY <2>2
<1>4. \A k \in 1 .. N : a[k - 1] \in dom /\ a[k] = StepIn(o, g, a[k - 1], f)
  <2> SUFFICES ASSUME NEW k \in 1 .. N
               PROVE  a[k - 1] \in dom /\ a[k] = StepIn(o, g, a[k - 1], f)
    OBVIOUS
  <2>1. k - 1 \in 0 .. N
    BY <1>1
  <2> QED BY <1>3, <2>1
<1>5. a = E(a)
  BY <1>3, <1>4
<1>6. after = E(after)
  BY <1>5
<1> HIDE DEF N, after
<1>7. after[0] = v /\ \A k \in 1 .. N : after[k] = StepIn(o, g, after[k - 1], f)
  <2>1. 0 \in 0 .. N /\ \A k \in 1 .. N : k \in 0 .. N /\ k # 0
    BY <1>1
  <2> QED BY <1>6, <2>1
<1>8. 0 .. N \subseteq {k \in 0 .. N : after[k] = a[k]}
  <2>1. 0 \in {k \in 0 .. N : after[k] = a[k]}
    BY <1>1, <1>3, <1>7
  <2>2. ASSUME NEW m \in 1 .. N, m - 1 \in {k \in 0 .. N : after[k] = a[k]}
        PROVE  m \in {k \in 0 .. N : after[k] = a[k]}
    BY <1>1, <1>4, <1>7, <2>2
  <2> QED BY <1>1, <2>1, <2>2, Counting
<1>9. after[N] = a[N]
  BY <1>1, <1>8
<1>10. FollowedIn(o, g, v, f) = after[N]
  BY DEF FollowedIn, after, N
<1>11. Trail(a, dom, o, g, v, f)
  BY <1>3, <1>4 DEF Trail, N
<1> QED BY <1>9, <1>10, <1>11 DEF N

(* Fields lead from values to values, which no new object changes.         *)
GoodValues == {x \in Known : IsValue(x, obj)}

LEMMA StepGood ==
  ASSUME IInv, NEW f \in FieldNames, NEW x \in GoodValues
  PROVE  StepIn(obj, fields, x, f) \in GoodValues /\ (HasIn(fields, x, f) => x.v \in DOMAIN obj)
<1>1. GoodValue(x, obj)
  BY DEF GoodValues, GoodValue
<1>2. CASE ~HasIn(fields, x, f)
  BY <1>2 DEF StepIn
<1>3. CASE HasIn(fields, x, f)
  <2>1. HasField(x, f)
    BY <1>3 DEF HasIn, HasField
  <2>2. x.v \in DOMAIN obj /\ <<1, FieldAt(f, x.type)>> \in Places(obj[x.v])
    BY <1>1, <2>1, FieldIs
  <2>3. GoodValue(At(obj[x.v], <<1, FieldAt(f, x.type)>>).v, obj)
    BY <2>2, BlocksGood DEF Objects, GoodBlock
  <2>4. StepIn(obj, fields, x, f) = At(obj[x.v], <<1, FieldAt(f, x.type)>>).v
    BY <1>3 DEF StepIn, GetIn, At, FieldAt
  <2> QED BY <2>2, <2>3, <2>4 DEF GoodValues, GoodValue
<1> QED BY <1>2, <1>3

LEMMA FollowedGood ==
  ASSUME IInv, NEW f \in FieldNames, NEW v, GoodValue(v, obj)
  PROVE  GoodValue(FollowedIn(obj, fields, v, f), obj)
<1>1. v \in GoodValues /\ Len(obj) \in Nat
  BY BlocksGood DEF GoodValues, GoodValue
<1>2. PICK a : Trail(a, GoodValues, obj, fields, v, f) /\ FollowedIn(obj, fields, v, f) = a[Len(obj)]
  BY <1>1, StepGood, FollowedSteps
<1>3. a[Len(obj)] \in GoodValues
  BY <1>1, <1>2 DEF Trail
<1> QED BY <1>2, <1>3 DEF GoodValues, GoodValue

LEMMA FollowedStays ==
  ASSUME IInv, NEW f \in FieldNames, NEW v, GoodValue(v, obj), NEW n, Len(n) = Len(obj) + 1,
         \A k \in DOMAIN obj : n[k] = obj[k], ~IsData(FollowedIn(obj, fields, v, f))
  PROVE  FollowedIn(n, fields, v, f) = FollowedIn(obj, fields, v, f)
<1> DEFINE l == Len(obj)
           Next1(x) == StepIn(obj, fields, x, f)
<1>1. v \in GoodValues /\ l \in Nat
  BY BlocksGood DEF GoodValues, GoodValue
<1>2. PICK a : Trail(a, GoodValues, obj, fields, v, f) /\ FollowedIn(obj, fields, v, f) = a[l]
  BY <1>1, StepGood, FollowedSteps
<1>3. \A x \in GoodValues : StepIn(n, fields, x, f) = Next1(x) /\ Next1(x) \in GoodValues
  <2> SUFFICES ASSUME NEW x \in GoodValues PROVE StepIn(n, fields, x, f) = Next1(x)
    BY StepGood
  <2>1. HasIn(fields, x, f) => n[x.v] = obj[x.v]
    BY StepGood
  <2> QED BY <2>1 DEF StepIn, GetIn
<1>4. PICK c : Trail(c, GoodValues, n, fields, v, f) /\ FollowedIn(n, fields, v, f) = c[l + 1]
  <2>1. Len(n) \in Nat /\ \A x \in GoodValues : StepIn(n, fields, x, f) \in GoodValues
    BY <1>1, <1>3
  <2> HIDE DEF l
  <2>2. \E c : Trail(c, GoodValues, n, fields, v, f) /\ FollowedIn(n, fields, v, f) = c[Len(n)]
    BY <1>1, <2>1, FollowedSteps
  <2> QED BY <2>2 DEF l
<1> HIDE DEF l, Next1
<1>5. /\ a \in [0 .. l -> GoodValues] /\ a[0] = v /\ \A k \in 1 .. l : a[k] = Next1(a[k - 1])
      /\ c \in [0 .. l + 1 -> GoodValues] /\ c[0] = v
      /\ \A k \in 1 .. l + 1 : c[k] = StepIn(n, fields, c[k - 1], f)
  BY <1>2, <1>4 DEF Trail, l, Next1
<1>6. \A k \in 1 .. l + 1 : c[k] = Next1(c[k - 1])
  <2> SUFFICES ASSUME NEW k \in 1 .. l + 1 PROVE c[k] = Next1(c[k - 1])
    OBVIOUS
  <2>1. k - 1 \in 0 .. l + 1
    BY <1>1
  <2> QED BY <1>3, <1>5, <2>1
<1>7. 0 .. l \subseteq {k \in 0 .. l : c[k] = a[k]}
  <2>1. 0 \in {k \in 0 .. l : c[k] = a[k]}
    BY <1>1, <1>5
  <2>2. ASSUME NEW m \in 1 .. l, m - 1 \in {k \in 0 .. l : c[k] = a[k]}
        PROVE  m \in {k \in 0 .. l : c[k] = a[k]}
    BY <1>1, <1>5, <1>6, <2>2
  <2> QED BY <1>1, <2>1, <2>2, Counting
<1>8. c[l] = a[l]
  BY <1>1, <1>7
<1>9. c[l + 1] = Next1(a[l])
  <2> DEFINE z == l + 1
  <2>1. z \in 1 .. l + 1 /\ z - 1 = l
    BY <1>1
  <2> HIDE DEF z
  <2>2. c[z] = Next1(c[z - 1])
    BY <1>6, <2>1
  <2>3. c[z] = Next1(a[l])
    BY <1>8, <2>1, <2>2
  <2> QED BY <2>3 DEF z
<1>10. Next1(a[l]) = a[l]
  BY <1>2 DEF StepIn, HasIn, Next1
<1> QED BY <1>2, <1>4, <1>9, <1>10

(* The keys of rows: those of a column, or the ends of what the field of   *)
(* the values in an array of one dimension leads to.                       *)
Chosen(b, by) ==
    \/ by.field = FALSE /\ by.c \in Nat /\ by.c < IF IsTable(b) THEN 2 ELSE Columns(b)
    \/ by.field = TRUE /\ by.c = 0 /\ by.f \in FieldNames /\ ~IsTable(b) /\ Len(b.dims) = 1

LEMMA ChosenIs ==
  ASSUME NEW o, NEW m, NEW b, GoodBlock(b, o, m), b.type \in {A, T}, IsTable(b) \/ Len(b.dims) < 3
  PROVE  /\ Places(b) # {} => Chosen(b, ByColumn(0))
         /\ \A v \in Values : KeyChosen(b, v) # <<>> => Chosen(b, KeyChosen(b, v)[1])
<1>1. CASE IsTable(b)
  <2>1. Chosen(b, ByColumn(0))
    BY <1>1 DEF Chosen, ByColumn
  <2>2. ASSUME NEW v \in Values, KeyChosen(b, v) # <<>> PROVE Chosen(b, KeyChosen(b, v)[1])
    <3>1. v.v - 1 \in 0 .. 2 - 1 /\ KeyChosen(b, v) = <<ByColumn(v.v - 1)>>
      BY <1>1, <2>2 DEF KeyChosen
    <3> DEFINE c == v.v - 1
    <3>2. c \in Nat /\ c < 2
      BY <3>1
    <3>3. KeyChosen(b, v)[1] = ByColumn(c)
      BY <3>1
    <3> HIDE DEF c
    <3> QED BY <1>1, <3>2, <3>3 DEF Chosen, ByColumn
  <2> QED BY <2>1, <2>2
<1>2. CASE ~IsTable(b)
  <2>1. b.type = A
    BY <1>2 DEF IsTable
  <2>2. /\ Columns(b) \in Nat /\ Height(b) \in Nat /\ Len(b.dims) \in 1 .. 2 /\ b.dims \in Dims
        /\ Len(b.ext[1]) = Columns(b) * Height(b)
    BY <1>2, <2>1, ColumnsAre
  <2>3. ASSUME Places(b) # {} PROVE Chosen(b, ByColumn(0))
    <3>1. PICK p \in Places(b) : TRUE
      BY <2>3
    <3>2. p[1] \in DOMAIN b.ext /\ p[2] \in DOMAIN b.ext[p[1]]
      BY PlacesAre
    <3>3. b.ext \in Seq(Seq(Slots)) /\ Len(b.ext) = 1
      BY <1>2, BlockFacts DEF GoodBlock, Slots
    <3>4. p[1] = 1 /\ b.ext[1] \in Seq(Slots)
      BY <3>2, <3>3
    <3>5. Len(b.ext[1]) \in Nat /\ Len(b.ext[1]) # 0
      BY <3>2, <3>4
    <3>6. Columns(b) # 0
      BY <2>2, <3>5
    <3>7. 0 < Columns(b)
      BY <2>2, <3>6
    <3> QED BY <1>2, <3>7 DEF Chosen, ByColumn
  <2>4. ASSUME NEW v \in Values, KeyChosen(b, v) # <<>> PROVE Chosen(b, KeyChosen(b, v)[1])
    <3> DEFINE low == IF Len(b.dims) = 1 THEN 1 ELSE b.dims[2].low
               c == v.v - low
               n == Columns(b)
    <3>1. \/ c \in 0 .. n - 1 /\ KeyChosen(b, v) = <<ByColumn(c)>>
          \/ v \in FieldNames /\ Len(b.dims) = 1 /\ KeyChosen(b, v) = <<ByField(v)>>
      BY <1>2, <2>4 DEF KeyChosen
    <3>2. c \in 0 .. n - 1 => c \in Nat /\ c < n
      <4> HIDE DEF c, n
      <4>1. n \in Nat
        BY <2>2 DEF n
      <4> QED BY <4>1
    <3>3. CASE c \in 0 .. n - 1 /\ KeyChosen(b, v) = <<ByColumn(c)>>
      <4>1. c \in Nat /\ c < n /\ KeyChosen(b, v)[1] = ByColumn(c)
        BY <3>2, <3>3
      <4> HIDE DEF c
      <4> QED BY <1>2, <4>1 DEF Chosen, ByColumn
    <3>4. CASE v \in FieldNames /\ Len(b.dims) = 1 /\ KeyChosen(b, v) = <<ByField(v)>>
      BY <1>2, <3>4 DEF Chosen, ByField
    <3> QED BY <3>1, <3>3, <3>4
  <2> QED BY <2>3, <2>4
<1> QED BY <1>1, <1>2

LEMMA KeyPlaces ==
  ASSUME NEW o, NEW m, NEW b, GoodBlock(b, o, m), NEW n \in Nat, RowsWithin(b, n), NEW by, Chosen(b, by),
         NEW i \in 1 .. n
  PROVE  GoodValue(KeyAt(b, by, RowsOf(b, by, n)[i]), o)
<1>1. CASE IsTable(b)
  <2> DEFINE s == EntriesOf(b)
  <2>1. /\ s \in Seq(Places(b)) /\ Len(s) \in Nat /\ DOMAIN s = 1 .. Len(s)
        /\ \A j \in DOMAIN s : s[j] \in Places(b) /\ At(b, s[j]).key # Free
    BY <1>1, EntriesAre
  <2>2. n <= Len(s)
    BY <1>1 DEF RowsWithin
  <2>3. RowsOf(b, by, n) = SubSeq(s, 1, n)
    BY <1>1 DEF RowsOf
  <2> HIDE DEF s
  <2>4. i \in DOMAIN s /\ SubSeq(s, 1, n)[i] = s[i]
    <3>1. i \in DOMAIN s
      BY <2>1, <2>2
    <3>2. SubSeq(s, 1, n)[i] = s[i]
      BY <2>1, <2>2
    <3> QED BY <3>1, <3>2
  <2>5. RowsOf(b, by, n)[i] \in Places(b) /\ At(b, RowsOf(b, by, n)[i]).key # Free
    BY <2>1, <2>3, <2>4
  <2> QED BY <2>5 DEF KeyAt, GoodBlock
<1>2. CASE ~IsTable(b)
  <2> DEFINE k == Columns(b)
             c == by.c
  <2>1. b.type = A /\ n = Height(b) /\ Len(b.dims) < 3
    BY <1>2 DEF RowsWithin, IsTable
  <2>2. k \in Nat /\ Len(b.ext[1]) = k * n
    BY <2>1, ColumnsAre
  <2>3. c \in Nat /\ c < k
    BY <1>2, <2>1 DEF Chosen, Columns
  <2>4. RowsOf(b, by, n)[i] = <<1, c * n + i>>
    BY <1>2 DEF RowsOf
  <2> HIDE DEF c, k
  <2>5. c * n + i \in 1 .. k * n
    <3> DEFINE u == c * n
               w == k * n
    <3>1. 0 <= c * n + (i - 1) /\ c * n + (i - 1) < k * n
      <4>1. k \in Int /\ n \in Int /\ c \in Int /\ i - 1 \in Int /\ 0 <= c /\ c < k /\ 0 <= i - 1 /\ i - 1 < n
        BY <2>2, <2>3
      <4> QED BY <4>1, RowAndPlace
    <3>2. u \in Int /\ w \in Int
      BY <2>2, <2>3, SMT
    <3>3. 0 <= u + (i - 1) /\ u + (i - 1) < w
      BY <3>1
    <3> HIDE DEF u, w
    <3>4. u + i \in 1 .. w
      BY <3>2, <3>3
    <3> QED BY <3>4 DEF u, w
  <2> DEFINE z == c * n + i
             w == k * n
  <2>6. z \in 1 .. w /\ Len(b.ext[1]) = w
    BY <2>2, <2>5
  <2> HIDE DEF z, w
  <2>7. b.ext \in Seq(Seq(Slots)) /\ Len(b.ext) = 1
    BY <1>2, BlockFacts DEF GoodBlock, Slots
  <2>8. 1 \in DOMAIN b.ext /\ b.ext[1] \in Seq(Slots)
    BY <2>7
  <2>9. <<1, z>> \in Places(b)
    BY <2>6, <2>8, PlacesAre
  <2>10. RowsOf(b, by, n)[i] \in Places(b)
    BY <2>4, <2>9 DEF z
  <2> QED BY <1>2, <2>10 DEF KeyAt, GoodBlock
<1> QED BY <1>1, <1>2

LEMMA KeysInSeq ==
  ASSUME NEW o, NEW g, NEW b, NEW by, NEW n \in Nat
  PROVE  /\ KeysSeq(KeysIn(o, g, b, by, n), n)
         /\ \A i \in 1 .. n : KeysIn(o, g, b, by, n)[i] = KeyIn(o, g, KeyAt(b, by, RowsOf(b, by, n)[i]), by)
<1> DEFINE key == KeysIn(o, g, b, by, n)
           K(i) == KeyIn(o, g, KeyAt(b, by, RowsOf(b, by, n)[i]), by)
           all == {K(i) : i \in 1 .. n}
<1>1. key = [i \in 1 .. n |-> K(i)]
  BY DEF KeysIn
<1>2. key \in [1 .. n -> all] /\ \A i \in 1 .. n : key[i] = K(i)
  BY <1>1
<1> HIDE DEF key, K, all
<1>3. Len(key) = n /\ DOMAIN key = 1 .. n
  BY <1>2, LenProperties, IsASeq
<1> QED BY <1>2, <1>3 DEF KeysSeq, key, K

LEMMA FewInOrder ==
  ASSUME NEW n \in Nat, n <= 1, NEW r \in Rows(n), NEW key, KeysSeq(key, n), NEW down
  PROVE  InOrder(r, key, down)
<1>1. r \in [1 .. n -> 1 .. n] /\ Len(r) = n /\ DOMAIN r = 1 .. n
  BY RowsType
<1>2. Len(key) = n /\ DOMAIN key = 1 .. n
  BY DEF KeysSeq
<1>3. n = 0 \/ n = 1
  OBVIOUS
<1>4. \A i \in 1 .. n : i = 1 /\ n = 1
  BY <1>3
<1>5. ToSet(r) = 1 .. n
  <2>1. \A i \in 1 .. n : r[i] = i
    BY <1>1, <1>4
  <2> QED BY <1>1, <2>1 DEF ToSet
<1>6. \A i, j \in DOMAIN r : ~(i < j)
  BY <1>1, <1>4
<1> QED BY <1>1, <1>2, <1>5, <1>6 DEF InOrder

SortedBy(o, g, by, x) ==
    \E rows \in [1 .. by.n -> 1 .. by.n] :
      /\ InOrder(rows, KeysIn(o, g, o[by.of], by.key, by.n), by.down)
      /\ o[x].ext = Arranged(o[by.of], by.n, rows).ext

LEMMA SortsRight ==
  ASSUME IInv, ExactNumbers, NEW k \in DOMAIN obj, NEW n \in Nat, NEW by, NEW down \in BOOLEAN, NEW rest,
         obj[k].type \in {A, T}, ~IsTable(obj[k]) => n = Height(obj[k]) /\ Len(obj[k].dims) < 3,
         Chosen(obj[k], by), GoodWait(rest, obj, types), Sorts(k, by, n, down, rest), UNCHANGED defs,
         todo'.op = "value"
  PROVE  SortedBy(obj', fields', todo'.by, todo'.v.v)
<1> DEFINE b == obj[k]
           keys == KeysIn(obj, fields, b, by, n)
           rows == SORT1(keys, down)
           c == Arranged(b, n, rows)
           x == [proc |-> "SORT1", of |-> k, key |-> by, n |-> n, down |-> down]
           V(i) == KeyAt(b, by, RowsOf(b, by, n)[i])
<1>0. GoodBlock(b, obj, made)
  BY BlocksGood DEF Objects
<1>1. /\ ~(IsTable(b) /\ Len(EntriesOf(b)) < n) /\ Made(c, x) /\ wait' = rest
      /\ ~(n > 1 /\ by.field /\ \E i \in 1 .. n : IsData(keys[i]))
  <2>1. SortKeys(b, by, n) = keys
    BY KeysSame
  <2>2. todo' # Crash /\ ~FAIL
    BY DEF Crash, FAIL, Fetch
  <2> QED BY <2>1, <2>2 DEF Sorts
<1>2. KeysSeq(keys, n) /\ rows \in Rows(n)
  BY KeysInSeq, SORT1Rows
<1>3. RowsWithin(b, n)
  <2>1. IsTable(b) => Len(EntriesOf(b)) \in Nat
    BY <1>0, EntriesAre
  <2> QED BY <1>1, <2>1 DEF RowsWithin
<1>4. GoodBlock(c, obj, made)
  BY <1>0, <1>2, <1>3, ArrangedIs
<1> HIDE DEF c, x
<1>5. /\ Len(obj') = Len(obj) + 1 /\ obj'[Len(obj) + 1] = c
      /\ \A j \in DOMAIN obj : obj'[j] = obj[j]
  BY <1>1, <1>4, MadeKeeps
<1>6. todo'.by = x /\ todo'.v.v = Len(obj) + 1
  BY <1>1 DEF Made
<1>7. x.of = k /\ x.key = by /\ x.n = n /\ x.down = down
  BY DEF x
<1>8. \A i \in 1 .. n : GoodValue(V(i), obj)
  BY <1>0, <1>3, KeyPlaces
<1> HIDE DEF V
<1>9. \A i \in 1 .. n : keys[i] = KeyIn(obj, fields, V(i), by)
  BY KeysInSeq DEF V
<1>10. fields' = fields
  BY DEF defs
<1>11. CASE n <= 1
  <2>1. KeysSeq(KeysIn(obj', fields', b, by, n), n)
    BY KeysInSeq
  <2>2. InOrder(rows, KeysIn(obj', fields', b, by, n), down)
    BY <1>2, <1>11, <2>1, FewInOrder
  <2>3. rows \in [1 .. n -> 1 .. n]
    BY <1>2, RowsType
  <2> HIDE DEF rows, keys
  <2> QED BY <1>5, <1>6, <1>7, <2>2, <2>3 DEF SortedBy, c
<1>12. CASE n > 1
  <2>1. ASSUME NEW i \in 1 .. n PROVE KeyIn(obj', fields', V(i), by) = KeyIn(obj, fields, V(i), by)
    <3>1. CASE by.field = FALSE
      BY <3>1 DEF KeyIn
    <3>2. CASE by.field = TRUE
      <4>1. by.f \in FieldNames
        BY <3>2 DEF Chosen
      <4>2. ~IsData(keys[i])
        BY <1>1, <1>12, <2>1, <3>2
      <4>3. keys[i] = FollowedIn(obj, fields, V(i), by.f)
        BY <1>9, <2>1, <3>2 DEF KeyIn
      <4>4. GoodValue(V(i), obj)
        BY <1>8, <2>1
      <4>5. ~IsData(FollowedIn(obj, fields, V(i), by.f))
        BY <4>2, <4>3
      <4> HIDE DEF keys
      <4>6. FollowedIn(obj', fields, V(i), by.f) = FollowedIn(obj, fields, V(i), by.f)
        BY <1>5, <4>1, <4>4, <4>5, FollowedStays
      <4> QED BY <1>10, <3>2, <4>6 DEF KeyIn
    <3> QED BY <3>1, <3>2 DEF Chosen
  <2>2. KeysIn(obj', fields', b, by, n) = keys
    BY <2>1 DEF KeysIn, V
  <2>3. keys \in Keys(n)
    <3>1. ASSUME NEW i \in 1 .. n PROVE keys[i] \in Sortable
      <4>1. GoodValue(V(i), obj)
        BY <1>8, <3>1
      <4>2. GoodValue(KeyIn(obj, fields, V(i), by), obj)
        <5>1. CASE by.field = FALSE
          BY <4>1, <5>1 DEF KeyIn
        <5>2. CASE by.field = TRUE
          <6>1. by.f \in FieldNames
            BY <5>2 DEF Chosen
          <6> QED BY <4>1, <5>2, <6>1, FollowedGood DEF KeyIn
        <5> QED BY <5>1, <5>2 DEF Chosen
      <4>3. GoodValue(keys[i], obj)
        BY <1>9, <3>1, <4>2
      <4> QED BY <4>3 DEF GoodValue, Known
    <3>2. keys = [i \in 1 .. n |-> keys[i]]
      BY DEF KeysIn
    <3> HIDE DEF keys
    <3> QED BY <3>1, <3>2 DEF Keys
  <2>4. InOrder(rows, keys, down)
    BY <2>3, SortsInOrder
  <2>5. rows \in [1 .. n -> 1 .. n]
    BY <1>2, RowsType
  <2> HIDE DEF rows, keys
  <2> QED BY <1>5, <1>6, <1>7, <2>2, <2>4, <2>5 DEF SortedBy, c
<1> QED BY <1>11, <1>12

(* SORT() and RSORT() put the rows that were counted in the order of their *)
(* keys, in a stable way, where integers among reals are exact: tables,    *)
(* arrays by any column, and by a field of the objects in it (SORT1).      *)
THEOREM RowsSorted == ASSUME ExactNumbers PROVE Spec => []SortRight
<1>1. Init => SortRight
  BY DEF Init, SortRight, Fetch
<1>2. ASSUME IInv, SortRight, [Next]_vars PROVE SortRight'
  <2>0. \A b, by, n : SortKeys(b, by, n)' = KeysIn(obj', fields', b, by, n)
    BY KeysSame
  <2>1. CASE UNCHANGED vars
    <3>1. obj' = obj /\ todo' = todo /\ fields' = fields
      BY <2>1 DEF vars
    <3> SUFFICES ASSUME todo'.op = "value", todo'.by.proc = "SORT1"
                 PROVE  SortedBy(obj', fields', todo'.by, todo'.v.v)
      BY <2>0 DEF SortRight, SortedBy
    <3>2. SortedBy(obj, fields, todo.by, todo.v.v)
      BY <1>2, <3>1, KeysSame DEF SortRight, SortedBy
    <3> QED BY <3>1, <3>2
  <2>2. CASE Next
    <3> SUFFICES ASSUME todo'.op = "value", todo'.by.proc = "SORT1"
                 PROVE  SortedBy(obj', fields', todo'.by, todo'.v.v)
      BY <2>0 DEF SortRight, SortedBy
    <3>1. ASSUME NEW k \in OfType(T), NEW c, Made(c, [proc |-> "CNVTA", of |-> k]) PROVE FALSE
      BY <3>1 DEF Made
    <3>2. ~FAIL /\ todo' # Crash
      BY DEF FAIL, Fetch, Crash
    <3>3. ~(todo.op = "fetch" /\ UNCHANGED todo)
      OBVIOUS
    <3>4. CASE SORT
      <4>1. PICK k \in OfType(A) \cup OfType(T), down \in BOOLEAN :
              /\ IF IsTable(obj[k]) THEN ICNVTA(obj[k]) # 0 ELSE Len(obj[k].dims) < 3 /\ Places(obj[k]) # {}
              /\ Sorts(k, ByColumn(0), Count(obj[k]), down, wait)
        BY <3>2, <3>3, <3>4 DEF SORT, Fetches
      <4> DEFINE b == obj[k]
                 n == Count(b)
      <4>2. k \in DOMAIN obj /\ GoodBlock(b, obj, made) /\ b.type \in {A, T}
        BY <1>2, BlocksGood DEF OfType
      <4>3. n \in Nat /\ (~IsTable(b) => n = Height(b) /\ Len(b.dims) < 3)
        BY <4>1, <4>2, CountIs DEF Count
      <4>4. Places(b) # {}
        <5>1. IsTable(b) => EntriesOf(b) # <<>>
          <6>1. Len(EntriesOf(b)) = ICNVTA(b)
            BY <4>2, CountedAre
          <6>2. IsTable(b) => ICNVTA(b) # 0
            BY <4>1
          <6>3. Len(<<>>) = 0
            OBVIOUS
          <6> QED BY <6>1, <6>2, <6>3
        <5>2. ASSUME Places(b) = {}, IsTable(b) PROVE FALSE
          <6>1. EntriesOf(b) \in Seq(Places(b)) /\ Len(EntriesOf(b)) \in Nat
            BY <4>2, EntriesAre
          <6>2. EntriesOf(b) \in Seq({})
            BY <5>2, <6>1
          <6>3. EntriesOf(b) = <<>>
            BY <6>2
          <6> QED BY <5>1, <5>2, <6>3
        <5> QED BY <4>1, <5>2
      <4>5. Chosen(b, ByColumn(0))
        BY <4>2, <4>3, <4>4, ChosenIs
      <4>6. GoodWait(wait, obj, types) /\ UNCHANGED defs
        BY <1>2, <3>4, BlocksGood DEF SORT
      <4>7. Sorts(k, ByColumn(0), n, down, wait)
        BY <4>1
      <4> HIDE DEF n
      <4> QED BY <1>2, <4>2, <4>3, <4>5, <4>6, <4>7, SortsRight
    <3>5. CASE SORTV
      <4> DEFINE w == Last(wait)
                 k == w.obj
                 b == obj[k]
                 by == KeyChosen(b, todo.v)
      <4>1. /\ by # <<>> /\ Sorts(k, by[1], w.n, w.down, Front(wait))
            /\ wait # <<>> /\ w.proc = "SORT1" /\ todo.op = "value" /\ UNCHANGED defs
        BY <3>2, <3>5 DEF SORTV, Waits
      <4>2. GoodWait(Front(wait), obj, types) /\ w \in Frames /\ GoodFrame(w, obj, types)
        BY <1>2, <4>1, BlocksGood, WaitFront
      <4>3. k \in DOMAIN obj /\ b.type \in {A, T} /\ w.n \in Nat /\ w.down \in BOOLEAN
        BY <4>1, <4>2, FrameIs DEF GoodFrame
      <4>4. ~IsTable(b) => w.n = Height(b) /\ Len(b.dims) < 3
        BY <4>1, <4>2 DEF GoodFrame
      <4>5. GoodBlock(b, obj, made)
        BY <1>2, <4>3, BlocksGood DEF Objects
      <4>6. todo.v \in Values
        BY <1>2, <4>1, BlocksGood, GoodNotFree DEF GoodTodo
      <4>7. Chosen(b, by[1])
        BY <4>1, <4>3, <4>4, <4>5, <4>6, ChosenIs
      <4> HIDE DEF w, k, by
      <4> QED BY <1>2, <4>1, <4>2, <4>3, <4>4, <4>7, SortsRight
    <3> QED BY <2>2, <3>1, <3>4, <3>5, ReturnedBy
  <2> QED BY <1>2, <2>1, <2>2
<1> QED BY <1>1, <1>2, Sane, PTL DEF Spec

-----------------------------------------------------------------------------
(* The names that assignments hold.                                        *)
Addresses == Nat \X (Nat \X Nat)
Holds(f) == f.proc = "ASGN" /\ f.name # <<>>
Gathers(s, f) == IF Holds(f) THEN Append(s, f.name) ELSE s
Gathered(a, w) ==
    /\ a \in [0 .. Len(w) -> Seq(Addresses)] /\ a[0] = <<>>
    /\ \A k \in 1 .. Len(w) : a[k] = Gathers(a[k - 1], w[k])

LEMMA GathersType ==
  ASSUME NEW s \in Seq(Addresses), NEW f \in Frames PROVE Gathers(s, f) \in Seq(Addresses)
<1>1. CASE Holds(f)
  <2>1. f.name \in Addresses
    BY <1>1 DEF Frames, Holds, Addresses
  <2> QED BY <1>1, <2>1 DEF Gathers
<1>2. CASE ~Holds(f)
  BY <1>2 DEF Gathers
<1> QED BY <1>1, <1>2

LEMMA NamesSteps ==
  ASSUME NEW w \in Seq(Frames)
  PROVE  \E a : Gathered(a, w) /\ Names(w) = a[Len(w)]
<1> DEFINE N == Len(w)
           Dom == Seq(Addresses)
           step == [k \in 1 .. N |-> [s \in Dom |-> Gathers(s, w[k])]]
           E(a) == [k \in 0 .. N |-> IF k = 0 THEN <<>> ELSE Gathers(a[k - 1], w[k])]
           after == CHOOSE a : a = E(a)
<1>1. N \in Nat /\ <<>> \in Dom /\ \A k \in 1 .. N : w[k] \in Frames
  BY ElementsOf
<1>2. step \in [1 .. N -> [Dom -> Dom]]
  <2>1. ASSUME NEW k \in 1 .. N, NEW s \in Dom PROVE Gathers(s, w[k]) \in Dom
    BY <1>1, GathersType
  <2> HIDE DEF Dom
  <2> QED BY <2>1
<1>3. PICK a \in [0 .. N -> Dom] : a[0] = <<>> /\ \A k \in 1 .. N : a[k] = step[k][a[k - 1]]
  <2> DEFINE base == <<>>
  <2>1. base \in Dom /\ N \in Nat
    BY <1>1
  <2> HIDE DEF step, N, E, after, Dom, base
  <2>2. \E a \in [0 .. N -> Dom] : a[0] = base /\ \A k \in 1 .. N : a[k] = step[k][a[k - 1]]
    BY <1>2, <2>1, Recursion
  <2> QED BY <2>2 DEF base
<1> HIDE DEF Dom
<1>4. \A k \in 1 .. N : a[k - 1] \in Dom /\ a[k] = Gathers(a[k - 1], w[k])
  <2> SUFFICES ASSUME NEW k \in 1 .. N
               PROVE  a[k - 1] \in Dom /\ a[k] = Gathers(a[k - 1], w[k])
    OBVIOUS
  <2>1. k - 1 \in 0 .. N
    BY <1>1
  <2> QED BY <1>3, <2>1
<1>5. a = E(a)
  BY <1>3, <1>4
<1>6. after = E(after)
  BY <1>5
<1> HIDE DEF N, after
<1>7. after[0] = <<>> /\ \A k \in 1 .. N : after[k] = Gathers(after[k - 1], w[k])
  <2>1. 0 \in 0 .. N /\ \A k \in 1 .. N : k \in 0 .. N /\ k # 0
    BY <1>1
  <2> QED BY <1>6, <2>1
<1>8. 0 .. N \subseteq {k \in 0 .. N : after[k] = a[k]}
  <2>1. 0 \in {k \in 0 .. N : after[k] = a[k]}
    BY <1>1, <1>3, <1>7
  <2>2. ASSUME NEW m \in 1 .. N, m - 1 \in {k \in 0 .. N : after[k] = a[k]}
        PROVE  m \in {k \in 0 .. N : after[k] = a[k]}
    BY <1>1, <1>4, <1>7, <2>2
  <2> QED BY <1>1, <2>1, <2>2, Counting
<1>9. after[N] = a[N]
  BY <1>1, <1>8
<1>10. Names(w) = after[N]
  BY DEF Names, after, N, Gathers, Holds
<1>11. Gathered(a, w)
  BY <1>3, <1>4 DEF Gathered, N, Dom
<1> QED BY <1>9, <1>10, <1>11 DEF N

LEMMA NamesAppend ==
  ASSUME NEW w \in Seq(Frames), NEW f \in Frames
  PROVE  Names(Append(w, f)) = Gathers(Names(w), f)
<1> DEFINE l == Len(w)
           n == Append(w, f)
<1>1. l \in Nat /\ n \in Seq(Frames) /\ Len(n) = l + 1 /\ n[l + 1] = f /\ \A k \in 1 .. l : n[k] = w[k]
  OBVIOUS
<1>2. PICK a : Gathered(a, w) /\ Names(w) = a[l]
  BY NamesSteps
<1>3. PICK c : Gathered(c, n) /\ Names(n) = c[Len(n)]
  BY <1>1, NamesSteps
<1> HIDE DEF l, n
<1>4. a[0] = <<>> /\ \A k \in 1 .. l : a[k] = Gathers(a[k - 1], w[k])
  BY <1>2 DEF Gathered, l
<1>5. c[0] = <<>> /\ \A k \in 1 .. l + 1 : c[k] = Gathers(c[k - 1], n[k])
  BY <1>1, <1>3 DEF Gathered
<1>6. \A k \in 1 .. l : c[k] = Gathers(c[k - 1], w[k])
  <2> SUFFICES ASSUME NEW k \in 1 .. l PROVE c[k] = Gathers(c[k - 1], w[k])
    OBVIOUS
  <2>1. k \in 1 .. l + 1 /\ n[k] = w[k]
    BY <1>1
  <2> QED BY <1>5, <2>1
<1>7. 0 .. l \subseteq {k \in 0 .. l : c[k] = a[k]}
  <2>1. 0 \in {k \in 0 .. l : c[k] = a[k]}
    BY <1>1, <1>4, <1>5
  <2>2. ASSUME NEW m \in 1 .. l, m - 1 \in {k \in 0 .. l : c[k] = a[k]}
        PROVE  m \in {k \in 0 .. l : c[k] = a[k]}
    BY <1>1, <1>4, <1>6, <2>2
  <2> QED BY <1>1, <2>1, <2>2, Counting
<1>8. c[l] = a[l]
  BY <1>1, <1>7
<1>9. c[l + 1] = Gathers(a[l], f)
  <2> DEFINE z == l + 1
  <2>1. z \in 1 .. l + 1 /\ z - 1 = l /\ n[z] = f
    BY <1>1
  <2> HIDE DEF z
  <2>2. c[z] = Gathers(c[z - 1], n[z])
    BY <1>5, <2>1
  <2>3. c[z] = Gathers(a[l], f)
    BY <1>8, <2>1, <2>2
  <2> QED BY <2>3 DEF z
<1> QED BY <1>1, <1>2, <1>3, <1>9 DEF n

LEMMA NamesEmpty == Names(<<>>) = <<>>
<1>1. <<>> \in Seq(Frames) /\ Len(<<>>) = 0
  OBVIOUS
<1>2. PICK a : Gathered(a, <<>>) /\ Names(<<>>) = a[0]
  BY <1>1, NamesSteps
<1> QED BY <1>2 DEF Gathered

(* Each is in a frame.                                                     *)
LEMMA NamesAre ==
  ASSUME NEW w \in Seq(Frames)
  PROVE  /\ Names(w) \in Seq(Addresses)
         /\ \A i \in DOMAIN Names(w) : \E j \in DOMAIN w : Holds(w[j]) /\ w[j].name = Names(w)[i]
<1> DEFINE l == Len(w)
<1>1. l \in Nat /\ DOMAIN w = 1 .. l /\ \A k \in 1 .. l : w[k] \in Frames
  BY ElementsOf
<1>2. PICK a : Gathered(a, w) /\ Names(w) = a[l]
  BY NamesSteps
<1>3. /\ a \in [0 .. l -> Seq(Addresses)] /\ a[0] = <<>>
      /\ \A k \in 1 .. l : a[k] = Gathers(a[k - 1], w[k])
  BY <1>2 DEF Gathered
<1> HIDE DEF l
<1> DEFINE In(s) == \A i \in DOMAIN s : \E j \in 1 .. l : Holds(w[j]) /\ w[j].name = s[i]
           X == {k \in 0 .. l : In(a[k])}
<1>4. ASSUME NEW s \in Seq(Addresses), In(s), NEW k \in 1 .. l PROVE In(Gathers(s, w[k]))
  <2>1. CASE ~Holds(w[k])
    BY <1>4, <2>1 DEF Gathers
  <2>2. CASE Holds(w[k])
    <3> DEFINE x == w[k].name
               t == Append(s, x)
    <3>1. x \in Addresses
      BY <1>1, <2>2 DEF Frames, Holds, Addresses
    <3> HIDE DEF x
    <3>2. /\ Len(s) \in Nat /\ DOMAIN s = 1 .. Len(s) /\ DOMAIN t = 1 .. Len(s) + 1 /\ t[Len(s) + 1] = x
          /\ \A i \in 1 .. Len(s) : t[i] = s[i]
      BY <3>1
    <3> HIDE DEF t
    <3>3. \A i \in DOMAIN t : i \in DOMAIN s \/ i = Len(s) + 1
      BY <3>2
    <3>4. ASSUME NEW i \in DOMAIN t PROVE \E j \in 1 .. l : Holds(w[j]) /\ w[j].name = t[i]
      <4>1. CASE i \in DOMAIN s
        <5>1. t[i] = s[i]
          BY <3>2, <4>1
        <5> QED BY <1>4, <4>1, <5>1
      <4>2. CASE i = Len(s) + 1
        <5>1. t[i] = x
          BY <3>2, <4>2
        <5> QED BY <1>4, <2>2, <5>1 DEF x
      <4> QED BY <3>3, <4>1, <4>2
    <3> QED BY <2>2, <3>4 DEF t, x, Gathers
  <2> QED BY <2>1, <2>2
<1>5. 0 .. l \subseteq X
  <2>1. 0 \in X
    <3>1. In(<<>>)
      OBVIOUS
    <3> HIDE DEF In
    <3> QED BY <1>1, <1>3, <3>1
  <2>2. ASSUME NEW m \in 1 .. l, m - 1 \in X PROVE m \in X
    <3> HIDE DEF In
    <3>1. a[m - 1] \in Seq(Addresses) /\ In(a[m - 1])
      BY <1>3, <2>2
    <3>2. In(a[m])
      BY <1>3, <1>4, <3>1
    <3> QED BY <3>2
  <2> HIDE DEF X
  <2> QED BY <1>1, <2>1, <2>2, Counting
<1>6. a[l] \in Seq(Addresses) /\ In(a[l])
  BY <1>1, <1>3, <1>5
<1> QED BY <1>1, <1>2, <1>6

-----------------------------------------------------------------------------
(* A block as a map.                                                       *)
Where(b, p) == IF IsTable(b) THEN At(b, p).key ELSE p

MapRight(b, f) ==
    /\ DOMAIN f = {Where(b, p) : p \in NotNull(b)}
    /\ \A p \in NotNull(b) : f[Where(b, p)] = At(b, p).v
    /\ f = [x \in DOMAIN f |-> f[x]]
    /\ \A p \in NotNull(b) : p \in Places(b) /\ (IsTable(b) => At(b, p).key # Free)
    /\ \A p, q \in Places(b) : Where(b, p) = Where(b, q) /\ (IsTable(b) => At(b, p).key # Free) => p = q

LEMMA MapIs ==
  ASSUME NEW o, NEW m, NEW b, GoodBlock(b, o, m), "duplicates" \notin Defects
  PROVE  MapRight(b, MapOf(b))
<1>1. \A p \in NotNull(b) : p \in Places(b) /\ (IsTable(b) => At(b, p).key # Free)
  BY DEF NotNull, GoodBlock, GoodTable
<1>2. \A p, q \in Places(b) : Where(b, p) = Where(b, q) /\ (IsTable(b) => At(b, p).key # Free) => p = q
  BY DEF Where, GoodBlock, GoodTable
<1>3. CASE ~IsTable(b)
  <2> DEFINE f == [p \in NotNull(b) |-> At(b, p).v]
  <2>1. MapOf(b) = f
    BY <1>3 DEF MapOf
  <2>2. {Where(b, p) : p \in NotNull(b)} = NotNull(b)
    BY <1>3 DEF Where
  <2>3. \A p \in NotNull(b) : f[Where(b, p)] = At(b, p).v
    BY <1>3 DEF Where
  <2>4. DOMAIN f = NotNull(b) /\ f = [x \in DOMAIN f |-> f[x]]
    OBVIOUS
  <2> HIDE DEF f
  <2>5. MapRight(b, f)
    BY <1>1, <1>2, <2>2, <2>3, <2>4 DEF MapRight
  <2> QED BY <2>1, <2>5
<1>4. CASE IsTable(b)
  <2> DEFINE D == {At(b, p).key : p \in NotNull(b)}
             f == [x \in D |-> At(b, First(WithKey(b, x))).v]
  <2>1. MapOf(b) = f
    BY <1>4 DEF MapOf
  <2>2. {Where(b, p) : p \in NotNull(b)} = D
    BY <1>4 DEF Where
  <2>3. ASSUME NEW p \in NotNull(b) PROVE f[At(b, p).key] = At(b, p).v
    <3> DEFINE x == At(b, p).key
               q == First(WithKey(b, x))
    <3>1. p \in Places(b) /\ x # Free /\ x \in D
      BY <1>1, <1>4
    <3>2. WithKey(b, x) # {}
      BY <3>1 DEF WithKey
    <3> HIDE DEF x
    <3>3. q \in Places(b) /\ At(b, q).key = x
      BY <3>2, FoundIs
    <3> HIDE DEF q
    <3>4. Where(b, p) = Where(b, q)
      BY <1>4, <3>3 DEF Where, x
    <3>5. p = q
      BY <1>2, <3>1, <3>3, <3>4 DEF x
    <3>6. f[x] = At(b, q).v
      BY <3>1 DEF q
    <3> QED BY <3>5, <3>6 DEF x
  <2> HIDE DEF f, D
  <2>4. DOMAIN f = D /\ f = [x \in DOMAIN f |-> f[x]]
    BY DEF f
  <2>5. \A p \in NotNull(b) : f[Where(b, p)] = At(b, p).v
    BY <1>4, <2>3 DEF Where
  <2>6. MapRight(b, f)
    BY <1>1, <1>2, <2>2, <2>4, <2>5 DEF MapRight
  <2> QED BY <2>1, <2>6
<1> QED BY <1>3, <1>4

LEMMA MapsEqual ==
  ASSUME NEW o, NEW m, NEW b, GoodBlock(b, o, m), NEW n, NEW c, GoodBlock(c, n, m), "duplicates" \notin Defects,
         NotNull(c) = NotNull(b), \A p \in NotNull(b) : Where(c, p) = Where(b, p) /\ At(c, p).v = At(b, p).v
  PROVE  MapOf(c) = MapOf(b)
<1> DEFINE f == MapOf(b)
           g == MapOf(c)
           D == {Where(b, p) : p \in NotNull(b)}
<1>1. /\ DOMAIN f = D /\ f = [x \in DOMAIN f |-> f[x]]
      /\ \A p \in NotNull(b) : f[Where(b, p)] = At(b, p).v
  <2>1. MapRight(b, f)
    BY MapIs
  <2> HIDE DEF f
  <2> QED BY <2>1 DEF MapRight
<1>2. /\ DOMAIN g = {Where(c, p) : p \in NotNull(c)} /\ g = [x \in DOMAIN g |-> g[x]]
      /\ \A p \in NotNull(c) : g[Where(c, p)] = At(c, p).v
  <2>1. MapRight(c, g)
    BY MapIs
  <2> HIDE DEF g
  <2> QED BY <2>1 DEF MapRight
<1> HIDE DEF f, g
<1>3. DOMAIN g = D
  BY <1>2
<1>4. \A x \in D : f[x] = g[x]
  <2> SUFFICES ASSUME NEW p \in NotNull(b) PROVE f[Where(b, p)] = g[Where(b, p)]
    OBVIOUS
  <2> QED BY <1>1, <1>2
<1> HIDE DEF D
<1>5. f = g
  BY <1>1, <1>2, <1>3, <1>4
<1> QED BY <1>5 DEF f, g

(* An assignment changes one element.                                      *)
LEMMA MapAssigned ==
  ASSUME NEW o, NEW m, NEW b, GoodBlock(b, o, m), NEW at \in Places(b), NEW x, GoodValue(x, o),
         IsTable(b) => At(b, at).key # Free, "duplicates" \notin Defects
  PROVE  LET g == MapOf(Assigned(b, at, x))
             key == Where(b, at)
         IN  /\ g = M!With(MapOf(b), key, x)
             /\ x # Null => key \in DOMAIN g /\ g[key] = x
             /\ x = Null => key \notin DOMAIN g
<1> DEFINE c == Assigned(b, at, x)
           key == Where(b, at)
           f == MapOf(b)
           g == MapOf(c)
<1>1. /\ GoodBlock(c, o, m) /\ Places(c) = Places(b) /\ c.type = b.type
      /\ At(c, at).v = x /\ \A p \in Places(b) : At(c, p).key = At(b, p).key
      /\ \A p \in Places(b) : p # at => At(c, p).v = At(b, p).v
  BY AssignedIs
<1> HIDE DEF c
<1>2. \A p \in Places(b) : Where(c, p) = Where(b, p)
  BY <1>1 DEF Where, IsTable
<1>3. /\ DOMAIN f = {Where(b, p) : p \in NotNull(b)} /\ f = [y \in DOMAIN f |-> f[y]]
      /\ \A p \in NotNull(b) : f[Where(b, p)] = At(b, p).v
      /\ \A p \in NotNull(b) : p \in Places(b)
      /\ \A p \in Places(b) : Where(b, p) = key => p = at
  <2>1. MapRight(b, f)
    BY MapIs
  <2> HIDE DEF f
  <2> QED BY <2>1 DEF MapRight
<1>4. /\ DOMAIN g = {Where(c, p) : p \in NotNull(c)} /\ g = [y \in DOMAIN g |-> g[y]]
      /\ \A p \in NotNull(c) : g[Where(c, p)] = At(c, p).v
  <2>1. MapRight(c, g)
    BY <1>1, MapIs
  <2> HIDE DEF g
  <2> QED BY <2>1 DEF MapRight
<1>5. \A p : p \in NotNull(c) <=> (p \in NotNull(b) /\ p # at) \/ (p = at /\ x # Null)
  BY <1>1 DEF NotNull
<1> HIDE DEF f, g, key
<1>6. \A y : y \in DOMAIN g <=> (y \in DOMAIN f /\ y # key) \/ (y = key /\ x # Null)
  <2>1. ASSUME NEW y \in DOMAIN g PROVE (y \in DOMAIN f /\ y # key) \/ (y = key /\ x # Null)
    <3>1. PICK p \in NotNull(c) : y = Where(c, p)
      BY <1>4, <2>1
    <3>2. CASE p \in NotNull(b) /\ p # at
      <4>1. y = Where(b, p) /\ p \in Places(b)
        BY <1>2, <1>3, <3>1, <3>2
      <4> QED BY <1>3, <3>2, <4>1
    <3>3. CASE p = at /\ x # Null
      BY <1>2, <3>1, <3>3 DEF key
    <3> QED BY <1>5, <3>2, <3>3
  <2>2. ASSUME NEW y \in DOMAIN f, y # key PROVE y \in DOMAIN g
    <3>1. PICK p \in NotNull(b) : y = Where(b, p)
      BY <1>3, <2>2
    <3>2. p # at /\ p \in Places(b)
      BY <1>3, <2>2, <3>1 DEF key
    <3>3. p \in NotNull(c) /\ y = Where(c, p)
      BY <1>2, <1>5, <3>1, <3>2
    <3> QED BY <1>4, <3>3
  <2>3. ASSUME x # Null PROVE key \in DOMAIN g
    <3>1. at \in NotNull(c) /\ key = Where(c, at)
      BY <1>2, <1>5, <2>3 DEF key
    <3> QED BY <1>4, <3>1
  <2> QED BY <2>1, <2>2, <2>3
<1>7. ASSUME NEW y \in DOMAIN g PROVE g[y] = IF y = key THEN x ELSE f[y]
  <2>1. PICK p \in NotNull(c) : y = Where(c, p)
    BY <1>4, <1>7
  <2>2. g[y] = At(c, p).v
    BY <1>4, <2>1
  <2>3. CASE p \in NotNull(b) /\ p # at
    <3>1. y = Where(b, p) /\ p \in Places(b)
      BY <1>2, <1>3, <2>1, <2>3
    <3>2. y # key
      BY <1>3, <2>3, <3>1
    <3>3. At(c, p).v = At(b, p).v /\ f[y] = At(b, p).v
      BY <1>1, <1>3, <2>3, <3>1
    <3> QED BY <2>2, <3>2, <3>3
  <2>4. CASE p = at /\ x # Null
    <3>1. y = key
      BY <1>2, <2>1, <2>4 DEF key
    <3> QED BY <1>1, <2>2, <2>4, <3>1
  <2> QED BY <1>5, <2>3, <2>4
<1>8. g = M!With(f, key, x)
  <2> DEFINE D == IF x = Null THEN DOMAIN f \ {key} ELSE DOMAIN f \cup {key}
  <2>1. DOMAIN g = D
    BY <1>6
  <2>2. g = [y \in D |-> IF y = key THEN x ELSE f[y]]
    BY <1>4, <1>7, <2>1
  <2> QED BY <2>2 DEF M!With
<1> QED BY <1>6, <1>7, <1>8 DEF c, f, g, key

-----------------------------------------------------------------------------
(* Steps of Maps: the maps of objects, and the elements that are held.     *)
Mapped(o) == [k \in DOMAIN o |-> MapOf(o[k])]
ElementIn(o, name) == [obj |-> name[1], key |-> Where(o[name[1]], name[2])]
HeldIn(o, w) == [i \in DOMAIN Names(w) |-> ElementIn(o, Names(w)[i])]

SameMaps == Mapped(obj') = Mapped(obj)
SameHeld == HeldIn(obj', wait') = HeldIn(obj, wait)
NoneHeld == HeldIn(obj', wait') = <<>>
OneMore(s, r) == Len(r) = Len(s) + 1 /\ SubSeq(r, 1, Len(s)) = s
Stores ==
    LET h == HeldIn(obj, wait)
        last == h[Len(h)]
        m == Mapped(obj)
        n == Mapped(obj')
        v == IF h # <<>> /\ last.key \in DOMAIN n[last.obj] THEN n[last.obj][last.key] ELSE Null
    IN  /\ h # <<>> /\ HeldIn(obj', wait') = SubSeq(h, 1, Len(h) - 1) /\ DOMAIN n = DOMAIN m
        /\ \A k \in DOMAIN m : n[k] = IF k = last.obj THEN M!With(m[k], last.key, v) ELSE m[k]
Refines ==
    \/ SameMaps /\ SameHeld
    \/ OneMore(Mapped(obj), Mapped(obj')) /\ SameHeld
    \/ OneMore(HeldIn(obj, wait), HeldIn(obj', wait')) /\ SameMaps
    \/ Stores
    \/ NoneHeld /\ SameMaps

LEMMA Prefixed ==
  ASSUME NEW l \in Nat, NEW s, NEW r, s = [i \in 1 .. l |-> s[i]], r = [i \in 1 .. l + 1 |-> r[i]],
         \A i \in 1 .. l : r[i] = s[i]
  PROVE  OneMore(s, r) /\ Len(s) = l /\ Len(r) = l + 1 /\ r # <<>> /\ s = SubSeq(r, 1, Len(r) - 1)
<1> DEFINE X == {r[i] : i \in 1 .. l + 1}
           n == l + 1
<1>1. r \in [1 .. n -> X] /\ n \in Nat
  OBVIOUS
<1>2. s \in [1 .. l -> X]
  <2>1. ASSUME NEW i \in 1 .. l  PROVE  s[i] \in X
    <3>1. \A j : j \in 1 .. l => j \in 1 .. l + 1
      OBVIOUS
    <3>2. s[i] = r[i] /\ i \in 1 .. l + 1
      BY <2>1, <3>1, Zenon
    <3>3. r[i] \in X
      BY <3>2
    <3> QED BY <3>2, <3>3, Zenon
  <2> HIDE DEF X
  <2> QED BY <2>1
<1>3. n - 1 = l /\ 1 .. l \subseteq 1 .. n /\ n # 0
  OBVIOUS
<1> HIDE DEF X, n
<1>4. s \in Seq(X) /\ Len(s) = l
  BY <1>2, LenProperties, IsASeq
<1>5. r \in Seq(X) /\ Len(r) = n
  BY <1>1, LenProperties, IsASeq
<1>6. SubSeq(r, 1, l) = s
  <2> DEFINE t == SubSeq(r, 1, l)
  <2>1. t \in Seq(X) /\ Len(t) = l /\ \A i \in 1 .. l : t[i] = r[i]
    <3>1. l <= Len(r)
      BY <1>5 DEF n
    <3> QED BY <1>5, <3>1
  <2> HIDE DEF t
  <2>2. t = s
    BY <1>4, <2>1, SeqEqual
  <2> QED BY <2>2 DEF t
<1>7. r # <<>>
  BY <1>3, <1>5
<1> QED BY <1>3, <1>4, <1>5, <1>6, <1>7 DEF OneMore, n

LEMMA AppendedIn ==
  ASSUME NEW X, NEW x \in Seq(X), NEW g, Append(x, g) \in Seq(X)
  PROVE  g \in X
<1> DEFINE Y == X \cup {g}
<1>1. x \in Seq(Y) /\ g \in Y
  BY SeqMonotonic
<1>2. Len(Append(x, g)) = Len(x) + 1 /\ Append(x, g)[Len(x) + 1] = g /\ Len(x) \in Nat
  <2> HIDE DEF Y
  <2> QED BY <1>1, AppendProperties
<1> DEFINE a == Append(x, g)
           l == Len(x)
<1>3. a \in Seq(X) /\ Len(a) = l + 1 /\ a[l + 1] = g /\ l \in Nat
  BY <1>2
<1> HIDE DEF a, l
<1>4. l + 1 \in 1 .. Len(a)
  BY <1>3
<1> QED BY <1>3, <1>4, ElementsOf

LEMMA NamesPushed ==
  ASSUME NEW w \in Seq(Frames), NEW f, Append(w, f) \in Seq(Frames)
  PROVE  f \in Frames /\ Names(Append(w, f)) = Gathers(Names(w), f)
BY AppendedIn, NamesAppend

LEMMA NamesPopped ==
  ASSUME NEW o, NEW t, NEW w, GoodWait(w, o, t), w # <<>>
  PROVE  /\ Front(w) \in Seq(Frames) /\ Last(w) \in Frames
         /\ Names(w) = Gathers(Names(Front(w)), Last(w))
<1>1. Front(w) \in Seq(Frames) /\ Last(w) \in Frames /\ w = Append(Front(w), Last(w))
  BY WaitFront
<1> DEFINE x == Front(w)
           f == Last(w)
<1> HIDE DEF x, f
<1>2. Names(Append(x, f)) = Gathers(Names(x), f)
  BY <1>1, NamesAppend DEF x, f
<1> QED BY <1>1, <1>2 DEF x, f

(* The elements that names stand for stay the same.                        *)
LEMMA HeldStays ==
  ASSUME NEW o, NEW n, Kept(o, n), NEW t, NEW w, GoodWait(w, o, t)
  PROVE  HeldIn(n, w) = HeldIn(o, w)
<1>1. ASSUME NEW i \in DOMAIN Names(w) PROVE ElementIn(n, Names(w)[i]) = ElementIn(o, Names(w)[i])
  <2> DEFINE x == Names(w)[i]
  <2>1. PICK j \in DOMAIN w : Holds(w[j]) /\ w[j].name = x
    BY NamesAre DEF GoodWait
  <2>2. GoodName(x[1], x[2], o)
    BY <2>1 DEF GoodWait, GoodFrame, Holds
  <2>3. Where(n[x[1]], x[2]) = Where(o[x[1]], x[2])
    BY <2>2 DEF GoodName, Kept, Grew, Where, IsTable
  <2> QED BY <2>3 DEF ElementIn
<1> QED BY <1>1 DEF HeldIn

LEMMA HeldSame ==
  ASSUME NEW o, NEW v, NEW w, Names(v) = Names(w)
  PROVE  HeldIn(o, v) = HeldIn(o, w)
BY DEF HeldIn

LEMMA QuietStep == ASSUME obj' = obj, Names(wait') = Names(wait) PROVE Refines
BY HeldSame DEF Refines, SameMaps, SameHeld

LEMMA FailStep == ASSUME obj' = obj, FAIL PROVE Refines
<1>1. HeldIn(obj', wait') = <<>>
  <2>1. Names(wait') = <<>>
    BY NamesEmpty DEF FAIL
  <2> QED BY <2>1 DEF HeldIn
<1> QED BY <1>1 DEF Refines, SameMaps, NoneHeld

LEMMA MadeStep ==
  ASSUME IInv, Kept(obj, obj'), NEW b, NEW x, Made(b, x), Names(wait') = Names(wait)
  PROVE  Refines
<1> DEFINE l == Len(obj)
           m == Mapped(obj)
           n == Mapped(obj')
<1>1. /\ l \in Nat /\ DOMAIN obj = 1 .. l /\ DOMAIN obj' = 1 .. l + 1
      /\ \A k \in 1 .. l : obj'[k] = obj[k]
  <2> DEFINE X == Blocks \cup {b}
  <2>1. obj \in Seq(X) /\ b \in X /\ obj' = Append(obj, b)
    BY BlocksGood, SeqMonotonic DEF Made
  <2> HIDE DEF X
  <2> QED BY <2>1, AppendProperties
<1> HIDE DEF l
<1>2. /\ m = [k \in 1 .. l |-> m[k]] /\ n = [k \in 1 .. l + 1 |-> n[k]]
      /\ \A k \in 1 .. l : n[k] = m[k]
  <2>1. \A k \in 1 .. l : k \in 1 .. l + 1
    BY <1>1
  <2> QED BY <1>1, <2>1 DEF Mapped
<1> HIDE DEF m, n
<1>3. OneMore(m, n)
  BY <1>1, <1>2, Prefixed
<1>4. SameHeld
  <2>1. HeldIn(obj', wait') = HeldIn(obj', wait)
    BY HeldSame
  <2>2. HeldIn(obj', wait) = HeldIn(obj, wait)
    BY BlocksGood, HeldStays
  <2> QED BY <2>1, <2>2 DEF SameHeld
<1> QED BY <1>3, <1>4 DEF Refines, m, n

(* A block that changes, but none of its values.                           *)
LEMMA ChangedStep ==
  ASSUME IInv, Kept(obj, obj'), NEW k \in DOMAIN obj, NEW c, obj' = [obj EXCEPT ![k] = c],
         MapOf(c) = MapOf(obj[k]), UNCHANGED wait
  PROVE  Refines
<1>1. Mapped(obj') = Mapped(obj)
  <2>1. DOMAIN obj' = DOMAIN obj /\ \A j \in DOMAIN obj : obj'[j] = IF j = k THEN c ELSE obj[j]
    BY BlocksGood
  <2>2. \A j \in DOMAIN obj : MapOf(obj'[j]) = MapOf(obj[j])
    BY <2>1
  <2> QED BY <2>1, <2>2 DEF Mapped
<1>2. HeldIn(obj', wait') = HeldIn(obj, wait)
  BY BlocksGood, HeldStays
<1> QED BY <1>1, <1>2 DEF Refines, SameMaps, SameHeld

LEMMA HeldMore ==
  ASSUME NEW o, NEW v, NEW w \in Seq(Frames), NEW x \in Addresses, Names(v) = Append(Names(w), x)
  PROVE  LET s == HeldIn(o, w)
             r == HeldIn(o, v)
         IN  /\ OneMore(s, r) /\ r # <<>> /\ s = SubSeq(r, 1, Len(r) - 1)
             /\ r[Len(r)] = ElementIn(o, x)
<1> DEFINE a == Names(w)
           l == Len(a)
           b == Append(a, x)
           s == HeldIn(o, w)
           r == HeldIn(o, v)
<1>1. a \in Seq(Addresses)
  BY NamesAre
<1> HIDE DEF a
<1>2. /\ l \in Nat /\ DOMAIN a = 1 .. l /\ DOMAIN b = 1 .. l + 1 /\ b[l + 1] = x
      /\ \A i \in 1 .. l : b[i] = a[i]
  BY <1>1
<1> HIDE DEF l, b
<1>3. s = [i \in 1 .. l |-> ElementIn(o, a[i])]
  BY <1>2 DEF HeldIn, a
<1>4. r = [i \in 1 .. l + 1 |-> ElementIn(o, b[i])]
  BY <1>2 DEF HeldIn, a, b
<1>5. \A i \in 1 .. l : i \in 1 .. l + 1
  BY <1>2
<1> HIDE DEF s, r
<1>6. /\ s = [i \in 1 .. l |-> s[i]] /\ r = [i \in 1 .. l + 1 |-> r[i]]
      /\ \A i \in 1 .. l : r[i] = s[i]
  BY <1>2, <1>3, <1>4, <1>5
<1>7. OneMore(s, r) /\ Len(r) = l + 1 /\ r # <<>> /\ s = SubSeq(r, 1, Len(r) - 1)
  <2>1. l \in Nat
    BY <1>2
  <2>2. OneMore(s, r) /\ Len(s) = l /\ Len(r) = l + 1 /\ r # <<>> /\ s = SubSeq(r, 1, Len(r) - 1)
    <3>1. OneMore(s, r)
      BY <2>1, <1>6, Prefixed
    <3>2. Len(s) = l /\ Len(r) = l + 1
      BY <2>1, <1>6, Prefixed
    <3>3. r # <<>>
      BY <2>1, <1>6, Prefixed
    <3>4. Len(r) - 1 = l
      BY <2>1, <3>2
    <3>5. s = SubSeq(r, 1, Len(r) - 1)
      BY <3>1, <3>2, <3>4, Zenon DEF OneMore
    <3> QED BY <3>1, <3>2, <3>3, <3>5
  <2> QED BY <2>2
<1>8. r[l + 1] = ElementIn(o, x)
  <2>1. l + 1 \in 1 .. l + 1
    BY <1>2
  <2> QED BY <1>2, <1>4, <2>1
<1> QED BY <1>7, <1>8 DEF s, r

(* A frame that holds no name.                                             *)
LEMMA PushedStep ==
  ASSUME IInv, obj' = obj, NEW v, GoodWait(v, obj, types), Names(v) = Names(wait), NEW f, ~Holds(f),
         wait' = Append(v, f), GoodWait(wait', obj, types)
  PROVE  Refines
<1>1. v \in Seq(Frames) /\ Append(v, f) \in Seq(Frames)
  BY DEF GoodWait
<1>2. Names(wait') = Gathers(Names(v), f)
  BY <1>1, NamesPushed
<1> QED BY <1>2, QuietStep DEF Gathers

LEMMA PoppedNames ==
  ASSUME IInv, wait # <<>>, ~Holds(Last(wait))
  PROVE  Names(Front(wait)) = Names(wait) /\ GoodWait(Front(wait), obj, types)
<1>1. GoodWait(wait, obj, types)
  BY BlocksGood
<1> QED BY <1>1, NamesPopped, WaitFront DEF Gathers

LEMMA SmallRefines ==
  ASSUME IInv, Dereferenced \/ StatementEnds \/ Operand
  PROVE  Refines
BY QuietStep DEF Dereferenced, StatementEnds, Operand

LEMMA AsgnRefines == ASSUME IInv, ASGN PROVE Refines
<1>1. Within
  BY ASGNKeeps
<1>2. ~Holds([proc |-> "ASGN", name |-> <<>>])
  BY DEF Holds
<1> QED BY <1>1, <1>2, BlocksGood, PushedStep DEF ASGN, Within

LEMMA FieldRefines == ASSUME IInv, FIELD PROVE Refines
<1>1. Within
  BY FieldKeeps
<1>2. PICK f \in FieldNames : wait' = Append(wait, [proc |-> "FIELD", f |-> f])
  BY DEF FIELD
<1>3. ~Holds([proc |-> "FIELD", f |-> f])
  BY DEF Holds
<1> QED BY <1>1, <1>2, <1>3, BlocksGood, PushedStep DEF Within

LEMMA DefdatRefines == ASSUME IInv, DEFDAT PROVE Refines
<1>1. Within
  BY DefdatKeeps
<1>2. PICK name \in TypeNames, n \in 1 .. 2 :
        wait' = Append(wait, [proc |-> "DEFDAT", name |-> name, args |-> <<>>, left |-> n])
  BY DEF DEFDAT
<1>3. ~Holds([proc |-> "DEFDAT", name |-> name, args |-> <<>>, left |-> n])
  BY DEF Holds
<1> QED BY <1>1, <1>2, <1>3, BlocksGood, PushedStep DEF Within

LEMMA AsgnnRefines == ASSUME IInv, ASGNN PROVE Refines
<1>0. obj' = obj /\ wait # <<>> /\ Last(wait).name = <<>>
  BY DEF ASGNN, Waits
<1>1. CASE FAIL
  BY <1>0, <1>1, FailStep
<1>2. CASE GetsName /\ wait' = Append(Front(wait), [proc |-> "ASGN", name |-> <<todo.obj, todo.at>>])
  <2> DEFINE w == [proc |-> "ASGN", name |-> <<todo.obj, todo.at>>]
             v == Front(wait)
  <2>1. Names(v) = Names(wait) /\ v \in Seq(Frames)
    BY <1>0, PoppedNames DEF Holds, GoodWait
  <2>2. w \in Frames /\ w.name \in Addresses /\ Holds(w)
    <3>1. todo.obj \in Nat /\ todo.at \in Nat \X Nat
      BY <1>2, NameIn DEF GetsName
    <3> QED BY <3>1, FramesAre DEF Holds, Addresses
  <2> HIDE DEF w, v
  <2>3. Names(Append(v, w)) = Append(Names(v), w.name)
    BY <2>1, <2>2, NamesAppend DEF Gathers
  <2>4. OneMore(HeldIn(obj, v), HeldIn(obj, wait'))
    BY <1>2, <2>1, <2>2, <2>3, HeldMore DEF w, v
  <2>5. HeldIn(obj, v) = HeldIn(obj, wait)
    BY <2>1, HeldSame
  <2> QED BY <1>0, <2>4, <2>5 DEF Refines, SameMaps
<1> QED BY <1>1, <1>2 DEF ASGNN

LEMMA Field1Refines == ASSUME IInv, FIELD1 PROVE Refines
<1>0. obj' = obj /\ wait # <<>> /\ ~Holds(Last(wait))
  BY DEF FIELD1, Waits, Holds
<1>1. CASE FAIL
  BY <1>0, <1>1, FailStep
<1>2. CASE wait' = Front(wait)
  BY <1>0, <1>2, PoppedNames, QuietStep
<1> QED BY <1>1, <1>2 DEF FIELD1

LEMMA DatdefRefines == ASSUME IInv, DATDEF PROVE Refines
<1>1. obj' = obj /\ (FAIL \/ UNCHANGED wait)
  BY DEF DATDEF
<1> QED BY <1>1, FailStep, QuietStep

(* Blocks that are made.                                                   *)
LEMMA MakesRefine == ASSUME IInv, ASSOC \/ ARRAY \/ COPY \/ CNVTA \/ CNVAT PROVE Refines
<1>1. Kept(obj, obj')
  BY AssocKeeps, ArrayKeeps, CopyKeeps, CnvtaKeeps, CnvatKeeps
<1>2. \/ FAIL /\ UNCHANGED obj
      \/ UNCHANGED <<obj, wait>>
      \/ (\E b, x : Made(b, x)) /\ UNCHANGED wait
  BY DEF ASSOC, ARRAY, COPY, CNVTA, CNVAT
<1>3. CASE (\E b, x : Made(b, x)) /\ UNCHANGED wait
  BY <1>1, <1>3, MadeStep
<1> QED BY <1>2, <1>3, FailStep, QuietStep

LEMMA SortsRefines ==
  ASSUME IInv, Kept(obj, obj'), NEW k, NEW by, NEW n, NEW down, NEW rest, Sorts(k, by, n, down, rest),
         Names(rest) = Names(wait)
  PROVE  Refines
<1>1. \/ FAIL /\ UNCHANGED obj
      \/ UNCHANGED <<obj, wait>>
      \/ (\E b, x : Made(b, x)) /\ wait' = rest
  BY DEF Sorts
<1>2. CASE (\E b, x : Made(b, x)) /\ wait' = rest
  BY <1>2, MadeStep
<1> QED BY <1>1, <1>2, FailStep, QuietStep

LEMMA SortRefines == ASSUME IInv, SORT PROVE Refines
<1>1. Kept(obj, obj') /\ Keeping
  BY SortKeeps
<1>2. \/ FAIL /\ UNCHANGED obj
      \/ UNCHANGED <<obj, wait>>
      \/ \E k, n, down : Sorts(k, ByColumn(0), n, down, wait)
      \/ \E k, n, down : /\ wait' = Append(wait, [proc |-> "SORT1", obj |-> k, n |-> n, down |-> down])
                         /\ UNCHANGED obj
  BY DEF SORT
<1>3. CASE \E k, n, down : Sorts(k, ByColumn(0), n, down, wait)
  BY <1>1, <1>3, SortsRefines
<1>4. ASSUME NEW k, NEW n, NEW down, wait' = Append(wait, [proc |-> "SORT1", obj |-> k, n |-> n, down |-> down]),
             UNCHANGED obj
      PROVE  Refines
  <2>1. ~Holds([proc |-> "SORT1", obj |-> k, n |-> n, down |-> down])
    BY DEF Holds
  <2>2. GoodWait(wait', obj, types)
    BY <1>1, <1>4 DEF Keeping
  <2> QED BY <1>4, <2>1, <2>2, BlocksGood, PushedStep
<1> QED BY <1>2, <1>3, <1>4, FailStep, QuietStep

LEMMA SortvRefines == ASSUME IInv, SORTV PROVE Refines
<1>1. Kept(obj, obj')
  BY SortvKeeps
<1>2. wait # <<>> /\ ~Holds(Last(wait))
  BY DEF SORTV, Waits, Holds
<1>3. \/ FAIL /\ UNCHANGED obj
      \/ \E k, by, n, down : Sorts(k, by, n, down, Front(wait))
  BY DEF SORTV
<1>4. Names(Front(wait)) = Names(wait)
  BY <1>2, PoppedNames
<1> QED BY <1>1, <1>3, <1>4, FailStep, SortsRefines

LEMMA Defd3Refines == ASSUME IInv, DEFD3 PROVE Refines
<1> DEFINE w == Last(wait)
<1>1. Kept(obj, obj') /\ Keeping
  BY Defd3Keeps
<1>2. wait # <<>> /\ w.proc = "DEFDAT" /\ ~Holds(w)
  BY DEF DEFD3, Waits, Holds
<1>3. Names(Front(wait)) = Names(wait) /\ GoodWait(Front(wait), obj, types)
  BY <1>2, PoppedNames
<1>4. w \in Frames
  BY <1>2, BlocksGood, WaitFront
<1>5. w = [proc |-> "DEFDAT", name |-> w.name, args |-> w.args, left |-> w.left]
  BY <1>2, <1>4, FrameIs
<1> DEFINE n(args) == [w EXCEPT !.args = args, !.left = @ - 1]
<1> HIDE DEF w
<1>6. \/ (\E b, x : Made(b, x)) /\ wait' = Front(wait)
      \/ obj' = obj /\ \E args : wait' = Append(Front(wait), n(args))
  BY DEF DEFD3, w
<1>7. CASE (\E b, x : Made(b, x)) /\ wait' = Front(wait)
  BY <1>1, <1>3, <1>7, MadeStep
<1>8. ASSUME obj' = obj, NEW args, wait' = Append(Front(wait), n(args)) PROVE Refines
  <2>1. ~Holds(n(args))
    BY <1>5 DEF Holds
  <2>2. GoodWait(wait', obj, types)
    BY <1>1, <1>8 DEF Keeping
  <2> QED BY <1>3, <1>8, <2>1, <2>2, PushedStep
<1> QED BY <1>6, <1>7, <1>8

LEMMA FreezeRefines == ASSUME IInv, "duplicates" \notin Defects, FREEZE \/ THAW PROVE Refines
<1>1. PICK k \in OfType(T), f \in BOOLEAN : obj' = [obj EXCEPT ![k] = [obj[k] EXCEPT !.frozen = f]]
  BY DEF FREEZE, THAW
<1> DEFINE b == obj[k]
           c == [b EXCEPT !.frozen = f]
<1>2. k \in DOMAIN obj /\ GoodBlock(b, obj, made)
  BY BlocksGood DEF OfType
<1>3. /\ GoodBlock(c, obj, made) /\ c.type = b.type /\ Places(c) = Places(b)
      /\ \A p : At(c, p) = At(b, p)
  BY <1>2, FrozenIs
<1>4. obj' = [obj EXCEPT ![k] = c]
  BY <1>1
<1> HIDE DEF c
<1>5. MapOf(c) = MapOf(b)
  <2>1. NotNull(c) = NotNull(b)
    BY <1>3 DEF NotNull
  <2>2. \A p \in NotNull(b) : Where(c, p) = Where(b, p) /\ At(c, p).v = At(b, p).v
    BY <1>3 DEF Where, IsTable
  <2> QED BY <1>2, <1>3, <2>1, <2>2, MapsEqual
<1>6. Kept(obj, obj') /\ UNCHANGED wait
  BY FreezeKeeps DEF FREEZE, THAW
<1> QED BY <1>2, <1>4, <1>5, <1>6, ChangedStep

LEMMA ItemRefines == ASSUME IInv, "duplicates" \notin Defects, ITEM PROVE Refines
<1>1. Kept(obj, obj')
  BY ItemKeeps
<1>2. \/ FAIL /\ UNCHANGED obj
      \/ UNCHANGED <<obj, wait>>
      \/ \E k \in OfType(T), x \in Operands :
           /\ WithKey(obj[k], x) = {} /\ UNCHANGED wait
           /\ obj' = [obj EXCEPT ![k] = Keyed(obj[k], Unused(obj[k]), x)]
  BY DEF ITEM, ItemTable
<1>3. ASSUME NEW k \in OfType(T), NEW x \in Operands, WithKey(obj[k], x) = {}, UNCHANGED wait,
             obj' = [obj EXCEPT ![k] = Keyed(obj[k], Unused(obj[k]), x)]
      PROVE  Refines
  <2> DEFINE b == obj[k]
             c == Keyed(b, Unused(b), x)
  <2>1. k \in DOMAIN obj /\ GoodBlock(b, obj, made) /\ IsTable(b)
    BY BlocksGood DEF OfType, IsTable
  <2>2. GoodValue(x, obj)
    BY OperandsGood
  <2>3. /\ GoodBlock(c, obj, made) /\ Places(b) \subseteq Places(c) /\ c.type = b.type
        /\ \A p \in Places(b) : At(c, p).v = At(b, p).v
        /\ \A p \in Places(b) : At(b, p).key # Free => At(c, p).key = At(b, p).key
        /\ \A p \in Places(c) \ Places(b) : At(c, p).v = Null
    BY <1>3, <2>1, <2>2, KeyedIs
  <2>4. obj' = [obj EXCEPT ![k] = c]
    BY <1>3
  <2> HIDE DEF c
  <2>5. MapOf(c) = MapOf(b)
    <3>1. NotNull(c) = NotNull(b)
      BY <2>3 DEF NotNull
    <3>2. \A p \in NotNull(b) : p \in Places(b) /\ At(b, p).key # Free
      BY <2>1 DEF NotNull, GoodBlock, GoodTable
    <3>3. \A p \in NotNull(b) : Where(c, p) = Where(b, p) /\ At(c, p).v = At(b, p).v
      BY <2>3, <3>2 DEF Where, IsTable
    <3> QED BY <2>1, <2>3, <3>1, <3>3, MapsEqual
  <2> QED BY <1>1, <1>3, <2>1, <2>4, <2>5, ChangedStep
<1> QED BY <1>2, <1>3, FailStep, QuietStep

LEMMA AsgnvRefines == ASSUME IInv, "duplicates" \notin Defects, ASGNV PROVE Refines
<1> DEFINE w == Last(wait)
           v == Front(wait)
           k == w.name[1]
           at == w.name[2]
           x == todo.v
           b == obj[k]
           c == Assigned(b, at, x)
           key == Where(b, at)
           m == Mapped(obj)
           n == Mapped(obj')
           h == HeldIn(obj, wait)
           last == h[Len(h)]
<1>1. /\ w \in Frames /\ k \in DOMAIN obj /\ at \in Places(b) /\ GoodBlock(b, obj, made)
      /\ IsTable(b) => At(b, at).key # Free
      /\ GoodValue(x, obj) /\ obj' = [obj EXCEPT ![k] = c]
  BY AssignedTo
<1>2. /\ MapOf(c) = M!With(MapOf(b), key, x)
      /\ x # Null => key \in DOMAIN MapOf(c) /\ MapOf(c)[key] = x
      /\ x = Null => key \notin DOMAIN MapOf(c)
  BY <1>1, MapAssigned
<1>3. wait' = v /\ wait # <<>> /\ w.name # <<>> /\ w.proc = "ASGN"
  BY DEF ASGNV, Waits
<1>4. Names(wait) = Append(Names(v), w.name) /\ v \in Seq(Frames) /\ GoodWait(v, obj, types)
  BY <1>3, BlocksGood, NamesPopped, WaitFront DEF Gathers, Holds
<1>5. w.name \in Addresses
  BY <1>1, <1>3 DEF Frames, Addresses
<1>6. h # <<>> /\ HeldIn(obj, v) = SubSeq(h, 1, Len(h) - 1) /\ last = ElementIn(obj, w.name)
  <2> HIDE DEF v, w
  <2> QED BY <1>4, <1>5, HeldMore, ZenonT(30)
<1>7. HeldIn(obj', wait') = HeldIn(obj, v)
  BY <1>3, <1>4, AsgnvKeeps, HeldStays
<1>8. last.obj = k /\ last.key = key
  <2> HIDE DEF last
  <2> QED BY <1>6 DEF ElementIn
<1> HIDE DEF c, key, v, w, k, at, x, h, last
<1>9. DOMAIN obj' = DOMAIN obj /\ \A j \in DOMAIN obj : obj'[j] = IF j = k THEN c ELSE obj[j]
  BY <1>1, BlocksGood
<1>10. /\ DOMAIN n = DOMAIN m /\ k \in DOMAIN m /\ m[k] = MapOf(b)
       /\ \A j \in DOMAIN m : n[j] = IF j = k THEN MapOf(c) ELSE m[j]
  BY <1>1, <1>9 DEF Mapped
<1> HIDE DEF b, m, n
<1> DEFINE y == IF h # <<>> /\ last.key \in DOMAIN n[last.obj] THEN n[last.obj][last.key] ELSE Null
<1>11. y = x
  BY <1>2, <1>6, <1>8, <1>10
<1> HIDE DEF y
<1>12. \A j \in DOMAIN m : n[j] = IF j = last.obj THEN M!With(m[j], last.key, y) ELSE m[j]
  BY <1>2, <1>8, <1>10, <1>11
<1>13. HeldIn(obj', wait') = SubSeq(h, 1, Len(h) - 1)
  BY <1>6, <1>7
<1> QED BY <1>6, <1>10, <1>12, <1>13 DEF Stores, Refines, y, last, h, m, n

LEMMA StepRefines == ASSUME IInv, "duplicates" \notin Defects, [Next]_vars PROVE Refines
<1>1. CASE UNCHANGED vars
  BY <1>1, QuietStep DEF vars
<1>2. CASE Next
  BY <1>2, ItemRefines, SmallRefines, AsgnRefines, AsgnnRefines, AsgnvRefines, MakesRefine,
     FreezeRefines, SortRefines, SortvRefines, DatdefRefines, DefdatRefines, Defd3Refines,
     FieldRefines, Field1Refines DEF Next
<1> QED BY <1>1, <1>2

(* As far as arrays of equal keys are not made tables, elements keep their *)
(* values whatever is done to other elements and to the blocks they are    *)
(* in, and an assignment changes the element that its left side named,     *)
(* however the table has grown and whatever else was assigned while its    *)
(* right side was evaluated (ITEM, ASGN, FREEZE, CONVERT, SORT).           *)
THEOREM ImplementsMaps == ASSUME "duplicates" \notin Defects PROVE Spec => MapsSpec
<1> DEFINE Ms == [k \in Objects |-> MapOf(obj[k])]
           Hs == [i \in DOMAIN Names(wait) |-> ElementAt(Names(wait)[i])]
<1>1. Init => M!Init
  <2> SUFFICES ASSUME Init PROVE M!Init
    OBVIOUS
  <2>1. obj \in Seq(Blocks) /\ wait = <<>>
    BY InitInv, BlocksGood DEF Init
  <2>2. Hs = <<>>
    <3>1. Names(wait) = <<>>
      BY <2>1, NamesEmpty
    <3> QED BY <3>1
  <2>3. DOMAIN Ms = 1 .. Len(Ms)
    BY <2>1 DEF Objects
  <2> QED BY <2>2, <2>3 DEF M!Init
<1>2. IInv /\ [Next]_vars => [M!Next]_<<Ms, Hs>>
  <2> SUFFICES ASSUME IInv, [Next]_vars PROVE [M!Next]_<<Ms, Hs>>
    OBVIOUS
  <2>1. Refines
    BY StepRefines
  <2>2. Ms = Mapped(obj) /\ Ms' = Mapped(obj')
    BY DEF Mapped, Objects
  <2>3. Hs = HeldIn(obj, wait) /\ Hs' = HeldIn(obj', wait')
    BY DEF HeldIn, ElementIn, ElementAt, Where
  <2>4. CASE SameMaps /\ SameHeld
    BY <2>2, <2>3, <2>4 DEF SameMaps, SameHeld
  <2>5. CASE OneMore(Mapped(obj), Mapped(obj')) /\ SameHeld
    BY <2>2, <2>3, <2>5 DEF OneMore, SameHeld, M!Next, M!New
  <2>6. CASE OneMore(HeldIn(obj, wait), HeldIn(obj', wait')) /\ SameMaps
    BY <2>2, <2>3, <2>6 DEF OneMore, SameMaps, M!Next, M!Hold
  <2>7. CASE Stores
    BY <2>2, <2>3, <2>7 DEF Stores, M!Next, M!Store, M!Stored, M!Last
  <2>8. CASE NoneHeld /\ SameMaps
    BY <2>2, <2>3, <2>8 DEF NoneHeld, SameMaps, M!Next, M!Fail
  <2> QED BY <2>1, <2>4, <2>5, <2>6, <2>7, <2>8 DEF Refines
<1> QED BY <1>1, <1>2, InitInv, NextInv, PTL DEF Spec, MapsSpec, M!Spec
=============================================================================
