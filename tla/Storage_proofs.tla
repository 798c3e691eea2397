-------------------------- MODULE Storage_proofs ---------------------------
(* Theorems about Storage: it stays a row of unmarked blocks whatever is   *)
(* collected, the bin has every string, equal strings are one structure,   *)
(* and the collector finds a title for every pointer.                      *)
EXTENDS Storage, FiniteSetTheorems, SequenceTheorems, WellFoundedInduction, TLAPS

-----------------------------------------------------------------------------
(* Induction.  What is false for some natural number is false for a least  *)
(* one.                                                                    *)
LEMMA NatLeast ==
  ASSUME NEW X \in SUBSET Nat, X # {}
  PROVE  \E n \in X : \A m \in X : n <= m
<1> DEFINE Lower == {ss \in Nat \X Nat : ss[1] < ss[2]}
<1>1. IsWellFoundedOn(Lower, Nat)
  BY NatLessThanWellFounded DEF OpToRel
<1> HIDE DEF Lower
<1>2. \E x \in X : \A y \in X : ~ (<<y, x>> \in Lower)
  BY <1>1, WFMin
<1>3. PICK n \in X : \A m \in X : ~ (<<m, n>> \in Lower)
  BY <1>2
<1>4. ASSUME NEW m \in X, m < n PROVE FALSE
  <2>1. <<m, n>> \in Nat \X Nat /\ <<m, n>>[1] < <<m, n>>[2]
    BY <1>4
  <2>2. <<m, n>> \in Lower
    BY <2>1, Zenon DEF Lower
  <2> QED BY <1>3, <2>2
<1>5. ASSUME NEW m \in X PROVE n <= m
  BY <1>4
<1> QED BY <1>5

(* A set of numbers that holds 0 and with each number up to n the next one *)
(* holds all of them up to n.                                              *)
LEMMA Counting ==
  ASSUME NEW n \in Nat, NEW X, 0 \in X,
         \A m \in 1 .. n : m - 1 \in X => m \in X
  PROVE  0 .. n \subseteq X
<1> SUFFICES ASSUME 0 .. n \ X # {} PROVE FALSE
  OBVIOUS
<1>1. PICK m \in 0 .. n \ X : \A k \in 0 .. n \ X : m <= k
  <2>1. 0 .. n \ X \in SUBSET Nat
    OBVIOUS
  <2> QED BY <2>1, NatLeast
<1>2. m \in 1 .. n
  BY <1>1
<1>3. m - 1 \in 0 .. n /\ ~ m <= m - 1
  BY <1>2
<1> QED BY <1>1, <1>2, <1>3

(* A function whose values follow from its value at a place that is nearer *)
(* to an end exists, as the walks through storage and chains define it.    *)
Follows(f, a, stop, base, next, step) ==
    f[a] = IF a \in stop THEN base[a] ELSE step[a][f[next[a]]]

LEMMA Descends ==
  ASSUME NEW Dom, NEW Val, NEW n \in Nat, NEW m \in [Dom -> 0 .. n], NEW stop,
         NEW base \in [Dom -> Val], NEW next \in [Dom -> Dom],
         NEW step \in [Dom -> [Val -> Val]],
         \A a \in Dom \ stop : m[next[a]] < m[a]
  PROVE  \E f \in [Dom -> Val] : \A a \in Dom : Follows(f, a, stop, base, next, step)
<1> DEFINE Right(f, k) == \A a \in Dom : m[a] <= k => Follows(f, a, stop, base, next, step)
           X == {k \in 0 .. n : \E f \in [Dom -> Val] : Right(f, k)}
<1>1. ASSUME NEW k \in 0 .. n, NEW f \in [Dom -> Val],
             \A a \in Dom : m[a] < k => Follows(f, a, stop, base, next, step)
      PROVE  k \in X
  <2> DEFINE g == [a \in Dom |-> IF m[a] < k THEN f[a]
                                 ELSE IF a \in stop THEN base[a] ELSE step[a][f[next[a]]]]
  <2>1. g \in [Dom -> Val]
    OBVIOUS
  <2>2. ASSUME NEW a \in Dom, m[a] <= k PROVE Follows(g, a, stop, base, next, step)
    <3>1. CASE a \in stop
      <4>1. m[a] < k => f[a] = base[a]
        BY <1>1, <3>1 DEF Follows
      <4> QED BY <3>1, <4>1 DEF Follows
    <3>2. CASE a \notin stop
      <4>1. next[a] \in Dom /\ m[next[a]] < m[a] /\ m[a] \in Nat /\ m[next[a]] \in Nat
        BY <3>2
      <4>2. m[next[a]] < k
        BY <2>2, <4>1
      <4>3. g[next[a]] = f[next[a]]
        BY <4>1, <4>2
      <4>4. g[a] = step[a][f[next[a]]]
        <5>1. m[a] < k => f[a] = step[a][f[next[a]]]
          BY <1>1, <3>2 DEF Follows
        <5> QED BY <3>2, <5>1
      <4> QED BY <3>2, <4>3, <4>4 DEF Follows
    <3> QED BY <3>1, <3>2
  <2> HIDE DEF g
  <2>3. Right(g, k)
    BY <2>2
  <2> QED BY <2>1, <2>3
<1>2. 0 \in X
  <2>1. \A a \in Dom : ~(m[a] < 0)
    OBVIOUS
  <2> HIDE DEF X
  <2> QED BY <1>1, <2>1
<1>3. ASSUME NEW k \in 1 .. n, k - 1 \in X PROVE k \in X
  <2>1. PICK f \in [Dom -> Val] : Right(f, k - 1)
    BY <1>3
  <2>2. ASSUME NEW a \in Dom, m[a] < k PROVE m[a] <= k - 1
    BY <2>2
  <2>3. \A a \in Dom : m[a] < k => Follows(f, a, stop, base, next, step)
    BY <2>1, <2>2
  <2>4. k \in 0 .. n
    OBVIOUS
  <2> HIDE DEF X
  <2> QED BY <1>1, <2>3, <2>4
<1> HIDE DEF X
<1>4. \A k \in 1 .. n : k - 1 \in X => k \in X
  BY <1>3
<1>5. 0 .. n \subseteq X
  BY <1>2, <1>4, Counting
<1>6. PICK f \in [Dom -> Val] : Right(f, n)
  BY <1>5 DEF X
<1>7. \A a \in Dom : m[a] <= n
  OBVIOUS
<1> QED BY <1>6, <1>7

-----------------------------------------------------------------------------
(* What is always so: the blocks fill the storage, from the first to the   *)
(* last descriptor.                                                        *)
Flags == {"PTR", "TTL", "STTL", "MARK"} \cup CharFlags
Descs == [a : Nat, f : SUBSET Flags, v : Nat]
Roots == Own \cup {"XPTR"} \cup Stack
Heaps == [mem : Seq(Descs), bin : Nat, root : [Roots -> Descs], fault : BOOLEAN]

Behind(m, t) == t + BKSIZE(m[t])
Tiling(m, X) ==
    /\ X \subseteq 1 .. Len(m) /\ 1 \in X
    /\ \A t \in X : Behind(m, t) \in X \cup {Len(m) + 1}
    /\ \A t, u \in X : t < u => Behind(m, t) <= u

(* Titles point to themselves and carry no mark, and nothing else looks    *)
(* like a title, unless it is a character.                                 *)
IsText(m, t, i) == "STTL" \in m[t].f /\ i >= TEXT
Titled(m, X) ==
    \A t \in X :
        /\ m[t].a = t /\ "TTL" \in m[t].f /\ "MARK" \notin m[t].f
        /\ \A i \in 1 .. BKSIZE(m[t]) - 1 :
              "TTL" \in m[t + i].f => IsText(m, t, i) /\ "TTL" \in CharFlags

(* What the program sees points to a string or into a block.               *)
InBlock(m, X, a) ==
    \E t \in X : a = t \/ ("STTL" \notin m[t].f /\ t <= a /\ a < Behind(m, t))
Refers(m, X, d) ==
    "TTL" \notin d.f /\ (d.a # 0 => "PTR" \in d.f /\ InBlock(m, X, d.a))
FieldsRight(m, X) ==
    \A t \in X : \A i \in Fields(m, t) : Refers(m, X, m[t + i])
RootsRight(m, X, root) ==
    root.OCBSCL = Ptr(1) /\ \A x \in Stack \cup {"XPTR"} : Refers(m, X, root[x])

LEMMA DescType ==
  ASSUME NEW d \in Descs
  PROVE  /\ BKSIZE(d) \in Nat /\ BKSIZE(d) >= 1 /\ d.a \in Nat /\ d.v \in Nat
         /\ d.f \subseteq Flags
         /\ "STTL" \in d.f => BKSIZE(d) >= TEXT
BY DEF Descs, BKSIZE, TEXT

LEMMA HeapType ==
  ASSUME NEW H \in Heaps
  PROVE  /\ H.mem \in Seq(Descs) /\ Len(H.mem) \in Nat /\ DOMAIN H.mem = 1 .. Len(H.mem)
         /\ \A a \in 1 .. Len(H.mem) : H.mem[a] \in Descs
         /\ FRSGPT(H) = Len(H.mem) + 1
         /\ \A x \in Roots : H.root[x] \in Descs
         /\ H.bin \in Nat
<1>1. H.mem \in Seq(Descs) /\ H.root \in [Roots -> Descs] /\ H.bin \in Nat
  BY DEF Heaps
<1>2. Len(H.mem) \in Nat /\ DOMAIN H.mem = 1 .. Len(H.mem)
  BY <1>1, LenProperties
<1>3. \A a \in 1 .. Len(H.mem) : H.mem[a] \in Descs
  BY <1>1, <1>2, ElementOfSeq
<1> QED BY <1>1, <1>2, <1>3 DEF FRSGPT

LEMMA TilingType ==
  ASSUME NEW m \in Seq(Descs), NEW X, Tiling(m, X), NEW t \in X
  PROVE  /\ t \in Nat /\ t >= 1 /\ t <= Len(m) /\ t \in 1 .. Len(m) /\ m[t] \in Descs
         /\ BKSIZE(m[t]) \in Nat /\ BKSIZE(m[t]) >= 1
         /\ Behind(m, t) = t + BKSIZE(m[t]) /\ Behind(m, t) > t
         /\ Behind(m, t) <= Len(m) + 1 /\ Behind(m, t) \in Nat
         /\ Len(m) \in Nat /\ IsFiniteSet(X)
<1>1. Len(m) \in Nat /\ X \subseteq 1 .. Len(m)
  BY LenProperties DEF Tiling
<1>2. t \in 1 .. Len(m)
  BY <1>1
<1>3. m[t] \in Descs
  BY <1>2, ElementOfSeq
<1>4. BKSIZE(m[t]) \in Nat /\ BKSIZE(m[t]) >= 1
  BY <1>3, DescType
<1>5. Behind(m, t) = t + BKSIZE(m[t])
  BY DEF Behind
<1>6. Behind(m, t) \in 1 .. Len(m) \/ Behind(m, t) = Len(m) + 1
  BY <1>1 DEF Tiling
<1>7. IsFiniteSet(X)
  <2>1. IsFiniteSet(1 .. Len(m))
    BY <1>1, FS_Interval
  <2> QED BY <1>1, <2>1, FS_Subset
<1> HIDE DEF Behind
<1> QED BY <1>1, <1>2, <1>3, <1>4, <1>5, <1>6, <1>7

(* Every descriptor is in one block.                                       *)
LEMMA Owner ==
  ASSUME NEW m \in Seq(Descs), NEW X, Tiling(m, X), NEW a \in 1 .. Len(m)
  PROVE  \E t \in X : t <= a /\ a < Behind(m, t)
<1> DEFINE Y == {k \in 0 .. a : \E t \in X : t <= a /\ k = a - t}
<1>1. Y # {} /\ Y \in SUBSET Nat
  <2>1. 1 \in X
    BY DEF Tiling
  <2>2. 1 <= a /\ a - 1 \in 0 .. a
    BY LenProperties
  <2>3. a - 1 \in Y
    BY <2>1, <2>2
  <2>4. Y \in SUBSET Nat
    BY <2>2
  <2> HIDE DEF Y
  <2> QED BY <2>3, <2>4
<1>2. PICK k \in Y : \A j \in Y : k <= j
  BY <1>1, NatLeast
<1>3. PICK t \in X : t <= a /\ k = a - t
  BY <1>2
<1>4. ASSUME Behind(m, t) <= a PROVE FALSE
  <2>1. /\ t \in Nat /\ Behind(m, t) > t /\ Behind(m, t) \in Nat /\ Len(m) \in Nat
    BY TilingType
  <2>2. Behind(m, t) # Len(m) + 1
    BY <1>4, <2>1
  <2>3. Behind(m, t) \in X
    BY <2>2 DEF Tiling
  <2>4. a - Behind(m, t) \in 0 .. a
    BY <1>4, <2>1
  <2>5. a - Behind(m, t) \in Y
    BY <1>4, <2>3, <2>4
  <2>6. k <= a - Behind(m, t)
    BY <1>2, <2>5
  <2> QED BY <1>3, <2>1, <2>6
<1>5. Behind(m, t) \in Nat /\ a \in Nat
  BY TilingType
<1> QED BY <1>3, <1>4, <1>5

LEMMA OwnerUnique ==
  ASSUME NEW m \in Seq(Descs), NEW X, Tiling(m, X), NEW t \in X, NEW u \in X, NEW a \in Nat,
         t <= a, a < Behind(m, t), u <= a, a < Behind(m, u)
  PROVE  t = u
<1>1. /\ t \in Nat /\ u \in Nat /\ Behind(m, t) \in Nat /\ Behind(m, u) \in Nat
  BY TilingType
<1>2. t < u => Behind(m, t) <= u
  BY DEF Tiling
<1>3. u < t => Behind(m, u) <= t
  BY DEF Tiling
<1> QED BY <1>1, <1>2, <1>3

(* The walk from block to block finds the titles of a tiling, and only     *)
(* them.                                                                   *)
LEMMA WalkSteps ==
  ASSUME NEW H \in Heaps
  PROVE  \E f : /\ Titles(H) = f[1]
                /\ \A a \in Nat \ {0} :
                      f[a] = IF a >= FRSGPT(H) THEN {} ELSE {a} \cup f[a + BKSIZE(H.mem[a])]
<1> DEFINE Dom == Nat \ {0}
           Val == SUBSET Nat
           end == FRSGPT(H)
           m == [a \in Dom |-> IF a >= end THEN 0 ELSE end - a]
           stop == {a \in Dom : a >= end}
           base == [a \in Dom |-> {}]
           next == [a \in Dom |-> IF a >= end THEN a ELSE a + BKSIZE(H.mem[a])]
           step == [a \in Dom |-> [v \in Val |-> {a} \cup v]]
           E(f) == [a \in Dom |-> IF a >= end THEN {} ELSE {a} \cup f[a + BKSIZE(H.mem[a])]]
           after == CHOOSE f : f = E(f)
<1>1. end \in Nat /\ \A a \in Dom : a >= end \/ (BKSIZE(H.mem[a]) \in Nat /\ BKSIZE(H.mem[a]) >= 1)
  <2>1. end \in Nat
    BY HeapType
  <2>2. ASSUME NEW a \in Dom, ~(a >= end) PROVE BKSIZE(H.mem[a]) \in Nat /\ BKSIZE(H.mem[a]) >= 1
    <3>1. a \in 1 .. Len(H.mem)
      BY <2>2, HeapType
    <3> QED BY <3>1, HeapType, DescType
  <2> QED BY <2>1, <2>2
<1> HIDE DEF end
<1>2. m \in [Dom -> 0 .. end] /\ next \in [Dom -> Dom] /\ base \in [Dom -> Val]
  BY <1>1
<1>3. step \in [Dom -> [Val -> Val]]
  OBVIOUS
<1>4. ASSUME NEW a \in Dom \ stop PROVE m[next[a]] < m[a]
  <2>1. ~(a >= end) /\ BKSIZE(H.mem[a]) \in Nat /\ BKSIZE(H.mem[a]) >= 1 /\ end \in Nat
    BY <1>1
  <2>2. next[a] = a + BKSIZE(H.mem[a]) /\ next[a] \in Dom /\ m[a] = end - a
    BY <2>1
  <2>3. m[next[a]] = IF next[a] >= end THEN 0 ELSE end - next[a]
    BY <2>2
  <2> HIDE DEF m, next
  <2> QED BY <2>1, <2>2, <2>3
<1>5. PICK f \in [Dom -> Val] : \A a \in Dom : Follows(f, a, stop, base, next, step)
  <2> HIDE DEF m, next, base, step, stop, Dom, Val
  <2> QED BY <1>1, <1>2, <1>3, <1>4, Descends
<1>6. ASSUME NEW a \in Dom
      PROVE  f[a] = IF a >= end THEN {} ELSE {a} \cup f[a + BKSIZE(H.mem[a])]
  <2>1. f[a] = IF a \in stop THEN base[a] ELSE step[a][f[next[a]]]
    BY <1>5 DEF Follows
  <2>2. next[a] \in Dom /\ f[next[a]] \in Val
    BY <1>2
  <2>3. step[a][f[next[a]]] = {a} \cup f[next[a]]
    BY <2>2
  <2> QED BY <2>1, <2>3
<1>7. f = E(f)
  BY <1>6
<1>8. after = E(after)
  BY <1>7
<1>9. Titles(H) = after[1]
  BY DEF Titles, HDSGPT, end
<1> HIDE DEF after
<1>10. \A a \in Dom : after[a] = IF a >= end THEN {} ELSE {a} \cup after[a + BKSIZE(H.mem[a])]
  BY <1>8
<1> QED BY <1>9, <1>10 DEF end

LEMMA TitlesAre ==
  ASSUME NEW H \in Heaps, NEW X, Tiling(H.mem, X)
  PROVE  Titles(H) = X
<1> DEFINE m == H.mem
           end == FRSGPT(H)
           n == Len(m)
<1>1. m \in Seq(Descs) /\ n \in Nat /\ end = n + 1
  BY HeapType
<1>2. PICK f : /\ Titles(H) = f[1]
               /\ \A a \in Nat \ {0} :
                    f[a] = IF a >= end THEN {} ELSE {a} \cup f[a + BKSIZE(m[a])]
  BY WalkSteps
<1> HIDE DEF m, end, n
<1> DEFINE Y == {k \in 0 .. n : \E t \in X \cup {end} :
                    t = end - k /\ f[t] # {u \in X : u >= t}}
<1>3. ASSUME Y # {} PROVE FALSE
  <2>1. Y \in SUBSET Nat
    BY <1>1
  <2>2. PICK k \in Y : \A j \in Y : k <= j
    BY <1>3, <2>1, NatLeast
  <2>3. PICK t \in X \cup {end} : t = end - k /\ f[t] # {u \in X : u >= t}
    BY <2>2
  <2>4. \A u \in X : u \in Nat /\ u <= n
    BY <1>1, TilingType DEF m, n
  <2>5. CASE t = end
    <3>1. f[t] = {}
      <4>1. t \in Nat \ {0} /\ t >= end
        BY <1>1, <2>5
      <4> QED BY <1>2, <4>1
    <3>2. ASSUME NEW u \in X PROVE ~(u >= t)
      <4>1. u \in Nat /\ u <= n
        BY <2>4
      <4>2. t = n + 1 /\ n \in Nat
        BY <1>1, <2>5
      <4> QED BY <4>1, <4>2
    <3> QED BY <2>3, <3>1, <3>2
  <2>6. CASE t \in X
    <3>1. /\ t \in Nat /\ t >= 1 /\ t <= n /\ Behind(m, t) = t + BKSIZE(m[t])
          /\ Behind(m, t) > t /\ Behind(m, t) <= n + 1 /\ Behind(m, t) \in Nat
      BY <1>1, <2>6, TilingType DEF m, n
    <3> DEFINE b == Behind(m, t)
    <3>2. b \in X \cup {end}
      BY <1>1, <2>6 DEF Tiling, m, n
    <3>3. f[t] = {t} \cup f[b]
      <4>1. t \in Nat \ {0} /\ ~(t >= end)
        BY <1>1, <3>1
      <4>2. f[t] = {t} \cup f[t + BKSIZE(m[t])]
        BY <1>2, <4>1
      <4> QED BY <3>1, <4>2
    <3>4. \A u \in X : u > t => u >= b
      BY <2>6 DEF Tiling, m
    <3> HIDE DEF b
    <3>5. f[b] = {u \in X : u >= b}
      <4>1. end - b \in 0 .. n /\ end - b < k /\ b = end - (end - b)
        BY <1>1, <2>3, <3>1 DEF b
      <4>2. end - b \notin Y
        BY <2>1, <2>2, <4>1
      <4> QED BY <3>2, <4>1, <4>2
    <3>6. {u \in X : u >= t} = {t} \cup {u \in X : u >= b}
      <4>1. ASSUME NEW u \in X PROVE u >= t <=> (u = t \/ u >= b)
        BY <2>4, <3>1, <3>4 DEF b
      <4> QED BY <2>6, <4>1
    <3> QED BY <2>3, <3>3, <3>5, <3>6
  <2> QED BY <2>5, <2>6
<1>4. 1 \in X /\ n >= 1 /\ n \in 0 .. n /\ \A u \in X : u \in Nat /\ u >= 1
  <2>1. 1 \in X
    BY DEF Tiling, m
  <2> QED BY <1>1, <2>1, TilingType DEF m, n
<1>5. f[1] = {u \in X : u >= 1}
  <2>1. n \notin Y
    BY <1>3
  <2>2. 1 = end - n
    BY <1>1
  <2> QED BY <1>4, <2>1, <2>2
<1> QED BY <1>2, <1>4, <1>5

-----------------------------------------------------------------------------
(* TOP.                                                                    *)
IsTop(m, a, b) ==
    /\ b \in 0 .. a /\ (b # 0 => "TTL" \in m[b].f)
    /\ \A c \in b + 1 .. a : "TTL" \notin m[c].f

LEMMA TopSteps ==
  ASSUME NEW m \in Seq(Descs), NEW a \in Nat
  PROVE  \E f \in [0 .. a -> 0 .. a] :
            /\ Top(m, a) = f[a]
            /\ \A b \in 0 .. a : f[b] = IF b \notin DOMAIN m \/ "TTL" \in m[b].f THEN b ELSE f[b - 1]
<1> DEFINE Dom == 0 .. a
           mm == [b \in Dom |-> b]
           stop == {b \in Dom : b \notin DOMAIN m \/ "TTL" \in m[b].f}
           next == [b \in Dom |-> IF b = 0 THEN 0 ELSE b - 1]
           step == [b \in Dom |-> [v \in Dom |-> v]]
           E(f) == [b \in Dom |-> IF b \notin DOMAIN m \/ "TTL" \in m[b].f THEN b ELSE f[b - 1]]
           after == CHOOSE f : f = E(f)
<1>1. /\ a \in Nat /\ DOMAIN m = 1 .. Len(m) /\ Len(m) \in Nat
  BY LenProperties
<1>2. 0 \in stop /\ 0 \notin DOMAIN m
  BY <1>1
<1>3. /\ mm \in [Dom -> 0 .. a] /\ next \in [Dom -> Dom] /\ step \in [Dom -> [Dom -> Dom]]
  BY <1>1
<1>4. ASSUME NEW b \in Dom \ stop PROVE mm[next[b]] < mm[b]
  <2>1. b # 0 /\ b - 1 \in Dom /\ next[b] = b - 1 /\ mm[b] = b /\ mm[b - 1] = b - 1
    BY <1>1, <1>2
  <2> HIDE DEF mm, next
  <2> QED BY <1>1, <2>1
<1>5. PICK f \in [Dom -> Dom] : \A b \in Dom : Follows(f, b, stop, mm, next, step)
  <2> HIDE DEF mm, next, step, stop, Dom
  <2>1. mm \in [Dom -> Dom]
    BY <1>3 DEF Dom
  <2> QED BY <1>1, <1>3, <1>4, <2>1, Descends
<1>6. ASSUME NEW b \in Dom
      PROVE  f[b] = IF b \notin DOMAIN m \/ "TTL" \in m[b].f THEN b ELSE f[b - 1]
  <2>1. f[b] = IF b \in stop THEN mm[b] ELSE step[b][f[next[b]]]
    BY <1>5 DEF Follows
  <2>2. next[b] \in Dom /\ f[next[b]] \in Dom /\ step[b][f[next[b]]] = f[next[b]]
    BY <1>3
  <2>3. b \notin stop => next[b] = b - 1
    BY <1>2
  <2> QED BY <2>1, <2>2, <2>3
<1>7. f = E(f)
  BY <1>6, Zenon
<1>8. after = E(after)
  BY <1>7
<1>9. Top(m, a) = after[a]
  BY DEF Top
<1>10. \A b \in Dom : after[b] = IF b \notin DOMAIN m \/ "TTL" \in m[b].f THEN b ELSE after[b - 1]
  <2> HIDE DEF after
  <2> QED BY <1>8
<1> HIDE DEF after
<1>11. after[0] = 0
  BY <1>1, <1>2, <1>10
<1>12. after \in [0 .. a -> 0 .. a]
  <2>1. after = [b \in Dom |-> after[b]]
    BY <1>8
  <2> DEFINE X == {b \in Dom : after[b] \in Dom}
  <2>2. 0 \in X
    BY <1>1, <1>11
  <2>3. ASSUME NEW b \in 1 .. a, b - 1 \in X PROVE b \in X
    <3>1. b \in Dom /\ after[b - 1] \in Dom
      BY <1>1, <2>3
    <3>2. after[b] = b \/ after[b] = after[b - 1]
      BY <1>10, <3>1
    <3> QED BY <3>1, <3>2
  <2> HIDE DEF X
  <2>4. \A b \in 1 .. a : b - 1 \in X => b \in X
    BY <2>3
  <2>5. 0 .. a \subseteq X
    BY <1>1, <2>2, <2>4, Counting
  <2>6. \A b \in Dom : after[b] \in Dom
    BY <2>5 DEF X
  <2> QED BY <2>1, <2>6
<1> QED BY <1>9, <1>10, <1>12

LEMMA TopIs ==
  ASSUME NEW m \in Seq(Descs), NEW a \in 1 .. Len(m)
  PROVE  IsTop(m, a, Top(m, a))
<1>1. PICK f \in [0 .. a -> 0 .. a] :
         /\ Top(m, a) = f[a] /\ f[0] = 0
         /\ \A b \in 1 .. a : f[b] = IF "TTL" \in m[b].f THEN b ELSE f[b - 1]
  <2>1. DOMAIN m = 1 .. Len(m) /\ Len(m) \in Nat /\ a \in Nat
    BY LenProperties
  <2>2. PICK f \in [0 .. a -> 0 .. a] :
          /\ Top(m, a) = f[a]
          /\ \A b \in 0 .. a : f[b] = IF b \notin DOMAIN m \/ "TTL" \in m[b].f THEN b ELSE f[b - 1]
    BY <2>1, TopSteps
  <2>3. 0 \in 0 .. a /\ 0 \notin DOMAIN m /\ \A b \in 1 .. a : b \in 0 .. a /\ b \in DOMAIN m
    BY <2>1
  <2> QED BY <2>2, <2>3
<1> DEFINE X == {b \in 0 .. a : IsTop(m, b, f[b])}
<1>2. 0 \in X
  BY <1>1 DEF IsTop
<1>3. ASSUME NEW b \in 1 .. a, b - 1 \in X PROVE b \in X
  <2>1. IsTop(m, b - 1, f[b - 1]) /\ b \in Nat /\ b \in 0 .. a
    BY <1>3
  <2>2. f[b] = IF "TTL" \in m[b].f THEN b ELSE f[b - 1]
    BY <1>1
  <2>3. CASE "TTL" \in m[b].f
    BY <2>1, <2>2, <2>3 DEF IsTop
  <2>4. CASE "TTL" \notin m[b].f
    <3> DEFINE t == f[b - 1]
    <3>1. t \in 0 .. b - 1 /\ (t # 0 => "TTL" \in m[t].f) /\ f[b] = t
          /\ \A c \in t + 1 .. b - 1 : "TTL" \notin m[c].f
      BY <2>1, <2>2, <2>4 DEF IsTop
    <3> HIDE DEF t
    <3>2. \A c \in t + 1 .. b : c = b \/ c \in t + 1 .. b - 1
      BY <2>1, <3>1
    <3>3. t \in 0 .. b
      BY <2>1, <3>1
    <3>4. \A c \in t + 1 .. b : "TTL" \notin m[c].f
      BY <2>4, <3>1, <3>2
    <3> QED BY <2>1, <3>1, <3>3, <3>4 DEF IsTop
  <2> QED BY <2>3, <2>4
<1> HIDE DEF X
<1>4. \A b \in 1 .. a : b - 1 \in X => b \in X
  BY <1>3
<1>5. 0 .. a \subseteq X /\ a \in 0 .. a
  <2>1. a \in Nat /\ a \in 0 .. a
    BY LenProperties
  <2>2. 0 .. a \subseteq X
    BY <1>2, <1>4, <2>1, Counting
  <2> QED BY <2>1, <2>2
<1> QED BY <1>1, <1>5 DEF X

(* An address behind what is allocated stays as it is.                     *)
LEMMA TopAbove ==
  ASSUME NEW m \in Seq(Descs), NEW a \in Nat, a > Len(m)
  PROVE  Top(m, a) = a
<1>1. a \in 0 .. a /\ a \notin DOMAIN m
  BY LenProperties
<1> QED BY <1>1, TopSteps

(* Where TOP finds a title, it is that of the block pointed into.          *)
LEMMA TopOwns ==
  ASSUME NEW m \in Seq(Descs), NEW X, Tiling(m, X), Titled(m, X), NEW a \in 1 .. Len(m),
         Top(m, a) \in X
  PROVE  Top(m, a) <= a /\ a < Behind(m, Top(m, a))
<1>1. PICK t \in X : t <= a /\ a < Behind(m, t)
  BY Owner
<1> DEFINE b == Top(m, a)
<1>2. IsTop(m, a, b)
  BY TopIs
<1>3. b \in Nat /\ t \in Nat /\ Behind(m, b) \in Nat /\ t \in 1 .. Len(m) /\ a \in Nat
      /\ "TTL" \in m[t].f
  BY TilingType DEF Titled
<1> HIDE DEF b
<1>4. b <= a /\ b >= t
  BY <1>1, <1>2, <1>3 DEF IsTop
<1>5. b > t => Behind(m, t) <= b
  BY DEF Tiling, b
<1>6. Behind(m, t) \in Nat
  BY TilingType
<1>7. b = t
  BY <1>1, <1>3, <1>4, <1>5, <1>6
<1> QED BY <1>1, <1>7 DEF b

(* It is for what the program sees.                                        *)
LEMMA TopOfBlock ==
  ASSUME NEW m \in Seq(Descs), NEW X, Tiling(m, X), Titled(m, X), NEW t \in X, NEW a \in Nat,
         a = t \/ ("STTL" \notin m[t].f /\ t <= a /\ a < Behind(m, t))
  PROVE  Top(m, a) = t /\ a \in 1 .. Len(m) /\ t <= a /\ a < Behind(m, t)
<1>1. /\ t \in Nat /\ Behind(m, t) \in Nat /\ Behind(m, t) > t /\ t >= 1 /\ Len(m) \in Nat
      /\ Behind(m, t) <= Len(m) + 1 /\ t \in 1 .. Len(m) /\ "TTL" \in m[t].f
      /\ Behind(m, t) = t + BKSIZE(m[t]) /\ BKSIZE(m[t]) \in Nat
  BY TilingType DEF Titled
<1>2. a \in 1 .. Len(m) /\ t <= a /\ a < Behind(m, t)
  BY <1>1
<1> DEFINE b == Top(m, a)
<1>3. IsTop(m, a, b)
  BY <1>2, TopIs
<1> HIDE DEF b
<1>4. b \in Nat /\ b <= a /\ b >= t
  BY <1>1, <1>2, <1>3 DEF IsTop
<1>5. ASSUME b # t PROVE FALSE
  <2>1. "STTL" \notin m[t].f /\ b > t /\ "TTL" \in m[b].f
    BY <1>1, <1>3, <1>4, <1>5 DEF IsTop
  <2>2. b - t \in 1 .. BKSIZE(m[t]) - 1 /\ t + (b - t) = b
    BY <1>1, <1>2, <1>4, <2>1
  <2>3. "TTL" \in m[t + (b - t)].f
    BY <2>1, <2>2
  <2>4. IsText(m, t, b - t)
    BY <2>2, <2>3 DEF Titled
  <2> QED BY <2>1, <2>4 DEF IsText
<1> QED BY <1>2, <1>5 DEF b

LEMMA TopOfRefers ==
  ASSUME NEW m \in Seq(Descs), NEW X, Tiling(m, X), Titled(m, X), NEW d \in Descs,
         Refers(m, X, d), d.a # 0
  PROVE  /\ IsPtr(d) /\ d.a \in 1 .. Len(m) /\ Top(m, d.a) \in X
         /\ Top(m, d.a) <= d.a /\ d.a < Behind(m, Top(m, d.a))
         /\ "STTL" \in m[Top(m, d.a)].f => d.a = Top(m, d.a)
<1>1. "PTR" \in d.f /\ InBlock(m, X, d.a) /\ d.a \in Nat
  BY DEF Refers, Descs
<1>2. PICK t \in X : d.a = t \/ ("STTL" \notin m[t].f /\ t <= d.a /\ d.a < Behind(m, t))
  BY <1>1 DEF InBlock
<1>3. Top(m, d.a) = t /\ d.a \in 1 .. Len(m) /\ t <= d.a /\ d.a < Behind(m, t)
  BY <1>1, <1>2, TopOfBlock
<1> QED BY <1>1, <1>2, <1>3 DEF IsPtr

(* Where no character looks like a title TOP finds titles everywhere.      *)
LEMMA TopAlways ==
  ASSUME NEW m \in Seq(Descs), NEW X, Tiling(m, X), Titled(m, X), NEW a \in 1 .. Len(m),
         "TTL" \notin CharFlags
  PROVE  Top(m, a) \in X
<1>1. PICK t \in X : t <= a /\ a < Behind(m, t)
  BY Owner
<1>2. /\ t \in Nat /\ t \in 1 .. Len(m) /\ "TTL" \in m[t].f /\ a \in Nat /\ t >= 1
      /\ Behind(m, t) = t + BKSIZE(m[t]) /\ BKSIZE(m[t]) \in Nat
  BY TilingType DEF Titled
<1> DEFINE b == Top(m, a)
<1>3. IsTop(m, a, b)
  BY TopIs
<1> HIDE DEF b
<1>4. b \in Nat /\ b <= a /\ b >= t /\ "TTL" \in m[b].f
  BY <1>1, <1>2, <1>3 DEF IsTop
<1>5. ASSUME b # t PROVE FALSE
  <2>1. b - t \in 1 .. BKSIZE(m[t]) - 1 /\ t + (b - t) = b
    BY <1>1, <1>2, <1>4, <1>5
  <2>2. "TTL" \in m[t + (b - t)].f
    BY <1>4, <2>1
  <2> QED BY <2>1, <2>2 DEF Titled
<1> QED BY <1>5 DEF b

-----------------------------------------------------------------------------
(* The chain of the bin: the strings are in some order, and the link of    *)
(* each leads to the next one.                                             *)
StringsIn(m, X) == {t \in X : "STTL" \in m[t].f}
NextIs(S, ord, a, b) ==
    \/ b = 0 /\ \A s \in S : ord[s] <= ord[a]
    \/ b \in S /\ ord[b] > ord[a] /\ \A s \in S : ord[s] > ord[a] => ord[s] >= ord[b]
Linked(H, S, ord, n) ==
    /\ 0 \notin S /\ n \in Nat /\ ord \in [{0} \cup S -> 0 .. n] /\ ord[0] = 0
    /\ \A s \in S : ord[s] > 0
    /\ \A s, u \in S : ord[s] = ord[u] => s = u
    /\ \A a \in {0} \cup S : NextIs(S, ord, a, LinkOf(H, a))

(* The strings are filed in order, under the characters they have.         *)
Key(H, t) == H.mem[t + LNKFLD].v
Filed(H, S, ord) ==
    /\ \A s \in S : Text(H, s) = Key(H, s)
    /\ \A s, u \in S : ord[s] < ord[u] => Key(H, s) < Key(H, u)

Shaped(H, X) ==
    /\ Tiling(H.mem, X) /\ Titled(H.mem, X)
    /\ FieldsRight(H.mem, X) /\ RootsRight(H.mem, X, H.root)
    /\ \A s \in StringsIn(H.mem, X) : BKSIZE(H.mem[s]) = Size(Text(H, s))

Chain(H, S) ==
    \E n \in Nat : \E ord : /\ Linked(H, S, ord, n)
                            /\ DOMAIN Raised = {} => Filed(H, S, ord)

Sound(H) == H \in Heaps /\ Shaped(H, Titles(H)) /\ Chain(H, Strings(H))

LEMMA SoundFrom ==
  ASSUME NEW H \in Heaps, NEW X, Shaped(H, X), Chain(H, StringsIn(H.mem, X))
  PROVE  Sound(H) /\ Titles(H) = X /\ Strings(H) = StringsIn(H.mem, X)
<1>1. Titles(H) = X
  BY TitlesAre DEF Shaped
<1>2. Strings(H) = StringsIn(H.mem, X)
  BY <1>1 DEF Strings, StringsIn
<1> QED BY <1>1, <1>2 DEF Sound

LEMMA SizeType == ASSUME NEW s PROVE Size(s) \in Nat /\ Size(s) > TEXT
<1>1. s \in Strs => Length[s] \in Nat /\ Length[s] > 0
  BY StrsAssumption
<1> QED BY <1>1 DEF Size, TEXT

LEMMA SoundFacts ==
  ASSUME NEW H, Sound(H)
  PROVE  /\ H \in Heaps /\ H.mem \in Seq(Descs) /\ Tiling(H.mem, Titles(H)) /\ Titled(H.mem, Titles(H))
         /\ FieldsRight(H.mem, Titles(H)) /\ RootsRight(H.mem, Titles(H), H.root)
         /\ Strings(H) = StringsIn(H.mem, Titles(H)) /\ Strings(H) \subseteq Titles(H)
         /\ Chain(H, Strings(H))
         /\ \A s \in Strings(H) : BKSIZE(H.mem[s]) = Size(Text(H, s))
<1>1. Strings(H) = StringsIn(H.mem, Titles(H))
  BY DEF Strings, StringsIn
<1>2. Strings(H) \subseteq Titles(H)
  BY DEF Strings
<1>3. H \in Heaps /\ Shaped(H, Titles(H)) /\ Chain(H, Strings(H))
  BY DEF Sound
<1>4. H.mem \in Seq(Descs)
  BY <1>3, HeapType
<1> QED BY <1>1, <1>2, <1>3, <1>4 DEF Shaped

(* A string is four descriptors and its characters.                        *)
LEMMA StringShape ==
  ASSUME NEW H, Sound(H), NEW s \in Strings(H)
  PROVE  /\ s \in Nat /\ s >= 1 /\ s \in Titles(H)
         /\ Behind(H.mem, s) = s + BKSIZE(H.mem[s]) /\ BKSIZE(H.mem[s]) \in Nat
         /\ Behind(H.mem, s) <= Len(H.mem) + 1 /\ Len(H.mem) \in Nat
         /\ BKSIZE(H.mem[s]) > TEXT /\ "STTL" \in H.mem[s].f
         /\ \A i \in 0 .. TEXT : s + i \in 1 .. Len(H.mem) /\ H.mem[s + i] \in Descs
         /\ Fields(H.mem, s) = 1 .. ATTRIB
<1>1. s \in Titles(H) /\ "STTL" \in H.mem[s].f
  BY DEF Strings
<1>2. /\ s \in Nat /\ s >= 1 /\ Behind(H.mem, s) = s + BKSIZE(H.mem[s]) /\ BKSIZE(H.mem[s]) \in Nat
      /\ Behind(H.mem, s) <= Len(H.mem) + 1 /\ Len(H.mem) \in Nat
  BY <1>1, SoundFacts, TilingType
<1>3. BKSIZE(H.mem[s]) > TEXT
  BY SoundFacts, SizeType
<1>4. ASSUME NEW i \in 0 .. TEXT PROVE s + i \in 1 .. Len(H.mem) /\ H.mem[s + i] \in Descs
  <2>1. s + i \in 1 .. Len(H.mem)
    BY <1>2, <1>3 DEF TEXT
  <2> QED BY <2>1, SoundFacts, HeapType
<1> QED BY <1>1, <1>2, <1>3, <1>4 DEF Fields

(* What is defined by recursion along the chain exists.                    *)
Along(H, f, a, stop, base, step) ==
    f[a] = IF a \in stop THEN base[a] ELSE step[a][f[LinkOf(H, a)]]

LEMMA ChainFunction ==
  ASSUME NEW H, NEW S, NEW ord, NEW n, Linked(H, S, ord, n), NEW Val, NEW stop,
         \A a \in {0} \cup S : LinkOf(H, a) = 0 => a \in stop,
         NEW base \in [{0} \cup S -> Val], NEW step \in [{0} \cup S -> [Val -> Val]]
  PROVE  \E f \in [{0} \cup S -> Val] : \A a \in {0} \cup S : Along(H, f, a, stop, base, step)
<1> DEFINE Dom == {0} \cup S
           m == [a \in Dom |-> n - ord[a]]
           next == [a \in Dom |-> IF LinkOf(H, a) = 0 THEN a ELSE LinkOf(H, a)]
<1>1. n \in Nat /\ \A a \in Dom : ord[a] \in Nat /\ ord[a] <= n
  BY DEF Linked
<1>2. ASSUME NEW a \in Dom, LinkOf(H, a) # 0
      PROVE  LinkOf(H, a) \in Dom /\ ord[LinkOf(H, a)] > ord[a]
  BY <1>2 DEF Linked, NextIs
<1>3. m \in [Dom -> 0 .. n]
  <2>1. ASSUME NEW a \in Dom PROVE n - ord[a] \in 0 .. n
    <3>1. ord[a] \in Nat /\ ord[a] <= n /\ n \in Nat
      BY <1>1
    <3> QED BY <3>1
  <2> QED BY <2>1
<1>4. next \in [Dom -> Dom]
  BY <1>2
<1>5. ASSUME NEW a \in Dom \ stop PROVE m[next[a]] < m[a]
  <2>1. LinkOf(H, a) # 0
    BY <1>5
  <2>2. next[a] = LinkOf(H, a) /\ next[a] \in Dom /\ ord[next[a]] > ord[a]
    BY <1>2, <2>1
  <2>3. m[next[a]] = n - ord[next[a]] /\ m[a] = n - ord[a]
    BY <2>2
  <2> HIDE DEF next, m
  <2>4. ord[next[a]] \in Nat /\ ord[a] \in Nat /\ n \in Nat
    BY <1>1, <2>2
  <2> QED BY <2>2, <2>3, <2>4
<1>6. base \in [Dom -> Val] /\ step \in [Dom -> [Val -> Val]]
  OBVIOUS
<1>7. PICK f \in [Dom -> Val] : \A a \in Dom : Follows(f, a, stop, base, next, step)
  <2> HIDE DEF m, next, Dom
  <2> QED BY <1>1, <1>3, <1>4, <1>5, <1>6, Descends
<1>8. ASSUME NEW a \in Dom PROVE Along(H, f, a, stop, base, step)
  <2>1. a \notin stop => next[a] = LinkOf(H, a)
    OBVIOUS
  <2> HIDE DEF next
  <2> QED BY <1>7, <2>1 DEF Follows, Along
<1> QED BY <1>7, <1>8

LEMMA ChainedSteps ==
  ASSUME NEW H, NEW ord, NEW n, Linked(H, Strings(H), ord, n)
  PROVE  \E f : /\ Chained(H) = f[0]
                /\ \A a \in {0} \cup Strings(H) :
                     f[a] = IF LinkOf(H, a) = 0 THEN {} ELSE {LinkOf(H, a)} \cup f[LinkOf(H, a)]
<1> DEFINE S == Strings(H)
           Dom == {0} \cup S
           Val == SUBSET S
           stop == {a \in Dom : LinkOf(H, a) = 0}
           base == [a \in Dom |-> {}]
           step == [a \in Dom |-> [v \in Val |-> IF LinkOf(H, a) = 0 THEN v ELSE {LinkOf(H, a)} \cup v]]
           E(f) == [a \in Dom |-> IF LinkOf(H, a) = 0 THEN {} ELSE {LinkOf(H, a)} \cup f[LinkOf(H, a)]]
           after == CHOOSE f : f = E(f)
<1>1. \A a \in Dom : LinkOf(H, a) # 0 => LinkOf(H, a) \in S
  BY DEF Linked, NextIs
<1>2. base \in [Dom -> Val] /\ step \in [Dom -> [Val -> Val]]
  BY <1>1
<1>3. PICK f \in [Dom -> Val] : \A a \in Dom : Along(H, f, a, stop, base, step)
  <2>1. \A a \in Dom : LinkOf(H, a) = 0 => a \in stop
    OBVIOUS
  <2>2. Linked(H, S, ord, n)
    OBVIOUS
  <2> HIDE DEF stop, base, step, Val, S
  <2> QED BY <1>2, <2>1, <2>2, ChainFunction
<1>4. ASSUME NEW a \in Dom
      PROVE  f[a] = IF LinkOf(H, a) = 0 THEN {} ELSE {LinkOf(H, a)} \cup f[LinkOf(H, a)]
  <2>1. LinkOf(H, a) # 0 => f[LinkOf(H, a)] \in Val
    BY <1>1
  <2> HIDE DEF Val
  <2>2. LinkOf(H, a) # 0 => step[a][f[LinkOf(H, a)]] = {LinkOf(H, a)} \cup f[LinkOf(H, a)]
    BY <2>1
  <2> QED BY <1>3, <2>2 DEF Along
<1>5. f = E(f)
  BY <1>4, Zenon
<1>6. after = E(after)
  BY <1>5
<1>7. Chained(H) = after[0]
  BY DEF Chained, Links
<1> HIDE DEF after
<1>8. \A a \in Dom : after[a] = IF LinkOf(H, a) = 0 THEN {} ELSE {LinkOf(H, a)} \cup after[LinkOf(H, a)]
  BY <1>6
<1> QED BY <1>7, <1>8

LEMMA ChainedAre ==
  ASSUME NEW H, NEW ord, NEW n, Linked(H, Strings(H), ord, n)
  PROVE  Chained(H) = Strings(H)
<1> DEFINE S == Strings(H)
           Dom == {0} \cup S
<1>1. PICK f : /\ Chained(H) = f[0]
               /\ \A a \in Dom :
                    f[a] = IF LinkOf(H, a) = 0 THEN {} ELSE {LinkOf(H, a)} \cup f[LinkOf(H, a)]
  BY ChainedSteps
<1>2. /\ n \in Nat /\ \A a \in Dom : ord[a] \in Nat /\ ord[a] <= n
      /\ ord[0] = 0 /\ \A s \in S : ord[s] > 0
      /\ \A s, u \in S : ord[s] = ord[u] => s = u
      /\ \A a \in Dom : NextIs(S, ord, a, LinkOf(H, a))
  BY DEF Linked
<1> HIDE DEF S
<1> DEFINE Y == {k \in 0 .. n : \E a \in Dom : k = n - ord[a] /\ f[a] # {s \in S : ord[s] > ord[a]}}
<1>3. ASSUME Y # {} PROVE FALSE
  <2>1. Y \in SUBSET Nat
    BY <1>2
  <2>2. PICK k \in Y : \A j \in Y : k <= j
    BY <1>3, <2>1, NatLeast
  <2>3. PICK a \in Dom : k = n - ord[a] /\ f[a] # {s \in S : ord[s] > ord[a]}
    BY <2>2
  <2> DEFINE b == LinkOf(H, a)
  <2>4. NextIs(S, ord, a, b)
    BY <1>2
  <2>5. f[a] = IF b = 0 THEN {} ELSE {b} \cup f[b]
    BY <1>1
  <2> HIDE DEF b
  <2>6. CASE b = 0
    <3>1. \A s \in S : ord[s] <= ord[a]
      <4>1. 0 \notin S
        BY <1>2
      <4> QED BY <2>4, <2>6, <4>1 DEF NextIs
    <3>2. ASSUME NEW s \in S PROVE ~(ord[s] > ord[a])
      <4>1. ord[s] \in Nat /\ ord[a] \in Nat /\ ord[s] <= ord[a]
        BY <1>2, <3>1
      <4> QED BY <4>1
    <3> QED BY <2>3, <2>5, <2>6, <3>2
  <2>7. CASE b # 0
    <3>1. b \in S /\ ord[b] > ord[a] /\ \A s \in S : ord[s] > ord[a] => ord[s] >= ord[b]
      BY <2>4, <2>7 DEF NextIs
    <3>2. f[b] = {s \in S : ord[s] > ord[b]}
      <4>1. ord[a] \in Nat /\ ord[b] \in Nat /\ ord[b] <= n
        BY <1>2, <3>1
      <4>2. n - ord[b] \in 0 .. n /\ n - ord[b] < k
        BY <1>2, <2>3, <3>1, <4>1
      <4>3. n - ord[b] \notin Y
        BY <2>1, <2>2, <4>2
      <4> QED BY <3>1, <4>2, <4>3
    <3>3. ASSUME NEW s \in S PROVE ord[s] > ord[a] <=> (s = b \/ ord[s] > ord[b])
      <4>1. ord[s] \in Nat /\ ord[b] \in Nat /\ ord[a] \in Nat
        BY <1>2, <3>1
      <4>2. ord[s] = ord[b] => s = b
        BY <1>2, <3>1
      <4> QED BY <3>1, <4>1, <4>2
    <3>4. f[a] = {s \in S : ord[s] > ord[a]}
      BY <2>5, <2>7, <3>1, <3>2, <3>3
    <3> QED BY <2>3, <3>4
  <2> QED BY <2>6, <2>7
<1>4. f[0] = {s \in S : ord[s] > ord[0]}
  <2>1. n - ord[0] \in 0 .. n
    BY <1>2
  <2>2. n - ord[0] \notin Y
    BY <1>3
  <2> QED BY <2>1, <2>2
<1>5. f[0] = S
  BY <1>2, <1>4
<1> QED BY <1>1, <1>5 DEF S

-----------------------------------------------------------------------------
(* What is marked.  Sets that grow within a finite set come to rest.       *)
LEMMA Saturates ==
  ASSUME NEW X, IsFiniteSet(X), NEW k, k = Cardinality(X), NEW f \in [0 .. k + 1 -> SUBSET X],
         \A j \in 1 .. k + 1 : f[j - 1] \subseteq f[j],
         \A j \in 1 .. k : f[j] = f[j - 1] => f[j + 1] = f[j]
  PROVE  f[k + 1] = f[k]
<1>1. k \in Nat
  BY FS_CardinalityType
<1>2. ASSUME NEW j \in 0 .. k + 1
      PROVE  IsFiniteSet(f[j]) /\ Cardinality(f[j]) \in Nat /\ f[j] \subseteq X
  <2>1. f[j] \subseteq X
    OBVIOUS
  <2> QED BY <2>1, FS_Subset, FS_CardinalityType
<1> DEFINE Y == {j \in 0 .. k : f[j + 1] = f[j] \/ Cardinality(f[j]) >= j}
<1>3. 0 \in Y
  <2>1. 0 \in 0 .. k /\ 0 \in 0 .. k + 1
    BY <1>1
  <2>2. Cardinality(f[0]) >= 0
    BY <1>2, <2>1
  <2> QED BY <2>1, <2>2
<1>4. ASSUME NEW j \in 1 .. k, j - 1 \in Y PROVE j \in Y
  <2>1. j \in 0 .. k /\ j \in 0 .. k + 1 /\ j - 1 \in 0 .. k + 1 /\ j \in 1 .. k + 1
        /\ (j - 1) + 1 = j /\ j \in Nat
    BY <1>1
  <2>2. f[j] = f[j - 1] \/ Cardinality(f[j - 1]) >= j - 1
    BY <1>4, <2>1
  <2>3. CASE f[j] = f[j - 1]
    BY <2>1, <2>3
  <2>4. CASE f[j] # f[j - 1] /\ Cardinality(f[j - 1]) >= j - 1
    <3>1. f[j - 1] \subseteq f[j] /\ f[j - 1] # f[j] /\ IsFiniteSet(f[j])
      BY <1>2, <2>1, <2>4
    <3>2. Cardinality(f[j - 1]) <= Cardinality(f[j]) /\ Cardinality(f[j - 1]) # Cardinality(f[j])
      <4>1. Cardinality(f[j - 1]) <= Cardinality(f[j])
        BY <3>1, FS_Subset
      <4>2. Cardinality(f[j - 1]) = Cardinality(f[j]) => f[j - 1] = f[j]
        BY <3>1, FS_Subset
      <4> QED BY <3>1, <4>1, <4>2
    <3>3. Cardinality(f[j]) >= j
      <4>1. Cardinality(f[j - 1]) \in Nat /\ Cardinality(f[j]) \in Nat
        BY <1>2, <2>1
      <4> QED BY <2>1, <2>4, <3>2, <4>1
    <3> QED BY <2>1, <3>3
  <2> QED BY <2>2, <2>3, <2>4
<1> HIDE DEF Y
<1>5. \A j \in 1 .. k : j - 1 \in Y => j \in Y
  BY <1>4
<1>6. 0 .. k \subseteq Y
  BY <1>1, <1>3, <1>5, Counting
<1>7. k \in 0 .. k /\ k \in 0 .. k + 1 /\ k + 1 \in 0 .. k + 1 /\ k + 1 \in 1 .. k + 1 /\ (k + 1) - 1 = k
  BY <1>1
<1>8. f[k + 1] = f[k] \/ Cardinality(f[k]) >= k
  BY <1>6, <1>7 DEF Y
<1>9. ASSUME Cardinality(f[k]) >= k PROVE f[k + 1] = f[k]
  <2>1. f[k] \subseteq X /\ f[k + 1] \subseteq X /\ f[k] \subseteq f[k + 1] /\ Cardinality(f[k]) \in Nat
    BY <1>2, <1>7
  <2>2. Cardinality(f[k]) <= Cardinality(X)
    BY <2>1, FS_Subset
  <2>3. Cardinality(f[k]) = Cardinality(X)
    BY <1>1, <1>9, <2>1, <2>2
  <2>4. f[k] = X
    BY <2>1, <2>3, FS_Subset
  <2> QED BY <2>1, <2>4
<1> QED BY <1>8, <1>9

(* What stays holds the first block and, with each block, those that its   *)
(* fields point to; and those that the resident blocks point to.           *)
Holds(H, K, d) == IsPtr(d) /\ d.a <= Len(H.mem) => Top(H.mem, d.a) \in K
KeptRight(H, K) ==
    /\ K \subseteq Titles(H) /\ 1 \in K
    /\ \A x \in Roots : Holds(H, K, H.root[x])
    /\ \A t \in K : \A i \in Fields(H.mem, t) : Holds(H, K, H.mem[t + i])

Pointees(H, t) ==
    {Top(H.mem, H.mem[t + i].a) : i \in {j \in Fields(H.mem, t) : IsPtr(H.mem[t + j])}}
Unmarked(H, X) == {t \in X : t < FRSGPT(H) /\ "MARK" \notin H.mem[t].f}
FirstMarked(H) ==
    Unmarked(H, {Top(H.mem, d.a) : d \in {c \in Range(H.root) : IsPtr(c)}}
                \cup {s \in Chained(H) : Kept(H, s)})
Marks(H, X) == X \cup Unmarked(H, UNION {Pointees(H, t) : t \in X})

LEMMA FieldType ==
  ASSUME NEW H, Sound(H), NEW t \in Titles(H), NEW i \in Fields(H.mem, t)
  PROVE  i \in 1 .. BKSIZE(H.mem[t]) - 1 /\ t + i \in 1 .. Len(H.mem) /\ H.mem[t + i] \in Descs
<1>1. /\ t \in Nat /\ t >= 1 /\ Behind(H.mem, t) = t + BKSIZE(H.mem[t]) /\ BKSIZE(H.mem[t]) \in Nat
      /\ Behind(H.mem, t) <= Len(H.mem) + 1 /\ Len(H.mem) \in Nat /\ H.mem[t] \in Descs
  BY SoundFacts, TilingType
<1>2. i \in 1 .. BKSIZE(H.mem[t]) - 1
  <2>1. CASE "STTL" \in H.mem[t].f
    <3>1. BKSIZE(H.mem[t]) >= TEXT
      BY <1>1, <2>1, DescType
    <3> QED BY <1>1, <2>1, <3>1 DEF Fields, TEXT, ATTRIB
  <2>2. CASE "STTL" \notin H.mem[t].f
    <3>1. i \in 1 .. H.mem[t].v /\ BKSIZE(H.mem[t]) = H.mem[t].v + 1
      BY <2>2 DEF Fields, BKSIZE
    <3>2. H.mem[t].v \in Nat
      BY <1>1, DescType
    <3> QED BY <3>1, <3>2
  <2> QED BY <2>1, <2>2
<1>3. t + i \in 1 .. Len(H.mem)
  BY <1>1, <1>2
<1> QED BY <1>2, <1>3, SoundFacts, HeapType

(* TOP where the collector looks.                                          *)
LEMMA TopFound ==
  ASSUME NEW H, Sound(H), NEW d \in Descs, IsPtr(d), ~ Astray(H, d)
  PROVE  /\ d.a \in Nat
         /\ Top(H.mem, d.a) < FRSGPT(H) => d.a <= Len(H.mem)
         /\ d.a <= Len(H.mem) => Top(H.mem, d.a) \in Titles(H)
<1>1. d.a \in Nat /\ H.mem \in Seq(Descs) /\ FRSGPT(H) = Len(H.mem) + 1 /\ Len(H.mem) \in Nat
  BY SoundFacts, HeapType, DescType
<1>2. d.a > Len(H.mem) => Top(H.mem, d.a) = d.a
  BY <1>1, TopAbove
<1> QED BY <1>1, <1>2 DEF Astray

LEMMA MarkedSteps ==
  ASSUME NEW H, Sound(H), ~ GoesAstray(H)
  PROVE  \E f \in [0 .. Cardinality(Titles(H)) + 1 -> SUBSET Titles(H)] :
            /\ f[0] = FirstMarked(H) /\ Marked(H) = f[Cardinality(Titles(H)) + 1]
            /\ \A j \in 1 .. Cardinality(Titles(H)) + 1 : f[j] = Marks(H, f[j - 1])
<1> DEFINE k == Cardinality(Titles(H))
           Dom == 0 .. k + 1
           Val == SUBSET Titles(H)
           mm == [n \in Dom |-> n]
           base == [n \in Dom |-> FirstMarked(H)]
           next == [n \in Dom |-> IF n = 0 THEN 0 ELSE n - 1]
           step == [n \in Dom |-> [v \in Val |-> Marks(H, v)]]
           E(f) == [n \in Dom |-> IF n = 0 THEN FirstMarked(H) ELSE Marks(H, f[n - 1])]
           after == CHOOSE f : f = E(f)
<1>1. k \in Nat /\ IsFiniteSet(Titles(H))
  <2>1. \E t \in Titles(H) : TRUE
    BY SoundFacts DEF Tiling
  <2>2. IsFiniteSet(Titles(H))
    BY <2>1, SoundFacts, TilingType
  <2> QED BY <2>2, FS_CardinalityType
<1>2. FirstMarked(H) \in Val
  <2>1. ASSUME NEW c \in Range(H.root), IsPtr(c), Top(H.mem, c.a) < FRSGPT(H)
        PROVE  Top(H.mem, c.a) \in Titles(H)
    <3>1. c \in Descs
      <4>1. H.root \in [Roots -> Descs]
        BY SoundFacts DEF Heaps
      <4> QED BY <4>1 DEF Range
    <3>2. ~ Astray(H, c)
      BY DEF GoesAstray
    <3> QED BY <2>1, <3>1, <3>2, TopFound
  <2>2. Chained(H) \subseteq Titles(H)
    <3>1. PICK n \in Nat : \E ord : Linked(H, Strings(H), ord, n)
      BY SoundFacts DEF Chain
    <3>2. Chained(H) = Strings(H)
      BY <3>1, ChainedAre
    <3> QED BY <3>2, SoundFacts
  <2>3. \A t \in FirstMarked(H) : t < FRSGPT(H)
    BY DEF FirstMarked, Unmarked
  <2>4. ASSUME NEW t \in FirstMarked(H)
        PROVE  (\E c \in Range(H.root) : IsPtr(c) /\ t = Top(H.mem, c.a)) \/ t \in Chained(H)
    BY DEF FirstMarked, Unmarked
  <2> QED BY <2>1, <2>2, <2>3, <2>4
<1>3. ASSUME NEW v \in Val PROVE Marks(H, v) \in Val
  <2>1. ASSUME NEW u \in Marks(H, v), u \notin v PROVE u \in Titles(H)
    <3>1. PICK t \in v : u \in Pointees(H, t)
      BY <2>1 DEF Marks, Unmarked
    <3>2. PICK i \in Fields(H.mem, t) : IsPtr(H.mem[t + i]) /\ u = Top(H.mem, H.mem[t + i].a)
      BY <3>1 DEF Pointees
    <3>3. u < FRSGPT(H)
      BY <2>1 DEF Marks, Unmarked
    <3>4. H.mem[t + i] \in Descs /\ ~ Astray(H, H.mem[t + i])
      BY FieldType DEF GoesAstray
    <3> QED BY <3>2, <3>3, <3>4, TopFound
  <2> QED BY <2>1
<1>4. /\ mm \in [Dom -> 0 .. k + 1] /\ next \in [Dom -> Dom] /\ step \in [Dom -> [Val -> Val]]
      /\ base \in [Dom -> Val] /\ k + 1 \in Nat /\ 0 \in Dom /\ k + 1 \in Dom
  BY <1>1, <1>2, <1>3
<1>5. ASSUME NEW b \in Dom \ {0} PROVE mm[next[b]] < mm[b]
  <2>1. b - 1 \in Dom /\ next[b] = b - 1 /\ mm[b] = b /\ mm[b - 1] = b - 1 /\ b \in Nat
    BY <1>1
  <2> HIDE DEF mm, next
  <2> QED BY <2>1
<1>6. PICK f \in [Dom -> Val] : \A b \in Dom : Follows(f, b, {0}, base, next, step)
  <2> HIDE DEF mm, next, step, base, Dom, k, Val
  <2> QED BY <1>4, <1>5, Descends
<1>7. ASSUME NEW n \in Dom
      PROVE  f[n] = IF n = 0 THEN FirstMarked(H) ELSE Marks(H, f[n - 1])
  <2>1. f[n] = IF n \in {0} THEN base[n] ELSE step[n][f[next[n]]]
    BY <1>6 DEF Follows
  <2>2. next[n] \in Dom /\ f[next[n]] \in Val
    BY <1>4
  <2>3. step[n][f[next[n]]] = Marks(H, f[next[n]])
    BY <2>2
  <2>4. n # 0 => next[n] = n - 1
    OBVIOUS
  <2> QED BY <2>1, <2>3, <2>4
<1>8. f = E(f)
  BY <1>7, Zenon
<1>9. after = E(after)
  BY <1>8
<1>10. Marked(H) = after[k + 1]
  BY DEF Marked, Marks, FirstMarked, Unmarked, Pointees
<1> HIDE DEF after
<1>11. \A n \in Dom : after[n] = IF n = 0 THEN FirstMarked(H) ELSE Marks(H, after[n - 1])
  BY <1>9
<1>12. after \in [Dom -> Val]
  <2>1. after = [n \in Dom |-> after[n]]
    BY <1>9
  <2> DEFINE X == {n \in Dom : after[n] \in Val}
  <2>2. 0 \in X
    BY <1>2, <1>4, <1>11
  <2>3. ASSUME NEW n \in 1 .. k + 1, n - 1 \in X PROVE n \in X
    <3>1. n \in Dom /\ n # 0 /\ after[n - 1] \in Val
      BY <1>1, <2>3
    <3> QED BY <1>3, <1>11, <3>1
  <2> HIDE DEF X
  <2>4. \A n \in 1 .. k + 1 : n - 1 \in X => n \in X
    BY <2>3
  <2>5. 0 .. k + 1 \subseteq X
    BY <1>4, <2>2, <2>4, Counting
  <2>6. \A n \in Dom : after[n] \in Val
    BY <2>5 DEF X
  <2> QED BY <2>1, <2>6
<1>13. \A n \in 1 .. k + 1 : n \in Dom /\ n # 0
  BY <1>1
<1> QED BY <1>4, <1>10, <1>11, <1>12, <1>13

LEMMA SurvivorsRight ==
  ASSUME NEW H, Sound(H), ~ GoesAstray(H)
  PROVE  KeptRight(H, Survivors(H))
<1> DEFINE k == Cardinality(Titles(H))
           K == Marked(H)
<1>1. PICK f \in [0 .. k + 1 -> SUBSET Titles(H)] :
         /\ f[0] = FirstMarked(H) /\ K = f[k + 1]
         /\ \A j \in 1 .. k + 1 : f[j] = Marks(H, f[j - 1])
  BY MarkedSteps
<1> HIDE DEF K
<1>2. 1 \in Titles(H) /\ H.mem \in Seq(Descs) /\ H \in Heaps
  BY SoundFacts DEF Tiling
<1>3. IsFiniteSet(Titles(H)) /\ k \in Nat
  <2>1. IsFiniteSet(Titles(H))
    BY <1>2, SoundFacts, TilingType
  <2> QED BY <2>1, FS_CardinalityType
<1>4. \A X : X \subseteq Marks(H, X)
  BY DEF Marks
<1> HIDE DEF k
<1>5. \A j \in 1 .. k + 1 : f[j - 1] \subseteq f[j]
  BY <1>1, <1>4
<1>6. \A j \in 1 .. k : f[j] = f[j - 1] => f[j + 1] = f[j]
  <2>1. ASSUME NEW j \in 1 .. k, f[j] = f[j - 1] PROVE f[j + 1] = f[j]
    <3>1. j \in 1 .. k + 1 /\ j + 1 \in 1 .. k + 1 /\ (j + 1) - 1 = j
      BY <1>3
    <3>2. f[j + 1] = Marks(H, f[j]) /\ f[j] = Marks(H, f[j - 1])
      BY <1>1, <3>1
    <3> QED BY <2>1, <3>2
  <2> QED BY <2>1
<1>7. f[k + 1] = f[k]
  <2>1. k = Cardinality(Titles(H))
    BY DEF k
  <2> QED BY <1>3, <1>5, <1>6, <2>1, Saturates
<1>8. K = Marks(H, K)
  <2>1. k + 1 \in 1 .. k + 1 /\ (k + 1) - 1 = k
    BY <1>3
  <2> QED BY <1>1, <1>7, <2>1
<1>9. FirstMarked(H) \subseteq K
  <2> DEFINE X == {j \in 0 .. k + 1 : FirstMarked(H) \subseteq f[j]}
  <2>1. 0 \in X
    BY <1>1, <1>3
  <2>2. ASSUME NEW j \in 1 .. k + 1, j - 1 \in X PROVE j \in X
    <3>1. j \in 0 .. k + 1 /\ f[j - 1] \subseteq f[j] /\ FirstMarked(H) \subseteq f[j - 1]
      BY <1>3, <1>5, <2>2
    <3> QED BY <3>1
  <2> HIDE DEF X
  <2>3. \A j \in 1 .. k + 1 : j - 1 \in X => j \in X
    BY <2>2
  <2>4. k + 1 \in Nat /\ k + 1 \in 0 .. k + 1
    BY <1>3
  <2>5. 0 .. k + 1 \subseteq X
    BY <2>1, <2>3, <2>4, Counting
  <2>6. k + 1 \in X
    BY <2>4, <2>5
  <2> QED BY <1>1, <2>6 DEF X
<1>10. K \subseteq Titles(H)
  <2>1. k + 1 \in 0 .. k + 1
    BY <1>3
  <2> QED BY <1>1, <2>1
<1>11. \A t \in Titles(H) : t < FRSGPT(H) /\ "MARK" \notin H.mem[t].f
  <2>1. ASSUME NEW t \in Titles(H) PROVE t < FRSGPT(H)
    <3>1. t \in 1 .. Len(H.mem) /\ FRSGPT(H) = Len(H.mem) + 1 /\ Len(H.mem) \in Nat
      BY <1>2, SoundFacts, TilingType, HeapType
    <3> QED BY <3>1
  <2> QED BY <2>1, SoundFacts DEF Titled
<1>12. Survivors(H) = K
  BY <1>10, <1>11 DEF Survivors, K
<1>13. ASSUME NEW x \in Roots PROVE Holds(H, K, H.root[x])
  <2>1. H.root \in [Roots -> Descs]
    BY <1>2 DEF Heaps
  <2>2. H.root[x] \in Range(H.root) /\ H.root[x] \in Descs
    BY <2>1 DEF Range
  <2>3. ASSUME IsPtr(H.root[x]), H.root[x].a <= Len(H.mem) PROVE Top(H.mem, H.root[x].a) \in K
    <3>1. ~ Astray(H, H.root[x])
      BY <2>2 DEF GoesAstray
    <3>2. Top(H.mem, H.root[x].a) \in Titles(H)
      BY <2>2, <2>3, <3>1, TopFound
    <3>3. Top(H.mem, H.root[x].a) \in FirstMarked(H)
      BY <1>11, <2>2, <2>3, <3>2 DEF FirstMarked, Unmarked
    <3> QED BY <1>9, <3>3
  <2> QED BY <2>3 DEF Holds
<1>14. ASSUME NEW t \in K, NEW i \in Fields(H.mem, t) PROVE Holds(H, K, H.mem[t + i])
  <2> DEFINE d == H.mem[t + i]
  <2>1. d \in Descs /\ ~ Astray(H, d)
    BY <1>10, FieldType DEF GoesAstray
  <2>2. ASSUME IsPtr(d), d.a <= Len(H.mem) PROVE Top(H.mem, d.a) \in K
    <3>1. Top(H.mem, d.a) \in Titles(H)
      <4> HIDE DEF d
      <4> QED BY <2>1, <2>2, TopFound
    <3>2. Top(H.mem, d.a) \in Pointees(H, t)
      BY <2>2 DEF Pointees
    <3>3. Top(H.mem, d.a) \in Marks(H, K)
      <4> HIDE DEF d
      <4> QED BY <1>11, <3>1, <3>2 DEF Marks, Unmarked
    <3> QED BY <1>8, <3>3
  <2> QED BY <2>2 DEF Holds
<1>15. 1 \in K
  <2>1. H.root.OCBSCL = Ptr(1) /\ "OCBSCL" \in Roots
    BY SoundFacts DEF RootsRight, Roots, Own
  <2>2. IsPtr(Ptr(1)) /\ Ptr(1).a = 1
    BY DEF IsPtr, Ptr, D
  <2>3. 1 <= Len(H.mem)
    BY <1>2, SoundFacts, TilingType
  <2>4. Holds(H, K, Ptr(1))
    BY <1>13, <2>1, Zenon
  <2>5. Top(H.mem, 1) = 1
    BY <1>2, SoundFacts, TopOfBlock
  <2> QED BY <2>2, <2>3, <2>4, <2>5 DEF Holds
<1> QED BY <1>10, <1>12, <1>13, <1>14, <1>15 DEF KeptRight

-----------------------------------------------------------------------------
(* Where blocks go: behind all that stays below them.                      *)
Below(H, K, a) == {b \in Staying(H, K) : b < a}
Place(H, K, a) == HDSGPT + Cardinality(Below(H, K, a))
Goal(H, K) == Cardinality(Staying(H, K))

LEMMA BlockType ==
  ASSUME NEW H, Sound(H), NEW t \in Titles(H)
  PROVE  /\ t \in Nat /\ t >= 1 /\ t \in 1 .. Len(H.mem) /\ H.mem[t] \in Descs
         /\ BKSIZE(H.mem[t]) \in Nat /\ BKSIZE(H.mem[t]) >= 1
         /\ Behind(H.mem, t) = t + BKSIZE(H.mem[t]) /\ Behind(H.mem, t) > t
         /\ Behind(H.mem, t) <= Len(H.mem) + 1 /\ Behind(H.mem, t) \in Nat
         /\ Behind(H.mem, t) \in Titles(H) \cup {Len(H.mem) + 1}
         /\ Len(H.mem) \in Nat /\ FRSGPT(H) = Len(H.mem) + 1 /\ H.mem \in Seq(Descs)
         /\ Whole(H, t) = t .. Behind(H.mem, t) - 1
<1>1. H.mem \in Seq(Descs) /\ Tiling(H.mem, Titles(H)) /\ H \in Heaps
  BY SoundFacts
<1>2. Behind(H.mem, t) \in Titles(H) \cup {Len(H.mem) + 1}
  BY <1>1 DEF Tiling
<1>3. FRSGPT(H) = Len(H.mem) + 1
  BY <1>1, HeapType
<1> QED BY <1>1, <1>2, <1>3, TilingType DEF Whole

(* A descriptor stays if the block it is in does.                          *)
LEMMA StayingIs ==
  ASSUME NEW H, Sound(H), NEW K, K \subseteq Titles(H)
  PROVE  /\ Staying(H, K) \subseteq 1 .. Len(H.mem) /\ IsFiniteSet(Staying(H, K))
         /\ \A t \in K : \A a \in Nat : t <= a /\ a < Behind(H.mem, t) => a \in Staying(H, K)
         /\ \A a \in Staying(H, K) : \E t \in K : t <= a /\ a < Behind(H.mem, t)
<1>1. ASSUME NEW a \in Staying(H, K)
      PROVE  /\ a \in 1 .. Len(H.mem)
             /\ \E t \in K : t <= a /\ a < Behind(H.mem, t)
  <2>1. PICK t \in K : a \in Whole(H, t)
    BY DEF Staying
  <2>2. /\ t \in Nat /\ t >= 1 /\ Behind(H.mem, t) <= Len(H.mem) + 1 /\ Behind(H.mem, t) \in Nat
        /\ Len(H.mem) \in Nat /\ Whole(H, t) = t .. Behind(H.mem, t) - 1
    BY BlockType
  <2>3. a \in t .. Behind(H.mem, t) - 1
    BY <2>1, <2>2
  <2> QED BY <2>2, <2>3
<1>2. ASSUME NEW t \in K, NEW a \in Nat, t <= a, a < Behind(H.mem, t) PROVE a \in Staying(H, K)
  <2>1. /\ t \in Nat /\ Behind(H.mem, t) \in Nat /\ Whole(H, t) = t .. Behind(H.mem, t) - 1
    BY BlockType
  <2>2. a \in Whole(H, t)
    BY <1>2, <2>1
  <2> QED BY <2>2 DEF Staying
<1>3. Staying(H, K) \subseteq 1 .. Len(H.mem)
  BY <1>1
<1>4. IsFiniteSet(Staying(H, K))
  <2>1. Len(H.mem) \in Nat
    BY SoundFacts, LenProperties
  <2>2. IsFiniteSet(1 .. Len(H.mem))
    BY <2>1, FS_Interval
  <2> QED BY <1>3, <2>2, FS_Subset
<1> QED BY <1>1, <1>2, <1>3, <1>4

LEMMA PlaceType ==
  ASSUME NEW H, Sound(H), NEW K, K \subseteq Titles(H), NEW a
  PROVE  /\ IsFiniteSet(Below(H, K, a)) /\ Place(H, K, a) \in Nat /\ Place(H, K, a) >= 1
         /\ Place(H, K, a) <= Goal(H, K) + 1 /\ Goal(H, K) \in Nat
<1>1. IsFiniteSet(Staying(H, K)) /\ Below(H, K, a) \subseteq Staying(H, K)
  BY StayingIs DEF Below
<1>2. /\ IsFiniteSet(Below(H, K, a)) /\ Cardinality(Below(H, K, a)) <= Cardinality(Staying(H, K))
  BY <1>1, FS_Subset
<1>3. Cardinality(Below(H, K, a)) \in Nat /\ Cardinality(Staying(H, K)) \in Nat
  BY <1>1, <1>2, FS_CardinalityType
<1> QED BY <1>2, <1>3 DEF Place, Goal, HDSGPT

LEMMA PlaceRises ==
  ASSUME NEW H, Sound(H), NEW K, K \subseteq Titles(H), NEW a \in Nat, NEW b \in Nat, a <= b
  PROVE  Place(H, K, a) <= Place(H, K, b)
<1>1. \A c \in Staying(H, K) : c \in Nat
  BY StayingIs
<1>2. Below(H, K, a) \subseteq Below(H, K, b)
  <2>1. ASSUME NEW c \in Nat, c < a PROVE c < b
    BY <2>1
  <2> QED BY <1>1, <2>1 DEF Below
<1>3. IsFiniteSet(Below(H, K, b)) /\ IsFiniteSet(Below(H, K, a))
  BY PlaceType
<1>4. Cardinality(Below(H, K, a)) <= Cardinality(Below(H, K, b))
  BY <1>2, <1>3, FS_Subset
<1>5. Cardinality(Below(H, K, a)) \in Nat /\ Cardinality(Below(H, K, b)) \in Nat
  BY <1>3, FS_CardinalityType
<1> QED BY <1>4, <1>5 DEF Place, HDSGPT

LEMMA PlaceBehind ==
  ASSUME NEW H, Sound(H), NEW K, K \subseteq Titles(H), NEW t \in Titles(H)
  PROVE  /\ t \in K => Place(H, K, Behind(H.mem, t)) = Place(H, K, t) + BKSIZE(H.mem[t])
         /\ t \notin K => Place(H, K, Behind(H.mem, t)) = Place(H, K, t)
<1> DEFINE b == Behind(H.mem, t)
           n == BKSIZE(H.mem[t])
<1>1. t \in Nat /\ b \in Nat /\ b = t + n /\ n \in Nat /\ n >= 1 /\ Tiling(H.mem, Titles(H))
      /\ H.mem \in Seq(Descs)
  BY BlockType, SoundFacts
<1> HIDE DEF b, n
<1>2. \A c \in Staying(H, K) : c \in Nat
  BY StayingIs
<1>3. CASE t \in K
  <2>1. ASSUME NEW c PROVE c \in Below(H, K, b) <=> c \in Below(H, K, t) \cup t .. b - 1
    <3>1. ASSUME c \in Below(H, K, b) PROVE c \in Below(H, K, t) \cup t .. b - 1
      <4>1. c \in Staying(H, K) /\ c \in Nat /\ c < b
        BY <1>2, <3>1 DEF Below
      <4> QED BY <1>1, <4>1 DEF Below
    <3>2. ASSUME c \in Below(H, K, t) PROVE c \in Below(H, K, b)
      <4>1. c \in Staying(H, K) /\ c \in Nat /\ c < t
        BY <1>2, <3>2 DEF Below
      <4> QED BY <1>1, <4>1 DEF Below
    <3>3. ASSUME c \in t .. b - 1 PROVE c \in Below(H, K, b)
      <4>1. c \in Nat /\ t <= c /\ c < b
        BY <1>1, <3>3
      <4>2. c \in Staying(H, K)
        BY <1>3, <4>1, StayingIs DEF b
      <4> QED BY <4>1, <4>2 DEF Below
    <3> QED BY <3>1, <3>2, <3>3
  <2>2. Below(H, K, b) = Below(H, K, t) \cup t .. b - 1
    BY <2>1
  <2>3. Below(H, K, t) \cap (t .. b - 1) = {}
    <3>1. ASSUME NEW c \in Below(H, K, t) PROVE c \notin t .. b - 1
      <4>1. c \in Nat /\ c < t
        BY <1>2 DEF Below
      <4> QED BY <1>1, <4>1
    <3> QED BY <3>1
  <2>4. IsFiniteSet(Below(H, K, t)) /\ IsFiniteSet(t .. b - 1) /\ Cardinality(t .. b - 1) = n
    <3>1. t \in Int /\ b - 1 \in Int /\ (IF t > b - 1 THEN 0 ELSE (b - 1) - t + 1) = n
      BY <1>1
    <3>2. IsFiniteSet(t .. b - 1)
      BY <3>1, FS_Interval
    <3>3. Cardinality(t .. b - 1) = IF t > b - 1 THEN 0 ELSE (b - 1) - t + 1
      BY <3>1, FS_Interval
    <3> QED BY <3>1, <3>2, <3>3, PlaceType
  <2>5. Cardinality(Below(H, K, b))
          = Cardinality(Below(H, K, t)) + Cardinality(t .. b - 1)
              - Cardinality(Below(H, K, t) \cap (t .. b - 1))
    BY <2>2, <2>4, FS_Union
  <2>6. Cardinality(Below(H, K, t)) \in Nat
    BY <2>4, FS_CardinalityType
  <2>7. Cardinality(Below(H, K, t) \cap (t .. b - 1)) = 0
    BY <2>3, FS_EmptySet
  <2>8. Cardinality(Below(H, K, b)) = Cardinality(Below(H, K, t)) + n
    BY <1>1, <2>4, <2>5, <2>6, <2>7
  <2>9. Place(H, K, b) = Place(H, K, t) + n
    BY <1>1, <2>6, <2>8 DEF Place, HDSGPT
  <2> QED BY <1>3, <2>9 DEF b, n
<1>4. CASE t \notin K
  <2>1. ASSUME NEW c PROVE c \in Below(H, K, b) <=> c \in Below(H, K, t)
    <3>1. ASSUME c \in Below(H, K, b), ~(c < t) PROVE FALSE
      <4>1. c \in Staying(H, K) /\ c \in Nat /\ c < b /\ t <= c
        BY <1>1, <1>2, <3>1 DEF Below
      <4>2. PICK u \in K : u <= c /\ c < Behind(H.mem, u)
        BY <4>1, StayingIs
      <4>3. u = t
        BY <1>1, <4>1, <4>2, OwnerUnique DEF b
      <4> QED BY <1>4, <4>3
    <3>2. ASSUME c \in Below(H, K, t) PROVE c \in Below(H, K, b)
      <4>1. c \in Staying(H, K) /\ c \in Nat /\ c < t
        BY <1>2, <3>2 DEF Below
      <4> QED BY <1>1, <4>1 DEF Below
    <3> QED BY <3>1, <3>2 DEF Below
  <2>2. Below(H, K, b) = Below(H, K, t)
    BY <2>1
  <2> QED BY <1>4, <2>2 DEF Place, b
<1> QED BY <1>3, <1>4

LEMMA PlaceEnds ==
  ASSUME NEW H, Sound(H), NEW K, K \subseteq Titles(H)
  PROVE  /\ Place(H, K, 1) = 1
         /\ Place(H, K, Len(H.mem) + 1) = Goal(H, K) + 1
<1>1. Staying(H, K) \subseteq 1 .. Len(H.mem) /\ IsFiniteSet(Staying(H, K)) /\ Len(H.mem) \in Nat
  <2>1. Len(H.mem) \in Nat
    BY SoundFacts, LenProperties
  <2> QED BY <2>1, StayingIs
<1>2. Below(H, K, 1) = {}
  <2>1. ASSUME NEW c \in Staying(H, K) PROVE ~(c < 1)
    <3>1. c \in Nat /\ c >= 1
      BY <1>1
    <3> QED BY <3>1
  <2> QED BY <2>1 DEF Below
<1>3. Below(H, K, Len(H.mem) + 1) = Staying(H, K)
  <2>1. ASSUME NEW c \in Staying(H, K) PROVE c < Len(H.mem) + 1
    <3>1. c \in Nat /\ c <= Len(H.mem)
      BY <1>1
    <3> QED BY <1>1, <3>1
  <2> QED BY <2>1 DEF Below
<1>4. Cardinality(Below(H, K, 1)) = 0
  BY <1>2, FS_EmptySet
<1>5. Place(H, K, 1) = 1
  BY <1>4 DEF Place, HDSGPT
<1>6. Cardinality(Staying(H, K)) \in Nat
  BY <1>1, FS_CardinalityType
<1>7. Place(H, K, Len(H.mem) + 1) = Goal(H, K) + 1
  BY <1>3, <1>6 DEF Place, Goal, HDSGPT
<1> QED BY <1>5, <1>7

(* Blocks stay in order and do not overlap.                                *)
LEMMA PlacesApart ==
  ASSUME NEW H, Sound(H), NEW K, K \subseteq Titles(H), NEW t \in K, NEW u \in K, t < u
  PROVE  Place(H, K, t) + BKSIZE(H.mem[t]) <= Place(H, K, u)
<1>1. Behind(H.mem, t) \in Nat /\ u \in Nat /\ t \in Titles(H) /\ u \in Titles(H)
  BY BlockType
<1>2. Behind(H.mem, t) <= u
  BY <1>1, SoundFacts DEF Tiling
<1>3. Place(H, K, Behind(H.mem, t)) <= Place(H, K, u)
  BY <1>1, <1>2, PlaceRises
<1> QED BY <1>1, <1>3, PlaceBehind

LEMMA PlaceUnique ==
  ASSUME NEW H, Sound(H), NEW K, K \subseteq Titles(H), NEW t \in K, NEW u \in K, NEW a \in Nat,
         Place(H, K, t) <= a, a < Place(H, K, t) + BKSIZE(H.mem[t]),
         Place(H, K, u) <= a, a < Place(H, K, u) + BKSIZE(H.mem[u])
  PROVE  t = u
<1>1. /\ t \in Nat /\ u \in Nat /\ BKSIZE(H.mem[t]) \in Nat /\ BKSIZE(H.mem[u]) \in Nat
      /\ Place(H, K, t) \in Nat /\ Place(H, K, u) \in Nat
  BY BlockType, PlaceType
<1>2. t < u => Place(H, K, t) + BKSIZE(H.mem[t]) <= Place(H, K, u)
  BY PlacesApart
<1>3. u < t => Place(H, K, u) + BKSIZE(H.mem[u]) <= Place(H, K, t)
  BY PlacesApart
<1> QED BY <1>1, <1>2, <1>3

(* What is behind a block in the new storage is another that stays, or     *)
(* the end.                                                                *)
LEMMA PlaceTaken ==
  ASSUME NEW H, Sound(H), NEW K, K \subseteq Titles(H), NEW a \in Titles(H) \cup {Len(H.mem) + 1}
  PROVE  \E t \in K \cup {Len(H.mem) + 1} : a <= t /\ Place(H, K, a) = Place(H, K, t)
<1> DEFINE end == Len(H.mem) + 1
           Good(x) == \E t \in K \cup {end} : x <= t /\ Place(H, K, x) = Place(H, K, t)
           Y == {k \in 0 .. end : \E x \in Titles(H) \cup {end} : k = end - x /\ ~ Good(x)}
<1>1. end \in Nat /\ \A x \in Titles(H) : x \in Nat /\ x < end
  <2>1. Len(H.mem) \in Nat
    BY SoundFacts, LenProperties
  <2> QED BY <2>1, BlockType
<1>2. ASSUME Y # {} PROVE FALSE
  <2>1. Y \in SUBSET Nat
    BY <1>1
  <2>2. PICK k \in Y : \A j \in Y : k <= j
    BY <1>2, <2>1, NatLeast
  <2>3. PICK x \in Titles(H) \cup {end} : k = end - x /\ ~ Good(x)
    BY <2>2
  <2>4. x # end /\ x \notin K
    <3>1. x \in Nat
      BY <1>1
    <3>2. x \in K \cup {end} => Good(x)
      BY <3>1
    <3> HIDE DEF Good
    <3> QED BY <2>3, <3>2
  <2>5. x \in Titles(H) /\ x \in Nat
    BY <1>1, <2>4
  <2> DEFINE b == Behind(H.mem, x)
  <2>6. Place(H, K, b) = Place(H, K, x)
    BY <2>4, <2>5, PlaceBehind
  <2>7. b \in Titles(H) \cup {end} /\ b \in Nat /\ x < b /\ b <= end
    BY <2>5, BlockType
  <2>8. ~ Good(b)
    <3>1. ASSUME NEW t \in K \cup {end}, b <= t PROVE x <= t
      <4>1. t \in Nat
        BY <1>1
      <4> HIDE DEF b
      <4> QED BY <2>5, <2>7, <3>1, <4>1
    <3> QED BY <2>3, <2>6, <3>1
  <2> HIDE DEF b, Good
  <2>9. end - b \in 0 .. end /\ end - b < end - x
    <3> HIDE DEF end
    <3> QED BY <1>1, <2>5, <2>7
  <2>10. end - b \in Y
    BY <2>7, <2>8, <2>9
  <2>11. k <= end - b
    BY <2>2, <2>10
  <2> HIDE DEF end
  <2> QED BY <1>1, <2>3, <2>5, <2>7, <2>9, <2>11
<1>3. a \in Nat /\ a <= end
  BY <1>1
<1>4. end - a \in 0 .. end
  <2> HIDE DEF end
  <2> QED BY <1>1, <1>3
<1>5. Good(a)
  <2> HIDE DEF Good
  <2> QED BY <1>2, <1>4
<1> QED BY <1>5

(* Every descriptor of the new storage is in a block that stays.           *)
LEMMA PlaceCovered ==
  ASSUME NEW H, Sound(H), NEW K, K \subseteq Titles(H), NEW a \in 1 .. Goal(H, K)
  PROVE  \E t \in K : Place(H, K, t) <= a /\ a < Place(H, K, t) + BKSIZE(H.mem[t])
<1> DEFINE end == Len(H.mem) + 1
           P(x) == Place(H, K, x)
           Y == {x \in Titles(H) \cup {end} : P(x) > a}
<1>1. end \in Nat /\ a \in Nat /\ a >= 1 /\ Goal(H, K) \in Nat /\ a <= Goal(H, K)
      /\ \A x \in Titles(H) : x \in Nat
  <2>1. Len(H.mem) \in Nat
    BY SoundFacts, LenProperties
  <2>2. Goal(H, K) \in Nat
    BY PlaceType
  <2> QED BY <2>1, <2>2, BlockType
<1>2. end \in Y
  <2>1. P(end) = Goal(H, K) + 1
    BY PlaceEnds
  <2> HIDE DEF P, end
  <2> QED BY <1>1, <2>1
<1>3. Y \in SUBSET Nat /\ Y # {}
  BY <1>1, <1>2
<1>4. PICK x \in Y : \A y \in Y : x <= y
  BY <1>3, NatLeast
<1>5. P(x) > a /\ x \in Nat /\ x \in Titles(H) \cup {end}
  BY <1>1
<1>6. x # 1
  <2>1. P(1) = 1
    BY PlaceEnds
  <2> HIDE DEF P
  <2> QED BY <1>1, <1>5, <2>1
<1>7. x >= 1 /\ x - 1 \in 1 .. Len(H.mem)
  <2>1. \A y \in Titles(H) : y \in 1 .. Len(H.mem)
    BY BlockType
  <2>2. 1 \in Titles(H)
    BY SoundFacts DEF Tiling
  <2>3. Len(H.mem) \in Nat
    BY SoundFacts, LenProperties
  <2> QED BY <1>5, <1>6, <2>1, <2>2, <2>3
<1>8. PICK t \in Titles(H) : t <= x - 1 /\ x - 1 < Behind(H.mem, t)
  BY <1>7, Owner, SoundFacts
<1>9. t \in Nat /\ Behind(H.mem, t) \in Nat /\ Behind(H.mem, t) \in Titles(H) \cup {end}
      /\ BKSIZE(H.mem[t]) \in Nat
  BY BlockType
<1>10. t < x /\ x <= Behind(H.mem, t)
  BY <1>5, <1>8, <1>9
<1>11. P(t) <= a
  <2>1. t \notin Y
    BY <1>4, <1>5, <1>9, <1>10
  <2>2. P(t) \in Nat
    BY PlaceType
  <2> HIDE DEF P
  <2> QED BY <1>1, <2>1, <2>2
<1>12. P(x) <= P(Behind(H.mem, t))
  BY <1>5, <1>9, <1>10, PlaceRises
<1>13. P(Behind(H.mem, t)) = IF t \in K THEN P(t) + BKSIZE(H.mem[t]) ELSE P(t)
  BY PlaceBehind
<1>14. P(x) \in Nat /\ P(t) \in Nat
  BY PlaceType
<1> HIDE DEF P
<1>15. t \in K /\ a < P(t) + BKSIZE(H.mem[t])
  BY <1>1, <1>5, <1>9, <1>11, <1>12, <1>13, <1>14
<1> QED BY <1>11, <1>15 DEF P

(* Below the first block that goes nothing moves.                          *)
LEMMA PlaceKept ==
  ASSUME NEW H, Sound(H), NEW K, K \subseteq Titles(H), NEW t \in Titles(H),
         \A u \in Titles(H) \ K : t <= u
  PROVE  Place(H, K, t) = t
<1>1. t \in Nat /\ t >= 1 /\ t <= Len(H.mem) /\ Len(H.mem) \in Nat /\ H.mem \in Seq(Descs)
  BY BlockType
<1>2. Staying(H, K) \subseteq 1 .. Len(H.mem)
  BY StayingIs
<1>3. ASSUME NEW c PROVE c \in Below(H, K, t) <=> c \in 1 .. t - 1
  <2>1. ASSUME c \in Below(H, K, t) PROVE c \in 1 .. t - 1
    <3>1. c \in Nat /\ c >= 1 /\ c < t
      BY <1>2, <2>1 DEF Below
    <3> QED BY <1>1, <3>1
  <2>2. ASSUME c \in 1 .. t - 1 PROVE c \in Below(H, K, t)
    <3>1. c \in 1 .. Len(H.mem) /\ c \in Nat /\ c < t
      BY <1>1, <2>2
    <3>2. PICK u \in Titles(H) : u <= c /\ c < Behind(H.mem, u)
      BY <1>1, <3>1, Owner, SoundFacts
    <3>3. u \in Nat
      BY BlockType
    <3>4. u \in K
      BY <1>1, <3>1, <3>2, <3>3
    <3>5. c \in Staying(H, K)
      BY <3>1, <3>2, <3>4, StayingIs
    <3> QED BY <3>1, <3>5 DEF Below
  <2> QED BY <2>1, <2>2
<1>4. Below(H, K, t) = 1 .. t - 1
  BY <1>3
<1>5. 1 \in Int /\ t - 1 \in Int /\ (IF 1 > t - 1 THEN 0 ELSE (t - 1) - 1 + 1) = t - 1
  BY <1>1
<1>6. Cardinality(1 .. t - 1) = IF 1 > t - 1 THEN 0 ELSE (t - 1) - 1 + 1
  BY <1>5, FS_Interval
<1> QED BY <1>1, <1>4, <1>5, <1>6 DEF Place, HDSGPT

-----------------------------------------------------------------------------
(* GCLAD, GCLAP and GCBB1.                                                 *)
LEMMA BarrierIs ==
  ASSUME NEW H, Sound(H), NEW K, K \subseteq Titles(H)
  PROVE  /\ Barrier(H, K) \in Nat
         /\ \A t \in Titles(H) : t <= Barrier(H, K) \/ Titles(H) \subseteq K => Place(H, K, t) = t
         /\ Titles(H) \subseteq K \/ \A u \in Titles(H) \ K : Barrier(H, K) <= u
<1> DEFINE goes == Titles(H) \ K
<1>1. goes \in SUBSET Nat
  BY BlockType
<1>2. CASE goes = {}
  <2>1. Barrier(H, K) = TLSGP1
    BY <1>2 DEF Barrier
  <2>2. Barrier(H, K) \in Nat /\ Titles(H) \subseteq K
    BY <1>2, <2>1, RegionAssumption
  <2>3. \A t \in Titles(H) : Place(H, K, t) = t
    BY <2>2, PlaceKept
  <2> QED BY <2>2, <2>3
<1>3. CASE goes # {}
  <2>1. \E x \in goes : \A y \in goes : x <= y
    BY <1>1, <1>3, NatLeast
  <2>2. Barrier(H, K) \in goes /\ \A u \in goes : Barrier(H, K) <= u
    <3>1. Barrier(H, K) = CHOOSE x \in goes : \A y \in goes : x <= y
      BY <1>3 DEF Barrier, Min
    <3> QED BY <2>1, <3>1
  <2>3. Barrier(H, K) \in Nat
    BY <1>1, <2>2
  <2>4. ASSUME NEW t \in Titles(H), t <= Barrier(H, K) PROVE Place(H, K, t) = t
    <3>1. ASSUME NEW u \in goes PROVE t <= u
      <4>1. t \in Nat /\ u \in Nat /\ Barrier(H, K) <= u
        BY <1>1, <2>2, BlockType
      <4> QED BY <2>3, <2>4, <4>1
    <3> QED BY <3>1, PlaceKept
  <2> QED BY <1>3, <2>2, <2>3, <2>4
<1> QED BY <1>2, <1>3

(* The new titles.                                                         *)
LEMMA RetitledIs ==
  ASSUME NEW H, Sound(H), NEW K, K \subseteq Titles(H), NEW t \in K
  PROVE  /\ Retitled(H, K, Barrier(H, K))[t].a = Place(H, K, t)
         /\ Moved(Retitled(H, K, Barrier(H, K))[t]) = D(Place(H, K, t), H.mem[t].f, H.mem[t].v)
<1> DEFINE B == Barrier(H, K)
           p == IF t > B THEN Place(H, K, t) ELSE H.mem[t].a
<1>1. t \in Titles(H) /\ t \in Nat /\ B \in Nat /\ H.mem[t] \in Descs
  BY BarrierIs, BlockType
<1>2. H.mem[t].a = t /\ "MARK" \notin H.mem[t].f
  BY <1>1, SoundFacts DEF Titled
<1> HIDE DEF B
<1>3. p = Place(H, K, t)
  <2>1. t <= B => Place(H, K, t) = t
    BY <1>1, BarrierIs DEF B
  <2>2. t > B \/ t <= B
    BY <1>1
  <2> QED BY <1>2, <2>1, <2>2
<1>4. Retitled(H, K, B)[t] = [H.mem[t] EXCEPT !.f = @ \cup {"MARK"}, !.a = p]
  BY <1>1 DEF Retitled, Place, Below
<1> HIDE DEF p
<1>5. Retitled(H, K, B)[t] = D(p, H.mem[t].f \cup {"MARK"}, H.mem[t].v)
  BY <1>1, <1>4 DEF Descs, D
<1>6. (H.mem[t].f \cup {"MARK"}) \ {"MARK"} = H.mem[t].f
  BY <1>2
<1>7. Moved(Retitled(H, K, B)[t]) = D(p, H.mem[t].f, H.mem[t].v)
  <2>1. \A a, f, v : Moved(D(a, f, v)) = D(a, f \ {"MARK"}, v)
    BY DEF Moved, D
  <2> QED BY <1>5, <1>6, <2>1
<1> QED BY <1>3, <1>5, <1>7 DEF B, D

(* A pointer into a block that stays follows it.                           *)
Shifted(H, K, d) ==
    IF IsPtr(d) /\ d.a <= Len(H.mem)
    THEN D(Place(H, K, Top(H.mem, d.a)) + (d.a - Top(H.mem, d.a)), d.f, d.v)
    ELSE d

LEMMA AdjustedIs ==
  ASSUME NEW H, Sound(H), NEW K, K \subseteq Titles(H), NEW d \in Descs, Holds(H, K, d)
  PROVE  /\ Adjusted(H, Retitled(H, K, Barrier(H, K)), Barrier(H, K), d) = Shifted(H, K, d)
         /\ Shifted(H, K, d) \in Descs /\ Shifted(H, K, d).f = d.f
<1> DEFINE B == Barrier(H, K)
           ti == Retitled(H, K, B)
           t == Top(H.mem, d.a)
           p == Place(H, K, t)
<1>1. d.a \in Nat /\ Len(H.mem) \in Nat /\ FRSGPT(H) = Len(H.mem) + 1 /\ H.mem \in Seq(Descs) /\ B \in Nat
  BY SoundFacts, HeapType, DescType, BarrierIs
<1>2. CASE IsPtr(d) /\ d.a <= Len(H.mem)
  <2>1. t \in K /\ t \in Titles(H) /\ d.a \in 1 .. Len(H.mem)
    BY <1>1, <1>2 DEF Holds, IsPtr
  <2>2. t <= d.a /\ d.a < Behind(H.mem, t)
    BY <1>1, <2>1, TopOwns, SoundFacts
  <2>3. t \in Nat /\ p \in Nat
    BY <2>1, BlockType, PlaceType
  <2>4. ti[t].a = p
    BY <2>1, RetitledIs
  <2>5. Adjusted(H, ti, B, d) = Adjust(t, ti, B, d)
    BY <1>1, <1>2 DEF Adjusted
  <2>6. d.a < B => p = t
    <3>1. d.a < B => t <= B
      <4> HIDE DEF t, B
      <4> QED BY <1>1, <2>2, <2>3
    <3> QED BY <2>1, <3>1, BarrierIs
  <2> HIDE DEF t, B, ti, p
  <2>7. d.a < B => p + (d.a - t) = d.a
    BY <1>1, <2>2, <2>3, <2>6
  <2>8. p + d.a - t = p + (d.a - t) /\ p + (d.a - t) \in Nat
    BY <1>1, <2>2, <2>3
  <2>9. Adjust(t, ti, B, d) = D(p + (d.a - t), d.f, d.v)
    <3>1. CASE d.a >= B
      <4>1. Adjust(t, ti, B, d) = [d EXCEPT !.a = p + (d.a - t)]
        BY <2>4, <2>8, <3>1 DEF Adjust
      <4> QED BY <4>1 DEF Descs, D
    <3>2. CASE ~(d.a >= B)
      <4>1. Adjust(t, ti, B, d) = d
        BY <3>2 DEF Adjust
      <4>2. p + (d.a - t) = d.a
        BY <1>1, <2>7, <3>2
      <4> QED BY <4>1, <4>2 DEF Descs, D
    <3> QED BY <3>1, <3>2
  <2>10. Shifted(H, K, d) = D(p + (d.a - t), d.f, d.v)
    BY <1>2 DEF Shifted, t, p
  <2>11. D(p + (d.a - t), d.f, d.v) \in Descs
    BY <2>8 DEF Descs, D
  <2> QED BY <2>5, <2>9, <2>10, <2>11 DEF D, B, ti
<1>3. CASE ~(IsPtr(d) /\ d.a <= Len(H.mem))
  <2>1. Shifted(H, K, d) = d
    BY <1>3 DEF Shifted
  <2>2. ~(IsPtr(d) /\ d.a < FRSGPT(H))
    BY <1>1, <1>3
  <2>3. Adjusted(H, ti, B, d) = d
    <3> HIDE DEF ti, B
    <3> QED BY <2>2 DEF Adjusted
  <2> QED BY <2>1, <2>3
<1> QED BY <1>2, <1>3

(* The chain passes over the strings that go.                              *)
LEMMA NextKeptSteps ==
  ASSUME NEW H, NEW ord, NEW n, Linked(H, Strings(H), ord, n), NEW K, NEW a \in {0} \cup Strings(H)
  PROVE  \E f \in [{0} \cup Strings(H) -> {0} \cup Strings(H)] :
            /\ NextKept(H, K, a) = f[a]
            /\ \A b \in {0} \cup Strings(H) :
                 f[b] = IF LinkOf(H, b) \in K \cup {0} THEN LinkOf(H, b) ELSE f[LinkOf(H, b)]
<1> DEFINE S == Strings(H)
           Dom == {0} \cup S
           stop == {b \in Dom : LinkOf(H, b) \in K \cup {0}}
           base == [b \in Dom |-> LinkOf(H, b)]
           step == [b \in Dom |-> [v \in Dom |-> v]]
           E(f) == [b \in Dom |-> IF LinkOf(H, b) \in K \cup {0} THEN LinkOf(H, b) ELSE f[LinkOf(H, b)]]
           after == CHOOSE f : f = E(f)
<1>1. \A b \in Dom : LinkOf(H, b) \in Dom
  BY DEF Linked, NextIs
<1>2. base \in [Dom -> Dom] /\ step \in [Dom -> [Dom -> Dom]]
  BY <1>1
<1>3. PICK f \in [Dom -> Dom] : \A b \in Dom : Along(H, f, b, stop, base, step)
  <2>1. \A b \in Dom : LinkOf(H, b) = 0 => b \in stop
    OBVIOUS
  <2>2. Linked(H, S, ord, n)
    OBVIOUS
  <2> HIDE DEF stop, base, step, S
  <2> QED BY <1>2, <2>1, <2>2, ChainFunction
<1>4. ASSUME NEW b \in Dom
      PROVE  f[b] = IF LinkOf(H, b) \in K \cup {0} THEN LinkOf(H, b) ELSE f[LinkOf(H, b)]
  <2>1. LinkOf(H, b) \in Dom /\ f[LinkOf(H, b)] \in Dom
    BY <1>1
  <2>2. step[b][f[LinkOf(H, b)]] = f[LinkOf(H, b)] /\ base[b] = LinkOf(H, b)
    BY <2>1
  <2>3. f[b] = IF b \in stop THEN base[b] ELSE step[b][f[LinkOf(H, b)]]
    BY <1>3 DEF Along
  <2>4. b \in stop <=> LinkOf(H, b) \in K \cup {0}
    OBVIOUS
  <2> HIDE DEF base, step, stop
  <2> QED BY <2>2, <2>3, <2>4
<1>5. f = E(f)
  BY <1>4, Zenon
<1>6. after = E(after)
  BY <1>5
<1>7. NextKept(H, K, a) = after[a]
  BY DEF NextKept, Links
<1> HIDE DEF after
<1>8. \A b \in Dom : after[b] = IF LinkOf(H, b) \in K \cup {0} THEN LinkOf(H, b) ELSE after[LinkOf(H, b)]
  BY <1>6
<1>9. after = [b \in Dom |-> after[b]]
  BY <1>6
<1>10. \A b \in Dom : after[b] \in Dom
  <2> DEFINE Y == {k \in 0 .. n : \E b \in Dom : k = n - ord[b] /\ after[b] \notin Dom}
  <2>1. n \in Nat /\ \A b \in Dom : ord[b] \in Nat /\ ord[b] <= n /\ n - ord[b] \in 0 .. n
    <3>1. n \in Nat /\ \A b \in Dom : ord[b] \in Nat /\ ord[b] <= n
      BY DEF Linked
    <3>2. ASSUME NEW b \in Dom PROVE n - ord[b] \in 0 .. n
      <4>1. ord[b] \in Nat /\ ord[b] <= n /\ n \in Nat
        BY <3>1
      <4> QED BY <4>1
    <3> QED BY <3>1, <3>2
  <2>2. ASSUME Y # {} PROVE FALSE
    <3>1. Y \in SUBSET Nat
      BY <2>1
    <3>2. PICK k \in Y : \A j \in Y : k <= j
      BY <2>2, <3>1, NatLeast
    <3>3. PICK b \in Dom : k = n - ord[b] /\ after[b] \notin Dom
      BY <3>2
    <3>4. LinkOf(H, b) \notin K \cup {0} /\ after[b] = after[LinkOf(H, b)]
      BY <1>1, <1>8, <3>3
    <3>5. LinkOf(H, b) \in Dom /\ ord[LinkOf(H, b)] > ord[b]
      BY <3>4 DEF Linked, NextIs
    <3>6. n - ord[LinkOf(H, b)] \in Y
      BY <2>1, <3>3, <3>4, <3>5
    <3>7. k <= n - ord[LinkOf(H, b)]
      BY <3>2, <3>6
    <3>8. ord[LinkOf(H, b)] \in Nat /\ ord[b] \in Nat
      BY <2>1, <3>5
    <3> QED BY <2>1, <3>3, <3>5, <3>7, <3>8
  <2> QED BY <2>1, <2>2
<1> QED BY <1>7, <1>8, <1>9, <1>10

LEMMA NextKeptIs ==
  ASSUME NEW H, NEW ord, NEW n, Linked(H, Strings(H), ord, n), NEW K, NEW a \in {0} \cup Strings(H)
  PROVE  /\ NextIs(Strings(H) \cap K, ord, a, NextKept(H, K, a))
         /\ NextKept(H, K, a) \in {0} \cup (Strings(H) \cap K)
         /\ LinkOf(H, a) \in K \cup {0} => NextKept(H, K, a) = LinkOf(H, a)
<1> DEFINE S == Strings(H)
           Dom == {0} \cup S
<1>1. PICK f \in [Dom -> Dom] :
         /\ NextKept(H, K, a) = f[a]
         /\ \A b \in Dom : f[b] = IF LinkOf(H, b) \in K \cup {0} THEN LinkOf(H, b) ELSE f[LinkOf(H, b)]
  BY NextKeptSteps
<1>2. /\ n \in Nat /\ \A b \in Dom : ord[b] \in Nat /\ ord[b] <= n
      /\ 0 \notin S /\ \A s, u \in S : ord[s] = ord[u] => s = u
      /\ \A b \in Dom : NextIs(S, ord, b, LinkOf(H, b))
  BY DEF Linked
<1> HIDE DEF S
<1> DEFINE Y == {k \in 0 .. n : \E b \in Dom : k = n - ord[b] /\ ~ NextIs(S \cap K, ord, b, f[b])}
<1>3. ASSUME Y # {} PROVE FALSE
  <2>1. Y \in SUBSET Nat
    BY <1>2
  <2>2. PICK k \in Y : \A j \in Y : k <= j
    BY <1>3, <2>1, NatLeast
  <2>3. PICK b \in Dom : k = n - ord[b] /\ ~ NextIs(S \cap K, ord, b, f[b])
    BY <2>2
  <2> DEFINE c == LinkOf(H, b)
  <2>4. NextIs(S, ord, b, c) /\ f[b] = IF c \in K \cup {0} THEN c ELSE f[c]
    BY <1>1, <1>2
  <2> HIDE DEF c
  <2>5. CASE c = 0
    <3>1. f[b] = 0 /\ \A s \in S : ord[s] <= ord[b]
      BY <1>2, <2>4, <2>5 DEF NextIs
    <3> QED BY <2>3, <3>1 DEF NextIs
  <2>6. CASE c # 0 /\ c \in K
    <3>1. f[b] = c /\ c \in S /\ ord[c] > ord[b] /\ \A s \in S : ord[s] > ord[b] => ord[s] >= ord[c]
      BY <2>4, <2>6 DEF NextIs
    <3> QED BY <2>3, <2>6, <3>1 DEF NextIs
  <2>7. CASE c # 0 /\ c \notin K
    <3>1. f[b] = f[c] /\ c \in S /\ ord[c] > ord[b] /\ \A s \in S : ord[s] > ord[b] => ord[s] >= ord[c]
      BY <2>4, <2>7 DEF NextIs
    <3>2. ord[b] \in Nat /\ ord[c] \in Nat /\ ord[c] <= n
      BY <1>2, <3>1
    <3>3. n - ord[c] \in 0 .. n /\ n - ord[c] < k
      BY <1>2, <2>3, <3>1, <3>2
    <3>4. n - ord[c] \notin Y
      <4>1. k \in Nat /\ \A j \in Y : k <= j
        BY <2>1, <2>2
      <4> HIDE DEF Y
      <4> QED BY <3>3, <4>1
    <3>5. NextIs(S \cap K, ord, c, f[b])
      BY <3>1, <3>3, <3>4
    <3>6. ASSUME NEW s \in S \cap K, ord[s] > ord[b] PROVE ord[s] > ord[c]
      <4>1. ord[s] \in Nat /\ ord[s] >= ord[c] /\ s # c
        BY <1>2, <2>7, <3>1, <3>6
      <4>2. ord[s] # ord[c]
        BY <1>2, <3>1, <4>1
      <4> QED BY <3>2, <4>1, <4>2
    <3>7. CASE f[b] = 0 /\ \A s \in S \cap K : ord[s] <= ord[c]
      <4>1. ASSUME NEW s \in S \cap K PROVE ord[s] <= ord[b]
        <5>1. ord[s] \in Nat /\ ord[s] <= ord[c]
          BY <1>2, <3>7
        <5> QED BY <3>2, <3>6, <5>1
      <4> QED BY <2>3, <3>7, <4>1 DEF NextIs
    <3>8. CASE /\ f[b] \in S \cap K /\ ord[f[b]] > ord[c]
               /\ \A s \in S \cap K : ord[s] > ord[c] => ord[s] >= ord[f[b]]
      <4>1. ord[f[b]] \in Nat
        BY <1>2, <3>8
      <4>2. ord[f[b]] > ord[b]
        BY <3>1, <3>2, <3>8, <4>1
      <4>3. \A s \in S \cap K : ord[s] > ord[b] => ord[s] >= ord[f[b]]
        BY <3>6, <3>8
      <4> QED BY <2>3, <3>8, <4>2, <4>3 DEF NextIs
    <3> QED BY <3>5, <3>7, <3>8 DEF NextIs
  <2> QED BY <2>5, <2>6, <2>7
<1>4. NextIs(S \cap K, ord, a, f[a])
  <2>1. a \in Dom
    BY DEF S
  <2>2. n - ord[a] \in 0 .. n
    <3>1. ord[a] \in Nat /\ ord[a] <= n
      BY <1>2, <2>1
    <3> QED BY <1>2, <3>1
  <2> QED BY <1>3, <2>1, <2>2
<1>5. f[a] = 0 \/ f[a] \in S \cap K
  BY <1>4 DEF NextIs
<1>6. LinkOf(H, a) \in K \cup {0} => f[a] = LinkOf(H, a)
  BY <1>1 DEF S
<1> QED BY <1>1, <1>4, <1>5, <1>6 DEF S

-----------------------------------------------------------------------------
(* GCLAM: what a regeneration makes of storage.                            *)
NextPlace(H, K, a) ==
    IF NextKept(H, K, a) = 0 THEN 0 ELSE Place(H, K, NextKept(H, K, a))

Becomes(H, K, t, i) ==
    LET d == H.mem[t + i]
    IN IF i = 0 THEN D(Place(H, K, t), H.mem[t].f, H.mem[t].v)
       ELSE IF i \in Fields(H.mem, t) THEN Shifted(H, K, d)
       ELSE IF i = LNKFLD THEN D(NextPlace(H, K, t), d.f, d.v)
       ELSE d

MovedTo(H, G, K) ==
    /\ G \in Heaps /\ Len(G.mem) = Goal(H, K) /\ G.fault = H.fault
    /\ \A t \in K : \A i \in 0 .. BKSIZE(H.mem[t]) - 1 :
          G.mem[Place(H, K, t) + i] = Becomes(H, K, t, i)
    /\ G.bin = NextPlace(H, K, 0)
    /\ \A x \in Roots : G.root[x] = Shifted(H, K, H.root[x])

LEMMA NextPlaceType ==
  ASSUME NEW H, Sound(H), NEW K, KeptRight(H, K), NEW a \in {0} \cup Strings(H)
  PROVE  /\ NextPlace(H, K, a) \in Nat
         /\ NewLink(H, K, Retitled(H, K, Barrier(H, K)), a) = NextPlace(H, K, a)
<1> DEFINE n == NextKept(H, K, a)
<1>1. K \subseteq Titles(H)
  BY DEF KeptRight
<1>2. PICK k \in Nat : \E ord : Linked(H, Strings(H), ord, k)
  BY SoundFacts DEF Chain
<1>3. n \in {0} \cup (Strings(H) \cap K)
  BY <1>2, NextKeptIs
<1>4. n # 0 => Retitled(H, K, Barrier(H, K))[n].a = Place(H, K, n) /\ Place(H, K, n) \in Nat
  <2> HIDE DEF n
  <2> QED BY <1>1, <1>3, RetitledIs, PlaceType
<1> QED BY <1>4 DEF NextPlace, NewLink

LEMMA ContentIs ==
  ASSUME NEW H, Sound(H), NEW K, KeptRight(H, K), NEW t \in K, NEW i \in 0 .. BKSIZE(H.mem[t]) - 1
  PROVE  /\ Content(H, K, Retitled(H, K, Barrier(H, K)), Barrier(H, K), t, i) = Becomes(H, K, t, i)
         /\ Becomes(H, K, t, i) \in Descs
<1> DEFINE B == Barrier(H, K)
           ti == Retitled(H, K, B)
           d == H.mem[t + i]
<1>1. K \subseteq Titles(H) /\ t \in Titles(H)
  BY DEF KeptRight
<1>2. /\ t \in Nat /\ BKSIZE(H.mem[t]) \in Nat /\ H.mem[t] \in Descs /\ H \in Heaps
      /\ Behind(H.mem, t) = t + BKSIZE(H.mem[t]) /\ Behind(H.mem, t) <= Len(H.mem) + 1
      /\ t >= 1 /\ Len(H.mem) \in Nat
  BY <1>1, BlockType, SoundFacts
<1>3. i \in Nat /\ t + i \in 1 .. Len(H.mem) /\ d \in Descs
  <2>1. i \in Nat /\ t + i \in 1 .. Len(H.mem)
    BY <1>2
  <2> QED BY <1>2, <2>1, HeapType
<1> HIDE DEF d, ti, B
<1>4. CASE i = 0
  <2>1. Content(H, K, ti, B, t, i) = Moved(ti[t])
    BY <1>4 DEF Content
  <2>2. Moved(ti[t]) = D(Place(H, K, t), H.mem[t].f, H.mem[t].v)
    BY <1>1, RetitledIs DEF ti, B
  <2>3. Place(H, K, t) \in Nat
    BY <1>1, PlaceType
  <2>4. D(Place(H, K, t), H.mem[t].f, H.mem[t].v) \in Descs
    BY <1>2, <2>3 DEF Descs, D
  <2> QED BY <1>4, <2>1, <2>2, <2>4 DEF Becomes, ti, B
<1>5. CASE i # 0 /\ i \in Fields(H.mem, t)
  <2>1. Holds(H, K, d)
    BY <1>5 DEF KeptRight, d
  <2>2. Content(H, K, ti, B, t, i) = Adjusted(H, ti, B, d)
    BY <1>5 DEF Content, d
  <2>3. Adjusted(H, ti, B, d) = Shifted(H, K, d) /\ Shifted(H, K, d) \in Descs
    BY <1>1, <1>3, <2>1, AdjustedIs DEF ti, B
  <2>4. Becomes(H, K, t, i) = Shifted(H, K, d)
    BY <1>5 DEF Becomes, d
  <2> QED BY <2>2, <2>3, <2>4 DEF ti, B
<1>6. CASE i # 0 /\ i \notin Fields(H.mem, t) /\ i = LNKFLD
  <2>1. "STTL" \in H.mem[t].f
    <3>1. ASSUME "STTL" \notin H.mem[t].f PROVE FALSE
      <4>1. Fields(H.mem, t) = 1 .. H.mem[t].v /\ BKSIZE(H.mem[t]) = H.mem[t].v + 1
        BY <3>1 DEF Fields, BKSIZE
      <4>2. H.mem[t].v \in Nat
        BY <1>2, DescType
      <4> QED BY <1>6, <4>1, <4>2
    <3> QED BY <3>1
  <2>2. t \in {0} \cup Strings(H)
    BY <1>1, <2>1 DEF Strings
  <2>3. /\ NextPlace(H, K, t) \in Nat /\ NewLink(H, K, ti, t) = NextPlace(H, K, t)
    BY <2>2, NextPlaceType DEF ti, B
  <2>4. Content(H, K, ti, B, t, i) = [d EXCEPT !.a = NewLink(H, K, ti, t)]
    BY <1>6 DEF Content, d
  <2>5. Content(H, K, ti, B, t, i) = D(NextPlace(H, K, t), d.f, d.v)
    BY <1>3, <2>3, <2>4 DEF Descs, D
  <2>6. D(NextPlace(H, K, t), d.f, d.v) \in Descs
    BY <1>3, <2>3 DEF Descs, D
  <2>7. Becomes(H, K, t, i) = D(NextPlace(H, K, t), d.f, d.v)
    BY <1>6 DEF Becomes, d
  <2> QED BY <2>5, <2>6, <2>7 DEF ti, B
<1>7. CASE i # 0 /\ i \notin Fields(H.mem, t) /\ i # LNKFLD
  <2>1. Content(H, K, ti, B, t, i) = d /\ Becomes(H, K, t, i) = d
    BY <1>7 DEF Content, Becomes, d
  <2> QED BY <1>3, <2>1 DEF ti, B
<1> QED BY <1>4, <1>5, <1>6, <1>7

LEMMA SlidIs ==
  ASSUME NEW H, Sound(H), NEW K, KeptRight(H, K), NEW s,
         s = Slid(H, K, Retitled(H, K, Barrier(H, K)), Barrier(H, K))
  PROVE  /\ SubSeq(s, 1, Len(s)) \in Seq(Descs) /\ Len(SubSeq(s, 1, Len(s))) = Goal(H, K)
         /\ \A t \in K : \A i \in 0 .. BKSIZE(H.mem[t]) - 1 :
              SubSeq(s, 1, Len(s))[Place(H, K, t) + i] = Becomes(H, K, t, i)
<1> DEFINE B == Barrier(H, K)
           ti == Retitled(H, K, B)
           N == Goal(H, K)
           In(t, a) == ti[t].a <= a /\ a < ti[t].a + BKSIZE(H.mem[t])
           source(a) == CHOOSE t \in K : In(t, a)
           entry(a) == Content(H, K, ti, B, source(a), a - ti[source(a)].a)
<1>1. K \subseteq Titles(H)
  BY DEF KeptRight
<1>2. s = [a \in 1 .. N |-> entry(a)]
  BY DEF Slid, Goal
<1>3. \A t \in K : ti[t].a = Place(H, K, t)
  BY <1>1, RetitledIs
<1> HIDE DEF B, ti
<1>4. ASSUME NEW t \in K, NEW a \in Nat, In(t, a) PROVE source(a) = t
  <2>1. source(a) \in K /\ In(source(a), a)
    BY <1>4
  <2> HIDE DEF source
  <2>2. /\ Place(H, K, t) <= a /\ a < Place(H, K, t) + BKSIZE(H.mem[t])
        /\ Place(H, K, source(a)) <= a /\ a < Place(H, K, source(a)) + BKSIZE(H.mem[source(a)])
    BY <1>3, <1>4, <2>1
  <2> QED BY <1>1, <2>1, <2>2, PlaceUnique
<1>5. ASSUME NEW t \in K, NEW i \in 0 .. BKSIZE(H.mem[t]) - 1
      PROVE  /\ Place(H, K, t) + i \in 1 .. N
             /\ entry(Place(H, K, t) + i) = Becomes(H, K, t, i)
             /\ Becomes(H, K, t, i) \in Descs
  <2> DEFINE p == Place(H, K, t)
  <2>1. /\ p \in Nat /\ p >= 1 /\ BKSIZE(H.mem[t]) \in Nat /\ N \in Nat /\ i \in Nat
        /\ i < BKSIZE(H.mem[t])
    <3>1. t \in Titles(H)
      BY <1>1
    <3>2. BKSIZE(H.mem[t]) \in Nat
      BY <3>1, BlockType
    <3>3. p \in Nat /\ p >= 1 /\ N \in Nat
      BY <1>1, PlaceType
    <3> HIDE DEF p, N
    <3> QED BY <3>2, <3>3
  <2>2. p + BKSIZE(H.mem[t]) <= N + 1
    <3>1. Place(H, K, Behind(H.mem, t)) = p + BKSIZE(H.mem[t])
      BY <1>1, PlaceBehind
    <3>2. Place(H, K, Behind(H.mem, t)) <= N + 1
      BY <1>1, PlaceType
    <3> QED BY <3>1, <3>2
  <2> HIDE DEF p, N
  <2>3. p + i \in 1 .. N /\ p + i \in Nat /\ (p + i) - p = i
    BY <2>1, <2>2
  <2>4. ti[t].a = p
    BY <1>3 DEF p
  <2>5. In(t, p + i)
    BY <2>1, <2>4
  <2>6. source(p + i) = t
    <3> HIDE DEF source, In
    <3> QED BY <1>4, <2>3, <2>5
  <2>7. entry(p + i) = Content(H, K, ti, B, t, i)
    <3> HIDE DEF source
    <3> QED BY <2>3, <2>4, <2>6
  <2>8. Content(H, K, ti, B, t, i) = Becomes(H, K, t, i) /\ Becomes(H, K, t, i) \in Descs
    BY ContentIs DEF ti, B
  <2> HIDE DEF entry
  <2> QED BY <2>3, <2>7, <2>8 DEF p
<1> HIDE DEF entry
<1>6. N \in Nat
  BY <1>1, PlaceType
<1> HIDE DEF N
<1>7. ASSUME NEW a \in 1 .. N PROVE s[a] \in Descs
  <2>1. PICK t \in K : Place(H, K, t) <= a /\ a < Place(H, K, t) + BKSIZE(H.mem[t])
    BY <1>1, PlaceCovered DEF N
  <2>2. Place(H, K, t) \in Nat /\ BKSIZE(H.mem[t]) \in Nat /\ a \in Nat
    <3>1. t \in Titles(H)
      BY <1>1
    <3>2. BKSIZE(H.mem[t]) \in Nat
      BY <3>1, BlockType
    <3>3. Place(H, K, t) \in Nat
      BY <1>1, PlaceType
    <3> QED BY <1>6, <3>2, <3>3
  <2>3. a - Place(H, K, t) \in 0 .. BKSIZE(H.mem[t]) - 1 /\ a = Place(H, K, t) + (a - Place(H, K, t))
    BY <2>1, <2>2
  <2>4. entry(a) \in Descs
    BY <1>5, <2>3
  <2> QED BY <1>2, <2>4
<1>8. s \in [1 .. N -> Descs]
  BY <1>2, <1>7
<1>9. s \in Seq(Descs)
  BY <1>6, <1>8, SeqDef
<1>10. Len(s) = N
  <2>1. 1 .. Len(s) = 1 .. N /\ Len(s) \in Nat
    BY <1>8, <1>9, LenProperties
  <2>2. /\ Cardinality(1 .. Len(s)) = IF 1 > Len(s) THEN 0 ELSE Len(s) - 1 + 1
        /\ Cardinality(1 .. N) = IF 1 > N THEN 0 ELSE N - 1 + 1
    <3>1. Len(s) \in Int /\ N \in Int /\ 1 \in Int
      BY <1>6, <2>1
    <3> QED BY <3>1, FS_Interval
  <2>3. Len(s) = IF 1 > Len(s) THEN 0 ELSE Len(s) - 1 + 1
    BY <2>1
  <2>4. N = IF 1 > N THEN 0 ELSE N - 1 + 1
    BY <1>6
  <2> QED BY <2>1, <2>2, <2>3, <2>4
<1>11. \A a \in 1 .. Len(s) : s[a] \in Descs
  BY <1>7, <1>10
<1>12. /\ SubSeq(s, 1, Len(s)) \in Seq(Descs)
       /\ Len(SubSeq(s, 1, Len(s))) = IF 1 <= Len(s) THEN Len(s) - 1 + 1 ELSE 0
       /\ \A a \in 1 .. Len(s) - 1 + 1 : SubSeq(s, 1, Len(s))[a] = s[1 + a - 1]
  <2>1. 1 \in Int /\ Len(s) \in Int
    BY <1>6, <1>10
  <2> QED BY <1>11, <2>1, SubSeqProperties
<1>13. Len(SubSeq(s, 1, Len(s))) = N
  BY <1>6, <1>10, <1>12
<1>14. \A a \in 1 .. N : SubSeq(s, 1, Len(s))[a] = s[a]
  <2>1. ASSUME NEW a \in 1 .. N PROVE a \in 1 .. Len(s) - 1 + 1 /\ 1 + a - 1 = a
    BY <1>6, <1>10
  <2> QED BY <1>12, <2>1
<1>15. ASSUME NEW t \in K, NEW i \in 0 .. BKSIZE(H.mem[t]) - 1
       PROVE  SubSeq(s, 1, Len(s))[Place(H, K, t) + i] = Becomes(H, K, t, i)
  <2>1. /\ Place(H, K, t) + i \in 1 .. N /\ entry(Place(H, K, t) + i) = Becomes(H, K, t, i)
    BY <1>5
  <2> QED BY <1>2, <1>14, <2>1
<1> QED BY <1>12, <1>13, <1>15 DEF N

LEMMA RegeneratedIs ==
  ASSUME NEW H, Sound(H), ~ GoesAstray(H)
  PROVE  /\ KeptRight(H, Survivors(H)) /\ GC(H) = Regenerated(H)
         /\ MovedTo(H, Regenerated(H), Survivors(H))
<1> DEFINE K == Survivors(H)
           B == Barrier(H, K)
           ti == Retitled(H, K, B)
           s == Slid(H, K, ti, B)
           G == Regenerated(H)
<1>1. KeptRight(H, K) /\ K \subseteq Titles(H)
  BY SurvivorsRight DEF KeptRight
<1>2. GC(H) = G
  BY DEF GC
<1>3. G = [H EXCEPT !.mem = SubSeq(s, 1, Len(s)), !.bin = NewLink(H, K, ti, 0),
                    !.root = [x \in DOMAIN H.root |-> Adjusted(H, ti, B, H.root[x])]]
  BY DEF Regenerated
<1> HIDE DEF G, K
<1>4. H \in Heaps /\ H.root \in [Roots -> Descs]
  BY SoundFacts DEF Heaps
<1>5. /\ SubSeq(s, 1, Len(s)) \in Seq(Descs) /\ Len(SubSeq(s, 1, Len(s))) = Goal(H, K)
      /\ \A t \in K : \A i \in 0 .. BKSIZE(H.mem[t]) - 1 :
           SubSeq(s, 1, Len(s))[Place(H, K, t) + i] = Becomes(H, K, t, i)
  BY <1>1, SlidIs
<1>6. NewLink(H, K, ti, 0) = NextPlace(H, K, 0) /\ NextPlace(H, K, 0) \in Nat
  BY <1>1, NextPlaceType
<1>7. ASSUME NEW x \in Roots
      PROVE  /\ Adjusted(H, ti, B, H.root[x]) = Shifted(H, K, H.root[x])
             /\ Shifted(H, K, H.root[x]) \in Descs
  <2>1. Holds(H, K, H.root[x]) /\ H.root[x] \in Descs
    BY <1>1, <1>4 DEF KeptRight
  <2> QED BY <1>1, <2>1, AdjustedIs
<1> HIDE DEF B, ti, s
<1>8. /\ G.mem = SubSeq(s, 1, Len(s)) /\ G.bin = NewLink(H, K, ti, 0) /\ G.fault = H.fault
      /\ G.root = [x \in Roots |-> Adjusted(H, ti, B, H.root[x])]
  BY <1>3, <1>4 DEF Heaps
<1>9. G.root \in [Roots -> Descs] /\ \A x \in Roots : G.root[x] = Shifted(H, K, H.root[x])
  BY <1>7, <1>8
<1>10. G \in Heaps
  BY <1>3, <1>4, <1>5, <1>6, <1>8, <1>9 DEF Heaps
<1>11. MovedTo(H, G, K)
  BY <1>5, <1>6, <1>8, <1>9, <1>10 DEF MovedTo
<1> QED BY <1>1, <1>2, <1>11 DEF K, G

-----------------------------------------------------------------------------
(* The regenerated storage is sound.                                       *)
Places(H, K) == {Place(H, K, t) : t \in K}
Moves(H, G, K) == Sound(H) /\ KeptRight(H, K) /\ MovedTo(H, G, K)

LEMMA MovesFacts ==
  ASSUME NEW H, NEW G, NEW K, Moves(H, G, K)
  PROVE  /\ Sound(H) /\ KeptRight(H, K) /\ MovedTo(H, G, K) /\ K \subseteq Titles(H)
         /\ H \in Heaps /\ H.mem \in Seq(Descs) /\ Tiling(H.mem, Titles(H)) /\ Titled(H.mem, Titles(H))
         /\ G \in Heaps /\ G.mem \in Seq(Descs) /\ Len(G.mem) \in Nat /\ Len(G.mem) = Goal(H, K)
         /\ Len(H.mem) \in Nat /\ Len(G.mem) <= Len(H.mem)
<1>1. Sound(H) /\ KeptRight(H, K) /\ MovedTo(H, G, K) /\ K \subseteq Titles(H)
  BY DEF Moves, KeptRight
<1>2. G \in Heaps /\ Len(G.mem) = Goal(H, K)
  BY <1>1 DEF MovedTo
<1>3. G.mem \in Seq(Descs) /\ Len(G.mem) \in Nat
  BY <1>2, HeapType
<1>4. H \in Heaps /\ H.mem \in Seq(Descs) /\ Tiling(H.mem, Titles(H)) /\ Titled(H.mem, Titles(H))
  BY <1>1, SoundFacts
<1>5. Len(H.mem) \in Nat
  BY <1>4, HeapType
<1>6. Goal(H, K) <= Len(H.mem)
  <2>1. Staying(H, K) \subseteq 1 .. Len(H.mem)
    BY <1>1, StayingIs
  <2>2. IsFiniteSet(1 .. Len(H.mem)) /\ Cardinality(1 .. Len(H.mem)) = Len(H.mem)
    <3>1. 1 \in Int /\ Len(H.mem) \in Int
      BY <1>5
    <3>2. IsFiniteSet(1 .. Len(H.mem))
      BY <3>1, FS_Interval
    <3>3. Cardinality(1 .. Len(H.mem)) = IF 1 > Len(H.mem) THEN 0 ELSE Len(H.mem) - 1 + 1
      BY <3>1, FS_Interval
    <3> QED BY <1>5, <3>2, <3>3
  <2>3. Cardinality(Staying(H, K)) <= Cardinality(1 .. Len(H.mem))
    BY <2>1, <2>2, FS_Subset
  <2> QED BY <2>2, <2>3 DEF Goal
<1> QED BY <1>1, <1>2, <1>3, <1>4, <1>5, <1>6

LEMMA MovedBlock ==
  ASSUME NEW H, NEW G, NEW K, Moves(H, G, K), NEW t \in K
  PROVE  /\ Place(H, K, t) \in Nat /\ Place(H, K, t) >= 1
         /\ G.mem[Place(H, K, t)] = D(Place(H, K, t), H.mem[t].f, H.mem[t].v)
         /\ G.mem[Place(H, K, t)].f = H.mem[t].f
         /\ BKSIZE(G.mem[Place(H, K, t)]) = BKSIZE(H.mem[t])
         /\ BKSIZE(H.mem[t]) \in Nat /\ BKSIZE(H.mem[t]) >= 1
         /\ Fields(G.mem, Place(H, K, t)) = Fields(H.mem, t)
         /\ Behind(G.mem, Place(H, K, t)) = Place(H, K, t) + BKSIZE(H.mem[t])
         /\ Behind(G.mem, Place(H, K, t)) = Place(H, K, Behind(H.mem, t))
         /\ Place(H, K, t) \in 1 .. Len(G.mem)
<1> DEFINE p == Place(H, K, t)
<1>1. t \in Titles(H) /\ K \subseteq Titles(H) /\ Sound(H)
  BY MovesFacts
<1>2. BKSIZE(H.mem[t]) \in Nat /\ BKSIZE(H.mem[t]) >= 1
  BY <1>1, BlockType
<1>3. p \in Nat /\ p >= 1
  BY <1>1, PlaceType
<1>4. G.mem[p] = D(p, H.mem[t].f, H.mem[t].v)
  <2>1. 0 \in 0 .. BKSIZE(H.mem[t]) - 1 /\ p + 0 = p
    BY <1>2, <1>3
  <2>2. G.mem[p + 0] = Becomes(H, K, t, 0)
    BY <2>1, MovesFacts DEF MovedTo
  <2>3. Becomes(H, K, t, 0) = D(p, H.mem[t].f, H.mem[t].v)
    BY DEF Becomes
  <2> QED BY <2>1, <2>2, <2>3
<1>5. G.mem[p].f = H.mem[t].f /\ G.mem[p].v = H.mem[t].v
  BY <1>4 DEF D
<1> HIDE DEF p
<1>6. BKSIZE(G.mem[p]) = BKSIZE(H.mem[t]) /\ Fields(G.mem, p) = Fields(H.mem, t)
  BY <1>5 DEF BKSIZE, Fields
<1>7. Behind(G.mem, p) = p + BKSIZE(H.mem[t])
  BY <1>6 DEF Behind
<1>8. Place(H, K, Behind(H.mem, t)) = p + BKSIZE(H.mem[t])
  BY <1>1, PlaceBehind DEF p
<1>9. p \in 1 .. Len(G.mem)
  <2>1. Place(H, K, Behind(H.mem, t)) <= Goal(H, K) + 1
    BY <1>1, PlaceType
  <2>2. Len(G.mem) = Goal(H, K) /\ Len(G.mem) \in Nat
    BY MovesFacts
  <2> QED BY <1>2, <1>3, <1>8, <2>1, <2>2
<1> QED BY <1>2, <1>3, <1>4, <1>5, <1>6, <1>7, <1>8, <1>9 DEF p

LEMMA MovedField ==
  ASSUME NEW H, NEW G, NEW K, Moves(H, G, K), NEW t \in K, NEW i \in 1 .. BKSIZE(H.mem[t]) - 1
  PROVE  /\ t + i \in 1 .. Len(H.mem) /\ H.mem[t + i] \in Descs /\ i \in Nat
         /\ G.mem[Place(H, K, t) + i].f = H.mem[t + i].f
         /\ G.mem[Place(H, K, t) + i].v = H.mem[t + i].v
         /\ i \in Fields(H.mem, t) => G.mem[Place(H, K, t) + i] = Shifted(H, K, H.mem[t + i])
         /\ i = LNKFLD /\ i \notin Fields(H.mem, t)
              => G.mem[Place(H, K, t) + i].a = NextPlace(H, K, t)
         /\ i # LNKFLD /\ i \notin Fields(H.mem, t) => G.mem[Place(H, K, t) + i] = H.mem[t + i]
<1> DEFINE d == H.mem[t + i]
           e == G.mem[Place(H, K, t) + i]
<1>1. t \in Titles(H) /\ K \subseteq Titles(H) /\ Sound(H)
  BY MovesFacts
<1>2. /\ t \in Nat /\ t >= 1 /\ BKSIZE(H.mem[t]) \in Nat /\ H \in Heaps
      /\ Behind(H.mem, t) = t + BKSIZE(H.mem[t]) /\ Behind(H.mem, t) <= Len(H.mem) + 1 /\ Len(H.mem) \in Nat
  BY <1>1, BlockType, SoundFacts
<1>3. i \in Nat /\ i # 0 /\ t + i \in 1 .. Len(H.mem) /\ i \in 0 .. BKSIZE(H.mem[t]) - 1
  BY <1>2
<1>4. d \in Descs
  BY <1>2, <1>3, HeapType
<1>5. e = Becomes(H, K, t, i)
  BY <1>3, MovesFacts DEF MovedTo
<1>6. e = IF i \in Fields(H.mem, t) THEN Shifted(H, K, d)
          ELSE IF i = LNKFLD THEN D(NextPlace(H, K, t), d.f, d.v) ELSE d
  BY <1>3, <1>5 DEF Becomes
<1>7. Shifted(H, K, d).f = d.f /\ Shifted(H, K, d).v = d.v
  BY DEF Shifted, D
<1> HIDE DEF e, d
<1>8. e.f = d.f /\ e.v = d.v /\ (i = LNKFLD /\ i \notin Fields(H.mem, t) => e.a = NextPlace(H, K, t))
  <2>1. CASE i \in Fields(H.mem, t)
    BY <1>6, <1>7, <2>1
  <2>2. CASE i \notin Fields(H.mem, t) /\ i = LNKFLD
    BY <1>6, <2>2 DEF D
  <2>3. CASE i \notin Fields(H.mem, t) /\ i # LNKFLD
    BY <1>6, <2>3
  <2> QED BY <2>1, <2>2, <2>3
<1> QED BY <1>3, <1>4, <1>6, <1>8 DEF e, d

LEMMA MovedTiling ==
  ASSUME NEW H, NEW G, NEW K, Moves(H, G, K)
  PROVE  Tiling(G.mem, Places(H, K)) /\ Titled(G.mem, Places(H, K))
<1> DEFINE X == Places(H, K)
<1>1. /\ K \subseteq Titles(H) /\ Sound(H) /\ Len(G.mem) \in Nat /\ Len(G.mem) = Goal(H, K)
      /\ Len(H.mem) \in Nat /\ 1 \in K
  BY MovesFacts DEF KeptRight
<1>2. X \subseteq 1 .. Len(G.mem)
  BY MovedBlock DEF Places
<1>3. 1 \in X
  BY <1>1, PlaceEnds DEF Places
<1>4. ASSUME NEW p \in X PROVE Behind(G.mem, p) \in X \cup {Len(G.mem) + 1}
  <2>1. PICK t \in K : p = Place(H, K, t)
    BY DEF Places
  <2>2. Behind(G.mem, p) = Place(H, K, Behind(H.mem, t))
    BY <2>1, MovedBlock
  <2>3. Behind(H.mem, t) \in Titles(H) \cup {Len(H.mem) + 1}
    BY <1>1, BlockType
  <2>4. PICK u \in K \cup {Len(H.mem) + 1} : Place(H, K, Behind(H.mem, t)) = Place(H, K, u)
    BY <1>1, <2>3, PlaceTaken
  <2>5. u \in K => Place(H, K, u) \in X
    BY DEF Places
  <2>6. u = Len(H.mem) + 1 => Place(H, K, u) = Len(G.mem) + 1
    BY <1>1, PlaceEnds
  <2> QED BY <2>2, <2>4, <2>5, <2>6
<1>5. ASSUME NEW p \in X, NEW q \in X, p < q PROVE Behind(G.mem, p) <= q
  <2>1. PICK t \in K, u \in K : p = Place(H, K, t) /\ q = Place(H, K, u)
    BY DEF Places
  <2>2. /\ t \in Nat /\ u \in Nat /\ p \in Nat /\ q \in Nat /\ BKSIZE(H.mem[u]) \in Nat
    BY <1>1, <2>1, BlockType, PlaceType
  <2>3. u < t => q + BKSIZE(H.mem[u]) <= p
    BY <1>1, <2>1, PlacesApart
  <2>4. t < u => p + BKSIZE(H.mem[t]) <= q
    BY <1>1, <2>1, PlacesApart
  <2>5. Behind(G.mem, p) = p + BKSIZE(H.mem[t])
    BY <2>1, MovedBlock
  <2>6. t < u
    <3>1. t # u
      BY <1>5, <2>1, <2>2
    <3> QED BY <1>5, <2>2, <2>3, <3>1
  <2> QED BY <2>4, <2>5, <2>6
<1>6. ASSUME NEW p \in X
      PROVE  /\ G.mem[p].a = p /\ "TTL" \in G.mem[p].f /\ "MARK" \notin G.mem[p].f
             /\ \A i \in 1 .. BKSIZE(G.mem[p]) - 1 :
                  "TTL" \in G.mem[p + i].f => IsText(G.mem, p, i) /\ "TTL" \in CharFlags
  <2>1. PICK t \in K : p = Place(H, K, t)
    BY DEF Places
  <2>2. /\ G.mem[p] = D(p, H.mem[t].f, H.mem[t].v) /\ BKSIZE(G.mem[p]) = BKSIZE(H.mem[t])
    BY <2>1, MovedBlock
  <2>3. Titled(H.mem, Titles(H)) /\ t \in Titles(H)
    BY <1>1, MovesFacts
  <2>4. G.mem[p].a = p /\ G.mem[p].f = H.mem[t].f
    BY <2>2 DEF D
  <2>5. "TTL" \in H.mem[t].f /\ "MARK" \notin H.mem[t].f
    BY <2>3 DEF Titled
  <2>6. ASSUME NEW i \in 1 .. BKSIZE(G.mem[p]) - 1, "TTL" \in G.mem[p + i].f
        PROVE  IsText(G.mem, p, i) /\ "TTL" \in CharFlags
    <3>1. i \in 1 .. BKSIZE(H.mem[t]) - 1
      BY <2>2
    <3>2. G.mem[p + i].f = H.mem[t + i].f
      BY <2>1, <3>1, MovedField
    <3>3. IsText(H.mem, t, i) /\ "TTL" \in CharFlags
      BY <2>3, <2>6, <3>1, <3>2 DEF Titled
    <3> QED BY <2>4, <3>3 DEF IsText
  <2> QED BY <2>4, <2>5, <2>6
<1> QED BY <1>2, <1>3, <1>4, <1>5, <1>6 DEF Tiling, Titled

(* What points into a block points into it where it is now.                *)
LEMMA MovedRefers ==
  ASSUME NEW H, NEW G, NEW K, Moves(H, G, K), NEW d \in Descs, Holds(H, K, d),
         Refers(H.mem, Titles(H), d)
  PROVE  Refers(G.mem, Places(H, K), Shifted(H, K, d))
<1> DEFINE t == Top(H.mem, d.a)
<1>1. K \subseteq Titles(H) /\ Sound(H)
  BY MovesFacts
<1>2. d.a \in Nat /\ "TTL" \notin d.f
  BY DescType DEF Refers
<1>3. CASE d.a = 0
  <2>1. Shifted(H, K, d) = d
    BY <1>3 DEF Shifted, IsPtr
  <2> QED BY <1>2, <1>3, <2>1 DEF Refers
<1>4. CASE d.a # 0
  <2>1. /\ IsPtr(d) /\ d.a \in 1 .. Len(H.mem) /\ t <= d.a /\ d.a < Behind(H.mem, t) /\ t \in Titles(H)
        /\ "STTL" \in H.mem[t].f => d.a = t
    BY <1>4, MovesFacts, TopOfRefers
  <2>2. d.a <= Len(H.mem)
    BY <2>1, MovesFacts
  <2>3. t \in K
    BY <2>1, <2>2 DEF Holds
  <2>4. Shifted(H, K, d) = D(Place(H, K, t) + (d.a - t), d.f, d.v)
    BY <2>1, <2>2 DEF Shifted
  <2>5. /\ Place(H, K, t) \in Nat /\ BKSIZE(H.mem[t]) \in Nat
        /\ G.mem[Place(H, K, t)].f = H.mem[t].f
        /\ Behind(G.mem, Place(H, K, t)) = Place(H, K, t) + BKSIZE(H.mem[t])
    BY <2>3, MovedBlock
  <2>6. t \in Nat /\ Behind(H.mem, t) = t + BKSIZE(H.mem[t])
    BY <1>1, <2>1, BlockType
  <2>7. Place(H, K, t) \in Places(H, K)
    BY <2>3 DEF Places
  <2> HIDE DEF t
  <2>8. d.a = t => Place(H, K, t) + (d.a - t) = Place(H, K, t)
    BY <2>5, <2>6
  <2>9. /\ Place(H, K, t) <= Place(H, K, t) + (d.a - t)
        /\ Place(H, K, t) + (d.a - t) < Behind(G.mem, Place(H, K, t))
    BY <1>2, <2>1, <2>5, <2>6
  <2>10. InBlock(G.mem, Places(H, K), Place(H, K, t) + (d.a - t))
    BY <2>1, <2>5, <2>7, <2>8, <2>9 DEF InBlock
  <2>11. "PTR" \in d.f
    BY <2>1 DEF IsPtr
  <2> QED BY <1>2, <2>4, <2>10, <2>11 DEF Refers, D
<1> QED BY <1>3, <1>4

LEMMA MovedString ==
  ASSUME NEW H, NEW G, NEW K, Moves(H, G, K), NEW s \in K
  PROVE  /\ Place(H, K, s) \in StringsIn(G.mem, Places(H, K)) <=> s \in Strings(H)
         /\ s \in Strings(H) =>
              /\ Text(G, Place(H, K, s)) = Text(H, s) /\ Key(G, Place(H, K, s)) = Key(H, s)
              /\ LinkOf(G, Place(H, K, s)) = NextPlace(H, K, s)
<1> DEFINE p == Place(H, K, s)
<1>1. K \subseteq Titles(H) /\ Sound(H)
  BY MovesFacts
<1>2. p \in Places(H, K) /\ G.mem[p].f = H.mem[s].f /\ p >= 1 /\ p \in Nat
  <2>1. p \in Places(H, K)
    BY DEF Places
  <2> QED BY <2>1, MovedBlock
<1>3. p \in StringsIn(G.mem, Places(H, K)) <=> s \in Strings(H)
  BY <1>1, <1>2 DEF StringsIn, Strings
<1>4. ASSUME s \in Strings(H)
      PROVE  /\ Text(G, p) = Text(H, s) /\ Key(G, p) = Key(H, s) /\ LinkOf(G, p) = NextPlace(H, K, s)
  <2>1. Fields(H.mem, s) = 1 .. ATTRIB /\ BKSIZE(H.mem[s]) \in Nat /\ BKSIZE(H.mem[s]) > TEXT
    BY <1>1, <1>4, StringShape
  <2>2. /\ TEXT \in 1 .. BKSIZE(H.mem[s]) - 1 /\ LNKFLD \in 1 .. BKSIZE(H.mem[s]) - 1
        /\ TEXT # LNKFLD /\ TEXT \notin Fields(H.mem, s) /\ LNKFLD \notin Fields(H.mem, s)
    BY <2>1 DEF TEXT, LNKFLD, ATTRIB
  <2>3. G.mem[p + TEXT] = H.mem[s + TEXT]
    BY <2>2, MovedField
  <2>4. G.mem[p + LNKFLD].v = H.mem[s + LNKFLD].v /\ G.mem[p + LNKFLD].a = NextPlace(H, K, s)
    BY <2>2, MovedField
  <2>5. p # 0
    BY <1>2
  <2> QED BY <2>3, <2>4, <2>5 DEF Text, Key, LinkOf
<1> QED BY <1>3, <1>4

LEMMA MovedChain ==
  ASSUME NEW H, NEW G, NEW K, Moves(H, G, K)
  PROVE  Chain(G, StringsIn(G.mem, Places(H, K)))
<1> DEFINE S == Strings(H)
           Z == StringsIn(G.mem, Places(H, K))
           old(a) == CHOOSE t \in K : Place(H, K, t) = a
<1>1. K \subseteq Titles(H) /\ Sound(H)
  BY MovesFacts
<1>2. PICK n \in Nat : \E ord : Linked(H, S, ord, n) /\ (DOMAIN Raised = {} => Filed(H, S, ord))
  BY <1>1, SoundFacts DEF Chain
<1>3. PICK ord : Linked(H, S, ord, n) /\ (DOMAIN Raised = {} => Filed(H, S, ord))
  BY <1>2
<1>4. /\ 0 \notin S /\ \A a \in {0} \cup S : ord[a] \in 0 .. n
      /\ ord[0] = 0 /\ \A s \in S : ord[s] > 0
      /\ \A s, u \in S : ord[s] = ord[u] => s = u
  BY <1>3 DEF Linked
<1> DEFINE new == [a \in {0} \cup Z |-> IF a = 0 THEN 0 ELSE ord[old(a)]]
<1>5. ASSUME NEW t \in K, NEW u \in K, Place(H, K, t) = Place(H, K, u) PROVE t = u
  <2>1. /\ Place(H, K, t) \in Nat /\ BKSIZE(H.mem[t]) \in Nat /\ BKSIZE(H.mem[t]) >= 1
        /\ BKSIZE(H.mem[u]) \in Nat /\ BKSIZE(H.mem[u]) >= 1
    BY MovedBlock
  <2>2. Place(H, K, t) < Place(H, K, t) + BKSIZE(H.mem[t]) /\ Place(H, K, t) < Place(H, K, t) + BKSIZE(H.mem[u])
    BY <2>1
  <2>3. Place(H, K, t) <= Place(H, K, t) /\ Place(H, K, u) <= Place(H, K, t)
    BY <1>5, <2>1
  <2> QED BY <1>1, <1>5, <2>1, <2>2, <2>3, PlaceUnique
<1>6. ASSUME NEW t \in K PROVE old(Place(H, K, t)) = t
  BY <1>5
<1> HIDE DEF old
<1>7. ASSUME NEW a \in Z
      PROVE  \E s \in S \cap K : a = Place(H, K, s) /\ new[a] = ord[s] /\ a # 0
  <2>1. PICK t \in K : a = Place(H, K, t)
    BY DEF StringsIn, Places
  <2>2. t \in S
    BY <2>1, MovedString
  <2>3. a # 0
    BY <2>1, MovedBlock
  <2> QED BY <1>6, <2>1, <2>2, <2>3
<1>8. ASSUME NEW s \in S \cap K
      PROVE  Place(H, K, s) \in Z /\ new[Place(H, K, s)] = ord[s] /\ Place(H, K, s) # 0
  <2>1. Place(H, K, s) \in Z /\ Place(H, K, s) # 0
    <3>1. Place(H, K, s) >= 1
      BY MovedBlock
    <3> QED BY <3>1, MovedString
  <2> QED BY <1>6, <2>1
<1>9. new[0] = 0 /\ 0 \notin Z
  <2>1. 0 \notin Z
    BY <1>7
  <2> QED BY <2>1
<1>10. new \in [{0} \cup Z -> 0 .. n]
  <2>1. new = [a \in {0} \cup Z |-> new[a]]
    OBVIOUS
  <2>2. ASSUME NEW a \in {0} \cup Z PROVE new[a] \in 0 .. n
    <3>1. CASE a = 0
      BY <1>4, <1>9, <3>1
    <3>2. CASE a \in Z
      BY <1>4, <1>7, <3>2
    <3> QED BY <3>1, <3>2
  <2> HIDE DEF new
  <2> QED BY <2>1, <2>2
<1> HIDE DEF new, Z
<1>11. ASSUME NEW a \in {0} \cup (S \cap K), NEW b, new[b] = ord[a]
       PROVE  NextIs(Z, new, b, NextPlace(H, K, a))
  <2> DEFINE c == NextKept(H, K, a)
  <2>1. NextIs(S \cap K, ord, a, c)
    BY <1>3, NextKeptIs
  <2> HIDE DEF c
  <2>2. CASE c = 0
    <3>1. NextPlace(H, K, a) = 0
      BY <2>2 DEF NextPlace, c
    <3>2. \A s \in S \cap K : ord[s] <= ord[a]
      BY <1>4, <2>1, <2>2 DEF NextIs
    <3>3. ASSUME NEW z \in Z PROVE new[z] <= new[b]
      BY <1>7, <1>11, <3>2
    <3> QED BY <3>1, <3>3 DEF NextIs
  <2>3. CASE c # 0
    <3>1. c \in S \cap K /\ ord[c] > ord[a] /\ \A s \in S \cap K : ord[s] > ord[a] => ord[s] >= ord[c]
      BY <2>1, <2>3 DEF NextIs
    <3>2. NextPlace(H, K, a) = Place(H, K, c)
      BY <2>3 DEF NextPlace, c
    <3>3. Place(H, K, c) \in Z /\ new[Place(H, K, c)] = ord[c]
      BY <1>8, <3>1
    <3>4. ASSUME NEW z \in Z, new[z] > new[b] PROVE new[z] >= new[Place(H, K, c)]
      BY <1>7, <1>11, <3>1, <3>3, <3>4
    <3> QED BY <1>11, <3>1, <3>2, <3>3, <3>4 DEF NextIs
  <2> QED BY <2>2, <2>3
<1>12. ASSUME NEW b \in {0} \cup Z PROVE NextIs(Z, new, b, LinkOf(G, b))
  <2>1. CASE b = 0
    <3>1. LinkOf(G, b) = NextPlace(H, K, 0)
      BY <2>1, MovesFacts DEF LinkOf, MovedTo
    <3>2. new[0] = ord[0]
      BY <1>4, <1>9
    <3> QED BY <1>11, <2>1, <3>1, <3>2
  <2>2. CASE b \in Z
    <3>1. PICK s \in S \cap K : b = Place(H, K, s) /\ new[b] = ord[s]
      BY <1>7, <2>2
    <3>2. LinkOf(G, b) = NextPlace(H, K, s)
      BY <3>1, MovedString
    <3> QED BY <1>11, <3>1, <3>2
  <2> QED BY <2>1, <2>2
<1>13. Linked(G, Z, new, n)
  <2>1. \A z \in Z : new[z] > 0
    BY <1>4, <1>7
  <2>2. ASSUME NEW y \in Z, NEW z \in Z, new[y] = new[z] PROVE y = z
    <3>1. PICK s \in S \cap K : y = Place(H, K, s) /\ new[y] = ord[s]
      BY <1>7
    <3>2. PICK u \in S \cap K : z = Place(H, K, u) /\ new[z] = ord[u]
      BY <1>7
    <3>3. s = u
      BY <1>4, <2>2, <3>1, <3>2
    <3> QED BY <3>1, <3>2, <3>3
  <2>3. n \in Nat /\ 0 \notin Z /\ new[0] = 0
    BY <1>9
  <2> QED BY <1>10, <1>12, <2>1, <2>2, <2>3 DEF Linked
<1>14. ASSUME DOMAIN Raised = {} PROVE Filed(G, Z, new)
  <2>1. Filed(H, S, ord)
    BY <1>3, <1>14
  <2>2. ASSUME NEW z \in Z PROVE Text(G, z) = Key(G, z)
    <3>1. PICK s \in S \cap K : z = Place(H, K, s)
      BY <1>7
    <3>2. Text(G, z) = Text(H, s) /\ Key(G, z) = Key(H, s)
      BY <3>1, MovedString
    <3>3. Text(H, s) = Key(H, s)
      BY <2>1 DEF Filed
    <3> QED BY <3>2, <3>3
  <2>3. ASSUME NEW y \in Z, NEW z \in Z, new[y] < new[z] PROVE Key(G, y) < Key(G, z)
    <3>1. PICK s \in S \cap K : y = Place(H, K, s) /\ new[y] = ord[s]
      BY <1>7
    <3>2. PICK u \in S \cap K : z = Place(H, K, u) /\ new[z] = ord[u]
      BY <1>7
    <3>3. Key(G, y) = Key(H, s) /\ Key(G, z) = Key(H, u)
      BY <3>1, <3>2, MovedString
    <3>4. Key(H, s) < Key(H, u)
      BY <2>1, <2>3, <3>1, <3>2 DEF Filed
    <3> QED BY <3>3, <3>4
  <2> QED BY <2>2, <2>3 DEF Filed
<1> QED BY <1>13, <1>14 DEF Chain, Z

LEMMA MovedSound ==
  ASSUME NEW H, NEW G, NEW K, Moves(H, G, K)
  PROVE  Sound(G) /\ Titles(G) = Places(H, K) /\ Strings(G) = StringsIn(G.mem, Places(H, K))
<1> DEFINE X == Places(H, K)
<1>1. /\ K \subseteq Titles(H) /\ Sound(H) /\ G \in Heaps /\ KeptRight(H, K) /\ H \in Heaps
  BY MovesFacts
<1>2. Tiling(G.mem, X) /\ Titled(G.mem, X)
  BY MovedTiling
<1>3. FieldsRight(G.mem, X)
  <2>1. ASSUME NEW p \in X, NEW i \in Fields(G.mem, p) PROVE Refers(G.mem, X, G.mem[p + i])
    <3>1. PICK t \in K : p = Place(H, K, t)
      BY DEF Places
    <3>2. i \in Fields(H.mem, t)
      BY <3>1, MovedBlock
    <3>3. i \in 1 .. BKSIZE(H.mem[t]) - 1
      BY <1>1, <3>2, FieldType
    <3>4. G.mem[p + i] = Shifted(H, K, H.mem[t + i]) /\ H.mem[t + i] \in Descs
      BY <3>1, <3>2, <3>3, MovedField
    <3>5. Holds(H, K, H.mem[t + i]) /\ Refers(H.mem, Titles(H), H.mem[t + i])
      BY <1>1, <3>2, SoundFacts DEF KeptRight, FieldsRight
    <3> QED BY <3>4, <3>5, MovedRefers
  <2> QED BY <2>1 DEF FieldsRight
<1>4. RootsRight(G.mem, X, G.root)
  <2>1. ASSUME NEW x \in Stack \cup {"XPTR"} PROVE Refers(G.mem, X, G.root[x])
    <3>1. x \in Roots
      BY DEF Roots
    <3>2. H.root[x] \in Descs /\ Holds(H, K, H.root[x]) /\ G.root[x] = Shifted(H, K, H.root[x])
      BY <1>1, <3>1, HeapType, MovesFacts DEF KeptRight, MovedTo
    <3>3. Refers(H.mem, Titles(H), H.root[x])
      BY <1>1, SoundFacts DEF RootsRight
    <3> QED BY <3>2, <3>3, MovedRefers
  <2>2. G.root.OCBSCL = Ptr(1)
    <3>1. "OCBSCL" \in Roots /\ H.root.OCBSCL = Ptr(1)
      BY <1>1, SoundFacts DEF RootsRight, Roots, Own
    <3>2. G.root["OCBSCL"] = Shifted(H, K, H.root["OCBSCL"])
      BY <3>1, MovesFacts DEF MovedTo
    <3>3. Top(H.mem, 1) = 1 /\ 1 <= Len(H.mem)
      <4>1. 1 \in Titles(H) /\ 1 \in Nat
        BY <1>1 DEF KeptRight
      <4>2. H.mem \in Seq(Descs) /\ Tiling(H.mem, Titles(H)) /\ Titled(H.mem, Titles(H))
        BY MovesFacts
      <4> QED BY <4>1, <4>2, TopOfBlock, TilingType
    <3>4. Place(H, K, 1) = 1
      BY <1>1, PlaceEnds
    <3>5. Shifted(H, K, Ptr(1)) = Ptr(1)
      <4>1. IsPtr(Ptr(1)) /\ Ptr(1).a = 1 /\ Ptr(1) = D(1 + (1 - 1), Ptr(1).f, Ptr(1).v)
        BY DEF IsPtr, Ptr, D
      <4> QED BY <3>3, <3>4, <4>1 DEF Shifted
    <3> QED BY <3>1, <3>2, <3>5, Zenon
  <2> QED BY <2>1, <2>2 DEF RootsRight
<1>5. ASSUME NEW z \in StringsIn(G.mem, X) PROVE BKSIZE(G.mem[z]) = Size(Text(G, z))
  <2>1. PICK t \in K : z = Place(H, K, t)
    BY DEF StringsIn, Places
  <2>2. t \in Strings(H) /\ Text(G, z) = Text(H, t)
    BY <2>1, MovedString
  <2>3. BKSIZE(G.mem[z]) = BKSIZE(H.mem[t])
    BY <2>1, MovedBlock
  <2> QED BY <1>1, <2>2, <2>3, SoundFacts
<1>6. Shaped(G, X)
  BY <1>2, <1>3, <1>4, <1>5 DEF Shaped
<1> QED BY <1>1, <1>6, MovedChain, SoundFrom

-----------------------------------------------------------------------------
(* What the operations do to storage.                                      *)
LEMMA RefersGrows ==
  ASSUME NEW m, NEW m2, NEW X, NEW X2, X \subseteq X2, \A t \in X : m2[t] = m[t],
         NEW d, Refers(m, X, d)
  PROVE  Refers(m2, X2, d)
<1>1. ASSUME InBlock(m, X, d.a) PROVE InBlock(m2, X2, d.a)
  <2>1. PICK t \in X : d.a = t \/ ("STTL" \notin m[t].f /\ t <= d.a /\ d.a < Behind(m, t))
    BY <1>1 DEF InBlock
  <2>2. m2[t].f = m[t].f /\ Behind(m2, t) = Behind(m, t) /\ t \in X2
    BY DEF Behind
  <2> QED BY <2>1, <2>2 DEF InBlock
<1> QED BY <1>1 DEF Refers

(* Fields and characters are rewritten where they stand.                   *)
ShapeKept(m, m2, X) ==
    /\ m2 \in Seq(Descs) /\ Len(m2) = Len(m)
    /\ \A t \in X :
         /\ m2[t] = m[t]
         /\ \A i \in Fields(m, t) : Refers(m, X, m2[t + i])
         /\ \A i \in (1 .. BKSIZE(m[t]) - 1) \ Fields(m, t) :
              "TTL" \in m2[t + i].f => IsText(m, t, i) /\ "TTL" \in CharFlags

LEMMA Reshaped ==
  ASSUME NEW m \in Seq(Descs), NEW m2, NEW X, Tiling(m, X), Titled(m, X), FieldsRight(m, X),
         ShapeKept(m, m2, X)
  PROVE  /\ Tiling(m2, X) /\ Titled(m2, X) /\ FieldsRight(m2, X)
         /\ \A d : Refers(m, X, d) => Refers(m2, X, d)
         /\ StringsIn(m2, X) = StringsIn(m, X)
<1>1. \A t \in X : m2[t] = m[t] /\ Behind(m2, t) = Behind(m, t) /\ Fields(m2, t) = Fields(m, t)
  BY DEF ShapeKept, Behind, Fields
<1>2. Tiling(m2, X)
  BY <1>1 DEF Tiling, ShapeKept
<1>3. \A d : Refers(m, X, d) => Refers(m2, X, d)
  BY <1>1, RefersGrows
<1>4. FieldsRight(m2, X)
  BY <1>1, <1>3 DEF FieldsRight, ShapeKept
<1>5. ASSUME NEW t \in X, NEW i \in 1 .. BKSIZE(m2[t]) - 1, "TTL" \in m2[t + i].f
      PROVE  IsText(m2, t, i) /\ "TTL" \in CharFlags
  <2>1. i \in 1 .. BKSIZE(m[t]) - 1
    BY <1>1
  <2>2. i \notin Fields(m, t)
    BY <1>5 DEF ShapeKept, Refers
  <2>3. IsText(m, t, i) /\ "TTL" \in CharFlags
    BY <1>5, <2>1, <2>2 DEF ShapeKept
  <2> QED BY <1>1, <2>3 DEF IsText
<1>6. Titled(m2, X)
  BY <1>1, <1>5 DEF Titled
<1>7. StringsIn(m2, X) = StringsIn(m, X)
  BY <1>1 DEF StringsIn
<1> QED BY <1>2, <1>3, <1>4, <1>6, <1>7

LEMMA Rewritten ==
  ASSUME NEW H, Sound(H), NEW G \in Heaps, G.bin = H.bin,
         ShapeKept(H.mem, G.mem, Titles(H)), RootsRight(H.mem, Titles(H), G.root),
         \A s \in Strings(H) : /\ G.mem[s + LNKFLD] = H.mem[s + LNKFLD]
                               /\ Size(Text(G, s)) = Size(Text(H, s))
                               /\ DOMAIN Raised = {} => Text(G, s) = Text(H, s)
  PROVE  Sound(G) /\ Titles(G) = Titles(H) /\ Strings(G) = Strings(H)
<1> DEFINE X == Titles(H)
           S == Strings(H)
<1>1. /\ H.mem \in Seq(Descs) /\ Tiling(H.mem, X) /\ Titled(H.mem, X) /\ FieldsRight(H.mem, X)
      /\ S = StringsIn(H.mem, X) /\ Chain(H, S) /\ 0 \notin X
  <2>1. 0 \notin X
    BY BlockType
  <2> QED BY <2>1, SoundFacts
<1>2. /\ Tiling(G.mem, X) /\ Titled(G.mem, X) /\ FieldsRight(G.mem, X)
      /\ \A d : Refers(H.mem, X, d) => Refers(G.mem, X, d)
      /\ StringsIn(G.mem, X) = S
  BY <1>1, Reshaped
<1>3. RootsRight(G.mem, X, G.root)
  BY <1>2 DEF RootsRight
<1>4. \A s \in S : BKSIZE(G.mem[s]) = Size(Text(G, s))
  <2>1. \A s \in S : G.mem[s] = H.mem[s]
    BY <1>1, SoundFacts DEF ShapeKept
  <2> QED BY <2>1, SoundFacts
<1>5. Shaped(G, X)
  BY <1>2, <1>3, <1>4 DEF Shaped
<1>6. \A a \in {0} \cup S : LinkOf(G, a) = LinkOf(H, a)
  BY DEF LinkOf
<1>7. \A s \in S : Key(G, s) = Key(H, s)
  BY DEF Key
<1>8. PICK n \in Nat : \E ord : Linked(H, S, ord, n) /\ (DOMAIN Raised = {} => Filed(H, S, ord))
  BY <1>1 DEF Chain
<1>9. PICK ord : Linked(H, S, ord, n) /\ (DOMAIN Raised = {} => Filed(H, S, ord))
  BY <1>8
<1>10. Linked(G, S, ord, n)
  <2> HIDE DEF S
  <2> QED BY <1>6, <1>9 DEF Linked
<1>11. DOMAIN Raised = {} => Filed(G, S, ord)
  <2> HIDE DEF S
  <2>1. DOMAIN Raised = {} => \A s \in S : Text(G, s) = Text(H, s)
    BY DEF S
  <2> QED BY <1>7, <1>9, <2>1 DEF Filed
<1>12. Chain(G, StringsIn(G.mem, X))
  BY <1>2, <1>10, <1>11 DEF Chain
<1> QED BY <1>2, <1>5, <1>12, SoundFrom

LEMMA Rerooted ==
  ASSUME NEW H, Sound(H), NEW G \in Heaps, G.mem = H.mem, G.bin = H.bin,
         RootsRight(H.mem, Titles(H), G.root)
  PROVE  Sound(G) /\ Titles(G) = Titles(H) /\ Strings(G) = Strings(H)
<1>1. ShapeKept(H.mem, G.mem, Titles(H))
  <2>1. /\ H.mem \in Seq(Descs) /\ FieldsRight(H.mem, Titles(H)) /\ Titled(H.mem, Titles(H))
    BY SoundFacts
  <2> QED BY <2>1 DEF ShapeKept, FieldsRight, Titled
<1>2. \A s \in Strings(H) : G.mem[s + LNKFLD] = H.mem[s + LNKFLD] /\ Text(G, s) = Text(H, s)
  BY DEF Text
<1> QED BY <1>1, <1>2, Rewritten

(* A block is added at the end of storage.                                 *)
AddedTo(H, new) ==
    /\ new \in Seq(Descs) /\ Len(new) = BKSIZE(new[1]) /\ Len(new) >= 1
    /\ new[1].a = Len(H.mem) + 1 /\ "TTL" \in new[1].f /\ "MARK" \notin new[1].f
    /\ \A i \in Fields(new, 1) : Refers(H.mem, Titles(H), new[1 + i])
    /\ \A i \in (1 .. Len(new) - 1) \ Fields(new, 1) :
         "TTL" \in new[1 + i].f => IsText(new, 1, i) /\ "TTL" \in CharFlags

IsAdded(H, new, m, t) ==
    /\ t \in Nat /\ t >= 1 /\ m \in Seq(Descs) /\ Len(m) = Len(H.mem) + Len(new)
    /\ Len(H.mem) \in Nat /\ Len(new) \in Nat /\ Len(new) >= 1
    /\ \A a \in 1 .. Len(H.mem) : m[a] = H.mem[a]
    /\ \A i \in 0 .. Len(new) - 1 : m[t + i] = new[1 + i]
    /\ m[t] = new[1] /\ BKSIZE(m[t]) = Len(new) /\ Fields(m, t) = Fields(new, 1)
    /\ Tiling(m, Titles(H) \cup {t}) /\ Titled(m, Titles(H) \cup {t})
    /\ FieldsRight(m, Titles(H) \cup {t})
    /\ \A d : Refers(H.mem, Titles(H), d) => Refers(m, Titles(H) \cup {t}, d)
    /\ StringsIn(m, Titles(H) \cup {t})
         = Strings(H) \cup (IF "STTL" \in new[1].f THEN {t} ELSE {})

LEMMA Added ==
  ASSUME NEW H, Sound(H), NEW new, AddedTo(H, new), NEW m, m = H.mem \o new,
         NEW t, t = Len(H.mem) + 1
  PROVE  IsAdded(H, new, m, t)
<1> DEFINE X == Titles(H)
           N == Len(H.mem)
           k == Len(new)
<1>1. /\ H.mem \in Seq(Descs) /\ N \in Nat /\ Tiling(H.mem, X) /\ Titled(H.mem, X) /\ FieldsRight(H.mem, X)
      /\ Strings(H) = StringsIn(H.mem, X)
  <2>1. H.mem \in Seq(Descs) /\ N \in Nat
    BY SoundFacts, LenProperties
  <2> QED BY <2>1, SoundFacts
<1>2. new \in Seq(Descs) /\ k \in Nat /\ k = BKSIZE(new[1])
  <2>1. new \in Seq(Descs) /\ k = BKSIZE(new[1])
    BY DEF AddedTo
  <2> QED BY <2>1, LenProperties
<1>3. k >= 1
  BY DEF AddedTo
<1>4. /\ m \in Seq(Descs) /\ Len(m) = N + k
      /\ \A a \in 1 .. N + k : m[a] = IF a <= N THEN H.mem[a] ELSE new[a - N]
  BY <1>1, <1>2, ConcatProperties
<1> HIDE DEF N, k
<1>5. ASSUME NEW a \in 1 .. N PROVE m[a] = H.mem[a]
  <2>1. a \in 1 .. N + k /\ a <= N
    BY <1>1, <1>2
  <2> QED BY <1>4, <2>1
<1>6. ASSUME NEW i \in 0 .. k - 1 PROVE m[t + i] = new[1 + i]
  <2>1. t = N + 1
    BY DEF N
  <2>2. t + i \in 1 .. N + k /\ ~(t + i <= N) /\ (t + i) - N = 1 + i
    <3>1. N \in Nat /\ k \in Nat /\ i \in Nat /\ i < k
      BY <1>1, <1>2
    <3> QED BY <2>1, <3>1
  <2> QED BY <1>4, <2>2
<1>7. t \in Nat /\ t >= 1 /\ t = N + 1 /\ t \in 1 .. Len(m)
  <2>1. t = N + 1
    BY DEF N
  <2> QED BY <1>1, <1>2, <1>3, <1>4, <2>1
<1>8. m[t] = new[1]
  <2>1. 0 \in 0 .. k - 1 /\ t + 0 = t /\ 1 + 0 = 1
    BY <1>2, <1>3, <1>7
  <2> QED BY <1>6, <2>1
<1>9. BKSIZE(m[t]) = k /\ Fields(m, t) = Fields(new, 1) /\ Behind(m, t) = t + k
  BY <1>2, <1>8 DEF Fields, Behind
<1>10. ASSUME NEW u \in X
       PROVE  /\ u \in Nat /\ u \in 1 .. N /\ u < t /\ m[u] = H.mem[u] /\ Behind(m, u) = Behind(H.mem, u)
              /\ Fields(m, u) = Fields(H.mem, u) /\ Behind(m, u) <= t /\ Behind(m, u) \in X \cup {t}
              /\ BKSIZE(H.mem[u]) \in Nat /\ Behind(m, u) = u + BKSIZE(H.mem[u])
  <2>1. /\ u \in Nat /\ u \in 1 .. N /\ Behind(H.mem, u) <= N + 1 /\ Behind(H.mem, u) \in X \cup {N + 1}
        /\ BKSIZE(H.mem[u]) \in Nat /\ Behind(H.mem, u) = u + BKSIZE(H.mem[u])
    BY BlockType DEF N
  <2>2. m[u] = H.mem[u]
    BY <1>5, <2>1
  <2>3. Behind(m, u) = Behind(H.mem, u) /\ Fields(m, u) = Fields(H.mem, u)
    BY <2>2 DEF Behind, Fields
  <2> QED BY <1>1, <1>7, <2>1, <2>2, <2>3
<1>11. Tiling(m, X \cup {t})
  <2>1. X \cup {t} \subseteq 1 .. Len(m)
    <3>1. ASSUME NEW u \in X PROVE u \in 1 .. Len(m)
      BY <1>1, <1>2, <1>4, <1>10
    <3> QED BY <1>7, <3>1
  <2>2. 1 \in X
    BY <1>1 DEF Tiling
  <2>3. Behind(m, t) = Len(m) + 1
    BY <1>1, <1>2, <1>4, <1>7, <1>9
  <2>4. ASSUME NEW u \in X \cup {t}, NEW v \in X \cup {t}, u < v PROVE Behind(m, u) <= v
    <3>1. CASE u \in X /\ v \in X
      BY <1>1, <1>10, <2>4, <3>1 DEF Tiling
    <3>2. CASE u \in X /\ v = t
      BY <1>10, <3>2
    <3>3. CASE u = t
      <4>1. v = t \/ (v \in Nat /\ v < t)
        BY <1>10
      <4> QED BY <1>7, <1>10, <2>4, <3>3, <4>1
    <3> QED BY <3>1, <3>2, <3>3
  <2>5. \A u \in X : Behind(m, u) \in X \cup {t}
    BY <1>10
  <2> QED BY <2>1, <2>2, <2>3, <2>4, <2>5 DEF Tiling
<1>12. \A d : Refers(H.mem, X, d) => Refers(m, X \cup {t}, d)
  <2>1. \A u \in X : m[u] = H.mem[u]
    BY <1>10
  <2> QED BY <2>1, RefersGrows
<1>13. FieldsRight(m, X \cup {t})
  <2>1. ASSUME NEW u \in X, NEW i \in Fields(m, u) PROVE Refers(m, X \cup {t}, m[u + i])
    <3>1. i \in Fields(H.mem, u)
      BY <1>10
    <3>2. u + i \in 1 .. N
      BY <3>1, FieldType DEF N
    <3>3. Refers(H.mem, X, H.mem[u + i])
      BY <1>1, <3>1 DEF FieldsRight
    <3> QED BY <1>5, <1>12, <3>2, <3>3
  <2>2. ASSUME NEW i \in Fields(m, t) PROVE Refers(m, X \cup {t}, m[t + i])
    <3>1. i \in Fields(new, 1)
      BY <1>9
    <3>2. i \in 0 .. k - 1
      <4>1. new[1] \in Descs
        BY <1>2, <1>3, ElementOfSeq DEF k
      <4>2. CASE "STTL" \in new[1].f
        <5>1. k >= TEXT
          BY <1>2, <4>1, <4>2, DescType
        <5> QED BY <1>2, <3>1, <4>2, <5>1 DEF Fields, ATTRIB, TEXT
      <4>3. CASE "STTL" \notin new[1].f
        <5>1. i \in 1 .. new[1].v /\ k = new[1].v + 1 /\ new[1].v \in Nat
          BY <1>2, <3>1, <4>1, <4>3, DescType DEF Fields, BKSIZE
        <5> QED BY <5>1
      <4> QED BY <4>2, <4>3
    <3>3. Refers(H.mem, X, new[1 + i])
      BY <3>1 DEF AddedTo
    <3> QED BY <1>6, <1>12, <3>2, <3>3
  <2> QED BY <2>1, <2>2 DEF FieldsRight
<1>14. Titled(m, X \cup {t})
  <2>1. ASSUME NEW u \in X, NEW i \in 1 .. BKSIZE(m[u]) - 1, "TTL" \in m[u + i].f
        PROVE  IsText(m, u, i) /\ "TTL" \in CharFlags
    <3>1. i \in 1 .. BKSIZE(H.mem[u]) - 1
      BY <1>10
    <3>2. u + i \in 1 .. N
      BY <1>1, <1>7, <1>10, <3>1
    <3>3. IsText(H.mem, u, i) /\ "TTL" \in CharFlags
      BY <1>1, <1>5, <2>1, <3>1, <3>2 DEF Titled
    <3> QED BY <1>10, <3>3 DEF IsText
  <2>2. ASSUME NEW i \in 1 .. BKSIZE(m[t]) - 1, "TTL" \in m[t + i].f
        PROVE  IsText(m, t, i) /\ "TTL" \in CharFlags
    <3>1. i \in 1 .. k - 1 /\ i \in 0 .. k - 1
      BY <1>2, <1>9
    <3>2. "TTL" \in new[1 + i].f
      BY <1>6, <2>2, <3>1
    <3>3. i \notin Fields(new, 1)
      BY <3>2 DEF AddedTo, Refers
    <3>4. IsText(new, 1, i) /\ "TTL" \in CharFlags
      BY <3>1, <3>2, <3>3 DEF AddedTo, k
    <3> QED BY <1>8, <3>4 DEF IsText
  <2>3. \A u \in X : m[u].a = u /\ "TTL" \in m[u].f /\ "MARK" \notin m[u].f
    BY <1>1, <1>10 DEF Titled
  <2>4. m[t].a = t /\ "TTL" \in m[t].f /\ "MARK" \notin m[t].f
    BY <1>8 DEF AddedTo
  <2>5. ASSUME NEW u \in X \cup {t}
        PROVE  /\ m[u].a = u /\ "TTL" \in m[u].f /\ "MARK" \notin m[u].f
               /\ \A i \in 1 .. BKSIZE(m[u]) - 1 :
                     "TTL" \in m[u + i].f => IsText(m, u, i) /\ "TTL" \in CharFlags
    <3>1. CASE u \in X
      BY <2>1, <2>3, <3>1
    <3>2. CASE u = t
      BY <2>2, <2>4, <3>2
    <3> QED BY <3>1, <3>2
  <2> QED BY <2>5 DEF Titled
<1>15. StringsIn(m, X \cup {t}) = Strings(H) \cup (IF "STTL" \in new[1].f THEN {t} ELSE {})
  <2>1. \A u \in X : m[u].f = H.mem[u].f
    BY <1>10
  <2> QED BY <1>1, <1>8, <2>1 DEF StringsIn
<1>16. /\ t \in Nat /\ t >= 1 /\ m \in Seq(Descs) /\ Len(m) = Len(H.mem) + Len(new)
       /\ Len(H.mem) \in Nat /\ Len(new) \in Nat /\ Len(new) >= 1
       /\ BKSIZE(m[t]) = Len(new)
  BY <1>1, <1>2, <1>3, <1>4, <1>7, <1>9 DEF N, k
<1>17. /\ \A a \in 1 .. Len(H.mem) : m[a] = H.mem[a]
       /\ \A i \in 0 .. Len(new) - 1 : m[t + i] = new[1 + i]
  BY <1>5, <1>6 DEF N, k
<1> QED BY <1>8, <1>9, <1>11, <1>12, <1>13, <1>14, <1>15, <1>16, <1>17 DEF IsAdded

-----------------------------------------------------------------------------
(* LOCA1.  The place found is between two strings that follow each other,  *)
(* and the new string comes between them.                                  *)
Passed(H, l, s) == l = 0 \/ ~ Stops(H, l, s)
Before(H, l, s) == LinkOf(H, l) = 0 \/ Stops(H, LinkOf(H, l), s)

LEMMA LocatedSteps ==
  ASSUME NEW H, NEW ord, NEW n, Linked(H, Strings(H), ord, n), NEW s
  PROVE  \E f : /\ Located(H, s) = [H EXCEPT !.root.LSTPTR = Ptr(f[0]), !.root.BUKPTR = Ptr(LinkOf(H, f[0]))]
                /\ \A a \in {0} \cup Strings(H) :
                     f[a] = IF Before(H, a, s) THEN a ELSE f[LinkOf(H, a)]
<1> DEFINE S == Strings(H)
           Dom == {0} \cup S
           stop == {a \in Dom : Before(H, a, s)}
           base == [a \in Dom |-> a]
           step == [a \in Dom |-> [v \in Dom |-> v]]
           E(f) == [a \in Dom |-> IF Before(H, a, s) THEN a ELSE f[LinkOf(H, a)]]
           after == CHOOSE f : f = E(f)
<1>1. \A a \in Dom : LinkOf(H, a) \in Dom
  BY DEF Linked, NextIs
<1>2. base \in [Dom -> Dom] /\ step \in [Dom -> [Dom -> Dom]]
  OBVIOUS
<1>3. PICK f \in [Dom -> Dom] : \A a \in Dom : Along(H, f, a, stop, base, step)
  <2>1. \A a \in Dom : LinkOf(H, a) = 0 => a \in stop
    BY DEF Before
  <2>2. Linked(H, S, ord, n)
    OBVIOUS
  <2> HIDE DEF stop, base, step, S
  <2> QED BY <1>2, <2>1, <2>2, ChainFunction
<1>4. ASSUME NEW a \in Dom PROVE f[a] = IF Before(H, a, s) THEN a ELSE f[LinkOf(H, a)]
  <2>1. LinkOf(H, a) \in Dom /\ f[LinkOf(H, a)] \in Dom
    BY <1>1
  <2>2. step[a][f[LinkOf(H, a)]] = f[LinkOf(H, a)] /\ base[a] = a
    BY <2>1
  <2>3. f[a] = IF a \in stop THEN base[a] ELSE step[a][f[LinkOf(H, a)]]
    BY <1>3 DEF Along
  <2>4. a \in stop <=> Before(H, a, s)
    OBVIOUS
  <2> HIDE DEF base, step, stop
  <2> QED BY <2>2, <2>3, <2>4
<1>5. f = E(f)
  BY <1>4, Zenon
<1>6. after = E(after)
  BY <1>5
<1>7. Located(H, s) = [H EXCEPT !.root.LSTPTR = Ptr(after[0]), !.root.BUKPTR = Ptr(LinkOf(H, after[0]))]
  BY DEF Located, Links, Before
<1> HIDE DEF after
<1>8. \A a \in Dom : after[a] = IF Before(H, a, s) THEN a ELSE after[LinkOf(H, a)]
  BY <1>6
<1> QED BY <1>7, <1>8

LEMMA LocatedIs ==
  ASSUME NEW H, Sound(H), NEW s
  PROVE  \E l \in {0} \cup Strings(H) :
            /\ Located(H, s) = [H EXCEPT !.root.LSTPTR = Ptr(l), !.root.BUKPTR = Ptr(LinkOf(H, l))]
            /\ Passed(H, l, s) /\ Before(H, l, s)
<1> DEFINE S == Strings(H)
           Dom == {0} \cup S
<1>1. PICK n \in Nat : \E ord : Linked(H, S, ord, n)
  BY SoundFacts DEF Chain
<1>2. PICK ord : Linked(H, S, ord, n)
  BY <1>1
<1>3. PICK f :
         /\ Located(H, s) = [H EXCEPT !.root.LSTPTR = Ptr(f[0]), !.root.BUKPTR = Ptr(LinkOf(H, f[0]))]
         /\ \A a \in Dom : f[a] = IF Before(H, a, s) THEN a ELSE f[LinkOf(H, a)]
  BY <1>2, LocatedSteps
<1>4. n \in Nat /\ \A a \in Dom : ord[a] \in Nat /\ ord[a] <= n
  BY <1>2 DEF Linked
<1>5. ASSUME NEW a \in Dom, LinkOf(H, a) # 0 PROVE LinkOf(H, a) \in S /\ ord[LinkOf(H, a)] > ord[a]
  BY <1>2, <1>5 DEF Linked, NextIs
<1> HIDE DEF S
<1> DEFINE Good(a) == f[a] \in Dom /\ Before(H, f[a], s) /\ (f[a] = a \/ Passed(H, f[a], s))
           Y == {k \in 0 .. n : \E a \in Dom : k = n - ord[a] /\ ~ Good(a)}
<1>6. ASSUME Y # {} PROVE FALSE
  <2>1. Y \in SUBSET Nat
    BY <1>4
  <2>2. PICK k \in Y : \A j \in Y : k <= j
    BY <1>6, <2>1, NatLeast
  <2>3. PICK a \in Dom : k = n - ord[a] /\ ~ Good(a)
    BY <2>2
  <2>4. ~ Before(H, a, s)
    BY <1>3, <2>3
  <2> DEFINE b == LinkOf(H, a)
  <2>5. b \in S /\ ord[b] > ord[a] /\ f[a] = f[b] /\ ~ Stops(H, b, s)
    BY <1>3, <1>5, <2>4 DEF Before
  <2> HIDE DEF b
  <2>6. ord[b] \in Nat /\ ord[a] \in Nat /\ ord[b] <= n
    BY <1>4, <2>5
  <2>7. n - ord[b] \in 0 .. n /\ n - ord[b] < k
    BY <1>4, <2>3, <2>5, <2>6
  <2>8. n - ord[b] \notin Y
    <3>1. k \in Nat /\ \A j \in Y : k <= j
      BY <2>1, <2>2
    <3> HIDE DEF Y
    <3> QED BY <2>7, <3>1
  <2>9. Good(b)
    <3> HIDE DEF Good
    <3> QED BY <2>5, <2>7, <2>8
  <2>10. Good(a)
    BY <2>5, <2>9 DEF Passed
  <2> QED BY <2>3, <2>10
<1>7. Good(0)
  <2>1. 0 \in Dom /\ ord[0] \in Nat /\ ord[0] <= n
    BY <1>4
  <2>2. n - ord[0] \in 0 .. n
    BY <1>4, <2>1
  <2> HIDE DEF Good
  <2> QED BY <1>6, <2>1, <2>2
<1> QED BY <1>3, <1>7 DEF Passed, S

(* The structure of a string.                                              *)
LEMMA PlainDescs ==
  /\ Zero \in Descs /\ Zero.f = {} /\ Zero.a = 0
  /\ \A s \in Nat : Char(s) \in Descs /\ Char(s).f = CharFlags /\ Char(s).v = s
  /\ \A a \in Nat : Ptr(a) \in Descs /\ Ptr(a).a = a /\ Ptr(a).f = {"PTR"}
  /\ \A a \in Nat, v \in Nat, f \in SUBSET Flags :
       D(a, f, v) \in Descs /\ D(a, f, v).a = a /\ D(a, f, v).f = f /\ D(a, f, v).v = v
  /\ {} \in SUBSET Flags /\ {"TTL"} \in SUBSET Flags /\ {"TTL", "STTL"} \in SUBSET Flags
BY DEF Zero, Char, Ptr, D, Descs, Flags

IsStructure(st, t, s, value, label) ==
    /\ st \in Seq(Descs) /\ Len(st) = Size(s) /\ Size(s) \in Nat /\ Size(s) > TEXT
    /\ BKSIZE(st[1]) = Size(s) /\ st[1].f = {"TTL", "STTL"} /\ st[1].a = t
    /\ st[2] = value /\ st[3] = label /\ st[4] = Zero
    /\ \A i \in 5 .. Size(s) : st[i] = Char(s)
    /\ Fields(st, 1) = 1 .. ATTRIB

LEMMA StructureIs ==
  ASSUME NEW t \in Nat, NEW s \in Nat, NEW value \in Descs, NEW label \in Descs
  PROVE  IsStructure(Structure(t, s, value, label), t, s, value, label)
<1> DEFINE title == D(t, {"TTL", "STTL"}, Size(s) - TEXT)
           head == <<title, value, label, Zero>>
           k == Size(s) - TEXT
           text == [i \in 1 .. k |-> Char(s)]
           st == Structure(t, s, value, label)
<1>1. Size(s) \in Nat /\ Size(s) > TEXT /\ k \in Nat
  <2>1. Size(s) \in Nat /\ Size(s) > TEXT
    BY SizeType
  <2> QED BY <2>1 DEF TEXT
<1>2. /\ title \in Descs /\ title.a = t /\ title.f = {"TTL", "STTL"} /\ title.v = k
      /\ Zero \in Descs /\ Char(s) \in Descs
  <2> HIDE DEF k
  <2>1. D(t, {"TTL", "STTL"}, k) \in Descs /\ D(t, {"TTL", "STTL"}, k).a = t
        /\ D(t, {"TTL", "STTL"}, k).f = {"TTL", "STTL"} /\ D(t, {"TTL", "STTL"}, k).v = k
    BY <1>1, PlainDescs
  <2> QED BY <2>1, PlainDescs DEF k
<1>3. st = head \o text
  BY DEF Structure, Title
<1> HIDE DEF title, k, st
<1>4. head \in Seq(Descs) /\ Len(head) = 4 /\ head[1] = title /\ head[2] = value
      /\ head[3] = label /\ head[4] = Zero
  BY <1>2
<1>5. text \in Seq(Descs) /\ Len(text) = k
  <2>1. text \in [1 .. k -> Descs]
    BY <1>2
  <2> HIDE DEF text
  <2>2. text \in Seq(Descs)
    BY <1>1, <2>1, SeqDef
  <2>3. DOMAIN text = 1 .. k /\ DOMAIN text = 1 .. Len(text) /\ Len(text) \in Nat
    BY <2>1, <2>2, LenProperties
  <2>4. /\ Cardinality(1 .. Len(text)) = IF 1 > Len(text) THEN 0 ELSE Len(text) - 1 + 1
        /\ Cardinality(1 .. k) = IF 1 > k THEN 0 ELSE k - 1 + 1
    <3>1. Len(text) \in Int /\ k \in Int /\ 1 \in Int
      BY <1>1, <2>3
    <3> QED BY <3>1, FS_Interval
  <2>5. Len(text) = IF 1 > Len(text) THEN 0 ELSE Len(text) - 1 + 1
    BY <2>3
  <2>6. k = IF 1 > k THEN 0 ELSE k - 1 + 1
    BY <1>1
  <2>7. 1 .. Len(text) = 1 .. k
    BY <2>3
  <2> QED BY <2>2, <2>4, <2>5, <2>6, <2>7
<1>6. ASSUME NEW i \in 1 .. k PROVE text[i] = Char(s)
  OBVIOUS
<1> HIDE DEF head, text
<1>7. /\ st \in Seq(Descs) /\ Len(st) = 4 + k
      /\ \A i \in 1 .. 4 + k : st[i] = IF i <= 4 THEN head[i] ELSE text[i - 4]
  <2>1. /\ st \in Seq(Descs) /\ Len(st) = Len(head) + Len(text)
        /\ \A i \in 1 .. Len(head) + Len(text) :
             st[i] = IF i <= Len(head) THEN head[i] ELSE text[i - Len(head)]
    <3>1. head \in Seq(Descs) /\ text \in Seq(Descs)
      BY <1>4, <1>5
    <3>2. /\ head \o text \in Seq(Descs) /\ Len(head \o text) = Len(head) + Len(text)
          /\ \A i \in 1 .. Len(head) + Len(text) :
               (head \o text)[i] = IF i <= Len(head) THEN head[i] ELSE text[i - Len(head)]
      BY ONLY <3>1, ConcatProperties
    <3> QED BY <1>3, <3>2, Zenon
  <2> QED BY <1>4, <1>5, <2>1
<1>8. Len(st) = Size(s)
  BY <1>1, <1>7 DEF TEXT, k
<1>9. st[1] = title /\ st[2] = value /\ st[3] = label /\ st[4] = Zero
  <2>1. \A i \in {1, 2, 3, 4} : i \in 1 .. 4 + k /\ i <= 4
    BY <1>1
  <2> QED BY <1>4, <1>7, <2>1
<1>10. ASSUME NEW i \in 5 .. Size(s) PROVE st[i] = Char(s)
  <2>1. i \in 1 .. 4 + k /\ ~(i <= 4) /\ i - 4 \in 1 .. k
    BY <1>1 DEF TEXT, k
  <2> QED BY <1>6, <1>7, <2>1
<1>11. BKSIZE(st[1]) = Size(s)
  <2>1. BKSIZE(st[1]) = TEXT + k
    BY <1>2, <1>9 DEF BKSIZE
  <2> QED BY <1>1, <2>1 DEF TEXT, k
<1>12. Fields(st, 1) = 1 .. ATTRIB
  BY <1>2, <1>9 DEF Fields
<1>13. IsStructure(st, t, s, value, label)
  BY <1>1, <1>2, <1>7, <1>8, <1>9, <1>10, <1>11, <1>12 DEF IsStructure
<1> QED BY <1>13 DEF st

LEMMA StructureAdded ==
  ASSUME NEW H, Sound(H), NEW s \in Nat, NEW value \in Descs, NEW label \in Descs,
         Refers(H.mem, Titles(H), value), Refers(H.mem, Titles(H), label)
  PROVE  AddedTo(H, Structure(Len(H.mem) + 1, s, value, label))
<1> DEFINE t == Len(H.mem) + 1
           st == Structure(t, s, value, label)
<1>1. t \in Nat
  BY SoundFacts, LenProperties
<1> HIDE DEF t, st
<1>2. IsStructure(st, t, s, value, label)
  BY <1>1, StructureIs DEF st
<1> USE <1>2 DEF IsStructure
<1>3. ASSUME NEW i \in Fields(st, 1) PROVE Refers(H.mem, Titles(H), st[1 + i])
  <2>1. (i = 1 /\ 1 + i = 2) \/ (i = 2 /\ 1 + i = 3)
    BY <1>2 DEF ATTRIB
  <2> QED BY <1>2, <2>1
<1>4. ASSUME NEW i \in (1 .. Len(st) - 1) \ Fields(st, 1), "TTL" \in st[1 + i].f
      PROVE  IsText(st, 1, i) /\ "TTL" \in CharFlags
  <2>1. i \in Nat /\ i >= 3 /\ i <= Size(s) - 1
    BY <1>2 DEF ATTRIB
  <2>2. i # 3
    <3>1. Zero.f = {}
      BY PlainDescs
    <3>2. i = 3 => 1 + i = 4
      OBVIOUS
    <3> QED BY <1>2, <1>4, <3>1, <3>2
  <2>3. 1 + i \in 5 .. Size(s) /\ i >= TEXT
    BY <1>2, <2>1, <2>2 DEF TEXT
  <2>4. Char(s).f = CharFlags
    BY PlainDescs
  <2> QED BY <1>2, <1>4, <2>3, <2>4 DEF IsText
<1>5. Len(st) >= 1 /\ "TTL" \in st[1].f /\ "MARK" \notin st[1].f
  BY <1>2 DEF TEXT
<1> QED BY <1>2, <1>3, <1>4, <1>5 DEF AddedTo, t, st

-----------------------------------------------------------------------------
(* LOCA7.                                                                  *)
LEMMA Apart ==
  ASSUME NEW m \in Seq(Descs), NEW X, Tiling(m, X), NEW u \in X, NEW v \in X,
         NEW i \in 0 .. BKSIZE(m[u]) - 1, NEW j \in 0 .. BKSIZE(m[v]) - 1, u + i = v + j
  PROVE  u = v /\ i = j
<1>1. /\ u \in Nat /\ BKSIZE(m[u]) \in Nat /\ Behind(m, u) = u + BKSIZE(m[u])
      /\ v \in Nat /\ BKSIZE(m[v]) \in Nat /\ Behind(m, v) = v + BKSIZE(m[v])
  BY TilingType
<1>2. /\ u + i \in Nat /\ u <= u + i /\ u + i < Behind(m, u) /\ v <= u + i /\ u + i < Behind(m, v)
  BY <1>1
<1>3. u = v
  BY <1>2, OwnerUnique
<1> QED BY <1>1, <1>3

(* The new string comes behind the one at l.                               *)
Gap(G, l, s) ==
    /\ l \in {0} \cup Strings(G)
    /\ G.root.LSTPTR = Ptr(l) /\ G.root.BUKPTR = Ptr(LinkOf(G, l))
    /\ DOMAIN Raised = {} =>
         /\ l # 0 => Key(G, l) < s
         /\ LinkOf(G, l) # 0 => Key(G, LinkOf(G, l)) > s

(* What LOCA7 makes of the links.                                          *)
LinkedIn(m, m2, t, s, l, b) ==
    /\ m2 \in Seq(Descs) /\ Len(m2) = Len(m)
    /\ m2[t + LNKFLD] = D(b, {}, s)
    /\ l # 0 => m2[l + LNKFLD] = D(t, m[l + LNKFLD].f, m[l + LNKFLD].v)
    /\ \A a \in 1 .. Len(m) : a # t + LNKFLD /\ (l = 0 \/ a # l + LNKFLD) => m2[a] = m[a]

LEMMA Readdressed ==
  ASSUME NEW d \in Descs, NEW a
  PROVE  [d EXCEPT !.a = a] = D(a, d.f, d.v)
BY DEF Descs, D

IsEntered(G, m, t, s, l, b, E) ==
    /\ LinkedIn(m, E.mem, t, s, l, b) /\ E \in Heaps
    /\ E.bin = IF l = 0 THEN t ELSE G.bin
    /\ E.fault = G.fault /\ E.root = [G.root EXCEPT !.XPTR = Ptr(t)]

LEMMA EnteredLinks ==
  ASSUME NEW G \in Heaps, NEW m \in Seq(Descs), NEW t \in Nat, NEW s \in Nat, NEW l \in Nat, NEW b \in Nat,
         G.root.LSTPTR = Ptr(l), G.root.BUKPTR = Ptr(b),
         t + LNKFLD \in 1 .. Len(m), l # 0 => l + LNKFLD \in 1 .. Len(m), l # t,
         NEW E, E = Entered([G EXCEPT !.mem = m], t, s)
  PROVE  IsEntered(G, m, t, s, l, b, E)
<1> DEFINE C == [G EXCEPT !.mem = m]
           linked == [m EXCEPT ![t + LNKFLD] = D(b, {}, s)]
           m2 == IF l = 0 THEN linked ELSE [linked EXCEPT ![l + LNKFLD].a = t]
           bin == IF l = 0 THEN t ELSE G.bin
           root == [G.root EXCEPT !.XPTR = Ptr(t)]
<1>1. /\ Ptr(l).a = l /\ Ptr(b).a = b /\ Ptr(t) \in Descs /\ D(b, {}, s) \in Descs
  BY PlainDescs
<1>2. C.mem = m /\ C.bin = G.bin /\ C.root = G.root /\ C.fault = G.fault
      /\ C.root.LSTPTR.a = l /\ C.root.BUKPTR.a = b
  BY <1>1 DEF Heaps
<1>3. C = [mem |-> m, bin |-> G.bin, root |-> G.root, fault |-> G.fault]
  BY DEF Heaps
<1> HIDE DEF C
<1>4. E = [mem |-> m2, bin |-> bin, root |-> root, fault |-> G.fault]
  <2>1. E = [C EXCEPT !.bin = IF C.root.LSTPTR.a = 0 THEN t ELSE C.bin,
                      !.root.XPTR = Ptr(t),
                      !.mem = IF C.root.LSTPTR.a = 0
                              THEN [C.mem EXCEPT ![t + LNKFLD] = D(C.root.BUKPTR.a, {}, s)]
                              ELSE [[C.mem EXCEPT ![t + LNKFLD] = D(C.root.BUKPTR.a, {}, s)]
                                      EXCEPT ![C.root.LSTPTR.a + LNKFLD].a = t]]
    BY DEF Entered, C
  <2>2. E = [C EXCEPT !.bin = bin, !.root = root, !.mem = m2]
    BY <1>2, <2>1
  <2> HIDE DEF bin, root, m2
  <2> QED BY <1>3, <2>2
<1> HIDE DEF m2
<1>5. E.mem = m2 /\ E.bin = bin /\ E.root = root /\ E.fault = G.fault
  BY <1>4
<1>6. /\ linked \in Seq(Descs) /\ Len(linked) = Len(m)
      /\ \A a \in 1 .. Len(m) : linked[a] = IF a = t + LNKFLD THEN D(b, {}, s) ELSE m[a]
  BY <1>1, ExceptSeq
<1> HIDE DEF linked
<1>7. ASSUME l = 0 PROVE LinkedIn(m, m2, t, s, l, b)
  <2>1. m2 = linked
    BY <1>7 DEF m2
  <2>2. LinkedIn(m, linked, t, s, l, b)
    BY <1>6, <1>7 DEF LinkedIn
  <2> QED BY <2>1, <2>2
<1>8. ASSUME l # 0 PROVE LinkedIn(m, m2, t, s, l, b)
  <2> DEFINE d == linked[l + LNKFLD]
             e == D(t, d.f, d.v)
  <2>1. l + LNKFLD \in 1 .. Len(m) /\ l + LNKFLD # t + LNKFLD
    BY <1>8 DEF LNKFLD
  <2>2. d = m[l + LNKFLD] /\ d \in Descs
    BY <1>6, <2>1, ElementOfSeq
  <2>3. e \in Descs
    <3> HIDE DEF d
    <3>1. d.f \in SUBSET Flags /\ d.v \in Nat
      BY <2>2 DEF Descs
    <3> QED BY <3>1, PlainDescs
  <2>4. [d EXCEPT !.a = t] = e
    <3> HIDE DEF d
    <3> QED BY <2>2, Readdressed
  <2>5. m2 = [linked EXCEPT ![l + LNKFLD] = e]
    BY <1>8, <2>4 DEF m2
  <2> HIDE DEF e
  <2>6. /\ m2 \in Seq(Descs) /\ Len(m2) = Len(m)
        /\ \A a \in 1 .. Len(m) : m2[a] = IF a = l + LNKFLD THEN e ELSE linked[a]
    BY <1>6, <2>1, <2>3, <2>5, ExceptSeq
  <2>7. m2[t + LNKFLD] = D(b, {}, s)
    BY <1>6, <2>1, <2>6
  <2>8. m2[l + LNKFLD] = D(t, m[l + LNKFLD].f, m[l + LNKFLD].v)
    BY <2>1, <2>2, <2>6 DEF e
  <2>9. \A a \in 1 .. Len(m) : a # t + LNKFLD /\ a # l + LNKFLD => m2[a] = m[a]
    BY <1>6, <2>6
  <2> HIDE DEF d
  <2> QED BY <1>8, <2>6, <2>7, <2>8, <2>9 DEF LinkedIn
<1>9. E \in Heaps
  <2>1. root \in [Roots -> Descs] /\ bin \in Nat /\ G.fault \in BOOLEAN
    BY <1>1 DEF Heaps
  <2>2. m2 \in Seq(Descs)
    BY <1>5, <1>7, <1>8 DEF LinkedIn
  <2> HIDE DEF root, bin
  <2>3. [mem |-> m2, bin |-> bin, root |-> root, fault |-> G.fault] \in Heaps
    BY <2>1, <2>2 DEF Heaps
  <2> QED BY <1>4, <2>3
<1> QED BY <1>5, <1>7, <1>8, <1>9 DEF IsEntered

Renumbered(E, S, ord, n, t, l, new) ==
    /\ Linked(E, S \cup {t}, new, 2 * n + 1) /\ new[t] = 2 * ord[l] + 1
    /\ \A a \in {0} \cup S : new[a] = 2 * ord[a]

LEMMA EnteredChain ==
  ASSUME NEW G, NEW E, NEW S, NEW ord, NEW n, Linked(G, S, ord, n),
         NEW t, t \notin {0} \cup S, NEW l \in {0} \cup S,
         LinkOf(E, l) = t, LinkOf(E, t) = LinkOf(G, l),
         \A a \in ({0} \cup S) \ {l} : LinkOf(E, a) = LinkOf(G, a)
  PROVE  \E new : Renumbered(E, S, ord, n, t, l, new)
<1> DEFINE Z == S \cup {t}
           new == [a \in {0} \cup Z |-> IF a = t THEN 2 * ord[l] + 1 ELSE 2 * ord[a]]
<1>1. /\ 0 \notin S /\ n \in Nat /\ ord[0] = 0
      /\ \A a \in {0} \cup S : ord[a] \in Nat /\ ord[a] <= n
      /\ \A s \in S : ord[s] > 0 /\ \A u \in S : ord[s] = ord[u] => s = u
      /\ \A a \in {0} \cup S : NextIs(S, ord, a, LinkOf(G, a))
  BY DEF Linked
<1>2. ord[l] \in Nat /\ ord[l] <= n
  BY <1>1
<1>3. /\ new[t] = 2 * ord[l] + 1
      /\ \A a \in {0} \cup S : new[a] = 2 * ord[a]
  OBVIOUS
<1>4. new \in [{0} \cup Z -> 0 .. 2 * n + 1]
  <2>1. 2 * ord[l] + 1 \in 0 .. 2 * n + 1
    BY <1>1, <1>2
  <2>2. ASSUME NEW a \in {0} \cup S PROVE 2 * ord[a] \in 0 .. 2 * n + 1
    <3>1. ord[a] \in Nat /\ ord[a] <= n /\ n \in Nat
      BY <1>1
    <3> QED BY <3>1
  <2> QED BY <2>1, <2>2
<1> HIDE DEF new
<1>5. \A a \in {0} \cup S : ord[a] = ord[l] => a = l
  BY <1>1
<1>6. ASSUME NEW a \in {0} \cup Z PROVE NextIs(Z, new, a, LinkOf(E, a))
  <2>1. CASE a = l
    <3>1. LinkOf(E, a) = t /\ t \in Z /\ new[t] > new[a]
      BY <1>2, <1>3, <2>1
    <3>2. ASSUME NEW s \in Z, new[s] > new[a] PROVE new[s] >= new[t]
      <4>1. CASE s = t
        BY <1>2, <1>3, <4>1
      <4>2. CASE s \in S
        <5>1. ord[s] \in Nat /\ new[s] = 2 * ord[s] /\ new[a] = 2 * ord[l] /\ new[t] = 2 * ord[l] + 1
          BY <1>1, <1>3, <2>1, <4>2
        <5> QED BY <1>2, <3>2, <5>1
      <4> QED BY <4>1, <4>2
    <3> QED BY <3>1, <3>2 DEF NextIs
  <2>2. CASE a = t
    <3> DEFINE b == LinkOf(G, l)
    <3>1. LinkOf(E, a) = b /\ NextIs(S, ord, l, b)
      BY <1>1, <2>2
    <3> HIDE DEF b
    <3>2. CASE b = 0
      <4>1. ASSUME NEW s \in Z PROVE new[s] <= new[a]
        <5>1. CASE s = t
          BY <1>2, <1>3, <2>2, <5>1
        <5>2. CASE s \in S
          <6>1. ord[s] <= ord[l] /\ ord[s] \in Nat
            BY <1>1, <3>1, <3>2, <5>2 DEF NextIs
          <6>2. new[s] = 2 * ord[s] /\ new[a] = 2 * ord[l] + 1
            BY <1>3, <2>2, <5>2
          <6> QED BY <1>2, <6>1, <6>2
        <5> QED BY <5>1, <5>2
      <4> QED BY <3>1, <3>2, <4>1 DEF NextIs
    <3>3. CASE b # 0
      <4>1. b \in S /\ ord[b] > ord[l] /\ \A s \in S : ord[s] > ord[l] => ord[s] >= ord[b]
        BY <3>1, <3>3 DEF NextIs
      <4>2. ord[b] \in Nat /\ new[b] = 2 * ord[b] /\ new[a] = 2 * ord[l] + 1
        BY <1>1, <1>3, <2>2, <4>1
      <4>3. new[b] > new[a]
        BY <1>2, <4>1, <4>2
      <4>4. ASSUME NEW s \in Z, new[s] > new[a] PROVE new[s] >= new[b]
        <5>1. s \in S
          BY <2>2, <1>2, <1>3, <4>4
        <5>2. ord[s] \in Nat /\ new[s] = 2 * ord[s]
          BY <1>1, <1>3, <5>1
        <5>3. ord[s] > ord[l]
          BY <1>2, <4>2, <4>4, <5>2
        <5>4. ord[s] >= ord[b]
          BY <4>1, <5>1, <5>3
        <5> QED BY <4>2, <5>2, <5>4
      <4> QED BY <3>1, <4>1, <4>3, <4>4 DEF NextIs
    <3> QED BY <3>2, <3>3
  <2>3. CASE a # l /\ a # t
    <3> DEFINE b == LinkOf(G, a)
    <3>1. a \in {0} \cup S /\ LinkOf(E, a) = b /\ NextIs(S, ord, a, b)
      BY <1>1, <2>3
    <3> HIDE DEF b
    <3>2. ord[a] \in Nat /\ new[a] = 2 * ord[a] /\ ord[a] # ord[l]
      BY <1>1, <1>3, <1>5, <2>3, <3>1
    <3>3. ASSUME NEW s \in S PROVE ord[s] \in Nat /\ new[s] = 2 * ord[s]
      BY <1>1, <1>3
    <3>4. CASE b = 0
      <4>1. \A s \in S : ord[s] <= ord[a]
        BY <1>1, <3>1, <3>4 DEF NextIs
      <4>2. ord[l] < ord[a]
        <5>1. CASE l \in S
          BY <1>2, <3>2, <4>1, <5>1
        <5>2. CASE l = 0
          <6>1. a \in S
            BY <2>3, <3>1, <5>2
          <6> QED BY <1>1, <5>2, <6>1
        <5> QED BY <5>1, <5>2
      <4>3. ASSUME NEW s \in Z PROVE new[s] <= new[a]
        <5>1. CASE s = t
          BY <1>2, <1>3, <3>2, <4>2, <5>1
        <5>2. CASE s \in S
          BY <3>2, <3>3, <4>1, <5>2
        <5> QED BY <5>1, <5>2
      <4> QED BY <3>1, <3>4, <4>3 DEF NextIs
    <3>5. CASE b # 0
      <4>1. b \in S /\ ord[b] > ord[a] /\ \A s \in S : ord[s] > ord[a] => ord[s] >= ord[b]
        BY <3>1, <3>5 DEF NextIs
      <4>2. ord[b] \in Nat /\ new[b] = 2 * ord[b]
        BY <3>3, <4>1
      <4>3. new[b] > new[a]
        BY <3>2, <4>1, <4>2
      <4>4. ASSUME NEW s \in Z, new[s] > new[a] PROVE new[s] >= new[b]
        <5>1. CASE s \in S
          <6>1. ord[s] > ord[a]
            BY <3>2, <3>3, <4>4, <5>1
          <6>2. ord[s] >= ord[b]
            BY <4>1, <5>1, <6>1
          <6> QED BY <3>3, <4>2, <5>1, <6>2
        <5>2. CASE s = t
          <6>1. ord[l] > ord[a]
            BY <1>2, <1>3, <3>2, <4>4, <5>2
          <6>2. l \in S
            <7>1. l # 0
              BY <1>1, <3>2, <6>1
            <7> QED BY <7>1
          <6>3. ord[l] >= ord[b]
            BY <4>1, <6>1, <6>2
          <6> QED BY <1>2, <1>3, <4>2, <5>2, <6>3
        <5> QED BY <5>1, <5>2
      <4> QED BY <3>1, <4>1, <4>3, <4>4 DEF NextIs
    <3> QED BY <3>4, <3>5
  <2> QED BY <2>1, <2>2, <2>3
<1>7. ASSUME NEW s \in Z PROVE new[s] > 0
  <2>1. CASE s = t
    BY <1>2, <1>3, <2>1
  <2>2. CASE s \in S
    <3>1. ord[s] \in Nat /\ ord[s] > 0 /\ new[s] = 2 * ord[s]
      BY <1>1, <1>3, <2>2
    <3> QED BY <3>1
  <2> QED BY <2>1, <2>2
<1>8. ASSUME NEW s \in Z, NEW u \in Z, new[s] = new[u] PROVE s = u
  <2>1. \A v \in S : ord[v] \in Nat /\ new[v] = 2 * ord[v] /\ new[v] # 2 * ord[l] + 1
    <3>1. ASSUME NEW v \in S PROVE ord[v] \in Nat /\ new[v] = 2 * ord[v] /\ new[v] # 2 * ord[l] + 1
      <4>1. ord[v] \in Nat /\ new[v] = 2 * ord[v]
        BY <1>1, <1>3
      <4> QED BY <1>2, <4>1
    <3> QED BY <3>1
  <2>2. CASE s \in S /\ u \in S
    <3>1. ord[s] = ord[u]
      BY <1>8, <2>1, <2>2
    <3> QED BY <1>1, <2>2, <3>1
  <2>3. CASE s = t \/ u = t
    BY <1>3, <1>8, <2>1, <2>3
  <2> QED BY <2>2, <2>3
<1>9. 2 * n + 1 \in Nat /\ 0 \notin Z /\ new[0] = 0
  BY <1>1, <1>3
<1>10. Linked(E, Z, new, 2 * n + 1)
  <2> HIDE DEF Z
  <2> QED BY <1>4, <1>6, <1>7, <1>8, <1>9 DEF Linked
<1> QED BY <1>3, <1>10 DEF Renumbered

LEMMA EnteredFiled ==
  ASSUME NEW G, NEW E, NEW S, NEW ord, NEW n, Linked(G, S, ord, n), Filed(G, S, ord),
         NEW t, t \notin {0} \cup S, NEW l \in {0} \cup S, NEW s \in Nat, NEW new,
         new[t] = 2 * ord[l] + 1, \A a \in {0} \cup S : new[a] = 2 * ord[a],
         \A a \in S : Text(E, a) = Text(G, a) /\ Key(E, a) = Key(G, a) /\ Key(G, a) \in Nat,
         Text(E, t) = s, Key(E, t) = s,
         l # 0 => Key(G, l) < s, LinkOf(G, l) # 0 => Key(G, LinkOf(G, l)) > s
  PROVE  Filed(E, S \cup {t}, new)
<1>1. /\ 0 \notin S /\ ord[0] = 0 /\ \A a \in {0} \cup S : ord[a] \in Nat
      /\ \A a \in S : ord[a] > 0 /\ \A u \in S : ord[a] = ord[u] => a = u
      /\ NextIs(S, ord, l, LinkOf(G, l))
  BY DEF Linked
<1>2. /\ \A a \in S : Text(G, a) = Key(G, a)
      /\ \A a, u \in S : ord[a] < ord[u] => Key(G, a) < Key(G, u)
  BY DEF Filed
<1>3. \A a \in S \cup {t} : Text(E, a) = Key(E, a)
  BY <1>2
<1>4. ASSUME NEW a \in S \cup {t}, NEW u \in S \cup {t}, new[a] < new[u]
      PROVE  Key(E, a) < Key(E, u)
  <2>1. ord[l] \in Nat
    BY <1>1
  <2>2. CASE a \in S /\ u \in S
    <3>1. ord[a] \in Nat /\ ord[u] \in Nat /\ new[a] = 2 * ord[a] /\ new[u] = 2 * ord[u]
      BY <1>1, <2>2
    <3>2. ord[a] < ord[u]
      BY <1>4, <3>1
    <3> QED BY <1>2, <2>2, <3>2
  <2>3. CASE a = t /\ u \in S
    <3>1. ord[u] \in Nat /\ new[u] = 2 * ord[u] /\ new[a] = 2 * ord[l] + 1
      BY <1>1, <2>3
    <3>2. ord[u] > ord[l]
      BY <1>4, <2>1, <3>1
    <3> DEFINE b == LinkOf(G, l)
    <3>3. b \in S /\ ord[u] >= ord[b]
      <4>1. ~(ord[u] <= ord[l])
        BY <2>1, <3>1, <3>2
      <4> QED BY <1>1, <2>3, <3>2, <4>1 DEF NextIs
    <3>4. b # 0 /\ Key(G, b) > s
      BY <1>1, <3>3
    <3> HIDE DEF b
    <3>5. Key(G, u) >= Key(G, b)
      <4>1. ord[b] \in Nat /\ Key(G, b) \in Nat /\ Key(G, u) \in Nat
        BY <1>1, <2>3, <3>3
      <4>2. u = b \/ ord[b] < ord[u]
        BY <1>1, <2>3, <3>1, <3>3, <4>1
      <4> QED BY <1>2, <2>3, <3>3, <4>1, <4>2
    <3>6. Key(G, b) \in Nat /\ Key(G, u) \in Nat /\ Key(E, a) = s /\ Key(E, u) = Key(G, u)
      BY <2>3, <3>3
    <3> QED BY <3>4, <3>5, <3>6
  <2>4. CASE a \in S /\ u = t
    <3>1. ord[a] \in Nat /\ ord[a] > 0 /\ new[a] = 2 * ord[a] /\ new[u] = 2 * ord[l] + 1
      BY <1>1, <2>4
    <3>2. ord[a] <= ord[l]
      BY <1>4, <2>1, <3>1
    <3>3. l # 0 /\ l \in S
      <4>1. l # 0
        BY <1>1, <3>1, <3>2
      <4> QED BY <4>1
    <3>4. Key(G, l) < s /\ Key(G, l) \in Nat /\ Key(G, a) \in Nat /\ Key(E, a) = Key(G, a) /\ Key(E, u) = s
      BY <2>4, <3>3
    <3>5. a = l \/ ord[a] < ord[l]
      BY <1>1, <2>1, <2>4, <3>1, <3>2, <3>3
    <3>6. a = l \/ Key(G, a) < Key(G, l)
      BY <1>2, <2>4, <3>3, <3>5
    <3> QED BY <3>4, <3>6
  <2>5. CASE a = t /\ u = t
    BY <1>4, <2>1, <2>5
  <2> QED BY <2>2, <2>3, <2>4, <2>5
<1> QED BY <1>3, <1>4 DEF Filed

(* Blocks stay where they are, and there may be more.                      *)
Grows(G, E) ==
    /\ Titles(G) \subseteq Titles(E) /\ \A t \in Titles(G) : E.mem[t] = G.mem[t]
    /\ Len(G.mem) <= Len(E.mem)

HasString(G, E, s, t) ==
    /\ Sound(E) /\ FRSGPT(E) = FRSGPT(G) + Size(s) /\ E.fault = G.fault
    /\ E.root = [G.root EXCEPT !.XPTR = Ptr(t)] /\ t \in Strings(E) /\ Grows(G, E)

LEMMA EnteredSound ==
  ASSUME NEW G, Sound(G), NEW l, NEW s \in Nat, Gap(G, l, s),
         NEW text \in Nat, Size(text) = Size(s), DOMAIN Raised = {} => text = s,
         NEW value \in Descs, NEW label \in Descs,
         Refers(G.mem, Titles(G), value), Refers(G.mem, Titles(G), label),
         NEW t, t = Len(G.mem) + 1, NEW E,
         E = Entered([G EXCEPT !.mem = G.mem \o Structure(t, text, value, label)], t, s)
  PROVE  HasString(G, E, s, t)
<1> DEFINE X == Titles(G)
           S == Strings(G)
           st == Structure(t, text, value, label)
           m == G.mem \o st
           Z == X \cup {t}
           b == LinkOf(G, l)
           N == Len(G.mem)
           k == Size(s)
<1>1. /\ G \in Heaps /\ G.mem \in Seq(Descs) /\ N \in Nat /\ S = StringsIn(G.mem, X)
      /\ Chain(G, S) /\ S \subseteq X /\ FRSGPT(G) = N + 1
      /\ \A a \in S : BKSIZE(G.mem[a]) = Size(Text(G, a))
      /\ \A u \in X : u \in 1 .. N /\ u \in Nat /\ G.mem[u] \in Descs
  <2>1. G \in Heaps /\ G.mem \in Seq(Descs)
    BY SoundFacts
  <2>2. N \in Nat /\ FRSGPT(G) = N + 1
    BY <2>1, HeapType
  <2>3. \A u \in X : u \in 1 .. N /\ u \in Nat /\ G.mem[u] \in Descs
    BY BlockType
  <2> QED BY <2>1, <2>2, <2>3, SoundFacts
<1>2. IsStructure(st, t, text, value, label)
  <2>1. t \in Nat
    BY <1>1
  <2> HIDE DEF N
  <2> QED BY ONLY <2>1, text \in Nat, value \in Descs, label \in Descs, StructureIs DEF st
<1>3. AddedTo(G, st)
  BY StructureAdded
<1>4. k \in Nat /\ k > TEXT /\ Len(st) = k
  BY <1>2 DEF IsStructure
<1> HIDE DEF st
<1>5. /\ t \in Nat /\ t >= 1 /\ m \in Seq(Descs) /\ Len(m) = N + k
      /\ \A a \in 1 .. N : m[a] = G.mem[a]
      /\ \A i \in 0 .. k - 1 : m[t + i] = st[1 + i]
      /\ m[t] = st[1] /\ BKSIZE(m[t]) = k /\ Fields(m, t) = Fields(st, 1)
      /\ Tiling(m, Z) /\ Titled(m, Z) /\ FieldsRight(m, Z)
      /\ \A d : Refers(G.mem, X, d) => Refers(m, Z, d)
  <2>1. IsAdded(G, st, m, t)
    BY <1>3, Added
  <2> HIDE DEF m, Z
  <2> QED BY <1>4, <2>1 DEF IsAdded, Z
<1>6. StringsIn(m, Z) = S \cup {t}
  <2>1. StringsIn(m, Z) = S \cup (IF "STTL" \in st[1].f THEN {t} ELSE {})
    <3>1. IsAdded(G, st, m, t)
      BY <1>3, Added
    <3> HIDE DEF m
    <3> QED BY <3>1 DEF IsAdded
  <2> QED BY <1>2, <2>1 DEF IsStructure
<1>7. /\ m[t].f = {"TTL", "STTL"} /\ Fields(m, t) = 1 .. ATTRIB /\ m[t + TEXT] = Char(text)
      /\ t + LNKFLD \in 1 .. Len(m) /\ t + TEXT \in 1 .. Len(m) /\ t = N + 1
  <2>1. m[t].f = {"TTL", "STTL"} /\ Fields(m, t) = 1 .. ATTRIB
    BY <1>2, <1>5 DEF IsStructure
  <2>2. TEXT \in 0 .. k - 1 /\ 1 + TEXT \in 5 .. k
    BY <1>4 DEF TEXT
  <2>3. m[t + TEXT] = Char(text)
    BY <1>2, <1>5, <2>2 DEF IsStructure
  <2>4. t + LNKFLD \in 1 .. N + k /\ t + TEXT \in 1 .. N + k /\ t = N + 1
    BY <1>1, <1>4, <1>5 DEF TEXT, LNKFLD
  <2> QED BY <1>5, <2>1, <2>3, <2>4
<1>8. /\ l \in {0} \cup S /\ G.root.LSTPTR = Ptr(l) /\ G.root.BUKPTR = Ptr(b)
  BY DEF Gap
<1> HIDE DEF m
<1>9. ASSUME NEW u \in S
      PROVE  /\ u \in X /\ u \in Z /\ u \in Nat /\ u >= 1 /\ u # t /\ m[u] = G.mem[u]
             /\ BKSIZE(m[u]) = BKSIZE(G.mem[u]) /\ BKSIZE(m[u]) > TEXT /\ BKSIZE(m[u]) \in Nat
             /\ Fields(m, u) = 1 .. ATTRIB
             /\ m[u + TEXT] = G.mem[u + TEXT] /\ m[u + LNKFLD] = G.mem[u + LNKFLD]
             /\ u + LNKFLD \in 1 .. N /\ u + TEXT \in 1 .. N
             /\ G.mem[u + LNKFLD] \in Descs /\ G.mem[u + TEXT] \in Descs
  <2>1. /\ u \in Nat /\ u >= 1 /\ u \in X /\ BKSIZE(G.mem[u]) \in Nat /\ BKSIZE(G.mem[u]) > TEXT
        /\ \A i \in 0 .. TEXT : u + i \in 1 .. N /\ G.mem[u + i] \in Descs
        /\ Fields(G.mem, u) = 1 .. ATTRIB
    BY StringShape
  <2>2. LNKFLD \in 0 .. TEXT /\ TEXT \in 0 .. TEXT
    BY DEF LNKFLD, TEXT
  <2>3. u \in 1 .. N
    BY <1>1, <2>1
  <2>4. m[u] = G.mem[u] /\ u # t
    BY <1>1, <1>5, <1>7, <2>3
  <2>5. Fields(m, u) = 1 .. ATTRIB
    BY <2>1, <2>4 DEF Fields
  <2> QED BY <1>5, <2>1, <2>2, <2>4, <2>5
<1>10. b \in Nat /\ l \in Nat /\ l # t /\ (l # 0 => l + LNKFLD \in 1 .. Len(m))
  <2>1. l \in Nat /\ l # t /\ (l # 0 => l + LNKFLD \in 1 .. N)
    BY <1>5, <1>8, <1>9
  <2>2. b \in Nat
    <3>1. G.bin \in Nat
      BY <1>1 DEF Heaps
    <3>2. l \in S => G.mem[l + LNKFLD].a \in Nat
      BY <1>9, DescType
    <3> QED BY <1>8, <3>1, <3>2 DEF LinkOf
  <2>3. ASSUME NEW a \in 1 .. N PROVE a \in 1 .. Len(m)
    BY <1>1, <1>4, <1>5
  <2> QED BY <2>1, <2>2, <2>3
<1> HIDE DEF b
<1>11. /\ LinkedIn(m, E.mem, t, s, l, b) /\ E \in Heaps
       /\ E.bin = IF l = 0 THEN t ELSE G.bin
       /\ E.fault = G.fault /\ E.root = [G.root EXCEPT !.XPTR = Ptr(t)]
  <2>1. E = Entered([G EXCEPT !.mem = m], t, s)
    BY DEF m, st
  <2>2. IsEntered(G, m, t, s, l, b, E)
    BY <1>1, <1>5, <1>7, <1>8, <1>10, <2>1, EnteredLinks
  <2> QED BY <2>2 DEF IsEntered
<1>12. \A u \in Z : BKSIZE(m[u]) \in Nat /\ u \in Nat
  BY <1>5, TilingType
(* Only the two links change.                                              *)
<1>13. ASSUME NEW u \in Z, NEW i \in 0 .. BKSIZE(m[u]) - 1, ~(u = t /\ i = LNKFLD),
              ~(l # 0 /\ u = l /\ i = LNKFLD)
       PROVE  E.mem[u + i] = m[u + i] /\ u + i \in 1 .. Len(m)
  <2>1. LNKFLD \in 0 .. BKSIZE(m[t]) - 1
    BY <1>4, <1>5 DEF LNKFLD, TEXT
  <2>2. l # 0 => LNKFLD \in 0 .. BKSIZE(m[l]) - 1 /\ l \in Z
    <3>1. l # 0 => BKSIZE(m[l]) \in Nat /\ BKSIZE(m[l]) > TEXT /\ l \in Z
      BY <1>8, <1>9
    <3> QED BY <3>1 DEF LNKFLD, TEXT
  <2>3. u + i # t + LNKFLD
    <3>1. t \in Z
      OBVIOUS
    <3> HIDE DEF Z
    <3> QED BY <1>5, <1>13, <2>1, <3>1, Apart
  <2>4. l # 0 => u + i # l + LNKFLD
    <3> HIDE DEF Z
    <3> QED BY <1>5, <1>13, <2>2, Apart
  <2>5. u + i \in 1 .. Len(m)
    <3>1. /\ u \in Nat /\ u >= 1 /\ BKSIZE(m[u]) \in Nat /\ Behind(m, u) = u + BKSIZE(m[u])
          /\ Behind(m, u) <= Len(m) + 1 /\ Len(m) \in Nat
      BY <1>5, TilingType
    <3> QED BY <3>1
  <2> QED BY <1>11, <2>3, <2>4, <2>5 DEF LinkedIn
<1>14. ASSUME NEW u \in Z PROVE E.mem[u] = m[u]
  <2>1. BKSIZE(m[u]) \in Nat /\ BKSIZE(m[u]) >= 1 /\ u \in Nat
    BY <1>5, TilingType
  <2>2. 0 \in 0 .. BKSIZE(m[u]) - 1 /\ u + 0 = u /\ 0 # LNKFLD
    BY <2>1 DEF LNKFLD
  <2> QED BY <1>13, <2>2
<1>15. ShapeKept(m, E.mem, Z)
  <2>1. ASSUME NEW u \in Z, NEW i \in 1 .. BKSIZE(m[u]) - 1
        PROVE  /\ i \in Fields(m, u) => E.mem[u + i] = m[u + i]
               /\ E.mem[u + i] = m[u + i] \/ E.mem[u + i].f = {} \/ E.mem[u + i].f = m[u + i].f
    <3>1. i \in 0 .. BKSIZE(m[u]) - 1
      BY <1>12
    <3>2. CASE u = t /\ i = LNKFLD
      <4>1. E.mem[t + LNKFLD].f = {}
        BY <1>11 DEF LinkedIn, D
      <4>2. i \notin Fields(m, u)
        BY <1>7, <3>2 DEF LNKFLD, ATTRIB
      <4> QED BY <3>2, <4>1, <4>2
    <3>3. CASE l # 0 /\ u = l /\ i = LNKFLD
      <4>1. E.mem[u + i].f = m[u + i].f
        BY <1>11, <3>3 DEF LinkedIn, D
      <4>2. i \notin Fields(m, u)
        BY <1>8, <1>9, <3>3 DEF LNKFLD, ATTRIB
      <4> QED BY <4>1, <4>2
    <3>4. CASE ~(u = t /\ i = LNKFLD) /\ ~(l # 0 /\ u = l /\ i = LNKFLD)
      BY <1>13, <3>1, <3>4
    <3> QED BY <3>2, <3>3, <3>4
  <2>2. ASSUME NEW u \in Z, NEW i \in Fields(m, u) PROVE i \in 1 .. BKSIZE(m[u]) - 1
    <3>1. m[u] \in Descs /\ BKSIZE(m[u]) \in Nat
      BY <1>5, TilingType
    <3>2. CASE "STTL" \in m[u].f
      <4>1. BKSIZE(m[u]) >= TEXT /\ i \in 1 .. ATTRIB
        BY <3>1, <3>2, DescType DEF Fields
      <4> QED BY <3>1, <4>1 DEF TEXT, ATTRIB
    <3>3. CASE "STTL" \notin m[u].f
      <4>1. i \in 1 .. m[u].v /\ BKSIZE(m[u]) = m[u].v + 1
        BY <3>3 DEF Fields, BKSIZE
      <4>2. m[u].v \in Nat
        BY <3>1, DescType
      <4> QED BY <4>1, <4>2
    <3> QED BY <3>2, <3>3
  <2>3. ASSUME NEW u \in Z, NEW i \in Fields(m, u) PROVE Refers(m, Z, E.mem[u + i])
    <3>1. E.mem[u + i] = m[u + i]
      BY <2>1, <2>2
    <3> QED BY <1>5, <3>1 DEF FieldsRight
  <2>4. ASSUME NEW u \in Z, NEW i \in (1 .. BKSIZE(m[u]) - 1) \ Fields(m, u), "TTL" \in E.mem[u + i].f
        PROVE  IsText(m, u, i) /\ "TTL" \in CharFlags
    <3>1. "TTL" \in m[u + i].f
      BY <2>1, <2>4
    <3> QED BY <1>5, <3>1 DEF Titled
  <2>5. E.mem \in Seq(Descs) /\ Len(E.mem) = Len(m)
    BY <1>11 DEF LinkedIn
  <2> HIDE DEF Z
  <2> QED BY <1>14, <2>3, <2>4, <2>5 DEF ShapeKept
<1>16. /\ Tiling(E.mem, Z) /\ Titled(E.mem, Z) /\ FieldsRight(E.mem, Z)
       /\ \A d : Refers(m, Z, d) => Refers(E.mem, Z, d)
       /\ StringsIn(E.mem, Z) = S \cup {t}
  <2> HIDE DEF Z
  <2> QED BY <1>5, <1>6, <1>15, Reshaped
<1>17. ASSUME NEW u \in S \cup {t}
       PROVE  /\ E.mem[u + TEXT] = m[u + TEXT]
              /\ u # l /\ u # t => E.mem[u + LNKFLD] = m[u + LNKFLD]
  <2>1. u \in Z /\ BKSIZE(m[u]) \in Nat /\ BKSIZE(m[u]) > TEXT
    BY <1>4, <1>5, <1>9
  <2>2. TEXT \in 0 .. BKSIZE(m[u]) - 1 /\ LNKFLD \in 0 .. BKSIZE(m[u]) - 1 /\ TEXT # LNKFLD
    BY <2>1 DEF TEXT, LNKFLD
  <2> QED BY <1>13, <2>1, <2>2
<1> HIDE DEF Z
<1>18. /\ \A u \in S : /\ Text(E, u) = Text(G, u) /\ Key(E, u) = Key(G, u) /\ Key(G, u) \in Nat
                       /\ u # l => LinkOf(E, u) = LinkOf(G, u)
       /\ Text(E, t) = text /\ Key(E, t) = s /\ LinkOf(E, t) = b /\ LinkOf(E, l) = t
  <2>1. Text(E, t) = text
    <3>1. Char(text).v = text
      BY PlainDescs
    <3> QED BY <1>7, <1>17, <3>1 DEF Text
  <2>2. Key(E, t) = s /\ LinkOf(E, t) = b
    <3>1. E.mem[t + LNKFLD] = D(b, {}, s) /\ t # 0
      BY <1>5, <1>11 DEF LinkedIn
    <3> QED BY <3>1 DEF Key, LinkOf, D
  <2>3. LinkOf(E, l) = t
    <3>1. CASE l = 0
      BY <1>11, <3>1 DEF LinkOf
    <3>2. CASE l # 0
      BY <1>11, <3>2 DEF LinkOf, LinkedIn, D
    <3> QED BY <3>1, <3>2
  <2>4. ASSUME NEW u \in S
        PROVE  /\ Text(E, u) = Text(G, u) /\ Key(E, u) = Key(G, u) /\ Key(G, u) \in Nat
               /\ u # l => LinkOf(E, u) = LinkOf(G, u)
    <3>1. /\ u # t /\ u # 0 /\ m[u + TEXT] = G.mem[u + TEXT] /\ m[u + LNKFLD] = G.mem[u + LNKFLD]
          /\ G.mem[u + LNKFLD] \in Descs
      BY <1>9
    <3>2. Text(E, u) = Text(G, u)
      BY <1>17, <3>1 DEF Text
    <3>3. u # l => E.mem[u + LNKFLD] = G.mem[u + LNKFLD]
      BY <1>17, <3>1
    <3>4. u = l => E.mem[u + LNKFLD].v = G.mem[u + LNKFLD].v
      BY <1>11, <3>1 DEF LinkedIn, D
    <3>5. Key(E, u) = Key(G, u)
      BY <3>3, <3>4 DEF Key
    <3>6. Key(G, u) \in Nat
      BY <3>1, DescType DEF Key
    <3> QED BY <3>1, <3>2, <3>3, <3>5, <3>6 DEF LinkOf
  <2> QED BY <2>1, <2>2, <2>3, <2>4
<1>19. \A u \in S \cup {t} : BKSIZE(E.mem[u]) = Size(Text(E, u))
  <2>1. BKSIZE(E.mem[t]) = Size(Text(E, t))
    BY <1>5, <1>14, <1>18 DEF Z
  <2>2. ASSUME NEW u \in S PROVE BKSIZE(E.mem[u]) = Size(Text(E, u))
    <3>1. E.mem[u] = G.mem[u]
      BY <1>9, <1>14
    <3> QED BY <1>1, <1>18, <3>1
  <2> QED BY <2>1, <2>2
<1>20. RootsRight(E.mem, Z, E.root)
  <2>1. E.root = [G.root EXCEPT !.XPTR = Ptr(t)] /\ G.root \in [Roots -> Descs] /\ RootsRight(G.mem, X, G.root)
    BY <1>1, <1>11, SoundFacts DEF Heaps
  <2>2. Refers(E.mem, Z, Ptr(t))
    <3>1. t \in Z /\ Ptr(t).a = t /\ Ptr(t).f = {"PTR"}
      BY <1>5, PlainDescs DEF Z
    <3> QED BY <3>1 DEF Refers, InBlock
  <2>3. \A x \in Stack \cup {"XPTR"} : Refers(E.mem, Z, G.root[x])
    BY <1>5, <1>16, <2>1 DEF RootsRight
  <2>4. \A x \in Roots : E.root[x] = IF x = "XPTR" THEN Ptr(t) ELSE G.root[x]
    BY <2>1
  <2>5. E.root.OCBSCL = Ptr(1)
    <3>1. "OCBSCL" \in Roots /\ "OCBSCL" # "XPTR"
      BY DEF Roots, Own
    <3> QED BY <2>1, <2>4, <3>1 DEF RootsRight
  <2>6. \A x \in Stack \cup {"XPTR"} : x \in Roots
    BY DEF Roots
  <2> QED BY <2>2, <2>3, <2>4, <2>5, <2>6 DEF RootsRight
<1>21. Chain(E, S \cup {t})
  <2>1. PICK n \in Nat : \E ord : Linked(G, S, ord, n) /\ (DOMAIN Raised = {} => Filed(G, S, ord))
    BY <1>1 DEF Chain
  <2>2. PICK ord : Linked(G, S, ord, n) /\ (DOMAIN Raised = {} => Filed(G, S, ord))
    BY <2>1
  <2>3. t \notin {0} \cup S
    BY <1>5, <1>9
  <2>4. \A a \in ({0} \cup S) \ {l} : LinkOf(E, a) = LinkOf(G, a)
    <3>1. l # 0 => LinkOf(E, 0) = LinkOf(G, 0)
      BY <1>11 DEF LinkOf
    <3> QED BY <1>18, <3>1
  <2>5. b = LinkOf(G, l)
    BY DEF b
  <2> HIDE DEF S
  <2>9. PICK new : Renumbered(E, S, ord, n, t, l, new)
    <3>1. LinkOf(E, l) = t /\ LinkOf(E, t) = LinkOf(G, l) /\ l \in {0} \cup S
      BY <1>8, <1>18, <2>5
    <3> QED BY <2>2, <2>3, <2>4, <3>1, EnteredChain
  <2>6. /\ Linked(E, S \cup {t}, new, 2 * n + 1) /\ new[t] = 2 * ord[l] + 1
        /\ \A a \in {0} \cup S : new[a] = 2 * ord[a]
    BY <2>9 DEF Renumbered
  <2>7. ASSUME DOMAIN Raised = {} PROVE Filed(E, S \cup {t}, new)
    <3>1. /\ l # 0 => Key(G, l) < s
          /\ LinkOf(G, l) # 0 => Key(G, LinkOf(G, l)) > s
      BY <2>7 DEF Gap
    <3>2. Filed(G, S, ord) /\ Text(E, t) = s
      BY <1>18, <2>2, <2>7
    <3>3. l \in {0} \cup S /\ Key(E, t) = s
      BY <1>8, <1>18
    <3>4. \A a \in S : Text(E, a) = Text(G, a) /\ Key(E, a) = Key(G, a) /\ Key(G, a) \in Nat
      BY <1>18
    <3> QED BY ONLY s \in Nat, <2>2, <2>3, <2>6, <3>1, <3>2, <3>3, <3>4, EnteredFiled
  <2>8. 2 * n + 1 \in Nat
    OBVIOUS
  <2> QED BY <2>6, <2>7, <2>8 DEF Chain
<1>22. Sound(E) /\ Titles(E) = Z /\ Strings(E) = S \cup {t}
  <2>1. Shaped(E, Z)
    BY <1>16, <1>19, <1>20 DEF Shaped
  <2> QED BY <1>11, <1>16, <1>21, <2>1, SoundFrom
<1>23. FRSGPT(E) = FRSGPT(G) + Size(s) /\ Len(G.mem) <= Len(E.mem)
  <2>1. Len(E.mem) = N + k /\ FRSGPT(E) = Len(E.mem) + 1
    BY <1>5, <1>11 DEF LinkedIn, FRSGPT
  <2>2. FRSGPT(G) = N + 1 /\ N \in Nat /\ k \in Nat
    BY <1>1, <1>4
  <2> HIDE DEF N, k
  <2>3. N + k + 1 = (N + 1) + k /\ N <= N + k
    BY <2>2
  <2>4. FRSGPT(E) = FRSGPT(G) + k /\ N <= Len(E.mem)
    BY <2>1, <2>2, <2>3
  <2> QED BY <2>4 DEF N, k
<1>24. \A u \in X : E.mem[u] = G.mem[u]
  <2>1. \A u \in X : u \in Z /\ m[u] = G.mem[u]
    BY <1>1, <1>5 DEF Z
  <2> QED BY <1>14, <2>1
<1>25. Grows(G, E)
  BY <1>22, <1>23, <1>24 DEF Grows, Z
<1> QED BY <1>11, <1>22, <1>23, <1>25 DEF HasString

-----------------------------------------------------------------------------
(* A regeneration, as the operations see it.                               *)
Stale(H, x, d) == x = "SPECR1" /\ "TTL" \notin d.f /\ d.a > Len(H.mem)
OwnRight(H) ==
    \A x \in Own : IsPtr(H.root[x]) => Refers(H.mem, Titles(H), H.root[x]) \/ Stale(H, x, H.root[x])

(* A pointer to a string points to it still.                               *)
Keeps(H, G, x, p) ==
    H.root[x].a = p /\ IsPtr(H.root[x])
      => \E q \in Strings(G) : G.root[x].a = q /\ IsPtr(G.root[x]) /\ Text(G, q) = Text(H, p)

Carries(H, G) ==
    /\ Sound(G) /\ G.fault = H.fault /\ Len(G.mem) <= Len(H.mem)
    /\ \A x \in Roots : ~ IsPtr(H.root[x]) => G.root[x] = H.root[x]
    /\ \A x \in Roots : \A p \in Strings(H) : Keeps(H, G, x, p)
    /\ \A l, s : Gap(H, l, s) => \E k : Gap(G, k, s)
    /\ OwnRight(H) => OwnRight(G)

LEMMA SameCarries ==
  ASSUME NEW H, Sound(H)
  PROVE  Carries(H, H)
<1>1. Len(H.mem) <= Len(H.mem)
  <2>1. Len(H.mem) \in Nat
    BY SoundFacts, HeapType
  <2> QED BY <2>1
<1>2. \A x \in Roots : \A p \in Strings(H) : Keeps(H, H, x, p)
  BY DEF Keeps
<1> QED BY <1>1, <1>2 DEF Carries

(* A string that is pointed to stays.                                      *)
LEMMA MovedPointer ==
  ASSUME NEW H, NEW G, NEW K, Moves(H, G, K), NEW d \in Descs, Holds(H, K, d),
         NEW p \in Strings(H), d.a = p, IsPtr(d)
  PROVE  /\ p \in K /\ Shifted(H, K, d) = D(Place(H, K, p), d.f, d.v)
         /\ Place(H, K, p) \in Strings(G) /\ Place(H, K, p) # 0
         /\ Text(G, Place(H, K, p)) = Text(H, p) /\ Key(G, Place(H, K, p)) = Key(H, p)
         /\ LinkOf(G, Place(H, K, p)) = NextPlace(H, K, p)
<1>1. /\ Sound(H) /\ H.mem \in Seq(Descs) /\ Tiling(H.mem, Titles(H)) /\ Titled(H.mem, Titles(H))
  BY MovesFacts
<1>2. p \in Titles(H) /\ p \in Nat /\ p \in 1 .. Len(H.mem) /\ Len(H.mem) \in Nat
  <2>1. p \in Titles(H)
    BY <1>1, StringShape
  <2> QED BY <1>1, <2>1, BlockType
<1>3. Top(H.mem, p) = p
  BY <1>1, <1>2, TopOfBlock
<1>4. p \in K
  BY <1>2, <1>3 DEF Holds
<1>5. Place(H, K, p) \in Nat /\ Place(H, K, p) >= 1
  BY <1>4, MovedBlock
<1>6. Shifted(H, K, d) = D(Place(H, K, p), d.f, d.v)
  <2>1. Shifted(H, K, d) = D(Place(H, K, p) + (p - p), d.f, d.v)
    BY <1>2, <1>3 DEF Shifted
  <2>2. Place(H, K, p) + (p - p) = Place(H, K, p)
    BY <1>2, <1>5
  <2> QED BY <2>1, <2>2
<1>7. Strings(G) = StringsIn(G.mem, Places(H, K))
  BY MovedSound
<1>8. /\ Place(H, K, p) \in Strings(G)
      /\ Text(G, Place(H, K, p)) = Text(H, p) /\ Key(G, Place(H, K, p)) = Key(H, p)
      /\ LinkOf(G, Place(H, K, p)) = NextPlace(H, K, p)
  BY <1>4, <1>7, MovedString
<1> QED BY <1>4, <1>5, <1>6, <1>8

LEMMA MovedGap ==
  ASSUME NEW H, NEW G, NEW K, Moves(H, G, K), NEW l, NEW s, Gap(H, l, s)
  PROVE  \E k : Gap(G, k, s)
<1> DEFINE b == LinkOf(H, l)
           to(a) == IF a = 0 THEN 0 ELSE Place(H, K, a)
<1>1. l \in {0} \cup Strings(H) /\ H.root.LSTPTR = Ptr(l) /\ H.root.BUKPTR = Ptr(b)
  BY DEF Gap
<1>2. /\ Sound(H) /\ KeptRight(H, K) /\ MovedTo(H, G, K)
      /\ \A x \in Roots : G.root[x] = Shifted(H, K, H.root[x]) /\ Holds(H, K, H.root[x])
      /\ "LSTPTR" \in Roots /\ "BUKPTR" \in Roots
  BY MovesFacts DEF MovedTo, KeptRight, Roots, Own
<1>3. PICK n \in Nat : \E ord : Linked(H, Strings(H), ord, n)
  BY <1>2, SoundFacts DEF Chain
<1>4. PICK ord : Linked(H, Strings(H), ord, n)
  BY <1>3
<1>5. b \in {0} \cup Strings(H)
  BY <1>1, <1>4 DEF Linked, NextIs
<1>6. 0 \notin Strings(H)
  BY <1>4 DEF Linked
<1> HIDE DEF b
<1>7. ASSUME NEW a \in {0} \cup Strings(H), NEW x \in Roots, H.root[x] = Ptr(a)
      PROVE  /\ G.root[x] = Ptr(to(a)) /\ to(a) \in {0} \cup Strings(G) /\ a \in {0} \cup K
             /\ LinkOf(G, to(a)) = NextPlace(H, K, a)
             /\ a # 0 => to(a) # 0 /\ to(a) \in Strings(G) /\ Key(G, to(a)) = Key(H, a)
  <2>1. CASE a = 0
    <3>1. Ptr(0).a = 0
      BY PlainDescs
    <3>2. Shifted(H, K, Ptr(0)) = Ptr(0)
      BY <3>1 DEF Shifted, IsPtr
    <3>3. LinkOf(G, 0) = NextPlace(H, K, 0)
      BY <1>2 DEF LinkOf, MovedTo
    <3> QED BY <1>2, <1>7, <2>1, <3>2, <3>3
  <2>2. CASE a # 0
    <3>1. a \in Strings(H) /\ a \in Nat
      <4>1. a \in Strings(H)
        BY <2>2
      <4> QED BY <1>2, <4>1, StringShape
    <3> DEFINE d == Ptr(a)
    <3>2. d \in Descs /\ d.a = a /\ d.f = {"PTR"} /\ IsPtr(d) /\ Holds(H, K, d)
      BY <1>2, <1>7, <2>2, <3>1, PlainDescs DEF IsPtr
    <3>3. d.v = 0
      BY DEF Ptr, D
    <3> HIDE DEF d
    <3>4. /\ a \in K /\ Shifted(H, K, d) = D(Place(H, K, a), d.f, d.v)
          /\ Place(H, K, a) \in Strings(G) /\ Place(H, K, a) # 0
          /\ Key(G, Place(H, K, a)) = Key(H, a)
          /\ LinkOf(G, Place(H, K, a)) = NextPlace(H, K, a)
      BY <3>1, <3>2, MovedPointer
    <3>5. G.root[x] = Ptr(Place(H, K, a))
      <4>1. G.root[x] = Shifted(H, K, d)
        BY <1>2, <1>7 DEF d
      <4> QED BY <3>2, <3>3, <3>4, <4>1 DEF Ptr
    <3> QED BY <2>2, <3>4, <3>5
  <2> QED BY <2>1, <2>2
<1>8. /\ G.root.LSTPTR = Ptr(to(l)) /\ to(l) \in {0} \cup Strings(G) /\ LinkOf(G, to(l)) = NextPlace(H, K, l)
      /\ l # 0 => Key(G, to(l)) = Key(H, l)
      /\ l = 0 => to(l) = 0
  BY <1>1, <1>2, <1>7
<1>9. /\ G.root.BUKPTR = Ptr(to(b)) /\ b \in {0} \cup K
      /\ b # 0 => Key(G, to(b)) = Key(H, b)
      /\ b = 0 => to(b) = 0
  BY <1>1, <1>2, <1>5, <1>7
<1>10. NextPlace(H, K, l) = to(b)
  <2>1. NextKept(H, K, l) = b
    <3>1. LinkOf(H, l) \in K \cup {0}
      BY <1>9 DEF b
    <3> QED BY <1>1, <1>4, <3>1, NextKeptIs DEF b
  <2> QED BY <2>1 DEF NextPlace
<1>11. LinkOf(G, to(l)) = to(b)
  BY <1>8, <1>10
<1>12. DOMAIN Raised = {} => (l # 0 => Key(H, l) < s) /\ (b # 0 => Key(H, b) > s)
  BY DEF Gap, b
<1> DEFINE k == to(l)
           c == to(b)
<1>13. /\ k \in {0} \cup Strings(G) /\ G.root.LSTPTR = Ptr(k) /\ G.root.BUKPTR = Ptr(LinkOf(G, k))
       /\ LinkOf(G, k) = c
  BY <1>8, <1>9, <1>11
<1>14. /\ k # 0 => l # 0 /\ Key(G, k) = Key(H, l)
       /\ c # 0 => b # 0 /\ Key(G, c) = Key(H, b)
  BY <1>8, <1>9
<1> HIDE DEF k, c
<1>15. Gap(G, k, s)
  BY <1>12, <1>13, <1>14 DEF Gap
<1> QED BY <1>15

LEMMA MovedOwn ==
  ASSUME NEW H, NEW G, NEW K, Moves(H, G, K), OwnRight(H)
  PROVE  OwnRight(G)
<1>1. /\ Sound(H) /\ H \in Heaps /\ Len(G.mem) <= Len(H.mem) /\ Len(G.mem) \in Nat /\ Len(H.mem) \in Nat
      /\ \A x \in Roots : G.root[x] = Shifted(H, K, H.root[x]) /\ Holds(H, K, H.root[x])
  BY MovesFacts DEF MovedTo, KeptRight
<1>2. Titles(G) = Places(H, K)
  BY MovedSound
<1>3. ASSUME NEW x \in Own, IsPtr(G.root[x])
      PROVE  Refers(G.mem, Titles(G), G.root[x]) \/ Stale(G, x, G.root[x])
  <2> DEFINE d == H.root[x]
  <2>1. x \in Roots /\ d \in Descs
    <3>1. x \in Roots
      BY DEF Roots
    <3> QED BY <1>1, <3>1, HeapType
  <2>2. G.root[x] = Shifted(H, K, d) /\ Holds(H, K, d)
    BY <1>1, <2>1
  <2>3. IsPtr(d)
    BY <1>3, <2>2 DEF Shifted
  <2>4. Refers(H.mem, Titles(H), d) \/ Stale(H, x, d)
    BY <2>3 DEF OwnRight
  <2> HIDE DEF d
  <2>5. CASE Refers(H.mem, Titles(H), d)
    <3>1. Refers(G.mem, Places(H, K), Shifted(H, K, d))
      BY <2>1, <2>2, <2>5, MovedRefers
    <3> QED BY <1>2, <2>2, <3>1
  <2>6. CASE Stale(H, x, d)
    <3>1. d.a > Len(H.mem) /\ d.a \in Nat
      BY <2>1, <2>6, DescType DEF Stale
    <3>2. G.root[x] = d
      BY <1>1, <2>2, <3>1 DEF Shifted
    <3>3. d.a > Len(G.mem)
      BY <1>1, <3>1
    <3> QED BY <2>6, <3>2, <3>3 DEF Stale
  <2> QED BY <2>4, <2>5, <2>6
<1> QED BY <1>3 DEF OwnRight

LEMMA MovedCarries ==
  ASSUME NEW H, NEW G, NEW K, Moves(H, G, K)
  PROVE  Carries(H, G)
<1>1. /\ Sound(H) /\ H \in Heaps /\ Len(G.mem) <= Len(H.mem) /\ G.fault = H.fault
      /\ \A x \in Roots : G.root[x] = Shifted(H, K, H.root[x]) /\ Holds(H, K, H.root[x])
  BY MovesFacts DEF MovedTo, KeptRight
<1>2. Sound(G)
  BY MovedSound
<1>3. ASSUME NEW x \in Roots, ~ IsPtr(H.root[x]) PROVE G.root[x] = H.root[x]
  BY <1>1, <1>3 DEF Shifted
<1>4. ASSUME NEW x \in Roots, NEW p \in Strings(H) PROVE Keeps(H, G, x, p)
  <2> SUFFICES ASSUME H.root[x].a = p, IsPtr(H.root[x])
               PROVE  \E q \in Strings(G) : G.root[x].a = q /\ IsPtr(G.root[x]) /\ Text(G, q) = Text(H, p)
    BY DEF Keeps
  <2> DEFINE d == H.root[x]
             q == Place(H, K, p)
  <2>1. d \in Descs /\ Holds(H, K, d) /\ G.root[x] = Shifted(H, K, d) /\ d.a = p /\ IsPtr(d)
    BY <1>1, HeapType
  <2> HIDE DEF d
  <2>2. Shifted(H, K, d) = D(q, d.f, d.v) /\ q \in Strings(G) /\ q # 0 /\ Text(G, q) = Text(H, p)
    BY <2>1, MovedPointer
  <2>3. D(q, d.f, d.v).a = q /\ IsPtr(D(q, d.f, d.v))
    BY <2>1, <2>2 DEF D, IsPtr
  <2> QED BY <2>1, <2>2, <2>3
<1>5. \A l, s : Gap(H, l, s) => \E k : Gap(G, k, s)
  BY MovedGap
<1>6. OwnRight(H) => OwnRight(G)
  BY MovedOwn
<1> QED BY <1>1, <1>2, <1>3, <1>4, <1>5, <1>6 DEF Carries

(* TOP finds a title wherever the collector looks, unless a pointer of the *)
(* allocator's own is left behind and a character looks like a title.      *)
LEMMA NeverAstray ==
  ASSUME NEW H, Sound(H), "TTL" \notin CharFlags \/ OwnRight(H)
  PROVE  ~ GoesAstray(H)
<1>1. /\ H \in Heaps /\ H.mem \in Seq(Descs) /\ Tiling(H.mem, Titles(H)) /\ Titled(H.mem, Titles(H))
      /\ FieldsRight(H.mem, Titles(H)) /\ RootsRight(H.mem, Titles(H), H.root)
  BY SoundFacts
<1>2. ASSUME NEW d \in Descs, IsPtr(d), d.a < FRSGPT(H),
             "TTL" \notin CharFlags \/ Refers(H.mem, Titles(H), d)
      PROVE  Top(H.mem, d.a) \in Titles(H)
  <2>1. d.a \in 1 .. Len(H.mem) /\ d.a # 0
    BY <1>1, <1>2, HeapType, DescType DEF IsPtr
  <2> QED BY <1>1, <1>2, <2>1, TopAlways, TopOfRefers
<1>3. ASSUME NEW x \in Roots PROVE ~ Astray(H, H.root[x])
  <2>1. H.root[x] \in Descs
    BY <1>1, HeapType
  <2>2. ASSUME IsPtr(H.root[x]), H.root[x].a < FRSGPT(H)
        PROVE  "TTL" \notin CharFlags \/ Refers(H.mem, Titles(H), H.root[x])
    <3>1. CASE x \in Stack \cup {"XPTR"}
      BY <1>1, <3>1 DEF RootsRight
    <3>2. CASE x \in Own
      <4>1. FRSGPT(H) = Len(H.mem) + 1 /\ H.root[x].a \in Nat /\ Len(H.mem) \in Nat
        BY <1>1, <2>1, HeapType, DescType
      <4>2. ~ Stale(H, x, H.root[x])
        BY <2>2, <4>1 DEF Stale
      <4> QED BY <2>2, <3>2, <4>2 DEF OwnRight
    <3> QED BY <3>1, <3>2 DEF Roots
  <2> QED BY <1>2, <2>1, <2>2 DEF Astray
<1>4. ASSUME NEW t \in Titles(H), NEW i \in Fields(H.mem, t) PROVE ~ Astray(H, H.mem[t + i])
  <2>1. H.mem[t + i] \in Descs
    BY FieldType
  <2>2. Refers(H.mem, Titles(H), H.mem[t + i])
    BY <1>1 DEF FieldsRight
  <2> QED BY <1>2, <2>1, <2>2 DEF Astray
<1>5. \A d \in Range(H.root) : \E x \in Roots : d = H.root[x]
  <2>1. DOMAIN H.root = Roots
    BY <1>1 DEF Heaps
  <2> QED BY <2>1 DEF Range
<1> QED BY <1>3, <1>4, <1>5 DEF GoesAstray

-----------------------------------------------------------------------------
(* The inductive invariant.  Characters that look like titles mislead TOP  *)
(* only where names are folded.                                            *)
Safe(H) ==
    /\ "TTL" \notin CharFlags => ~ H.fault
    /\ ~ CaseFolds => ~ H.fault /\ OwnRight(H)
IInv(H) == Sound(H) /\ FRSGPT(H) <= TLSGP1 /\ Safe(H)

(* Descriptors of the program and of the allocator are set.                *)
RootFits(H, x, d) ==
    /\ d \in Descs /\ x # "OCBSCL"
    /\ x \in Stack \cup {"XPTR"} => Refers(H.mem, Titles(H), d)
    /\ x \in Own /\ ~ CaseFolds /\ IsPtr(d) => Refers(H.mem, Titles(H), d) \/ Stale(H, x, d)

Rooted(H, G, root) ==
    /\ G \in Heaps /\ G.mem = H.mem /\ G.bin = H.bin /\ G.fault = H.fault /\ G.root = root
    /\ IInv(G) /\ Titles(G) = Titles(H) /\ Strings(G) = Strings(H)

LEMMA RootsSet ==
  ASSUME NEW H, IInv(H), NEW root \in [Roots -> Descs],
         \A x \in Roots : root[x] = H.root[x] \/ RootFits(H, x, root[x]),
         NEW G, G = [H EXCEPT !.root = root]
  PROVE  Rooted(H, G, root)
<1>1. Sound(H) /\ H \in Heaps /\ RootsRight(H.mem, Titles(H), H.root)
  BY SoundFacts DEF IInv
<1>2. G.mem = H.mem /\ G.bin = H.bin /\ G.fault = H.fault /\ G.root = root /\ G \in Heaps
  BY <1>1 DEF Heaps
<1>3. RootsRight(H.mem, Titles(H), root)
  <2>1. root.OCBSCL = Ptr(1)
    <3>1. "OCBSCL" \in Roots
      BY DEF Roots, Own
    <3>2. root["OCBSCL"] = H.root["OCBSCL"]
      BY <3>1 DEF RootFits
    <3> QED BY <1>1, <3>2 DEF RootsRight
  <2>2. \A x \in Stack \cup {"XPTR"} : Refers(H.mem, Titles(H), root[x])
    BY <1>1 DEF RootsRight, Roots, RootFits
  <2> QED BY <2>1, <2>2 DEF RootsRight
<1>4. Sound(G) /\ Titles(G) = Titles(H) /\ Strings(G) = Strings(H)
  BY <1>1, <1>2, <1>3, Rerooted
<1>5. FRSGPT(G) <= TLSGP1
  BY <1>2 DEF IInv, FRSGPT
<1>6. ASSUME ~ CaseFolds PROVE OwnRight(G)
  <2>1. OwnRight(H)
    BY <1>6 DEF IInv, Safe
  <2>2. ASSUME NEW x \in Own, IsPtr(root[x])
        PROVE  Refers(H.mem, Titles(H), root[x]) \/ Stale(H, x, root[x])
    <3>1. x \in Roots
      BY DEF Roots
    <3> QED BY <1>6, <2>1, <2>2, <3>1 DEF OwnRight, RootFits
  <2> QED BY <1>2, <1>4, <2>2 DEF OwnRight, Stale
<1>7. Safe(G)
  BY <1>2, <1>6 DEF IInv, Safe
<1> QED BY <1>2, <1>4, <1>5, <1>7 DEF IInv, Rooted

LEMMA RootSet ==
  ASSUME NEW H, IInv(H), NEW x \in Roots, NEW d, RootFits(H, x, d)
  PROVE  Rooted(H, [H EXCEPT !.root = [H.root EXCEPT ![x] = d]], [H.root EXCEPT ![x] = d])
<1> DEFINE root == [H.root EXCEPT ![x] = d]
<1>1. H.root \in [Roots -> Descs] /\ d \in Descs
  BY SoundFacts DEF IInv, Heaps, RootFits
<1>2. root \in [Roots -> Descs] /\ \A y \in Roots : root[y] = IF y = x THEN d ELSE H.root[y]
  BY <1>1
<1>3. \A y \in Roots : root[y] = H.root[y] \/ RootFits(H, y, root[y])
  BY <1>2
<1> HIDE DEF root
<1>4. Rooted(H, [H EXCEPT !.root = root], root)
  BY <1>2, <1>3, RootsSet
<1> QED BY <1>4 DEF root

LEMMA PointerFits ==
  ASSUME NEW H, Sound(H), NEW x \in Roots \ {"OCBSCL"}, NEW p \in {0} \cup Titles(H)
  PROVE  /\ RootFits(H, x, Ptr(p)) /\ RootFits(H, x, Zero)
         /\ Refers(H.mem, Titles(H), Ptr(p)) /\ Refers(H.mem, Titles(H), Zero)
<1>1. p \in Nat
  BY BlockType
<1>2. Ptr(p) \in Descs /\ Ptr(p).a = p /\ Ptr(p).f = {"PTR"} /\ Zero \in Descs /\ Zero.f = {} /\ Zero.a = 0
  BY <1>1, PlainDescs
<1>3. Refers(H.mem, Titles(H), Ptr(p)) /\ Refers(H.mem, Titles(H), Zero)
  BY <1>2 DEF Refers, InBlock
<1> QED BY <1>2, <1>3 DEF RootFits

(* LOCA1.                                                                  *)
IsLocated(H, L, s) ==
    /\ IInv(L) /\ L.mem = H.mem /\ L.bin = H.bin /\ L.fault = H.fault
    /\ Titles(L) = Titles(H) /\ Strings(L) = Strings(H)
    /\ \A x \in Roots \ {"LSTPTR", "BUKPTR"} : L.root[x] = H.root[x]
    /\ Found(L, s) => \E b \in Strings(L) : L.root.BUKPTR = Ptr(b)
    /\ ~ Found(L, s) => \E l : Gap(L, l, s)

LEMMA LocatedKeeps ==
  ASSUME NEW H, IInv(H), NEW s \in Nat, NEW L, L = Located(H, s)
  PROVE  IsLocated(H, L, s)
<1> DEFINE S == Strings(H)
<1>1. Sound(H) /\ H \in Heaps /\ S \subseteq Titles(H) /\ Chain(H, S)
  BY SoundFacts DEF IInv
<1>2. PICK l \in {0} \cup S :
        /\ L = [H EXCEPT !.root.LSTPTR = Ptr(l), !.root.BUKPTR = Ptr(LinkOf(H, l))]
        /\ Passed(H, l, s) /\ Before(H, l, s)
  BY <1>1, LocatedIs
<1> DEFINE b == LinkOf(H, l)
           root == [[H.root EXCEPT !.LSTPTR = Ptr(l)] EXCEPT !.BUKPTR = Ptr(b)]
<1>3. PICK n \in Nat : \E ord : Linked(H, S, ord, n) /\ (DOMAIN Raised = {} => Filed(H, S, ord))
  BY <1>1 DEF Chain
<1>4. PICK ord : Linked(H, S, ord, n) /\ (DOMAIN Raised = {} => Filed(H, S, ord))
  BY <1>3
<1>5. b \in {0} \cup S /\ 0 \notin S
  BY <1>2, <1>4 DEF Linked, NextIs
<1>6. L = [H EXCEPT !.root = root]
  BY <1>1, <1>2 DEF Heaps
<1> HIDE DEF b
<1>7. "LSTPTR" \in Roots \ {"OCBSCL"} /\ "BUKPTR" \in Roots \ {"OCBSCL"}
  BY DEF Roots, Own
<1>8. RootFits(H, "LSTPTR", Ptr(l)) /\ RootFits(H, "BUKPTR", Ptr(b))
  BY <1>1, <1>2, <1>5, <1>7, PointerFits
<1>9. /\ root \in [Roots -> Descs]
      /\ \A x \in Roots : root[x] = IF x = "LSTPTR" THEN Ptr(l)
                                    ELSE IF x = "BUKPTR" THEN Ptr(b) ELSE H.root[x]
  <2>1. H.root \in [Roots -> Descs] /\ Ptr(l) \in Descs /\ Ptr(b) \in Descs
    BY <1>1, <1>8 DEF Heaps, RootFits
  <2> QED BY <2>1, <1>7
<1> HIDE DEF root
<1>10. Rooted(H, L, root)
  <2>1. \A x \in Roots : root[x] = H.root[x] \/ RootFits(H, x, root[x])
    BY <1>8, <1>9
  <2> QED BY <1>6, <1>9, <2>1, RootsSet
<1>11. /\ IInv(L) /\ L.mem = H.mem /\ L.bin = H.bin /\ L.fault = H.fault
       /\ Titles(L) = Titles(H) /\ Strings(L) = S /\ L.root = root
  BY <1>10 DEF Rooted
<1>12. \A x \in Roots \ {"LSTPTR", "BUKPTR"} : L.root[x] = H.root[x]
  BY <1>9, <1>11
<1>13. L.root.BUKPTR = Ptr(b) /\ L.root.LSTPTR = Ptr(l) /\ Ptr(b).a = b
  <2>1. b \in Nat
    BY <1>1, <1>5, StringShape
  <2> QED BY <1>7, <1>9, <1>11, <2>1, PlainDescs
<1>14. Found(L, s) => \E c \in Strings(L) : L.root.BUKPTR = Ptr(c)
  BY <1>5, <1>11, <1>13 DEF Found
<1>15. ASSUME ~ Found(L, s) PROVE Gap(L, l, s)
  <2>1. LinkOf(L, l) = b
    BY <1>11 DEF LinkOf, b
  <2>2. \A a \in S : Key(L, a) = Key(H, a) /\ Key(H, a) \in Nat
    <3>1. ASSUME NEW a \in S PROVE Key(H, a) \in Nat
      <4>1. LNKFLD \in 0 .. TEXT
        BY DEF LNKFLD, TEXT
      <4>2. H.mem[a + LNKFLD] \in Descs
        BY <1>1, <4>1, StringShape
      <4> QED BY <4>2, DescType DEF Key
    <3> QED BY <1>11, <3>1 DEF Key
  <2>3. ASSUME DOMAIN Raised = {}, l # 0 PROVE Key(H, l) < s
    <3>1. l \in S /\ Text(H, l) = Key(H, l)
      BY <1>2, <1>4, <2>3 DEF Filed
    <3>2. ~(Key(H, l) > s) /\ ~(Key(H, l) = s)
      BY <1>2, <2>3, <3>1 DEF Passed, Stops, Key
    <3> QED BY <2>2, <3>1, <3>2
  <2>4. ASSUME DOMAIN Raised = {}, b # 0 PROVE Key(H, b) > s
    <3>1. b \in S /\ Text(H, b) = Key(H, b)
      BY <1>4, <1>5, <2>4 DEF Filed
    <3>2. Key(H, b) > s \/ Key(H, b) = s
      BY <1>2, <2>4 DEF Before, Stops, Key, b
    <3>3. Key(H, b) # s
      BY <1>11, <1>13, <1>15, <2>4 DEF Found, Key
    <3> QED BY <3>2, <3>3
  <2>5. l \in {0} \cup Strings(L)
    BY <1>2, <1>11
  <2>6. DOMAIN Raised = {} => /\ l # 0 => Key(L, l) < s
                              /\ b # 0 => Key(L, b) > s
    <3>1. l # 0 => Key(L, l) = Key(H, l)
      BY <1>2, <2>2
    <3>2. b # 0 => Key(L, b) = Key(H, b)
      BY <1>5, <2>2
    <3> QED BY <2>3, <2>4, <3>1, <3>2
  <2> QED BY <1>13, <2>1, <2>5, <2>6 DEF Gap
<1> QED BY <1>11, <1>12, <1>14, <1>15 DEF IsLocated

(* Room for a block or a string.                                           *)
LEMMA RoomKeeps ==
  ASSUME NEW H, IInv(H), NEW n, NEW G, G = Room(H, n) \/ G = GC(H)
  PROVE  IInv(G) /\ (G.fault \/ Carries(H, G))
<1>1. Sound(H) /\ H \in Heaps /\ Safe(H) /\ FRSGPT(H) <= TLSGP1
  BY SoundFacts DEF IInv
<1>2. CASE G = H
  BY <1>1, <1>2, SameCarries
<1>3. CASE G = GC(H) /\ ~ GoesAstray(H)
  <2>1. G = Regenerated(H) /\ Moves(H, G, Survivors(H))
    BY <1>1, <1>3, RegeneratedIs DEF Moves
  <2>2. Carries(H, G) /\ G.fault = H.fault
    BY <2>1, MovedCarries DEF Carries
  <2>3. FRSGPT(G) <= TLSGP1
    <3>1. Len(G.mem) <= Len(H.mem) /\ Len(G.mem) \in Nat /\ Len(H.mem) \in Nat
      BY <2>1, MovesFacts
    <3>2. FRSGPT(G) = Len(G.mem) + 1 /\ FRSGPT(H) = Len(H.mem) + 1 /\ TLSGP1 \in Nat
      BY RegionAssumption DEF FRSGPT
    <3> QED BY <1>1, <3>1, <3>2
  <2>4. Safe(G)
    BY <1>1, <2>2 DEF Safe, Carries
  <2> QED BY <2>2, <2>3, <2>4 DEF IInv, Carries
<1>4. CASE G = GC(H) /\ GoesAstray(H)
  <2>1. G = [H EXCEPT !.fault = TRUE]
    BY <1>4 DEF GC
  <2>2. G \in Heaps /\ G.mem = H.mem /\ G.bin = H.bin /\ G.root = H.root /\ G.fault
    BY <1>1, <2>1 DEF Heaps
  <2>3. Sound(G)
    BY <1>1, <2>2, Rerooted, SoundFacts
  <2>4. ~("TTL" \notin CharFlags) /\ CaseFolds
    BY <1>1, <1>4, NeverAstray DEF Safe
  <2>5. FRSGPT(G) <= TLSGP1
    BY <1>1, <2>2 DEF FRSGPT
  <2> QED BY <2>2, <2>3, <2>4, <2>5 DEF IInv, Safe
<1> QED BY <1>2, <1>3, <1>4 DEF Room

-----------------------------------------------------------------------------
(* A string is entered.                                                    *)
LEMMA EnteredKeeps ==
  ASSUME NEW G, IInv(G), NEW l, NEW s \in Nat, Gap(G, l, s),
         NEW text \in Nat, Size(text) = Size(s), DOMAIN Raised = {} => text = s,
         NEW value \in Descs, NEW label \in Descs,
         Refers(G.mem, Titles(G), value), Refers(G.mem, Titles(G), label),
         Fits(G, Size(s)), NEW t, t = Len(G.mem) + 1, ~ CaseFolds => G.root.SPECR1.a <= t,
         NEW E, E = Entered([G EXCEPT !.mem = G.mem \o Structure(t, text, value, label)], t, s)
  PROVE  IInv(E)
<1>1. Sound(G) /\ G \in Heaps /\ Safe(G) /\ Len(G.mem) \in Nat
  <2>1. Sound(G) /\ G \in Heaps /\ Safe(G)
    BY SoundFacts DEF IInv
  <2> QED BY <2>1, HeapType
<1>2. /\ Sound(E) /\ FRSGPT(E) = FRSGPT(G) + Size(s) /\ E.fault = G.fault
      /\ E.root = [G.root EXCEPT !.XPTR = Ptr(t)] /\ t \in Strings(E) /\ Grows(G, E)
  <2>1. HasString(G, E, s, t)
    BY <1>1, EnteredSound
  <2> QED BY <2>1 DEF HasString
<1>3. FRSGPT(E) <= TLSGP1
  BY <1>2 DEF Fits
<1>4. ASSUME ~ CaseFolds PROVE OwnRight(E)
  <2>1. OwnRight(G)
    BY <1>1, <1>4 DEF Safe
  <2>2. ASSUME NEW x \in Own, IsPtr(E.root[x])
        PROVE  Refers(E.mem, Titles(E), E.root[x])
    <3> DEFINE d == E.root[x]
    <3>1. x \in Roots /\ x # "XPTR"
      BY DEF Roots, Own
    <3>2. d = G.root[x] /\ d \in Descs
      <4>1. DOMAIN G.root = Roots
        BY <1>1 DEF Heaps
      <4>2. d = G.root[x]
        BY <1>2, <3>1, <4>1
      <4> QED BY <1>1, <3>1, <4>2, HeapType
    <3>3. Refers(G.mem, Titles(G), d) \/ Stale(G, x, d)
      BY <2>1, <2>2, <3>2 DEF OwnRight
    <3>4. CASE Refers(G.mem, Titles(G), d)
      BY <1>2, <3>4, RefersGrows DEF Grows
    <3>5. CASE Stale(G, x, d)
      <4>1. d.a <= t /\ d.a > Len(G.mem) /\ d.a \in Nat /\ "TTL" \notin d.f
        BY <1>4, <3>2, <3>5, DescType DEF Stale
      <4>2. d.a = t
        BY <1>1, <4>1
      <4>3. t \in Titles(E)
        BY <1>2 DEF Strings
      <4> HIDE DEF d
      <4> QED BY <2>2, <4>1, <4>2, <4>3 DEF Refers, InBlock, IsPtr, d
    <3> QED BY <3>3, <3>4, <3>5
  <2> QED BY <2>2 DEF OwnRight
<1>5. Safe(E)
  BY <1>1, <1>2, <1>4 DEF Safe
<1> QED BY <1>2, <1>3, <1>5 DEF IInv

(* Where GENVAR finds the characters.                                      *)
Source(H, s) ==
    \/ H.root.SPECR1 = Zero
    \/ \E p \in Strings(H) : H.root.SPECR1.a = p /\ IsPtr(H.root.SPECR1) /\ PartOf(Text(H, p)) = s

LEMMA SourceIs ==
  ASSUME NEW H, Sound(H), NEW s, Source(H, s)
  PROVE  Spelled(H, s) = s /\ H.root.SPECR1.a <= Len(H.mem) + 1
<1>1. Len(H.mem) \in Nat
  BY SoundFacts, HeapType
<1>2. CASE H.root.SPECR1 = Zero
  <2>1. H.root.SPECR1.a = 0
    BY <1>2, PlainDescs
  <2> QED BY <1>1, <2>1 DEF Spelled
<1>3. ASSUME NEW p \in Strings(H), H.root.SPECR1.a = p, PartOf(Text(H, p)) = s
      PROVE  Spelled(H, s) = s /\ H.root.SPECR1.a <= Len(H.mem) + 1
  <2>1. p \in Nat /\ p >= 1 /\ p <= Len(H.mem) + 1
    <3>1. p \in Titles(H)
      BY StringShape
    <3>2. p \in 1 .. Len(H.mem)
      BY <3>1, BlockType
    <3> QED BY <1>1, <3>2
  <2> QED BY <1>3, <2>1 DEF Spelled
<1> QED BY <1>2, <1>3 DEF Source

LEMMA SourceCarried ==
  ASSUME NEW H, NEW G, Carries(H, G), NEW s, Source(H, s)
  PROVE  Source(G, s)
<1>1. "SPECR1" \in Roots
  BY DEF Roots, Own
<1>2. CASE H.root.SPECR1 = Zero
  <2>1. ~ IsPtr(H.root.SPECR1)
    BY <1>2, PlainDescs DEF IsPtr
  <2>2. G.root.SPECR1 = Zero
    BY <1>1, <1>2, <2>1 DEF Carries
  <2> QED BY <2>2 DEF Source
<1>3. ASSUME NEW p \in Strings(H), H.root.SPECR1.a = p, IsPtr(H.root.SPECR1), PartOf(Text(H, p)) = s
      PROVE  Source(G, s)
  <2>1. Keeps(H, G, "SPECR1", p)
    BY <1>1 DEF Carries
  <2>2. PICK q \in Strings(G) : G.root.SPECR1.a = q /\ IsPtr(G.root.SPECR1) /\ Text(G, q) = Text(H, p)
    BY <1>3, <2>1 DEF Keeps
  <2> QED BY <1>3, <2>2 DEF Source
<1> QED BY <1>2, <1>3 DEF Source

LEMMA FoundKeeps ==
  ASSUME NEW H, NEW L, NEW s, IsLocated(H, L, s), Found(L, s)
  PROVE  IInv([L EXCEPT !.root.XPTR = L.root.BUKPTR])
<1>1. IInv(L) /\ Sound(L)
  BY DEF IsLocated, IInv
<1>2. PICK b \in Strings(L) : L.root.BUKPTR = Ptr(b)
  BY DEF IsLocated
<1>3. "XPTR" \in Roots \ {"OCBSCL"} /\ b \in Titles(L)
  BY <1>1, StringShape DEF Roots
<1>4. RootFits(L, "XPTR", Ptr(b))
  BY <1>1, <1>3, PointerFits
<1> DEFINE root == [L.root EXCEPT !["XPTR"] = Ptr(b)]
<1>5. Rooted(L, [L EXCEPT !.root = root], root)
  BY <1>1, <1>3, <1>4, RootSet
<1>6. [L EXCEPT !.root.XPTR = L.root.BUKPTR] = [L EXCEPT !.root = root]
  BY <1>2
<1> QED BY <1>5, <1>6 DEF Rooted

LEMMA Generates ==
  ASSUME NEW H, IInv(H), NEW s \in Nat, Source(H, s), Generated(H, s)
  PROVE  IInv(heap')
<1> DEFINE L == Located(H, s)
           k == Size(s)
           G == Room(L, k)
           t == Len(G.mem) + 1
           text == Spelled(G, s)
           C == [G EXCEPT !.mem = G.mem \o Structure(t, text, Zero, Zero)]
           E == Entered(C, t, s)
<1>1. \/ Found(L, s) /\ heap' = [L EXCEPT !.root.XPTR = L.root.BUKPTR]
      \/ ~ Found(L, s) /\ With(G, k, E)
  BY DEF Generated, FRSGPT
<1>2. IsLocated(H, L, s)
  BY LocatedKeeps
<1> HIDE DEF L
<1>3. CASE Found(L, s)
  BY <1>1, <1>2, <1>3, FoundKeeps
<1>4. CASE ~ Found(L, s)
  <2>1. IInv(L) /\ Sound(L) /\ Source(L, s)
    <3>1. /\ IInv(L) /\ Sound(L) /\ L.root.SPECR1 = H.root.SPECR1 /\ Strings(L) = Strings(H)
          /\ L.mem = H.mem
      BY <1>2 DEF IsLocated, IInv, Roots, Own
    <3> QED BY <3>1 DEF Source, Text
  <2>2. PICK l : Gap(L, l, s)
    BY <1>2, <1>4 DEF IsLocated
  <2>3. IInv(G) /\ (G.fault \/ Carries(L, G))
    BY <2>1, RoomKeeps
  <2> HIDE DEF G
  <2>4. CASE G.fault
    BY <1>1, <1>4, <2>3, <2>4 DEF With
  <2>5. CASE ~ G.fault
    <3>1. Carries(L, G) /\ Sound(G)
      BY <2>3, <2>5 DEF IInv
    <3>2. PICK j : Gap(G, j, s)
      BY <2>2, <3>1 DEF Carries
    <3>3. Source(G, s)
      BY <2>1, <3>1, SourceCarried
    <3>4. text = s /\ G.root.SPECR1.a <= t
      BY <3>1, <3>3, SourceIs
    <3>5. Zero \in Descs /\ Refers(G.mem, Titles(G), Zero)
      BY PlainDescs DEF Refers
    <3>6. Fits(G, Size(s)) /\ heap' = E
      BY <1>1, <1>4, <2>5 DEF With
    <3> HIDE DEF text
    <3>7. E = Entered([G EXCEPT !.mem = G.mem \o Structure(t, text, Zero, Zero)], t, s)
      OBVIOUS
    <3> HIDE DEF E, t
    <3>8. t = Len(G.mem) + 1
      BY DEF t
    <3> HIDE DEF C, k
    <3>9. IInv(E)
      BY <2>3, <3>2, <3>4, <3>5, <3>6, <3>7, <3>8, EnteredKeeps
    <3> QED BY <3>6, <3>9
  <2> QED BY <2>4, <2>5
<1> QED BY <1>3, <1>4

LEMMA Enters ==
  ASSUME NEW G, IInv(G), NEW s \in Nat, NEW value \in Descs, NEW label \in Descs,
         Refers(G.mem, Titles(G), value), Refers(G.mem, Titles(G), label),
         Fits(G, Size(s)), NEW C, C = CONVAR(G, s, value, label), GNVARS(G, C, s)
  PROVE  IInv(heap')
<1> DEFINE t == Len(G.mem) + 1
           root == [G.root EXCEPT !["SPECR1"] = Ptr(t)]
           H == [G EXCEPT !.root = root]
           L == Located(H, s)
           E == Entered([L EXCEPT !.mem = C.mem], t, s)
<1>1. Sound(G) /\ G \in Heaps /\ Len(G.mem) \in Nat
  <2>1. Sound(G) /\ G \in Heaps
    BY SoundFacts DEF IInv
  <2> QED BY <2>1, HeapType
<1>2. heap' = IF Found(L, s) THEN [L EXCEPT !.root.XPTR = L.root.BUKPTR] ELSE E
  BY DEF GNVARS, FRSGPT
<1>3. "SPECR1" \in Roots /\ "SPECR1" # "OCBSCL" /\ "SPECR1" \notin Stack \cup {"XPTR"}
  BY StackAssumption DEF Roots, Own
<1>4. t \in Nat /\ t > Len(G.mem)
  BY <1>1
<1>5. Ptr(t) \in Descs /\ Ptr(t).a = t /\ Ptr(t).f = {"PTR"}
  BY <1>4, PlainDescs
<1>6. RootFits(G, "SPECR1", Ptr(t))
  BY <1>3, <1>4, <1>5 DEF RootFits, Stale
<1> HIDE DEF t
<1>7. Rooted(G, H, root)
  BY <1>3, <1>6, RootSet
<1>8. root.SPECR1 = Ptr(t)
  BY <1>1, <1>3 DEF Heaps
<1> HIDE DEF root, H
<1>9. /\ IInv(H) /\ H.mem = G.mem /\ H.root.SPECR1 = Ptr(t) /\ Titles(H) = Titles(G)
  BY <1>7, <1>8 DEF Rooted
<1>10. IsLocated(H, L, s)
  BY <1>9, LocatedKeeps
<1> HIDE DEF L
<1>11. CASE Found(L, s)
  BY <1>2, <1>10, <1>11, FoundKeeps
<1>12. CASE ~ Found(L, s)
  <2>1. /\ IInv(L) /\ L.mem = G.mem /\ L.root.SPECR1 = Ptr(t) /\ Titles(L) = Titles(G)
    BY <1>3, <1>9, <1>10 DEF IsLocated
  <2>2. PICK l : Gap(L, l, s)
    BY <1>10, <1>12 DEF IsLocated
  <2>3. C.mem = L.mem \o Structure(t, s, value, label)
    BY <1>1, <2>1 DEF CONVAR, Heaps, FRSGPT, t
  <2>4. E = Entered([L EXCEPT !.mem = L.mem \o Structure(t, s, value, label)], t, s)
    BY <2>3
  <2> HIDE DEF E
  <2>5. t = Len(L.mem) + 1 /\ L.root.SPECR1.a <= t /\ Fits(L, Size(s))
    BY <1>4, <1>5, <2>1 DEF t, Fits, FRSGPT
  <2>6. Refers(L.mem, Titles(L), value) /\ Refers(L.mem, Titles(L), label)
    BY <2>1
  <2>7. IInv(E)
    BY <2>1, <2>2, <2>4, <2>5, <2>6, EnteredKeeps
  <2> QED BY <1>2, <1>12, <2>7
<1> QED BY <1>11, <1>12

-----------------------------------------------------------------------------
(* What the program's descriptors are.                                     *)
LEMMA SeenRefers ==
  ASSUME NEW H, IInv(H), NEW x \in Stack \cup {"XPTR"}
  PROVE  /\ x \in Roots /\ x # "OCBSCL" /\ x \notin Own /\ H.root[x] \in Descs
         /\ Refers(H.mem, Titles(H), H.root[x])
         /\ RootFits(H, x, H.root.XPTR) /\ RootFits(H, x, Zero)
<1>1. Sound(H) /\ H \in Heaps /\ RootsRight(H.mem, Titles(H), H.root)
  BY SoundFacts DEF IInv
<1>2. "XPTR" \in Roots /\ x \in Roots /\ x \notin Own /\ x # "OCBSCL"
  BY StackAssumption DEF Roots, Own
<1>3. H.root[x] \in Descs /\ H.root.XPTR \in Descs
  BY <1>1, <1>2, HeapType
<1>4. Refers(H.mem, Titles(H), H.root[x]) /\ Refers(H.mem, Titles(H), H.root.XPTR)
  BY <1>1 DEF RootsRight
<1>5. Zero \in Descs /\ Refers(H.mem, Titles(H), Zero)
  BY PlainDescs DEF Refers
<1> QED BY <1>2, <1>3, <1>4, <1>5 DEF RootFits

LEMMA SeenString ==
  ASSUME IInv(heap), NEW x \in Stack \cup {"XPTR"}, IsStr(x)
  PROVE  heap.root[x].a \in Strings(heap) /\ IsPtr(heap.root[x]) /\ heap.root[x].a # 0
<1>1. /\ Sound(heap) /\ heap.mem \in Seq(Descs) /\ Tiling(heap.mem, Titles(heap)) /\ Titled(heap.mem, Titles(heap))
  BY SoundFacts DEF IInv
<1>2. heap.root[x] \in Descs /\ Refers(heap.mem, Titles(heap), heap.root[x]) /\ heap.root[x].a # 0
  BY SeenRefers DEF IsStr
<1>3. /\ IsPtr(heap.root[x]) /\ Top(heap.mem, heap.root[x].a) \in Titles(heap)
      /\ heap.root[x].a = Top(heap.mem, heap.root[x].a)
  BY <1>1, <1>2, TopOfRefers DEF IsStr
<1> QED BY <1>2, <1>3 DEF IsStr, Strings

LEMMA StringType ==
  ASSUME NEW H, Sound(H), NEW p \in Strings(H)
  PROVE  /\ p \in Titles(H) /\ p \in Nat /\ p \in 1 .. Len(H.mem) /\ Text(H, p) \in Nat
         /\ 1 \in Fields(H.mem, p) /\ ATTRIB \in Fields(H.mem, p)
<1>1. TEXT \in 0 .. TEXT
  BY DEF TEXT
<1>2. /\ p \in Titles(H) /\ p \in Nat /\ H.mem[p + TEXT] \in Descs /\ Fields(H.mem, p) = 1 .. ATTRIB
  BY <1>1, StringShape
<1>3. p \in 1 .. Len(H.mem)
  BY <1>2, BlockType
<1>4. Text(H, p) \in Nat
  BY <1>2, DescType DEF Text
<1> QED BY <1>2, <1>3, <1>4 DEF ATTRIB

(* The field that IsName finds.                                            *)
LEMMA NamedField ==
  ASSUME IInv(heap), NEW x \in Stack \cup {"XPTR"}, IsName(x)
  PROVE  \E t \in Titles(heap) : \E i \in Fields(heap.mem, t) : heap.root[x].a + 1 = t + i
<1> DEFINE p == heap.root[x].a
           t == Top(heap.mem, p)
<1>1. /\ Sound(heap) /\ heap.mem \in Seq(Descs) /\ Tiling(heap.mem, Titles(heap)) /\ Titled(heap.mem, Titles(heap))
  BY SoundFacts DEF IInv
<1>2. heap.root[x] \in Descs /\ Refers(heap.mem, Titles(heap), heap.root[x]) /\ p # 0
  BY SeenRefers DEF IsName
<1>3. /\ p \in Nat /\ t \in Titles(heap) /\ t <= p
      /\ "STTL" \in heap.mem[t].f => p = t
  BY <1>1, <1>2, TopOfRefers, DescType
<1>4. "STTL" \in heap.mem[t].f \/ p - t < heap.mem[t].v
  BY DEF IsName
<1>5. t \in Nat /\ heap.mem[t].v \in Nat
  <2>1. t \in Nat /\ heap.mem[t] \in Descs
    BY <1>1, <1>3, BlockType
  <2> QED BY <2>1, DescType
<1> HIDE DEF p, t
<1> DEFINE i == p - t + 1
<1>6. i \in Nat /\ i >= 1 /\ t + i = p + 1
  BY <1>3, <1>5
<1>7. i \in Fields(heap.mem, t)
  <2>1. CASE "STTL" \in heap.mem[t].f
    <3>1. i = 1
      BY <1>3, <1>5, <2>1
    <3> QED BY <2>1, <3>1 DEF Fields, ATTRIB
  <2>2. CASE "STTL" \notin heap.mem[t].f
    <3>1. i <= heap.mem[t].v
      BY <1>3, <1>4, <1>5, <2>2
    <3> QED BY <1>5, <1>6, <2>2, <3>1 DEF Fields
  <2> QED BY <2>1, <2>2
<1> QED BY <1>3, <1>6, <1>7 DEF p

-----------------------------------------------------------------------------
(* The operations that only set descriptors.                               *)
LEMMA SetKeeps ==
  ASSUME IInv(heap), NEW x \in Roots, NEW d, RootFits(heap, x, d),
         heap' = [heap EXCEPT !.root = [heap.root EXCEPT ![x] = d]]
  PROVE  IInv(heap')
<1>1. Rooted(heap, heap', [heap.root EXCEPT ![x] = d])
  BY RootSet
<1> QED BY <1>1 DEF Rooted

LEMMA PushKeeps ==
  ASSUME IInv(heap), NEW y \in Stack, Push(y)
  PROVE  IInv(heap')
<1>1. y \in Roots /\ RootFits(heap, y, heap.root.XPTR)
  BY SeenRefers
<1>2. heap' = [heap EXCEPT !.root = [heap.root EXCEPT ![y] = heap.root.XPTR]]
  BY DEF Push
<1> QED BY <1>1, <1>2, SetKeeps

LEMMA ForgetKeeps ==
  ASSUME IInv(heap), Forget
  PROVE  IInv(heap')
<1>1. "XPTR" \in Roots /\ RootFits(heap, "XPTR", Zero)
  BY SeenRefers
<1>2. heap' = [heap EXCEPT !.root = [heap.root EXCEPT !["XPTR"] = Zero]]
  BY DEF Forget
<1> QED BY <1>1, <1>2, SetKeeps

LEMMA FetchKeeps ==
  ASSUME IInv(heap), Fetch
  PROVE  IInv(heap')
<1> DEFINE d == heap.mem[heap.root.XPTR.a + 1]
<1>1. Sound(heap) /\ FieldsRight(heap.mem, Titles(heap))
  BY SoundFacts DEF IInv
<1>2. "XPTR" \in Roots /\ "XPTR" # "OCBSCL" /\ "XPTR" \notin Own
  BY SeenRefers
<1>3. PICK t \in Titles(heap) : \E i \in Fields(heap.mem, t) : heap.root.XPTR.a + 1 = t + i
  BY NamedField DEF Fetch
<1>4. PICK i \in Fields(heap.mem, t) : heap.root.XPTR.a + 1 = t + i
  BY <1>3
<1>5. d \in Descs /\ Refers(heap.mem, Titles(heap), d)
  BY <1>1, <1>4, FieldType DEF FieldsRight
<1>6. heap' = [heap EXCEPT !.root = [heap.root EXCEPT !["XPTR"] = d]]
  BY DEF Fetch
<1> HIDE DEF d
<1>7. RootFits(heap, "XPTR", d)
  BY <1>2, <1>5 DEF RootFits
<1> QED BY <1>2, <1>6, <1>7, SetKeeps

LEMMA ElementKeeps ==
  ASSUME IInv(heap), Element
  PROVE  IInv(heap')
<1> DEFINE c == heap.root.XPTR
           p == c.a
           t == Top(heap.mem, p)
           d == D(p + 1, c.f, c.v)
<1>1. /\ Sound(heap) /\ heap.mem \in Seq(Descs) /\ Tiling(heap.mem, Titles(heap)) /\ Titled(heap.mem, Titles(heap))
      /\ DOMAIN heap.root = Roots
  BY SoundFacts DEF IInv, Heaps
<1>2. /\ c \in Descs /\ Refers(heap.mem, Titles(heap), c)
      /\ "XPTR" \in Roots /\ "XPTR" # "OCBSCL" /\ "XPTR" \notin Own
  BY SeenRefers
<1>3. p # 0 /\ "STTL" \notin heap.mem[t].f /\ p - t + 1 < heap.mem[t].v
  BY DEF Element, IsBlk, IsStr
<1>4. /\ p \in Nat /\ t \in Titles(heap) /\ t <= p /\ "PTR" \in c.f /\ "TTL" \notin c.f
  BY <1>1, <1>2, <1>3, TopOfRefers, DescType DEF IsPtr, Refers
<1>5. t \in Nat /\ heap.mem[t].v \in Nat
  <2>1. t \in Nat /\ heap.mem[t] \in Descs
    BY <1>1, <1>4, BlockType
  <2> QED BY <2>1, DescType
<1>6. Behind(heap.mem, t) = t + (heap.mem[t].v + 1)
  BY <1>3 DEF Behind, BKSIZE
<1>7. heap' = [heap EXCEPT !.root = [heap.root EXCEPT !["XPTR"] = d]]
  <2>1. [c EXCEPT !.a = c.a + 1] = d
    <3> HIDE DEF c
    <3> QED BY <1>2, Readdressed
  <2>2. heap' = [heap EXCEPT !.root = [heap.root EXCEPT !["XPTR"] = [c EXCEPT !.a = c.a + 1]]]
    BY DEF Element
  <2> HIDE DEF d, c
  <2> QED BY <2>1, <2>2
<1>8. d \in Descs /\ d.f = c.f /\ d.a = p + 1
  <2>1. c.f \in SUBSET Flags /\ c.v \in Nat /\ p + 1 \in Nat
    BY <1>2, <1>4 DEF Descs
  <2> HIDE DEF c, p
  <2> QED BY <2>1, PlainDescs
<1> HIDE DEF d, c, p, t
<1>9. InBlock(heap.mem, Titles(heap), d.a)
  <2>1. t <= p + 1 /\ p + 1 < t + (heap.mem[t].v + 1)
    BY <1>3, <1>4, <1>5
  <2> QED BY <1>3, <1>4, <1>6, <1>8, <2>1 DEF InBlock
<1>10. Refers(heap.mem, Titles(heap), d)
  BY <1>4, <1>8, <1>9 DEF Refers
<1>11. RootFits(heap, "XPTR", d)
  BY <1>2, <1>8, <1>10 DEF RootFits
<1> QED BY <1>2, <1>7, <1>11, SetKeeps

LEMMA GENVARKeeps ==
  ASSUME IInv(heap), NEW s \in Strs, GENVAR(s)
  PROVE  IInv(heap')
<1> DEFINE root == [heap.root EXCEPT !["SPECR1"] = Zero]
           H == [heap EXCEPT !.root = root]
<1>1. Sound(heap) /\ DOMAIN heap.root = Roots
  BY SoundFacts DEF IInv, Heaps
<1>2. "SPECR1" \in Roots \ {"OCBSCL"} /\ 0 \in {0} \cup Titles(heap)
  BY DEF Roots, Own
<1>3. RootFits(heap, "SPECR1", Zero)
  BY <1>1, <1>2, PointerFits
<1>4. Rooted(heap, H, root)
  BY <1>2, <1>3, RootSet
<1>5. root.SPECR1 = Zero
  BY <1>1, <1>2
<1>6. Generated(H, s)
  BY DEF GENVAR
<1> HIDE DEF H, root
<1>7. IInv(H) /\ Source(H, s)
  BY <1>4, <1>5 DEF Rooted, Source
<1>8. s \in Nat
  BY StrsAssumption
<1> QED BY <1>6, <1>7, <1>8, Generates

LEMMA COLECTKeeps ==
  ASSUME IInv(heap), COLECT
  PROVE  IInv(heap')
BY RoomKeeps DEF COLECT

-----------------------------------------------------------------------------
(* The operations that write fields or characters.                         *)
LEMMA FunctionSeq ==
  ASSUME NEW n \in Nat, NEW S, NEW f \in [1 .. n -> S]
  PROVE  f \in Seq(S) /\ Len(f) = n
<1>1. f \in Seq(S)
  BY SeqDef
<1>2. DOMAIN f = 1 .. n /\ DOMAIN f = 1 .. Len(f) /\ Len(f) \in Nat
  BY <1>1, LenProperties
<1>3. /\ Cardinality(1 .. Len(f)) = IF 1 > Len(f) THEN 0 ELSE Len(f) - 1 + 1
      /\ Cardinality(1 .. n) = IF 1 > n THEN 0 ELSE n - 1 + 1
  <2>1. Len(f) \in Int /\ n \in Int /\ 1 \in Int
    BY <1>2
  <2> QED BY <2>1, FS_Interval
<1>4. Len(f) = IF 1 > Len(f) THEN 0 ELSE Len(f) - 1 + 1
  BY <1>2
<1>5. n = IF 1 > n THEN 0 ELSE n - 1 + 1
  OBVIOUS
<1>6. 1 .. Len(f) = 1 .. n
  BY <1>2
<1> QED BY <1>1, <1>3, <1>4, <1>5, <1>6

Written(H, m2, t, i) ==
    \/ m2[t + i] = H.mem[t + i]
    \/ i \in Fields(H.mem, t) /\ Refers(H.mem, Titles(H), m2[t + i])
    \/ IsText(H.mem, t, i) /\ m2[t + i].f = CharFlags
Changes(H, m2) ==
    /\ m2 \in Seq(Descs) /\ Len(m2) = Len(H.mem)
    /\ \A t \in Titles(H) : m2[t] = H.mem[t]
    /\ \A t \in Titles(H) : \A i \in 1 .. BKSIZE(H.mem[t]) - 1 : Written(H, m2, t, i)
    /\ \A s \in Strings(H) : /\ Size(m2[s + TEXT].v) = Size(Text(H, s))
                             /\ DOMAIN Raised = {} => m2[s + TEXT].v = Text(H, s)

LEMMA FieldKind ==
  ASSUME NEW H, Sound(H), NEW t \in Titles(H), NEW i \in Fields(H.mem, t)
  PROVE  i \in 1 .. BKSIZE(H.mem[t]) - 1 /\ ~ IsText(H.mem, t, i)
<1>1. i \in 1 .. BKSIZE(H.mem[t]) - 1
  BY FieldType
<1>2. ~ IsText(H.mem, t, i)
  BY DEF IsText, Fields, ATTRIB, TEXT
<1> QED BY <1>1, <1>2

LEMMA ChangesKeep ==
  ASSUME NEW H, IInv(H), NEW m2, Changes(H, m2), NEW G, G = [H EXCEPT !.mem = m2]
  PROVE  /\ IInv(G) /\ G.mem = m2 /\ G.bin = H.bin /\ G.root = H.root /\ G.fault = H.fault
         /\ Titles(G) = Titles(H) /\ Strings(G) = Strings(H)
<1> DEFINE m == H.mem
           X == Titles(H)
<1>1. /\ Sound(H) /\ H \in Heaps /\ m \in Seq(Descs) /\ Tiling(m, X) /\ Titled(m, X) /\ FieldsRight(m, X)
      /\ RootsRight(m, X, H.root)
  BY SoundFacts DEF IInv
<1>2. G.mem = m2 /\ G.bin = H.bin /\ G.root = H.root /\ G.fault = H.fault /\ G \in Heaps
  BY <1>1 DEF Heaps, Changes
<1>3. ShapeKept(m, m2, X)
  <2>1. ASSUME NEW t \in X, NEW i \in Fields(m, t) PROVE Refers(m, X, m2[t + i])
    <3>1. i \in 1 .. BKSIZE(m[t]) - 1 /\ ~ IsText(m, t, i)
      BY <1>1, FieldKind
    <3>2. Written(H, m2, t, i)
      BY <3>1 DEF Changes
    <3>3. Refers(m, X, m[t + i])
      BY <1>1 DEF FieldsRight
    <3> QED BY <3>1, <3>2, <3>3 DEF Written
  <2>2. ASSUME NEW t \in X, NEW i \in (1 .. BKSIZE(m[t]) - 1) \ Fields(m, t), "TTL" \in m2[t + i].f
        PROVE  IsText(m, t, i) /\ "TTL" \in CharFlags
    <3>1. Written(H, m2, t, i)
      BY DEF Changes
    <3>2. CASE m2[t + i] = m[t + i]
      BY <1>1, <2>2, <3>2 DEF Titled
    <3>3. CASE IsText(m, t, i) /\ m2[t + i].f = CharFlags
      BY <2>2, <3>3
    <3> QED BY <3>1, <3>2, <3>3 DEF Written
  <2> QED BY <2>1, <2>2 DEF ShapeKept, Changes
<1>4. ASSUME NEW s \in Strings(H)
      PROVE  /\ m2[s + LNKFLD] = m[s + LNKFLD]
             /\ Size(Text(G, s)) = Size(Text(H, s))
             /\ DOMAIN Raised = {} => Text(G, s) = Text(H, s)
  <2>1. /\ s \in X /\ BKSIZE(m[s]) \in Nat /\ BKSIZE(m[s]) > TEXT /\ Fields(m, s) = 1 .. ATTRIB
    BY <1>1, StringShape
  <2>2. /\ LNKFLD \in 1 .. BKSIZE(m[s]) - 1 /\ LNKFLD \notin Fields(m, s) /\ ~ (LNKFLD >= TEXT)
    BY <2>1 DEF LNKFLD, TEXT, ATTRIB
  <2>3. m2[s + LNKFLD] = m[s + LNKFLD]
    BY <2>1, <2>2 DEF Changes, Written, IsText
  <2> QED BY <1>2, <2>3 DEF Text, Changes
<1>5. Sound(G) /\ Titles(G) = X /\ Strings(G) = Strings(H)
  BY <1>1, <1>2, <1>3, <1>4, Rewritten
<1>6. FRSGPT(G) <= TLSGP1
  BY <1>2 DEF IInv, FRSGPT, Changes
<1>7. ASSUME OwnRight(H) PROVE OwnRight(G)
  <2>1. \A d : Refers(m, X, d) => Refers(m2, X, d)
    <3>1. \A t \in X : m2[t] = m[t]
      BY DEF Changes
    <3> QED BY <3>1, RefersGrows
  <2>2. \A x, d : Stale(H, x, d) => Stale(G, x, d)
    BY <1>2 DEF Stale, Changes
  <2> QED BY <1>2, <1>5, <1>7, <2>1, <2>2 DEF OwnRight
<1>8. Safe(G)
  BY <1>2, <1>7 DEF IInv, Safe
<1> QED BY <1>2, <1>5, <1>6, <1>8 DEF IInv

(* One field.                                                              *)
LEMMA FieldWritten ==
  ASSUME NEW H, IInv(H), NEW t \in Titles(H), NEW i \in Fields(H.mem, t),
         NEW d \in Descs, Refers(H.mem, Titles(H), d)
  PROVE  Changes(H, [H.mem EXCEPT ![t + i] = d])
<1> DEFINE m == H.mem
           m2 == [m EXCEPT ![t + i] = d]
<1>1. Sound(H) /\ H \in Heaps /\ m \in Seq(Descs) /\ Tiling(m, Titles(H))
  BY SoundFacts DEF IInv
<1>2. i \in 1 .. BKSIZE(m[t]) - 1 /\ t + i \in 1 .. Len(m) /\ ~ IsText(m, t, i)
  BY <1>1, FieldType, FieldKind
<1>3. /\ m2 \in Seq(Descs) /\ Len(m2) = Len(m)
      /\ \A a \in 1 .. Len(m) : m2[a] = IF a = t + i THEN d ELSE m[a]
  BY <1>1, <1>2, ExceptSeq
<1> HIDE DEF m2
<1>4. ASSUME NEW u \in Titles(H), NEW j \in 0 .. BKSIZE(m[u]) - 1, ~(u = t /\ j = i)
      PROVE  m2[u + j] = m[u + j]
  <2>1. i \in 0 .. BKSIZE(m[t]) - 1
    BY <1>2
  <2>2. u + j # t + i
    BY <1>1, <1>4, <2>1, Apart
  <2>3. u + j \in 1 .. Len(m)
    <3>1. /\ u \in Nat /\ u >= 1 /\ BKSIZE(m[u]) \in Nat /\ Behind(m, u) = u + BKSIZE(m[u])
          /\ Behind(m, u) <= Len(m) + 1 /\ Len(m) \in Nat
      BY <1>1, TilingType
    <3> QED BY <3>1
  <2> QED BY <1>3, <2>2, <2>3
<1>5. ASSUME NEW u \in Titles(H) PROVE m2[u] = m[u]
  <2>1. u \in Nat /\ BKSIZE(m[u]) \in Nat /\ BKSIZE(m[u]) >= 1
    BY <1>1, BlockType
  <2>2. 0 \in 0 .. BKSIZE(m[u]) - 1 /\ u + 0 = u /\ 0 # i
    BY <1>2, <2>1
  <2> QED BY <1>4, <2>2
<1>6. ASSUME NEW u \in Titles(H), NEW j \in 1 .. BKSIZE(m[u]) - 1 PROVE Written(H, m2, u, j)
  <2>1. CASE u = t /\ j = i
    BY <1>2, <1>3, <2>1 DEF Written
  <2>2. CASE ~(u = t /\ j = i)
    BY <1>4, <2>2 DEF Written
  <2> QED BY <2>1, <2>2
<1>7. ASSUME NEW s \in Strings(H) PROVE m2[s + TEXT] = m[s + TEXT]
  <2>1. s \in Titles(H) /\ BKSIZE(m[s]) \in Nat /\ BKSIZE(m[s]) > TEXT /\ "STTL" \in m[s].f
    BY <1>1, StringShape
  <2>2. TEXT \in 0 .. BKSIZE(m[s]) - 1 /\ TEXT >= TEXT
    BY <2>1 DEF TEXT
  <2>3. ~(s = t /\ TEXT = i)
    BY <1>2, <2>1, <2>2 DEF IsText
  <2> QED BY <1>4, <2>1, <2>2, <2>3
<1>8. Changes(H, m2)
  BY <1>3, <1>5, <1>6, <1>7 DEF Changes, Text
<1> QED BY <1>8 DEF m2

LEMMA AssignKeeps ==
  ASSUME IInv(heap), NEW y \in Stack, Assign(y)
  PROVE  IInv(heap')
<1>1. PICK t \in Titles(heap) : \E i \in Fields(heap.mem, t) : heap.root[y].a + 1 = t + i
  BY NamedField DEF Assign
<1>2. PICK i \in Fields(heap.mem, t) : heap.root[y].a + 1 = t + i
  BY <1>1
<1>3. heap.root.XPTR \in Descs /\ Refers(heap.mem, Titles(heap), heap.root.XPTR)
  BY SeenRefers
<1> DEFINE m2 == [heap.mem EXCEPT ![t + i] = heap.root.XPTR]
<1>4. Changes(heap, m2)
  BY <1>3, FieldWritten
<1>5. heap' = [heap EXCEPT !.mem = m2]
  BY <1>2 DEF Assign
<1> HIDE DEF m2
<1> QED BY <1>4, <1>5, ChangesKeep

LEMMA LabelKeeps ==
  ASSUME IInv(heap), NEW y \in Stack, Label(y)
  PROVE  IInv(heap')
<1> DEFINE p == heap.root[y].a
           m2 == [heap.mem EXCEPT ![p + ATTRIB] = heap.root.XPTR]
<1>1. p \in Titles(heap) /\ ATTRIB \in Fields(heap.mem, p)
  <2>1. p \in Strings(heap) /\ Sound(heap)
    BY SeenString DEF Label, IInv
  <2> QED BY <2>1, StringType
<1>2. heap.root.XPTR \in Descs /\ Refers(heap.mem, Titles(heap), heap.root.XPTR)
  BY SeenRefers
<1>3. Changes(heap, m2)
  <2> HIDE DEF p
  <2> QED BY <1>1, <1>2, FieldWritten
<1>4. heap' = [heap EXCEPT !.mem = m2]
  BY DEF Label
<1> HIDE DEF m2
<1> QED BY <1>3, <1>4, ChangesKeep

(* Storage as a function of what was there.                                *)
LEMMA PlaceIn ==
  ASSUME NEW H, Sound(H), NEW u \in Titles(H), NEW j \in 0 .. BKSIZE(H.mem[u]) - 1
  PROVE  u + j \in 1 .. Len(H.mem) /\ u + j \in Nat
<1>1. /\ u \in Nat /\ u >= 1 /\ BKSIZE(H.mem[u]) \in Nat /\ Behind(H.mem, u) = u + BKSIZE(H.mem[u])
      /\ Behind(H.mem, u) <= Len(H.mem) + 1 /\ Len(H.mem) \in Nat
  BY BlockType
<1> QED BY <1>1

LEMMA CLEARKeeps ==
  ASSUME IInv(heap), CLEAR
  PROVE  IInv(heap')
<1> DEFINE m == heap.mem
           n == Len(m)
           S == Strings(heap)
           m2 == [a \in 1 .. n |-> IF a - 1 \in S THEN Zero ELSE m[a]]
<1>1. /\ Sound(heap) /\ heap \in Heaps /\ m \in Seq(Descs) /\ Tiling(m, Titles(heap)) /\ n \in Nat
      /\ DOMAIN m = 1 .. n /\ \A a \in 1 .. n : m[a] \in Descs
  <2>1. Sound(heap) /\ heap \in Heaps /\ Tiling(m, Titles(heap))
    BY SoundFacts DEF IInv
  <2> QED BY <2>1, HeapType
<1>2. Chained(heap) = S
  <2>1. PICK k \in Nat : \E ord : Linked(heap, S, ord, k)
    BY <1>1, SoundFacts DEF Chain
  <2> QED BY <2>1, ChainedAre
<1>3. heap' = [heap EXCEPT !.mem = m2]
  BY <1>1, <1>2 DEF CLEAR
<1>4. m2 \in Seq(Descs) /\ Len(m2) = n
  <2>1. m2 \in [1 .. n -> Descs]
    BY <1>1, PlainDescs
  <2> HIDE DEF m2, n
  <2> QED BY <1>1, <2>1, FunctionSeq
<1>5. \A a \in 1 .. n : m2[a] = IF a - 1 \in S THEN Zero ELSE m[a]
  OBVIOUS
<1> HIDE DEF m2
<1>6. ASSUME NEW u \in Titles(heap), NEW j \in 0 .. BKSIZE(m[u]) - 1
      PROVE  m2[u + j] = m[u + j] \/ (m2[u + j] = Zero /\ j = 1 /\ u \in S)
  <2>1. u + j \in 1 .. n
    BY <1>1, PlaceIn
  <2>2. ASSUME (u + j) - 1 \in S PROVE j = 1 /\ u \in S
    <3> DEFINE s == (u + j) - 1
    <3>1. s \in S /\ u + j = s + 1 /\ s \in Titles(heap) /\ s \in Nat
      <4>1. u + j \in Nat
        BY <1>1, <2>1
      <4>2. s \in S /\ s \in Nat /\ s \in Titles(heap)
        BY <1>1, <2>2, StringShape
      <4> QED BY <4>1, <4>2
    <3> HIDE DEF s
    <3>2. 1 \in 0 .. BKSIZE(m[s]) - 1
      <4>1. BKSIZE(m[s]) \in Nat /\ BKSIZE(m[s]) > TEXT
        BY <1>1, <3>1, StringShape
      <4> QED BY <4>1 DEF TEXT
    <3>3. u = s /\ j = 1
      BY <1>1, <3>1, <3>2, Apart
    <3> QED BY <3>1, <3>3
  <2> QED BY <1>5, <2>1, <2>2
<1>7. ASSUME NEW u \in Titles(heap) PROVE m2[u] = m[u]
  <2>1. u \in Nat /\ BKSIZE(m[u]) \in Nat /\ BKSIZE(m[u]) >= 1
    BY <1>1, BlockType
  <2>2. 0 \in 0 .. BKSIZE(m[u]) - 1 /\ u + 0 = u
    BY <2>1
  <2> QED BY <1>6, <2>2
<1>8. ASSUME NEW u \in Titles(heap), NEW j \in 1 .. BKSIZE(m[u]) - 1 PROVE Written(heap, m2, u, j)
  <2>1. j \in 0 .. BKSIZE(m[u]) - 1
    OBVIOUS
  <2>2. CASE m2[u + j] = m[u + j]
    BY <2>2 DEF Written
  <2>3. CASE m2[u + j] = Zero /\ j = 1 /\ u \in S
    <3>1. j \in Fields(m, u)
      BY <1>1, <2>3, StringType
    <3>2. Refers(m, Titles(heap), Zero)
      BY PlainDescs DEF Refers
    <3> QED BY <2>3, <3>1, <3>2 DEF Written
  <2> QED BY <1>6, <2>1, <2>2, <2>3
<1>9. ASSUME NEW s \in S PROVE m2[s + TEXT] = m[s + TEXT]
  <2>1. s \in Titles(heap) /\ BKSIZE(m[s]) \in Nat /\ BKSIZE(m[s]) > TEXT
    BY <1>1, StringShape
  <2>2. TEXT \in 0 .. BKSIZE(m[s]) - 1 /\ TEXT # 1
    BY <2>1 DEF TEXT
  <2> QED BY <1>6, <2>1, <2>2
<1>10. Changes(heap, m2)
  BY <1>4, <1>7, <1>8, <1>9 DEF Changes, Text
<1> QED BY <1>3, <1>10, ChangesKeep

(* The characters of one string.                                           *)
LEMMA TextWritten ==
  ASSUME NEW H, IInv(H), NEW p \in Strings(H), NEW up \in Nat, Size(up) = Size(Text(H, p)),
         DOMAIN Raised = {} => up = Text(H, p),
         NEW m2, m2 = [a \in DOMAIN H.mem |-> IF a \in p + TEXT .. p + Size(Text(H, p)) - 1
                                              THEN Char(up) ELSE H.mem[a]]
  PROVE  Changes(H, m2) /\ m2[p + TEXT].v = up
<1> DEFINE m == H.mem
           n == Len(m)
           k == Size(Text(H, p))
           In(a) == a \in p + TEXT .. p + k - 1
<1>1. /\ Sound(H) /\ H \in Heaps /\ m \in Seq(Descs) /\ Tiling(m, Titles(H)) /\ n \in Nat
      /\ DOMAIN m = 1 .. n /\ \A a \in 1 .. n : m[a] \in Descs
  <2>1. Sound(H) /\ H \in Heaps /\ Tiling(m, Titles(H))
    BY SoundFacts DEF IInv
  <2> QED BY <2>1, HeapType
<1>2. Char(up) \in Descs /\ Char(up).f = CharFlags /\ Char(up).v = up
  BY PlainDescs
<1>3. m2 \in Seq(Descs) /\ Len(m2) = n
  <2>1. m2 \in [1 .. n -> Descs]
    BY <1>1, <1>2
  <2> HIDE DEF n
  <2> QED BY <1>1, <2>1, FunctionSeq
<1>4. \A a \in 1 .. n : m2[a] = IF In(a) THEN Char(up) ELSE m[a]
  BY <1>1
<1>5. /\ p \in Titles(H) /\ p \in Nat /\ p >= 1 /\ BKSIZE(m[p]) = k /\ k \in Nat /\ k > TEXT
      /\ "STTL" \in m[p].f
  BY <1>1, StringShape, SoundFacts
<1> HIDE DEF k
<1>6. ASSUME NEW u \in Titles(H), NEW j \in 0 .. BKSIZE(m[u]) - 1
      PROVE  m2[u + j] = m[u + j] \/ (m2[u + j] = Char(up) /\ u = p /\ j >= TEXT)
  <2>1. u + j \in 1 .. n /\ u + j \in Nat
    BY <1>1, PlaceIn
  <2>2. ASSUME In(u + j) PROVE u = p /\ j >= TEXT
    <3> DEFINE i == (u + j) - p
    <3>1. i \in 0 .. k - 1 /\ i >= TEXT /\ u + j = p + i
      <4> DEFINE a == u + j
      <4>1. a \in Nat /\ p \in Nat /\ k \in Nat /\ p + TEXT <= a /\ a <= p + k - 1
        BY <1>5, <2>1, <2>2 DEF TEXT
      <4> HIDE DEF a
      <4>2. a - p \in 0 .. k - 1 /\ a - p >= TEXT /\ a = p + (a - p)
        BY <4>1 DEF TEXT
      <4> QED BY <4>2 DEF a
    <3> HIDE DEF i
    <3>2. u = p /\ j = i
      BY <1>1, <1>5, <3>1, Apart
    <3> QED BY <3>1, <3>2
  <2> QED BY <1>4, <2>1, <2>2
<1>7. ASSUME NEW u \in Titles(H) PROVE m2[u] = m[u]
  <2>1. u \in Nat /\ BKSIZE(m[u]) \in Nat /\ BKSIZE(m[u]) >= 1
    BY <1>1, BlockType
  <2>2. 0 \in 0 .. BKSIZE(m[u]) - 1 /\ u + 0 = u /\ ~(0 >= TEXT)
    BY <2>1 DEF TEXT
  <2> QED BY <1>6, <2>2
<1>8. ASSUME NEW u \in Titles(H), NEW j \in 1 .. BKSIZE(m[u]) - 1 PROVE Written(H, m2, u, j)
  <2>1. j \in 0 .. BKSIZE(m[u]) - 1
    OBVIOUS
  <2> QED BY <1>2, <1>5, <1>6, <2>1 DEF Written, IsText
<1>9. m2[p + TEXT] = Char(up)
  <2>1. TEXT \in 0 .. BKSIZE(m[p]) - 1 /\ p + TEXT \in p + TEXT .. p + k - 1
    BY <1>5 DEF TEXT
  <2>2. p + TEXT \in 1 .. n
    BY <1>1, <1>5, <2>1, PlaceIn
  <2> QED BY <1>4, <2>1, <2>2
<1>10. ASSUME NEW s \in Strings(H), s # p PROVE m2[s + TEXT] = m[s + TEXT]
  <2>1. s \in Titles(H) /\ BKSIZE(m[s]) \in Nat /\ BKSIZE(m[s]) > TEXT
    BY <1>1, StringShape
  <2>2. TEXT \in 0 .. BKSIZE(m[s]) - 1
    BY <2>1 DEF TEXT
  <2> QED BY <1>6, <1>10, <2>1, <2>2
<1>11. ASSUME NEW s \in Strings(H)
       PROVE  /\ Size(m2[s + TEXT].v) = Size(Text(H, s))
              /\ DOMAIN Raised = {} => m2[s + TEXT].v = Text(H, s)
  <2>1. CASE s = p
    BY <1>2, <1>9, <2>1
  <2>2. CASE s # p
    BY <1>10, <2>2 DEF Text
  <2> QED BY <2>1, <2>2
<1>12. Changes(H, m2)
  BY <1>3, <1>7, <1>8, <1>11 DEF Changes
<1> QED BY <1>2, <1>9, <1>12

LEMMA GENVUPKeeps ==
  ASSUME IInv(heap), NEW y \in Stack, GENVUP(y)
  PROVE  IInv(heap')
<1> DEFINE p == heap.root[y].a
           s == Text(heap, p)
           up == IF s \in DOMAIN Raised THEN Raised[s] ELSE s
           m2 == [a \in DOMAIN heap.mem |-> IF a \in p + TEXT .. p + Size(s) - 1
                                            THEN Char(up) ELSE heap.mem[a]]
           G == [heap EXCEPT !.mem = m2]
           root == [G.root EXCEPT !["SPECR1"] = Ptr(p)]
           K == [G EXCEPT !.root = root]
<1>1. Sound(heap) /\ heap \in Heaps
  BY SoundFacts DEF IInv
<1>2. p \in Strings(heap)
  BY SeenString DEF GENVUP
<1>3. Generated(K, PartOf(up))
  <2>1. K = [heap EXCEPT !.root.SPECR1 = Ptr(p), !.mem = m2]
    <3> HIDE DEF m2, p
    <3> QED BY <1>1 DEF Heaps
  <2>2. Generated([heap EXCEPT !.root.SPECR1 = Ptr(p), !.mem = m2], PartOf(up))
    BY DEF GENVUP
  <2> HIDE DEF m2, p, up, K
  <2> QED BY <2>1, <2>2
<1>4. p \in Titles(heap) /\ p \in Nat /\ p # 0 /\ s \in Nat
  <2>1. p \in 1 .. Len(heap.mem) /\ p \in Titles(heap) /\ p \in Nat /\ s \in Nat
    <3> HIDE DEF p
    <3> QED BY <1>1, <1>2, StringType
  <2> HIDE DEF p
  <2> QED BY <2>1
<1> HIDE DEF p
<1>5. up \in Nat /\ Size(up) = Size(s) /\ (DOMAIN Raised = {} => up = s)
  <2>1. s \in DOMAIN Raised => Raised[s] \in Nat /\ Size(Raised[s]) = Size(s)
    <3>1. s \in DOMAIN Raised => Raised[s] \in Range(Raised)
      BY DEF Range
    <3> QED BY <3>1, StringsAssumption
  <2> QED BY <1>4, <2>1
<1> HIDE DEF up
<1>6. Changes(heap, m2) /\ m2[p + TEXT].v = up
  BY <1>2, <1>5, TextWritten
<1> HIDE DEF m2
<1>7. /\ IInv(G) /\ Sound(G) /\ G.mem = m2 /\ Titles(G) = Titles(heap) /\ Strings(G) = Strings(heap)
  <2>1. IInv(G) /\ G.mem = m2 /\ Titles(G) = Titles(heap) /\ Strings(G) = Strings(heap)
    BY <1>6, ChangesKeep
  <2> QED BY <2>1 DEF IInv
<1>8. Text(G, p) = up
  BY <1>6, <1>7 DEF Text
<1> HIDE DEF G
<1>9. "SPECR1" \in Roots \ {"OCBSCL"}
  BY DEF Roots, Own
<1>10. RootFits(G, "SPECR1", Ptr(p))
  BY <1>4, <1>7, <1>9, PointerFits
<1>11. Rooted(G, K, root)
  BY <1>7, <1>9, <1>10, RootSet
<1>12. root.SPECR1 = Ptr(p) /\ Ptr(p).a = p /\ IsPtr(Ptr(p))
  <2>1. DOMAIN G.root = Roots
    BY <1>7, SoundFacts DEF Heaps
  <2>2. Ptr(p).a = p /\ Ptr(p).f = {"PTR"}
    BY <1>4, PlainDescs
  <2> QED BY <1>4, <1>9, <2>1, <2>2 DEF IsPtr
<1> HIDE DEF root, K
<1>13. IInv(K) /\ Source(K, PartOf(up))
  <2>1. /\ IInv(K) /\ K.mem = G.mem /\ K.root = root /\ Strings(K) = Strings(G)
    BY <1>11 DEF Rooted
  <2>2. Text(K, p) = up
    BY <1>8, <2>1 DEF Text
  <2> QED BY <1>2, <1>7, <1>12, <2>1, <2>2 DEF Source
<1>14. PartOf(up) \in Nat
  <2>1. up \in DOMAIN Part => Part[up] \in Range(Part)
    BY DEF Range
  <2> QED BY <1>5, <2>1, StringsAssumption DEF PartOf
<1> QED BY <1>3, <1>13, <1>14, Generates

-----------------------------------------------------------------------------
(* BLOCK.                                                                  *)
LEMMA ChainSame ==
  ASSUME NEW H, NEW E, NEW S, Chain(H, S), E.bin = H.bin,
         \A s \in S : E.mem[s + LNKFLD] = H.mem[s + LNKFLD] /\ Text(E, s) = Text(H, s)
  PROVE  Chain(E, S)
<1>1. \A a \in {0} \cup S : LinkOf(E, a) = LinkOf(H, a)
  BY DEF LinkOf
<1>2. \A s \in S : Key(E, s) = Key(H, s)
  BY DEF Key
<1>3. PICK n \in Nat : \E ord : Linked(H, S, ord, n) /\ (DOMAIN Raised = {} => Filed(H, S, ord))
  BY DEF Chain
<1>4. PICK ord : Linked(H, S, ord, n) /\ (DOMAIN Raised = {} => Filed(H, S, ord))
  BY <1>3
<1>5. Linked(E, S, ord, n)
  BY <1>1, <1>4 DEF Linked
<1>6. DOMAIN Raised = {} => Filed(E, S, ord)
  BY <1>2, <1>4 DEF Filed
<1> QED BY <1>5, <1>6 DEF Chain

IsBlock(st, t, n) ==
    /\ st \in Seq(Descs) /\ Len(st) = n + 1 /\ st[1] = D(t, {"TTL"}, n)
    /\ \A i \in 1 .. n : st[1 + i] = Zero

LEMMA BlockIs ==
  ASSUME NEW t \in Nat, NEW n \in Nat, NEW m \in Seq(Descs)
  PROVE  \E st : IsBlock(st, t, n) /\ m \o <<Title(t, {"TTL"}, n)>> \o Zeros(n) = m \o st
<1> DEFINE d == Title(t, {"TTL"}, n)
           head == <<d>>
           rest == Zeros(n)
           st == head \o rest
<1>1. d = D(t, {"TTL"}, n) /\ d \in Descs /\ Zero \in Descs
  BY PlainDescs DEF Title
<1> HIDE DEF d
<1>2. head \in Seq(Descs) /\ Len(head) = 1 /\ head[1] = d
  BY <1>1
<1>3. rest \in Seq(Descs) /\ Len(rest) = n
  <2>1. rest \in [1 .. n -> Descs]
    BY <1>1 DEF Zeros
  <2> HIDE DEF rest
  <2> QED BY <2>1, FunctionSeq
<1>4. \A i \in 1 .. n : rest[i] = Zero
  BY DEF Zeros
<1> HIDE DEF head, rest
<1>5. /\ st \in Seq(Descs) /\ Len(st) = 1 + n
      /\ \A i \in 1 .. 1 + n : st[i] = IF i <= 1 THEN head[i] ELSE rest[i - 1]
  <2>1. head \in Seq(Descs) /\ rest \in Seq(Descs)
    BY <1>2, <1>3
  <2>2. /\ head \o rest \in Seq(Descs) /\ Len(head \o rest) = Len(head) + Len(rest)
        /\ \A i \in 1 .. Len(head) + Len(rest) :
             (head \o rest)[i] = IF i <= Len(head) THEN head[i] ELSE rest[i - Len(head)]
    BY ONLY <2>1, ConcatProperties
  <2>3. /\ st \in Seq(Descs) /\ Len(st) = Len(head) + Len(rest)
        /\ \A i \in 1 .. Len(head) + Len(rest) :
             st[i] = IF i <= Len(head) THEN head[i] ELSE rest[i - Len(head)]
    BY <2>2
  <2> HIDE DEF st
  <2> QED BY <1>2, <1>3, <2>3
<1>6. (m \o head) \o rest = m \o st
  BY <1>2, <1>3, ConcatAssociative
<1> HIDE DEF st
<1>7. st[1] = d
  <2>1. 1 \in 1 .. 1 + n /\ 1 <= 1
    OBVIOUS
  <2> QED BY <1>2, <1>5, <2>1
<1>8. ASSUME NEW i \in 1 .. n PROVE st[1 + i] = Zero
  <2>1. 1 + i \in 1 .. 1 + n /\ ~(1 + i <= 1) /\ (1 + i) - 1 = i
    OBVIOUS
  <2> QED BY <1>4, <1>5, <2>1
<1>9. IsBlock(st, t, n)
  BY <1>1, <1>5, <1>7, <1>8 DEF IsBlock
<1> QED BY <1>6, <1>9 DEF head, rest, d

LEMMA BlockKeeps ==
  ASSUME NEW G, IInv(G), NEW n \in Nat, Fits(G, n + 1), NEW t, t = Len(G.mem) + 1,
         NEW st, IsBlock(st, t, n), NEW E, E = [G EXCEPT !.mem = G.mem \o st, !.root.XPTR = Ptr(t)]
  PROVE  IInv(E)
<1> DEFINE X == Titles(G)
           m == G.mem \o st
           Z == X \cup {t}
           root == [G.root EXCEPT !.XPTR = Ptr(t)]
<1>1. /\ Sound(G) /\ G \in Heaps /\ Safe(G) /\ Len(G.mem) \in Nat /\ t \in Nat /\ Chain(G, Strings(G))
      /\ RootsRight(G.mem, X, G.root) /\ G.root \in [Roots -> Descs]
      /\ \A s \in Strings(G) : BKSIZE(G.mem[s]) = Size(Text(G, s))
  <2>1. Sound(G) /\ G \in Heaps /\ Safe(G)
    BY SoundFacts DEF IInv
  <2>2. Len(G.mem) \in Nat
    BY <2>1, HeapType
  <2> QED BY <2>1, <2>2, SoundFacts DEF Heaps
<1>2. AddedTo(G, st)
  <2>1. st[1].f = {"TTL"} /\ st[1].a = t /\ st[1].v = n /\ BKSIZE(st[1]) = n + 1
    BY <1>1, PlainDescs DEF IsBlock, BKSIZE
  <2>2. Fields(st, 1) = 1 .. n
    BY <2>1 DEF Fields
  <2>3. Refers(G.mem, X, Zero)
    BY PlainDescs DEF Refers
  <2>4. Len(st) >= 1 /\ (1 .. Len(st) - 1) \ Fields(st, 1) = {}
    BY <2>2 DEF IsBlock
  <2> QED BY <2>1, <2>2, <2>3, <2>4 DEF AddedTo, IsBlock
<1>3. IsAdded(G, st, m, t)
  BY <1>1, <1>2, Added
<1> HIDE DEF m
<1>4. /\ m \in Seq(Descs) /\ Len(m) = Len(G.mem) + (n + 1)
      /\ \A a \in 1 .. Len(G.mem) : m[a] = G.mem[a]
      /\ Tiling(m, Z) /\ Titled(m, Z) /\ FieldsRight(m, Z)
      /\ \A d : Refers(G.mem, X, d) => Refers(m, Z, d)
      /\ m[t] = D(t, {"TTL"}, n)
  BY <1>3 DEF IsAdded, IsBlock
<1>5. StringsIn(m, Z) = Strings(G)
  <2>1. "STTL" \notin st[1].f
    BY <1>1, PlainDescs DEF IsBlock
  <2> QED BY <1>3, <2>1 DEF IsAdded
<1>6. root \in [Roots -> Descs] /\ Ptr(t) \in Descs /\ Ptr(t).a = t /\ Ptr(t).f = {"PTR"}
      /\ \A x \in Roots : root[x] = IF x = "XPTR" THEN Ptr(t) ELSE G.root[x]
  BY <1>1, PlainDescs
<1> HIDE DEF root
<1>7. E.mem = m /\ E.bin = G.bin /\ E.root = root /\ E.fault = G.fault /\ E \in Heaps
  <2>1. E = [mem |-> m, bin |-> G.bin, root |-> root, fault |-> G.fault]
    BY <1>1 DEF Heaps, m, root
  <2>2. G.bin \in Nat /\ G.fault \in BOOLEAN
    BY <1>1 DEF Heaps
  <2>3. E.mem = m /\ E.bin = G.bin /\ E.root = root /\ E.fault = G.fault
    BY ONLY <2>1
  <2>4. [mem |-> m, bin |-> G.bin, root |-> root, fault |-> G.fault] \in Heaps
    BY <1>4, <1>6, <2>2 DEF Heaps
  <2> QED BY <2>1, <2>3, <2>4
<1> HIDE DEF Z
<1>8. RootsRight(m, Z, root)
  <2>1. Refers(m, Z, Ptr(t))
    BY <1>6 DEF Refers, InBlock, Z
  <2>2. root.OCBSCL = Ptr(1)
    BY <1>1, <1>6 DEF RootsRight, Roots, Own
  <2>3. \A x \in Stack \cup {"XPTR"} : Refers(m, Z, root[x])
    BY <1>1, <1>4, <1>6, <2>1 DEF RootsRight, Roots
  <2> QED BY <2>2, <2>3 DEF RootsRight
<1>9. ASSUME NEW s \in Strings(G)
      PROVE  m[s] = G.mem[s] /\ m[s + LNKFLD] = G.mem[s + LNKFLD] /\ m[s + TEXT] = G.mem[s + TEXT]
  <2>1. LNKFLD \in 0 .. TEXT /\ TEXT \in 0 .. TEXT
    BY DEF LNKFLD, TEXT
  <2>2. s \in 1 .. Len(G.mem) /\ s + LNKFLD \in 1 .. Len(G.mem) /\ s + TEXT \in 1 .. Len(G.mem)
    BY <1>1, <2>1, StringShape, StringType
  <2> QED BY <1>4, <2>2
<1>10. \A s \in StringsIn(m, Z) : BKSIZE(m[s]) = Size(Text(E, s))
  BY <1>1, <1>5, <1>7, <1>9 DEF Text
<1>11. Shaped(E, Z)
  BY <1>4, <1>7, <1>8, <1>10 DEF Shaped
<1>12. Chain(E, StringsIn(m, Z))
  <2>1. \A s \in Strings(G) : E.mem[s + LNKFLD] = G.mem[s + LNKFLD] /\ Text(E, s) = Text(G, s)
    BY <1>7, <1>9 DEF Text
  <2>2. Chain(E, Strings(G))
    <3>1. Chain(G, Strings(G)) /\ E.bin = G.bin
      BY <1>1, <1>7
    <3> DEFINE S == Strings(G)
    <3>2. Chain(G, S) /\ E.bin = G.bin
          /\ \A s \in S : E.mem[s + LNKFLD] = G.mem[s + LNKFLD] /\ Text(E, s) = Text(G, s)
      BY <2>1, <3>1
    <3> HIDE DEF S
    <3>3. Chain(E, S)
      BY ONLY <3>2, ChainSame
    <3> QED BY <3>3 DEF S
  <2> QED BY <1>5, <2>2
<1>13. Sound(E) /\ Titles(E) = Z
  BY <1>7, <1>11, <1>12, SoundFrom
<1>14. FRSGPT(E) <= TLSGP1
  <2>1. FRSGPT(E) = FRSGPT(G) + (n + 1)
    <3>1. FRSGPT(E) = Len(G.mem) + (n + 1) + 1 /\ FRSGPT(G) = Len(G.mem) + 1
      BY <1>4, <1>7 DEF FRSGPT
    <3> DEFINE N == Len(G.mem)
    <3>2. N \in Nat
      BY <1>1
    <3> HIDE DEF N
    <3>3. N + (n + 1) + 1 = (N + 1) + (n + 1)
      BY <3>2
    <3> QED BY <3>1, <3>3 DEF N
  <2> QED BY <2>1 DEF Fits
<1>15. ASSUME ~ CaseFolds PROVE OwnRight(E)
  <2>1. OwnRight(G)
    BY <1>1, <1>15 DEF Safe
  <2>2. ASSUME NEW x \in Own, IsPtr(E.root[x])
        PROVE  Refers(m, Z, E.root[x]) \/ Stale(E, x, E.root[x])
    <3> DEFINE d == E.root[x]
    <3>1. x \in Roots /\ x # "XPTR"
      BY DEF Roots, Own
    <3>2. d = G.root[x] /\ d \in Descs
      <4>1. d = G.root[x]
        BY <1>6, <1>7, <3>1
      <4> QED BY <1>1, <3>1, <4>1
    <3>3. Refers(G.mem, X, d) \/ Stale(G, x, d)
      BY <2>1, <2>2, <3>2 DEF OwnRight
    <3> HIDE DEF d
    <3>4. CASE Refers(G.mem, X, d)
      BY <1>4, <3>4 DEF d
    <3>5. CASE Stale(G, x, d)
      <4>1. d.a \in Nat /\ d.a > Len(G.mem) /\ "TTL" \notin d.f /\ x = "SPECR1"
        BY <3>2, <3>5, DescType DEF Stale
      <4>2. CASE d.a > Len(m)
        BY <1>7, <4>1, <4>2 DEF Stale, d
      <4>3. CASE d.a <= Len(m)
        <5>1. BKSIZE(m[t]) = n + 1 /\ "STTL" \notin m[t].f
          BY <1>1, <1>4, PlainDescs DEF BKSIZE
        <5>2. t <= d.a /\ d.a < t + (n + 1)
          BY <1>1, <1>4, <4>1, <4>3
        <5>3. InBlock(m, Z, d.a)
          BY <5>1, <5>2 DEF InBlock, Behind, Z
        <5> QED BY <2>2, <4>1, <5>3 DEF Refers, IsPtr, d
      <4>4. Len(m) \in Nat
        BY <1>1, <1>4
      <4> QED BY <4>1, <4>2, <4>3, <4>4
    <3> QED BY <3>3, <3>4, <3>5
  <2> QED BY <1>7, <1>13, <2>2 DEF OwnRight
<1>16. Safe(E)
  BY <1>1, <1>7, <1>15 DEF Safe
<1> QED BY <1>13, <1>14, <1>16 DEF IInv

LEMMA BLOCKKeeps ==
  ASSUME IInv(heap), NEW n \in BlockSizes, BLOCK(n)
  PROVE  IInv(heap')
<1> DEFINE G == Room(heap, n + 1)
           t == Len(G.mem) + 1
           E == [G EXCEPT !.mem = G.mem \o <<Title(t, {"TTL"}, n)>> \o Zeros(n), !.root.XPTR = Ptr(t)]
<1>1. With(G, n + 1, E)
  BY DEF BLOCK, FRSGPT
<1>2. n \in Nat
  BY SizesAssumption
<1>3. IInv(G)
  BY RoomKeeps
<1> HIDE DEF G
<1>4. CASE G.fault
  BY <1>1, <1>3, <1>4 DEF With
<1>5. CASE ~ G.fault
  <2>1. Fits(G, n + 1) /\ heap' = E
    BY <1>1, <1>5 DEF With
  <2>2. G \in Heaps /\ G.mem \in Seq(Descs) /\ t \in Nat
    <3>1. G \in Heaps
      BY <1>3, SoundFacts DEF IInv
    <3> QED BY <3>1, HeapType
  <2>3. PICK st : IsBlock(st, t, n) /\ G.mem \o <<Title(t, {"TTL"}, n)>> \o Zeros(n) = G.mem \o st
    BY <1>2, <2>2, BlockIs
  <2>4. E = [G EXCEPT !.mem = G.mem \o st, !.root.XPTR = Ptr(t)]
    BY <2>3
  <2> HIDE DEF E, t
  <2>5. t = Len(G.mem) + 1
    BY DEF t
  <2>6. IInv(E)
    BY <1>2, <1>3, <2>1, <2>3, <2>4, <2>5, BlockKeeps
  <2> QED BY <2>1, <2>6
<1> QED BY <1>4, <1>5

-----------------------------------------------------------------------------
(* The users of CONVAR.                                                    *)
LEMMA DUPLKeeps ==
  ASSUME IInv(heap), DUPL
  PROVE  IInv(heap')
<1> DEFINE p == heap.root.XPTR.a
           s == Text(heap, p)
           root == [heap.root EXCEPT !["XSP"] = Ptr(p)]
           H == [heap EXCEPT !.root = root]
           k == Size(Twice[s])
           G == Room(H, k)
           free == FRSGPT(G)
           mark == [G.root EXCEPT !["TSP"] = Scratch(free)]
           Z == [G EXCEPT !.root = mark]
           copy == Twice[Text(G, G.root.XSP.a)]
<1>1. Sound(heap) /\ heap \in Heaps /\ DOMAIN heap.root = Roots
  BY SoundFacts DEF IInv, Heaps
<1>2. p \in Strings(heap) /\ s \in DOMAIN Twice
  BY SeenString DEF DUPL
<1>3. \/ G.fault /\ heap' = G
      \/ ~ G.fault /\ Fits(G, k) /\ GNVARS(Z, CONVAR(Z, copy, Zero, Zero), copy)
  BY DEF DUPL
<1> HIDE DEF p, copy
<1>4. p \in Titles(heap) /\ p \in Nat /\ p # 0
  <2>1. p \in 1 .. Len(heap.mem) /\ p \in Titles(heap) /\ p \in Nat
    BY <1>1, <1>2, StringType
  <2> QED BY <2>1
<1>5. "XSP" \in Roots \ {"OCBSCL"} /\ "TSP" \in Roots /\ "TSP" # "OCBSCL" /\ "TSP" \notin Stack \cup {"XPTR"}
  BY StackAssumption DEF Roots, Own
<1>6. RootFits(heap, "XSP", Ptr(p))
  BY <1>1, <1>4, <1>5, PointerFits
<1>7. Rooted(heap, H, root)
  BY <1>5, <1>6, RootSet
<1>8. root.XSP = Ptr(p) /\ Ptr(p).a = p /\ IsPtr(Ptr(p))
  <2>1. Ptr(p).a = p /\ Ptr(p).f = {"PTR"}
    BY <1>4, PlainDescs
  <2> QED BY <1>1, <1>4, <1>5, <2>1 DEF IsPtr
<1> HIDE DEF root, H
<1>9. /\ IInv(H) /\ p \in Strings(H) /\ Text(H, p) = s /\ H.root.XSP.a = p /\ IsPtr(H.root.XSP)
  BY <1>2, <1>7, <1>8 DEF Rooted, Text
<1>10. IInv(G) /\ (G.fault \/ Carries(H, G))
  BY <1>9, RoomKeeps
<1> HIDE DEF G, s
<1>11. CASE G.fault
  BY <1>3, <1>10, <1>11
<1>12. CASE ~ G.fault
  <2>1. Fits(G, k) /\ GNVARS(Z, CONVAR(Z, copy, Zero, Zero), copy)
    BY <1>3, <1>12
  <2>2. copy = Twice[s]
    <3>1. Keeps(H, G, "XSP", p)
      BY <1>5, <1>9, <1>10, <1>12 DEF Carries
    <3>2. PICK q \in Strings(G) : G.root.XSP.a = q /\ Text(G, q) = Text(H, p)
      BY <1>9, <3>1 DEF Keeps
    <3> QED BY <1>9, <3>2 DEF copy
  <2>3. copy \in Nat /\ k = Size(copy)
    <3>1. Twice[s] \in Range(Twice)
      BY <1>2 DEF Range
    <3> QED BY <2>2, <3>1, StringsAssumption
  <2>4. free \in Nat
    <3>1. G \in Heaps
      BY <1>10, SoundFacts DEF IInv
    <3> QED BY <3>1, HeapType
  <2>5. RootFits(G, "TSP", Scratch(free))
    <3>1. Scratch(free) \in Descs /\ Scratch(free).f = {}
      BY <2>4, PlainDescs DEF Scratch
    <3> QED BY <1>5, <3>1 DEF RootFits, IsPtr
  <2>6. Rooted(G, Z, mark)
    BY <1>5, <1>10, <2>5, RootSet
  <2> HIDE DEF mark, free, Z, k
  <2>7. IInv(Z) /\ Fits(Z, Size(copy))
    BY <2>1, <2>3, <2>6 DEF Rooted, Fits, FRSGPT
  <2>8. Zero \in Descs /\ Refers(Z.mem, Titles(Z), Zero)
    BY PlainDescs DEF Refers
  <2> QED BY <2>1, <2>3, <2>7, <2>8, Enters
<1> QED BY <1>11, <1>12

LEMMA VPXPTRKeeps ==
  ASSUME IInv(heap), VPXPTR
  PROVE  IInv(heap')
<1> DEFINE p == heap.root.XPTR.a
           s == Text(heap, p)
           root == [heap.root EXCEPT !["SPECR1"] = Ptr(p)]
           H == [heap EXCEPT !.root = root]
           k == Size(s)
           G == Room(H, k)
           free == FRSGPT(G)
           mark == [G.root EXCEPT !["XSP"] = Ptr(free)]
           X == [G EXCEPT !.root = mark]
           q == G.root.XPTR.a
           C == CONVAR(X, Upper[s], G.mem[q + 1], G.mem[q + ATTRIB])
<1>1. Sound(heap) /\ heap \in Heaps /\ DOMAIN heap.root = Roots
  BY SoundFacts DEF IInv, Heaps
<1>2. p \in Strings(heap) /\ IsPtr(heap.root.XPTR) /\ CaseFolds
  BY SeenString DEF VPXPTR
<1>3. \/ G.fault /\ heap' = G
      \/ heap' = X /\ ~ G.fault
      \/ ~ G.fault /\ Fits(G, k) /\ s \in DOMAIN Upper /\ GNVARS(X, C, Upper[s])
  BY DEF VPXPTR
<1> HIDE DEF p, C
<1>4. p \in Titles(heap) /\ p \in Nat
  BY <1>1, <1>2, StringType
<1>5. "SPECR1" \in Roots \ {"OCBSCL"} /\ "XSP" \in Roots \ {"OCBSCL"} /\ "XSP" \notin Stack \cup {"XPTR"}
      /\ "XPTR" \in Roots /\ "XPTR" # "SPECR1"
  BY StackAssumption DEF Roots, Own
<1>6. RootFits(heap, "SPECR1", Ptr(p))
  BY <1>1, <1>4, <1>5, PointerFits
<1>7. Rooted(heap, H, root)
  BY <1>5, <1>6, RootSet
<1>8. root.XPTR = heap.root.XPTR
  BY <1>1, <1>5
<1> HIDE DEF root, H
<1>9. /\ IInv(H) /\ p \in Strings(H) /\ H.root.XPTR.a = p /\ IsPtr(H.root.XPTR)
  BY <1>2, <1>7, <1>8 DEF Rooted, p
<1>10. IInv(G) /\ (G.fault \/ Carries(H, G))
  BY <1>9, RoomKeeps
<1> HIDE DEF G, s
<1>11. CASE G.fault
  BY <1>3, <1>10, <1>11
<1>12. CASE ~ G.fault
  <2>1. G \in Heaps /\ Sound(G) /\ free \in Nat /\ FieldsRight(G.mem, Titles(G))
    <3>1. G \in Heaps /\ Sound(G) /\ FieldsRight(G.mem, Titles(G))
      BY <1>10, SoundFacts DEF IInv
    <3> QED BY <3>1, HeapType
  <2>2. RootFits(G, "XSP", Ptr(free))
    <3>1. Ptr(free) \in Descs
      BY <2>1, PlainDescs
    <3> QED BY <1>2, <1>5, <3>1 DEF RootFits
  <2>3. Rooted(G, X, mark)
    BY <1>5, <1>10, <2>2, RootSet
  <2> HIDE DEF mark, free, X
  <2>4. IInv(X) /\ X.mem = G.mem /\ Titles(X) = Titles(G)
    BY <2>3 DEF Rooted
  <2>5. CASE heap' = X
    BY <2>4, <2>5
  <2>6. CASE Fits(G, k) /\ s \in DOMAIN Upper /\ GNVARS(X, C, Upper[s])
    <3>1. Keeps(H, G, "XPTR", p)
      BY <1>5, <1>9, <1>10, <1>12 DEF Carries
    <3>2. q \in Strings(G)
      BY <1>9, <3>1 DEF Keeps
    <3> DEFINE value == G.mem[q + 1]
               label == G.mem[q + ATTRIB]
    <3>3. q \in Titles(G) /\ 1 \in Fields(G.mem, q) /\ ATTRIB \in Fields(G.mem, q)
      <4> HIDE DEF q
      <4> QED BY <2>1, <3>2, StringType
    <3>4. /\ value \in Descs /\ label \in Descs
          /\ Refers(G.mem, Titles(G), value) /\ Refers(G.mem, Titles(G), label)
      <4> HIDE DEF q
      <4> QED BY <2>1, <3>3, FieldType DEF FieldsRight
    <3>5. Upper[s] \in Nat /\ Size(Upper[s]) = k
      <4>1. Upper[s] \in Range(Upper)
        BY <2>6 DEF Range
      <4> QED BY <2>6, <4>1, StringsAssumption
    <3> DEFINE up == Upper[s]
    <3>6. C = CONVAR(X, up, value, label)
      BY DEF C
    <3>7. Fits(X, Size(up)) /\ GNVARS(X, C, up)
      BY <2>4, <2>6, <3>5 DEF Fits, FRSGPT
    <3> HIDE DEF value, label, up
    <3>8. up \in Nat
      BY <3>5 DEF up
    <3>9. Refers(X.mem, Titles(X), value) /\ Refers(X.mem, Titles(X), label)
      BY <2>4, <3>4
    <3> QED BY <2>4, <3>4, <3>6, <3>7, <3>8, <3>9, Enters
  <2> QED BY <1>3, <1>12, <2>5, <2>6
<1> QED BY <1>11, <1>12

-----------------------------------------------------------------------------
(* The first heap.                                                         *)
LEMMA InitIInv ==
  ASSUME Init
  PROVE  IInv(heap)
<1> DEFINE m == <<D(1, {"TTL"}, 1), Zero>>
           root == [x \in Own \cup {"XPTR"} \cup Stack |-> IF x = "OCBSCL" THEN Ptr(1) ELSE Zero]
           X == {1}
<1>1. heap = [mem |-> m, bin |-> 0, root |-> root, fault |-> FALSE]
  BY DEF Init
<1>2. /\ D(1, {"TTL"}, 1) \in Descs /\ D(1, {"TTL"}, 1).a = 1 /\ D(1, {"TTL"}, 1).f = {"TTL"}
      /\ D(1, {"TTL"}, 1).v = 1 /\ Zero \in Descs /\ Zero.f = {} /\ Zero.a = 0
      /\ Ptr(1) \in Descs /\ Ptr(1).a = 1 /\ Ptr(1).f = {"PTR"}
  BY PlainDescs
<1>3. m \in Seq(Descs) /\ Len(m) = 2 /\ m[1] = D(1, {"TTL"}, 1) /\ m[2] = Zero
  BY <1>2
<1>4. /\ root \in [Roots -> Descs] /\ root.OCBSCL = Ptr(1) /\ \A x \in Roots : root[x] \in {Ptr(1), Zero}
      /\ \A x \in Stack \cup {"XPTR"} : root[x] = Zero
  BY <1>2, StackAssumption DEF Roots, Own
<1> HIDE DEF m, root
<1>5. /\ heap.mem = m /\ heap.bin = 0 /\ heap.root = root /\ heap.fault = FALSE
  BY <1>1
<1>6. heap \in Heaps
  BY <1>1, <1>3, <1>4 DEF Heaps
<1>7. BKSIZE(m[1]) = 2 /\ Behind(m, 1) = 3 /\ Fields(m, 1) = {1} /\ "STTL" \notin m[1].f
  <2>1. m[1].v = 1 /\ "STTL" \notin m[1].f
    BY <1>2, <1>3
  <2>2. BKSIZE(m[1]) = 2
    BY <2>1 DEF BKSIZE
  <2>3. Fields(m, 1) = {1}
    BY <2>1 DEF Fields
  <2> QED BY <2>1, <2>2, <2>3 DEF Behind
<1>8. Tiling(m, X)
  BY <1>3, <1>7 DEF Tiling
<1>9. Titled(m, X)
  <2>1. \A i \in 1 .. 2 - 1 : 1 + i = 2
    OBVIOUS
  <2> QED BY <1>2, <1>3, <1>7, <2>1 DEF Titled
<1>10. \A Y : Refers(m, Y, Zero)
  BY <1>2 DEF Refers
<1>11. FieldsRight(m, X)
  <2>1. m[1 + 1] = Zero
    BY <1>3
  <2> QED BY <1>7, <1>10, <2>1 DEF FieldsRight
<1>12. RootsRight(m, X, root)
  BY <1>4, <1>10 DEF RootsRight
<1>13. StringsIn(m, X) = {}
  BY <1>7 DEF StringsIn
<1>14. Shaped(heap, X)
  BY <1>5, <1>8, <1>9, <1>11, <1>12, <1>13 DEF Shaped
<1>15. Chain(heap, {})
  <2> DEFINE ord == [a \in {0} |-> 0]
  <2>1. NextIs({}, ord, 0, LinkOf(heap, 0))
    BY <1>5 DEF NextIs, LinkOf
  <2>2. Linked(heap, {}, ord, 0)
    BY <2>1 DEF Linked
  <2>3. Filed(heap, {}, ord)
    BY DEF Filed
  <2> HIDE DEF ord
  <2> QED BY <2>2, <2>3 DEF Chain
<1>16. Sound(heap) /\ Titles(heap) = X
  BY <1>6, <1>5, <1>13, <1>14, <1>15, SoundFrom
<1>17. FRSGPT(heap) <= TLSGP1
  <2>1. FRSGPT(heap) = 3
    <3>1. FRSGPT(heap) = Len(m) + 1
      BY <1>5 DEF FRSGPT
    <3> QED BY <1>3, <3>1
  <2> QED BY <2>1, RegionAssumption
<1>18. OwnRight(heap)
  <2>1. Refers(m, X, Ptr(1))
    BY <1>2 DEF Refers, InBlock
  <2>2. \A x \in Own : root[x] \in {Ptr(1), Zero}
    BY <1>4 DEF Roots
  <2> QED BY <1>5, <1>10, <1>16, <2>1, <2>2 DEF OwnRight
<1> QED BY <1>5, <1>16, <1>17, <1>18 DEF IInv, Safe

LEMMA NextIInv ==
  ASSUME IInv(heap), [Next]_heap
  PROVE  IInv(heap')
<1>1. ASSUME NEW n \in BlockSizes, BLOCK(n) PROVE IInv(heap')
  BY <1>1, BLOCKKeeps
<1>2. ASSUME NEW s \in Strs, GENVAR(s) PROVE IInv(heap')
  BY <1>2, GENVARKeeps
<1>3. CASE DUPL
  BY <1>3, DUPLKeeps
<1>4. CASE VPXPTR
  BY <1>4, VPXPTRKeeps
<1>5. CASE Fetch
  BY <1>5, FetchKeeps
<1>6. CASE Element
  BY <1>6, ElementKeeps
<1>7. CASE Forget
  BY <1>7, ForgetKeeps
<1>8. ASSUME NEW y \in Stack, GENVUP(y) PROVE IInv(heap')
  BY <1>8, GENVUPKeeps
<1>9. ASSUME NEW y \in Stack, Assign(y) PROVE IInv(heap')
  BY <1>9, AssignKeeps
<1>10. ASSUME NEW y \in Stack, Label(y) PROVE IInv(heap')
  BY <1>10, LabelKeeps
<1>11. ASSUME NEW y \in Stack, Push(y) PROVE IInv(heap')
  BY <1>11, PushKeeps
<1>12. CASE CLEAR
  BY <1>12, CLEARKeeps
<1>13. CASE COLECT
  BY <1>13, COLECTKeeps
<1>14. CASE UNCHANGED heap
  BY <1>14
<1> QED
  BY <1>1, <1>2, <1>3, <1>4, <1>5, <1>6, <1>7, <1>8, <1>9, <1>10, <1>11, <1>12, <1>13, <1>14 DEF Next

LEMMA Invariance == Spec => []IInv(heap)
<1>1. Init => IInv(heap)
  BY InitIInv
<1>2. IInv(heap) /\ [Next]_heap => IInv(heap)'
  BY NextIInv
<1> QED BY <1>1, <1>2, PTL DEF Spec

-----------------------------------------------------------------------------
(* Whatever the program does, and however often storage is regenerated,    *)
(* the blocks fill the storage below FRSGPT to the last descriptor and end *)
(* before TLSGP1, their titles point to themselves and are not marked (GC  *)
(* leaves them as the next GC needs them), and what the program can see    *)
(* points below FRSGPT.                                                    *)
THEOREM StorageTiled == Spec => []Tiled
<1>1. ASSUME IInv(heap) PROVE Tiled
  <2> DEFINE m == heap.mem
             X == Titles(heap)
  <2>1. /\ Sound(heap) /\ heap \in Heaps /\ m \in Seq(Descs) /\ Tiling(m, X) /\ Titled(m, X)
        /\ FieldsRight(m, X) /\ RootsRight(m, X, heap.root) /\ FRSGPT(heap) <= TLSGP1
    BY <1>1, SoundFacts DEF IInv
  <2>2. Len(m) \in Nat /\ FRSGPT(heap) = Len(m) + 1 /\ 1 \in 1 .. Len(m)
    <3>1. Len(m) \in Nat /\ FRSGPT(heap) = Len(m) + 1
      BY <2>1, HeapType
    <3>2. 1 \in 1 .. Len(m)
      BY <2>1 DEF Tiling
    <3> QED BY <3>1, <3>2
  <2>3. ASSUME NEW d \in Descs, Refers(m, X, d) PROVE Within(d)
    <3>1. IsPtr(d) => d.a \in 1 .. Len(m)
      BY <2>1, <2>3, TopOfRefers DEF IsPtr
    <3> QED BY <2>2, <3>1 DEF Within
  <2>4. \E t \in X : t + BKSIZE(m[t]) = FRSGPT(heap)
    <3>1. Len(m) \in 1 .. Len(m)
      BY <2>2
    <3>2. PICK t \in X : t <= Len(m) /\ Len(m) < Behind(m, t)
      BY <2>1, <3>1, Owner
    <3>3. Behind(m, t) \in X \cup {Len(m) + 1} /\ X \subseteq 1 .. Len(m)
      BY <2>1 DEF Tiling
    <3>4. Behind(m, t) \notin 1 .. Len(m)
      BY <2>2, <3>2
    <3>5. Behind(m, t) = Len(m) + 1
      BY <3>3, <3>4
    <3> QED BY <2>2, <3>5 DEF Behind
  <2>5. ASSUME NEW t \in X
        PROVE  /\ m[t].a = t /\ "MARK" \notin m[t].f
               /\ \A i \in Fields(m, t) : Within(m[t + i])
    <3>1. ASSUME NEW i \in Fields(m, t) PROVE Within(m[t + i])
      <4>1. m[t + i] \in Descs
        BY <2>1, FieldType
      <4>2. Refers(m, X, m[t + i])
        BY <2>1 DEF FieldsRight
      <4> QED BY <2>3, <4>1, <4>2
    <3> QED BY <2>1, <3>1 DEF Titled
  <2>6. ASSUME NEW x \in Stack \cup {"XPTR", "OCBSCL"} PROVE Within(heap.root[x])
    <3>1. CASE x = "OCBSCL"
      <4>1. heap.root[x] = Ptr(1) /\ Ptr(1).a = 1
        BY <2>1, <3>1, PlainDescs DEF RootsRight
      <4> QED BY <2>2, <4>1 DEF Within
    <3>2. CASE x # "OCBSCL"
      BY <1>1, <2>3, <3>2, SeenRefers
    <3> QED BY <3>1, <3>2
  <2> QED BY <2>1, <2>4, <2>5, <2>6 DEF Tiled
<1> QED BY <1>1, Invariance, PTL

(* No string is ever lost from the bin, nor a structure left in it that is *)
(* gone: the bin and storage hold the same strings.                        *)
THEOREM BinComplete == Spec => [](Chained(heap) = Strings(heap))
<1>1. ASSUME IInv(heap) PROVE Chained(heap) = Strings(heap)
  <2>1. PICK n \in Nat : \E ord : Linked(heap, Strings(heap), ord, n)
    BY <1>1, SoundFacts DEF IInv, Chain
  <2> QED BY <2>1, ChainedAre
<1> QED BY <1>1, Invariance, PTL

(* Where no name of mixed case is folded in place (GENVUP), a string is in *)
(* storage once, under the characters it has: GENVAR and GNVARS never file *)
(* a second structure, not even when making room for it regenerates        *)
(* storage between LOCA1 and LOCA7.                                        *)
THEOREM StringsInterned ==
  ASSUME DOMAIN Raised = {}
  PROVE  Spec => []Interned
<1>1. ASSUME IInv(heap) PROVE Interned
  <2> DEFINE S == Strings(heap)
  <2>1. PICK n \in Nat : \E ord : Linked(heap, S, ord, n) /\ (DOMAIN Raised = {} => Filed(heap, S, ord))
    BY <1>1, SoundFacts DEF IInv, Chain
  <2>2. PICK ord : Linked(heap, S, ord, n) /\ Filed(heap, S, ord)
    BY <2>1
  <2>3. Chained(heap) = S
    BY <2>2, ChainedAre
  <2>4. ASSUME NEW t \in S PROVE Text(heap, t) = Key(heap, t) /\ ord[t] \in Nat /\ Key(heap, t) \in Nat
    <3>1. LNKFLD \in 0 .. TEXT
      BY DEF LNKFLD, TEXT
    <3>2. heap.mem[t + LNKFLD] \in Descs
      BY <1>1, <3>1, StringShape DEF IInv
    <3>3. Key(heap, t) \in Nat
      BY <3>2, DescType DEF Key
    <3> QED BY <2>2, <3>3 DEF Filed, Linked
  <2>5. ASSUME NEW t \in S, NEW u \in S, t # u PROVE Text(heap, t) # Text(heap, u)
    <3>1. ord[t] < ord[u] \/ ord[u] < ord[t]
      BY <2>2, <2>4, <2>5 DEF Linked
    <3>2. Key(heap, t) < Key(heap, u) \/ Key(heap, u) < Key(heap, t)
      BY <2>2, <3>1 DEF Filed
    <3> QED BY <2>4, <3>2
  <2> QED BY <2>3, <2>4, <2>5 DEF Interned, Key
<1> QED BY <1>1, Invariance, PTL

(* The collector never takes characters for a title, if names are not      *)
(* folded or characters do not look like one: every pointer it follows,    *)
(* the specifiers left at scratch space among them, leads TOP to a title.  *)
THEOREM TitlesFound ==
  ASSUME ~ CaseFolds \/ "TTL" \notin CharFlags
  PROVE  Spec => []TopFindsTitle
<1>1. ASSUME IInv(heap) PROVE TopFindsTitle
  BY <1>1 DEF IInv, Safe, TopFindsTitle
<1> QED BY <1>1, Invariance, PTL

=============================================================================
