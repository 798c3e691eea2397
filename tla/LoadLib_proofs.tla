--------------------------- MODULE LoadLib_proofs --------------------------
(* Theorems about LoadLib, for every set of functions, libraries and       *)
(* addresses.                                                              *)
EXTENDS LoadLib, SequenceTheorems, FiniteSetTheorems, TLAPS

-----------------------------------------------------------------------------
(* The list of struct func: what one more and one less do to its elements. *)

LEMMA Pushed ==
  ASSUME NEW s \in Seq(Func), NEW r \in Func
  PROVE  /\ <<r>> \o s \in Seq(Func)
         /\ Len(<<r>> \o s) = Len(s) + 1
         /\ (<<r>> \o s)[1] = r
         /\ \A i \in 1..Len(s) : (<<r>> \o s)[i + 1] = s[i]
         /\ Elems(<<r>> \o s) = Elems(s) \cup {r}
<1> DEFINE t == <<r>> \o s
<1>1. <<r>> \in Seq(Func) /\ Len(<<r>>) = 1 /\ <<r>>[1] = r /\ Len(s) \in Nat
  OBVIOUS
<1>2. /\ t \in Seq(Func)
      /\ Len(t) = Len(s) + 1
      /\ \A i \in 1..Len(s) + 1 : t[i] = IF i <= 1 THEN r ELSE s[i - 1]
  BY <1>1, ConcatProperties, Z3
<1> HIDE DEF t
<1>3. t[1] = r /\ \A i \in 1..Len(s) : t[i + 1] = s[i]
  BY <1>1, <1>2
<1>4. DOMAIN t = 1..Len(s) + 1 /\ DOMAIN s = 1..Len(s)
  BY <1>1, <1>2
<1>5. Elems(t) \subseteq Elems(s) \cup {r}
  BY <1>1, <1>2, <1>4 DEF Elems
<1>6. Elems(s) \cup {r} \subseteq Elems(t)
  BY <1>1, <1>3, <1>4 DEF Elems
<1> QED BY <1>2, <1>3, <1>5, <1>6 DEF t

(* No two entries of the list have the same address.                       *)
Distinct(s) == \A i, j \in DOMAIN s : s[i].addr = s[j].addr => i = j

LEMMA Dropped ==
  ASSUME NEW i \in DOMAIN funcs, funcs \in Seq(Func), Distinct(funcs)
  PROVE  /\ Without(i) \in Seq(Func)
         /\ Len(Without(i)) = Len(funcs) - 1
         /\ \A j \in 1..Len(funcs) - 1 :
              Without(i)[j] = IF j < i THEN funcs[j] ELSE funcs[j + 1]
         /\ Elems(Without(i)) = Elems(funcs) \ {funcs[i]}
<1> DEFINE t == Without(i)
           a == SubSeq(funcs, 1, i - 1)
           b == SubSeq(funcs, i + 1, Len(funcs))
<1>1. Len(funcs) \in Nat /\ DOMAIN funcs = 1..Len(funcs) /\ i \in 1..Len(funcs)
  OBVIOUS
<1>2. /\ a \in Seq(Func) /\ Len(a) = i - 1
      /\ \A j \in 1..i - 1 : a[j] = funcs[j]
  BY <1>1, SubSeqProperties, Z3
<1>3. /\ b \in Seq(Func) /\ Len(b) = Len(funcs) - i
      /\ \A j \in 1..Len(funcs) - i : b[j] = funcs[i + j]
  BY <1>1, SubSeqProperties, Z3
<1>4. t = a \o b
  BY DEF Without
<1> HIDE DEF a, b, t
<1>5. t \in Seq(Func) /\ Len(t) = Len(funcs) - 1
  <2>1. t \in Seq(Func) /\ Len(t) = Len(a) + Len(b)
    BY <1>2, <1>3, <1>4, ConcatProperties
  <2> QED BY <2>1, <1>1, <1>2, <1>3, Z3
<1>6. \A j \in 1..Len(funcs) - 1 : t[j] = IF j < i THEN funcs[j] ELSE funcs[j + 1]
  <2>1. \A j \in 1..Len(a) + Len(b) :
          t[j] = IF j <= Len(a) THEN a[j] ELSE b[j - Len(a)]
    BY <1>2, <1>3, <1>4, ConcatProperties
  <2> SUFFICES ASSUME NEW j \in 1..Len(funcs) - 1
               PROVE  t[j] = IF j < i THEN funcs[j] ELSE funcs[j + 1]
    OBVIOUS
  <2>4. Len(a) + Len(b) = Len(funcs) - 1
    BY <1>1, <1>2, <1>3, Z3
  <2>5. t[j] = IF j <= Len(a) THEN a[j] ELSE b[j - Len(a)]
    BY <2>1, <2>4
  <2>2. CASE j < i
    <3>1. j <= Len(a) /\ a[j] = funcs[j]
      BY <2>2, <1>1, <1>2
    <3> QED BY <3>1, <2>2, <2>5
  <2>3. CASE ~ (j < i)
    <3>1. PICK k \in 1..Len(funcs) - i : k = j - (i - 1)
      BY <2>3, <1>1, Z3
    <3>2. t[j] = b[k]
      BY <2>5, <2>3, <3>1, <1>1, <1>2, Z3
    <3>3. b[k] = funcs[i + k] /\ i + k = j + 1
      BY <3>1, <1>1, <1>3, Z3
    <3> QED BY <3>2, <3>3, <2>3
  <2> QED BY <2>2, <2>3
<1>7. DOMAIN t = 1..Len(funcs) - 1
  BY <1>1, <1>5
<1>8. Elems(t) \subseteq Elems(funcs) \ {funcs[i]}
  <2> SUFFICES ASSUME NEW j \in 1..Len(funcs) - 1
               PROVE  t[j] \in Elems(funcs) \ {funcs[i]}
    BY <1>7 DEF Elems
  <2>1. PICK k \in 1..Len(funcs) : t[j] = funcs[k] /\ k # i
    BY <1>1, <1>6
  <2> QED BY <2>1, <1>1 DEF Elems, Distinct
<1>9. Elems(funcs) \ {funcs[i]} \subseteq Elems(t)
  <2> SUFFICES ASSUME NEW k \in 1..Len(funcs), k # i
               PROVE  funcs[k] \in Elems(t)
    BY <1>1 DEF Elems
  <2>1. CASE k < i
    BY <2>1, <1>1, <1>6, <1>7 DEF Elems
  <2>2. CASE k > i
    <3>1. k - 1 \in 1..Len(funcs) - 1 /\ t[k - 1] = funcs[k]
      BY <2>2, <1>1, <1>6
    <3> QED BY <3>1, <1>7 DEF Elems
  <2> QED BY <1>1, <2>1, <2>2
<1> QED BY <1>5, <1>6, <1>8, <1>9 DEF t

-----------------------------------------------------------------------------
(* Opens, closes and the functions counted.                                *)

Users(E, l) == {r \in E : r.lib = l}

LibState == [name : LibNames \cup {NULL}, refcount : Nat, os : Nat]

Balanced(L, E) ==
  \A l \in Libs :
    LET used == Cardinality(Users(E, l))
    IN /\ L[l].refcount = used
       /\ L[l].os = IF used > 0 THEN 1 ELSE 0
       /\ L[l].name # NULL <=> used > 0

Unique(L) == \A l, m \in Libs : L[l].name = L[m].name /\ L[l].name # NULL => l = m

LEMMA Counted ==
  ASSUME NEW E, IsFiniteSet(E), NEW r, r \notin E, NEW l
  PROVE  /\ Cardinality(Users(E, l)) \in Nat
         /\ Cardinality(Users(E \cup {r}, l)) =
              Cardinality(Users(E, l)) + IF r.lib = l THEN 1 ELSE 0
<1>1. IsFiniteSet(Users(E, l))
  <2>1. Users(E, l) \in SUBSET E
    BY DEF Users
  <2> QED BY <2>1, FS_Subset
<1>2. Cardinality(Users(E, l)) \in Nat
  BY <1>1, FS_CardinalityType
<1>3. CASE r.lib = l
  <2>1. Users(E \cup {r}, l) = Users(E, l) \cup {r} /\ r \notin Users(E, l)
    BY <1>3 DEF Users
  <2>2. Cardinality(Users(E, l) \cup {r}) = Cardinality(Users(E, l)) + 1
    BY <1>1, <2>1, FS_AddElement
  <2> QED BY <1>2, <1>3, <2>1, <2>2
<1>4. CASE r.lib # l
  <2>1. Users(E \cup {r}, l) = Users(E, l)
    BY <1>4 DEF Users
  <2> QED BY <1>2, <1>4, <2>1
<1> QED BY <1>3, <1>4

LEMMA OpenBalanced ==
  ASSUME NEW L \in [Libs -> LibState], NEW E, IsFiniteSet(E), Balanced(L, E), Unique(L),
         NEW r, r \notin E, NEW l \in Libs, r.lib = l, NEW n \in LibNames,
         (\E m \in Libs : L[m].name = n) => L[l].name = n
  PROVE  /\ libopen(L, n, l) \in [Libs -> LibState]
         /\ Balanced(libopen(L, n, l), E \cup {r})
         /\ Unique(libopen(L, n, l))
<1> DEFINE K == libopen(L, n, l)
<1>1. n # NULL
  BY NullAssumption
<1>2. L[l].name \in LibNames \cup {NULL} /\ L[l].refcount \in Nat /\ L[l].os \in Nat
  BY DEF LibState
<1>3. /\ K[l].name = IF L[l].name = NULL THEN n ELSE L[l].name
      /\ K[l].refcount = L[l].refcount + 1
      /\ K[l].os = IF L[l].name = NULL THEN L[l].os + 1 ELSE L[l].os
  BY DEF libopen
<1>4. \A m \in Libs : m # l => K[m] = L[m]
  BY DEF libopen
<1>5. K \in [Libs -> LibState]
  BY <1>2 DEF libopen, LibState
<1> HIDE DEF K
<1>6. Balanced(K, E \cup {r})
  <2> SUFFICES ASSUME NEW m \in Libs
               PROVE  LET used == Cardinality(Users(E \cup {r}, m))
                      IN /\ K[m].refcount = used
                         /\ K[m].os = IF used > 0 THEN 1 ELSE 0
                         /\ K[m].name # NULL <=> used > 0
    BY DEF Balanced
  <2>1. /\ Cardinality(Users(E, m)) \in Nat
        /\ Cardinality(Users(E \cup {r}, m)) =
             Cardinality(Users(E, m)) + IF r.lib = m THEN 1 ELSE 0
    BY Counted
  <2>2. /\ L[m].refcount = Cardinality(Users(E, m))
        /\ L[m].os = IF Cardinality(Users(E, m)) > 0 THEN 1 ELSE 0
        /\ L[m].name # NULL <=> Cardinality(Users(E, m)) > 0
    BY DEF Balanced
  <2>3. CASE m = l
    BY <2>1, <2>2, <2>3, <1>1, <1>3
  <2>4. CASE m # l
    BY <2>1, <2>2, <2>4, <1>4
  <2> QED BY <2>3, <2>4
<1>7. Unique(K)
  <2> SUFFICES ASSUME NEW m \in Libs, NEW k \in Libs,
                      K[m].name = K[k].name, K[m].name # NULL
               PROVE  m = k
    BY DEF Unique
  <2>1. CASE L[l].name = NULL
    BY <2>1, <1>1, <1>3, <1>4 DEF Unique
  <2>2. CASE L[l].name # NULL
    BY <2>2, <1>3, <1>4 DEF Unique
  <2> QED BY <2>1, <2>2
<1> QED BY <1>5, <1>6, <1>7 DEF K

LEMMA CloseBalanced ==
  ASSUME NEW L \in [Libs -> LibState], NEW E, IsFiniteSet(E), Balanced(L, E), Unique(L),
         NEW r \in E, NEW l \in Libs, r.lib = l
  PROVE  /\ libclose(L, l) \in [Libs -> LibState]
         /\ Balanced(libclose(L, l), E \ {r})
         /\ Unique(libclose(L, l))
<1> DEFINE K == libclose(L, l)
           D == E \ {r}
<1>1. IsFiniteSet(D) /\ r \notin D /\ E = D \cup {r}
  BY FS_RemoveElement
<1>2. L[l].name \in LibNames \cup {NULL} /\ L[l].refcount \in Nat /\ L[l].os \in Nat
  BY DEF LibState
<1>3. \A m \in Libs :
        /\ Cardinality(Users(D, m)) \in Nat
        /\ Cardinality(Users(E, m)) =
             Cardinality(Users(D, m)) + IF r.lib = m THEN 1 ELSE 0
  BY <1>1, Counted
<1>4. \A m \in Libs :
        /\ L[m].refcount = Cardinality(Users(E, m))
        /\ L[m].os = IF Cardinality(Users(E, m)) > 0 THEN 1 ELSE 0
        /\ L[m].name # NULL <=> Cardinality(Users(E, m)) > 0
  BY DEF Balanced
<1>5. L[l].refcount = Cardinality(Users(D, l)) + 1 /\ L[l].os = 1 /\ L[l].name # NULL
  BY <1>3, <1>4
<1>6. \A m \in Libs : m # l => K[m] = L[m]
  BY DEF libclose
<1>7. CASE L[l].refcount > 1
  <2>0. K[l] = [L[l] EXCEPT !.refcount = L[l].refcount - 1] /\ L[l] \in LibState
    BY <1>7 DEF libclose
  <2>1. /\ K[l].name = L[l].name
        /\ K[l].refcount = L[l].refcount - 1
        /\ K[l].os = L[l].os
    BY <2>0 DEF LibState
  <2>2. K \in [Libs -> LibState]
    <3>1. L[l].refcount - 1 \in Nat
      BY <1>2, <1>7
    <3>2. K[l] \in LibState
      BY <2>0, <3>1 DEF LibState
    <3>3. \A m \in Libs : K[m] \in LibState
      BY <3>2, <1>6
    <3> QED BY <3>3 DEF libclose
  <2> HIDE DEF K, D
  <2>3. Balanced(K, D)
    BY <2>1, <1>2, <1>3, <1>4, <1>5, <1>6, <1>7 DEF Balanced
  <2>4. Unique(K)
    BY <2>1, <1>6 DEF Unique
  <2> QED BY <2>2, <2>3, <2>4 DEF K, D
<1>8. CASE ~ (L[l].refcount > 1)
  <2>1. K[l] = [name |-> NULL, refcount |-> 0, os |-> 0]
    BY <1>5, <1>8 DEF libclose
  <2>2. K \in [Libs -> LibState]
    BY <2>1, <1>6 DEF libclose, LibState
  <2>3. Cardinality(Users(D, l)) = 0
    BY <1>2, <1>3, <1>5, <1>8
  <2> HIDE DEF K, D
  <2>4. Balanced(K, D)
    BY <2>1, <2>3, <1>3, <1>4, <1>6 DEF Balanced
  <2>5. Unique(K)
    BY <2>1, <1>6 DEF Unique
  <2> QED BY <2>2, <2>4, <2>5 DEF K, D
<1> QED BY <1>7, <1>8

(* A LOAD() that fails leaves the libraries as they were.                  *)
LEMMA OpenedAndClosed ==
  ASSUME NEW L \in [Libs -> LibState], NEW E, IsFiniteSet(E), Balanced(L, E),
         NEW l \in Libs, NEW n \in LibNames
  PROVE  libclose(libopen(L, n, l), l) = L
<1>1. /\ L[l].name \in LibNames \cup {NULL} /\ L[l].refcount \in Nat /\ L[l].os \in Nat
      /\ L[l] = [name |-> L[l].name, refcount |-> L[l].refcount, os |-> L[l].os]
  BY DEF LibState
<1>2. Cardinality(Users(E, l)) \in Nat
  <2>1. Users(E, l) \in SUBSET E
    BY DEF Users
  <2> QED BY <2>1, FS_Subset, FS_CardinalityType
<1>3. IF L[l].name = NULL THEN L[l].refcount = 0 /\ L[l].os = 0 ELSE L[l].refcount > 0
  BY <1>2 DEF Balanced
<1>4. libclose(libopen(L, n, l), l)[l] = L[l]
  <2> DEFINE K == libopen(L, n, l)
  <2>1. K[l] = [name     |-> IF L[l].name = NULL THEN n ELSE L[l].name,
                refcount |-> L[l].refcount + 1,
                os       |-> IF L[l].name = NULL THEN L[l].os + 1 ELSE L[l].os]
        /\ DOMAIN K = Libs
    BY DEF libopen
  <2> HIDE DEF K
  <2>2. CASE L[l].name = NULL
    <3>1. K[l].refcount = 1 /\ K[l].os = 1
      BY <1>3, <2>1, <2>2
    <3>2. libclose(K, l)[l] = [name |-> NULL, refcount |-> 0, os |-> 0]
      BY <2>1, <3>1 DEF libclose
    <3> QED BY <1>1, <1>3, <2>2, <3>2 DEF K
  <2>3. CASE L[l].name # NULL
    <3>1. K[l].refcount = L[l].refcount + 1 /\ K[l].refcount > 1
      BY <1>1, <1>3, <2>1, <2>3
    <3>2. libclose(K, l)[l] = [K[l] EXCEPT !.refcount = K[l].refcount - 1]
      BY <2>1, <3>1 DEF libclose
    <3>3. K[l].refcount - 1 = L[l].refcount
      BY <1>1, <3>1
    <3>4. [K[l] EXCEPT !.refcount = L[l].refcount] =
            [name |-> L[l].name, refcount |-> L[l].refcount, os |-> L[l].os]
      BY <2>1, <2>3
    <3> QED BY <1>1, <3>2, <3>3, <3>4 DEF K
  <2> QED BY <2>2, <2>3 DEF K
<1>5. \A m \in Libs : m # l => libclose(libopen(L, n, l), l)[m] = L[m]
  BY DEF libclose, libopen
<1>6. DOMAIN libclose(libopen(L, n, l), l) = Libs
  BY DEF libclose, libopen
<1> QED BY <1>4, <1>5, <1>6 DEF libclose

-----------------------------------------------------------------------------
(* The invariant: types, distinct addresses, and the count of each library.*)

IInv ==
  /\ TypeOK
  /\ Distinct(funcs)
  /\ IsFiniteSet(Elems(funcs))
  /\ OpenWhileUsed
  /\ OneFilePerName

LEMMA Counts ==
  /\ OpenWhileUsed <=> Balanced(libs, Elems(funcs))
  /\ OneFilePerName <=> Unique(libs)
  /\ TypeOK => libs \in [Libs -> LibState]
BY DEF OpenWhileUsed, Balanced, UsersOf, Users, OneFilePerName, Unique, TypeOK, LibState

LEMMA CountsNext ==
  /\ OpenWhileUsed' <=> Balanced(libs', Elems(funcs'))
  /\ OneFilePerName' <=> Unique(libs')
BY DEF OpenWhileUsed, Balanced, UsersOf, Users, OneFilePerName, Unique, Elems

LEMMA InitInv == Init => IInv
<1> SUFFICES ASSUME Init PROVE IInv
  OBVIOUS
<1>1. Elems(funcs) = {}
  BY DEF Init, Elems
<1>2. \A l \in Libs : Cardinality(UsersOf(l)) = 0
  <2>1. \A l \in Libs : UsersOf(l) = {}
    BY <1>1 DEF UsersOf
  <2> QED BY <2>1, FS_EmptySet
<1>3. TypeOK /\ OneFilePerName /\ Distinct(funcs)
  BY DEF Init, TypeOK, OneFilePerName, Distinct
<1>4. OpenWhileUsed
  BY <1>2 DEF Init, OpenWhileUsed
<1> QED BY <1>1, <1>3, <1>4, FS_EmptySet DEF IInv

(* Define puts a new struct func, with an address of its own, in front.    *)
LEMMA Defined ==
  ASSUME IInv, NEW f \in Fns, NEW l \in Libs \cup {NULL}, Define(f, l)
  PROVE  \E r \in Func :
           /\ r.fn = f /\ r.lib = l /\ r \notin Elems(funcs)
           /\ funcs' = <<r>> \o funcs /\ desc' = [desc EXCEPT ![f] = r]
           /\ funcs' \in Seq(Func) /\ Distinct(funcs')
           /\ Elems(funcs') = Elems(funcs) \cup {r}
           /\ IsFiniteSet(Elems(funcs'))
<1> DEFINE R(a) == [addr |-> a, fn |-> f, lib |-> l]
<1>1. PICK a \in Addrs \ Live : /\ funcs' = <<R(a)>> \o funcs
                               /\ desc' = [desc EXCEPT ![f] = R(a)]
  BY DEF Define
<1>2. R(a) \in Func /\ R(a).fn = f /\ R(a).lib = l /\ R(a).addr = a
  BY DEF Func
<1>3. PICK r \in Func : r = R(a)
  BY <1>2
<1>4. funcs \in Seq(Func)
  BY DEF IInv, TypeOK
<1>5. \A x \in Elems(funcs) : x.addr # r.addr
  BY <1>1, <1>2, <1>3 DEF Live
<1> HIDE DEF R
<1>6. /\ funcs' \in Seq(Func)
      /\ Len(funcs') = Len(funcs) + 1
      /\ funcs'[1] = r
      /\ \A i \in 1..Len(funcs) : funcs'[i + 1] = funcs[i]
      /\ Elems(funcs') = Elems(funcs) \cup {r}
  BY <1>1, <1>3, <1>4, Pushed
<1>7. Distinct(funcs')
  <2>1. Len(funcs) \in Nat /\ DOMAIN funcs = 1..Len(funcs) /\ DOMAIN funcs' = 1..Len(funcs) + 1
    BY <1>4, <1>6
  <2>2. \A i \in DOMAIN funcs' : i = 1 \/ \E k \in 1..Len(funcs) : i = k + 1
    <3> TAKE i \in DOMAIN funcs'
    <3>1. i # 1 => i - 1 \in 1..Len(funcs) /\ i = (i - 1) + 1
      BY <2>1
    <3> QED BY <3>1
  <2>3. \A k \in 1..Len(funcs) : funcs[k].addr # r.addr
    BY <1>5, <2>1 DEF Elems
  <2>4. \A k, m \in 1..Len(funcs) : funcs[k].addr = funcs[m].addr => k = m
    BY <2>1 DEF IInv, Distinct
  <2> SUFFICES ASSUME NEW i \in DOMAIN funcs', NEW j \in DOMAIN funcs',
                      funcs'[i].addr = funcs'[j].addr
               PROVE  i = j
    BY DEF Distinct
  <2>5. CASE i = 1 \/ j = 1
    BY <2>2, <2>3, <2>5, <1>6
  <2>6. CASE i # 1 /\ j # 1
    BY <2>2, <2>4, <2>6, <1>6
  <2> QED BY <2>5, <2>6
<1>8. IsFiniteSet(Elems(funcs'))
  <2>1. IsFiniteSet(Elems(funcs))
    BY DEF IInv
  <2>2. IsFiniteSet(Elems(funcs) \cup {r})
    BY <2>1, FS_AddElement
  <2> QED BY <2>2, <1>6
<1>9. r \notin Elems(funcs)
  BY <1>5
<1>10. /\ r.fn = f /\ r.lib = l /\ funcs' = <<r>> \o funcs
       /\ desc' = [desc EXCEPT ![f] = r]
  BY <1>1, <1>2, <1>3
<1> QED BY <1>6, <1>7, <1>8, <1>9, <1>10

LEMMA NextInv == IInv /\ [Next]_vars => IInv'
<1> SUFFICES ASSUME IInv, [Next]_vars PROVE IInv'
  OBVIOUS
<1>1. /\ TypeOK /\ funcs \in Seq(Func) /\ libs \in [Libs -> LibState]
      /\ Distinct(funcs) /\ IsFiniteSet(Elems(funcs))
      /\ Balanced(libs, Elems(funcs)) /\ Unique(libs)
  BY Counts DEF IInv, TypeOK
<1>2. ASSUME libs' \in [Libs -> LibState], funcs' \in Seq(Func),
             Balanced(libs', Elems(funcs')), Unique(libs'),
             Distinct(funcs'), IsFiniteSet(Elems(funcs')),
             desc' \in [Fns -> Func \cup {NULL}],
             calling' \in Seq(Func), Len(calling') <= 1,
             fault' \in {"none", "nulllib", "nolib", "freed", "wrong"}
      PROVE  IInv'
  <2>1. aliases' \in BOOLEAN
    BY DEF IInv, TypeOK, Next, vars
  <2> QED BY <1>2, <2>1, CountsNext DEF IInv, TypeOK, LibState, Distinct, Elems
<1>3. ASSUME NEW f \in Fns, NEW n \in LibNames, NEW l \in Libs, LOAD(f, n, l)
      PROVE  IInv'
  <2>1. UNCHANGED <<calling, fault>>
    BY <1>3 DEF LOAD
  <2>2. CASE f \in Pml
    <3>1. Define(f, NULL) /\ UNCHANGED libs
      BY <1>3, <2>2 DEF LOAD
    <3>2. PICK r \in Func :
             /\ r.lib = NULL /\ r \notin Elems(funcs)
             /\ desc' = [desc EXCEPT ![f] = r]
             /\ funcs' \in Seq(Func) /\ Distinct(funcs')
             /\ Elems(funcs') = Elems(funcs) \cup {r}
             /\ IsFiniteSet(Elems(funcs'))
      BY <3>1, Defined
    <3>3. \A m \in Libs : Users(Elems(funcs'), m) = Users(Elems(funcs), m)
      BY <3>2, NullAssumption DEF Users
    <3>4. Balanced(libs', Elems(funcs')) /\ libs' = libs
      <4>1. libs' = libs
        BY <3>1
      <4>2. Balanced(libs, Elems(funcs'))
        BY <3>3, <1>1 DEF Balanced
      <4> QED BY <4>1, <4>2
    <3> QED BY <1>1, <1>2, <2>1, <3>1, <3>2, <3>4 DEF TypeOK
  <2>3. CASE f \notin Pml /\ Define(f, l)
    <3>1. PICK r \in Func :
             /\ r.lib = l /\ r \notin Elems(funcs)
             /\ desc' = [desc EXCEPT ![f] = r]
             /\ funcs' \in Seq(Func) /\ Distinct(funcs')
             /\ Elems(funcs') = Elems(funcs) \cup {r}
             /\ IsFiniteSet(Elems(funcs'))
      BY <2>3, Defined
    <3>2. funcs' # funcs
      BY <3>1
    <3>3. libs' = libopen(libs, n, l) /\ Resolves(n, l)
      BY <1>3, <2>3, <3>2 DEF LOAD
    <3>4. (\E m \in Libs : libs[m].name = n) => libs[l].name = n
      BY <3>3 DEF Resolves
    <3>5. /\ libs' \in [Libs -> LibState] /\ Unique(libs')
          /\ Balanced(libs', Elems(funcs'))
      <4>1. /\ libopen(libs, n, l) \in [Libs -> LibState]
            /\ Balanced(libopen(libs, n, l), Elems(funcs) \cup {r})
            /\ Unique(libopen(libs, n, l))
        BY <1>1, <3>1, <3>4, OpenBalanced
      <4> QED BY <4>1, <3>1, <3>3
    <3> QED BY <1>1, <1>2, <2>1, <3>1, <3>5 DEF TypeOK
  <2>4. CASE f \notin Pml /\ ~ Define(f, l)
    <3>1. libs' = libclose(libopen(libs, n, l), l) /\ UNCHANGED <<funcs, desc>>
      BY <1>3, <2>4 DEF LOAD
    <3>2. libs' = libs
      BY <1>1, <3>1, OpenedAndClosed
    <3> QED BY <1>1, <1>2, <2>1, <3>1, <3>2 DEF TypeOK
  <2> QED BY <2>2, <2>3, <2>4
<1>4. ASSUME NEW f \in Fns, UNLOAD(f)
      PROVE  IInv'
  <2>1. desc' = [desc EXCEPT ![f] = NULL] /\ UNCHANGED calling
    BY <1>4 DEF UNLOAD
  <2>2. CASE UNCHANGED <<libs, funcs, fault>>
    BY <1>1, <1>2, <2>1, <2>2 DEF TypeOK
  <2>3. CASE ~ UNCHANGED <<libs, funcs, fault>>
    <3>1. PICK i \in DOMAIN funcs :
            /\ funcs' = Without(i)
            /\ IF funcs[i].lib = NULL
               THEN fault' = "nulllib" /\ UNCHANGED libs
               ELSE libs' = libclose(libs, funcs[i].lib) /\ UNCHANGED fault
      BY <1>4, <2>3 DEF UNLOAD, funload
    <3>2. /\ funcs' \in Seq(Func)
          /\ Len(funcs') = Len(funcs) - 1
          /\ \A j \in 1..Len(funcs) - 1 :
               funcs'[j] = IF j < i THEN funcs[j] ELSE funcs[j + 1]
          /\ Elems(funcs') = Elems(funcs) \ {funcs[i]}
      BY <1>1, <3>1, Dropped
    <3>3. IsFiniteSet(Elems(funcs'))
      <4>1. IsFiniteSet(Elems(funcs) \ {funcs[i]})
        BY <1>1, FS_RemoveElement
      <4> QED BY <3>2, <4>1
    <3>4. Distinct(funcs')
      <4>1. Len(funcs) \in Nat /\ DOMAIN funcs = 1..Len(funcs) /\ DOMAIN funcs' = 1..Len(funcs) - 1
        BY <1>1, <3>2
      <4>2. \A j \in DOMAIN funcs' :
              \E k \in DOMAIN funcs : funcs'[j] = funcs[k] /\ k = IF j < i THEN j ELSE j + 1
        BY <3>2, <4>1
      <4> QED BY <1>1, <4>1, <4>2 DEF Distinct
    <3>5. funcs[i] \in Func /\ funcs[i] \in Elems(funcs)
      BY <1>1 DEF Elems
    <3>6. CASE funcs[i].lib = NULL
      <4>1. \A m \in Libs : Users(Elems(funcs'), m) = Users(Elems(funcs), m)
        BY <3>2, <3>6, NullAssumption DEF Users
      <4>2. Balanced(libs', Elems(funcs')) /\ libs' = libs
        <5>1. libs' = libs
          BY <3>1, <3>6
        <5>2. Balanced(libs, Elems(funcs'))
          BY <4>1, <1>1 DEF Balanced
        <5> QED BY <5>1, <5>2
      <4> QED BY <1>1, <1>2, <2>1, <3>1, <3>2, <3>3, <3>4, <3>6, <4>2 DEF TypeOK
    <3>7. CASE funcs[i].lib # NULL
      <4>1. funcs[i].lib \in Libs
        BY <3>5, <3>7 DEF Func
      <4>2. libs' = libclose(libs, funcs[i].lib) /\ UNCHANGED fault
        BY <3>1, <3>7
      <4>3. /\ libs' \in [Libs -> LibState] /\ Unique(libs')
            /\ Balanced(libs', Elems(funcs'))
        <5>1. /\ libclose(libs, funcs[i].lib) \in [Libs -> LibState]
              /\ Balanced(libclose(libs, funcs[i].lib), Elems(funcs) \ {funcs[i]})
              /\ Unique(libclose(libs, funcs[i].lib))
          BY <1>1, <3>5, <4>1, CloseBalanced
        <5> QED BY <5>1, <3>2, <4>2
      <4> QED BY <1>1, <1>2, <2>1, <3>2, <3>3, <3>4, <4>2, <4>3 DEF TypeOK
    <3> QED BY <3>6, <3>7
  <2> QED BY <2>2, <2>3
<1>5. ASSUME NEW f \in Fns, LNKFNC(f)
      PROVE  IInv'
  BY <1>1, <1>2, <1>5 DEF LNKFNC, TypeOK
<1>6. ASSUME NEW f \in Fns, NEW g \in Fns, OPSYN(g, f)
      PROVE  IInv'
  BY <1>1, <1>2, <1>6 DEF OPSYN, TypeOK
<1>7. CASE callx
  BY <1>1, <1>2, <1>7 DEF callx, TypeOK
<1>8. CASE UNCHANGED vars
  BY <1>1, <1>2, <1>8 DEF vars, TypeOK
<1>9. ASSUME NEW f \in Fns, NEW n \in LibNames, NotFound(f, n)
      PROVE  IInv'
  BY <1>1, <1>2, <1>9 DEF NotFound, TypeOK
<1> QED BY <1>3, <1>4, <1>5, <1>6, <1>7, <1>8, <1>9 DEF Next

(* The library list, the functions and the calls keep their types: no      *)
(* count of functions or of opens goes below zero.                         *)
THEOREM TypeCorrect == Spec => []TypeOK
<1>1. IInv => TypeOK
  BY DEF IInv
<1> QED BY <1>1, InitInv, NextInv, PTL DEF Spec

(* For any functions, names, failing LOAD()s and UNLOAD()s, a library is   *)
(* open once exactly while a function of it is listed.                     *)
THEOREM LibrariesCounted == Spec => []OpenWhileUsed
<1>1. IInv => OpenWhileUsed
  BY DEF IInv
<1> QED BY <1>1, InitInv, NextInv, PTL DEF Spec

(* A name never stands for two open library files.                         *)
THEOREM NamesUnique == Spec => []OneFilePerName
<1>1. IInv => OneFilePerName
  BY DEF IInv
<1> QED BY <1>1, InitInv, NextInv, PTL DEF Spec

-----------------------------------------------------------------------------
(* Descriptors.                                                            *)

(* CallsNewest, and what a call waiting for its arguments will use.        *)
Calls ==
  ~ aliases =>
    /\ \A f \in Fns : desc[f] # NULL =>
         \E i \in DOMAIN funcs : funcs[i] = desc[f] /\ Newest(f, i)
    /\ \A k \in DOMAIN calling : calling[k] \in Elems(funcs)
    /\ fault \notin {"freed", "wrong"}

LEMMA CallsNext == IInv /\ Calls /\ [Next]_vars => Calls'
<1> SUFFICES ASSUME IInv, Calls, [Next]_vars, ~ aliases PROVE Calls'
  BY DEF Calls, Next, vars
<1>1. /\ funcs \in Seq(Func) /\ desc \in [Fns -> Func \cup {NULL}]
      /\ calling \in Seq(Func) /\ Distinct(funcs)
      /\ Len(funcs) \in Nat /\ DOMAIN funcs = 1..Len(funcs)
  BY DEF IInv, TypeOK
<1>2. /\ \A f \in Fns : desc[f] # NULL =>
           \E i \in DOMAIN funcs : funcs[i] = desc[f] /\ Newest(f, i)
      /\ \A k \in DOMAIN calling : calling[k] \in Elems(funcs)
      /\ fault \notin {"freed", "wrong"}
  BY DEF Calls
<1>3. ASSUME \A f \in Fns : desc'[f] # NULL =>
                \E i \in DOMAIN funcs' :
                  /\ funcs'[i] = desc'[f] /\ funcs'[i].fn = f
                  /\ \A j \in DOMAIN funcs' : funcs'[j].fn = f => i <= j,
             \A k \in DOMAIN calling' : calling'[k] \in Elems(funcs'),
             fault' \notin {"freed", "wrong"}
      PROVE  Calls'
  BY <1>3 DEF Calls, Newest, Elems
<1>4. ASSUME UNCHANGED <<funcs, desc>>,
             \A k \in DOMAIN calling' : calling'[k] \in Elems(funcs),
             fault' \notin {"freed", "wrong"}
      PROVE  Calls'
  <2>1. \A k \in DOMAIN calling' : calling'[k] \in Elems(funcs')
    BY <1>4
  <2> QED BY <1>2, <1>3, <1>4, <2>1 DEF Newest
<1>5. ASSUME NEW f \in Fns, NEW l \in Libs \cup {NULL}, Define(f, l),
             UNCHANGED <<calling, fault>>
      PROVE  Calls'
  <2>1. PICK r \in Func :
          /\ r.fn = f /\ funcs' = <<r>> \o funcs
          /\ desc' = [desc EXCEPT ![f] = r]
          /\ Elems(funcs') = Elems(funcs) \cup {r}
    BY <1>5, Defined
  <2>2. /\ funcs'[1] = r /\ DOMAIN funcs' = 1..Len(funcs) + 1
        /\ \A i \in 1..Len(funcs) : funcs'[i + 1] = funcs[i]
    <3>1. /\ Len(funcs') = Len(funcs) + 1 /\ funcs' \in Seq(Func) /\ funcs'[1] = r
          /\ \A i \in 1..Len(funcs) : funcs'[i + 1] = funcs[i]
      BY <1>1, <2>1, Pushed
    <3> QED BY <3>1, <1>1
  <2>3. \A j \in DOMAIN funcs' : j # 1 => j - 1 \in 1..Len(funcs) /\ funcs'[j] = funcs[j - 1]
    <3> TAKE j \in DOMAIN funcs'
    <3> SUFFICES ASSUME j # 1 PROVE j - 1 \in 1..Len(funcs) /\ funcs'[j] = funcs[j - 1]
      OBVIOUS
    <3>1. j - 1 \in 1..Len(funcs) /\ (j - 1) + 1 = j
      BY <1>1, <2>2
    <3> QED BY <3>1, <2>2
  <2>4. ASSUME NEW g \in Fns, desc'[g] # NULL
        PROVE  \E i \in DOMAIN funcs' :
                 /\ funcs'[i] = desc'[g] /\ funcs'[i].fn = g
                 /\ \A j \in DOMAIN funcs' : funcs'[j].fn = g => i <= j
    <3>1. CASE g = f
      <4>1. 1 \in DOMAIN funcs' /\ funcs'[1] = desc'[g] /\ funcs'[1].fn = g
        BY <1>1, <2>1, <2>2, <3>1
      <4>2. \A j \in DOMAIN funcs' : 1 <= j
        BY <1>1, <2>2
      <4> QED BY <4>1, <4>2
    <3>2. CASE g # f
      <4>1. PICK i \in 1..Len(funcs) : funcs[i] = desc[g] /\ Newest(g, i)
        BY <1>1, <1>2, <2>1, <2>4, <3>2
      <4>2. i + 1 \in DOMAIN funcs' /\ funcs'[i + 1] = desc'[g] /\ funcs'[i + 1].fn = g
        BY <1>1, <2>1, <2>2, <3>2, <4>1 DEF Newest
      <4>3. ASSUME NEW j \in DOMAIN funcs', funcs'[j].fn = g
            PROVE  i + 1 <= j
        <5>1. j # 1
          BY <2>1, <2>2, <3>2, <4>3
        <5>2. j - 1 \in DOMAIN funcs /\ funcs[j - 1].fn = g
          BY <1>1, <2>3, <4>3, <5>1
        <5>3. i <= j - 1
          BY <4>1, <5>2 DEF Newest
        <5> QED BY <5>3, <2>2, <1>1
      <4> QED BY <4>2, <4>3
    <3> QED BY <3>1, <3>2
  <2>5. \A k \in DOMAIN calling' : calling'[k] \in Elems(funcs')
    BY <1>2, <1>5, <2>1
  <2> QED BY <1>2, <1>3, <1>5, <2>4, <2>5
<1>6. ASSUME NEW f \in Fns, NEW n \in LibNames, NEW l \in Libs, LOAD(f, n, l)
      PROVE  Calls'
  <2>1. UNCHANGED <<calling, fault>>
    BY <1>6 DEF LOAD
  <2>2. CASE UNCHANGED <<funcs, desc>>
    BY <1>2, <1>4, <2>1, <2>2
  <2>3. CASE ~ UNCHANGED <<funcs, desc>>
    <3>1. Define(f, NULL) \/ Define(f, l)
      BY <1>6, <2>3 DEF LOAD
    <3> QED BY <1>5, <2>1, <3>1
  <2> QED BY <2>2, <2>3
<1>7. ASSUME NEW f \in Fns, UNLOAD(f)
      PROVE  Calls'
  <2>1. desc' = [desc EXCEPT ![f] = NULL] /\ calling' = calling /\ calling = <<>>
    BY <1>7 DEF UNLOAD
  <2>2. \A k \in DOMAIN calling' : calling'[k] \in Elems(funcs')
    BY <2>1
  <2>3. fault' \notin {"freed", "wrong"}
    BY <1>2, <1>7 DEF UNLOAD, funload
  <2>4. ASSUME NEW g \in Fns, desc'[g] # NULL
        PROVE  \E i \in DOMAIN funcs' :
                 /\ funcs'[i] = desc'[g] /\ funcs'[i].fn = g
                 /\ \A j \in DOMAIN funcs' : funcs'[j].fn = g => i <= j
    <3>1. PICK i \in DOMAIN funcs : funcs[i] = desc'[g] /\ Newest(g, i)
      BY <1>1, <1>2, <2>1, <2>4
    <3>2. CASE UNCHANGED funcs
      BY <3>1, <3>2 DEF Newest
    <3>3. CASE ~ UNCHANGED funcs
      <4>1. PICK d \in DOMAIN funcs : Newest(f, d) /\ funcs' = Without(d)
        BY <1>7, <3>3 DEF UNLOAD, funload
      <4>2. g # f
        BY <1>1, <2>1, <2>4
      <4>3. i # d
        BY <3>1, <4>1, <4>2 DEF Newest
      <4>4. /\ DOMAIN funcs' = 1..Len(funcs) - 1
            /\ \A j \in 1..Len(funcs) - 1 :
                 funcs'[j] = IF j < d THEN funcs[j] ELSE funcs[j + 1]
        <5>1. /\ funcs' \in Seq(Func) /\ Len(funcs') = Len(funcs) - 1
              /\ \A j \in 1..Len(funcs) - 1 :
                   funcs'[j] = IF j < d THEN funcs[j] ELSE funcs[j + 1]
          BY <1>1, <4>1, Dropped
        <5> QED BY <5>1, <1>1
      <4>5. PICK k \in 1..Len(funcs) - 1 : i = IF k < d THEN k ELSE k + 1
        <5>1. CASE i < d
          <6>1. i \in 1..Len(funcs) - 1
            BY <1>1, <5>1
          <6> QED BY <5>1, <6>1
        <5>2. CASE i > d
          <6>1. i - 1 \in 1..Len(funcs) - 1 /\ ~ (i - 1 < d) /\ i = (i - 1) + 1
            BY <1>1, <5>2
          <6> QED BY <6>1
        <5> QED BY <1>1, <4>3, <5>1, <5>2
      <4>6. funcs'[k] = desc'[g] /\ funcs'[k].fn = g
        BY <3>1, <4>4, <4>5 DEF Newest
      <4>7. ASSUME NEW j \in DOMAIN funcs', funcs'[j].fn = g
            PROVE  k <= j
        <5>1. PICK m \in DOMAIN funcs : funcs'[j] = funcs[m] /\ m = IF j < d THEN j ELSE j + 1
          BY <1>1, <4>4
        <5>2. i <= m
          BY <3>1, <4>7, <5>1 DEF Newest
        <5> QED BY <1>1, <4>4, <4>5, <5>1, <5>2
      <4> QED BY <4>4, <4>6, <4>7
    <3> QED BY <3>2, <3>3
  <2> QED BY <1>3, <2>2, <2>3, <2>4
<1>8. ASSUME NEW f \in Fns, LNKFNC(f)
      PROVE  Calls'
  <2>1. calling' = <<desc[f]>> /\ desc[f] # NULL /\ UNCHANGED <<funcs, desc, fault>>
    BY <1>8 DEF LNKFNC
  <2>2. \A k \in DOMAIN calling' : calling'[k] \in Elems(funcs)
    BY <1>2, <2>1 DEF Elems
  <2> QED BY <1>2, <1>4, <2>1, <2>2
<1>9. CASE callx
  <2>1. /\ calling # <<>> /\ calling' = <<>> /\ UNCHANGED <<funcs, desc>>
        /\ calling[1] \in Elems(funcs) => fault' = "none"
    BY <1>9 DEF callx
  <2>2. 1 \in DOMAIN calling
    BY <1>1, <2>1
  <2> QED BY <1>2, <1>4, <2>1, <2>2
<1>10. CASE UNCHANGED vars
  BY <1>2, <1>4, <1>10 DEF vars
<1>11. ASSUME NEW f \in Fns, NEW n \in LibNames, NotFound(f, n)
       PROVE  Calls'
  BY <1>2, <1>4, <1>11 DEF NotFound
<1> QED BY <1>6, <1>7, <1>8, <1>9, <1>10, <1>11 DEF Next, OPSYN

(* Without OPSYN() and calls whose own arguments unload, a call reaches    *)
(* what LOAD() defined last, however often names are loaded and unloaded.  *)
THEOREM CallsRight == Spec => []CallsNewest
<1>1. Init => Calls
  BY DEF Init, Calls
<1>2. Calls => CallsNewest
  BY DEF Calls, CallsNewest
<1> QED BY <1>1, <1>2, InitInv, NextInv, CallsNext, PTL DEF Spec
=============================================================================
