-------------------------- MODULE IOUnits_proofs ---------------------------
(* Theorems about lib/io.c: IOUnits, for every set of units, files and     *)
(* names, and FindUnit, for every range of units.                          *)
EXTENDS IOUnits, FindUnit, FiniteSetTheorems, TLAPS

-----------------------------------------------------------------------------
(* Facts about the lists nx links together.                                *)

(* A set closed under the links holds the chain of each of its members.    *)
LEMMA ChainLeast ==
  ASSUME NEW nx, NEW f, NEW S \in SUBSET Files,
         f \in S \cup {NULL}, Linked(nx, S)
  PROVE  Chain(nx, f) \subseteq S
BY DEF Chain

(* A chain starts at f and is closed under the links.                      *)
LEMMA ChainClosed ==
  ASSUME NEW nx \in [Files -> Ptr], NEW f \in Ptr
  PROVE  /\ Chain(nx, f) \in SUBSET Files
         /\ f \in Chain(nx, f) \cup {NULL}
         /\ Linked(nx, Chain(nx, f))
<1>1. Chain(nx, f) \in SUBSET Files
  BY DEF Chain
<1>2. f \in Chain(nx, f) \cup {NULL}
  BY DEF Chain, Ptr
<1>3. Linked(nx, Chain(nx, f))
  <2> SUFFICES ASSUME NEW g \in Chain(nx, f), nx[g] # NULL
               PROVE  nx[g] \in Chain(nx, f)
    BY DEF Linked
  <2>1. g \in Files /\ nx[g] \in Files
    BY DEF Chain, Ptr
  <2> SUFFICES ASSUME NEW S \in SUBSET Files, f \in S \cup {NULL}, Linked(nx, S)
               PROVE  nx[g] \in S
    BY <2>1 DEF Chain
  <2>2. g \in S
    BY DEF Chain
  <2> QED BY <2>1, <2>2 DEF Linked
<1> QED BY <1>1, <1>2, <1>3

(* The null pointer starts an empty chain.                                 *)
LEMMA ChainNull ==
  ASSUME NEW nx \in [Files -> Ptr]
  PROVE  Chain(nx, NULL) = {}
<1>1. Linked(nx, {}) /\ {} \in SUBSET Files
  BY DEF Linked
<1> QED BY <1>1, ChainLeast

(* Links that agree along a chain give the same chain.                     *)
LEMMA ChainSame ==
  ASSUME NEW nx \in [Files -> Ptr], NEW ny \in [Files -> Ptr], NEW f \in Ptr,
         \A g \in Chain(nx, f) : ny[g] = nx[g]
  PROVE  Chain(ny, f) = Chain(nx, f)
<1>1. Linked(ny, Chain(nx, f))
  BY ChainClosed DEF Linked
<1>2. Chain(ny, f) \subseteq Chain(nx, f)
  BY <1>1, ChainClosed, ChainLeast
<1>3. Linked(nx, Chain(ny, f))
  <2>1. Linked(ny, Chain(ny, f))
    BY ChainClosed
  <2> QED BY <2>1, <1>2 DEF Linked
<1>4. Chain(nx, f) \subseteq Chain(ny, f)
  BY <1>3, ChainClosed, ChainLeast
<1> QED BY <1>2, <1>4

(* The rest of a list is part of it.                                       *)
LEMMA ChainTail ==
  ASSUME NEW nx \in [Files -> Ptr], NEW f \in Ptr, NEW g \in Chain(nx, f) \cup {NULL}
  PROVE  Chain(nx, g) \subseteq Chain(nx, f)
BY ChainClosed, ChainLeast

(* A list is its first file and the rest.                                  *)
LEMMA ChainHead ==
  ASSUME NEW nx \in [Files -> Ptr], NEW f \in Files
  PROVE  Chain(nx, f) = {f} \cup Chain(nx, nx[f])
<1> DEFINE S == {f} \cup Chain(nx, nx[f])
<1>1. nx[f] \in Ptr /\ f \in Ptr /\ f # NULL
  BY NullAssumption DEF Ptr
<1>2. S \in SUBSET Files /\ Linked(nx, S)
  BY <1>1, ChainClosed DEF Linked
<1>3. Chain(nx, f) \subseteq S
  BY <1>2, ChainLeast
<1>4. f \in Chain(nx, f) /\ nx[f] \in Chain(nx, f) \cup {NULL}
  BY <1>1, ChainClosed DEF Linked
<1>5. Chain(nx, nx[f]) \subseteq Chain(nx, f)
  BY <1>1, <1>4, ChainTail
<1> QED BY <1>3, <1>4, <1>5

-----------------------------------------------------------------------------
(* Init has the types, whatever files the command line names.              *)
LEMMA InitType == Init => TypeOK
<1> SUFFICES ASSUME Init PROVE TypeOK
  OBVIOUS
<1>1. PICK n \in 1..Sources :
        \E s \in [1..n -> Files] : \E out \in Files : io_init(n, s, out)
  BY DEF Init
<1>2. PICK s \in [1..n -> Files], out \in Files : io_init(n, s, out)
  BY <1>1
<1>3. n \in Nat /\ 1 \in 1..n
  BY SourcesAssumption
<1>4. ASSUME NEW f \in Files PROVE LinkOf(n, s, f) \in Ptr
  <2>1. CASE \E i \in 1..n-1 : s[i] = f
    <3> DEFINE k == CHOOSE i \in 1..n-1 : s[i] = f
    <3>1. k \in 1..n-1
      BY <2>1
    <3>2. LinkOf(n, s, f) = s[1 + k]
      BY <2>1 DEF LinkOf
    <3> HIDE DEF k
    <3>3. 1 + k \in 1..n
      BY <1>3, <3>1
    <3> QED BY <3>2, <3>3 DEF Ptr
  <2> QED BY <2>1 DEF LinkOf, Ptr
<1>5. next \in [Files -> Ptr] /\ live \subseteq Files /\ open \subseteq Files
  BY <1>2, <1>3, <1>4 DEF io_init
<1>6. curr \in [Units -> Ptr]
  BY <1>2, <1>3 DEF io_init, Ptr
<1> QED BY <1>5, <1>6 DEF Init, TypeOK

-----------------------------------------------------------------------------
(* What the operations do to the types, each used by several of them.      *)
HeapType == /\ live \subseteq Files /\ open \subseteq Files
            /\ incl \subseteq Files /\ next \in [Files -> Ptr]
FaultType == fault \in {"none", "freed", "nostream"}
UnitType == /\ curr \in [Units -> Ptr] /\ head \in [Units -> Ptr]
            /\ \A u \in Units : curr[u] # NULL => head[u] # NULL

LEMMA HeapTyped ==
  ASSUME TypeOK, NEW gone, NEW closed, NEW fresh \in SUBSET Files,
         Heap(gone, closed, fresh)
  PROVE  HeapType'
BY DEF TypeOK, Heap, HeapType, Ptr

LEMMA ReplaceTyped ==
  ASSUME TypeOK, NEW U, NEW fresh \in SUBSET Files, Replace(U, fresh)
  PROVE  HeapType' /\ FaultType'
BY HeapTyped DEF Replace, Sound, FaultType

LEMMA SetListTyped ==
  ASSUME TypeOK, NEW u \in Units, NEW f \in Ptr, SetList(u, f)
  PROVE  UnitType'
BY DEF TypeOK, SetList, UnitType

LEMMA FinishTyped ==
  ASSUME TypeOK, io_finish, reading' = NULL
  PROVE  TypeOK'
<1>1. HeapType' /\ FaultType'
  BY ReplaceTyped DEF io_finish
<1> QED BY <1>1 DEF TypeOK, io_finish, HeapType, FaultType, comp, Ptr

LEMMA OpenTyped ==
  ASSUME TypeOK, reading = NULL, NEW u \in Units,
         RejectOptions(u) \/ \E f \in Fresh : OpenNamed(u, f),
         UNCHANGED <<comp, phase, reading>>
  PROVE  TypeOK'
<1>1. CASE RejectOptions(u)
  BY <1>1 DEF TypeOK, RejectOptions, Sound, units, comp
<1>2. ASSUME NEW f \in Fresh, OpenNamed(u, f) PROVE TypeOK'
  <2>1. f \in Files /\ f \in Ptr
    BY DEF Fresh, Ptr
  <2>2. HeapType' /\ FaultType' /\ UnitType'
    BY <1>2, <2>1, ReplaceTyped, SetListTyped DEF OpenNamed
  <2> QED BY <1>2, <2>2 DEF TypeOK, OpenNamed, HeapType, FaultType, UnitType, comp
<1> QED BY <1>1, <1>2

LEMMA MkfileTyped ==
  ASSUME TypeOK, NEW u \in Units, io_mkfile(u)
  PROVE  TypeOK'
<1>1. PICK f \in Fresh : io_setfile(u, f)
  BY DEF io_mkfile
<1>2. f \in Files /\ f \in Ptr
  BY DEF Fresh, Ptr
<1>3. HeapType' /\ FaultType' /\ UnitType'
  BY <1>1, <1>2, ReplaceTyped, SetListTyped DEF io_setfile
<1> QED BY <1>1, <1>3 DEF TypeOK, io_mkfile, io_setfile, HeapType, FaultType,
                          UnitType, comp, Running

LEMMA RewindTyped ==
  ASSUME TypeOK, NEW u \in Units, io_rewind(u)
  PROVE  TypeOK'
<1>1. CASE curr[u] = head[u] /\ UNCHANGED <<heap, curr>>
  BY <1>1 DEF TypeOK, io_rewind, Sound, heap, comp
<1>2. CASE curr[u] # head[u] /\ io_close(u)
  <2>1. head[u] \in Files
    BY <1>2 DEF TypeOK, io_rewind, Ptr
  <2>2. open' \subseteq Files /\ curr' = [curr EXCEPT ![u] = head[u]]
    BY <1>2, <2>1 DEF TypeOK, io_rewind
  <2> QED BY <1>2, <2>1, <2>2 DEF TypeOK, io_rewind, io_close, Sound, comp,
                                  Running, Ptr
<1> QED BY <1>1, <1>2 DEF io_rewind

LEMMA ReadErrorTyped ==
  ASSUME TypeOK, ReadError \/ ReadLine
  PROVE  TypeOK'
<1>1. CASE io_finish /\ reading' = NULL
  BY <1>1, FinishTyped
<1>2. CASE /\ UNCHANGED <<heap, units, comp, phase>>
           /\ reading' = NULL
           /\ Sound(curr[reading] \in live, TRUE)
  BY <1>2 DEF TypeOK, Sound, heap, units, comp
<1> QED BY <1>1, <1>2 DEF ReadError, ReadLine

LEMMA ReadEofTyped ==
  ASSUME TypeOK, ReadEof
  PROVE  TypeOK'
<1> DEFINE u == reading
           after == next[curr[u]]
           closed == open \ {curr[u]}
<1>1. /\ u \in Units /\ curr[u] \in Files /\ after \in Ptr
      /\ closed \subseteq Files
  BY DEF TypeOK, ReadEof, Ptr
<1>2. /\ live' \subseteq Files /\ incl' \subseteq Files /\ next' \in [Files -> Ptr]
  BY DEF TypeOK, ReadEof, io_close, Ptr
<1>3. curr' = [curr EXCEPT ![u] = after] /\ UNCHANGED <<head, offset, includes, phase>>
  BY DEF ReadEof, After
<1>4. open' \subseteq Files
  BY <1>1, NullAssumption DEF ReadEof, After, Ptr
<1>5. reading' \in {u, NULL} /\ (after \notin open' => reading' = NULL)
  BY DEF ReadEof, After, GoesOn
<1>6. incdepth' \in Nat
  BY DEF TypeOK, ReadEof
<1>7. fault' \in {"none", "freed", "nostream"}
  BY DEF ReadEof, Sound
<1>8. curr'[u] = after
  BY <1>1, <1>3 DEF TypeOK
<1>9. UnitType'
  BY <1>1, <1>3, NullAssumption DEF TypeOK, UnitType
<1>10. reading' # NULL => curr'[reading'] # NULL
  BY <1>4, <1>5, <1>8, NullAssumption
<1> QED BY <1>1, <1>2, <1>3, <1>4, <1>5, <1>6, <1>7, <1>9, <1>10 DEF TypeOK, UnitType

LEMMA EcompTyped ==
  ASSUME TypeOK, io_ecomp
  PROVE  TypeOK'
<1>1. PICK W \in SUBSET Redirected : \E f \in [W -> Fresh] : Compiled(W, f)
  BY DEF io_ecomp
<1>2. PICK f \in [W -> Fresh] : Compiled(W, f)
  BY <1>1
<1>3. /\ \A w \in W : f[w] \in Files /\ f[w] \in Ptr /\ f[w] # NULL
      /\ {f[w] : w \in W} \in SUBSET Files
  BY NullAssumption DEF Fresh, Ptr
<1>4. HeapType' /\ FaultType'
  BY <1>2, <1>3, HeapTyped DEF Compiled, Sound, FaultType
<1>5. UnitType' /\ offset' \in [Units -> {"start", "end"}]
  BY <1>2, <1>3 DEF TypeOK, Compiled, UnitType
<1> QED BY <1>4, <1>5 DEF TypeOK, io_ecomp, AtEnd, Compiling, HeapType, FaultType,
                          UnitType

LEMMA IncludeTyped ==
  ASSUME TypeOK, NEW n \in Names, NEW space \in BOOLEAN, NEW f \in Files,
         io_include(n, space, f)
  PROVE  TypeOK'
<1>1. curr[UNITI] \in Ptr /\ curr[UNITI] # NULL /\ f # NULL /\ reading' = NULL
  BY UnitAssumption, NullAssumption DEF TypeOK, io_include, Compiling
<1>2. /\ curr' \in [Units -> Ptr] /\ next' \in [Files -> Ptr]
      /\ \A u \in Units : curr'[u] # NULL => head'[u] # NULL
  BY <1>1 DEF TypeOK, io_include, Ptr
<1> QED BY <1>1, <1>2 DEF TypeOK, io_include

-----------------------------------------------------------------------------
(* The heap, the unit table and the compiler's state keep their types      *)
(* through every operation of the runtime, and neither io_read nor         *)
(* io_rewind finds a unit without the file it is about to use.             *)
LEMMA NextType == TypeOK /\ [Next]_vars => TypeOK'
<1> SUFFICES ASSUME TypeOK, [Next]_vars PROVE TypeOK'
  OBVIOUS
<1>1. CASE UNCHANGED vars
  BY <1>1 DEF TypeOK, vars, heap, units, comp
<1>2. ASSUME NEW u \in Units, io_openi(u) \/ io_openo(u) PROVE TypeOK'
  BY <1>2, OpenTyped DEF io_openi, io_openo, Running
<1>3. ASSUME NEW u \in Units, io_endfile(u) PROVE TypeOK'
  <2>1. HeapType' /\ FaultType' /\ UnitType'
    BY <1>3, ReplaceTyped, SetListTyped DEF io_endfile, Ptr
  <2> QED BY <1>3, <2>1 DEF TypeOK, io_endfile, HeapType, FaultType, UnitType,
                            comp, Running
<1>4. ASSUME NEW u \in Units, io_mkfile(u) PROVE TypeOK'
  BY <1>4, MkfileTyped
<1>5. ASSUME NEW u \in Units, io_rewind(u) PROVE TypeOK'
  BY <1>5, RewindTyped
<1>6. ASSUME NEW u \in Units, io_seek(u) \/ io_print(u) \/ ReadStart(u) PROVE TypeOK'
  BY <1>6 DEF TypeOK, io_seek, io_print, UseStream, ReadStart, Sound, heap, units, comp
<1>7. CASE ReadOpen
  BY <1>7 DEF TypeOK, ReadOpen, Sound, units, comp, Ptr
<1>8. CASE ReadError \/ ReadLine
  BY <1>8, ReadErrorTyped
<1>9. CASE ReadEof
  BY <1>9, ReadEofTyped
<1>10. ASSUME NEW n \in Names, NEW space \in BOOLEAN, NEW f \in Files,
              io_include(n, space, f)
       PROVE  TypeOK'
  BY <1>10, IncludeTyped
<1>11. CASE io_ecomp
  BY <1>11, EcompTyped
<1>12. CASE Exit
  BY <1>12, FinishTyped DEF Exit, Compiling, Running
<1> QED BY <1>1, <1>2, <1>3, <1>4, <1>5, <1>6, <1>7, <1>8, <1>9, <1>10, <1>11,
           <1>12 DEF Next, ReadStep

THEOREM TypeCorrect == Spec => []TypeOK
BY InitType, NextType, PTL DEF Spec

-----------------------------------------------------------------------------
(* Memory safety.  The invariant relates the lists of all units; it needs  *)
(* one more fact, that an include file is not linked back to itself, so    *)
(* that freeing it leaves the files behind it on their list.               *)
IncludeAcyclic == \A f \in incl : f \notin Chain(next, next[f])

HeapInv == NoDangling /\ NoSharing /\ NoLeak /\ UnreadWithinKept /\ IncludeAcyclic
IInv == TypeOK /\ HeapInv

(* The environment the theorem is about: no option string with '-' is      *)
(* given without a file name, and END stands in an include file only where *)
(* INPUT is then switched to stdin.                                        *)
Environment == ~ OptionErrors /\ (EndInInclude => ~ Rflag /\ ~ MallocFails)

(* A file linked to nothing is a list by itself.                           *)
LEMMA ChainSingle ==
  ASSUME NEW nx \in [Files -> Ptr], NEW f \in Files, nx[f] = NULL
  PROVE  Chain(nx, f) = {f}
BY ChainHead, ChainNull

(* Cutting links never lengthens a list.                                   *)
LEMMA ChainCut ==
  ASSUME NEW nx \in [Files -> Ptr], NEW ny \in [Files -> Ptr], NEW f \in Ptr,
         \A g \in Files : ny[g] \in {nx[g], NULL}
  PROVE  Chain(ny, f) \subseteq Chain(nx, f)
<1>1. Linked(ny, Chain(nx, f))
  BY ChainClosed DEF Linked
<1> QED BY <1>1, ChainClosed, ChainLeast

(* With the lists sound, a file ahead of curr that is not an include file  *)
(* is behind head, and every file of the unit is freed by io_closeall.     *)
LEMMA OwnedFacts ==
  ASSUME TypeOK, HeapInv, NEW u \in Units
  PROVE  /\ Unread(u) \subseteq Files /\ Kept(u) \subseteq Files
         /\ Owned(u) = Kept(u) \cup (Unread(u) \cap incl)
         /\ Owned(u) \subseteq live
         /\ open \cap Kept(u) \subseteq Unread(u)
         /\ curr[u] \in Unread(u) \cup {NULL} /\ head[u] \in Kept(u) \cup {NULL}
<1>1. Unread(u) \subseteq Files /\ Kept(u) \subseteq Files
  BY DEF Unread, Kept, Chain
<1>2. curr[u] \in Unread(u) \cup {NULL} /\ head[u] \in Kept(u) \cup {NULL}
  BY ChainClosed DEF TypeOK, Unread, Kept
<1>3. ASSUME NEW f \in open, f \in Kept(u) PROVE f \in Unread(u)
  <2>1. PICK v \in Units : f \in Unread(v)
    BY <1>3 DEF HeapInv, NoLeak
  <2> QED BY <1>3, <2>1 DEF HeapInv, NoSharing, Owned
<1>4. open \cap Kept(u) \subseteq Unread(u)
  BY <1>3
<1>5. Owned(u) \subseteq live /\ Unread(u) \ incl \subseteq Kept(u)
  BY DEF HeapInv, NoDangling, UnreadWithinKept
<1>6. Owned(u) = Kept(u) \cup (Unread(u) \cap incl)
  BY <1>5 DEF Owned
<1> QED BY <1>1, <1>2, <1>4, <1>5, <1>6

(* The step every replacing operation takes: the files `gone` are freed,   *)
(* the units of W get an empty list or one fresh file each, the others     *)
(* keep what is theirs, and may forget the files they have read.           *)
Restocks(W, gone, closed, fresh) ==
  /\ fresh \subseteq Fresh
  /\ Heap(gone, closed, fresh)
  /\ fault' # "freed"
  /\ open \cap gone \subseteq closed
  /\ \A u \in W : /\ curr'[u] = head'[u] /\ curr'[u] \in fresh \cup {NULL}
                  /\ Owned(u) \subseteq gone
                  /\ Unread(u) \subseteq closed
  /\ \A v, w \in W : curr'[v] = curr'[w] /\ curr'[v] # NULL => v = w
  /\ \A f \in fresh : \E w \in W : f = curr'[w]
  /\ \A u \in Units \ W :
       /\ curr'[u] = curr[u] /\ Unread(u) \cap gone = {}
       /\ \/ head'[u] = head[u] /\ Kept(u) \cap gone = {}
          \/ /\ head'[u] = curr[u] /\ Unread(u) \cap incl = {}
             /\ Kept(u) \ Unread(u) \subseteq gone
       /\ phase' # "compile" => Unread(u) \cap incl = {}

Restocked(W) == \E gone, closed, fresh : Restocks(W, gone, closed, fresh)

LEMMA HeapStep ==
  ASSUME TypeOK, TypeOK', HeapInv, NEW W \in SUBSET Units, Restocked(W)
  PROVE  HeapInv'
<1>0. PICK gone, closed, fresh : Restocks(W, gone, closed, fresh)
  BY DEF Restocked
<1> USE <1>0 DEF Restocks
<1>1. /\ next \in [Files -> Ptr] /\ next' \in [Files -> Ptr]
      /\ fresh \subseteq Files /\ fresh \cap live = {}
  BY DEF TypeOK, Fresh
<1>2. ASSUME NEW p \in Ptr, Chain(next, p) \subseteq live, Chain(next, p) \cap gone = {}
      PROVE  Chain(next', p) = Chain(next, p)
  <2>1. \A g \in Chain(next, p) : next'[g] = next[g]
    BY <1>1, <1>2 DEF Heap, Chain
  <2> QED BY <1>1, <2>1, ChainSame
<1>3. ASSUME NEW u \in Units \ W
      PROVE  /\ Unread(u)' = Unread(u)
             /\ Kept(u)' = Kept(u) \/ (Kept(u)' = Unread(u) /\ Unread(u) \cap incl = {})
             /\ Kept(u) \ Kept(u)' \subseteq gone
             /\ Owned(u) \ gone \subseteq Owned(u)' /\ Owned(u)' \subseteq Owned(u)
             /\ Owned(u)' \cap gone = {}
  <2>1. curr[u] \in Ptr /\ head[u] \in Ptr
    BY DEF TypeOK
  <2>2. Unread(u) \subseteq live /\ Kept(u) \subseteq live
    BY OwnedFacts DEF Owned
  <2>3. Unread(u)' = Unread(u)
    BY <1>2, <2>1, <2>2 DEF Unread
  <2>4. CASE head'[u] = head[u] /\ Kept(u) \cap gone = {}
    <3>1. Kept(u)' = Kept(u)
      BY <1>2, <2>1, <2>2, <2>4 DEF Kept
    <3> QED BY <2>3, <2>4, <3>1 DEF Owned
  <2>5. CASE /\ head'[u] = curr[u] /\ Unread(u) \cap incl = {}
             /\ Kept(u) \ Unread(u) \subseteq gone
    <3>1. Kept(u)' = Unread(u)
      BY <1>2, <2>1, <2>2, <2>5 DEF Kept, Unread
    <3> QED BY <2>3, <2>5, <3>1 DEF Owned
  <2> QED BY <2>4, <2>5
<1>4. ASSUME NEW u \in W
      PROVE  /\ Unread(u)' = {curr'[u]} \ {NULL} /\ Kept(u)' = {curr'[u]} \ {NULL}
             /\ Owned(u)' = {curr'[u]} \ {NULL} /\ Owned(u)' \subseteq fresh
  <2>1. CASE curr'[u] = NULL
    BY <1>1, <2>1, ChainNull DEF Unread, Kept, Owned
  <2>2. CASE curr'[u] \in fresh
    <3>1. curr'[u] \in Files /\ next'[curr'[u]] = NULL /\ curr'[u] # NULL
      BY <1>1, <2>2, NullAssumption DEF Heap
    <3> QED BY <1>1, <2>2, <3>1, ChainSingle DEF Unread, Kept, Owned
  <2> QED BY <2>1, <2>2
<1>5. \A u \in Units : Owned(u)' \subseteq live'
  <2>1. ASSUME NEW u \in W PROVE Owned(u)' \subseteq live'
    BY <1>4 DEF Heap
  <2>2. ASSUME NEW u \in Units \ W PROVE Owned(u)' \subseteq live'
    BY <1>3, OwnedFacts DEF Heap
  <2> QED BY <2>1, <2>2
<1>6. incl \subseteq live /\ incl' \subseteq live' /\ incl' \cap fresh = {} /\ incl' \subseteq incl
  BY <1>1 DEF HeapInv, NoDangling, Heap
<1>7. NoSharing'
  <2> SUFFICES ASSUME NEW u \in Units, NEW v \in Units, u # v
               PROVE  Owned(u)' \cap Owned(v)' = {}
    BY DEF NoSharing
  <2>1. CASE u \in W /\ v \in W
    BY <1>4, <2>1
  <2>2. CASE u \in W /\ v \notin W
    BY <1>1, <1>3, <1>4, <2>2, OwnedFacts
  <2>3. CASE u \notin W /\ v \in W
    BY <1>1, <1>3, <1>4, <2>3, OwnedFacts
  <2>4. CASE u \notin W /\ v \notin W
    <3>1. Owned(u) \cap Owned(v) = {}
      BY DEF HeapInv, NoSharing
    <3> QED BY <1>3, <2>4, <3>1
  <2> QED BY <2>1, <2>2, <2>3, <2>4
<1>8. ASSUME NEW f \in live' PROVE \E u \in Units : f \in Owned(u)'
  <2>1. CASE f \in fresh
    BY <1>1, <1>4, <2>1, NullAssumption
  <2>2. CASE f \notin fresh
    <3>1. f \in live /\ f \notin gone
      BY <1>8, <2>2 DEF Heap
    <3>2. PICK u \in Units : f \in Owned(u)
      BY <3>1 DEF HeapInv, NoLeak
    <3>3. u \notin W
      BY <3>1, <3>2
    <3> QED BY <1>3, <3>1, <3>2, <3>3
  <2> QED BY <2>1, <2>2
<1>9. ASSUME NEW f \in open' PROVE \E u \in Units : f \in Unread(u)'
  <2>1. CASE f \in fresh
    BY <1>1, <1>4, <2>1, NullAssumption
  <2>2. CASE f \notin fresh
    <3>1. f \in open /\ f \notin closed
      BY <1>9, <2>2 DEF Heap
    <3>2. PICK u \in Units : f \in Unread(u)
      BY <3>1 DEF HeapInv, NoLeak
    <3>3. u \notin W
      BY <3>1, <3>2
    <3> QED BY <1>3, <3>2, <3>3
  <2> QED BY <2>1, <2>2
<1>10. UnreadWithinKept'
  <2>1. ASSUME NEW u \in W
        PROVE  /\ Unread(u)' \ incl' \subseteq Kept(u)' /\ Kept(u)' \cap incl' = {}
               /\ Unread(u)' \cap incl' = {}
    BY <1>4, <1>6
  <2>2. ASSUME NEW u \in Units \ W
        PROVE  /\ Unread(u)' \ incl' \subseteq Kept(u)' /\ Kept(u)' \cap incl' = {}
               /\ (phase' # "compile" \/ u # UNITI) => Unread(u)' \cap incl' = {}
    <3>1. u \in Units /\ UnreadWithinKept
      BY DEF HeapInv
    <3>2. Unread(u) \ incl \subseteq Kept(u) /\ Kept(u) \cap incl = {}
      BY <3>1 DEF UnreadWithinKept
    <3>3. u # UNITI => Unread(u) \cap incl = {}
      BY <3>1 DEF UnreadWithinKept
    <3>4. incl' = incl \ gone
      BY DEF Heap
    <3> QED BY <1>3, <3>2, <3>3, <3>4
  <2> QED BY <2>1, <2>2 DEF UnreadWithinKept
<1>11. IncludeAcyclic'
  <2> SUFFICES ASSUME NEW f \in incl' PROVE f \notin Chain(next', next'[f])
    BY DEF IncludeAcyclic
  <2>1. f \in incl /\ f \notin gone /\ f \notin fresh /\ f \in Files
    BY <1>1, <1>6 DEF Heap, TypeOK
  <2>2. next'[f] = next[f] /\ next[f] \in Ptr
    BY <1>1, <2>1 DEF Heap
  <2>3. \A g \in Files : next'[g] \in {next[g], NULL}
    BY DEF Heap
  <2>4. Chain(next', next[f]) \subseteq Chain(next, next[f])
    BY <1>1, <2>2, <2>3, ChainCut
  <2> QED BY <2>1, <2>2, <2>4 DEF HeapInv, IncludeAcyclic
<1> QED BY <1>5, <1>6, <1>7, <1>8, <1>9, <1>10, <1>11
      DEF HeapInv, NoDangling, NoLeak

(* A unit given one new file, or none: io_openi, io_openo, io_endfile,     *)
(* io_mkfile.                                                              *)
Attached(u) == Restocked({u}) /\ \A v \in Units \ {u} : head'[v] = head[v]

LEMMA ReplaceOneSafe ==
  ASSUME TypeOK, TypeOK', HeapInv, phase = "run", UNCHANGED phase,
         NEW u \in Units, NEW fresh \in SUBSET Fresh, NEW f \in fresh \cup {NULL},
         fresh \subseteq {f}, Replace({u}, fresh), SetList(u, f)
  PROVE  HeapInv' /\ Attached(u)
<1> DEFINE gone == Freed({u})
           closed == Closed({u})
<1>1. gone = Owned(u) /\ closed = Unread(u)
  BY OwnedFacts DEF Freed, Closed
<1>2. Heap(gone, closed, fresh)
  BY DEF Replace
<1>3. fault' # "freed"
  <2>1. CloseSound({u})
    BY OwnedFacts DEF CloseSound, HeapInv, UnreadWithinKept
  <2> QED BY <2>1 DEF Replace, Sound
<1>4. /\ curr'[u] = f /\ head'[u] = f
      /\ \A v \in Units \ {u} : curr'[v] = curr[v] /\ head'[v] = head[v]
  BY DEF SetList, TypeOK
<1>5. open \cap gone \subseteq closed
  BY <1>1, OwnedFacts DEF Owned
<1>6. ASSUME NEW v \in Units \ {u}
      PROVE  /\ Unread(v) \cap gone = {} /\ Kept(v) \cap gone = {}
             /\ Unread(v) \cap incl = {}
  <2>1. Owned(v) \cap Owned(u) = {}
    BY DEF HeapInv, NoSharing
  <2>2. Unread(v) \cap incl = {}
    BY DEF HeapInv, UnreadWithinKept
  <2> QED BY <1>1, <2>1, <2>2 DEF Owned
<1> HIDE DEF gone, closed
<1>7. Restocks({u}, gone, closed, fresh)
  BY <1>1, <1>2, <1>3, <1>4, <1>5, <1>6 DEF Restocks
<1> QED BY <1>4, <1>7, HeapStep DEF Restocked, Attached

(* io_closeall on every unit: exit.                                        *)
LEMMA FinishSafe ==
  ASSUME TypeOK, TypeOK', HeapInv, io_finish
  PROVE  HeapInv' /\ Restocked(Units)
<1> DEFINE gone == Freed(Units)
           closed == Closed(Units)
<1>1. \A u \in Units : Owned(u) \subseteq gone /\ Unread(u) \subseteq closed
  BY OwnedFacts DEF Freed, Closed
<1>2. Heap(gone, closed, {})
  BY DEF io_finish, Replace
<1>3. fault' # "freed"
  <2>1. CloseSound(Units)
    BY OwnedFacts DEF CloseSound, HeapInv, UnreadWithinKept
  <2> QED BY <2>1 DEF io_finish, Replace, Sound
<1>4. \A u \in Units : curr'[u] = NULL /\ head'[u] = NULL
  BY DEF io_finish
<1>5. open \cap gone \subseteq closed
  BY DEF HeapInv, NoLeak, Closed
<1> HIDE DEF gone, closed
<1>6. Restocks(Units, gone, closed, {})
  BY <1>1, <1>2, <1>3, <1>4, <1>5 DEF Restocks
<1> QED BY <1>6, HeapStep DEF Restocked

(* The end of compilation.                                                 *)
LEMMA EcompSafe ==
  ASSUME Environment, TypeOK, TypeOK', HeapInv, io_ecomp
  PROVE  /\ HeapInv'
         /\ \E W \in SUBSET Units :
              /\ Restocked(W)
              /\ \A u \in Units \ W :
                   head'[u] = IF Rflag /\ u = UNITI THEN curr[u] ELSE head[u]
<1>1. PICK W \in SUBSET Redirected :
        \E f \in [W -> Fresh] : /\ MallocFails \/ W = Redirected
                                /\ \A v, w \in W : f[v] = f[w] => v = w
                                /\ Compiled(W, f)
  BY DEF io_ecomp
<1>2. PICK f \in [W -> Fresh] : /\ MallocFails \/ W = Redirected
                                /\ \A v, w \in W : f[v] = f[w] => v = w
                                /\ Compiled(W, f)
  BY <1>1
<1> DEFINE gone == Freed(W) \cup Passed
           closed == Closed(W)
           fresh == {f[w] : w \in W}
           c == curr[UNITI]
<1>3. W \in SUBSET Units /\ fresh \in SUBSET Fresh /\ fresh \subseteq Files
  BY UnitAssumption DEF Redirected, Fresh
<1>4. Heap(gone, closed, fresh)
  BY <1>2 DEF Compiled
<1>5. /\ \A u \in W : curr'[u] = f[u] /\ head'[u] = f[u] /\ f[u] \in fresh
      /\ \A u \in Units \ W : /\ curr'[u] = curr[u]
                              /\ head'[u] = IF Rflag /\ u = UNITI THEN curr[u]
                                            ELSE head[u]
  BY <1>2, <1>3 DEF Compiled
<1>6. Unread(UNITI) \subseteq Kept(UNITI) \/ (~ Rflag /\ W = Redirected)
  <2>1. CASE EndInInclude
    BY <1>2, <2>1 DEF Environment
  <2>2. CASE ~ EndInInclude
    <3>1. c \notin incl /\ c \in open /\ c \in Files
      BY <2>2 DEF io_ecomp, AtEnd, TypeOK
    <3>2. c \in Unread(UNITI) /\ c # NULL
      BY <3>1, UnitAssumption, NullAssumption, OwnedFacts
    <3>3. c \in Kept(UNITI)
      BY <3>1, <3>2, UnitAssumption DEF HeapInv, UnreadWithinKept
    <3>4. Chain(next, c) \subseteq Chain(next, head[UNITI])
      BY <3>3, UnitAssumption, ChainTail DEF TypeOK, Kept
    <3> QED BY <3>4 DEF Unread, Kept
  <2> QED BY <2>1, <2>2
<1>7. /\ Rflag => UNITI \notin W
      /\ ~ Rflag => Passed = {}
      /\ Rflag => Unread(UNITI) \cap incl = {}
      /\ Rflag => Passed = Kept(UNITI) \ Unread(UNITI)
  <2>1. Rflag => UNITI \notin W
    BY UnitAssumption DEF Redirected
  <2>2. ASSUME Rflag
        PROVE  Unread(UNITI) \cap incl = {} /\ Passed = Kept(UNITI) \ Unread(UNITI)
    <3>1. Unread(UNITI) \subseteq Kept(UNITI)
      BY <1>6, <2>2
    <3>2. c \in Unread(UNITI)
      BY UnitAssumption, NullAssumption, OwnedFacts DEF io_ecomp, AtEnd, TypeOK
    <3>3. Unread(UNITI) \cap incl = {}
      BY <3>1, UnitAssumption DEF HeapInv, UnreadWithinKept
    <3> QED BY <2>2, <3>1, <3>2, <3>3 DEF Passed, Unread
  <2> QED BY <2>1, <2>2 DEF Passed
<1>8. \A u \in W : Owned(u) \subseteq gone /\ Unread(u) \subseteq closed
  BY <1>3, OwnedFacts DEF Freed, Closed
<1>9. Freed(W) = UNION {Owned(u) : u \in W}
  BY <1>3, OwnedFacts DEF Freed
<1>10. Passed \subseteq Kept(UNITI) /\ Passed \cap Unread(UNITI) = {}
  BY <1>7
<1>11. open \cap gone \subseteq closed
  <2>1. open \cap Passed = {}
    BY <1>10, UnitAssumption, OwnedFacts
  <2>2. ASSUME NEW u \in W PROVE open \cap Owned(u) \subseteq Unread(u)
    BY <1>3, OwnedFacts DEF Owned
  <2> QED BY <1>9, <2>1, <2>2 DEF Closed
<1>12. fault' # "freed"
  <2>1. CloseSound(W)
    BY <1>3, OwnedFacts DEF CloseSound, HeapInv, UnreadWithinKept
  <2>2. Passed \subseteq live
    BY <1>10, UnitAssumption, OwnedFacts DEF Owned
  <2> QED BY <1>2, <2>1, <2>2 DEF Compiled, Sound
<1>13. ASSUME NEW u \in Units \ W
       PROVE  /\ Unread(u) \cap gone = {}
              /\ \/ head'[u] = head[u] /\ Kept(u) \cap gone = {}
                 \/ /\ head'[u] = curr[u] /\ Unread(u) \cap incl = {}
                    /\ Kept(u) \ Unread(u) \subseteq gone
              /\ Unread(u) \cap incl = {}
  <2>1. Owned(u) \cap Freed(W) = {}
    BY <1>3, <1>9 DEF HeapInv, NoSharing
  <2>2. CASE Rflag /\ u = UNITI
    BY <1>5, <1>7, <2>1, <2>2 DEF Owned
  <2>3. CASE ~ (Rflag /\ u = UNITI)
    <3>1. Owned(u) \cap Passed = {}
      <4>1. CASE ~ Rflag
        BY <1>7, <4>1
      <4>2. CASE Rflag
        <5>1. Owned(u) \cap Owned(UNITI) = {}
          BY <2>3, <4>2, UnitAssumption DEF HeapInv, NoSharing
        <5> QED BY <1>10, <5>1 DEF Owned
      <4> QED BY <4>1, <4>2
    <3>2. Unread(u) \cap incl = {}
      <4>1. CASE u # UNITI
        BY <4>1 DEF HeapInv, UnreadWithinKept
      <4>2. CASE u = UNITI
        <5>1. W # Redirected
          BY <2>3, <4>2 DEF Redirected
        <5>2. Unread(UNITI) \subseteq Kept(UNITI)
          BY <1>6, <5>1
        <5> QED BY <4>2, <5>2, UnitAssumption DEF HeapInv, UnreadWithinKept
      <4> QED BY <4>1, <4>2
    <3>3. head'[u] = head[u]
      BY <1>5, <2>3
    <3>4. Unread(u) \cap gone = {} /\ Kept(u) \cap gone = {}
      BY <2>1, <3>1 DEF Owned
    <3> QED BY <3>2, <3>3, <3>4
  <2> QED BY <2>2, <2>3
<1>14. \A v, w \in W : curr'[v] = curr'[w] /\ curr'[v] # NULL => v = w
  BY <1>2, <1>5
<1>15. \A g \in fresh : \E w \in W : g = curr'[w]
  BY <1>5
<1> HIDE DEF gone, closed, fresh
<1>16. Restocks(W, gone, closed, fresh)
  BY <1>3, <1>4, <1>5, <1>8, <1>11, <1>12, <1>13, <1>14, <1>15 DEF Restocks
<1> QED BY <1>3, <1>5, <1>16, HeapStep DEF Restocked

(* Counting from 1 reaches everything up to n.  (Were m missing, adding 1   *)
(* would map the numbers below m that are reached to themselves without 1.)*)
LEMMA Counting ==
  ASSUME NEW n \in Nat, NEW S, 1 \in S, \A i \in 1..n-1 : i \in S => i + 1 \in S
  PROVE  1..n \subseteq S
<1> SUFFICES ASSUME NEW m \in 1..n, m \notin S PROVE FALSE
  OBVIOUS
<1> DEFINE below == {i \in 1..m : i \in S}
           up == [i \in below |-> i + 1]
<1>1. IsFiniteSet(below)
  <2>1. IsFiniteSet(1..m) /\ below \in SUBSET (1..m)
    BY FS_Interval
  <2> QED BY <2>1, FS_Subset
<1>2. 1 \in below
  OBVIOUS
<1>3. \A i \in below : i + 1 \in below \ {1}
  <2> SUFFICES ASSUME NEW i \in below PROVE i + 1 \in below \ {1}
    OBVIOUS
  <2>1. i \in 1..m /\ i \in S /\ i # m
    OBVIOUS
  <2>2. i \in 1..n-1 /\ i + 1 \in 1..m
    BY <2>1
  <2> QED BY <2>1, <2>2
<1>4. \A i, j \in below : i + 1 = j + 1 => i = j
  OBVIOUS
<1> HIDE DEF below
<1>5. up \in Injection(below, below \ {1})
  BY <1>3, <1>4 DEF Injection, IsInjective
<1>6. /\ IsFiniteSet(below \ {1})
      /\ Cardinality(below \ {1}) = Cardinality(below) - 1
  BY <1>1, <1>2, FS_RemoveElement
<1> HIDE DEF up
<1>7. Cardinality(below) <= Cardinality(below \ {1})
  BY <1>5, <1>6, FS_Injection
<1>8. Cardinality(below) \in Nat
  BY <1>1, FS_CardinalityType
<1> QED BY <1>6, <1>7, <1>8

(* The list the command line makes: every source file is on the list of    *)
(* the first, and nothing else is.                                         *)
LEMMA InitList ==
  ASSUME NEW n \in Nat \ {0}, NEW s \in [1..n -> Files], NEW out \in Files,
         io_init(n, s, out)
  PROVE  /\ Chain(next, s[1]) = {s[i] : i \in 1..n}
         /\ Chain(next, out) = {out}
         /\ next \in [Files -> Ptr]
<1> DEFINE all == {s[i] : i \in 1..n}
<1>1. \A i, j \in 1..n : s[i] = s[j] => i = j
  BY DEF io_init
<1>2. ASSUME NEW i \in 1..n-1 PROVE LinkOf(n, s, s[i]) = s[i + 1]
  <2> DEFINE k == CHOOSE j \in 1..n-1 : s[j] = s[i]
  <2>1. k \in 1..n-1 /\ s[k] = s[i]
    BY <1>2
  <2>2. LinkOf(n, s, s[i]) = s[1 + k]
    BY DEF LinkOf
  <2> HIDE DEF k
  <2>3. k = i
    BY <1>1, <2>1
  <2> QED BY <2>2, <2>3
<1>3. ASSUME NEW f \in Files, \A i \in 1..n-1 : s[i] # f PROVE LinkOf(n, s, f) = NULL
  BY <1>3 DEF LinkOf
<1>4. \A f \in Files : next[f] = LinkOf(n, s, f)
  BY DEF io_init
<1>5. all \in SUBSET Files /\ s[1] \in all
  OBVIOUS
<1>6. ASSUME NEW f \in all PROVE next[f] \in all \cup {NULL}
  <2>1. PICK i \in 1..n : f = s[i]
    OBVIOUS
  <2>2. CASE i \in 1..n-1
    BY <1>2, <1>4, <2>1, <2>2
  <2>3. CASE i = n
    BY <1>1, <1>3, <1>4, <2>1, <2>3
  <2> QED BY <2>2, <2>3
<1>7. next \in [Files -> Ptr]
  <2>1. ASSUME NEW f \in Files PROVE LinkOf(n, s, f) \in Ptr
    <3>1. ASSUME NEW i \in 1..n-1, s[i] = f PROVE LinkOf(n, s, f) \in Ptr
      <4>1. i + 1 \in 1..n
        OBVIOUS
      <4> QED BY <1>2, <3>1, <4>1 DEF Ptr
    <3> QED BY <1>3, <3>1 DEF Ptr
  <2>2. DOMAIN next = Files /\ next = [f \in Files |-> next[f]]
    BY DEF io_init
  <2> QED BY <1>4, <2>1, <2>2
<1>8. Chain(next, s[1]) \subseteq all
  <2> HIDE DEF all
  <2>1. Linked(next, all)
    BY <1>6 DEF Linked
  <2> QED BY <1>5, <2>1, ChainLeast
<1>9. all \subseteq Chain(next, s[1])
  <2> DEFINE C == Chain(next, s[1])
             S == {i \in 1..n : s[i] \in C}
  <2>1. s[1] \in C /\ Linked(next, C)
    BY <1>5, <1>7, NullAssumption, ChainClosed DEF Ptr
  <2>2. ASSUME NEW i \in 1..n-1, i \in S PROVE i + 1 \in S
    <3>1. i + 1 \in 1..n /\ s[i + 1] \in Files /\ s[i] \in Files
      OBVIOUS
    <3>2. next[s[i]] = s[i + 1] /\ s[i + 1] # NULL
      BY <1>2, <1>4, <3>1, NullAssumption
    <3> QED BY <2>1, <2>2, <3>1, <3>2 DEF Linked
  <2>3. 1 \in S
    BY <2>1
  <2> HIDE DEF S
  <2>4. 1..n \subseteq S
    BY <2>2, <2>3, Counting
  <2> QED BY <2>4 DEF S
<1>10. next[out] = NULL
  BY <1>3, <1>4 DEF io_init
<1> QED BY <1>7, <1>8, <1>9, <1>10, ChainSingle

(* Everything the command line allocates is on the list of one unit.       *)
LEMMA InitSafe == Init => HeapInv
<1> SUFFICES ASSUME Init PROVE HeapInv
  OBVIOUS
<1>1. PICK n \in 1..Sources :
        \E s \in [1..n -> Files] : \E out \in Files : io_init(n, s, out)
  BY DEF Init
<1>2. PICK s \in [1..n -> Files], out \in Files : io_init(n, s, out)
  BY <1>1
<1>3. n \in Nat \ {0}
  BY SourcesAssumption
<1> DEFINE all == {s[i] : i \in 1..n}
<1>4. /\ Chain(next, s[1]) = all /\ Chain(next, out) = {out}
      /\ Chain(next, NULL) = {}
  BY <1>2, <1>3, InitList, ChainNull
<1>5. /\ all \cap {out} = {} /\ live = all \cup {out} /\ s[1] \in all
      /\ open \subseteq {s[1], out}
  BY <1>2, <1>3 DEF io_init
<1>6. \A u \in Units : curr[u] = IF u = UNITI THEN s[1]
                                 ELSE IF u = UNITO THEN out ELSE NULL
  BY <1>2 DEF io_init
<1> HIDE DEF all
<1>7. \A u \in Units : Unread(u) = IF u = UNITI THEN all
                                   ELSE IF u = UNITO THEN {out} ELSE {}
  BY <1>4, <1>6 DEF Unread
<1>8. head = curr /\ incl = {} /\ fault = "none"
  BY DEF Init
<1>9. \A u \in Units : Kept(u) = Unread(u) /\ Owned(u) = Unread(u)
  BY <1>8 DEF Kept, Unread, Owned
<1>10. NoDangling
  BY <1>5, <1>7, <1>8, <1>9 DEF NoDangling
<1>11. NoSharing
  BY <1>5, <1>7, <1>9, UnitAssumption DEF NoSharing
<1>12. NoLeak
  BY <1>5, <1>7, <1>9, UnitAssumption DEF NoLeak
<1>13. UnreadWithinKept /\ IncludeAcyclic
  BY <1>8, <1>9 DEF UnreadWithinKept, IncludeAcyclic
<1> QED BY <1>10, <1>11, <1>12, <1>13 DEF HeapInv

-----------------------------------------------------------------------------
(* The other operations.                                                   *)

(* INPUT() and OUTPUT() of a named file.                                   *)
LEMMA OpenSafe ==
  ASSUME Environment, TypeOK, TypeOK', HeapInv, NEW u \in Units,
         io_openi(u) \/ io_openo(u)
  PROVE  HeapInv' /\ Attached(u)
<1>1. phase = "run" /\ phase' = phase
  BY DEF io_openi, io_openo, Running
<1>2. ~ RejectOptions(u)
  BY DEF Environment, RejectOptions
<1>3. PICK f \in Fresh : OpenNamed(u, f)
  BY <1>2 DEF io_openi, io_openo
<1>4. Replace({u}, {f}) /\ SetList(u, f)
  BY <1>3 DEF OpenNamed
<1> QED BY <1>1, <1>4, ReplaceOneSafe

LEMMA MkfileSafe ==
  ASSUME TypeOK, TypeOK', HeapInv, NEW u \in Units, io_mkfile(u)
  PROVE  HeapInv' /\ Attached(u)
<1>1. phase = "run" /\ phase' = phase
  BY DEF io_mkfile, Running
<1>2. PICK f \in Fresh : Replace({u}, {f}) /\ SetList(u, f)
  BY DEF io_mkfile, io_setfile
<1> QED BY <1>1, <1>2, ReplaceOneSafe

LEMMA EndfileSafe ==
  ASSUME TypeOK, TypeOK', HeapInv, NEW u \in Units, io_endfile(u)
  PROVE  HeapInv' /\ Attached(u)
<1>1. phase = "run" /\ phase' = phase
  BY DEF io_endfile, Running
<1>2. Replace({u}, {}) /\ SetList(u, NULL)
  BY DEF io_endfile
<1> QED BY <1>1, <1>2, ReplaceOneSafe

(* An operation that leaves the lists alone: a seek, a line, an error of a *)
(* running program, the opening of the current file.                       *)
LEMMA SameListsSafe ==
  ASSUME TypeOK, HeapInv, UNCHANGED <<live, next, incl, curr, head, phase>>,
         fault' # "freed",
         \A f \in open' \ open : \E u \in Units : f \in Unread(u)
  PROVE  HeapInv'
<1>1. \A u \in Units : Unread(u)' = Unread(u) /\ Kept(u)' = Kept(u) /\ Owned(u)' = Owned(u)
  BY DEF Unread, Kept, Owned
<1>2. NoDangling'
  BY <1>1 DEF HeapInv, NoDangling
<1>3. NoSharing' /\ UnreadWithinKept'
  BY <1>1 DEF HeapInv, NoSharing, UnreadWithinKept
<1>4. NoLeak'
  BY <1>1 DEF HeapInv, NoLeak
<1>5. IncludeAcyclic'
  BY DEF HeapInv, IncludeAcyclic
<1> QED BY <1>2, <1>3, <1>4, <1>5 DEF HeapInv

(* The current file of a unit is allocated.                                *)
LEMMA CurrLive ==
  ASSUME TypeOK, HeapInv, NEW u \in Units
  PROVE  /\ curr[u] \in live \cup {NULL} /\ head[u] \in live \cup {NULL}
         /\ curr[u] # NULL => curr[u] \in Unread(u)
BY OwnedFacts DEF Owned

(* REWIND(): no include file is left on a unit of a running program, so    *)
(* that nothing is freed and the whole list is unread again.               *)
LEMMA RewindSafe ==
  ASSUME TypeOK, TypeOK', HeapInv, NEW u \in Units, io_rewind(u)
  PROVE  HeapInv'
<1>1. phase = "run" /\ UNCHANGED <<head, phase>>
  BY DEF io_rewind, Running
<1>2. CASE curr[u] = head[u] /\ UNCHANGED <<heap, curr>>
  <2>1. curr[u] \in live
    BY <1>2, CurrLive DEF io_rewind
  <2>2. fault' # "freed"
    BY <1>2, <2>1 DEF io_rewind, Sound
  <2> QED BY <1>1, <1>2, <2>2, SameListsSafe DEF heap
<1>3. CASE curr[u] # head[u]
  <2>1. Popped(u) = {}
    BY <1>1, CurrLive, NullAssumption DEF TypeOK, HeapInv, UnreadWithinKept, Popped
  <2>2. live' = live /\ incl' = incl /\ next' = next
    <3>1. next \in [Files -> Ptr] /\ next' = [f \in Files |-> next[f]]
      BY <1>3, <2>1 DEF TypeOK, io_rewind, io_close
    <3> QED BY <1>3, <2>1, <3>1 DEF io_rewind, io_close
  <2>3. curr' = [curr EXCEPT ![u] = head[u]] /\ head[u] # NULL
    BY <1>3 DEF TypeOK, io_rewind
  <2>4. /\ Unread(u)' = Kept(u) /\ Kept(u)' = Kept(u) /\ Owned(u)' = Kept(u)
        /\ \A v \in Units \ {u} : /\ Unread(v)' = Unread(v) /\ Kept(v)' = Kept(v)
                                  /\ Owned(v)' = Owned(v)
    BY <1>1, <2>2, <2>3 DEF TypeOK, Unread, Kept, Owned
  <2>5. Unread(u) \cap incl = {} /\ Owned(u) = Kept(u)
    BY <1>1, OwnedFacts DEF HeapInv, UnreadWithinKept
  <2>6. \A v \in Units : Owned(v)' = Owned(v)
    BY <2>4, <2>5
  <2>7. fault' # "freed"
    BY <1>3, <2>2, CurrLive, <2>3 DEF io_rewind, Sound
  <2>8. NoDangling' /\ NoSharing'
    BY <2>2, <2>6, <2>7 DEF HeapInv, NoDangling, NoSharing
  <2>9. NoLeak'
    <3>1. ASSUME NEW f \in live' PROVE \E v \in Units : f \in Owned(v)'
      BY <2>2, <2>6 DEF HeapInv, NoLeak
    <3>2. ASSUME NEW f \in open' PROVE \E v \in Units : f \in Unread(v)'
      <4>1. CASE f = head[u]
        BY <2>3, <2>4, <4>1, OwnedFacts
      <4>2. CASE f \in open
        <5>1. PICK v \in Units : f \in Unread(v)
          BY <4>2 DEF HeapInv, NoLeak
        <5> QED BY <2>4, <2>5, <5>1 DEF Owned
      <4> QED BY <1>3, <3>2, <4>1, <4>2 DEF io_rewind
    <3> QED BY <3>1, <3>2 DEF NoLeak
  <2>10. UnreadWithinKept'
    <3>1. ASSUME NEW v \in Units
          PROVE  /\ Unread(v)' \ incl' \subseteq Kept(v)' /\ Kept(v)' \cap incl' = {}
                 /\ Unread(v)' \cap incl' = {}
      BY <1>1, <2>2, <2>4 DEF HeapInv, UnreadWithinKept
    <3> QED BY <3>1 DEF UnreadWithinKept
  <2>11. IncludeAcyclic'
    BY <2>2 DEF HeapInv, IncludeAcyclic
  <2> QED BY <2>8, <2>9, <2>10, <2>11 DEF HeapInv
<1> QED BY <1>2, <1>3 DEF io_rewind

(* End of file: the current file leaves the unread list.  An include file  *)
(* is freed, and was on no other list; any other stays behind head.        *)
LEMMA ReadEofSafe ==
  ASSUME TypeOK, TypeOK', HeapInv, ReadEof
  PROVE  /\ HeapInv'
         /\ \A u \in Units : u = reading =>
              /\ Unread(u) = {curr[u]} \cup Unread(u)'
              /\ incl' = incl \ {curr[u]}
              /\ curr[u] \in incl => curr[u] \notin Unread(u)'
<1>0. /\ next \in [Files -> Ptr] /\ next' \in [Files -> Ptr]
      /\ incl \subseteq Files
  BY DEF TypeOK
<1>1. PICK u \in Units : u = reading
  BY DEF TypeOK, ReadEof
<1>2. PICK c \in Files : c = curr[u] /\ c \in open
  BY <1>1 DEF TypeOK, ReadEof
<1>3. PICK after \in Ptr : after = next[c]
  BY <1>0
<1> DEFINE rest == Chain(next, after)
           gone == {c} \cap incl
<1>4. /\ live' = live \ gone /\ incl' = incl \ gone
      /\ \A f \in Files : next'[f] = IF f \in gone THEN NULL ELSE next[f]
  BY <1>1, <1>2 DEF ReadEof, io_close, Popped
<1>5. /\ curr' = [curr EXCEPT ![u] = after] /\ UNCHANGED <<head, phase>>
      /\ open' \subseteq (open \ {c}) \cup ({after} \ {NULL})
  BY <1>1, <1>2, <1>3, NullAssumption DEF ReadEof, After
<1>6. Unread(u) = {c} \cup rest /\ rest \subseteq Files /\ after \in rest \cup {NULL}
  BY <1>0, <1>2, <1>3, ChainHead, ChainClosed DEF Unread
<1>7. c \in incl => c \notin rest /\ c \notin Kept(u)
  BY <1>3 DEF HeapInv, IncludeAcyclic, UnreadWithinKept
<1>8. c \notin incl => c \in Kept(u)
  BY <1>6 DEF HeapInv, UnreadWithinKept
<1>9. \A v \in Units \ {u} : c \notin Owned(v)
  BY <1>6 DEF HeapInv, NoSharing, Owned
<1> HIDE DEF gone, rest
<1>10. ASSUME NEW p \in Ptr, c \in incl => c \notin Chain(next, p)
       PROVE  Chain(next', p) = Chain(next, p)
  <2>1. \A g \in Chain(next, p) : next'[g] = next[g]
    BY <1>4, <1>10 DEF Chain, gone
  <2> QED BY <1>0, <2>1, ChainSame
<1>11. Unread(u)' = rest /\ Kept(u)' = Kept(u)
  <2>1. curr'[u] = after /\ head'[u] = head[u] /\ head[u] \in Ptr
    BY <1>5 DEF TypeOK
  <2>2. Chain(next', after) = rest
    BY <1>7, <1>10 DEF rest
  <2>3. Chain(next', head[u]) = Kept(u)
    BY <1>7, <1>10, <2>1 DEF Kept
  <2> QED BY <2>1, <2>2, <2>3 DEF Unread, Kept
<1>12. ASSUME NEW v \in Units \ {u}
       PROVE  Unread(v)' = Unread(v) /\ Kept(v)' = Kept(v) /\ Owned(v)' = Owned(v)
  <2>1. curr'[v] = curr[v] /\ head'[v] = head[v] /\ curr[v] \in Ptr /\ head[v] \in Ptr
    BY <1>5 DEF TypeOK
  <2>2. Chain(next', curr[v]) = Unread(v) /\ Chain(next', head[v]) = Kept(v)
    BY <1>9, <1>10, <2>1 DEF Unread, Kept, Owned
  <2> QED BY <2>1, <2>2 DEF Unread, Kept, Owned
<1>13. \A v \in Units : Owned(v)' = Owned(v) \ gone
  <2>1. Owned(u)' = Owned(u) \ gone
    BY <1>6, <1>7, <1>8, <1>11 DEF Owned, gone
  <2> QED BY <1>9, <1>12, <2>1 DEF gone
<1>14. NoDangling'
  <2>1. \A v \in Units : Owned(v)' \subseteq live'
    BY <1>4, <1>13 DEF HeapInv, NoDangling
  <2>2. c \in live /\ after \in live' \cup {NULL}
    BY <1>1, <1>6, <1>11, <2>1, OwnedFacts DEF Owned
  <2>3. fault' # "freed"
    BY <1>1, <1>2, <1>3, <2>2 DEF ReadEof, After, Sound
  <2> QED BY <1>4, <2>1, <2>3 DEF HeapInv, NoDangling
<1>15. NoSharing'
  BY <1>13 DEF HeapInv, NoSharing
<1>16. NoLeak'
  <2>1. ASSUME NEW f \in live' PROVE \E v \in Units : f \in Owned(v)'
    BY <1>4, <1>13 DEF HeapInv, NoLeak
  <2>2. ASSUME NEW f \in open' PROVE \E v \in Units : f \in Unread(v)'
    <3>1. CASE f \in open /\ f # c
      <4>1. PICK v \in Units : f \in Unread(v)
        BY <3>1 DEF HeapInv, NoLeak
      <4> QED BY <1>6, <1>11, <1>12, <3>1, <4>1
    <3>2. CASE f = after /\ f # NULL
      BY <1>6, <1>11, <3>2
    <3> QED BY <1>5, <2>2, <3>1, <3>2
  <2> QED BY <2>1, <2>2 DEF NoLeak
<1>17. UnreadWithinKept'
  <2>1. UnreadWithinKept
    BY DEF HeapInv
  <2> QED BY <1>4, <1>5, <1>6, <1>7, <1>11, <1>12, <2>1 DEF UnreadWithinKept, gone
<1>18. IncludeAcyclic'
  <2> SUFFICES ASSUME NEW f \in incl' PROVE f \notin Chain(next', next'[f])
    BY DEF IncludeAcyclic
  <2>1. f \in incl /\ f \in Files /\ next'[f] = next[f] /\ next[f] \in Ptr
    BY <1>0, <1>4
  <2>2. \A g \in Files : next'[g] \in {next[g], NULL}
    BY <1>4
  <2>3. Chain(next', next[f]) \subseteq Chain(next, next[f])
    BY <1>0, <2>1, <2>2, ChainCut
  <2> QED BY <2>1, <2>3 DEF HeapInv, IncludeAcyclic
<1>19. HeapInv'
  BY <1>14, <1>15, <1>16, <1>17, <1>18 DEF HeapInv
<1>20. /\ Unread(u) = {curr[u]} \cup Unread(u)'
       /\ incl' = incl \ {curr[u]}
       /\ curr[u] \in incl => curr[u] \notin Unread(u)'
  BY <1>2, <1>4, <1>6, <1>7, <1>11 DEF gone
<1> QED BY <1>1, <1>19, <1>20

(* -INCLUDE: the new file was on no list, and is put in front of curr.     *)
LEMMA IncludeSafe ==
  ASSUME TypeOK, TypeOK', HeapInv, NEW n \in Names, NEW space \in BOOLEAN,
         NEW f \in Files, io_include(n, space, f)
  PROVE  HeapInv' /\ Unread(UNITI)' = {f} \cup Unread(UNITI)
<1>0. /\ next \in [Files -> Ptr] /\ next' \in [Files -> Ptr] /\ f # NULL
      /\ incl \subseteq Files /\ UNITI \in Units /\ curr[UNITI] \in Ptr
  BY UnitAssumption, NullAssumption DEF TypeOK
<1>1. /\ f \notin live /\ live' = live \cup {f} /\ open' = open \cup {f}
      /\ incl' = incl \cup {f} /\ next' = [next EXCEPT ![f] = curr[UNITI]]
      /\ curr' = [curr EXCEPT ![UNITI] = f] /\ UNCHANGED <<head, phase, fault>>
      /\ phase = "compile"
  BY DEF io_include, Fresh, Compiling
<1>2. \A v \in Units : Owned(v) \subseteq live
  BY DEF HeapInv, NoDangling
<1>3. ASSUME NEW p \in Ptr, Chain(next, p) \subseteq live
      PROVE  Chain(next', p) = Chain(next, p)
  <2>1. \A g \in Chain(next, p) : next'[g] = next[g]
    BY <1>0, <1>1, <1>3 DEF Chain
  <2> QED BY <1>0, <2>1, ChainSame
<1>4. Unread(UNITI)' = {f} \cup Unread(UNITI)
  <2>1. curr'[UNITI] = f /\ next'[f] = curr[UNITI]
    BY <1>0, <1>1 DEF TypeOK
  <2>2. Chain(next', curr[UNITI]) = Unread(UNITI)
    BY <1>0, <1>2, <1>3 DEF Unread, Owned
  <2> QED BY <1>0, <2>1, <2>2, ChainHead DEF Unread
<1>5. \A v \in Units \ {UNITI} : Unread(v)' = Unread(v)
  <2> SUFFICES ASSUME NEW v \in Units \ {UNITI} PROVE Unread(v)' = Unread(v)
    OBVIOUS
  <2>1. curr'[v] = curr[v] /\ curr[v] \in Ptr
    BY <1>1 DEF TypeOK
  <2> QED BY <1>2, <1>3, <2>1 DEF Unread, Owned
<1>6. \A v \in Units : Kept(v)' = Kept(v)
  <2> SUFFICES ASSUME NEW v \in Units PROVE Kept(v)' = Kept(v)
    OBVIOUS
  <2>1. head'[v] = head[v] /\ head[v] \in Ptr
    BY <1>1 DEF TypeOK
  <2> QED BY <1>2, <1>3, <2>1 DEF Kept, Owned
<1>7. /\ Owned(UNITI)' = {f} \cup Owned(UNITI)
      /\ \A v \in Units \ {UNITI} : Owned(v)' = Owned(v)
  BY <1>0, <1>4, <1>5, <1>6 DEF Owned
<1>8. NoDangling'
  <2>1. fault # "freed" /\ incl \subseteq live
    BY DEF HeapInv, NoDangling
  <2> QED BY <1>1, <1>2, <1>7, <2>1 DEF NoDangling
<1>9. NoSharing'
  BY <1>1, <1>2, <1>7 DEF HeapInv, NoSharing
<1>10. NoLeak'
  <2>1. ASSUME NEW g \in live' PROVE \E v \in Units : g \in Owned(v)'
    BY <1>0, <1>1, <1>7 DEF HeapInv, NoLeak
  <2>2. ASSUME NEW g \in open' PROVE \E v \in Units : g \in Unread(v)'
    BY <1>0, <1>1, <1>4, <1>5 DEF HeapInv, NoLeak
  <2> QED BY <2>1, <2>2 DEF NoLeak
<1>11. UnreadWithinKept'
  <2>1. UnreadWithinKept
    BY DEF HeapInv
  <2>2. ASSUME NEW v \in Units
        PROVE  /\ Unread(v)' \ incl' \subseteq Kept(v)' /\ Kept(v)' \cap incl' = {}
               /\ v # UNITI => Unread(v)' \cap incl' = {}
    <3>1. f \notin Owned(v)
      BY <1>1, <1>2
    <3>2. /\ Unread(v) \ incl \subseteq Kept(v) /\ Kept(v) \cap incl = {}
          /\ v # UNITI => Unread(v) \cap incl = {}
      BY <2>1 DEF UnreadWithinKept
    <3> QED BY <1>1, <1>4, <1>5, <1>6, <3>1, <3>2 DEF Owned
  <2> QED BY <1>1, <2>2 DEF UnreadWithinKept
<1>12. IncludeAcyclic'
  <2> SUFFICES ASSUME NEW g \in incl' PROVE g \notin Chain(next', next'[g])
    BY DEF IncludeAcyclic
  <2>1. CASE g = f
    <3>1. next'[g] = curr[UNITI] /\ Chain(next', curr[UNITI]) = Unread(UNITI)
      BY <1>0, <1>1, <1>2, <1>3, <2>1 DEF Unread, Owned
    <3> QED BY <1>0, <1>1, <1>2, <2>1, <3>1 DEF Owned
  <2>2. CASE g # f
    <3>1. g \in incl /\ g \in live /\ g \in Files /\ next'[g] = next[g] /\ next[g] \in Ptr
      BY <1>0, <1>1, <2>2 DEF HeapInv, NoDangling
    <3>2. PICK v \in Units : g \in Owned(v)
      BY <3>1 DEF HeapInv, NoLeak
    <3>3. Chain(next, next[g]) \subseteq Owned(v)
      <4>1. ASSUME NEW p \in Ptr, g \in Chain(next, p)
            PROVE  Chain(next, next[g]) \subseteq Chain(next, p)
        BY <1>0, <3>1, <4>1, ChainClosed, ChainTail DEF Linked
      <4> QED BY <3>2, <4>1 DEF TypeOK, Owned, Unread, Kept
    <3>4. Chain(next', next[g]) = Chain(next, next[g])
      BY <1>2, <1>3, <3>1, <3>3
    <3> QED BY <3>1, <3>4 DEF HeapInv, IncludeAcyclic
  <2> QED BY <2>1, <2>2
<1> QED BY <1>4, <1>8, <1>9, <1>10, <1>11, <1>12 DEF HeapInv

-----------------------------------------------------------------------------
(* The invariant is inductive.                                             *)
LEMMA NextSafe == Environment /\ IInv /\ [Next]_vars => HeapInv'
<1> SUFFICES ASSUME Environment, TypeOK, TypeOK', HeapInv, [Next]_vars
             PROVE  HeapInv'
  BY NextType DEF IInv
<1>1. ASSUME fault' # "freed", UNCHANGED <<live, next, open, incl, curr, head, phase>>
      PROVE  HeapInv'
  BY <1>1, SameListsSafe
<1>2. CASE UNCHANGED vars
  BY <1>1, <1>2 DEF vars, heap, units, HeapInv, NoDangling
<1>3. ASSUME NEW u \in Units, io_openi(u) \/ io_openo(u) PROVE HeapInv'
  BY <1>3, OpenSafe
<1>4. ASSUME NEW u \in Units, io_endfile(u) PROVE HeapInv'
  BY <1>4, EndfileSafe
<1>5. ASSUME NEW u \in Units, io_mkfile(u) PROVE HeapInv'
  BY <1>5, MkfileSafe
<1>6. ASSUME NEW u \in Units, io_rewind(u) PROVE HeapInv'
  BY <1>6, RewindSafe
<1>7. ASSUME NEW u \in Units, io_seek(u) \/ io_print(u) \/ ReadStart(u) PROVE HeapInv'
  <2>1. fault' # "freed"
    BY <1>7, CurrLive DEF io_seek, io_print, UseStream, ReadStart, Sound, HeapInv, NoDangling
  <2> QED BY <1>1, <1>7, <2>1 DEF io_seek, io_print, UseStream, ReadStart, heap, units
<1>8. CASE ReadOpen
  <2>1. reading \in Units /\ curr[reading] # NULL
    BY <1>8 DEF ReadOpen, TypeOK
  <2>2. fault' # "freed"
    BY <1>8, <2>1, CurrLive DEF ReadOpen, Sound
  <2>3. \A f \in open' \ open : f \in Unread(reading)
    BY <1>8, <2>1, CurrLive DEF ReadOpen
  <2> QED BY <1>8, <2>1, <2>2, <2>3, SameListsSafe DEF ReadOpen, units
<1>9. CASE ReadError \/ ReadLine
  <2>1. CASE io_finish
    BY <2>1, FinishSafe
  <2>2. CASE /\ UNCHANGED <<heap, units, comp, phase>>
             /\ Sound(curr[reading] \in live, TRUE)
    <3>1. reading \in Units /\ curr[reading] # NULL
      BY <1>9 DEF ReadError, ReadLine, TypeOK
    <3>2. fault' # "freed"
      BY <2>2, <3>1, CurrLive DEF Sound
    <3> QED BY <1>1, <2>2, <3>2 DEF heap, units
  <2> QED BY <1>9, <2>1, <2>2 DEF ReadError, ReadLine
<1>10. CASE ReadEof
  BY <1>10, ReadEofSafe
<1>11. ASSUME NEW n \in Names, NEW space \in BOOLEAN, NEW f \in Files,
              io_include(n, space, f)
       PROVE  HeapInv'
  BY <1>11, IncludeSafe
<1>12. CASE io_ecomp
  BY <1>12, EcompSafe
<1>13. CASE Exit
  BY <1>13, FinishSafe DEF Exit
<1> QED BY <1>2, <1>3, <1>4, <1>5, <1>6, <1>7, <1>8, <1>9, <1>10, <1>11, <1>12,
           <1>13 DEF Next, ReadStep

LEMMA Inductive ==
  ASSUME Environment
  PROVE  Spec => []IInv
<1>1. Init => IInv
  BY InitType, InitSafe DEF IInv
<1>2. IInv /\ [Next]_vars => IInv'
  BY NextType, NextSafe DEF IInv
<1> QED BY <1>1, <1>2, PTL DEF Spec

(* Whatever the program reads, rewinds, attaches or includes, in whatever  *)
(* order: no unit ever reaches a freed struct file.                        *)
THEOREM MemorySafe ==
  ASSUME Environment
  PROVE  Spec => []NoDangling
<1>1. IInv => NoDangling
  BY DEF IInv, HeapInv
<1> QED BY <1>1, Inductive, PTL

(* No two units ever lead to the same struct file.                         *)
THEOREM FilesOwned ==
  ASSUME Environment
  PROVE  Spec => []NoSharing
<1>1. IInv => NoSharing
  BY DEF IInv, HeapInv
<1> QED BY <1>1, Inductive, PTL

(* Every allocated file is still owned by a unit, and every open stream is *)
(* still ahead of one.                                                     *)
THEOREM NothingLost ==
  ASSUME Environment
  PROVE  Spec => []NoLeak
<1>1. IInv => NoLeak
  BY DEF IInv, HeapInv
<1> QED BY <1>1, Inductive, PTL

(* No source file that is still to be read falls off the list REWIND()     *)
(* goes back to.                                                           *)
THEOREM RewindComplete ==
  ASSUME Environment
  PROVE  Spec => []UnreadWithinKept
<1>1. IInv => UnreadWithinKept
  BY DEF IInv, HeapInv
<1> QED BY <1>1, Inductive, PTL

-----------------------------------------------------------------------------
(* While the program is compiled, every unread include file is one level   *)
(* of INCSTK.  This needs the soundness of the lists (an include file that *)
(* is at its end is on no list any more, and one that is added was on      *)
(* none), that nothing but the compiler reads, and that an end of file     *)
(* that is not an include file's finds the stack empty.  Options and END   *)
(* come later, so that Environment is not assumed.                         *)
Synced == /\ HeapInv
          /\ reading \in {NULL, UNITI}
          /\ IsFiniteSet(incl)
          /\ IncludeStackInSync
CompInv == TypeOK /\ (phase = "compile" => Synced)

(* Behind a file that is not an include file no include file is unread.    *)
LEMMA IncludesInFront ==
  ASSUME TypeOK, HeapInv, NEW u \in Units, curr[u] \in Files \ incl
  PROVE  Unread(u) \cap incl = {}
<1>1. curr[u] \in Kept(u) /\ Kept(u) \cap incl = {}
  BY CurrLive, NullAssumption DEF HeapInv, UnreadWithinKept
<1>2. Unread(u) \subseteq Kept(u)
  BY <1>1, ChainTail DEF TypeOK, Unread, Kept
<1> QED BY <1>1, <1>2

(* At the end of an include file the compiler pops INCSTK, at that of      *)
(* another file there is nothing to pop.                                   *)
LEMMA ReadEofSynced ==
  ASSUME TypeOK, TypeOK', phase = "compile", Synced, ReadEof
  PROVE  Synced'
<1>1. /\ HeapInv /\ IsFiniteSet(incl)
      /\ incdepth = Cardinality(Unread(UNITI) \cap incl)
  BY DEF Synced, IncludeStackInSync
<1>2. reading = UNITI /\ UNITI \in Units /\ curr[UNITI] \in Files
  BY UnitAssumption DEF Synced, ReadEof, TypeOK
<1>3. PICK c \in Files : c = curr[UNITI]
  BY <1>2
<1>4. /\ HeapInv' /\ incl' = incl \ {c}
      /\ Unread(UNITI) = {c} \cup Unread(UNITI)'
      /\ c \in incl => c \notin Unread(UNITI)'
  BY <1>1, <1>2, <1>3, ReadEofSafe
<1>5. /\ reading' = NULL
      /\ incdepth' = IF incdepth > 0 THEN incdepth - 1 ELSE incdepth
  BY DEF ReadEof, GoesOn
<1>6. IsFiniteSet(incl') /\ IsFiniteSet(Unread(UNITI) \cap incl)
  BY <1>1, <1>4, FS_Subset
<1>7. CASE c \in incl
  <2>1. Unread(UNITI)' \cap incl' = (Unread(UNITI) \cap incl) \ {c}
    BY <1>4, <1>7
  <2>2. c \in Unread(UNITI) \cap incl
    BY <1>4, <1>7
  <2>3. /\ Cardinality(Unread(UNITI)' \cap incl') = incdepth - 1
        /\ incdepth > 0 /\ incdepth \in Nat
    <3>1. Cardinality(Unread(UNITI) \cap incl) # 0
      BY <1>6, <2>2, FS_EmptySet
    <3>2. Cardinality((Unread(UNITI) \cap incl) \ {c})
            = Cardinality(Unread(UNITI) \cap incl) - 1
      BY <1>6, <2>2, FS_RemoveElement
    <3> QED BY <1>1, <2>1, <3>1, <3>2 DEF TypeOK
  <2> QED BY <1>4, <1>5, <1>6, <2>3 DEF Synced, IncludeStackInSync
<1>8. CASE c \notin incl
  <2>1. Unread(UNITI) \cap incl = {}
    BY <1>1, <1>2, <1>3, <1>8, IncludesInFront
  <2>2. Unread(UNITI)' \cap incl' = {} /\ incdepth = 0
    BY <1>1, <1>4, <2>1, FS_EmptySet
  <2>3. Cardinality(Unread(UNITI)' \cap incl') = 0 /\ incdepth' = 0
    BY <1>5, <2>2, FS_EmptySet
  <2> QED BY <1>4, <1>5, <1>6, <2>3 DEF Synced, IncludeStackInSync
<1> QED BY <1>7, <1>8

(* -INCLUDE pushes INCSTK and puts one include file, which was nowhere, in *)
(* front.                                                                  *)
LEMMA IncludeSynced ==
  ASSUME TypeOK, TypeOK', phase = "compile", Synced, NEW n \in Names,
         NEW space \in BOOLEAN, NEW f \in Files, io_include(n, space, f)
  PROVE  Synced'
<1>1. /\ HeapInv /\ IsFiniteSet(incl)
      /\ incdepth = Cardinality(Unread(UNITI) \cap incl)
  BY DEF Synced, IncludeStackInSync
<1>2. HeapInv' /\ Unread(UNITI)' = {f} \cup Unread(UNITI)
  BY <1>1, IncludeSafe
<1>3. f \notin live /\ incl' = incl \cup {f} /\ incdepth' = incdepth + 1
  BY DEF io_include, Fresh
<1>4. f \notin incl
  BY <1>1, <1>3 DEF HeapInv, NoDangling
<1>5. Unread(UNITI)' \cap incl' = (Unread(UNITI) \cap incl) \cup {f}
  BY <1>2, <1>3
<1>6. IsFiniteSet(incl') /\ IsFiniteSet(Unread(UNITI) \cap incl)
  BY <1>1, <1>3, FS_AddElement, FS_Subset
<1>7. Cardinality((Unread(UNITI) \cap incl) \cup {f})
        = Cardinality(Unread(UNITI) \cap incl) + 1
  BY <1>4, <1>6, FS_AddElement
<1>8. reading' = NULL
  BY DEF io_include, Compiling
<1> QED BY <1>1, <1>2, <1>3, <1>5, <1>6, <1>7, <1>8 DEF Synced, IncludeStackInSync

(* A step within compilation that leaves the lists alone.                  *)
LEMMA SameListsSynced ==
  ASSUME TypeOK, phase = "compile", Synced, HeapInv',
         UNCHANGED <<live, next, incl, curr, head, phase, incdepth>>,
         reading' \in {reading, NULL, UNITI}
  PROVE  Synced'
BY DEF Synced, IncludeStackInSync, Unread

LEMMA InitSynced == Init => CompInv
<1> SUFFICES ASSUME Init PROVE CompInv
  OBVIOUS
<1>1. TypeOK /\ HeapInv
  BY InitType, InitSafe
<1>2. incl = {} /\ incdepth = 0 /\ reading = NULL
  BY DEF Init
<1> QED BY <1>1, <1>2, FS_EmptySet DEF CompInv, Synced, IncludeStackInSync

(* Only the compiler's reads and -INCLUDE leave it compiling.              *)
LEMMA NextSynced == CompInv /\ [Next]_vars => CompInv'
<1> SUFFICES ASSUME TypeOK, TypeOK', phase = "compile" => Synced,
                    [Next]_vars, phase' = "compile"
             PROVE  Synced'
  BY NextType DEF CompInv
<1>1. CASE UNCHANGED vars
  <2>1. phase = "compile" /\ Synced /\ HeapInv
    BY <1>1 DEF vars, Synced
  <2>2. HeapInv'
    BY <1>1, <2>1, SameListsSafe DEF vars, heap, units, HeapInv, NoDangling
  <2> QED BY <1>1, <2>1, <2>2, SameListsSynced DEF vars, heap, units, comp
<1>2. ASSUME NEW u \in Units,
             \/ io_openi(u) \/ io_openo(u) \/ io_endfile(u) \/ io_mkfile(u)
             \/ io_rewind(u) \/ io_seek(u) \/ io_print(u)
      PROVE  Synced'
  BY <1>2 DEF io_openi, io_openo, io_endfile, io_mkfile, io_rewind, io_seek,
              io_print, UseStream, Running
<1>3. ASSUME NEW u \in Units, ReadStart(u) PROVE Synced'
  <2>1. /\ u = UNITI /\ phase = "compile" /\ Synced /\ HeapInv
        /\ reading' = UNITI /\ UNCHANGED <<heap, units, comp, phase, fault>>
    BY <1>3 DEF ReadStart, Running, Compiling, Synced
  <2>2. HeapInv'
    BY <2>1, SameListsSafe DEF heap, units, HeapInv, NoDangling
  <2> QED BY <2>1, <2>2, SameListsSynced DEF heap, units, comp
<1>4. CASE ReadOpen
  <2>1. /\ phase = "compile" /\ Synced /\ HeapInv
        /\ UNCHANGED <<live, next, incl, units, comp, phase, reading>>
    BY <1>4 DEF ReadOpen, Synced
  <2>2. reading \in Units /\ curr[reading] # NULL
    BY <1>4 DEF ReadOpen, TypeOK
  <2>3. fault' # "freed" /\ \A f \in open' \ open : f \in Unread(reading)
    BY <1>4, <2>1, <2>2, CurrLive DEF ReadOpen, Sound
  <2>4. HeapInv'
    BY <1>4, <2>1, <2>2, <2>3, SameListsSafe DEF ReadOpen, units
  <2> QED BY <2>1, <2>4, SameListsSynced DEF units, comp
<1>5. CASE ReadError \/ ReadLine
  <2>1. ~ io_finish
    BY DEF io_finish
  <2>2. /\ phase = "compile" /\ Synced /\ HeapInv
        /\ UNCHANGED <<heap, units, comp, phase>> /\ reading' = NULL
        /\ Sound(curr[reading] \in live, TRUE)
    BY <1>5, <2>1 DEF ReadError, ReadLine, Synced
  <2>3. fault' # "freed"
    BY <1>5, <2>2, CurrLive DEF ReadError, ReadLine, TypeOK, Sound
  <2>4. HeapInv'
    BY <2>2, <2>3, SameListsSafe DEF heap, units
  <2> QED BY <2>2, <2>4, SameListsSynced DEF heap, units, comp
<1>6. CASE ReadEof
  BY <1>6, ReadEofSynced DEF ReadEof
<1>7. ASSUME NEW n \in Names, NEW space \in BOOLEAN, NEW f \in Files,
             io_include(n, space, f)
      PROVE  Synced'
  BY <1>7, IncludeSynced DEF io_include
<1>8. CASE io_ecomp
  BY <1>8 DEF io_ecomp
<1>9. CASE Exit
  BY <1>9 DEF Exit, io_finish
<1> QED BY <1>1, <1>2, <1>3, <1>4, <1>5, <1>6, <1>7, <1>8, <1>9 DEF Next, ReadStep

(* When the compiler has read to the end of a file, the name and the line  *)
(* it goes back to are those of the file that is read next: INCSTK is as   *)
(* deep as there are unread include files, whatever was included from      *)
(* where.                                                                  *)
THEOREM IncludesInStep == Spec => []IncludeStackInSync
<1>1. CompInv => IncludeStackInSync
  BY DEF CompInv, Synced, IncludeStackInSync
<1> QED BY <1>1, InitSynced, NextSynced, PTL DEF Spec
-----------------------------------------------------------------------------
(* The pointers implement lists.  A sequence s lists the files from f on:  *)
(* the links lead from each of its files to the next, and from the last to *)
(* none.                                                                   *)
IsList(nx, f, s) ==
  /\ s \in Seq(Files)
  /\ \A i, j \in 1..Len(s) : s[i] = s[j] => i = j
  /\ f = IF Len(s) = 0 THEN NULL ELSE s[1]
  /\ \A i \in 1..Len(s) : nx[s[i]] = IF i = Len(s) THEN NULL ELSE s[i + 1]

Elems(s) == {s[i] : i \in 1..Len(s)}

HasList(nx, f) == \E s : IsList(nx, f, s)

(* The chain runs through the files of the list.                           *)
LEMMA ListChain ==
  ASSUME NEW nx \in [Files -> Ptr], NEW f \in Ptr, NEW s, IsList(nx, f, s)
  PROVE  Chain(nx, f) = Elems(s)
<1> DEFINE C == Chain(nx, f)
<1>1. s \in Seq(Files) /\ Len(s) \in Nat /\ Elems(s) \in SUBSET Files
  BY DEF IsList, Elems
<1>2. ASSUME NEW i \in 1..Len(s) PROVE s[i] \in Files /\ s[i] \in Elems(s)
  BY <1>1 DEF Elems
<1>3. C \subseteq Elems(s)
  <2>1. f \in Elems(s) \cup {NULL}
    <3>1. CASE Len(s) = 0
      BY <3>1 DEF IsList
    <3>2. CASE Len(s) # 0
      BY <1>1, <1>2, <3>2 DEF IsList
    <3> QED BY <3>1, <3>2
  <2>2. Linked(nx, Elems(s))
    <3> SUFFICES ASSUME NEW g \in Elems(s) PROVE nx[g] \in Elems(s) \cup {NULL}
      BY DEF Linked
    <3>1. PICK i \in 1..Len(s) : g = s[i]
      BY DEF Elems
    <3>2. CASE i = Len(s)
      BY <3>1, <3>2 DEF IsList
    <3>3. CASE i # Len(s)
      <4>1. i + 1 \in 1..Len(s)
        BY <1>1, <3>3
      <4> QED BY <1>2, <3>1, <3>3, <4>1 DEF IsList
    <3> QED BY <3>2, <3>3
  <2> QED BY <1>1, <2>1, <2>2, ChainLeast
<1>4. Elems(s) \subseteq C
  <2> DEFINE S == {i \in 1..Len(s) : s[i] \in C}
  <2>1. f \in C \cup {NULL} /\ Linked(nx, C)
    BY ChainClosed
  <2>2. CASE Len(s) = 0
    BY <2>2 DEF Elems
  <2>3. CASE Len(s) # 0
    <3>1. 1 \in 1..Len(s) /\ f = s[1]
      BY <1>1, <2>3 DEF IsList
    <3>2. 1 \in S
      BY <1>2, <2>1, <3>1, NullAssumption
    <3>3. ASSUME NEW i \in 1..Len(s)-1, i \in S PROVE i + 1 \in S
      <4>1. i + 1 \in 1..Len(s) /\ i # Len(s) /\ i \in 1..Len(s)
        BY <1>1
      <4>2. nx[s[i]] = s[i + 1] /\ s[i + 1] # NULL
        BY <1>2, <4>1, NullAssumption DEF IsList
      <4> QED BY <2>1, <3>3, <4>1, <4>2 DEF Linked
    <3> HIDE DEF S
    <3>4. 1..Len(s) \subseteq S
      BY <1>1, <3>2, <3>3, Counting
    <3> QED BY <3>4 DEF S, Elems
  <2> QED BY <2>2, <2>3
<1> QED BY <1>3, <1>4

LEMMA ListLength ==
  ASSUME NEW nx, NEW f, NEW s, IsList(nx, f, s)
  PROVE  Cardinality(Elems(s)) = Len(s)
<1> DEFINE at == [i \in 1..Len(s) |-> s[i]]
<1>1. Len(s) \in Nat /\ \A i, j \in 1..Len(s) : s[i] = s[j] => i = j
  BY DEF IsList
<1>2. at \in Bijection(1..Len(s), Elems(s))
  BY <1>1 DEF Elems, Bijection, Injection, Surjection, IsInjective
<1> QED BY <1>1, <1>2, FS_CountingElements DEF ExistsBijection

(* ListFrom finds the list, if there is one.                               *)
LEMMA ListFound ==
  ASSUME NEW nx \in [Files -> Ptr], NEW f \in Ptr, NEW s, IsList(nx, f, s)
  PROVE  ListFrom(nx, f) = s
<1> DEFINE n == Len(s)
           D == 1..n
           IsOne(g) == g = [i \in D |-> IF i = 1 THEN f ELSE nx[g[i - 1]]]
           L == CHOOSE g : IsOne(g)
<1>1. n \in Nat /\ Cardinality(Chain(nx, f)) = n
  <2>1. Len(s) \in Nat
    BY DEF IsList
  <2>2. Cardinality(Elems(s)) = Len(s)
    BY ListLength
  <2>3. Chain(nx, f) = Elems(s)
    BY ListChain
  <2> QED BY <2>1, <2>2, <2>3
<1>2. ListFrom(nx, f) = L
  BY <1>1 DEF ListFrom
<1>3. s = [i \in D |-> s[i]]
  BY DEF IsList
<1>4. ASSUME NEW i \in D PROVE s[i] = IF i = 1 THEN f ELSE nx[s[i - 1]]
  <2>1. CASE i = 1
    BY <1>1, <2>1 DEF IsList
  <2>2. CASE i # 1
    <3>1. i - 1 \in 1..n /\ i - 1 # n /\ (i - 1) + 1 = i
      BY <1>1, <2>2
    <3> QED BY <2>2, <3>1 DEF IsList
  <2> QED BY <2>1, <2>2
<1>5. IsOne(s)
  BY <1>3, <1>4
<1>6. IsOne(L)
  <2> HIDE DEF IsOne
  <2> QED BY <1>5
<1> HIDE DEF L
<1>7. L = [i \in D |-> L[i]] /\ \A i \in D : L[i] = IF i = 1 THEN f ELSE nx[L[i - 1]]
  BY <1>6
<1> DEFINE S == {i \in D : L[i] = s[i]}
<1>8. ASSUME n # 0 PROVE D \subseteq S
  <2>1. 1 \in S
    <3>1. 1 \in D
      BY <1>1, <1>8
    <3>2. L[1] = f /\ s[1] = f
      BY <1>4, <1>7, <3>1
    <3> QED BY <3>1, <3>2
  <2>2. ASSUME NEW i \in 1..n-1, i \in S PROVE i + 1 \in S
    <3>1. i + 1 \in D /\ i + 1 # 1 /\ (i + 1) - 1 = i
      BY <1>1
    <3>2. L[i] = s[i]
      BY <2>2
    <3> HIDE DEF D
    <3>3. L[i + 1] = nx[L[i]] /\ s[i + 1] = nx[s[i]]
      BY <1>4, <1>7, <3>1
    <3> QED BY <3>1, <3>2, <3>3
  <2> HIDE DEF S
  <2> QED BY <1>1, <2>1, <2>2, Counting
<1>9. \A i \in D : L[i] = s[i]
  <2>1. CASE n = 0
    BY <2>1
  <2>2. CASE n # 0
    BY <1>8, <2>2
  <2> QED BY <2>1, <2>2
<1>10. L = s
  BY <1>3, <1>7, <1>9
<1> QED BY <1>2, <1>10

LEMMA ListFromList ==
  ASSUME NEW nx \in [Files -> Ptr], NEW f \in Ptr, HasList(nx, f)
  PROVE  /\ IsList(nx, f, ListFrom(nx, f))
         /\ ListFrom(nx, f) \in Seq(Files)
         /\ Elems(ListFrom(nx, f)) = Chain(nx, f)
<1>1. PICK s : IsList(nx, f, s)
  BY DEF HasList
<1>2. ListFrom(nx, f) = s
  BY <1>1, ListFound
<1> QED BY <1>1, <1>2, ListChain DEF IsList

-----------------------------------------------------------------------------
(* What the operations do to a list.                                       *)
LEMMA ListSame ==
  ASSUME NEW nx \in [Files -> Ptr], NEW ny \in [Files -> Ptr], NEW f \in Ptr,
         HasList(nx, f), \A g \in Chain(nx, f) : ny[g] = nx[g]
  PROVE  HasList(ny, f) /\ ListFrom(ny, f) = ListFrom(nx, f)
<1>1. PICK s : IsList(nx, f, s)
  BY DEF HasList
<1>2. \A i \in 1..Len(s) : ny[s[i]] = nx[s[i]]
  BY <1>1, ListChain DEF Elems
<1>3. IsList(ny, f, s)
  BY <1>1, <1>2 DEF IsList
<1> QED BY <1>1, <1>3, ListFound DEF HasList

LEMMA ListEmpty ==
  ASSUME NEW nx \in [Files -> Ptr]
  PROVE  HasList(nx, NULL) /\ ListFrom(nx, NULL) = <<>>
<1>1. IsList(nx, NULL, <<>>)
  BY DEF IsList
<1> QED BY <1>1, ListFound DEF HasList, Ptr

LEMMA ListSingle ==
  ASSUME NEW nx \in [Files -> Ptr], NEW f \in Files, nx[f] = NULL
  PROVE  HasList(nx, f) /\ ListFrom(nx, f) = <<f>>
<1> DEFINE s == <<f>>
<1>1. s \in Seq(Files) /\ Len(s) = 1 /\ s[1] = f
  OBVIOUS
<1> HIDE DEF s
<1>2. IsList(nx, f, s)
  BY <1>1 DEF IsList
<1>3. HasList(nx, f) /\ ListFrom(nx, f) = s
  BY <1>2, ListFound DEF HasList, Ptr
<1> QED BY <1>3 DEF s

LEMMA ListTail ==
  ASSUME NEW nx \in [Files -> Ptr], NEW f \in Files, HasList(nx, f)
  PROVE  /\ ListFrom(nx, f) # <<>> /\ HasList(nx, nx[f])
         /\ ListFrom(nx, nx[f]) = Tail(ListFrom(nx, f))
<1>1. PICK s : IsList(nx, f, s)
  BY DEF HasList
<1>2. s \in Seq(Files) /\ Len(s) \in Nat /\ Len(s) # 0 /\ f = s[1] /\ s # <<>>
  BY <1>1, NullAssumption DEF IsList
<1>3. /\ Tail(s) \in Seq(Files) /\ Len(Tail(s)) = Len(s) - 1
      /\ \A i \in 1..Len(s)-1 : Tail(s)[i] = s[i + 1]
  BY <1>2
<1>4. nx[f] = IF Len(s) = 1 THEN NULL ELSE s[2]
  <2>1. 1 \in 1..Len(s) /\ 1 + 1 = 2
    BY <1>2
  <2>2. nx[s[1]] = IF 1 = Len(s) THEN NULL ELSE s[1 + 1]
    BY <1>1, <2>1 DEF IsList
  <2> QED BY <1>2, <2>1, <2>2
<1>5. nx[f] = IF Len(Tail(s)) = 0 THEN NULL ELSE Tail(s)[1]
  BY <1>2, <1>3, <1>4
<1>6. \A i, j \in 1..Len(Tail(s)) : Tail(s)[i] = Tail(s)[j] => i = j
  <2> SUFFICES ASSUME NEW i \in 1..Len(s)-1, NEW j \in 1..Len(s)-1, s[i + 1] = s[j + 1]
               PROVE  i = j
    BY <1>3
  <2>1. i + 1 \in 1..Len(s) /\ j + 1 \in 1..Len(s)
    BY <1>2
  <2>2. i + 1 = j + 1
    BY <1>1, <2>1 DEF IsList
  <2> QED BY <2>2
<1>7. ASSUME NEW i \in 1..Len(Tail(s))
      PROVE  nx[Tail(s)[i]] = IF i = Len(Tail(s)) THEN NULL ELSE Tail(s)[i + 1]
  <2>1. i + 1 \in 1..Len(s) /\ i \in 1..Len(s)-1
    BY <1>2, <1>3
  <2>2. nx[s[i + 1]] = IF i + 1 = Len(s) THEN NULL ELSE s[(i + 1) + 1]
    BY <1>1, <2>1 DEF IsList
  <2>3. CASE i + 1 = Len(s)
    BY <1>2, <1>3, <2>1, <2>2, <2>3
  <2>4. CASE i + 1 # Len(s)
    <3>1. i + 1 \in 1..Len(s)-1
      BY <1>2, <2>1, <2>4
    <3>2. i # Len(s) - 1
      BY <1>2, <2>1, <2>4
    <3>3. i # Len(Tail(s))
      BY ONLY <1>3, <3>2
    <3> QED BY <1>3, <2>1, <2>2, <2>4, <3>1, <3>3
  <2> QED BY <2>3, <2>4
<1>8. IsList(nx, nx[f], Tail(s))
  BY <1>3, <1>5, <1>6, <1>7 DEF IsList
<1>9. nx[f] \in Ptr /\ f \in Ptr
  BY DEF Ptr
<1> QED BY <1>1, <1>2, <1>8, <1>9, ListFound DEF HasList

LEMMA ListPush ==
  ASSUME NEW nx \in [Files -> Ptr], NEW p \in Ptr, HasList(nx, p),
         NEW f \in Files, f \notin Chain(nx, p), nx[f] = p
  PROVE  HasList(nx, f) /\ ListFrom(nx, f) = <<f>> \o ListFrom(nx, p)
<1>1. PICK s : IsList(nx, p, s)
  BY DEF HasList
<1>2. s \in Seq(Files) /\ Len(s) \in Nat
  BY <1>1 DEF IsList
<1> DEFINE t == <<f>> \o s
<1>3. /\ t \in Seq(Files) /\ Len(t) = Len(s) + 1 /\ t[1] = f
      /\ \A i \in 1..Len(s) : t[i + 1] = s[i]
  BY <1>2
<1> HIDE DEF t
<1>4. \A i \in 1..Len(s) : s[i] # f
  BY <1>1, ListChain DEF Elems
<1>5. ASSUME NEW i \in 1..Len(t), i # 1
      PROVE  i - 1 \in 1..Len(s) /\ t[i] = s[i - 1]
  <2>1. i - 1 \in 1..Len(s) /\ (i - 1) + 1 = i
    BY <1>2, <1>3, <1>5
  <2> QED BY <1>3, <2>1
<1>6. ASSUME NEW i \in 1..Len(t), NEW j \in 1..Len(t), t[i] = t[j] PROVE i = j
  <2>1. CASE i = 1 \/ j = 1
    BY <1>3, <1>4, <1>5, <1>6, <2>1
  <2>2. CASE i # 1 /\ j # 1
    <3>1. s[i - 1] = s[j - 1] /\ i - 1 \in 1..Len(s) /\ j - 1 \in 1..Len(s)
      BY <1>5, <1>6, <2>2
    <3>2. i - 1 = j - 1
      BY <1>1, <3>1 DEF IsList
    <3> QED BY <3>2
  <2> QED BY <2>1, <2>2
<1>7. ASSUME NEW i \in 1..Len(t)
      PROVE  nx[t[i]] = IF i = Len(t) THEN NULL ELSE t[i + 1]
  <2>1. CASE i = 1
    <3>1. p = IF Len(s) = 0 THEN NULL ELSE s[1]
      BY <1>1 DEF IsList
    <3> QED BY <1>2, <1>3, <2>1, <3>1
  <2>2. CASE i # 1
    <3>1. i - 1 \in 1..Len(s) /\ t[i] = s[i - 1]
      BY <1>5, <2>2
    <3>2. nx[s[i - 1]] = IF i - 1 = Len(s) THEN NULL ELSE s[(i - 1) + 1]
      BY <1>1, <3>1 DEF IsList
    <3>3. CASE i = Len(t)
      BY <1>2, <1>3, <3>1, <3>2, <3>3
    <3>4. CASE i # Len(t)
      <4>1. i \in 1..Len(s) /\ i - 1 # Len(s) /\ (i - 1) + 1 = i
        BY <1>2, <1>3, <3>4
      <4> QED BY <1>3, <3>1, <3>2, <3>4, <4>1
    <3> QED BY <3>3, <3>4
  <2> QED BY <2>1, <2>2
<1>8. f = IF Len(t) = 0 THEN NULL ELSE t[1]
  BY <1>2, <1>3
<1>9. IsList(nx, f, t)
  BY <1>3, <1>6, <1>7, <1>8 DEF IsList
<1>10. ListFrom(nx, f) = t /\ ListFrom(nx, p) = s
  BY <1>1, <1>9, ListFound DEF Ptr
<1> QED BY <1>9, <1>10 DEF HasList, t
-----------------------------------------------------------------------------
(* The refinement of FileLists.  Every pointer of a unit starts a list.    *)
Ahead  == [u \in Units |-> ListFrom(next, curr[u])]
Behind == [u \in Units |-> ListFrom(next, head[u])]

Lined == \A u \in Units : HasList(next, curr[u]) /\ HasList(next, head[u])

LEMMA LinedFacts ==
  ASSUME TypeOK, Lined, NEW u \in Units
  PROVE  /\ Ahead[u] \in Seq(Files) /\ Elems(Ahead[u]) = Unread(u)
         /\ Behind[u] \in Seq(Files) /\ Elems(Behind[u]) = Kept(u)
         /\ IsList(next, head[u], Behind[u])
<1>1. next \in [Files -> Ptr] /\ curr[u] \in Ptr /\ head[u] \in Ptr
  BY DEF TypeOK
<1>2. HasList(next, curr[u]) /\ HasList(next, head[u])
  BY DEF Lined
<1> QED BY <1>1, <1>2, ListFromList DEF Ahead, Behind, Unread, Kept

LEMMA LinedTyped ==
  ASSUME TypeOK, Lined
  PROVE  Ahead \in [Units -> Seq(Files)] /\ Behind \in [Units -> Seq(Files)]
BY LinedFacts DEF Ahead, Behind

(* What a step is to the lists.                                            *)
Given(U) ==
  /\ \A u \in U : /\ Ahead'[u] = Behind'[u]
                  /\ Behind'[u] # <<>> => \E f \in Fresh : Behind'[u] = <<f>>
  /\ \A u, v \in U : Behind'[u] = Behind'[v] /\ Behind'[u] # <<>> => u = v
  /\ \A u \in Units \ U : Ahead'[u] = Ahead[u]

Replaced(U) == Given(U) /\ \A u \in Units \ U : Behind'[u] = Behind[u]

Forgot(U) ==
  /\ Given(U)
  /\ \A u \in Units \ U : Behind'[u] = IF u = UNITI THEN Ahead[u] ELSE Behind[u]

Advanced(u) ==
  /\ Ahead[u] # <<>> /\ Behind' = Behind
  /\ Ahead' = [Ahead EXCEPT ![u] = Tail(@)]

Rewound(u) == Behind' = Behind /\ Ahead' = [Ahead EXCEPT ![u] = Behind[u]]

Pushed(f) == Behind' = Behind /\ Ahead' = [Ahead EXCEPT ![UNITI] = <<f>> \o @]

Refines ==
  \/ Behind' = Behind /\ Ahead' = Ahead
  \/ \E U \in SUBSET Units : Replaced(U) \/ Forgot(U)
  \/ \E u \in Units : Advanced(u) \/ Rewound(u)
  \/ \E f \in Fresh : Pushed(f)

(* An operation that touches neither pointers nor links.                   *)
LEMMA StutterLists ==
  ASSUME Lined, UNCHANGED <<next, curr, head>>
  PROVE  Lined' /\ Refines
BY DEF Lined, Refines, Ahead, Behind

(* Where links agree with what they were, a pointer's list is the same.    *)
LEMMA KeptLists ==
  ASSUME TypeOK, TypeOK', Lined, NEW u \in Units, NEW S,
         \A g \in Files \ S : next'[g] = next[g]
  PROVE  /\ Unread(u) \cap S = {} => /\ HasList(next', curr[u])
                                     /\ ListFrom(next', curr[u]) = Ahead[u]
         /\ Kept(u) \cap S = {} => /\ HasList(next', head[u])
                                   /\ ListFrom(next', head[u]) = Behind[u]
<1>1. /\ next \in [Files -> Ptr] /\ next' \in [Files -> Ptr]
      /\ curr[u] \in Ptr /\ head[u] \in Ptr
  BY DEF TypeOK
<1>2. HasList(next, curr[u]) /\ HasList(next, head[u])
  BY DEF Lined
<1>3. /\ Ahead[u] = ListFrom(next, curr[u]) /\ Behind[u] = ListFrom(next, head[u])
      /\ Unread(u) \subseteq Files /\ Kept(u) \subseteq Files
  BY DEF Ahead, Behind, Unread, Kept, Chain
<1>4. ASSUME Unread(u) \cap S = {}
      PROVE  HasList(next', curr[u]) /\ ListFrom(next', curr[u]) = Ahead[u]
  <2>1. \A g \in Chain(next, curr[u]) : next'[g] = next[g]
    BY <1>3, <1>4 DEF Unread
  <2> QED BY <1>1, <1>2, <1>3, <2>1, ListSame
<1>5. ASSUME Kept(u) \cap S = {}
      PROVE  HasList(next', head[u]) /\ ListFrom(next', head[u]) = Behind[u]
  <2>1. \A g \in Chain(next, head[u]) : next'[g] = next[g]
    BY <1>3, <1>5 DEF Kept
  <2> QED BY <1>1, <1>2, <1>3, <2>1, ListSame
<1> QED BY <1>4, <1>5

(* A pointer that moves takes the list it points to with it.               *)
LEMMA PointedLists ==
  ASSUME TypeOK', NEW u \in Units
  PROVE  /\ Ahead'[u] = ListFrom(next', curr'[u])
         /\ Behind'[u] = ListFrom(next', head'[u])
BY DEF Ahead, Behind

(* The operations that replace lists.                                      *)
LEMMA RestockLists ==
  ASSUME TypeOK, TypeOK', HeapInv, Lined, NEW W \in SUBSET Units, Restocked(W)
  PROVE  /\ Lined' /\ Given(W)
         /\ \A u \in Units \ W : /\ head'[u] = head[u] => Behind'[u] = Behind[u]
                                 /\ head'[u] = curr[u] => Behind'[u] = Ahead[u]
<1>1. PICK gone, closed, fresh : Restocks(W, gone, closed, fresh)
  BY DEF Restocked
<1>2. /\ next' \in [Files -> Ptr] /\ fresh \subseteq Fresh /\ fresh \subseteq Files
      /\ \A g \in Files \ (gone \cup fresh) : next'[g] = next[g]
      /\ \A g \in fresh : next'[g] = NULL
  BY <1>1 DEF TypeOK, Restocks, Heap, Fresh
<1>3. ASSUME NEW u \in W
      PROVE  /\ HasList(next', curr'[u]) /\ HasList(next', head'[u])
             /\ Ahead'[u] = IF curr'[u] = NULL THEN <<>> ELSE <<curr'[u]>>
             /\ Behind'[u] = Ahead'[u] /\ curr'[u] \in fresh \cup {NULL}
  <2>1. curr'[u] = head'[u] /\ curr'[u] \in fresh \cup {NULL}
    BY <1>1 DEF Restocks
  <2>2. CASE curr'[u] = NULL
    BY <1>2, <2>1, <2>2, ListEmpty, PointedLists
  <2>3. CASE curr'[u] \in fresh
    <3>1. curr'[u] \in Files /\ curr'[u] # NULL /\ next'[curr'[u]] = NULL
      BY <1>2, <2>3, NullAssumption
    <3>2. HasList(next', curr'[u]) /\ ListFrom(next', curr'[u]) = <<curr'[u]>>
      BY <1>2, <3>1, ListSingle
    <3> QED BY <2>1, <3>1, <3>2, PointedLists
  <2> QED BY <2>1, <2>2, <2>3
<1>4. ASSUME NEW u \in Units \ W
      PROVE  /\ HasList(next', curr'[u]) /\ HasList(next', head'[u])
             /\ Ahead'[u] = Ahead[u]
             /\ head'[u] = head[u] => Behind'[u] = Behind[u]
             /\ head'[u] = curr[u] => Behind'[u] = Ahead[u]
  <2>1. curr'[u] = curr[u] /\ Unread(u) \cap gone = {}
    BY <1>1 DEF Restocks
  <2>2. Unread(u) \cap (gone \cup fresh) = {} /\ Kept(u) \cap fresh = {}
    <3>1. Unread(u) \subseteq live /\ Kept(u) \subseteq live
      BY OwnedFacts DEF Owned
    <3> QED BY <1>2, <2>1, <3>1 DEF Fresh
  <2>3. HasList(next', curr[u]) /\ ListFrom(next', curr[u]) = Ahead[u]
    BY <1>2, <2>2, KeptLists
  <2>4. Ahead'[u] = Ahead[u] /\ Behind'[u] = ListFrom(next', head'[u])
    BY <2>1, <2>3, PointedLists
  <2>5. CASE head'[u] = curr[u]
    <3>1. head'[u] = head[u] => Behind[u] = Ahead[u]
      BY <2>5 DEF Ahead, Behind
    <3> QED BY <2>1, <2>3, <2>4, <2>5, <3>1
  <2>6. CASE head'[u] # curr[u]
    <3>1. head'[u] = head[u] /\ Kept(u) \cap gone = {}
      BY <1>1, <2>6 DEF Restocks
    <3>2. HasList(next', head[u]) /\ ListFrom(next', head[u]) = Behind[u]
      BY <1>2, <2>2, <3>1, KeptLists
    <3> QED BY <2>1, <2>3, <2>4, <2>6, <3>1, <3>2
  <2> QED BY <2>5, <2>6
<1>5. Lined'
  BY <1>3, <1>4 DEF Lined
<1>6. ASSUME NEW u \in W, Behind'[u] # <<>>
      PROVE  /\ curr'[u] \in Fresh /\ curr'[u] # NULL
             /\ Behind'[u] = <<curr'[u]>>
  BY <1>2, <1>3, <1>6
<1>7. ASSUME NEW u \in W, NEW v \in W, Behind'[u] = Behind'[v], Behind'[u] # <<>>
      PROVE  u = v
  <2>1. <<curr'[u]>> = <<curr'[v]>> /\ curr'[u] # NULL
    BY <1>6, <1>7
  <2>2. curr'[u] = curr'[v]
    BY <2>1
  <2> QED BY <1>1, <2>1, <2>2 DEF Restocks
<1>8. Given(W)
  BY <1>3, <1>4, <1>6, <1>7 DEF Given
<1> QED BY <1>4, <1>5, <1>8

LEMMA AttachLists ==
  ASSUME TypeOK, TypeOK', HeapInv, Lined, NEW u \in Units, Attached(u)
  PROVE  Lined' /\ Refines
<1>1. Lined' /\ Given({u}) /\ \A v \in Units \ {u} : Behind'[v] = Behind[v]
  BY RestockLists DEF Attached
<1> QED BY <1>1 DEF Replaced, Refines

LEMMA FinishLists ==
  ASSUME TypeOK, TypeOK', HeapInv, Lined, io_finish
  PROVE  Lined' /\ Refines
<1>1. Lined' /\ Given(Units)
  BY FinishSafe, RestockLists
<1> QED BY <1>1 DEF Replaced, Refines

(* With -r the files already read are forgotten on the compiler's unit,    *)
(* unless that was redirected.                                             *)
LEMMA EcompLists ==
  ASSUME Environment, TypeOK, TypeOK', HeapInv, Lined, io_ecomp
  PROVE  Lined' /\ Refines
<1>1. PICK W \in SUBSET Units :
        /\ Restocked(W)
        /\ \A u \in Units \ W :
             head'[u] = IF Rflag /\ u = UNITI THEN curr[u] ELSE head[u]
  BY EcompSafe
<1>2. /\ Lined' /\ Given(W)
      /\ \A u \in Units \ W : /\ head'[u] = head[u] => Behind'[u] = Behind[u]
                              /\ head'[u] = curr[u] => Behind'[u] = Ahead[u]
  BY <1>1, RestockLists
<1>3. CASE Rflag
  <2>1. Forgot(W)
    BY <1>1, <1>2, <1>3 DEF Forgot
  <2> QED BY <1>2, <2>1 DEF Refines
<1>4. CASE ~ Rflag
  <2>1. Replaced(W)
    BY <1>1, <1>2, <1>4 DEF Replaced
  <2> QED BY <1>2, <2>1 DEF Refines
<1> QED BY <1>3, <1>4

(* REWIND(): nothing is freed, and curr is head again.                     *)
LEMMA RewindLists ==
  ASSUME TypeOK, TypeOK', HeapInv, Lined, NEW u \in Units, io_rewind(u)
  PROVE  Lined' /\ Refines
<1>1. CASE curr[u] = head[u] /\ UNCHANGED <<heap, curr>>
  BY <1>1, StutterLists DEF io_rewind, heap
<1>2. CASE curr[u] # head[u]
  <2>1. Popped(u) = {}
    BY CurrLive, NullAssumption
      DEF TypeOK, HeapInv, UnreadWithinKept, Popped, io_rewind, Running
  <2>2. next' = next /\ head' = head /\ curr' = [curr EXCEPT ![u] = head[u]]
    <3>1. next \in [Files -> Ptr] /\ next' = [f \in Files |-> next[f]]
      BY <1>2, <2>1 DEF TypeOK, io_rewind, io_close
    <3> QED BY <1>2, <3>1 DEF io_rewind
  <2>3. /\ curr'[u] = head[u]
        /\ \A v \in Units \ {u} : curr'[v] = curr[v]
    BY <2>2 DEF TypeOK
  <2>4. Lined'
    BY <2>2, <2>3 DEF Lined
  <2>5. Behind' = Behind
    BY <2>2 DEF Behind
  <2>6. Ahead' = [Ahead EXCEPT ![u] = Behind[u]]
    <3>1. Ahead'[u] = Behind[u]
      BY <2>2, <2>3 DEF Ahead, Behind
    <3>2. \A v \in Units \ {u} : Ahead'[v] = Ahead[v]
      BY <2>2, <2>3 DEF Ahead
    <3> QED BY <3>1, <3>2 DEF Ahead
  <2> QED BY <2>4, <2>5, <2>6 DEF Rewound, Refines
<1> QED BY <1>1, <1>2 DEF io_rewind

(* End of file: the current file leaves the list, and only it.             *)
LEMMA ReadEofLists ==
  ASSUME TypeOK, TypeOK', HeapInv, Lined, ReadEof
  PROVE  Lined' /\ Refines
<1>1. PICK u \in Units : u = reading
  BY DEF TypeOK, ReadEof
<1>2. PICK c \in Files : c = curr[u]
  BY <1>1 DEF TypeOK, ReadEof
<1> DEFINE gone == {c} \cap incl
<1>3. /\ next \in [Files -> Ptr] /\ next' \in [Files -> Ptr] /\ next[c] \in Ptr
      /\ \A g \in Files \ gone : next'[g] = next[g]
  BY <1>1, <1>2 DEF TypeOK, ReadEof, io_close, Popped
<1>4. /\ head' = head /\ curr'[u] = next[c]
      /\ \A v \in Units \ {u} : curr'[v] = curr[v]
  BY <1>1, <1>2 DEF TypeOK, ReadEof, After
<1>5. c \in Unread(u) /\ Unread(u) = {c} \cup Chain(next, next[c])
  BY <1>2, <1>3, ChainHead DEF Unread
<1>6. c \in incl => c \notin Kept(u) /\ c \notin Chain(next, next[c])
  BY DEF HeapInv, UnreadWithinKept, IncludeAcyclic
<1>7. \A v \in Units \ {u} : c \notin Unread(v) /\ c \notin Kept(v)
  BY <1>5 DEF HeapInv, NoSharing, Owned
<1> HIDE DEF gone
<1>8. /\ Ahead[u] = ListFrom(next, c) /\ HasList(next, c)
      /\ HasList(next, next[c]) /\ Ahead[u] # <<>>
      /\ ListFrom(next, next[c]) = Tail(Ahead[u])
  <2>1. Ahead[u] = ListFrom(next, c) /\ HasList(next, c)
    BY <1>2 DEF Ahead, Lined
  <2> QED BY <1>3, <2>1, ListTail
<1>9. HasList(next', curr'[u]) /\ Ahead'[u] = Tail(Ahead[u])
  <2>1. \A g \in Chain(next, next[c]) : next'[g] = next[g]
    BY <1>3, <1>6 DEF Chain, gone
  <2>2. HasList(next', next[c]) /\ ListFrom(next', next[c]) = Tail(Ahead[u])
    BY <1>3, <1>8, <2>1, ListSame
  <2> QED BY <1>4, <2>2, PointedLists
<1>10. ASSUME NEW v \in Units
       PROVE  HasList(next', head'[v]) /\ Behind'[v] = Behind[v]
  <2>1. Kept(v) \cap gone = {}
    BY <1>6, <1>7 DEF gone
  <2> QED BY <1>3, <1>4, <2>1, KeptLists, PointedLists
<1>11. ASSUME NEW v \in Units \ {u}
       PROVE  HasList(next', curr'[v]) /\ Ahead'[v] = Ahead[v]
  <2>1. Unread(v) \cap gone = {}
    BY <1>7 DEF gone
  <2>2. curr'[v] = curr[v]
    BY <1>4
  <2> QED BY <1>3, <2>1, <2>2, KeptLists, PointedLists
<1>12. Lined'
  BY <1>9, <1>10, <1>11 DEF Lined
<1>13. Behind' = Behind
  BY <1>10 DEF Behind
<1>14. Ahead' = [Ahead EXCEPT ![u] = Tail(@)]
  BY <1>9, <1>11 DEF Ahead
<1> QED BY <1>8, <1>12, <1>13, <1>14 DEF Advanced, Refines

(* -INCLUDE: the new file comes first.                                     *)
LEMMA IncludeLists ==
  ASSUME TypeOK, TypeOK', HeapInv, Lined, NEW n \in Names, NEW space \in BOOLEAN,
         NEW f \in Files, io_include(n, space, f)
  PROVE  Lined' /\ Refines
<1>1. /\ next \in [Files -> Ptr] /\ next' \in [Files -> Ptr]
      /\ UNITI \in Units /\ curr[UNITI] \in Ptr
  BY UnitAssumption DEF TypeOK
<1>2. /\ f \in Fresh /\ head' = head
      /\ next'[f] = curr[UNITI] /\ \A g \in Files \ {f} : next'[g] = next[g]
      /\ curr'[UNITI] = f /\ \A v \in Units \ {UNITI} : curr'[v] = curr[v]
  BY <1>1 DEF TypeOK, io_include
<1>3. \A v \in Units : Unread(v) \cap {f} = {} /\ Kept(v) \cap {f} = {}
  BY <1>2 DEF HeapInv, NoDangling, Owned, Fresh
<1>4. ASSUME NEW v \in Units
      PROVE  /\ HasList(next', curr[v]) /\ ListFrom(next', curr[v]) = Ahead[v]
             /\ HasList(next', head[v]) /\ ListFrom(next', head[v]) = Behind[v]
  BY <1>2, <1>3, KeptLists
<1>5. HasList(next', f) /\ ListFrom(next', f) = <<f>> \o Ahead[UNITI]
  <2>1. Chain(next', curr[UNITI]) = Unread(UNITI)
    <3>1. \A g \in Chain(next, curr[UNITI]) : next'[g] = next[g]
      BY <1>1, <1>2, <1>3 DEF Unread, Chain
    <3> QED BY <1>1, <3>1, ChainSame DEF Unread
  <2>2. f \notin Chain(next', curr[UNITI])
    BY <1>1, <1>3, <2>1
  <2> QED BY <1>1, <1>2, <1>4, <2>2, ListPush
<1>6. Lined'
  BY <1>2, <1>4, <1>5 DEF Lined
<1>7. \A v \in Units : Behind'[v] = Behind[v]
  BY <1>2, <1>4, PointedLists
<1>8. Ahead'[UNITI] = <<f>> \o Ahead[UNITI]
  BY <1>1, <1>2, <1>5, PointedLists
<1>9. \A v \in Units \ {UNITI} : Ahead'[v] = Ahead[v]
  BY <1>2, <1>4, PointedLists
<1>10. Behind' = Behind
  BY <1>7 DEF Behind
<1>11. Ahead' = [Ahead EXCEPT ![UNITI] = <<f>> \o @]
  BY <1>8, <1>9 DEF Ahead
<1> QED BY <1>2, <1>6, <1>10, <1>11 DEF Pushed, Refines

LEMMA NextLists ==
  ASSUME Environment, IInv, Lined, [Next]_vars
  PROVE  Lined' /\ Refines
<1>1. TypeOK /\ HeapInv /\ TypeOK' /\ HeapInv'
  BY NextType, NextSafe DEF IInv
<1>2. CASE UNCHANGED vars
  BY <1>2, StutterLists DEF vars, heap, units
<1>3. ASSUME NEW u \in Units, io_openi(u) \/ io_openo(u) PROVE Lined' /\ Refines
  BY <1>1, <1>3, OpenSafe, AttachLists
<1>4. ASSUME NEW u \in Units, io_endfile(u) PROVE Lined' /\ Refines
  BY <1>1, <1>4, EndfileSafe, AttachLists
<1>5. ASSUME NEW u \in Units, io_mkfile(u) PROVE Lined' /\ Refines
  BY <1>1, <1>5, MkfileSafe, AttachLists
<1>6. ASSUME NEW u \in Units, io_rewind(u) PROVE Lined' /\ Refines
  BY <1>1, <1>6, RewindLists
<1>7. ASSUME NEW u \in Units, io_seek(u) \/ io_print(u) \/ ReadStart(u)
      PROVE  Lined' /\ Refines
  BY <1>7, StutterLists DEF io_seek, io_print, UseStream, ReadStart, heap, units
<1>8. CASE ReadOpen
  BY <1>8, StutterLists DEF ReadOpen, units
<1>9. CASE ReadError \/ ReadLine
  <2>1. CASE io_finish
    BY <1>1, <2>1, FinishLists
  <2>2. CASE UNCHANGED <<heap, units, comp, phase>>
    BY <2>2, StutterLists DEF heap, units
  <2> QED BY <1>9, <2>1, <2>2 DEF ReadError, ReadLine
<1>10. CASE ReadEof
  BY <1>1, <1>10, ReadEofLists
<1>11. ASSUME NEW n \in Names, NEW space \in BOOLEAN, NEW f \in Files,
              io_include(n, space, f)
       PROVE  Lined' /\ Refines
  BY <1>1, <1>11, IncludeLists
<1>12. CASE io_ecomp
  BY <1>1, <1>12, EcompLists
<1>13. CASE Exit
  BY <1>1, <1>13, FinishLists DEF Exit
<1> QED BY <1>2, <1>3, <1>4, <1>5, <1>6, <1>7, <1>8, <1>9, <1>10, <1>11, <1>12,
           <1>13 DEF Next, ReadStep

(* The command line's files are a list, and stdout is one.                 *)
LEMMA InitLists ==
  ASSUME Init
  PROVE  /\ Lined /\ Ahead = Behind
         /\ \A u \in Units \ {UNITI} : Len(Behind[u]) <= 1
<1>1. PICK n \in 1..Sources :
        \E s \in [1..n -> Files] : \E out \in Files : io_init(n, s, out)
  BY DEF Init
<1>2. PICK s \in [1..n -> Files], out \in Files : io_init(n, s, out)
  BY <1>1
<1>3. n \in Nat \ {0} /\ 1 \in 1..n
  BY SourcesAssumption
<1>4. next \in [Files -> Ptr]
  BY <1>2, <1>3, InitList
<1>5. \A i, j \in 1..n : s[i] = s[j] => i = j
  BY <1>2 DEF io_init
<1>6. \A f \in Files : next[f] = LinkOf(n, s, f)
  BY <1>2 DEF io_init
<1>7. ASSUME NEW i \in 1..n PROVE next[s[i]] = IF i = n THEN NULL ELSE s[i + 1]
  <2>1. CASE i = n
    <3>1. \A j \in 1..n-1 : s[j] # s[i]
      BY <1>3, <1>5, <2>1
    <3> QED BY <1>6, <2>1, <3>1 DEF LinkOf
  <2>2. CASE i # n
    <3> DEFINE k == CHOOSE j \in 1..n-1 : s[j] = s[i]
    <3>1. i \in 1..n-1
      BY <1>3, <2>2
    <3>2. k \in 1..n-1 /\ s[k] = s[i]
      BY <3>1
    <3>3. LinkOf(n, s, s[i]) = s[1 + k]
      BY <3>1 DEF LinkOf
    <3> HIDE DEF k
    <3>4. k = i
      BY <1>3, <1>5, <3>2
    <3>5. 1 + k = i + 1 /\ s[i] \in Files
      BY <3>4
    <3> QED BY <1>6, <2>2, <3>3, <3>5
  <2> QED BY <2>1, <2>2
<1>8. s \in Seq(Files) /\ Len(s) = n
  BY <1>3
<1>9. IsList(next, s[1], s)
  BY <1>3, <1>5, <1>7, <1>8 DEF IsList
<1>10. HasList(next, s[1])
  BY <1>9 DEF HasList
<1>11. next[out] = NULL
  BY <1>2, <1>6 DEF io_init, LinkOf
<1>12. HasList(next, out) /\ ListFrom(next, out) = <<out>>
  BY <1>4, <1>11, ListSingle
<1>13. HasList(next, NULL) /\ ListFrom(next, NULL) = <<>>
  BY <1>4, ListEmpty
<1>14. head = curr
  BY DEF Init
<1>15. \A u \in Units : curr[u] = IF u = UNITI THEN s[1]
                                  ELSE IF u = UNITO THEN out ELSE NULL
  BY <1>2 DEF io_init
<1>16. Lined /\ Ahead = Behind
  BY <1>10, <1>12, <1>13, <1>14, <1>15 DEF Lined, Ahead, Behind
<1>17. ASSUME NEW u \in Units \ {UNITI} PROVE Behind[u] = <<>> \/ Behind[u] = <<out>>
  BY <1>12, <1>13, <1>14, <1>15 DEF Behind
<1>18. ASSUME NEW u \in Units \ {UNITI} PROVE Len(Behind[u]) <= 1
  <2>1. CASE Behind[u] = <<>>
    BY <2>1
  <2>2. CASE Behind[u] = <<out>>
    BY <2>2
  <2> QED BY <1>17, <2>1, <2>2
<1> QED BY <1>16, <1>18

(* No file the lists hold is free for malloc.                              *)
LEMMA ListedLive ==
  ASSUME TypeOK, HeapInv, Lined, NEW u \in Units
  PROVE  /\ \A i \in DOMAIN Behind[u] : Behind[u][i] \in live
         /\ \A i \in DOMAIN Ahead[u] : Ahead[u][i] \in live
<1>1. /\ Behind[u] \in Seq(Files) /\ Elems(Behind[u]) = Kept(u)
      /\ Ahead[u] \in Seq(Files) /\ Elems(Ahead[u]) = Unread(u)
  BY LinedFacts
<1>2. DOMAIN Behind[u] = 1..Len(Behind[u]) /\ DOMAIN Ahead[u] = 1..Len(Ahead[u])
  BY <1>1
<1>3. Kept(u) \subseteq live /\ Unread(u) \subseteq live
  BY OwnedFacts DEF Owned
<1> QED BY <1>1, <1>2, <1>3 DEF Elems

(* The files of all lists differ.                                          *)
LEMMA ListsApart ==
  ASSUME TypeOK, HeapInv, Lined, NEW u \in Units, NEW v \in Units,
         NEW i \in DOMAIN Behind[u], NEW j \in DOMAIN Behind[v],
         Behind[u][i] = Behind[v][j]
  PROVE  u = v /\ i = j
<1>1. /\ Behind[u] \in Seq(Files) /\ Elems(Behind[u]) = Kept(u)
      /\ Behind[v] \in Seq(Files) /\ Elems(Behind[v]) = Kept(v)
      /\ IsList(next, head[u], Behind[u])
  BY LinedFacts
<1>2. DOMAIN Behind[u] = 1..Len(Behind[u]) /\ DOMAIN Behind[v] = 1..Len(Behind[v])
  BY <1>1
<1>3. Behind[u][i] \in Kept(u) /\ Behind[v][j] \in Kept(v)
  BY <1>1, <1>2 DEF Elems
<1>4. u = v
  BY <1>3 DEF HeapInv, NoSharing, Owned
<1> QED BY <1>1, <1>2, <1>4 DEF IsList

(* The pointers, the links and the freeing of files behave as two lists    *)
(* per unit: nothing INPUT(), OUTPUT(), REWIND(), -INCLUDE, an end of file *)
(* or the end of compilation does to one unit changes what another still   *)
(* reads, and REWIND() brings back the files in their order.               *)
THEOREM ImplementsLists ==
  ASSUME Environment
  PROVE  Spec => ListsSpec
<1> DEFINE K == [u \in Units |-> ListFrom(next, head[u])]
           R == [u \in Units |-> ListFrom(next, curr[u])]
<1>1. Init => Lists!Init
  <2> SUFFICES ASSUME Init PROVE Lists!Init
    OBVIOUS
  <2>1. TypeOK /\ HeapInv /\ Lined
    BY InitType, InitSafe, InitLists
  <2>2. K = Behind /\ R = Behind
    BY InitLists DEF Behind, Ahead
  <2>3. Behind \in [Units -> Seq(Files)]
    BY <2>1, LinedTyped
  <2>4. \A u \in Units \ {UNITI} : Len(Behind[u]) <= 1
    BY InitLists
  <2>5. \A u, v \in Units : \A i \in DOMAIN Behind[u], j \in DOMAIN Behind[v] :
          Behind[u][i] = Behind[v][j] => u = v /\ i = j
    BY <2>1, ListsApart
  <2> HIDE DEF K, R
  <2>6. /\ K \in [Units -> Seq(Files)] /\ R = K
        /\ \A u \in Units \ {UNITI} : Len(K[u]) <= 1
        /\ \A u, v \in Units : \A i \in DOMAIN K[u], j \in DOMAIN K[v] :
             K[u][i] = K[v][j] => u = v /\ i = j
    BY <2>2, <2>3, <2>4, <2>5
  <2> QED BY <2>6 DEF Lists!Init, K, R
<1>2. IInv /\ Lined /\ [Next]_vars => [Lists!Next]_<<K, R>>
  <2> SUFFICES ASSUME IInv, Lined, [Next]_vars PROVE [Lists!Next]_<<K, R>>
    OBVIOUS
  <2>1. Lined' /\ Refines
    BY NextLists
  <2>2. TypeOK /\ HeapInv /\ TypeOK'
    BY NextType DEF IInv
  <2>3. K = Behind /\ R = Ahead /\ K' = Behind' /\ R' = Ahead'
    BY DEF Behind, Ahead
  <2>4. Behind' \in [Units -> Seq(Files)] /\ Ahead' \in [Units -> Seq(Files)]
    <3>1. ASSUME NEW u \in Units
          PROVE  ListFrom(next', head'[u]) \in Seq(Files)
                 /\ ListFrom(next', curr'[u]) \in Seq(Files)
      <4>1. next' \in [Files -> Ptr] /\ curr'[u] \in Ptr /\ head'[u] \in Ptr
        BY <2>2 DEF TypeOK
      <4>2. HasList(next', curr'[u]) /\ HasList(next', head'[u])
        BY <2>1 DEF Lined
      <4> QED BY <4>1, <4>2, ListFromList
    <3> QED BY <3>1 DEF Behind, Ahead
  <2>5. Fresh \subseteq Files \ Lists!InUse
    <3>1. \A u \in Units : /\ \A i \in DOMAIN Behind[u] : Behind[u][i] \in live
                           /\ \A i \in DOMAIN Ahead[u] : Ahead[u][i] \in live
      BY <2>2, ListedLive
    <3>2. \A u \in Units : /\ \A i \in DOMAIN K[u] : K[u][i] \in live
                           /\ \A i \in DOMAIN R[u] : R[u][i] \in live
      BY <2>3, <3>1
    <3> QED BY <3>2 DEF Lists!InUse, Fresh
  <2>6. ASSUME NEW U \in SUBSET Units, Given(U) PROVE Lists!Given(U)
    BY <2>3, <2>4, <2>5, <2>6 DEF Given, Lists!Given
  <2>7. CASE Behind' = Behind /\ Ahead' = Ahead
    BY <2>3, <2>7
  <2>8. ASSUME NEW U \in SUBSET Units, Replaced(U) PROVE Lists!Next
    BY <2>3, <2>6, <2>8 DEF Replaced, Lists!Next, Lists!Replace
  <2>9. ASSUME NEW U \in SUBSET Units, Forgot(U) PROVE Lists!Next
    BY <2>3, <2>6, <2>9 DEF Forgot, Lists!Next, Lists!Forget
  <2>10. ASSUME NEW u \in Units, Advanced(u) PROVE Lists!Next
    BY <2>3, <2>10 DEF Advanced, Lists!Next, Lists!Advance
  <2>11. ASSUME NEW u \in Units, Rewound(u) PROVE Lists!Next
    BY <2>3, <2>11 DEF Rewound, Lists!Next, Lists!Rewind
  <2>12. ASSUME NEW f \in Fresh, Pushed(f) PROVE Lists!Next
    BY <2>3, <2>5, <2>12 DEF Pushed, Lists!Next, Lists!Push
  <2> QED BY <2>1, <2>7, <2>8, <2>9, <2>10, <2>11, <2>12 DEF Refines
<1>3. Init => Lined
  BY InitLists
<1>4. IInv /\ Lined /\ [Next]_vars => Lined'
  BY NextLists
<1> QED BY <1>1, <1>2, <1>3, <1>4, Inductive, PTL
      DEF Spec, ListsSpec, Lists!Spec, Lists!lists
-----------------------------------------------------------------------------
(* The search for a free unit: FindUnit, for every range of units.         *)

(* Inside the while loop, the units between finger and where this turn     *)
(* started have been seen in use.                                          *)
Seen ==
  pc = "while" => /\ MINFIND - 1 <= finger /\ finger <= start
                  /\ \A u \in Found : finger < u /\ u <= start => u \in used

FindInv == FindTypeOK /\ Seen

LEMMA FindInitInv == FindInit => FindInv
BY RangeAssumption DEF FindInit, FindInv, FindTypeOK, Seen, Found

LEMMA FindNextInv == FindInv /\ [FindNext]_findvars => FindInv'
<1> SUFFICES ASSUME FindInv, [FindNext]_findvars PROVE FindInv'
  OBVIOUS
<1> USE RangeAssumption DEF FindInv, FindTypeOK, Seen, Found
<1>1. CASE Attach
  BY <1>1 DEF Attach
<1>2. CASE Call
  BY <1>2 DEF Call
<1>3. CASE Top
  BY <1>3 DEF Top, From
<1>4. CASE Look
  <2>1. finger \in Found /\ pc = "while" /\ UNCHANGED <<used, start>>
    BY <1>4 DEF Look
  <2>2. finger' = finger - 1 /\ MINFIND - 1 <= finger' /\ finger' \in 0..MAXFIND
    BY <1>4, <2>1 DEF Look
  <2>3. CASE finger \notin used
    BY <1>4, <2>1, <2>2, <2>3 DEF Look
  <2>4. CASE finger \in used
    BY <1>4, <2>1, <2>2, <2>4 DEF Look
  <2> QED BY <2>3, <2>4
<1>5. CASE WhileEnd
  BY <1>5 DEF WhileEnd
<1>6. CASE UNCHANGED findvars
  BY <1>6 DEF findvars
<1> QED BY <1>1, <1>2, <1>3, <1>4, <1>5, <1>6 DEF FindNext, Step

(* io_findunit fails only when no unit of the range is free, and what it   *)
(* returns is free and in the range: wherever the finger was left.         *)
THEOREM AnswersRight == FindSpec => Answers
<1>1. FindInv /\ [FindNext]_findvars =>
        [pc # "idle" /\ pc' = "idle" =>
           IF ret' = -1 THEN used = Found
           ELSE ret' \in Found \ used]_findvars
  <2> SUFFICES ASSUME FindInv, FindNext, pc # "idle", pc' = "idle"
               PROVE  IF ret' = -1 THEN used = Found
                      ELSE ret' \in Found \ used
    OBVIOUS
  <2> USE RangeAssumption DEF FindInv, FindTypeOK, Seen, Found
  <2>1. CASE Look
    BY <2>1 DEF Look
  <2>2. CASE WhileEnd
    <3>1. pc = "while" /\ finger < MINFIND /\ start = MAXFIND /\ ret' = -1
      BY <2>2 DEF WhileEnd, SeenAll
    <3>2. \A u \in Found : u \in used
      BY <3>1
    <3>3. used = Found
      BY <3>2
    <3> QED BY <3>1, <3>3
  <2>3. ~ (Attach \/ Call \/ Top)
    BY DEF Attach, Call, Top
  <2> QED BY <2>1, <2>2, <2>3 DEF FindNext, Step
<1>2. FindInv /\ [FindNext]_findvars => FindInv'
  BY FindNextInv
<1>3. FindInit => FindInv
  BY FindInitInv
<1> QED BY <1>1, <1>2, <1>3, PTL DEF FindSpec, Answers
=============================================================================
