------------------------------ MODULE Storage ------------------------------
(***************************************************************************)
(* Allocation and regeneration of storage in v311.sil: BLOCK, GENVAR,      *)
(* CONVAR, GNVARS, GC and GCM, and the procedures that use them in each    *)
(* of the ways there are.                                                  *)
(*                                                                         *)
(* The dynamic region is an array of descriptors.  A block is a title and  *)
(* its fields; the structure of a string is a title, its value, its label, *)
(* a link of the bin and the characters.  Strings are numbers in the order *)
(* of the bin (one bin stands for all), a descriptor holds one character.  *)
(*                                                                         *)
(* mem is the storage below FRSGPT, which is allocated.  Above it is what  *)
(* earlier blocks left behind, which the model takes at its worst: titles  *)
(* that are still marked.                                                  *)
(***************************************************************************)
EXTENDS Naturals, Sequences, FiniteSets, FiniteSetsExt, Functions

CONSTANTS
  TLSGP1,     \* the end of the region (its descriptors are 1..TLSGP1 - 1)
  Strs,       \* strings, numbered in the order of the bin
  Length,     \* of each string
  Part,       \* strings a program takes parts of, and the parts
  Twice,      \* strings a program duplicates, and the result
  Upper,      \* the upper-case form of each string that is not upper-case
  Raised,     \* strings with a lower-case Part, and what they are when that
              \* is upper-cased
  Stack,      \* descriptors of the program besides XPTR
  BlockSizes, \* sizes of new blocks
  CaseFolds,  \* whether names made at run time are folded
  CharFlags   \* what a character amounts to when it is taken for flags

ASSUME StrsAssumption == /\ Strs \subseteq Nat \ {0}
                         /\ Length \in [Strs -> Nat \ {0}]
ASSUME RegionAssumption == TLSGP1 \in Nat /\ TLSGP1 > 3
ASSUME SizesAssumption == BlockSizes \subseteq Nat \ {0}

VARIABLE heap  \* mem; bin, the bin's link; root, the resident blocks (the
               \* stack is among them); fault: characters were taken for a
               \* title

HDSGPT == 1
FRSGPT(H) == Len(H.mem) + 1

(* Descriptors: address, flags, value.                                     *)
D(a, f, v) == [a |-> a, f |-> f, v |-> v]
Zero == D(0, {}, 0)
Ptr(a) == D(a, {"PTR"}, 0)
IsPtr(d) == "PTR" \in d.f /\ d.a # 0
Char(s) == D(0, CharFlags, s)

ATTRIB == 2
LNKFLD == 3
TEXT == 4

(* Specifiers and the allocator's own pointers, which are resident too.    *)
Own == {"OCBSCL", "TSP", "XSP", "SPECR1", "BUKPTR", "LSTPTR"}
ASSUME StackAssumption == Stack \cap (Own \cup {"XPTR"}) = {}

Init ==
  heap = [mem   |-> <<D(1, {"TTL"}, 1), Zero>>,
          bin   |-> 0,
          root  |-> [x \in Own \cup {"XPTR"} \cup Stack |-> IF x = "OCBSCL" THEN Ptr(1) ELSE Zero],
          fault |-> FALSE]

-----------------------------------------------------------------------------
(* The title of the block a points into: the nearest one below.            *)
Top(m, a) ==
  LET T[b \in 0..a] == IF b \notin DOMAIN m \/ "TTL" \in m[b].f THEN b ELSE T[b - 1]
  IN T[a]

BKSIZE(d) == IF "STTL" \in d.f THEN TEXT + d.v ELSE d.v + 1

(* Fields of a block, or of a string, that may be pointers.                *)
Fields(m, t) == IF "STTL" \in m[t].f THEN 1..ATTRIB ELSE 1..m[t].v

(* Titles, found as GCLAD and GCLAP find them: from block to block.        *)
Titles(H) ==
  LET T[a \in Nat \ {0}] ==
        IF a >= FRSGPT(H) THEN {} ELSE {a} \cup T[a + BKSIZE(H.mem[a])]
  IN T[HDSGPT]

Strings(H) == {t \in Titles(H) : "STTL" \in H.mem[t].f}

(* Where links are: in the bin, whose place is 0, and in its strings.      *)
Links(H) == {0} \cup Strings(H)

LinkOf(H, a) == IF a = 0 THEN H.bin ELSE H.mem[a + LNKFLD].a

Chained(H) ==
  LET C[a \in Links(H)] ==
        IF LinkOf(H, a) = 0 THEN {} ELSE {LinkOf(H, a)} \cup C[LinkOf(H, a)]
  IN C[0]

-----------------------------------------------------------------------------
(* GC, up to GCLAD: what is marked.  The resident blocks are scanned, and  *)
(* strings with a value or a label; a block that is marked already is not  *)
(* scanned again.                                                          *)
Kept(H, s) == H.mem[s + 1] # Zero \/ H.mem[s + ATTRIB].a # 0

Marked(H) ==
  LET Unmarked(T) == {t \in T : t < FRSGPT(H) /\ "MARK" \notin H.mem[t].f}
      From(t) == {Top(H.mem, H.mem[t + i].a) : i \in {j \in Fields(H.mem, t) : IsPtr(H.mem[t + j])}}
      M[n \in 0..Cardinality(Titles(H)) + 1] ==
        IF n = 0
        THEN Unmarked({Top(H.mem, d.a) : d \in {c \in Range(H.root) : IsPtr(c)}}
                      \cup {s \in Chained(H) : Kept(H, s)})
        ELSE LET r == M[n - 1] IN r \cup Unmarked(UNION {From(t) : t \in r})
  IN M[Cardinality(Titles(H)) + 1]

(* A pointer into the region from which TOP finds no title.                *)
Astray(H, d) == IsPtr(d) /\ d.a < FRSGPT(H) /\ Top(H.mem, d.a) \notin Titles(H)

GoesAstray(H) ==
  \/ \E d \in Range(H.root) : Astray(H, d)
  \/ \E t \in Titles(H) : \E i \in Fields(H.mem, t) : Astray(H, H.mem[t + i])

(* The rest: GCLAD points titles behind the barrier MVSGPT to where their  *)
(* blocks will go, GCBB1 links the marked strings, GCLAP and GCLAT adjust  *)
(* pointers, and GCLAM moves the blocks.  (When all is marked MVSGPT keeps *)
(* an old value, but then every title points to itself.)                   *)

\* Mutation: a pointer into a block becomes a pointer to its title.
ToTitle(t, title, barrier, d) ==
  IF d.a >= barrier THEN [d EXCEPT !.a = title[t].a] ELSE d

Adjust(t, title, barrier, d) ==
  IF d.a >= barrier THEN [d EXCEPT !.a = title[t].a + d.a - t] ELSE d

\* Mutation: the chain is cut at the first string that goes.
CutsChain(H, kept, a) == IF LinkOf(H, a) \in kept THEN LinkOf(H, a) ELSE 0

NextKept(H, kept, a) ==
  LET N[b \in Links(H)] == IF LinkOf(H, b) \in kept \cup {0} THEN LinkOf(H, b) ELSE N[LinkOf(H, b)]
  IN N[a]

\* Mutation: the mark stays.
StaysMarked(d) == d

Moved(d) == [d EXCEPT !.f = @ \ {"MARK"}]

Survivors(H) ==
  LET marked == Marked(H)
  IN {t \in Titles(H) : t \in marked \/ "MARK" \in H.mem[t].f}

\* MVSGPT: the first block that goes.
Barrier(H, kept) ==
  LET goes == Titles(H) \ kept IN IF goes = {} THEN TLSGP1 ELSE Min(goes)

Whole(H, t) == t..t + BKSIZE(H.mem[t]) - 1
Staying(H, kept) == UNION {Whole(H, t) : t \in kept}

\* GCM, GCLAD: a block goes (CPYCL) behind all that stays below it.
Retitled(H, kept, barrier) ==
  LET stay == Staying(H, kept)
      target(t) == HDSGPT + Cardinality({a \in stay : a < t})
  IN [t \in Titles(H) |->
        IF t \notin kept THEN H.mem[t]
        ELSE [H.mem[t] EXCEPT !.f = @ \cup {"MARK"},
                              !.a = IF t > barrier THEN target(t) ELSE @]]

\* GCLAP, GCLAT.
Adjusted(H, title, barrier, d) ==
  IF IsPtr(d) /\ d.a < FRSGPT(H) THEN Adjust(Top(H.mem, d.a), title, barrier, d) ELSE d

\* GCBB1.
NewLink(H, kept, title, a) ==
  LET n == NextKept(H, kept, a) IN IF n = 0 THEN 0 ELSE title[n].a

\* What becomes of descriptor i of a block.
Content(H, kept, title, barrier, t, i) ==
  IF i = 0 THEN Moved(title[t])
  ELSE IF i \in Fields(H.mem, t) THEN Adjusted(H, title, barrier, H.mem[t + i])
  ELSE IF i = LNKFLD THEN [H.mem[t + i] EXCEPT !.a = NewLink(H, kept, title, t)]
  ELSE H.mem[t + i]

\* GCLAM.
Slid(H, kept, title, barrier) ==
  LET source(a) == CHOOSE t \in kept : title[t].a <= a /\ a < title[t].a + BKSIZE(H.mem[t])
  IN [a \in 1..Cardinality(Staying(H, kept)) |->
        Content(H, kept, title, barrier, source(a), a - title[source(a)].a)]

Regenerated(H) ==
  LET kept == Survivors(H)
      barrier == Barrier(H, kept)
      title == Retitled(H, kept, barrier)
      moved == Slid(H, kept, title, barrier)
  IN [H EXCEPT !.mem = SubSeq(moved, 1, Len(moved)),
               !.bin = NewLink(H, kept, title, 0),
               !.root = [x \in DOMAIN @ |-> Adjusted(H, title, barrier, @[x])]]

GC(H) == IF GoesAstray(H) THEN [H EXCEPT !.fault = TRUE] ELSE Regenerated(H)

(* Room for n descriptors, after a regeneration if that is what it takes;  *)
(* if there is still none the program ends (ALOC2).                        *)
Fits(H, n) == FRSGPT(H) + n <= TLSGP1

Room(H, n) == IF Fits(H, n) THEN H ELSE GC(H)

With(G, n, H) == IF G.fault THEN heap' = G ELSE Fits(G, n) /\ heap' = H

-----------------------------------------------------------------------------
(* Making blocks and strings.                                              *)

(* SETVC of BLOCK and CONVAR, which clears a stale mark.                   *)
Title(a, f, v) == D(a, f, v)

Zeros(n) == [i \in 1..n |-> Zero]

BLOCK(n) ==
  /\ ~ heap.fault
  /\ \E G \in {Room(heap, n + 1)} :
       LET t == FRSGPT(G)
       IN With(G, n + 1, [G EXCEPT !.mem = @ \o <<Title(t, {"TTL"}, n)>> \o Zeros(n),
                                   !.root.XPTR = Ptr(t)])

Text(H, t) == H.mem[t + TEXT].v
Size(s) == TEXT + IF s \in Strs THEN Length[s] ELSE 1

\* Strings are numbers, and upper-casing one leaves it as long as it was.
ASSUME StringsAssumption ==
  /\ Range(Part) \cup Range(Twice) \cup Range(Upper) \cup Range(Raised) \subseteq Nat
  /\ \A s \in DOMAIN Upper : Size(Upper[s]) = Size(s)
  /\ \A s \in DOMAIN Raised : Size(Raised[s]) = Size(s)

Stops(H, b, s) ==
  \/ H.mem[b + LNKFLD].v > s
  \/ H.mem[b + LNKFLD].v = s /\ Text(H, b) = s

(* LOCA1: the place of a string in the bin, between LSTPTR and BUKPTR.     *)
Located(H, s) ==
  LET W[a \in Links(H)] ==
        IF LinkOf(H, a) = 0 \/ Stops(H, LinkOf(H, a), s) THEN a ELSE W[LinkOf(H, a)]
  IN [H EXCEPT !.root.LSTPTR = Ptr(W[0]), !.root.BUKPTR = Ptr(LinkOf(H, W[0]))]

Found(L, s) ==
  L.root.BUKPTR.a # 0 /\ L.mem[L.root.BUKPTR.a + LNKFLD].v = s

(* LOCA7: a structure at the end of storage is linked in at that place.    *)
Structure(t, s, value, label) ==
  <<Title(t, {"TTL", "STTL"}, Size(s) - TEXT), value, label, Zero>>
  \o [i \in 1..Size(s) - TEXT |-> Char(s)]

Entered(C, t, s) ==
  LET l == C.root.LSTPTR.a
      linked == [C.mem EXCEPT ![t + LNKFLD] = D(C.root.BUKPTR.a, {}, s)]
  IN [C EXCEPT !.bin = IF l = 0 THEN t ELSE @,
               !.root.XPTR = Ptr(t),
               !.mem = IF l = 0 THEN linked ELSE [linked EXCEPT ![l + LNKFLD].a = t]]

PartOf(s) == IF s \in DOMAIN Part THEN Part[s] ELSE s

(* The characters of SPECR1: outside the region, or part of a string.      *)
Spelled(H, s) ==
  LET p == H.root.SPECR1.a IN IF p = 0 THEN s ELSE PartOf(Text(H, p))

Generated(H, s) ==
  \E L \in {Located(H, s)} :
    \/ Found(L, s) /\ heap' = [L EXCEPT !.root.XPTR = L.root.BUKPTR]
    \/ /\ ~ Found(L, s)
       /\ \E G \in {Room(L, Size(s))} :
            LET t == FRSGPT(G)
                new == Structure(t, Spelled(G, s), Zero, Zero)
            IN With(G, Size(s), Entered([G EXCEPT !.mem = @ \o new], t, s))

(* A string from the program's text, or from outside.                      *)
GENVAR(s) ==
  ~ heap.fault /\ Generated([heap EXCEPT !.root.SPECR1 = Zero], s)

IsStr(x) == heap.root[x].a # 0 /\ "STTL" \in heap.mem[Top(heap.mem, heap.root[x].a)].f

(* A name that is part of a string, folded to upper case where it stands.  *)
GENVUP(y) ==
  /\ ~ heap.fault /\ IsStr(y)
  /\ LET p == heap.root[y].a
         s == Text(heap, p)
         up == IF s \in DOMAIN Raised THEN Raised[s] ELSE s
         H == [heap EXCEPT !.root.SPECR1 = Ptr(p),
                           !.mem = [a \in DOMAIN @ |-> IF a \in p + TEXT..p + Size(s) - 1
                                                       THEN Char(up) ELSE @[a]]]
     IN s \in DOMAIN Part /\ \E K \in {H} : Generated(K, PartOf(up))

\* Mutation: a pointer, as FRSGPT itself is.
ScratchPointer(a) == Ptr(a)

(* What CONVAR returns: the flags are those GETLTH left.                   *)
Scratch(a) == D(a, {}, 0)

(* CONVAR puts the structure of a string to be on the first free place;    *)
(* GNVARS enters it, if the string is not in storage.                      *)
CONVAR(G, s, value, label) ==
  [G EXCEPT !.mem = @ \o Structure(FRSGPT(G), s, value, label)]

GNVARS(G, C, s) ==
  \E L \in {Located([G EXCEPT !.root.SPECR1 = Ptr(FRSGPT(G))], s)} :
    heap' = IF Found(L, s) THEN [L EXCEPT !.root.XPTR = L.root.BUKPTR]
            ELSE Entered([L EXCEPT !.mem = C.mem], FRSGPT(G), s)

(* DUPL(): the characters are copied after CONVAR has made room.           *)
DUPL ==
  /\ ~ heap.fault /\ IsStr("XPTR")
  /\ Text(heap, heap.root.XPTR.a) \in DOMAIN Twice
  /\ \E s \in {Text(heap, heap.root.XPTR.a)} :
     \E G \in {Room([heap EXCEPT !.root.XSP = Ptr(heap.root.XPTR.a)], Size(Twice[s]))} :
       \/ G.fault /\ heap' = G
       \/ /\ ~ G.fault /\ Fits(G, Size(Twice[s]))
          /\ \E Z \in {[G EXCEPT !.root.TSP = Scratch(FRSGPT(G))]},
                copy \in {Twice[Text(G, G.root.XSP.a)]} :
               GNVARS(Z, CONVAR(Z, copy, Zero, Zero), copy)

(* VPXPTR: a name made at run time, folded.  When the string has no lower- *)
(* case letters the copy made at FRSGPT is left there, and XSP points to   *)
(* it; otherwise the copy starts with the value and label of the string.   *)
VPXPTR ==
  /\ ~ heap.fault /\ CaseFolds /\ IsStr("XPTR")
  /\ \E s \in {Text(heap, heap.root.XPTR.a)} :
     \E G \in {Room([heap EXCEPT !.root.SPECR1 = Ptr(heap.root.XPTR.a)], Size(s))} :
     \E X \in {[G EXCEPT !.root.XSP = Ptr(FRSGPT(G))]} :
       LET p == G.root.XPTR.a
       IN \/ G.fault /\ heap' = G
          \/ /\ ~ G.fault /\ Fits(G, Size(s)) /\ s \notin DOMAIN Upper
             /\ heap' = X
          \/ /\ ~ G.fault /\ Fits(G, Size(s)) /\ s \in DOMAIN Upper
             /\ GNVARS(X, CONVAR(X, Upper[s], G.mem[p + 1], G.mem[p + ATTRIB]), Upper[s])

-----------------------------------------------------------------------------
(* What a program does with variables, fields, labels and its descriptors. *)

(* The field a descriptor names is the one behind its address.             *)
IsName(x) ==
  LET p == heap.root[x].a
      t == Top(heap.mem, p)
  IN p # 0 /\ ("STTL" \in heap.mem[t].f \/ p - t < heap.mem[t].v)

IsBlk(x) == heap.root[x].a # 0 /\ ~ IsStr(x)

Assign(y) ==
  /\ ~ heap.fault /\ IsName(y)
  /\ heap' = [heap EXCEPT !.mem[heap.root[y].a + 1] = heap.root.XPTR]

Fetch ==
  /\ ~ heap.fault /\ IsName("XPTR")
  /\ heap' = [heap EXCEPT !.root.XPTR = heap.mem[heap.root.XPTR.a + 1]]

Element ==
  /\ ~ heap.fault /\ IsBlk("XPTR")
  /\ LET p == heap.root.XPTR.a
         t == Top(heap.mem, p)
     IN p - t + 1 < heap.mem[t].v
  /\ heap' = [heap EXCEPT !.root.XPTR.a = @ + 1]

Label(y) ==
  /\ ~ heap.fault /\ IsStr(y) /\ IsBlk("XPTR")
  /\ heap' = [heap EXCEPT !.mem[heap.root[y].a + ATTRIB] = heap.root.XPTR]

Push(y) == ~ heap.fault /\ heap' = [heap EXCEPT !.root[y] = heap.root.XPTR]

Forget == ~ heap.fault /\ heap' = [heap EXCEPT !.root.XPTR = Zero]

CLEAR ==
  /\ ~ heap.fault
  /\ heap' = [heap EXCEPT !.mem = [a \in DOMAIN @ |-> IF a - 1 \in Chained(heap) THEN Zero ELSE @[a]]]

COLECT == ~ heap.fault /\ heap' = GC(heap)

Next ==
  \/ \E n \in BlockSizes : BLOCK(n)
  \/ \E s \in Strs : GENVAR(s)
  \/ DUPL \/ VPXPTR \/ Fetch \/ Element \/ Forget
  \/ \E y \in Stack : GENVUP(y) \/ Assign(y) \/ Label(y) \/ Push(y)
  \/ CLEAR \/ COLECT

Spec == Init /\ [][Next]_heap

-----------------------------------------------------------------------------
Within(d) == IsPtr(d) => d.a < FRSGPT(heap)

(* The blocks fill the storage below FRSGPT to the last descriptor; their  *)
(* titles point to themselves and carry no mark, as the next GC will need  *)
(* them, and what the program can see points into them.                    *)
Tiled ==
  /\ FRSGPT(heap) <= TLSGP1
  /\ \E t \in Titles(heap) : t + BKSIZE(heap.mem[t]) = FRSGPT(heap)
  /\ \A t \in Titles(heap) :
       /\ heap.mem[t].a = t /\ "MARK" \notin heap.mem[t].f
       /\ \A i \in Fields(heap.mem, t) : Within(heap.mem[t + i])
  /\ \A x \in Stack \cup {"XPTR", "OCBSCL"} : Within(heap.root[x])

(* "Return string in storage": a string is in storage once, with the       *)
(* characters it is filed under, so that equal strings are equal pointers. *)
Interned ==
  /\ Chained(heap) = Strings(heap)
  /\ \A t \in Strings(heap) : Text(heap, t) = heap.mem[t + LNKFLD].v
  /\ \A t, u \in Strings(heap) : t # u => Text(heap, t) # Text(heap, u)

(* TOP is to "get to title of block pointed to" (v311.sil:1515): it finds  *)
(* a title wherever the collector looks.                                   *)
TopFindsTitle == ~ heap.fault

-----------------------------------------------------------------------------
(* The store the program sees: blocks by age, strings by their characters. *)
Seen(H) ==
  LET titles == Titles(H)
      blocks == {t \in titles : "STTL" \notin H.mem[t].f}
      rank == [t \in blocks |-> Cardinality({u \in blocks : u <= t})]
      Ref(d) ==
        LET t == Top(H.mem, d.a)
        IN IF d.a = 0 THEN [k |-> "null", n |-> 0, off |-> 0]
           ELSE IF t \notin blocks THEN [k |-> "str", n |-> Text(H, t), off |-> 0]
           ELSE [k |-> "blk", n |-> rank[t], off |-> d.a - t]
      Variables(i) ==
        [s \in Strs |->
           LET t == {u \in titles \ blocks : Text(H, u) = s}
           IN Ref(IF t = {} THEN Zero ELSE H.mem[Min(t) + i])]
  IN [val  |-> Variables(1),
      attr |-> Variables(ATTRIB),
      reg  |-> [x \in {"XPTR"} \cup Stack |-> Ref(H.root[x])],
      body |-> [j \in 1..Cardinality(blocks) |->
                  LET t == CHOOSE u \in blocks : rank[u] = j
                  IN [i \in 1..H.mem[t].v |-> Ref(H.mem[t + i])]]]
=============================================================================
