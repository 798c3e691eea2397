------------------------------- MODULE Store -------------------------------
(***************************************************************************)
(* What the storage allocator of v311.sil promises the program: strings    *)
(* that are the same when they have the same characters, each a variable   *)
(* with a value and a label, and blocks of fields that live as long as     *)
(* something points to them.  Nothing moves, and nothing is collected.     *)
(*                                                                         *)
(* A store is a record of the values and labels of the strings, the blocks *)
(* (oldest first) and the program's descriptors.  Blocks that cannot be    *)
(* reached are not part of it.                                             *)
(***************************************************************************)
EXTENDS Naturals, Sequences, FiniteSets, Functions

CONSTANTS
  Strs,       \* strings that are not null
  Stack,      \* descriptors of the program besides XPTR
  BlockSizes, \* how many fields a new block may have
  CaseFolds,  \* whether names made at run time are folded to upper case
  Upper       \* the upper-case form of each string that is not upper-case

VARIABLE store

(* References: to nothing, to a string, to a field of a block.             *)
Null == [k |-> "null", n |-> 0, off |-> 0]
Str(s) == [k |-> "str", n |-> s, off |-> 0]
Blk(i, o) == [k |-> "blk", n |-> i, off |-> o]

-----------------------------------------------------------------------------
Targets(refs) == {r.n : r \in {q \in refs : q.k = "blk"}}

(* Blocks the program can reach; the first holds the program's code.       *)
Reachable(st) ==
  LET R[n \in 0..Len(st.body)] ==
        IF n = 0 THEN {1} \cup Targets(Range(st.val) \cup Range(st.attr) \cup Range(st.reg))
        ELSE LET r == R[n - 1] IN r \cup Targets(UNION {Range(st.body[i]) : i \in r})
  IN R[Len(st.body)]

(* The store without the others, and the rest numbered from one.           *)
Pruned(st) ==
  LET live == Reachable(st)
      Rank(i) == Cardinality({j \in live : j <= i})
      Ref(r) == IF r.k = "blk" THEN Blk(Rank(r.n), r.off) ELSE r
      Refs(f) == [x \in DOMAIN f |-> Ref(f[x])]
  IN IF live = DOMAIN st.body THEN st ELSE
     [val  |-> Refs(st.val), attr |-> Refs(st.attr), reg |-> Refs(st.reg),
      body |-> [j \in 1..Cardinality(live) |->
                  Refs(st.body[CHOOSE i \in live : Rank(i) = j])]]

Init ==
  store = [val  |-> [s \in Strs |-> Null], attr |-> [s \in Strs |-> Null],
           body |-> <<<<Null>>>>, reg |-> [x \in {"XPTR"} \cup Stack |-> Null]]

-----------------------------------------------------------------------------
(* What each operation makes of a store: the stores it may lead to.        *)
Is(st, x, k) == st.reg[x].k = k

Block(st, n) ==
  [st EXCEPT !.body = Append(@, [i \in 1..n |-> Null]),
             !.reg.XPTR = Blk(Len(st.body) + 1, 0)]

(* The variable of that name, or the string, which is the same.            *)
Variable(st, s) == [st EXCEPT !.reg.XPTR = Str(s)]

Named(st, s) ==
  \E r \in Range(st.val) \cup Range(st.attr) \cup Range(st.reg)
           \cup UNION {Range(b) : b \in Range(st.body)} : r = Str(s)

When(condition, S) == IF condition THEN S ELSE {}

(* A name with case folding is upper-case.  When no variable has that name *)
(* yet it may start with the value and label of the one as written.        *)
Folded(st) ==
  LET s == st.reg.XPTR.n
      u == Upper[s]
      folded == Variable(st, u)
      fresh == ~ Named(st, u) /\ st.val[u] = Null /\ st.attr[u] = Null
  IN When(CaseFolds /\ Is(st, "XPTR", "str") /\ s \in DOMAIN Upper,
          {folded} \cup When(fresh, {[folded EXCEPT !.val[u] = st.val[s],
                                                   !.attr[u] = st.attr[s]]}))

(* The field a descriptor names.                                           *)
Field(st, r) == IF r.k = "str" THEN st.val[r.n] ELSE st.body[r.n][r.off + 1]

IsName(st, x) ==
  \/ Is(st, x, "str")
  \/ Is(st, x, "blk") /\ st.reg[x].off < Len(st.body[st.reg[x].n])

Fetch(st) == [st EXCEPT !.reg.XPTR = Field(st, @)]

HasNext(st) ==
  Is(st, "XPTR", "blk") /\ st.reg.XPTR.off + 1 < Len(st.body[st.reg.XPTR.n])

Element(st) == [st EXCEPT !.reg.XPTR.off = @ + 1]

Forget(st) == [st EXCEPT !.reg.XPTR = Null]

Assign(st, y) ==
  LET r == st.reg[y]
  IN IF r.k = "str" THEN [st EXCEPT !.val[r.n] = st.reg.XPTR]
     ELSE [st EXCEPT !.body[r.n][r.off + 1] = st.reg.XPTR]

Label(st, y) == [st EXCEPT !.attr[st.reg[y].n] = st.reg.XPTR]

Push(st, y) == [st EXCEPT !.reg[y] = st.reg.XPTR]

Clear(st) == [st EXCEPT !.val = [s \in Strs |-> Null]]

Results(st) ==
  {Block(st, n) : n \in BlockSizes} \cup {Variable(st, s) : s \in Strs}
  \cup Folded(st) \cup {Forget(st), Clear(st)} \cup {Push(st, y) : y \in Stack}
  \cup When(IsName(st, "XPTR"), {Fetch(st)})
  \cup When(HasNext(st), {Element(st)})
  \cup {Assign(st, y) : y \in {z \in Stack : IsName(st, z)}}
  \cup When(Is(st, "XPTR", "blk"), {Label(st, y) : y \in {z \in Stack : Is(st, z, "str")}})

(* (The bounds let TLC evaluate a refinement mapping once per state.)      *)
Next ==
  \E old \in {store}, new \in {store'} :
    \E st \in Results(old) : new = Pruned(st)

Spec == Init /\ [][Next]_store
=============================================================================
