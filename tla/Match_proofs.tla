---------------------------- MODULE Match_proofs ----------------------------
(***************************************************************************)
(* What a match keeps, on the history list and on the stack, of what is to *)
(* be undone: StackOwned, LinksOwned and HistoryUndoes of Match, for all   *)
(* patterns that the procedures of PatternNodes make.                      *)
(***************************************************************************)
EXTENDS Levels_proofs

-----------------------------------------------------------------------------
(* The procedures.  Each lemma says that a match goes on to be one; the     *)
(* registers and entries that change are those of the action it is about.   *)

(* SCIN3: the node's own entry has been pushed.                            *)
NodeEntered(W, C, regs, e, regs2, n) ==
    /\ n = NodeOf(W, C, regs.PATICL) /\ e \in EntrySet(W) /\ OwnEntry(e, n, regs.TXSP, Last(C).pat)
    /\ Later(W, regs, regs2) /\ regs2.PATICL = regs.PATICL /\ regs2.TXSP = regs.TXSP
    /\ regs2.then = n.then /\ regs2.res = n.res

LEMMA NodePlace ==
  ASSUME NEW W, Worlds(W), NEW C, Last(C).pat \in DOMAIN W.nodes, NEW o \in 0 .. Len(Pat(W, C)) - 1
  PROVE  /\ NodeOf(W, C, o).fn \in Fns /\ NodeOf(W, C, o).val \in Nat /\ NodeOf(W, C, o).res \in Nat
         /\ NodeOf(W, C, o).then \in Nat /\ NodeOf(W, C, o).or \in Nat
         /\ NodeGood(W.nodes[Last(C).pat], W.open[Last(C).pat], o)
         /\ W.open[Last(C).pat][o + 1] \in Seq(Tags)
<1> DEFINE p == Last(C).pat
<1>1. p \in DOMAIN W.nodes /\ o \in 0 .. Len(W.nodes[p]) - 1
  BY DEF Pat
<1>2. /\ W.nodes[p][o + 1].fn \in Fns /\ W.nodes[p][o + 1].then \in Nat /\ W.nodes[p][o + 1].or \in Nat
      /\ W.nodes[p][o + 1].val \in Nat /\ W.nodes[p][o + 1].res \in Nat
      /\ W.open[p][o + 1] \in Seq(Tags) /\ NodeGood(W.nodes[p], W.open[p], o)
  <2> HIDE DEF p
  <2> QED BY <1>1, NodeIs
<1> QED BY <1>2 DEF NodeOf

LEMMA JoinsPlace ==
  ASSUME NEW W, Worlds(W), NEW B, NEW top, NEW o, NEW cur, NEW C, Sound(W, C), Sound(W, B),
         Last(C).pat \in DOMAIN W.nodes, Joins(W, B, top, o, cur, C)
  PROVE  o \in 0 .. Len(Pat(W, C)) - 1
<1>1. CASE RoleOf(W, C, o) = "ARBF" /\ JoinsARBF(W, B, top, o, cur, C)
  <2>1. Last(Pushed(C, "arbno")).pat = Last(C).pat
    BY PushedIs DEF Tags
  <2>2. o \in 0 .. Len(W.nodes[Last(C).pat]) - 1
    <3>1. CASE Short(W, C, o, cur)
      BY <1>1, <2>1, <3>1 DEF JoinsARBF, Place
    <3>2. CASE ~ Short(W, C, o, cur)
      BY <1>1, <3>2 DEF JoinsARBF, Place
    <3> QED BY <3>1, <3>2
  <2> QED BY <2>2 DEF Pat
<1>2. CASE RoleOf(W, C, o) # "ARBF" \/ ~ JoinsARBF(W, B, top, o, cur, C)
  <2>1. Place(W, C, o)
    BY <1>2 DEF Joins, JoinsONAR, JoinsDSAR
  <2> QED BY <2>1 DEF Place, Pat
<1> QED BY <1>1, <1>2

(* A node that is not short leaves the cursor before MAXLEN.               *)
LEMMA NotShort ==
  ASSUME NEW W, NEW C, NEW o, NEW cur \in Int, ~ Short(W, C, o, cur), NodeOf(W, C, o).val \in Nat,
         Last(C).max \in Int
  PROVE  W.quick => cur <= Last(C).max /\ cur + NodeOf(W, C, o).val <= Last(C).max
<1> DEFINE v == NodeOf(W, C, o).val
           m == Last(C).max
<1>1. v \in Nat /\ m \in Int /\ (W.quick => ~ (cur + v > m))
  BY DEF Short
<1> HIDE DEF v, m
<1>2. W.quick => cur <= m /\ cur + v <= m
  BY ONLY <1>1, cur \in Int
<1> QED BY <1>2 DEF v, m

(* The pattern goes on after a node that succeeds at once.                 *)
LEMMA NodeSucceeds ==
  ASSUME NEW W, Worlds(W), NEW F, NEW C, NEW cs, NEW regs, NEW s, NEW regs2,
         Next_(W, F, C, cs, regs, C, s, regs2), NEW h2, NEW nm,
         Last(C).pat \in DOMAIN W.nodes, NEW o, Place(W, C, o),
         NodeOf(W, C, o).fn \in Simple, Held(W, F, h2, nm, C), Last(h2).fn # "started",
         regs2.then = NodeOf(W, C, o).then, W.quick => regs2.TXSP <= Last(C).max
  PROVE  Live(W, F, h2, s, cs, nm, regs2, "SCOK")
<1>1. /\ o \in 0 .. Len(Pat(W, C)) - 1 /\ NodeOf(W, C, o).fn \in Passing
      /\ Last(C).open = Leaves(NodeOf(W, C, o), W.open[Last(C).pat][o + 1])
  BY DEF Place, Pat, Passing, Fns, Simple, Measuring, Leaves
<1>2. GoesOn(W, C, Last(h2), NodeOf(W, C, o).then, regs2.TXSP, C)
  BY <1>1, GoesAfter
<1> QED BY <1>2, LiveGoing

LEMMA NodePlain ==
  ASSUME NEW W, Worlds(W), NEW F, NEW h, NEW s, NEW cs, NEW nm, NEW regs, NEW C,
         MatchAt(W, F, h, s, cs, nm, regs, "node", C), NEW e, NEW regs2, NEW n,
         NodeEntered(W, C, regs, e, regs2, n), Held(W, F, h, nm, C), Last(h).fn # "started",
         Place(W, C, regs.PATICL), RoleOf(W, C, regs.PATICL) = "plain", n.fn # "ARBN",
         NEW td2, td2 = IF Short(W, C, regs.PATICL, regs.TXSP) THEN "SALT" ELSE n.fn
  PROVE  Live(W, F, Append(h, e), s, cs, nm, regs2, td2)
<1> DEFINE o == regs.PATICL
           h2 == Append(h, e)
<1>1. /\ Stands(W, F, C, s, cs) /\ Ours(W, F, regs) /\ Sound(W, C) /\ regs.PATBCL = Last(C).pat
      /\ regs.MAXLEN = Last(C).max /\ Last(C).pat \in DOMAIN W.nodes /\ Last(C).max \in Int /\ regs.TXSP \in Int
  BY MatchIs
<1>2. Next_(W, F, C, cs, regs, C, s, regs2)
  BY <1>1 DEF Next_, NodeEntered
<1>3. /\ e.fn = Link /\ e.or = n.or /\ e.then = n.then /\ e.owner = Last(C).pat /\ e \in EntrySet(W)
      /\ n = NodeOf(W, C, o)
  BY DEF NodeEntered, OwnEntry
<1>4. Held(W, F, h2, nm, C)
  <2>1. Step(W, C, Under(F, h, Len(h)), Last(h), e, C)
    BY <1>1, <1>3, OwnStep
  <2>2. e.fn # "DNME"
    BY <1>3, LinkIs
  <2> QED BY <1>1, <1>3, <2>1, <2>2, HeldPushed
<1>5. /\ Last(h2) = e /\ Len(h2) = Len(h) + 1 /\ Len(h) >= Bot(F) /\ Len(h) \in Nat /\ Bot(F) \in Nat
      /\ Prefix(F.hist, h2) /\ Prefix(F.named, nm)
  <2>1. AnySeq(h) /\ Len(h) >= Bot(F) /\ Len(h) \in Nat /\ Bot(F) \in Nat
    BY HeldIs
  <2>2. Prefix(F.hist, h2) /\ Prefix(F.named, nm)
    BY <1>4, HeldIs
  <2> QED BY <2>1, <2>2, AnyAppend
<1> HIDE DEF h2
<1>6. Len(h2) > Bot(F)
  BY <1>5
<1>7. Last(h2).fn # "started"
  BY <1>3, <1>5, LinkIs
<1>8. CASE Short(W, C, o, regs.TXSP)
  BY <1>2, <1>4, <1>7, <1>8, LiveBacking DEF h2
<1>9. CASE ~ Short(W, C, o, regs.TXSP)
  <2>1. /\ o \in 0 .. Len(W.nodes[Last(C).pat]) - 1 /\ o \in 0 .. Len(Pat(W, C)) - 1
        /\ n.fn \in Fns /\ n.val \in Nat
    BY <1>1, <1>3, NodePlace DEF Place, Pat
  <2>2. td2 = n.fn /\ n.fn \notin {"ARBF", "ONAR", "ONRF", "DSAR"}
    BY <1>3, <1>9 DEF RoleOf, Role, NodeOf
  <2>3. regs2.PATICL = o /\ regs2.TXSP = regs.TXSP /\ regs2.then = n.then /\ regs2.res = n.res
    BY DEF NodeEntered
  <2>4. W.quick => regs2.TXSP <= Last(C).max
    <3>1. W.quick => regs.TXSP <= Last(C).max
      BY <1>1, <1>3, <1>9, <2>1, NotShort
    <3> QED BY <2>3, <3>1
  <2>5. CASE n.fn \in Own1
    <3>1. At(W, regs2, td2, C) /\ n.fn # "STARV"
      BY <1>3, <2>1, <2>2, <2>3 DEF At, ProcOf, Fns, Simple, Measuring
    <3>2. Entered(W, h2, regs2, C)
      BY <1>3, <1>5, <1>9, <2>3 DEF Entered, NodeEntered
    <3>3. InNode1(W, F, h2, nm, regs2, td2, C)
      BY <1>4, <1>6, <2>3, <3>1, <3>2 DEF InNode1
    <3>4. Phase(W, F, h2, nm, regs2, td2, C)
      BY <2>2, <2>5, <3>3 DEF Phase
    <3> QED BY <1>2, <3>4, LiveNext DEF h2
  <2>6. CASE n.fn = "SCOK"
    <3>1. NodeOf(W, C, o).fn \in Simple
      BY <1>3, <2>6 DEF Simple
    <3>2. Live(W, F, h2, s, cs, nm, regs2, "SCOK")
      BY <1>1, <1>2, <1>3, <1>4, <1>7, <2>3, <2>4, <3>1, NodeSucceeds
    <3> QED BY <2>2, <2>6, <3>2 DEF h2
  <2>7. CASE n.fn = "SALF"
    BY <1>2, <1>4, <1>7, <2>2, <2>7, LiveBacking DEF h2
  <2>8. CASE n.fn = "RTNUL3"
    <3>1. Phase(W, F, h2, nm, regs2, td2, C)
      BY <1>5, <2>2, <2>8 DEF Phase
    <3> QED BY <1>2, <3>1, LiveNext DEF h2
  <2>9. CASE n.fn = "SUCF"
    <3>1. Follows(W, C, n.then, regs2.TXSP)
      <4>1. n.fn \in Passing /\ Last(C).open = Leaves(n, W.open[Last(C).pat][o + 1])
        BY <2>9 DEF Passing, Fns, Simple, Leaves, Place
      <4> QED BY <1>1, <1>3, <2>1, <2>4, <4>1, FollowsAfter
    <3>2. InSUCF(W, F, h2, nm, regs2, C)
      BY <1>3, <1>4, <1>5, <1>6, <3>1 DEF InSUCF
    <3>3. Phase(W, F, h2, nm, regs2, td2, C)
      BY <2>2, <2>9, <3>2 DEF Phase
    <3> QED BY <1>2, <3>3, LiveNext DEF h2
  <2>10. CASE n.fn = "BRKX"
    <3>1. At(W, regs2, "BRKX", C)
      BY <1>3, <2>1, <2>3, <2>10 DEF At, ProcOf
    <3>2. InBRKX(W, F, h2, nm, regs2, C)
      BY <1>3, <1>4, <1>5, <1>6, <2>3, <3>1 DEF InBRKX
    <3>3. Phase(W, F, h2, nm, regs2, td2, C)
      BY <2>2, <2>10, <3>2 DEF Phase
    <3> QED BY <1>2, <3>3, LiveNext DEF h2
  <2>11. n.fn \in Own1 \cup {"SCOK", "SALF", "RTNUL3", "SUCF", "BRKX"}
    BY <2>1, <2>2 DEF Fns, Own1
  <2> QED BY <2>5, <2>6, <2>7, <2>8, <2>9, <2>10, <2>11
<1> QED BY <1>8, <1>9

(* The first node of an ARBNO(), and the nodes that only entries lead to: they run with *)
(* their own entry not yet among those that lead anywhere.                 *)
LEMMA LiveInNode2 ==
  ASSUME NEW W, Worlds(W), NEW F, NEW h, NEW s, NEW cs, NEW nm, NEW regs, NEW C,
         MatchAt(W, F, h, s, cs, nm, regs, "node", C), NEW e, NEW regs2, NEW n,
         NodeEntered(W, C, regs, e, regs2, n), NEW B, Held(W, F, h, nm, B),
         Joins(W, B, Last(h), regs.PATICL, regs.TXSP, C),
         n.fn \in Own2, ~ Short(W, C, regs.PATICL, regs.TXSP)
  PROVE  Live(W, F, Append(h, e), s, cs, nm, regs2, n.fn)
<1> DEFINE o == regs.PATICL
           h2 == Append(h, e)
<1>1. /\ Stands(W, F, C, s, cs) /\ Ours(W, F, regs) /\ Sound(W, C) /\ regs.PATBCL = Last(C).pat
      /\ regs.MAXLEN = Last(C).max /\ Last(C).pat \in DOMAIN W.nodes
  BY MatchIs
<1>2. Next_(W, F, C, cs, regs, C, s, regs2)
  BY <1>1 DEF Next_, NodeEntered
<1>3. /\ OwnEntry(e, n, regs.TXSP, Last(C).pat) /\ e \in EntrySet(W) /\ n = NodeOf(W, C, o)
      /\ regs2.PATICL = o /\ regs2.TXSP = regs.TXSP /\ regs2.then = n.then /\ regs2.res = n.res
  BY DEF NodeEntered
<1>4. AnySeq(h) /\ Len(h) >= Bot(F) /\ Len(h) \in Nat /\ Bot(F) \in Nat /\ Sound(W, B)
  BY HeldIs
<1>5. Last(h2) = e /\ Len(h2) = Len(h) + 1 /\ Front(h2) = h /\ AnySeq(h2)
  BY <1>4, AnyAppend
<1> HIDE DEF h2
<1>6. Len(h2) > Bot(F)
  BY <1>4, <1>5
<1>7. o \in 0 .. Len(W.nodes[Last(C).pat]) - 1
  BY <1>1, <1>4, JoinsPlace DEF Pat
<1>8. At(W, regs2, n.fn, C)
  BY <1>3, <1>7 DEF At, ProcOf, Own2
<1>9. Entered(W, h2, regs2, C)
  BY <1>3, <1>5 DEF Entered
<1>10. InNode2(W, F, h2, nm, regs2, n.fn, C)
  BY <1>3, <1>5, <1>6, <1>8, <1>9 DEF InNode2
<1>11. Phase(W, F, h2, nm, regs2, n.fn, C)
  BY <1>10 DEF Phase
<1> QED BY <1>2, <1>11, LiveNext DEF h2

(* Such a node without an alternative, that is not to run.                 *)
LEMMA LiveShort ==
  ASSUME NEW W, Worlds(W), NEW F, NEW h, NEW s, NEW cs, NEW nm, NEW regs, NEW C,
         MatchAt(W, F, h, s, cs, nm, regs, "node", C), NEW e, NEW regs2, NEW n,
         NodeEntered(W, C, regs, e, regs2, n), Held(W, F, h, nm, C), Last(h).fn # "started",
         n.or = 0
  PROVE  Live(W, F, Append(h, e), s, cs, nm, regs2, "SALT")
<1> DEFINE h2 == Append(h, e)
<1>1. /\ Stands(W, F, C, s, cs) /\ Ours(W, F, regs) /\ Sound(W, C) /\ regs.PATBCL = Last(C).pat
      /\ regs.MAXLEN = Last(C).max
  BY MatchIs
<1>2. Next_(W, F, C, cs, regs, C, s, regs2)
  BY <1>1 DEF Next_, NodeEntered
<1>3. e.fn = Link /\ e.or = 0 /\ e \in EntrySet(W)
  BY DEF NodeEntered, OwnEntry
<1>4. Step(W, C, Under(F, h, Len(h)), Last(h), e, C)
  BY <1>3 DEF Step, StepLink
<1>5. Held(W, F, h2, nm, C)
  BY <1>1, <1>3, <1>4, LinkIs, HeldPushed
<1>6. Last(h2).fn # "started"
  <2>1. AnySeq(h)
    BY HeldIs
  <2> QED BY <1>3, <2>1, AnyAppend, LinkIs
<1> HIDE DEF h2
<1> QED BY <1>2, <1>5, <1>6, LiveBacking DEF h2

(* ARBN: what is around a P of an ARBNO(P).                                *)
LEMMA ArbnNode ==
  ASSUME NEW W, Worlds(W), NEW C, Last(C).pat \in DOMAIN W.nodes,
         NEW o \in 0 .. Len(Pat(W, C)) - 1, NodeOf(W, C, o).fn = "ARBN"
  PROVE  /\ o + 1 \in 0 .. Len(Pat(W, C)) - 1 /\ NodeOf(W, C, o).or = o + 1 /\ o + 1 # 0
         /\ NodeOf(W, C, o + 1).fn = "ARBF" /\ NodeOf(W, C, o + 1).or = 0
         /\ NodeOf(W, C, o + 1).val = NodeOf(W, C, o).val
         /\ RoleOf(W, C, o + 1) = "ARBF" /\ RoleOf(W, C, o) = "plain"
         /\ W.open[Last(C).pat][o + 2] = Append(W.open[Last(C).pat][o + 1], "arbno")
<1> DEFINE p == Last(C).pat
           P == W.nodes[p]
<1>1. NodeGood(P, W.open[p], o)
  BY NodePlace
<1>2. ARBNGood(P, W.open[p], o)
  BY <1>1 DEF NodeGood, Around, NodeOf
<1>3. o + 2 <= Len(P) /\ Len(P) \in Nat /\ o \in Nat /\ (o + 1) + 1 = o + 2
  <2>1. Len(P) \in Nat
    BY WorldIs
  <2>2. o \in Nat
    BY <2>1 DEF Pat
  <2> QED BY <1>2, <2>1, <2>2 DEF ARBNGood
<1>4. /\ P[o + 1].or = o + 1 /\ P[o + 2].fn = "ARBF" /\ P[o + 2].or = 0 /\ P[o + 2].val = P[o + 1].val
      /\ W.open[p][o + 2] = Append(W.open[p][o + 1], "arbno")
  BY <1>2 DEF ARBNGood
<1>5. o + 1 \in 0 .. Len(P) - 1 /\ o + 1 # 0
  <2> DEFINE l == Len(P)
  <2> HIDE DEF l
  <2>1. o + 2 <= l /\ l \in Nat /\ o \in Nat
    BY <1>3 DEF l
  <2> QED BY ONLY <2>1 DEF l
<1>6. Role(P, o) = "plain" /\ Role(P, o + 1) = "ARBF"
  <2>1. P[o + 1].fn = "ARBN" /\ P[(o + 1) + 1].fn = "ARBF"
    BY <1>3, <1>4 DEF NodeOf
  <2> QED BY <2>1 DEF Role
<1> QED BY <1>3, <1>4, <1>5, <1>6 DEF NodeOf, RoleOf, Pat

LEMMA NodeArbn ==
  ASSUME NEW W, Worlds(W), NEW F, NEW h, NEW s, NEW cs, NEW nm, NEW regs, NEW C,
         MatchAt(W, F, h, s, cs, nm, regs, "node", C), NEW e, NEW regs2, NEW n,
         NodeEntered(W, C, regs, e, regs2, n), Held(W, F, h, nm, C), Last(h).fn # "started",
         Place(W, C, regs.PATICL), n.fn = "ARBN", Short(W, C, regs.PATICL, regs.TXSP)
  PROVE  Live(W, F, Append(h, e), s, cs, nm, regs2, "SALT")
<1> DEFINE o == regs.PATICL
           h2 == Append(h, e)
<1>1. /\ Stands(W, F, C, s, cs) /\ Ours(W, F, regs) /\ Sound(W, C) /\ regs.PATBCL = Last(C).pat
      /\ regs.MAXLEN = Last(C).max /\ Last(C).pat \in DOMAIN W.nodes
  BY MatchIs
<1>2. Next_(W, F, C, cs, regs, C, s, regs2)
  BY <1>1 DEF Next_, NodeEntered
<1>3. OwnEntry(e, n, regs.TXSP, Last(C).pat) /\ e \in EntrySet(W) /\ n = NodeOf(W, C, o)
  BY DEF NodeEntered
<1>4. AnySeq(h) /\ Len(h) >= Bot(F) /\ Len(h) \in Nat /\ Bot(F) \in Nat
  BY HeldIs
<1>5. AnySeq(h2) /\ Last(h2) = e /\ Len(h2) = Len(h) + 1 /\ Front(h2) = h
  BY <1>4, AnyAppend
<1> HIDE DEF h2
<1>6. Len(h2) > Bot(F)
  BY <1>4, <1>5
<1>7. o \in 0 .. Len(Pat(W, C)) - 1 /\ e.cur = regs.TXSP
  BY <1>3 DEF Place, Pat, OwnEntry
<1>8. Shortened(W, F, h2, nm, C)
  BY <1>3, <1>5, <1>6, <1>7 DEF Shortened
<1>9. Phase(W, F, h2, nm, regs2, "SALT", C)
  BY <1>8 DEF Phase
<1> QED BY <1>2, <1>9, LiveNext DEF h2

(* ARBF, ONAR, ONRF and DSAR: what is around them.                         *)
LEMMA ArbfNode ==
  ASSUME NEW W, Worlds(W), NEW C, Last(C).pat \in DOMAIN W.nodes,
         NEW o \in 0 .. Len(Pat(W, C)) - 1, RoleOf(W, C, o) = "ARBF"
  PROVE  NodeOf(W, C, o).fn = "ARBF" /\ NodeOf(W, C, o).or = 0
<1> DEFINE p == Last(C).pat
           P == W.nodes[p]
<1>1. P[o + 1].fn = "ARBF"
  BY DEF RoleOf, Role
<1>2. NodeGood(P, W.open[p], o)
  BY NodePlace
<1>3. o >= 1 /\ P[o].fn = "ARBN"
  BY <1>1, <1>2 DEF NodeGood, Around
<1>4. o - 1 \in 0 .. Len(P) - 1 /\ (o - 1) + 1 = o /\ (o - 1) + 2 = o + 1
  <2>1. Len(P) \in Nat
    BY WorldIs
  <2> DEFINE l == Len(P)
  <2> HIDE DEF l
  <2>2. l \in Nat /\ o \in 0 .. l - 1 /\ o >= 1
    BY <1>3, <2>1 DEF l, Pat
  <2>3. o - 1 \in 0 .. l - 1 /\ (o - 1) + 1 = o /\ (o - 1) + 2 = o + 1
    BY ONLY <2>2
  <2> QED BY <2>3 DEF l
<1>5. NodeOf(W, C, o - 1).fn = "ARBN" /\ o - 1 \in 0 .. Len(Pat(W, C)) - 1
  BY <1>3, <1>4 DEF NodeOf, Pat
<1>6. NodeOf(W, C, (o - 1) + 1).or = 0
  BY <1>5, ArbnNode
<1>7. (o - 1) + 1 = o
  BY <1>4
<1> QED BY <1>1, <1>6, <1>7 DEF NodeOf

LEMMA Offsets ==
  ASSUME NEW l \in Nat, NEW q \in 0 .. l - 1, NEW k \in 1 .. 4, q + k <= l
  PROVE  /\ q \in Nat /\ (q + 1) + 1 = q + 2 /\ (q + 2) + 1 = q + 3 /\ (q + 3) + 1 = q + 4
         /\ k >= 2 => q + 1 \in 0 .. l - 1
         /\ k >= 3 => q + 2 \in 0 .. l - 1
         /\ k >= 4 => q + 3 \in 0 .. l - 1
         /\ q + 1 # 0 /\ q + 2 # 0 /\ q + 3 # 0
OBVIOUS

LEMMA OffsetsBack ==
  ASSUME NEW l \in Nat, NEW o \in 0 .. l - 1
  PROVE  /\ o >= 1 => o - 1 \in 0 .. l - 1 /\ (o - 1) + 1 = o /\ (o - 1) + 2 = o + 1
         /\ o >= 2 => o - 2 \in 0 .. l - 1 /\ (o - 2) + 1 = o - 1 /\ (o - 2) + 2 = o /\ (o - 2) + 3 = o + 1
         /\ o >= 3 => o - 3 \in 0 .. l - 1 /\ (o - 3) + 1 = o - 2 /\ (o - 3) + 3 = o /\ (o - 3) + 4 = o + 1
OBVIOUS

(* EARB at q, and the three nodes after it.                                *)
Earb(W, C, q) ==
    /\ {q + 1, q + 2, q + 3} \subseteq 0 .. Len(Pat(W, C)) - 1 /\ q + 1 # 0 /\ q + 2 # 0 /\ q + 3 # 0
    /\ NodeOf(W, C, q).then = q + 1
    /\ NodeOf(W, C, q + 1).fn = "SCOK" /\ NodeOf(W, C, q + 1).or = q + 2
    /\ NodeOf(W, C, q + 2).fn = "ONAR" /\ NodeOf(W, C, q + 2).or = q + 3
    /\ NodeOf(W, C, q + 3).fn = "ONRF" /\ NodeOf(W, C, q + 3).or = 0
    /\ \A k \in 1 .. 3 :
         /\ NodeOf(W, C, q + k).val = NodeOf(W, C, q).val /\ RoleOf(W, C, q + k) = "ONAR"
         /\ W.open[Last(C).pat][(q + k) + 1] = Front(W.open[Last(C).pat][q + 1])

LEMMA EarbNode ==
  ASSUME NEW W, Worlds(W), NEW C, Last(C).pat \in DOMAIN W.nodes,
         NEW q \in 0 .. Len(Pat(W, C)) - 1, NodeOf(W, C, q).fn = "EARB"
  PROVE  Earb(W, C, q)
<1> DEFINE p == Last(C).pat
           P == W.nodes[p]
           c == W.open[p]
<1>1. NodeGood(P, c, q)
  BY NodePlace
<1>2. EARBGood(P, c, q)
  BY <1>1 DEF NodeGood, Around, NodeOf
<1>3. Len(P) \in Nat /\ q \in 0 .. Len(P) - 1
  BY WorldIs DEF Pat
<1>4. /\ (q + 1) + 1 = q + 2 /\ (q + 2) + 1 = q + 3 /\ (q + 3) + 1 = q + 4
      /\ q + 1 \in 0 .. Len(P) - 1 /\ q + 2 \in 0 .. Len(P) - 1 /\ q + 3 \in 0 .. Len(P) - 1
      /\ q + 1 # 0 /\ q + 2 # 0 /\ q + 3 # 0
  <2> DEFINE l == Len(P)
  <2>1. l \in Nat /\ q \in 0 .. l - 1 /\ q + 4 <= l /\ 4 \in 1 .. 4
    BY <1>2, <1>3 DEF EARBGood
  <2> HIDE DEF l
  <2>2. /\ (q + 1) + 1 = q + 2 /\ (q + 2) + 1 = q + 3 /\ (q + 3) + 1 = q + 4
        /\ q + 1 \in 0 .. l - 1 /\ q + 2 \in 0 .. l - 1 /\ q + 3 \in 0 .. l - 1
        /\ q + 1 # 0 /\ q + 2 # 0 /\ q + 3 # 0
    BY ONLY <2>1, Offsets
  <2> QED BY <2>2 DEF l
<1>5. /\ P[q + 1].then = q + 1
      /\ P[q + 2].fn = "SCOK" /\ P[q + 2].or = q + 2
      /\ P[q + 3].fn = "ONAR" /\ P[q + 3].or = q + 3
      /\ P[q + 4].fn = "ONRF" /\ P[q + 4].or = 0
  BY <1>2 DEF EARBGood
<1>6. /\ P[q + 2].val = P[q + 1].val /\ c[q + 2] = Front(c[q + 1])
      /\ P[q + 3].val = P[q + 1].val /\ c[q + 3] = Front(c[q + 1])
      /\ P[q + 4].val = P[q + 1].val /\ c[q + 4] = Front(c[q + 1])
  BY <1>2 DEF EARBGood
<1>7. Role(P, q + 1) = "ONAR" /\ Role(P, q + 2) = "ONAR" /\ Role(P, q + 3) = "ONAR"
  <2>1. P[(q + 2) + 1].fn = "ONAR" /\ P[(q + 3) + 1].fn = "ONRF" /\ P[(q + 1) + 1].fn = "SCOK"
    BY <1>4, <1>5
  <2>2. P[(q + 1) + 1].or = q + 2 /\ q + 2 # 0
    BY <1>4, <1>5
  <2> QED BY <2>1, <2>2 DEF Role
<1>8. ASSUME NEW k \in 1 .. 3
      PROVE  P[(q + k) + 1].val = P[q + 1].val /\ Role(P, q + k) = "ONAR" /\ c[(q + k) + 1] = Front(c[q + 1])
  <2>1. k = 1 \/ k = 2 \/ k = 3
    BY <1>8
  <2> HIDE DEF P, c, p
  <2>2. CASE k = 1
    BY <1>4, <1>6, <1>7, <2>2
  <2>3. CASE k = 2
    BY <1>4, <1>6, <1>7, <2>3
  <2>4. CASE k = 3
    BY <1>4, <1>6, <1>7, <2>4
  <2> QED BY <2>1, <2>2, <2>3, <2>4
<1>9. {q + 1, q + 2, q + 3} \subseteq 0 .. Len(P) - 1
  <2> HIDE DEF P
  <2> QED BY <1>4
<1>10. /\ P[(q + 1) + 1].fn = "SCOK" /\ P[(q + 1) + 1].or = q + 2
       /\ P[(q + 2) + 1].fn = "ONAR" /\ P[(q + 2) + 1].or = q + 3
       /\ P[(q + 3) + 1].fn = "ONRF" /\ P[(q + 3) + 1].or = 0
  BY <1>4, <1>5
<1> QED BY <1>4, <1>5, <1>8, <1>9, <1>10 DEF Earb, NodeOf, RoleOf, Pat

(* Where a node that only an entry of EARB leads to is.                    *)
LEMMA OnarNode ==
  ASSUME NEW W, Worlds(W), NEW C, Last(C).pat \in DOMAIN W.nodes,
         NEW o \in 0 .. Len(Pat(W, C)) - 1, RoleOf(W, C, o) = "ONAR"
  PROVE  \E q \in 0 .. Len(Pat(W, C)) - 1 :
           /\ Earb(W, C, q)
           /\ \/ o = q + 1 /\ NodeOf(W, C, o).fn = "SCOK"
              \/ o = q + 2 /\ NodeOf(W, C, o).fn = "ONAR"
              \/ o = q + 3 /\ NodeOf(W, C, o).fn = "ONRF"
<1> DEFINE p == Last(C).pat
           P == W.nodes[p]
           l == Len(P)
<1>1. NodeGood(P, W.open[p], o)
  BY NodePlace
<1>2. P[o + 1].fn \in {"SCOK", "ONAR", "ONRF"} /\ Role(P, o) = "ONAR"
  BY DEF RoleOf, Role
<1>3. /\ P[o + 1].fn = "ONAR" => o >= 2 /\ P[o - 1].fn = "EARB"
      /\ P[o + 1].fn = "ONRF" => o >= 3 /\ P[o - 2].fn = "EARB"
      /\ P[o + 1].fn = "SCOK" => o >= 1 /\ P[o].fn = "EARB"
  BY <1>1, <1>2 DEF NodeGood, Around
<1>4. l \in Nat /\ o \in 0 .. l - 1
  BY WorldIs DEF Pat
<1>5. /\ o >= 1 => o - 1 \in 0 .. l - 1 /\ (o - 1) + 1 = o
      /\ o >= 2 => o - 2 \in 0 .. l - 1 /\ (o - 2) + 1 = o - 1 /\ (o - 2) + 2 = o
      /\ o >= 3 => o - 3 \in 0 .. l - 1 /\ (o - 3) + 1 = o - 2 /\ (o - 3) + 3 = o
  <2> HIDE DEF l
  <2> QED BY ONLY <1>4, OffsetsBack
<1>6. CASE P[o + 1].fn = "SCOK"
  <2>1. o - 1 \in 0 .. Len(Pat(W, C)) - 1 /\ NodeOf(W, C, o - 1).fn = "EARB" /\ o = (o - 1) + 1
    <3> HIDE DEF P, l
    <3>1. o - 1 \in 0 .. l - 1 /\ P[(o - 1) + 1].fn = "EARB" /\ o = (o - 1) + 1
      BY <1>3, <1>5, <1>6
    <3> QED BY <3>1 DEF NodeOf, Pat, P, l
  <2>2. Earb(W, C, o - 1)
    BY <2>1, EarbNode
  <2> QED BY <1>6, <2>1, <2>2 DEF NodeOf
<1>7. CASE P[o + 1].fn = "ONAR"
  <2>1. o - 2 \in 0 .. Len(Pat(W, C)) - 1 /\ NodeOf(W, C, o - 2).fn = "EARB" /\ o = (o - 2) + 2
    <3> HIDE DEF P, l
    <3>1. o - 2 \in 0 .. l - 1 /\ P[(o - 2) + 1].fn = "EARB" /\ o = (o - 2) + 2
      BY <1>3, <1>5, <1>7
    <3> QED BY <3>1 DEF NodeOf, Pat, P, l
  <2>2. Earb(W, C, o - 2)
    BY <2>1, EarbNode
  <2> QED BY <1>7, <2>1, <2>2 DEF NodeOf
<1>8. CASE P[o + 1].fn = "ONRF"
  <2>1. o - 3 \in 0 .. Len(Pat(W, C)) - 1 /\ NodeOf(W, C, o - 3).fn = "EARB" /\ o = (o - 3) + 3
    <3> HIDE DEF P, l
    <3>1. o - 3 \in 0 .. l - 1 /\ P[(o - 3) + 1].fn = "EARB" /\ o = (o - 3) + 3
      BY <1>3, <1>5, <1>8
    <3> QED BY <3>1 DEF NodeOf, Pat, P, l
  <2>2. Earb(W, C, o - 3)
    BY <2>1, EarbNode
  <2> QED BY <1>8, <2>1, <2>2 DEF NodeOf
<1> QED BY <1>2, <1>6, <1>7, <1>8

(* STAR at q, and the two nodes after it.                                  *)
StarAt(W, C, q) ==
    /\ {q + 1, q + 2} \subseteq 0 .. Len(Pat(W, C)) - 1 /\ q + 1 # 0 /\ q + 2 # 0
    /\ NodeOf(W, C, q).then = q + 1 /\ NodeOf(W, C, q).arg \in Names
    /\ NodeOf(W, C, q + 1).fn = "SCOK" /\ NodeOf(W, C, q + 1).or = q + 2
    /\ NodeOf(W, C, q + 2).fn = "DSAR" /\ NodeOf(W, C, q + 2).or = 0 /\ NodeOf(W, C, q + 2).then = q + 1
    /\ NodeOf(W, C, q + 2).arg = NodeOf(W, C, q).arg
    /\ NodeOf(W, C, q + 1).val = NodeOf(W, C, q).res
    /\ NodeOf(W, C, q + 2).val = NodeOf(W, C, q).res /\ NodeOf(W, C, q + 2).res = NodeOf(W, C, q).res
    /\ \A k \in 1 .. 2 :
         /\ RoleOf(W, C, q + k) = "DSAR" /\ Star(W, C, q + k) = NodeOf(W, C, q).arg
         /\ W.open[Last(C).pat][(q + k) + 1] = W.open[Last(C).pat][q + 1]

LEMMA StarNode ==
  ASSUME NEW W, Worlds(W), NEW C, Last(C).pat \in DOMAIN W.nodes,
         NEW q \in 0 .. Len(Pat(W, C)) - 1, NodeOf(W, C, q).fn = "STAR"
  PROVE  StarAt(W, C, q)
<1> DEFINE p == Last(C).pat
           P == W.nodes[p]
           c == W.open[p]
<1>1. NodeGood(P, c, q)
  BY NodePlace
<1>2. STARGood(P, c, q)
  BY <1>1 DEF NodeGood, Around, NodeOf
<1>3. Len(P) \in Nat /\ q \in 0 .. Len(P) - 1
  BY WorldIs DEF Pat
<1>4. /\ (q + 1) + 1 = q + 2 /\ (q + 2) + 1 = q + 3
      /\ q + 1 \in 0 .. Len(P) - 1 /\ q + 2 \in 0 .. Len(P) - 1 /\ q + 1 # 0 /\ q + 2 # 0
  <2> DEFINE l == Len(P)
  <2>1. l \in Nat /\ q \in 0 .. l - 1 /\ q + 3 <= l /\ 3 \in 1 .. 4
    BY <1>2, <1>3 DEF STARGood
  <2> HIDE DEF l
  <2>2. /\ (q + 1) + 1 = q + 2 /\ (q + 2) + 1 = q + 3
        /\ q + 1 \in 0 .. l - 1 /\ q + 2 \in 0 .. l - 1 /\ q + 1 # 0 /\ q + 2 # 0
    BY ONLY <2>1, Offsets
  <2> QED BY <2>2 DEF l
<1>5. /\ P[q + 1].then = q + 1 /\ P[q + 1].arg \in Names
      /\ P[q + 2].fn = "SCOK" /\ P[q + 2].or = q + 2 /\ P[q + 2].val = P[q + 1].res
      /\ P[q + 3].fn = "DSAR" /\ P[q + 3].or = 0 /\ P[q + 3].then = q + 1
      /\ P[q + 3].val = P[q + 1].res /\ P[q + 3].res = P[q + 1].res /\ P[q + 3].arg = P[q + 1].arg
      /\ c[q + 2] = c[q + 1] /\ c[q + 3] = c[q + 1]
  BY <1>2 DEF STARGood
<1>6. /\ P[(q + 1) + 1].fn = "SCOK" /\ P[(q + 1) + 1].or = q + 2 /\ P[(q + 1) + 1].val = P[q + 1].res
      /\ P[(q + 2) + 1].fn = "DSAR" /\ P[(q + 2) + 1].or = 0 /\ P[(q + 2) + 1].then = q + 1
      /\ P[(q + 2) + 1].val = P[q + 1].res /\ P[(q + 2) + 1].res = P[q + 1].res
      /\ P[(q + 2) + 1].arg = P[q + 1].arg
      /\ c[(q + 1) + 1] = c[q + 1] /\ c[(q + 2) + 1] = c[q + 1]
  BY <1>4, <1>5
<1>7. Role(P, q + 1) = "DSAR" /\ Role(P, q + 2) = "DSAR"
  <2>1. q + 2 # 0
    BY <1>4
  <2> QED BY <1>6, <2>1 DEF Role
<1>8. Star(W, C, q + 1) = P[q + 1].arg /\ Star(W, C, q + 2) = P[q + 1].arg
  BY <1>6 DEF Star, NodeOf
<1>9. ASSUME NEW k \in 1 .. 2
      PROVE  /\ Role(P, q + k) = "DSAR" /\ Star(W, C, q + k) = P[q + 1].arg
             /\ c[(q + k) + 1] = c[q + 1]
  <2>1. k = 1 \/ k = 2
    BY <1>9
  <2> HIDE DEF P, c, p
  <2>2. CASE k = 1
    BY <1>6, <1>7, <1>8, <2>2
  <2>3. CASE k = 2
    BY <1>6, <1>7, <1>8, <2>3
  <2> QED BY <2>1, <2>2, <2>3
<1>10. {q + 1, q + 2} \subseteq 0 .. Len(P) - 1
  <2> HIDE DEF P
  <2> QED BY <1>4
<1> QED BY <1>4, <1>5, <1>6, <1>9, <1>10 DEF StarAt, NodeOf, RoleOf, Pat

LEMMA DsarNode ==
  ASSUME NEW W, Worlds(W), NEW C, Last(C).pat \in DOMAIN W.nodes,
         NEW o \in 0 .. Len(Pat(W, C)) - 1, RoleOf(W, C, o) = "DSAR"
  PROVE  \E q \in 0 .. Len(Pat(W, C)) - 1 :
           /\ StarAt(W, C, q) /\ NodeOf(W, C, q).fn = "STAR"
           /\ \/ o = q + 1 /\ NodeOf(W, C, o).fn = "SCOK"
              \/ o = q + 2 /\ NodeOf(W, C, o).fn = "DSAR"
<1> DEFINE p == Last(C).pat
           P == W.nodes[p]
           l == Len(P)
<1>1. NodeGood(P, W.open[p], o)
  BY NodePlace
<1>2. P[o + 1].fn \in {"SCOK", "DSAR"} /\ Role(P, o) = "DSAR"
  BY DEF RoleOf, Role
<1>3. /\ P[o + 1].fn = "DSAR" => o >= 2 /\ P[o - 1].fn = "STAR"
      /\ P[o + 1].fn = "SCOK" => o >= 1 /\ P[o].fn = "STAR"
  BY <1>1, <1>2 DEF NodeGood, Around
<1>4. l \in Nat /\ o \in 0 .. l - 1
  BY WorldIs DEF Pat
<1>5. /\ o >= 1 => o - 1 \in 0 .. l - 1 /\ (o - 1) + 1 = o
      /\ o >= 2 => o - 2 \in 0 .. l - 1 /\ (o - 2) + 1 = o - 1 /\ (o - 2) + 2 = o
  <2> HIDE DEF l
  <2> QED BY ONLY <1>4, OffsetsBack
<1>6. CASE P[o + 1].fn = "SCOK"
  <2>1. o - 1 \in 0 .. Len(Pat(W, C)) - 1 /\ NodeOf(W, C, o - 1).fn = "STAR" /\ o = (o - 1) + 1
    <3> HIDE DEF P, l
    <3>1. o - 1 \in 0 .. l - 1 /\ P[(o - 1) + 1].fn = "STAR" /\ o = (o - 1) + 1
      BY <1>3, <1>5, <1>6
    <3> QED BY <3>1 DEF NodeOf, Pat, P, l
  <2>2. StarAt(W, C, o - 1)
    BY <2>1, StarNode
  <2> QED BY <1>6, <2>1, <2>2 DEF NodeOf
<1>7. CASE P[o + 1].fn = "DSAR"
  <2>1. o - 2 \in 0 .. Len(Pat(W, C)) - 1 /\ NodeOf(W, C, o - 2).fn = "STAR" /\ o = (o - 2) + 2
    <3> HIDE DEF P, l
    <3>1. o - 2 \in 0 .. l - 1 /\ P[(o - 2) + 1].fn = "STAR" /\ o = (o - 2) + 2
      BY <1>3, <1>5, <1>7
    <3> QED BY <3>1 DEF NodeOf, Pat, P, l
  <2>2. StarAt(W, C, o - 2)
    BY <2>1, StarNode
  <2> QED BY <1>7, <2>1, <2>2 DEF NodeOf
<1> QED BY <1>2, <1>6, <1>7

LEMMA ShortSame ==
  ASSUME NEW W, NEW C, NEW a, NEW b, NodeOf(W, C, a).val = NodeOf(W, C, b).val, NEW cur
  PROVE  Short(W, C, a, cur) <=> Short(W, C, b, cur)
BY DEF Short

(* Behind the entry of EARB at k, 1 to 3, comes that of the next of its nodes. *)
LEMMA OnarStep ==
  ASSUME NEW W, NEW C, NEW q, Earb(W, C, q), NEW j \in 1 .. 3, NEW k \in 1 .. 3, NEW top, NEW cur,
         JoinsONAR(W, C, top, q + j, cur, C)
  PROVE  Joins(W, C, top, q + k, cur, C) /\ RoleOf(W, C, q + k) = "ONAR"
<1>1. /\ NodeOf(W, C, q + j).val = NodeOf(W, C, q + k).val /\ RoleOf(W, C, q + k) = "ONAR"
      /\ W.open[Last(C).pat][(q + j) + 1] = W.open[Last(C).pat][(q + k) + 1]
  BY DEF Earb
<1>2. q + k \in 0 .. Len(W.nodes[Last(C).pat]) - 1
  <2> DEFINE T == 0 .. Len(W.nodes[Last(C).pat]) - 1
  <2>1. q + 1 \in T /\ q + 2 \in T /\ q + 3 \in T
    BY DEF Earb, Pat
  <2> HIDE DEF T
  <2>2. k = 1 \/ k = 2 \/ k = 3
    OBVIOUS
  <2> QED BY <2>1, <2>2 DEF T
<1>3. Place(W, C, q + k)
  BY <1>1, <1>2 DEF JoinsONAR, Place
<1>4. ~ Short(W, C, q + k, cur)
  BY <1>1, ShortSame DEF JoinsONAR
<1>5. JoinsONAR(W, C, top, q + k, cur, C)
  BY <1>3, <1>4 DEF JoinsONAR
<1> QED BY <1>1, <1>5 DEF Joins

LEMMA NodeOnar ==
  ASSUME NEW W, Worlds(W), NEW F, NEW h, NEW s, NEW cs, NEW nm, NEW regs, NEW C,
         MatchAt(W, F, h, s, cs, nm, regs, "node", C), NEW e, NEW regs2, NEW n,
         NodeEntered(W, C, regs, e, regs2, n), Held(W, F, h, nm, C),
         RoleOf(W, C, regs.PATICL) = "ONAR", JoinsONAR(W, C, Last(h), regs.PATICL, regs.TXSP, C)
  PROVE  Live(W, F, Append(h, e), s, cs, nm, regs2, n.fn)
<1> DEFINE o == regs.PATICL
           h2 == Append(h, e)
<1>1. /\ Stands(W, F, C, s, cs) /\ Ours(W, F, regs) /\ Sound(W, C) /\ regs.PATBCL = Last(C).pat
      /\ regs.MAXLEN = Last(C).max /\ Last(C).pat \in DOMAIN W.nodes /\ Last(C).max \in Int /\ regs.TXSP \in Int
  BY MatchIs
<1>2. Next_(W, F, C, cs, regs, C, s, regs2)
  BY <1>1 DEF Next_, NodeEntered
<1>3. /\ e.fn = Link /\ e.or = n.or /\ e.cur = regs.TXSP /\ e.owner = Last(C).pat /\ e \in EntrySet(W)
      /\ n = NodeOf(W, C, o) /\ regs2.TXSP = regs.TXSP /\ regs2.then = n.then
  BY DEF NodeEntered, OwnEntry
<1>4. o \in 0 .. Len(Pat(W, C)) - 1 /\ Place(W, C, o) /\ ~ Short(W, C, o, regs.TXSP)
  BY DEF JoinsONAR, Place, Pat
<1>5. PICK q \in 0 .. Len(Pat(W, C)) - 1 :
        /\ Earb(W, C, q)
        /\ \/ o = q + 1 /\ NodeOf(W, C, o).fn = "SCOK"
           \/ o = q + 2 /\ NodeOf(W, C, o).fn = "ONAR"
           \/ o = q + 3 /\ NodeOf(W, C, o).fn = "ONRF"
  BY <1>1, <1>4, OnarNode
<1>6. CASE n.fn \in Own2
  <2>1. Joins(W, C, Last(h), o, regs.TXSP, C)
    BY DEF Joins
  <2> QED BY <1>4, <1>6, <2>1, LiveInNode2
<1>7. CASE o = q + 1 /\ n.fn = "SCOK"
  <2>1. Joins(W, C, Last(h), q + 2, regs.TXSP, C) /\ RoleOf(W, C, q + 2) = "ONAR"
    <3>1. JoinsONAR(W, C, Last(h), q + 1, regs.TXSP, C)
      BY <1>7
    <3> QED BY <1>5, <3>1, OnarStep
  <2>2. n.or = q + 2 /\ q + 2 # 0
    BY <1>3, <1>5, <1>7 DEF Earb
  <2>3. Step(W, C, Under(F, h, Len(h)), Last(h), e, C)
    BY <1>3, <2>1, <2>2 DEF Step, StepLink
  <2>4. Held(W, F, h2, nm, C)
    BY <1>1, <1>3, <2>3, LinkIs, HeldPushed
  <2>5. Last(h2).fn # "started"
    <3>1. AnySeq(h)
      BY HeldIs
    <3> QED BY <1>3, <3>1, AnyAppend, LinkIs
  <2>6. W.quick => regs2.TXSP <= Last(C).max
    <3>1. n.val \in Nat
      BY <1>1, <1>3, <1>4, NodePlace
    <3>2. W.quick => regs.TXSP <= Last(C).max
      BY <1>1, <1>3, <1>4, <3>1, NotShort
    <3> QED BY <1>3, <3>2
  <2>7. NodeOf(W, C, o).fn \in Simple
    BY <1>3, <1>7 DEF Simple
  <2> HIDE DEF h2
  <2>8. Live(W, F, h2, s, cs, nm, regs2, "SCOK")
    BY <1>1, <1>2, <1>3, <1>4, <2>4, <2>5, <2>6, <2>7, NodeSucceeds
  <2> QED BY <1>7, <2>8 DEF h2
<1> QED BY <1>3, <1>5, <1>6, <1>7 DEF Own2

LEMMA NodeDsar ==
  ASSUME NEW W, Worlds(W), NEW F, NEW h, NEW s, NEW cs, NEW nm, NEW regs, NEW C,
         MatchAt(W, F, h, s, cs, nm, regs, "node", C), NEW e, NEW regs2, NEW n,
         NodeEntered(W, C, regs, e, regs2, n), NEW B, Held(W, F, h, nm, B),
         RoleOf(W, C, regs.PATICL) = "DSAR", JoinsDSAR(W, B, Last(h), regs.PATICL, regs.TXSP, C),
         NEW td2, td2 = IF Short(W, C, regs.PATICL, regs.TXSP) THEN "SALT" ELSE n.fn
  PROVE  Live(W, F, Append(h, e), s, cs, nm, regs2, td2)
<1> DEFINE o == regs.PATICL
           h2 == Append(h, e)
<1>1. /\ Stands(W, F, C, s, cs) /\ Ours(W, F, regs) /\ Sound(W, C) /\ regs.PATBCL = Last(C).pat
      /\ regs.MAXLEN = Last(C).max /\ Last(C).pat \in DOMAIN W.nodes /\ Last(C).max \in Int /\ regs.TXSP \in Int
  BY MatchIs
<1>2. Next_(W, F, C, cs, regs, C, s, regs2)
  BY <1>1 DEF Next_, NodeEntered
<1>3. /\ e.fn = Link /\ e.or = n.or /\ e.cur = regs.TXSP /\ e.owner = Last(C).pat /\ e \in EntrySet(W)
      /\ n = NodeOf(W, C, o) /\ regs2.TXSP = regs.TXSP /\ regs2.then = n.then
  BY DEF NodeEntered, OwnEntry
<1>4. o \in 0 .. Len(Pat(W, C)) - 1 /\ Place(W, C, o) /\ Last(h).fn # "started"
  BY DEF JoinsDSAR, Place, Pat
<1>5. PICK q \in 0 .. Len(Pat(W, C)) - 1 :
        /\ StarAt(W, C, q)
        /\ \/ o = q + 1 /\ NodeOf(W, C, o).fn = "SCOK"
           \/ o = q + 2 /\ NodeOf(W, C, o).fn = "DSAR"
  BY <1>1, <1>4, DsarNode
<1>6. CASE n.fn = "DSAR" /\ ~ Short(W, C, o, regs.TXSP)
  <2>1. Joins(W, B, Last(h), o, regs.TXSP, C)
    BY DEF Joins
  <2>2. n.fn \in Own2 /\ td2 = n.fn
    BY <1>6 DEF Own2
  <2> QED BY <1>6, <2>1, <2>2, LiveInNode2
<1>7. CASE n.fn = "DSAR" /\ Short(W, C, o, regs.TXSP)
  <2>1. C = B
    BY <1>7 DEF JoinsDSAR
  <2>2. n.or = 0
    BY <1>3, <1>5, <1>7 DEF StarAt
  <2> QED BY <1>4, <1>7, <2>1, <2>2, LiveShort
<1>8. CASE o = q + 1 /\ n.fn = "SCOK"
  <2>1. /\ n.or = q + 2 /\ q + 2 # 0 /\ RoleOf(W, C, q + 2) = "DSAR"
        /\ q + 2 \in 0 .. Len(W.nodes[Last(C).pat]) - 1
        /\ NodeOf(W, C, q + 2).val = NodeOf(W, C, o).val
        /\ Star(W, C, q + 2) = Star(W, C, o)
        /\ W.open[Last(C).pat][(q + 2) + 1] = W.open[Last(C).pat][o + 1]
    BY <1>3, <1>5, <1>8 DEF StarAt, Pat
  <2>2. Place(W, C, q + 2)
    BY <1>4, <2>1 DEF Place
  <2>3. JoinsDSAR(W, B, Last(h), q + 2, regs.TXSP, C)
    <3>1. Short(W, C, q + 2, regs.TXSP) <=> Short(W, C, o, regs.TXSP)
      BY <2>1, ShortSame
    <3>2. Needed(W, NodeOf(W, C, q + 2)) = Needed(W, NodeOf(W, C, o))
      BY <2>1 DEF Needed
    <3> QED BY <2>1, <2>2, <3>1, <3>2 DEF JoinsDSAR
  <2>4. Step(W, B, Under(F, h, Len(h)), Last(h), e, C)
    BY <1>3, <2>1, <2>3 DEF Step, StepLink, Joins
  <2>5. Held(W, F, h2, nm, C)
    BY <1>1, <1>3, <2>4, LinkIs, HeldPushed
  <2>6. Last(h2).fn # "started"
    <3>1. AnySeq(h)
      BY HeldIs
    <3> QED BY <1>3, <3>1, AnyAppend, LinkIs
  <2> HIDE DEF h2
  <2>7. CASE Short(W, C, o, regs.TXSP)
    BY <1>2, <2>5, <2>6, <2>7, LiveBacking DEF h2
  <2>8. CASE ~ Short(W, C, o, regs.TXSP)
    <3>1. W.quick => regs2.TXSP <= Last(C).max
      <4>1. n.val \in Nat
        BY <1>1, <1>3, <1>4, NodePlace
      <4>2. W.quick => regs.TXSP <= Last(C).max
        BY <1>1, <1>3, <2>8, <4>1, NotShort
      <4> QED BY <1>3, <4>2
    <3>2. NodeOf(W, C, o).fn \in Simple
      BY <1>3, <1>8 DEF Simple
    <3>3. Live(W, F, h2, s, cs, nm, regs2, "SCOK")
      BY <1>1, <1>2, <1>3, <1>4, <2>5, <2>6, <3>1, <3>2, NodeSucceeds
    <3> QED BY <1>8, <2>8, <3>3 DEF h2
  <2> QED BY <2>7, <2>8
<1> QED BY <1>3, <1>5, <1>6, <1>7, <1>8

(* SCIN3, whatever the node.                                               *)
LEMMA NodeLive ==
  ASSUME NEW W, Worlds(W), NEW F, NEW h, NEW s, NEW cs, NEW nm, NEW regs, NEW C,
         MatchAt(W, F, h, s, cs, nm, regs, "node", C), NEW e, NEW regs2, NEW n,
         NodeEntered(W, C, regs, e, regs2, n),
         NEW td2, td2 = IF Short(W, C, regs.PATICL, regs.TXSP) THEN "SALT" ELSE n.fn
  PROVE  Live(W, F, Append(h, e), s, cs, nm, regs2, td2)
<1> DEFINE o == regs.PATICL
<1>1. Joining(W, F, h, nm, regs, C)
  <2>1. Phase(W, F, h, nm, regs, "node", C)
    BY MatchIs
  <2> QED BY <2>1, Phases
<1>2. PICK B : Held(W, F, h, nm, B) /\ Joins(W, B, Last(h), o, regs.TXSP, C)
  BY <1>1 DEF Joining
<1>3. Sound(W, C) /\ Sound(W, B) /\ Last(C).pat \in DOMAIN W.nodes
  BY <1>2, MatchIs, HeldIs
<1>4. n = NodeOf(W, C, o) /\ o \in 0 .. Len(Pat(W, C)) - 1
  <2>1. n = NodeOf(W, C, o)
    BY DEF NodeEntered
  <2> QED BY <1>2, <1>3, <2>1, JoinsPlace
<1>5. CASE RoleOf(W, C, o) = "plain"
  <2>1. Place(W, C, o) /\ C = B /\ Last(h).fn # "started"
    BY <1>2, <1>5 DEF Joins
  <2>2. CASE n.fn # "ARBN"
    BY <1>2, <1>5, <2>1, <2>2, NodePlain
  <2>3. CASE n.fn = "ARBN" /\ Short(W, C, o, regs.TXSP)
    BY <1>2, <2>1, <2>3, NodeArbn
  <2>4. CASE n.fn = "ARBN" /\ ~ Short(W, C, o, regs.TXSP)
    <3>1. n.fn \in Own2 /\ td2 = n.fn
      BY <2>4 DEF Own2
    <3> QED BY <1>2, <2>4, <3>1, LiveInNode2
  <2> QED BY <2>2, <2>3, <2>4
<1>6. CASE RoleOf(W, C, o) = "ARBF"
  <2>1. JoinsARBF(W, B, Last(h), o, regs.TXSP, C)
    BY <1>2, <1>6 DEF Joins
  <2>2. n.fn = "ARBF" /\ n.or = 0
    BY <1>3, <1>4, <1>6, ArbfNode
  <2>3. CASE Short(W, C, o, regs.TXSP)
    <3>1. C = B /\ Last(h).fn # "started"
      BY <2>1, <2>3 DEF JoinsARBF
    <3> QED BY <1>2, <2>2, <2>3, <3>1, LiveShort
  <2>4. CASE ~ Short(W, C, o, regs.TXSP)
    <3>1. n.fn \in Own2 /\ td2 = n.fn
      BY <2>2, <2>4 DEF Own2
    <3> QED BY <1>2, <2>4, <3>1, LiveInNode2
  <2> QED BY <2>3, <2>4
<1>7. CASE RoleOf(W, C, o) = "ONAR"
  <2>1. JoinsONAR(W, B, Last(h), o, regs.TXSP, C)
    BY <1>2, <1>7 DEF Joins
  <2>2. C = B /\ ~ Short(W, C, o, regs.TXSP)
    BY <2>1 DEF JoinsONAR
  <2> QED BY <1>2, <1>7, <2>1, <2>2, NodeOnar
<1>8. CASE RoleOf(W, C, o) = "DSAR"
  <2>1. JoinsDSAR(W, B, Last(h), o, regs.TXSP, C)
    BY <1>2, <1>8 DEF Joins
  <2> QED BY <1>2, <1>8, <2>1, NodeDsar
<1> QED BY <1>5, <1>6, <1>7, <1>8, RoleIs DEF RoleOf

(* SALT and SALF: the last entry is tried.                                 *)
Tried(e, regs2, td2) ==
    \/ e.fn = Link /\ e.or = 0 /\ td2 \in {"SALT", "SALF"}
    \/ e.fn = Link /\ e.or # 0 /\ regs2.TXSP = e.cur /\ regs2.PATICL = e.or /\ td2 = "node"
    \/ e.fn # Link /\ regs2.TXSP = e.cur /\ td2 = e.fn

LEMMA BackShortened ==
  ASSUME NEW W, Worlds(W), NEW F, NEW h, NEW s, NEW cs, NEW nm, NEW regs, NEW td, NEW C,
         MatchAt(W, F, h, s, cs, nm, regs, td, C), Shortened(W, F, h, nm, C),
         NEW regs2, Later(W, regs, regs2), NEW td2, Tried(Last(h), regs2, td2)
  PROVE  Live(W, F, Front(h), s, cs, nm, regs2, td2)
<1>1. /\ Stands(W, F, C, s, cs) /\ Ours(W, F, regs) /\ Sound(W, C) /\ regs.PATBCL = Last(C).pat
      /\ regs.MAXLEN = Last(C).max /\ Last(C).pat \in DOMAIN W.nodes /\ Last(C).open \in Seq(Tags)
  BY MatchIs
<1>2. Next_(W, F, C, cs, regs, C, s, regs2)
  BY <1>1 DEF Next_
<1>3. PICK p \in 0 .. Len(Pat(W, C)) - 1 :
         /\ NodeOf(W, C, p).fn = "ARBN" /\ Place(W, C, p)
         /\ OwnEntry(Last(h), NodeOf(W, C, p), Last(h).cur, Last(C).pat)
         /\ Short(W, C, p, Last(h).cur)
  BY DEF Shortened
<1>4. Held(W, F, Front(h), nm, C) /\ Last(Front(h)).fn # "started"
  BY DEF Shortened
<1>5. /\ p + 1 \in 0 .. Len(Pat(W, C)) - 1 /\ NodeOf(W, C, p).or = p + 1 /\ p + 1 # 0
      /\ NodeOf(W, C, p + 1).val = NodeOf(W, C, p).val /\ RoleOf(W, C, p + 1) = "ARBF"
      /\ W.open[Last(C).pat][p + 2] = Append(W.open[Last(C).pat][p + 1], "arbno")
  <2>1. /\ Worlds(W) /\ Last(C).pat \in DOMAIN W.nodes /\ p \in 0 .. Len(Pat(W, C)) - 1
        /\ NodeOf(W, C, p).fn = "ARBN"
    BY <1>1, <1>3, Zenon
  <2> QED BY ONLY <2>1, ArbnNode
<1>6. Last(h).fn = Link /\ Last(h).or = p + 1
  BY <1>3, <1>5 DEF OwnEntry
<1>7. td2 = "node" /\ regs2.PATICL = p + 1 /\ regs2.TXSP = Last(h).cur
  BY <1>5, <1>6 DEF Tried
<1>8. Short(W, C, p + 1, Last(h).cur)
  BY <1>3, <1>5, ShortSame
<1>9. Place(W, Pushed(C, "arbno"), p + 1)
  <2>1. /\ Last(Pushed(C, "arbno")).pat = Last(C).pat
        /\ Last(Pushed(C, "arbno")).open = Append(Last(C).open, "arbno")
    BY <1>1, PushedIs DEF Tags
  <2>2. Last(C).open = W.open[Last(C).pat][p + 1]
    BY <1>3 DEF Place
  <2>3. (p + 1) + 1 = p + 2
    <3>1. Len(Pat(W, C)) \in Nat
      BY <1>1, WorldIs DEF Pat
    <3> QED BY <3>1
  <2>4. W.open[Last(C).pat][(p + 1) + 1] = Append(Last(C).open, "arbno")
    BY <1>5, <2>2, <2>3
  <2> QED BY <1>5, <2>1, <2>4 DEF Place, Pat
<1>10. JoinsARBF(W, C, Last(Front(h)), p + 1, Last(h).cur, C)
  BY <1>4, <1>8, <1>9 DEF JoinsARBF
<1>11. Joins(W, C, Last(Front(h)), regs2.PATICL, regs2.TXSP, C)
  BY <1>5, <1>7, <1>10 DEF Joins
<1> QED BY <1>2, <1>4, <1>7, <1>11, LiveJoining

LEMMA BackEnds ==
  ASSUME NEW W, Worlds(W), NEW F, NEW h, NEW s, NEW cs, NEW nm, NEW regs, NEW td, NEW C,
         MatchAt(W, F, h, s, cs, nm, regs, td, C), Held(W, F, h, nm, C), Len(h) = Bot(F),
         NEW regs2, Later(W, regs, regs2), NEW td2, Tried(Last(h), regs2, td2)
  PROVE  Live(W, F, Front(h), s, cs, nm, regs2, td2)
<1>1. Next_(W, F, C, cs, regs, C, s, regs2)
  <2>1. /\ Stands(W, F, C, s, cs) /\ Ours(W, F, regs) /\ regs.PATBCL = Last(C).pat /\ regs.MAXLEN = Last(C).max
    BY MatchIs
  <2> QED BY <2>1 DEF Next_
<1>2. AtBottom(W, F, Front(h), nm, C) /\ Last(h).fn = IF W.anchored THEN "SCFL" ELSE "SCON"
  BY HeldEnds
<1>3. td2 = Last(h).fn
  BY <1>2, LinkIs DEF Tried
<1>4. Phase(W, F, Front(h), nm, regs2, td2, C)
  BY <1>2, <1>3 DEF Phase
<1> QED BY <1>1, <1>4, LiveNext

LEMMA BackLive ==
  ASSUME NEW W, Worlds(W), NEW F, NEW h, NEW s, NEW cs, NEW nm, NEW regs, NEW td, NEW C,
         MatchAt(W, F, h, s, cs, nm, regs, td, C), Held(W, F, h, nm, C), Last(h).fn # "started",
         Len(h) > Bot(F),
         NEW regs2, Later(W, regs, regs2), NEW td2, Tried(Last(h), regs2, td2)
  PROVE  Live(W, F, Front(h), s, cs, nm, regs2, td2)
<1> DEFINE e == Last(h)
           h2 == Front(h)
           under == Last(h2)
           under2 == Under(F, h2, Len(h2))
<1>1. Next_(W, F, C, cs, regs, C, s, regs2)
  <2>1. /\ Stands(W, F, C, s, cs) /\ Ours(W, F, regs) /\ regs.PATBCL = Last(C).pat /\ regs.MAXLEN = Last(C).max
    BY MatchIs
  <2> QED BY <2>1 DEF Next_
<1>2. PICK B, nm2 : /\ Held(W, F, h2, nm2, B) /\ Step(W, B, under2, under, e, C)
                    /\ e.fn = "DNME" => nm # <<>> /\ nm2 = Front(nm)
                    /\ e.fn # "DNME" => nm2 = nm
  <2>1. CASE e.fn = "DNME"
    BY <2>1, HeldUnnamed
  <2>2. CASE e.fn # "DNME"
    BY <2>2, HeldPopped
  <2> QED BY <2>1, <2>2
<1>3. Prefix(F.named, nm) /\ Prefix(F.hist, h2) /\ Sound(W, B) /\ Prefix(F.named, nm2)
  <2>1. Prefix(F.named, nm)
    BY HeldIs
  <2> QED BY <1>2, <2>1, HeldIs
<1> HIDE DEF h2, under, under2, e
<1>4. CASE e.fn = Link
  <2>1. StepLink(W, B, under, e, C) /\ nm2 = nm
    BY <1>2, <1>4, LinkIs DEF Step
  <2>2. CASE e.or = 0
    <3>1. C = B /\ under.fn # "started"
      BY <2>1, <2>2 DEF StepLink
    <3>2. td2 \in {"SALT", "SALF"}
      BY <1>4, <2>2 DEF Tried, e
    <3> QED BY <1>1, <1>2, <2>1, <3>1, <3>2, LiveBacking DEF h2, under
  <2>3. CASE e.or # 0
    <3>1. Joins(W, B, under, e.or, e.cur, C)
      BY <2>1, <2>3 DEF StepLink
    <3>2. td2 = "node" /\ regs2.PATICL = e.or /\ regs2.TXSP = e.cur
      BY <1>4, <2>3 DEF Tried, e
    <3>3. Live(W, F, h2, s, cs, nm, regs2, "node")
      <4>1. Joins(W, B, Last(h2), regs2.PATICL, regs2.TXSP, C)
        BY <3>1, <3>2 DEF under
      <4> QED BY <1>1, <1>2, <2>1, <4>1, LiveJoining
    <3> QED BY <3>2, <3>3 DEF h2
  <2> QED BY <2>2, <2>3
<1>5. CASE e.fn # Link
  <2>1. td2 = e.fn /\ regs2.TXSP = e.cur
    BY <1>5 DEF Tried, e
  <2>2. Phase(W, F, h2, nm, regs2, td2, C)
    <3>1. CASE e.fn = "FNME"
      <4>1. C = Pushed(B, "name") /\ under.fn # "started" /\ nm2 = nm
        BY <1>2, <3>1, LinkIs DEF Step
      <4>2. InNME(W, F, h2, nm, td2, C)
        BY <1>2, <2>1, <3>1, <4>1 DEF InNME, under
      <4> QED BY <2>1, <3>1, <4>2 DEF Phase
    <3>2. CASE e.fn = "DNME"
      <4>1. B = Pushed(C, "name") /\ under.fn # "started" /\ nm # <<>> /\ nm2 = Front(nm)
        BY <1>2, <3>2, LinkIs DEF Step
      <4>2. InNME(W, F, h2, nm, td2, C)
        BY <1>2, <1>3, <2>1, <3>2, <4>1 DEF InNME, under
      <4> QED BY <2>1, <3>2, <4>2 DEF Phase
    <3>3. CASE e.fn = "DNME1"
      <4>1. B = Pushed(C, "name") /\ under.fn # "started" /\ nm2 = nm
        BY <1>2, <3>3, LinkIs DEF Step
      <4>2. InNME(W, F, h2, nm, td2, C)
        BY <1>2, <2>1, <3>3, <4>1 DEF InNME, under
      <4> QED BY <2>1, <3>3, <4>2 DEF Phase
    <3>4. CASE e.fn = "SCFL"
      <4>1. C = Opened(B, Last(C).pat, Last(C).max) /\ under.fn # "started" /\ nm2 = nm
        BY <1>2, <3>4, LinkIs DEF Step
      <4>2. AnySeq(B) /\ Len(B) \in Nat \ {0}
        BY <1>3, SoundIs
      <4>3. Front(C) = B /\ Len(C) = Len(B) + 1
        <5> DEFINE L == Level(Last(C).pat, Last(C).max, Height(B) + 1)
        <5>1. C = Append(B, L)
          BY <4>1, Zenon DEF Opened
        <5> HIDE DEF L
        <5>2. Front(Append(B, L)) = B /\ Len(Append(B, L)) = Len(B) + 1
          BY ONLY <4>2, AnyAppend
        <5> QED BY <5>1, <5>2, Zenon
      <4>4. Len(C) > 1
        BY <4>2, <4>3
      <4>5. InNME(W, F, h2, nm, td2, C)
        BY <1>2, <2>1, <3>4, <4>1, <4>3, <4>4 DEF InNME, under
      <4> QED BY <2>1, <3>4, <4>5 DEF Phase
    <3>5. CASE e.fn = "RTNUL3"
      BY <1>3, <2>1, <3>5 DEF Phase
    <3>6. CASE e.fn = "SUCF"
      <4>1. C = B /\ under.fn = Link /\ Follows(W, C, under.then, e.cur) /\ nm2 = nm
        BY <1>2, <3>6, LinkIs DEF Step, StepSUCF
      <4>2. Len(h2) > Bot(F)
        BY <1>2, <4>1, AboveBottom DEF under
      <4>3. InSUCF(W, F, h2, nm, regs2, C)
        BY <1>2, <2>1, <4>1, <4>2 DEF InSUCF, under
      <4> QED BY <2>1, <3>6, <4>3 DEF Phase
    <3>7. CASE e.fn = "BRKXF"
      <4>1. C = B /\ under.fn = Link /\ under.or = 0 /\ Breaks(W, C, under.cur, under2) /\ nm2 = nm
        BY <1>2, <3>7, LinkIs DEF Step, StepBRKXF
      <4>2. Len(h2) > Bot(F)
        BY <1>2, <4>1, AboveBottom DEF under
      <4>3. InBRKXF(W, F, h2, nm, regs2, C)
        BY <1>2, <4>1, <4>2 DEF InBRKXF, under, under2
      <4> QED BY <2>1, <3>7, <4>3 DEF Phase
    <3>8. e.fn \in {"FNME", "DNME", "DNME1", "SCFL", "RTNUL3", "SUCF", "BRKXF"}
      <4>1. e.fn # "started"
        BY DEF e
      <4> QED BY <1>2, <1>5, <4>1 DEF Step
    <3> QED BY <3>1, <3>2, <3>3, <3>4, <3>5, <3>6, <3>7, <3>8
  <2> QED BY <1>1, <2>2, LiveNext DEF h2
<1> QED BY <1>4, <1>5

LEMMA BackedUp ==
  ASSUME NEW W, Worlds(W), NEW F, NEW h, NEW s, NEW cs, NEW nm, NEW regs, NEW td \in {"SALT", "SALF"}, NEW C,
         MatchAt(W, F, h, s, cs, nm, regs, td, C),
         NEW regs2, Later(W, regs, regs2), NEW td2, Tried(Last(h), regs2, td2)
  PROVE  Live(W, F, Front(h), s, cs, nm, regs2, td2)
<1>1. Backing(W, F, h, nm, C) \/ Shortened(W, F, h, nm, C)
  <2>1. Phase(W, F, h, nm, regs, td, C)
    BY MatchIs
  <2> QED BY <2>1, Phases
<1>2. CASE Shortened(W, F, h, nm, C)
  BY <1>2, BackShortened
<1>3. CASE Backing(W, F, h, nm, C)
  <2>1. Held(W, F, h, nm, C) /\ Last(h).fn # "started"
    BY <1>3 DEF Backing
  <2>2. Len(h) = Bot(F) \/ Len(h) > Bot(F)
    <3>1. Len(h) >= Bot(F) /\ Len(h) \in Nat /\ Bot(F) \in Nat
      BY <2>1, HeldIs
    <3> QED BY <3>1
  <2>3. CASE Len(h) = Bot(F)
    BY <2>1, <2>3, BackEnds
  <2>4. CASE Len(h) > Bot(F)
    BY <2>1, <2>4, BackLive
  <2> QED BY <2>2, <2>3, <2>4
<1> QED BY <1>1, <1>2, <1>3

(* SCOK goes on at the node that follows.                                  *)
LEMMA WentOn ==
  ASSUME NEW W, Worlds(W), NEW F, NEW h, NEW s, NEW cs, NEW nm, NEW regs, NEW C,
         MatchAt(W, F, h, s, cs, nm, regs, "SCOK", C), regs.then # 0,
         NEW regs2, Later(W, regs, regs2), regs2.PATICL = regs.then, regs2.TXSP = regs.TXSP
  PROVE  Live(W, F, h, s, cs, nm, regs2, "node")
<1>1. Next_(W, F, C, cs, regs, C, s, regs2)
  <2>1. /\ Stands(W, F, C, s, cs) /\ Ours(W, F, regs) /\ regs.PATBCL = Last(C).pat /\ regs.MAXLEN = Last(C).max
    BY MatchIs
  <2> QED BY <2>1 DEF Next_
<1>2. Going(W, F, h, nm, regs, C)
  <2>1. Phase(W, F, h, nm, regs, "SCOK", C)
    BY MatchIs
  <2> QED BY <2>1, Phases
<1>3. PICK B : Held(W, F, h, nm, B) /\ GoesOn(W, B, Last(h), regs.then, regs.TXSP, C)
  BY <1>2 DEF Going
<1>4. Joins(W, B, Last(h), regs2.PATICL, regs2.TXSP, C)
  BY <1>3 DEF GoesOn
<1> QED BY <1>1, <1>3, <1>4, LiveJoining

(* The end of the pattern.                                                 *)
LEMMA AtEnd ==
  ASSUME NEW W, Worlds(W), NEW F, NEW h, NEW s, NEW cs, NEW nm, NEW regs, NEW C,
         MatchAt(W, F, h, s, cs, nm, regs, "SCOK", C), regs.then = 0
  PROVE  /\ Held(W, F, h, nm, C) /\ Last(h).fn # "started" /\ Last(C).open = <<>>
         /\ W.quick => regs.TXSP <= Last(C).max
<1>1. Going(W, F, h, nm, regs, C)
  <2>1. Phase(W, F, h, nm, regs, "SCOK", C)
    BY MatchIs
  <2> QED BY <2>1, Phases
<1>2. PICK B : Held(W, F, h, nm, B) /\ GoesOn(W, B, Last(h), regs.then, regs.TXSP, C)
  BY <1>1 DEF Going
<1>3. C = B /\ Last(h).fn # "started" /\ Ends(W, C, regs.TXSP)
  BY <1>2 DEF GoesOn
<1> QED BY <1>2, <1>3 DEF Ends

(* A SCIN has returned: the registers that STAR or DSAR kept are back.     *)
Returned(W, kept, regs2) ==
    /\ regs2 \in Registers(W) /\ regs2.PATBCL = kept.PATBCL /\ regs2.MAXLEN = kept.MAXLEN
    /\ regs2.PDLHED = kept.PDLHED /\ regs2.NHEDCL = kept.NHEDCL /\ regs2.then = kept.then

LEMMA ReturnedIs ==
  ASSUME NEW W, Worlds(W), NEW F, NEW C, NEW s, NEW cs, Stands(W, F, C, s, cs), Len(C) > 1,
         NEW regs2, Returned(W, s[Last(C).at].r, regs2)
  PROVE  /\ Sound(W, C) /\ Sound(W, Front(C)) /\ Ours(W, F, regs2)
         /\ regs2.PATBCL = Last(Front(C)).pat /\ regs2.MAXLEN = Last(Front(C)).max
         /\ Stands(W, F, Front(C), SubSeq(s, 1, Last(C).at - 1), Front(cs))
         /\ Waits(W, F, Last(Front(C)), Last(C), s[Last(C).at])
<1>1. /\ Waits(W, F, Last(Front(C)), Last(C), s[Last(C).at])
      /\ Stands(W, F, Front(C), SubSeq(s, 1, Last(C).at - 1), Front(cs))
  BY StandsClosed
<1>2. Sound(W, C) /\ Sound(W, Front(C))
  BY <1>1 DEF Stands
<1>3. Ours(W, F, regs2) /\ regs2.PATBCL = Last(Front(C)).pat /\ regs2.MAXLEN = Last(Front(C)).max
  BY <1>1 DEF Ours, Of, Waits, Returned
<1> QED BY <1>1, <1>2, <1>3

LEMMA Rejoined ==
  ASSUME NEW W, NEW C, Sound(W, C), Sound(W, Front(C)), Len(C) > 1, Last(C).open = <<>>,
         Last(C).at = Last(Front(C)).at + Len(Last(Front(C)).open) + 1
  PROVE  C = Opened(Front(C), Last(C).pat, Last(C).max)
<1> DEFINE D == Front(C)
           M == Last(C)
<1>1. M \in Levels(W) /\ AnySeq(C) /\ C # <<>>
  BY SoundIs DEF Sound
<1>2. M = [pat |-> M.pat, max |-> M.max, at |-> M.at, open |-> M.open]
  BY <1>1, LevelIs
<1>3. M = Level(M.pat, M.max, Height(D) + 1)
  BY <1>2 DEF Level, Height
<1>4. Append(D, M) = C
  BY <1>1, AnyRebuilt
<1> HIDE DEF D, M
<1>5. Opened(D, M.pat, M.max) = Append(D, M)
  BY <1>3 DEF Opened
<1> QED BY <1>4, <1>5 DEF D, M

LEMMA ReturnedOk ==
  ASSUME NEW W, Worlds(W), NEW F, NEW h, NEW s, NEW cs, NEW nm, NEW regs, NEW C,
         MatchAt(W, F, h, s, cs, nm, regs, "SCOK", C), regs.then = 0, Len(C) > 1,
         NEW regs2, Returned(W, s[Last(C).at].r, regs2), regs2.TXSP = regs.TXSP
  PROVE  Live(W, F, h, SubSeq(s, 1, Last(C).at - 1), Front(cs), nm, regs2, "SCOK")
<1> DEFINE D == Front(C)
           L == Last(D)
           M == Last(C)
           cell == s[M.at]
<1>1. Stands(W, F, C, s, cs) /\ regs.TXSP \in Int
  BY MatchIs
<1>2. /\ Sound(W, C) /\ Sound(W, D) /\ Ours(W, F, regs2)
      /\ regs2.PATBCL = L.pat /\ regs2.MAXLEN = L.max
      /\ Stands(W, F, D, SubSeq(s, 1, M.at - 1), Front(cs)) /\ Waits(W, F, L, M, cell)
  BY <1>1, ReturnedIs
<1>3. /\ Held(W, F, h, nm, C) /\ Last(h).fn # "started" /\ M.open = <<>>
      /\ W.quick => regs.TXSP <= M.max
  BY AtEnd
<1>4. PICK o \in 1 .. Len(W.nodes[L.pat]) - 1 :
         LET n == W.nodes[L.pat][o + 1]
         IN  /\ cell.r.then = o /\ n.fn = "SCOK" /\ Role(W.nodes[L.pat], o) = "DSAR"
             /\ L.open = W.open[L.pat][o + 1]
             /\ W.nodes[L.pat][n.or + 1].arg = M.pat /\ ~ IsString(M.pat)
             /\ M.max = L.max - Needed(W, n)
  BY <1>2, Zenon DEF Waits
<1>5. M.at = L.at + Len(L.open) + 1
  BY <1>2, Zenon DEF Waits
<1>6. C = Opened(D, M.pat, M.max)
  BY <1>2, <1>3, <1>5, Rejoined
<1>7. L.pat \in DOMAIN W.nodes /\ L.max \in Int /\ M.max \in Int
  <2>1. L \in Levels(W) /\ M \in Levels(W)
    BY <1>2, SoundIs
  <2> HIDE DEF L, M
  <2> QED BY <2>1, LevelIs
<1>8. o \in 0 .. Len(W.nodes[L.pat]) - 1 /\ o # 0
  <2>1. Len(W.nodes[L.pat]) \in Nat
    BY <1>7, WorldIs
  <2> DEFINE l == Len(W.nodes[L.pat])
  <2> HIDE DEF l
  <2>2. l \in Nat /\ o \in 1 .. l - 1
    BY <2>1 DEF l
  <2>3. o \in 0 .. l - 1 /\ o # 0
    BY ONLY <2>2
  <2> QED BY <2>3 DEF l
<1> HIDE DEF D
<1>9. Place(W, D, o) /\ RoleOf(W, D, o) = "DSAR" /\ NodeOf(W, D, o).fn = "SCOK" /\ Star(W, D, o) = M.pat
  BY <1>4, <1>8 DEF Place, RoleOf, NodeOf, Star
<1>10. NodeOf(W, D, o).val \in Nat
  BY <1>7, <1>8, NodePlace DEF Pat
<1>11. M.max = L.max - Needed(W, NodeOf(W, D, o))
  BY <1>4 DEF NodeOf
<1>12. ~ Short(W, D, o, regs.TXSP)
  <2> DEFINE v == NodeOf(W, D, o).val
             m == M.max
             l == L.max
             t == regs.TXSP
             q == W.quick
  <2>1. v \in Nat /\ l \in Int /\ t \in Int /\ m \in Int /\ (q => t <= m) /\ m = l - (IF q THEN v ELSE 0)
    BY <1>1, <1>3, <1>7, <1>10, <1>11 DEF Needed
  <2> HIDE DEF v, m, l, t, q
  <2>2. ~ (q /\ t + v > l)
    BY ONLY <2>1
  <2> QED BY <2>2 DEF Short, v, m, l, t, q
<1>13. JoinsDSAR(W, C, Last(h), o, regs.TXSP, D)
  BY <1>3, <1>4, <1>6, <1>9, <1>11, <1>12 DEF JoinsDSAR
<1>14. GoesOn(W, C, Last(h), regs2.then, regs2.TXSP, D)
  <2>1. regs2.then = o
    BY <1>4 DEF Returned
  <2> QED BY <1>8, <1>9, <1>13, <2>1 DEF GoesOn, Joins
<1>15. Phase(W, F, h, nm, regs2, "SCOK", D)
  BY <1>3, <1>14 DEF Phase, Going
<1> QED BY <1>2, <1>15 DEF Live, MatchAt

LEMMA ReturnedFails ==
  ASSUME NEW W, Worlds(W), NEW F, NEW h, NEW s, NEW cs, NEW nm, NEW regs, NEW C,
         MatchAt(W, F, h, s, cs, nm, regs, "SCFL", C), Len(C) > 1,
         NEW regs2, Returned(W, s[Last(C).at].r, regs2), NEW td2 \in {"SALT", "SALF"}
  PROVE  Live(W, F, h, SubSeq(s, 1, Last(C).at - 1), Front(cs), nm, regs2, td2)
<1>1. Stands(W, F, C, s, cs)
  BY MatchIs
<1>2. /\ Ours(W, F, regs2) /\ regs2.PATBCL = Last(Front(C)).pat /\ regs2.MAXLEN = Last(Front(C)).max
      /\ Stands(W, F, Front(C), SubSeq(s, 1, Last(C).at - 1), Front(cs))
  BY <1>1, ReturnedIs
<1>3. InNME(W, F, h, nm, "SCFL", C)
  <2>1. Phase(W, F, h, nm, regs, "SCFL", C)
    BY MatchIs
  <2>2. ~ AtBottom(W, F, h, nm, C)
    <3>1. AtBottom(W, F, h, nm, C) => Len(C) = 1
      BY Zenon DEF AtBottom
    <3>2. Len(C) # 1
      <4>1. Len(C) > 1 /\ Len(C) \in Nat
        BY <1>1, SoundIs DEF Stands
      <4> DEFINE l == Len(C)
      <4> HIDE DEF l
      <4>2. l > 1 /\ l \in Nat
        BY <4>1 DEF l
      <4>3. l # 1
        BY ONLY <4>2
      <4> QED BY <4>3 DEF l
    <3> QED BY <3>1, <3>2
  <2> QED BY <2>1, <2>2, Phases
<1>4. Held(W, F, h, nm, Front(C)) /\ Last(h).fn # "started"
  BY <1>3 DEF InNME
<1>5. Phase(W, F, h, nm, regs2, td2, Front(C))
  BY <1>4 DEF Phase, Backing
<1> QED BY <1>2, <1>5 DEF Live, MatchAt

(* A node's procedure, with the node's entry on top.                       *)
OnTop(W, F, h, nm, regs, C, n) ==
    /\ n = NodeOf(W, C, regs.PATICL) /\ n.fn \in Fns /\ n.val \in Nat /\ n.res \in Nat /\ n.or \in Nat
    /\ Place(W, C, regs.PATICL) /\ regs.PATICL \in 0 .. Len(Pat(W, C)) - 1
    /\ RoleOf(W, C, regs.PATICL) = "plain" /\ n.fn # "ARBN" /\ Fits(n)
    /\ Held(W, F, h, nm, C) /\ Last(h).fn = Link /\ Last(h).fn # "started"
    /\ Last(h).or = n.or /\ Last(h).owner = Last(C).pat
    /\ Last(h) \in EntrySet(W) /\ AnySeq(h) /\ h # <<>>
    /\ Len(h) > Bot(F) /\ regs.then = n.then /\ regs.res = n.res
    /\ Last(C).pat \in DOMAIN W.nodes
    /\ W.quick => regs.TXSP <= Last(C).max /\ regs.TXSP + n.val <= Last(C).max

LEMMA OnTopIs ==
  ASSUME NEW W, Worlds(W), NEW F, NEW h, NEW s, NEW cs, NEW nm, NEW regs, NEW td \in Own1, NEW C,
         MatchAt(W, F, h, s, cs, nm, regs, td, C)
  PROVE  \E n : OnTop(W, F, h, nm, regs, C, n) /\ n.fn = ProcOf(td)
<1> DEFINE o == regs.PATICL
           n == NodeOf(W, C, o)
<1>1. InNode1(W, F, h, nm, regs, td, C)
  <2>1. Phase(W, F, h, nm, regs, td, C)
    BY MatchIs
  <2> QED BY <2>1, Phases
<1>2. Last(C).pat \in DOMAIN W.nodes /\ Last(C).max \in Int /\ regs.TXSP \in Int
  BY MatchIs
<1>3. /\ Held(W, F, h, nm, C) /\ Place(W, C, o) /\ RoleOf(W, C, o) = "plain" /\ Len(h) > Bot(F)
      /\ At(W, regs, td, C) /\ Entered(W, h, regs, C)
  BY <1>1 DEF InNode1
<1>4. n.fn = ProcOf(td) /\ regs.then = n.then
  BY <1>3 DEF At
<1>5. /\ Last(h).fn = Link /\ Last(h).or = n.or /\ Last(h).owner = Last(C).pat /\ regs.res = n.res
      /\ ~ Short(W, C, o, regs.TXSP)
  BY <1>3 DEF Entered, OwnEntry
<1>6. o \in 0 .. Len(Pat(W, C)) - 1
  BY <1>3 DEF Place, Pat
<1>7. n.fn \in Fns /\ n.val \in Nat /\ n.res \in Nat /\ n.or \in Nat /\ NodeGood(W.nodes[Last(C).pat], W.open[Last(C).pat], o)
  BY <1>2, <1>6, NodePlace
<1>8. Fits(n)
  BY <1>7 DEF NodeGood, NodeOf
<1>9. Last(h) \in EntrySet(W) /\ AnySeq(h) /\ h # <<>>
  BY <1>3, HeldIs
<1>10. W.quick => regs.TXSP <= Last(C).max /\ regs.TXSP + n.val <= Last(C).max
  BY <1>2, <1>5, <1>7, NotShort
<1>11. n.fn # "ARBN"
  BY <1>4 DEF ProcOf, Own1, Simple, Measuring
<1>12. Last(h).fn # "started"
  BY <1>5, LinkIs
<1> HIDE DEF n
<1> QED BY <1>2, <1>3, <1>4, <1>5, <1>6, <1>7, <1>8, <1>9, <1>10, <1>11, <1>12 DEF OnTop, n

LEMMA SameLevels ==
  ASSUME NEW W, Worlds(W), NEW F, NEW h, NEW s, NEW cs, NEW nm, NEW regs, NEW td, NEW C,
         MatchAt(W, F, h, s, cs, nm, regs, td, C), NEW regs2, Later(W, regs, regs2)
  PROVE  Next_(W, F, C, cs, regs, C, s, regs2)
<1>1. /\ Stands(W, F, C, s, cs) /\ Ours(W, F, regs) /\ regs.PATBCL = Last(C).pat /\ regs.MAXLEN = Last(C).max
  BY MatchIs
<1> QED BY <1>1 DEF Next_

(* It moves the cursor, or fails.                                          *)
LEMMA SimpleGoes ==
  ASSUME NEW W, Worlds(W), NEW F, NEW h, NEW s, NEW cs, NEW nm, NEW regs, NEW td, NEW C,
         MatchAt(W, F, h, s, cs, nm, regs, td, C), NEW n, OnTop(W, F, h, nm, regs, C, n), n.fn \in Simple,
         NEW regs2, Later(W, regs, regs2), regs2.then = regs.then, W.quick => regs2.TXSP <= Last(C).max
  PROVE  Live(W, F, h, s, cs, nm, regs2, "SCOK")
<1>1. Next_(W, F, C, cs, regs, C, s, regs2)
  BY SameLevels
<1>2. /\ n = NodeOf(W, C, regs.PATICL) /\ Place(W, C, regs.PATICL) /\ Last(C).pat \in DOMAIN W.nodes
      /\ Held(W, F, h, nm, C) /\ Last(h).fn # "started" /\ regs.then = n.then
  BY DEF OnTop
<1> QED BY <1>1, <1>2, NodeSucceeds

LEMMA OnTopFails ==
  ASSUME NEW W, Worlds(W), NEW F, NEW h, NEW s, NEW cs, NEW nm, NEW regs, NEW td, NEW C,
         MatchAt(W, F, h, s, cs, nm, regs, td, C), NEW n, OnTop(W, F, h, nm, regs, C, n),
         NEW regs2, Later(W, regs, regs2), NEW td2 \in {"SALT", "SALF"}
  PROVE  Live(W, F, h, s, cs, nm, regs2, td2)
<1>1. Next_(W, F, C, cs, regs, C, s, regs2)
  BY SameLevels
<1>2. Held(W, F, h, nm, C) /\ Last(h).fn # "started"
  BY DEF OnTop
<1> QED BY <1>1, <1>2, LiveBacking

(* FARB, BAL: the entry is changed, or is not needed any more.             *)
LEMMA Unneeded ==
  ASSUME NEW W, Worlds(W), NEW F, NEW h, NEW nm, NEW regs, NEW C, NEW n, OnTop(W, F, h, nm, regs, C, n)
  PROVE  Held(W, F, Front(h), nm, C) /\ Last(Front(h)).fn # "started"
<1>1. /\ n = NodeOf(W, C, regs.PATICL) /\ Place(W, C, regs.PATICL) /\ Last(C).pat \in DOMAIN W.nodes
      /\ Held(W, F, h, nm, C) /\ RoleOf(W, C, regs.PATICL) = "plain" /\ n.fn # "ARBN"
      /\ Last(h).fn = Link /\ Last(h).or = n.or /\ Len(h) > Bot(F)
  BY DEF OnTop
<1> QED BY <1>1, OwnPopped

LEMMA TopFails ==
  ASSUME NEW W, Worlds(W), NEW F, NEW h, NEW s, NEW cs, NEW nm, NEW regs, NEW td, NEW C,
         MatchAt(W, F, h, s, cs, nm, regs, td, C), NEW n, OnTop(W, F, h, nm, regs, C, n),
         NEW regs2, Later(W, regs, regs2), NEW td2 \in {"SALT", "SALF"}
  PROVE  Live(W, F, Front(h), s, cs, nm, regs2, td2)
<1>1. Next_(W, F, C, cs, regs, C, s, regs2)
  BY SameLevels
<1>2. Held(W, F, Front(h), nm, C) /\ Last(Front(h)).fn # "started"
  BY Unneeded
<1> QED BY <1>1, <1>2, LiveBacking

LEMMA TopGoes ==
  ASSUME NEW W, Worlds(W), NEW F, NEW h, NEW s, NEW cs, NEW nm, NEW regs, NEW td, NEW C,
         MatchAt(W, F, h, s, cs, nm, regs, td, C), NEW n, OnTop(W, F, h, nm, regs, C, n), n.fn \in Simple,
         NEW regs2, Later(W, regs, regs2), regs2.then = regs.then, W.quick => regs2.TXSP <= Last(C).max,
         NEW e \in EntrySet(W), e.fn = Link, e.or = Last(h).or, e.owner = Last(h).owner
  PROVE  Live(W, F, Append(Front(h), e), s, cs, nm, regs2, "SCOK")
<1> DEFINE h2 == Append(Front(h), e)
<1>1. Next_(W, F, C, cs, regs, C, s, regs2)
  BY SameLevels
<1>2. /\ n = NodeOf(W, C, regs.PATICL) /\ Place(W, C, regs.PATICL) /\ Last(C).pat \in DOMAIN W.nodes
      /\ regs.then = n.then /\ RoleOf(W, C, regs.PATICL) = "plain" /\ n.fn # "ARBN"
      /\ Last(h).or = n.or /\ Last(h).owner = Last(C).pat
  BY DEF OnTop
<1>3. Held(W, F, Front(h), nm, C) /\ Last(Front(h)).fn # "started"
  BY Unneeded
<1>4. Step(W, C, Under(F, Front(h), Len(Front(h))), Last(Front(h)), e, C)
  BY <1>2, <1>3, OwnStep
<1>5. Sound(W, C) /\ AnySeq(Front(h))
  BY <1>3, HeldIs
<1>6. Held(W, F, h2, nm, C)
  BY <1>3, <1>4, <1>5, LinkIs, HeldPushed
<1>7. Last(h2).fn # "started"
  BY <1>5, AnyAppend, LinkIs
<1> HIDE DEF h2
<1>8. Live(W, F, h2, s, cs, nm, regs2, "SCOK")
  BY <1>1, <1>2, <1>6, <1>7, NodeSucceeds
<1> QED BY <1>8 DEF h2

(* FNCE: an entry that ends the match.                                     *)
LEMMA FenceGoes ==
  ASSUME NEW W, Worlds(W), NEW F, NEW h, NEW s, NEW cs, NEW nm, NEW regs, NEW td, NEW C,
         MatchAt(W, F, h, s, cs, nm, regs, td, C), NEW n, OnTop(W, F, h, nm, regs, C, n), n.fn = "FNCE",
         NEW regs2, Later(W, regs, regs2), regs2.then = regs.then, regs2.TXSP = regs.TXSP,
         NEW e \in EntrySet(W), e.fn = "RTNUL3"
  PROVE  Live(W, F, Append(h, e), s, cs, nm, regs2, "SCOK")
<1> DEFINE h2 == Append(h, e)
<1>1. Next_(W, F, C, cs, regs, C, s, regs2)
  BY SameLevels
<1>2. /\ n = NodeOf(W, C, regs.PATICL) /\ Place(W, C, regs.PATICL) /\ Last(C).pat \in DOMAIN W.nodes
      /\ Held(W, F, h, nm, C) /\ Last(h).fn # "started" /\ regs.then = n.then
      /\ W.quick => regs.TXSP <= Last(C).max
  BY DEF OnTop
<1>3. Step(W, C, Under(F, h, Len(h)), Last(h), e, C)
  BY <1>2, LinkIs DEF Step
<1>4. Sound(W, C) /\ AnySeq(h)
  BY <1>2, HeldIs
<1>5. Held(W, F, h2, nm, C)
  BY <1>2, <1>3, <1>4, HeldPushed
<1>6. Last(h2).fn # "started"
  BY <1>4, AnyAppend
<1>7. NodeOf(W, C, regs.PATICL).fn \in Simple
  BY <1>2 DEF Simple
<1> HIDE DEF h2
<1>8. Live(W, F, h2, s, cs, nm, regs2, "SCOK")
  BY <1>1, <1>2, <1>5, <1>6, <1>7, NodeSucceeds
<1> QED BY <1>8 DEF h2

(* NME: a start is pushed, and an entry that pops it.                      *)
LEMMA NameStarts ==
  ASSUME NEW W, Worlds(W), NEW F, NEW h, NEW s, NEW cs, NEW nm, NEW regs, NEW td, NEW C,
         MatchAt(W, F, h, s, cs, nm, regs, td, C), NEW n, OnTop(W, F, h, nm, regs, C, n), n.fn = "NME",
         NEW regs2, Later(W, regs, regs2), regs2.then = regs.then, regs2.TXSP = regs.TXSP,
         NEW e \in EntrySet(W), e.fn = "FNME", NEW x \in Int
  PROVE  Live(W, F, Append(h, e), Append(s, Cell("name", x)), cs, nm, regs2, "SCOK")
<1> DEFINE h2 == Append(h, e)
           C2 == Pushed(C, "name")
           s2 == Append(s, Cell("name", x))
<1>1. /\ Stands(W, F, C, s, cs) /\ Ours(W, F, regs) /\ Sound(W, C) /\ regs.PATBCL = Last(C).pat
      /\ regs.MAXLEN = Last(C).max /\ Last(C).pat \in DOMAIN W.nodes
  BY MatchIs
<1>2. /\ n = NodeOf(W, C, regs.PATICL) /\ Place(W, C, regs.PATICL)
      /\ regs.PATICL \in 0 .. Len(Pat(W, C)) - 1
      /\ Held(W, F, h, nm, C) /\ Last(h).fn # "started" /\ regs.then = n.then /\ AnySeq(h)
      /\ W.quick => regs.TXSP <= Last(C).max
  BY DEF OnTop
<1>3. /\ Sound(W, C2) /\ Last(C2).pat = Last(C).pat /\ Last(C2).max = Last(C).max
      /\ Last(C2).open = Append(Last(C).open, "name")
  BY <1>1, PushedIs DEF Tags
<1>4. Stands(W, F, C2, s2, cs)
  BY <1>1, StandsPushed DEF Tags
<1>5. Step(W, C, Under(F, h, Len(h)), Last(h), e, C2)
  BY <1>2, LinkIs DEF Step
<1>6. Last(h2) = e
  BY <1>2, AnyAppend
<1> HIDE DEF C2, s2
<1>7. Held(W, F, h2, nm, C2)
  BY <1>2, <1>3, <1>5, HeldPushed
<1> HIDE DEF h2
<1>8. Next_(W, F, C, cs, regs, C2, s2, regs2)
  BY <1>1, <1>3, <1>4 DEF Next_
<1>9. GoesOn(W, C2, Last(h2), regs2.then, regs2.TXSP, C2)
  <2>1. NodeOf(W, C2, regs.PATICL) = n /\ Pat(W, C2) = Pat(W, C)
    BY <1>2, <1>3 DEF NodeOf, Pat
  <2>2. Last(C2).open = Leaves(n, W.open[Last(C2).pat][regs.PATICL + 1])
    BY <1>2, <1>3 DEF Leaves, Place
  <2>3. n.fn \in Passing /\ Last(h2).fn # "started"
    BY <1>6 DEF Passing, Fns
  <2>4. W.quick => regs2.TXSP <= Last(C2).max
    BY <1>2, <1>3
  <2> HIDE DEF Passing
  <2>5. Last(C2).pat \in DOMAIN W.nodes /\ regs.PATICL \in 0 .. Len(Pat(W, C2)) - 1
    BY <1>1, <1>2, <1>3, <2>1
  <2>6. GoesOn(W, C2, Last(h2), NodeOf(W, C2, regs.PATICL).then, regs2.TXSP, C2)
    BY <2>1, <2>2, <2>3, <2>4, <2>5, GoesAfter
  <2> QED BY <1>2, <2>1, <2>6
<1>10. Live(W, F, h2, s2, cs, nm, regs2, "SCOK")
  BY <1>7, <1>8, <1>9, LiveGoing
<1> QED BY <1>10 DEF h2, s2

(* What a node that closes something has open.                             *)
LEMMA Closing ==
  ASSUME NEW W, Worlds(W), NEW F, NEW h, NEW s, NEW cs, NEW nm, NEW regs, NEW td, NEW C,
         MatchAt(W, F, h, s, cs, nm, regs, td, C), NEW n, OnTop(W, F, h, nm, regs, C, n),
         n.fn \in {"ENME", "ENMI", "EARB"},
         NEW tag, tag = IF n.fn = "EARB" THEN "arbno" ELSE "name"
  PROVE  /\ tag \in Tags /\ Sound(W, Popped(C)) /\ Pushed(Popped(C), tag) = C
         /\ Last(Popped(C)).pat = Last(C).pat /\ Last(Popped(C)).max = Last(C).max
         /\ Last(Popped(C)).open = Leaves(n, W.open[Last(C).pat][regs.PATICL + 1])
         /\ Last(Popped(C)).open = Front(W.open[Last(C).pat][regs.PATICL + 1])
         /\ Stands(W, F, Popped(C), Front(s), cs) /\ s # <<>> /\ Last(s) \in [use : {tag}, n : Int]
<1> DEFINE B == Popped(C)
           o == regs.PATICL
<1>1. /\ Stands(W, F, C, s, cs) /\ Sound(W, C) /\ Last(C).pat \in DOMAIN W.nodes
  BY MatchIs
<1>2. n = NodeOf(W, C, o) /\ Place(W, C, o) /\ o \in 0 .. Len(Pat(W, C)) - 1
  BY DEF OnTop
<1>3. NodeGood(W.nodes[Last(C).pat], W.open[Last(C).pat], o)
  BY <1>1, <1>2, NodePlace
<1>4. Closes(n, Last(C).open)
  BY <1>2, <1>3 DEF NodeGood, NodeOf, Place
<1>5. Last(C).open # <<>> /\ Last(Last(C).open) = tag
  BY <1>4 DEF Closes
<1>6. /\ Sound(W, B) /\ Last(B).pat = Last(C).pat /\ Last(B).max = Last(C).max
      /\ Last(B).open = Front(Last(C).open) /\ tag \in Tags /\ Pushed(B, tag) = C
  BY <1>1, <1>5, PoppedIs
<1>7. Last(C).open = W.open[Last(C).pat][o + 1]
  BY <1>2 DEF Place
<1>8. Last(B).open = Leaves(n, W.open[Last(C).pat][o + 1])
  BY <1>6, <1>7 DEF Leaves
<1> HIDE DEF B
<1>9. Stands(W, F, B, Front(s), cs) /\ s # <<>> /\ Last(s) \in [use : {tag}, n : Int]
  <2>1. Stands(W, F, Pushed(B, tag), s, cs)
    BY <1>1, <1>6
  <2> QED BY <1>6, <2>1, StandsPopped
<1> QED BY <1>6, <1>7, <1>8, <1>9 DEF B

(* ENME: the start is popped, the name is listed, and an entry is pushed that undoes both. *)
LEMMA NameListed ==
  ASSUME NEW W, Worlds(W), NEW F, NEW h, NEW s, NEW cs, NEW nm, NEW regs, NEW td, NEW C,
         MatchAt(W, F, h, s, cs, nm, regs, td, C), NEW n, OnTop(W, F, h, nm, regs, C, n), n.fn = "ENME",
         NEW regs2, Later(W, regs, regs2), regs2.then = regs.then, regs2.TXSP = regs.TXSP,
         NEW e \in EntrySet(W), e.fn = "DNME", NEW x
  PROVE  Live(W, F, Append(h, e), Front(s), cs, Append(nm, x), regs2, "SCOK")
<1> DEFINE h2 == Append(h, e)
           C2 == Popped(C)
           nm2 == Append(nm, x)
<1>1. /\ Ours(W, F, regs) /\ Sound(W, C) /\ regs.PATBCL = Last(C).pat
      /\ regs.MAXLEN = Last(C).max /\ Last(C).pat \in DOMAIN W.nodes
  BY MatchIs
<1>2. /\ n = NodeOf(W, C, regs.PATICL) /\ Place(W, C, regs.PATICL)
      /\ regs.PATICL \in 0 .. Len(Pat(W, C)) - 1
      /\ Held(W, F, h, nm, C) /\ Last(h).fn # "started" /\ regs.then = n.then /\ AnySeq(h)
      /\ W.quick => regs.TXSP <= Last(C).max
  BY DEF OnTop
<1>3. /\ Sound(W, C2) /\ Pushed(C2, "name") = C /\ Last(C2).pat = Last(C).pat /\ Last(C2).max = Last(C).max
      /\ Last(C2).open = Leaves(n, W.open[Last(C).pat][regs.PATICL + 1]) /\ Stands(W, F, C2, Front(s), cs)
  <2>1. "name" = (IF n.fn = "EARB" THEN "arbno" ELSE "name") /\ n.fn \in {"ENME", "ENMI", "EARB"}
    OBVIOUS
  <2> HIDE DEF C2
  <2> QED BY <2>1, Closing DEF C2
<1> HIDE DEF C2
<1>4. Step(W, C, Under(F, h, Len(h)), Last(h), e, C2)
  BY <1>2, <1>3, LinkIs DEF Step
<1>5. Held(W, F, h2, nm2, C2)
  BY <1>2, <1>3, <1>4, HeldNamed
<1>6. Last(h2) = e
  BY <1>2, AnyAppend
<1> HIDE DEF h2, nm2
<1>7. Next_(W, F, C, cs, regs, C2, Front(s), regs2)
  BY <1>1, <1>3 DEF Next_
<1>8. GoesOn(W, C2, Last(h2), regs2.then, regs2.TXSP, C2)
  <2>1. NodeOf(W, C2, regs.PATICL) = n /\ Pat(W, C2) = Pat(W, C)
    BY <1>2, <1>3 DEF NodeOf, Pat
  <2>2. n.fn \in Passing /\ Last(h2).fn # "started"
    BY <1>6 DEF Passing, Fns
  <2>3. W.quick => regs2.TXSP <= Last(C2).max
    BY <1>2, <1>3
  <2>4. Last(C2).pat \in DOMAIN W.nodes /\ regs.PATICL \in 0 .. Len(Pat(W, C2)) - 1
    BY <1>1, <1>2, <1>3, <2>1
  <2>5. GoesOn(W, C2, Last(h2), NodeOf(W, C2, regs.PATICL).then, regs2.TXSP, C2)
    BY <1>3, <2>1, <2>2, <2>3, <2>4, GoesAfter
  <2> QED BY <1>2, <2>1, <2>5
<1>9. Live(W, F, h2, Front(s), cs, nm2, regs2, "SCOK")
  BY <1>5, <1>7, <1>8, LiveGoing
<1> QED BY <1>9 DEF h2, nm2

(* ENMI: the start is popped; or, when the name cannot be had, one is left. *)
LEMMA NameTaken ==
  ASSUME NEW W, Worlds(W), NEW F, NEW h, NEW s, NEW cs, NEW nm, NEW regs, NEW td, NEW C,
         MatchAt(W, F, h, s, cs, nm, regs, td, C), NEW n, OnTop(W, F, h, nm, regs, C, n), n.fn = "ENMI",
         NEW regs2, Later(W, regs, regs2), regs2.then = regs.then, regs2.TXSP = regs.TXSP,
         regs2.PATICL = regs.PATICL
  PROVE  Live(W, F, h, Front(s), cs, nm, regs2, "ENMI2")
<1> DEFINE C2 == Popped(C)
           o == regs.PATICL
<1>1. /\ Ours(W, F, regs) /\ Sound(W, C) /\ regs.PATBCL = Last(C).pat
      /\ regs.MAXLEN = Last(C).max /\ Last(C).pat \in DOMAIN W.nodes
  BY MatchIs
<1>2. /\ n = NodeOf(W, C, o) /\ Place(W, C, o) /\ o \in 0 .. Len(Pat(W, C)) - 1
      /\ Held(W, F, h, nm, C) /\ Last(h).fn = Link /\ regs.then = n.then /\ Len(h) > Bot(F)
      /\ W.quick => regs.TXSP <= Last(C).max
  BY DEF OnTop
<1>3. /\ Sound(W, C2) /\ Pushed(C2, "name") = C /\ Last(C2).pat = Last(C).pat /\ Last(C2).max = Last(C).max
      /\ Stands(W, F, C2, Front(s), cs)
  <2>1. "name" = (IF n.fn = "EARB" THEN "arbno" ELSE "name") /\ n.fn \in {"ENME", "ENMI", "EARB"}
    OBVIOUS
  <2> HIDE DEF C2
  <2> QED BY <2>1, Closing DEF C2
<1> HIDE DEF C2
<1>4. At(W, regs2, "ENMI", C2)
  BY <1>2, <1>3 DEF At, ProcOf, NodeOf, Pat
<1>5. InENMI2(W, F, h, nm, regs2, C2)
  BY <1>2, <1>3, <1>4 DEF InENMI2
<1>6. Phase(W, F, h, nm, regs2, "ENMI2", C2)
  BY <1>5 DEF Phase
<1>7. Next_(W, F, C, cs, regs, C2, Front(s), regs2)
  BY <1>1, <1>3 DEF Next_
<1> QED BY <1>6, <1>7, LiveNext

LEMMA NameMissing ==
  ASSUME NEW W, Worlds(W), NEW F, NEW h, NEW s, NEW cs, NEW nm, NEW regs, NEW td, NEW C,
         MatchAt(W, F, h, s, cs, nm, regs, td, C), NEW n, OnTop(W, F, h, nm, regs, C, n), n.fn = "ENMI",
         NEW x \in Int
  PROVE  Live(W, F, h, Append(Front(s), Cell("name", x)), cs, nm, regs, "SALF")
<1> DEFINE C2 == Popped(C)
           s2 == Append(Front(s), Cell("name", x))
<1>1. /\ Ours(W, F, regs) /\ regs.PATBCL = Last(C).pat /\ regs.MAXLEN = Last(C).max
  BY MatchIs
<1>2. Pushed(C2, "name") = C /\ Stands(W, F, C2, Front(s), cs)
  <2>1. "name" = (IF n.fn = "EARB" THEN "arbno" ELSE "name") /\ n.fn \in {"ENME", "ENMI", "EARB"}
    OBVIOUS
  <2> HIDE DEF C2
  <2> QED BY <2>1, Closing DEF C2
<1>3. Stands(W, F, C, s2, cs)
  <2>1. Stands(W, F, Pushed(C2, "name"), s2, cs)
    <3> HIDE DEF C2
    <3> QED BY <1>2, StandsPushed DEF Tags
  <2> QED BY <1>2, <2>1
<1>4. Later(W, regs, regs)
  BY <1>1 DEF Later, Ours
<1>5. Next_(W, F, C, cs, regs, C, s2, regs)
  BY <1>1, <1>3, <1>4 DEF Next_
<1>6. Held(W, F, h, nm, C) /\ Last(h).fn # "started"
  BY DEF OnTop
<1> HIDE DEF s2
<1>7. Live(W, F, h, s2, cs, nm, regs, "SALF")
  BY <1>5, <1>6, LiveBacking
<1> QED BY <1>7 DEF s2

(* ENMI2: an entry that puts the start back.                               *)
LEMMA NameDone ==
  ASSUME NEW W, Worlds(W), NEW F, NEW h, NEW s, NEW cs, NEW nm, NEW regs, NEW C,
         MatchAt(W, F, h, s, cs, nm, regs, "ENMI2", C),
         NEW regs2, Later(W, regs, regs2), regs2.then = regs.then, regs2.TXSP = regs.TXSP,
         NEW e \in EntrySet(W), e.fn = "DNME1"
  PROVE  Live(W, F, Append(h, e), s, cs, nm, regs2, "SCOK")
<1> DEFINE h2 == Append(h, e)
           o == regs.PATICL
           D == Pushed(C, "name")
<1>1. Sound(W, C) /\ Last(C).pat \in DOMAIN W.nodes
  BY MatchIs
<1>2. InENMI2(W, F, h, nm, regs, C)
  <2>1. Phase(W, F, h, nm, regs, "ENMI2", C)
    BY MatchIs
  <2> QED BY <2>1, Phases
<1>3. /\ Held(W, F, h, nm, D) /\ Last(h).fn = Link /\ At(W, regs, "ENMI", C) /\ Place(W, D, o)
      /\ W.quick => regs.TXSP <= Last(C).max
  BY <1>2 DEF InENMI2
<1>4. /\ Sound(W, D) /\ Last(D).pat = Last(C).pat /\ Last(D).open = Append(Last(C).open, "name")
  BY <1>1, PushedIs DEF Tags
<1>5. AnySeq(h)
  BY <1>3, HeldIs
<1>6. Step(W, D, Under(F, h, Len(h)), Last(h), e, C)
  BY <1>3, LinkIs DEF Step
<1>7. Held(W, F, h2, nm, C)
  BY <1>1, <1>3, <1>6, HeldPushed
<1>8. Last(h2) = e
  BY <1>5, AnyAppend
<1>9. Next_(W, F, C, cs, regs, C, s, regs2)
  BY SameLevels
<1>10. /\ o \in 0 .. Len(Pat(W, C)) - 1 /\ NodeOf(W, C, o).fn = "ENMI" /\ regs.then = NodeOf(W, C, o).then
  BY <1>3 DEF At, ProcOf, Pat
<1>11. Last(C).open = Leaves(NodeOf(W, C, o), W.open[Last(C).pat][o + 1])
  <2>1. W.open[Last(C).pat][o + 1] = Append(Last(C).open, "name")
    BY <1>3, <1>4 DEF Place
  <2>2. Front(Append(Last(C).open, "name")) = Last(C).open
    <3>1. AnySeq(Last(C).open)
      BY <1>1, SoundIs, LevelIs
    <3> QED BY <3>1, AnyAppend
  <2> QED BY <1>10, <2>1, <2>2 DEF Leaves
<1>12. NodeOf(W, C, o).fn \in Passing
  BY <1>10 DEF Passing, Fns
<1> HIDE DEF h2
<1>13. GoesOn(W, C, Last(h2), regs2.then, regs2.TXSP, C)
  <2>1. Last(h2).fn # "started"
    BY <1>8
  <2>2. W.quick => regs2.TXSP <= Last(C).max
    BY <1>3
  <2>3. GoesOn(W, C, Last(h2), NodeOf(W, C, o).then, regs2.TXSP, C)
    BY <1>1, <1>10, <1>11, <1>12, <2>1, <2>2, GoesAfter
  <2> QED BY <1>10, <2>3
<1>14. Live(W, F, h2, s, cs, nm, regs2, "SCOK")
  BY <1>7, <1>9, <1>13, LiveGoing
<1> QED BY <1>14 DEF h2

(* FNME, DNME and DNME1: a start is popped, or is put back.                *)
LEMMA NameFails ==
  ASSUME NEW W, Worlds(W), NEW F, NEW h, NEW s, NEW cs, NEW nm, NEW regs, NEW C,
         MatchAt(W, F, h, s, cs, nm, regs, "FNME", C),
         NEW regs2, Later(W, regs, regs2), NEW td2 \in {"SALT", "SALF"}
  PROVE  /\ Live(W, F, h, Front(s), cs, nm, regs2, td2)
         /\ s # <<>> /\ Last(s) \in [use : {"name"}, n : Int]
<1>1. /\ Stands(W, F, C, s, cs) /\ Ours(W, F, regs) /\ regs.PATBCL = Last(C).pat /\ regs.MAXLEN = Last(C).max
  BY MatchIs
<1>2. InNME(W, F, h, nm, "FNME", C)
  <2>1. Phase(W, F, h, nm, regs, "FNME", C)
    BY MatchIs
  <2> QED BY <2>1, Phases
<1>3. PICK B : Held(W, F, h, nm, B) /\ C = Pushed(B, "name") /\ Last(h).fn # "started"
  BY <1>2 DEF InNME
<1>4. Sound(W, B)
  BY <1>3, HeldIs
<1>5. Stands(W, F, B, Front(s), cs) /\ s # <<>> /\ Last(s) \in [use : {"name"}, n : Int]
  <2>1. Stands(W, F, Pushed(B, "name"), s, cs) /\ "name" \in Tags
    BY <1>1, <1>3 DEF Tags
  <2> QED BY <1>4, <2>1, StandsPopped
<1>6. Last(B).pat = Last(C).pat /\ Last(B).max = Last(C).max
  BY <1>3, <1>4, PushedIs DEF Tags
<1>7. Next_(W, F, C, cs, regs, B, Front(s), regs2)
  BY <1>1, <1>5, <1>6 DEF Next_
<1>8. Live(W, F, h, Front(s), cs, nm, regs2, td2)
  BY <1>3, <1>7, LiveBacking
<1> QED BY <1>5, <1>8

LEMMA NameBack ==
  ASSUME NEW W, Worlds(W), NEW F, NEW h, NEW s, NEW cs, NEW nm, NEW regs, NEW td \in {"DNME", "DNME1"}, NEW C,
         MatchAt(W, F, h, s, cs, nm, regs, td, C), NEW nm2, nm2 = IF td = "DNME" THEN Front(nm) ELSE nm,
         NEW regs2, Later(W, regs, regs2), NEW td2 \in {"SALT", "SALF"}, NEW x \in Int
  PROVE  Live(W, F, h, Append(s, Cell("name", x)), cs, nm2, regs2, td2)
<1> DEFINE C2 == Pushed(C, "name")
           s2 == Append(s, Cell("name", x))
<1>1. /\ Stands(W, F, C, s, cs) /\ Ours(W, F, regs) /\ regs.PATBCL = Last(C).pat /\ regs.MAXLEN = Last(C).max
      /\ Sound(W, C)
  BY MatchIs
<1>2. InNME(W, F, h, nm, td, C)
  <2>1. Phase(W, F, h, nm, regs, td, C)
    BY MatchIs
  <2> QED BY <2>1, Phases
<1>3. Held(W, F, h, nm2, C2) /\ Last(h).fn # "started"
  BY <1>2 DEF InNME
<1>4. Stands(W, F, C2, s2, cs) /\ Last(C2).pat = Last(C).pat /\ Last(C2).max = Last(C).max
  BY <1>1, StandsPushed, PushedIs DEF Tags
<1> HIDE DEF C2, s2
<1>5. Next_(W, F, C, cs, regs, C2, s2, regs2)
  BY <1>1, <1>4 DEF Next_
<1>6. Live(W, F, h, s2, cs, nm2, regs2, td2)
  BY <1>3, <1>5, LiveBacking
<1> QED BY <1>6 DEF s2

(* EARB: its entry is made to put the start of the P back.                 *)
LEMMA OnceDone ==
  ASSUME NEW W, Worlds(W), NEW F, NEW h, NEW s, NEW cs, NEW nm, NEW regs, NEW td, NEW C,
         MatchAt(W, F, h, s, cs, nm, regs, td, C), NEW n, OnTop(W, F, h, nm, regs, C, n), n.fn = "EARB",
         NEW e \in EntrySet(W), e.fn = "started", e.cur = regs.TXSP
  PROVE  Live(W, F, Append(Front(h), e), Front(s), cs, nm, regs, "SCOK")
<1> DEFINE h2 == Append(Front(h), e)
           C2 == Popped(C)
           o == regs.PATICL
           cur == regs.TXSP
<1>1. /\ Ours(W, F, regs) /\ Sound(W, C) /\ regs.PATBCL = Last(C).pat
      /\ regs.MAXLEN = Last(C).max /\ Last(C).pat \in DOMAIN W.nodes /\ Last(C).max \in Int /\ cur \in Int
  BY MatchIs
<1>2. /\ n = NodeOf(W, C, o) /\ Place(W, C, o) /\ n.val \in Nat
      /\ o \in 0 .. Len(Pat(W, C)) - 1 /\ regs.then = n.then /\ AnySeq(h) /\ h # <<>>
      /\ W.quick => cur + n.val <= Last(C).max
  BY DEF OnTop
<1>3. /\ Sound(W, C2) /\ Pushed(C2, "arbno") = C /\ Last(C2).pat = Last(C).pat /\ Last(C2).max = Last(C).max
      /\ Last(C2).open = Front(W.open[Last(C).pat][o + 1]) /\ Stands(W, F, C2, Front(s), cs)
  <2>1. "arbno" = (IF n.fn = "EARB" THEN "arbno" ELSE "name") /\ n.fn \in {"ENME", "ENMI", "EARB"}
    OBVIOUS
  <2> HIDE DEF C2
  <2> QED BY <2>1, Closing DEF C2
<1> HIDE DEF C2
<1>4. Held(W, F, Front(h), nm, C) /\ Last(Front(h)).fn # "started"
  BY Unneeded
<1>5. Step(W, C, Under(F, Front(h), Len(Front(h))), Last(Front(h)), e, C2)
  BY <1>3, <1>4, LinkIs DEF Step
<1>6. Held(W, F, h2, nm, C2)
  BY <1>3, <1>4, <1>5, HeldPushed
<1>7. Last(h2) = e
  <2>1. AnySeq(Front(h))
    BY <1>4, HeldIs
  <2> QED BY <2>1, AnyAppend
<1> HIDE DEF h2
<1>8. Next_(W, F, C, cs, regs, C2, Front(s), regs)
  BY <1>1, <1>3 DEF Next_, Later, Ours
<1>9. Earb(W, C, o)
  BY <1>1, <1>2, EarbNode
<1>10. /\ o + 1 \in 0 .. Len(W.nodes[Last(C).pat]) - 1 /\ o + 1 # 0 /\ n.then = o + 1
       /\ NodeOf(W, C, o + 1).val = n.val /\ RoleOf(W, C, o + 1) = "ONAR"
       /\ W.open[Last(C).pat][(o + 1) + 1] = Front(W.open[Last(C).pat][o + 1])
  BY <1>2, <1>9 DEF Earb, Pat
<1>11. Place(W, C2, o + 1) /\ RoleOf(W, C2, o + 1) = "ONAR" /\ NodeOf(W, C2, o + 1).val = n.val
  BY <1>3, <1>10 DEF Place, RoleOf, NodeOf
<1>12. ~ Short(W, C2, o + 1, cur)
  <2> DEFINE v == n.val
             m == Last(C).max
             t == cur
             q == W.quick
  <2>1. v \in Nat /\ m \in Int /\ t \in Int /\ (q => t + v <= m)
    BY <1>1, <1>2
  <2> HIDE DEF v, m, t, q
  <2>2. ~ (q /\ t + v > m)
    BY ONLY <2>1
  <2> QED BY <1>3, <1>11, <2>2 DEF Short, v, m, t, q
<1>13. JoinsONAR(W, C2, Last(h2), o + 1, cur, C2)
  BY <1>7, <1>11, <1>12 DEF JoinsONAR
<1>14. GoesOn(W, C2, Last(h2), regs.then, cur, C2)
  BY <1>2, <1>10, <1>11, <1>13 DEF GoesOn, Joins
<1>15. Live(W, F, h2, Front(s), cs, nm, regs, "SCOK")
  BY <1>6, <1>8, <1>14, LiveGoing
<1> QED BY <1>15 DEF h2

(* A node's procedure, with the node's entry not yet leading anywhere.     *)
Above(W, F, h, nm, regs, C, n, B) ==
    /\ n = NodeOf(W, C, regs.PATICL) /\ n.val \in Nat /\ n.res \in Nat
    /\ regs.PATICL \in 0 .. Len(Pat(W, C)) - 1
    /\ Held(W, F, Front(h), nm, B) /\ Sound(W, B)
    /\ Joins(W, B, Last(Front(h)), regs.PATICL, regs.TXSP, C)
    /\ Last(h).fn = Link /\ Last(h).or = n.or /\ Last(h).owner = Last(C).pat /\ Last(h).cur = regs.TXSP
    /\ Last(h) \in EntrySet(W) /\ AnySeq(h) /\ h # <<>>
    /\ Len(h) > Bot(F) /\ regs.then = n.then /\ regs.res = n.res
    /\ Last(C).pat \in DOMAIN W.nodes
    /\ ~ Short(W, C, regs.PATICL, regs.TXSP)
    /\ W.quick => regs.TXSP <= Last(C).max

LEMMA AboveIs ==
  ASSUME NEW W, Worlds(W), NEW F, NEW h, NEW s, NEW cs, NEW nm, NEW regs, NEW td \in Own2, NEW C,
         MatchAt(W, F, h, s, cs, nm, regs, td, C)
  PROVE  \E n, B : Above(W, F, h, nm, regs, C, n, B) /\ n.fn = td
<1> DEFINE o == regs.PATICL
           n == NodeOf(W, C, o)
<1>1. InNode2(W, F, h, nm, regs, td, C)
  <2>1. Phase(W, F, h, nm, regs, td, C)
    BY MatchIs
  <2> QED BY <2>1, Phases
<1>2. Last(C).pat \in DOMAIN W.nodes /\ Last(C).max \in Int /\ regs.TXSP \in Int /\ Sound(W, C)
  BY MatchIs
<1>3. /\ AnySeq(h) /\ Len(h) > Bot(F) /\ At(W, regs, td, C) /\ Entered(W, h, regs, C) /\ Last(h) \in EntrySet(W)
  BY <1>1 DEF InNode2
<1>4. PICK B : Held(W, F, Front(h), nm, B) /\ Joins(W, B, Last(Front(h)), o, regs.TXSP, C)
  BY <1>1 DEF InNode2
<1>5. Sound(W, B) /\ Bot(F) \in Nat \ {0}
  BY <1>4, HeldIs
<1>6. o \in 0 .. Len(Pat(W, C)) - 1
  BY <1>2, <1>4, <1>5, JoinsPlace
<1>7. n.fn = td /\ regs.then = n.then
  BY <1>3 DEF At, ProcOf, Own2
<1>8. /\ Last(h).fn = Link /\ Last(h).or = n.or /\ Last(h).owner = Last(C).pat /\ Last(h).cur = regs.TXSP
      /\ regs.res = n.res /\ ~ Short(W, C, o, regs.TXSP)
  BY <1>3 DEF Entered, OwnEntry
<1>9. n.val \in Nat /\ n.res \in Nat
  BY <1>2, <1>6, NodePlace
<1>10. W.quick => regs.TXSP <= Last(C).max
  BY <1>2, <1>8, <1>9, NotShort
<1>11. h # <<>>
  <2>1. Len(h) \in Nat /\ Len(h) > Bot(F) /\ Bot(F) \in Nat
    BY <1>3, <1>5, AnyRange
  <2> QED BY <2>1
<1> HIDE DEF n
<1>12. Above(W, F, h, nm, regs, C, n, B)
  BY <1>2, <1>3, <1>4, <1>5, <1>6, <1>7, <1>8, <1>9, <1>10, <1>11 DEF Above, n
<1> QED BY <1>7, <1>12

(* Its entry leads to where backing up would be without it.                *)
LEMMA AboveAgain ==
  ASSUME NEW W, Worlds(W), NEW F, NEW h, NEW nm, NEW regs, NEW C, NEW n, NEW B,
         Above(W, F, h, nm, regs, C, n, B), n.or = 0, Last(Front(h)).fn # "started"
  PROVE  Held(W, F, h, nm, B) /\ Last(h).fn # "started"
<1>1. /\ AnySeq(h) /\ h # <<>> /\ Held(W, F, Front(h), nm, B) /\ Last(h) \in EntrySet(W) /\ Last(h).fn = Link
      /\ Sound(W, B) /\ Last(h).or = 0
  BY DEF Above
<1>2. Step(W, B, Under(F, Front(h), Len(Front(h))), Last(Front(h)), Last(h), B)
  BY <1>1 DEF Step, StepLink
<1>3. Last(h).fn # "DNME" /\ Last(h).fn # "started"
  BY <1>1, LinkIs
<1>4. Held(W, F, h, nm, B)
  BY <1>1, <1>2, <1>3, HeldAgain
<1> QED BY <1>3, <1>4

(* ARBN: a P begins.                                                       *)
LEMMA RepeatStarts ==
  ASSUME NEW W, Worlds(W), NEW F, NEW h, NEW s, NEW cs, NEW nm, NEW regs, NEW C,
         MatchAt(W, F, h, s, cs, nm, regs, "ARBN", C), NEW x \in Int
  PROVE  Live(W, F, h, Append(s, Cell("arbno", x)), cs, nm, regs, "SCOK")
<1> DEFINE o == regs.PATICL
           C2 == Pushed(C, "arbno")
           s2 == Append(s, Cell("arbno", x))
           cur == regs.TXSP
<1>1. /\ Stands(W, F, C, s, cs) /\ Ours(W, F, regs) /\ regs.PATBCL = Last(C).pat /\ regs.MAXLEN = Last(C).max
      /\ Sound(W, C)
  BY MatchIs
<1>2. PICK n, B : Above(W, F, h, nm, regs, C, n, B) /\ n.fn = "ARBN"
  BY AboveIs DEF Own2
<1>3. /\ n = NodeOf(W, C, o) /\ o \in 0 .. Len(Pat(W, C)) - 1 /\ Last(C).pat \in DOMAIN W.nodes
      /\ Held(W, F, Front(h), nm, B) /\ Joins(W, B, Last(Front(h)), o, cur, C)
      /\ Last(h).fn = Link /\ Last(h).or = n.or /\ Last(h).owner = Last(C).pat /\ Last(h).cur = cur
      /\ Last(h) \in EntrySet(W) /\ AnySeq(h) /\ h # <<>> /\ regs.then = n.then
      /\ ~ Short(W, C, o, cur)
      /\ W.quick => cur <= Last(C).max
  BY <1>2 DEF Above
<1>4. /\ o + 1 \in 0 .. Len(Pat(W, C)) - 1 /\ n.or = o + 1 /\ o + 1 # 0
      /\ NodeOf(W, C, o + 1).val = n.val /\ RoleOf(W, C, o + 1) = "ARBF" /\ RoleOf(W, C, o) = "plain"
      /\ W.open[Last(C).pat][o + 2] = Append(W.open[Last(C).pat][o + 1], "arbno")
  <2>1. NodeOf(W, C, o).fn = "ARBN" /\ o \in 0 .. Len(Pat(W, C)) - 1 /\ Last(C).pat \in DOMAIN W.nodes
    BY <1>2, <1>3
  <2> HIDE DEF o
  <2>2. /\ o + 1 \in 0 .. Len(Pat(W, C)) - 1 /\ NodeOf(W, C, o).or = o + 1 /\ o + 1 # 0
        /\ NodeOf(W, C, o + 1).val = NodeOf(W, C, o).val
        /\ RoleOf(W, C, o + 1) = "ARBF" /\ RoleOf(W, C, o) = "plain"
        /\ W.open[Last(C).pat][o + 2] = Append(W.open[Last(C).pat][o + 1], "arbno")
    BY <2>1, ArbnNode
  <2> QED BY <1>3, <2>2
<1>5. Place(W, C, o) /\ C = B /\ Last(Front(h)).fn # "started"
  BY <1>3, <1>4 DEF Joins
<1>6. /\ Sound(W, C2) /\ Last(C2).pat = Last(C).pat /\ Last(C2).max = Last(C).max
      /\ Last(C2).open = Append(Last(C).open, "arbno")
  BY <1>1, PushedIs DEF Tags
<1>7. Stands(W, F, C2, s2, cs)
  BY <1>1, StandsPushed DEF Tags
<1>8. W.open[Last(C).pat][(o + 1) + 1] = Append(Last(C).open, "arbno")
  <2>1. (o + 1) + 1 = o + 2
    <3>1. Len(Pat(W, C)) \in Nat
      BY <1>3, WorldIs DEF Pat
    <3> QED BY <1>3, <3>1
  <2>2. Last(C).open = W.open[Last(C).pat][o + 1]
    BY <1>5 DEF Place
  <2> QED BY <1>4, <2>1, <2>2
<1>9. JoinsARBF(W, C, Last(Front(h)), o + 1, cur, C2)
  <2>1. NodeOf(W, C2, o + 1) = NodeOf(W, C, o + 1)
    BY <1>6 DEF NodeOf
  <2>2. Short(W, C2, o + 1, cur) <=> Short(W, C, o, cur)
    BY <1>3, <1>4, <1>6, <2>1 DEF Short
  <2>3. Place(W, C2, o + 1)
    BY <1>4, <1>6, <1>8 DEF Place, Pat
  <2> QED BY <1>3, <1>5, <2>2, <2>3 DEF JoinsARBF
<1>10. ~ Short(W, C2, o + 1, cur)
  <2>1. NodeOf(W, C2, o + 1) = NodeOf(W, C, o + 1)
    BY <1>6 DEF NodeOf
  <2> QED BY <1>3, <1>4, <1>6, <2>1 DEF Short
<1>11. RoleOf(W, C2, o + 1) = "ARBF"
  BY <1>4, <1>6 DEF RoleOf
<1> HIDE DEF C2, s2
<1>12. Step(W, C, Under(F, Front(h), Len(Front(h))), Last(Front(h)), Last(h), C2)
  BY <1>3, <1>4, <1>6, <1>9, <1>10, <1>11 DEF Step, StepLink, Joins
<1>13. Held(W, F, h, nm, C2) /\ Last(h).fn # "started"
  <2>1. Last(h).fn # "DNME" /\ Last(h).fn # "started"
    BY <1>3, LinkIs
  <2> QED BY <1>3, <1>5, <1>6, <1>12, <2>1, HeldAgain
<1>14. Next_(W, F, C, cs, regs, C2, s2, regs)
  BY <1>1, <1>6, <1>7 DEF Next_, Later, Ours
<1>15. GoesOn(W, C2, Last(h), regs.then, cur, C2)
  <2>1. NodeOf(W, C2, o) = n /\ Pat(W, C2) = Pat(W, C)
    BY <1>3, <1>6 DEF NodeOf, Pat
  <2>2. Last(C2).open = Leaves(n, W.open[Last(C2).pat][o + 1])
    BY <1>2, <1>5, <1>6 DEF Leaves, Place
  <2>3. n.fn \in Passing
    BY <1>2 DEF Passing, Fns
  <2>4. GoesOn(W, C2, Last(h), NodeOf(W, C2, o).then, cur, C2)
    BY <1>3, <1>6, <1>13, <2>1, <2>2, <2>3, GoesAfter
  <2> QED BY <1>3, <2>1, <2>4
<1>16. Live(W, F, h, s2, cs, nm, regs, "SCOK")
  BY <1>13, <1>14, <1>15, LiveGoing
<1> QED BY <1>16 DEF s2

(* ARBF: the P has failed, and its start is popped.                        *)
LEMMA RepeatFails ==
  ASSUME NEW W, Worlds(W), NEW F, NEW h, NEW s, NEW cs, NEW nm, NEW regs, NEW C,
         MatchAt(W, F, h, s, cs, nm, regs, "ARBF", C), NEW td2 \in {"SALT", "SALF"}
  PROVE  /\ Live(W, F, h, Front(s), cs, nm, regs, td2)
         /\ s # <<>> /\ Last(s) \in [use : {"arbno"}, n : Int]
<1> DEFINE o == regs.PATICL
<1>1. /\ Stands(W, F, C, s, cs) /\ Ours(W, F, regs) /\ regs.PATBCL = Last(C).pat /\ regs.MAXLEN = Last(C).max
      /\ Sound(W, C)
  BY MatchIs
<1>2. PICK n, B : Above(W, F, h, nm, regs, C, n, B) /\ n.fn = "ARBF"
  BY AboveIs DEF Own2
<1>3. /\ n = NodeOf(W, C, o) /\ o \in 0 .. Len(Pat(W, C)) - 1 /\ Last(C).pat \in DOMAIN W.nodes /\ Sound(W, B)
      /\ Joins(W, B, Last(Front(h)), o, regs.TXSP, C) /\ ~ Short(W, C, o, regs.TXSP)
  BY <1>2 DEF Above
<1>4. RoleOf(W, C, o) = "ARBF"
  BY <1>2, <1>3 DEF RoleOf, Role, NodeOf
<1>5. n.or = 0
  BY <1>3, <1>4, ArbfNode
<1>6. C = Pushed(B, "arbno") /\ Last(Front(h)).fn # "started"
  BY <1>3, <1>4 DEF Joins, JoinsARBF
<1>7. Held(W, F, h, nm, B) /\ Last(h).fn # "started"
  BY <1>2, <1>5, <1>6, AboveAgain
<1>8. Stands(W, F, B, Front(s), cs) /\ s # <<>> /\ Last(s) \in [use : {"arbno"}, n : Int]
  <2>1. Stands(W, F, Pushed(B, "arbno"), s, cs) /\ "arbno" \in Tags
    BY <1>1, <1>6 DEF Tags
  <2> QED BY <1>3, <2>1, StandsPopped
<1>9. Last(B).pat = Last(C).pat /\ Last(B).max = Last(C).max
  BY <1>3, <1>6, PushedIs DEF Tags
<1>10. Next_(W, F, C, cs, regs, B, Front(s), regs)
  BY <1>1, <1>8, <1>9 DEF Next_, Later, Ours
<1>11. Live(W, F, h, Front(s), cs, nm, regs, td2)
  BY <1>7, <1>10, LiveBacking
<1> QED BY <1>8, <1>11

(* ONAR: where it is, and that the entry of EARB is below its own.         *)
LEMMA Repeating ==
  ASSUME NEW W, Worlds(W), NEW F, NEW h, NEW s, NEW cs, NEW nm, NEW regs, NEW td \in {"ONAR", "ONRF"}, NEW C,
         MatchAt(W, F, h, s, cs, nm, regs, td, C)
  PROVE  \E n : /\ Above(W, F, h, nm, regs, C, n, C) /\ n.fn = td
                /\ RoleOf(W, C, regs.PATICL) = "ONAR" /\ Last(Front(h)).fn = "started"
                /\ JoinsONAR(W, C, Last(Front(h)), regs.PATICL, regs.TXSP, C)
<1>1. PICK n, B : Above(W, F, h, nm, regs, C, n, B) /\ n.fn = td
  BY AboveIs DEF Own2
<1>2. /\ n = NodeOf(W, C, regs.PATICL) /\ Joins(W, B, Last(Front(h)), regs.PATICL, regs.TXSP, C)
  BY <1>1 DEF Above
<1>3. RoleOf(W, C, regs.PATICL) = "ONAR"
  BY <1>1, <1>2, Zenon DEF RoleOf, Role, NodeOf
<1>4. JoinsONAR(W, B, Last(Front(h)), regs.PATICL, regs.TXSP, C)
  BY <1>2, <1>3 DEF Joins
<1>5. C = B /\ Last(Front(h)).fn = "started"
  BY <1>4 DEF JoinsONAR
<1> QED BY <1>1, <1>3, <1>4, <1>5

LEMMA RepeatOnce ==
  ASSUME NEW W, Worlds(W), NEW F, NEW h, NEW s, NEW cs, NEW nm, NEW regs, NEW C,
         MatchAt(W, F, h, s, cs, nm, regs, "ONAR", C)
  PROVE  Live(W, F, h, s, cs, nm, regs, "SCOK")
<1> DEFINE o == regs.PATICL
           cur == regs.TXSP
<1>1. /\ Stands(W, F, C, s, cs) /\ Ours(W, F, regs) /\ regs.PATBCL = Last(C).pat /\ regs.MAXLEN = Last(C).max
      /\ Sound(W, C)
  BY MatchIs
<1>2. PICK n : /\ Above(W, F, h, nm, regs, C, n, C) /\ n.fn = "ONAR"
               /\ RoleOf(W, C, o) = "ONAR" /\ Last(Front(h)).fn = "started"
               /\ JoinsONAR(W, C, Last(Front(h)), o, cur, C)
  BY Repeating
<1>3. /\ n = NodeOf(W, C, o) /\ o \in 0 .. Len(Pat(W, C)) - 1 /\ Last(C).pat \in DOMAIN W.nodes
      /\ Held(W, F, Front(h), nm, C)
      /\ Last(h).fn = Link /\ Last(h).or = n.or /\ Last(h).owner = Last(C).pat /\ Last(h).cur = cur
      /\ Last(h) \in EntrySet(W) /\ AnySeq(h) /\ h # <<>> /\ regs.then = n.then
      /\ W.quick => cur <= Last(C).max
  BY <1>2 DEF Above
<1>4. PICK q \in 0 .. Len(Pat(W, C)) - 1 :
        /\ Earb(W, C, q)
        /\ \/ o = q + 1 /\ NodeOf(W, C, o).fn = "SCOK"
           \/ o = q + 2 /\ NodeOf(W, C, o).fn = "ONAR"
           \/ o = q + 3 /\ NodeOf(W, C, o).fn = "ONRF"
  BY <1>2, <1>3, OnarNode
<1>5. o = q + 2 /\ n.or = q + 3 /\ q + 3 # 0
  BY <1>2, <1>3, <1>4 DEF Earb
<1>6. Joins(W, C, Last(Front(h)), q + 3, cur, C) /\ RoleOf(W, C, q + 3) = "ONAR"
  <2>1. JoinsONAR(W, C, Last(Front(h)), q + 2, cur, C)
    BY <1>2, <1>5
  <2> QED BY <1>4, <2>1, OnarStep
<1>7. Step(W, C, Under(F, Front(h), Len(Front(h))), Last(Front(h)), Last(h), C)
  BY <1>3, <1>5, <1>6 DEF Step, StepLink
<1>8. Held(W, F, h, nm, C) /\ Last(h).fn # "started"
  <2>1. Last(h).fn # "DNME" /\ Last(h).fn # "started"
    BY <1>3, LinkIs
  <2> QED BY <1>1, <1>3, <1>7, <2>1, HeldAgain
<1>9. Next_(W, F, C, cs, regs, C, s, regs)
  BY <1>1 DEF Next_, Later, Ours
<1>10. GoesOn(W, C, Last(h), regs.then, cur, C)
  <2>1. Last(C).open = Leaves(n, W.open[Last(C).pat][o + 1])
    BY <1>2 DEF JoinsONAR, Place, Leaves
  <2>2. n.fn \in Passing
    BY <1>2 DEF Passing, Fns
  <2> QED BY <1>3, <1>8, <2>1, <2>2, GoesAfter
<1> QED BY <1>8, <1>9, <1>10, LiveGoing

LEMMA RepeatBack ==
  ASSUME NEW W, Worlds(W), NEW F, NEW h, NEW s, NEW cs, NEW nm, NEW regs, NEW td \in {"ONAR", "ONRF"}, NEW C,
         MatchAt(W, F, h, s, cs, nm, regs, td, C), NEW td2 \in {"SALT", "SALF"},
         NEW x, x = Last(Front(h)).or
  PROVE  Live(W, F, Front(Front(h)), Append(s, Cell("arbno", x)), cs, nm, regs, td2)
<1> DEFINE h1 == Front(h)
           s2 == Append(s, Cell("arbno", x))
           C2 == Pushed(C, "arbno")
<1>1. /\ Stands(W, F, C, s, cs) /\ Ours(W, F, regs) /\ regs.PATBCL = Last(C).pat /\ regs.MAXLEN = Last(C).max
      /\ Sound(W, C)
  BY MatchIs
<1>2. Held(W, F, h1, nm, C) /\ Last(h1).fn = "started"
  <2>1. PICK n : Above(W, F, h, nm, regs, C, n, C) /\ Last(Front(h)).fn = "started"
    BY Repeating
  <2> QED BY <2>1 DEF Above
<1>3. Last(h1) \in EntrySet(W) /\ Len(h1) > Bot(F)
  BY <1>2, HeldIs, AboveBottom
<1>4. x \in Int
  BY <1>3 DEF EntrySet
<1> HIDE DEF h1
<1>5. PICK B : /\ Held(W, F, Front(h1), nm, B)
               /\ Step(W, B, Under(F, Front(h1), Len(Front(h1))), Last(Front(h1)), Last(h1), C)
  BY <1>2, <1>3, HeldPopped
<1>6. B = C2 /\ Last(Front(h1)).fn # "started"
  BY <1>2, <1>5, LinkIs DEF Step
<1>7. Stands(W, F, C2, s2, cs) /\ Last(C2).pat = Last(C).pat /\ Last(C2).max = Last(C).max
  BY <1>1, <1>4, StandsPushed, PushedIs DEF Tags
<1> HIDE DEF C2, s2
<1>8. Next_(W, F, C, cs, regs, C2, s2, regs)
  BY <1>1, <1>7 DEF Next_, Later, Ours
<1>9. Live(W, F, Front(h1), s2, cs, nm, regs, td2)
  BY <1>5, <1>6, <1>8, LiveBacking
<1> QED BY <1>9 DEF s2, h1

(* SUCF: an entry that succeeds once more.                                 *)
LEMMA Succeeding ==
  ASSUME NEW W, Worlds(W), NEW F, NEW h, NEW s, NEW cs, NEW nm, NEW regs, NEW C,
         MatchAt(W, F, h, s, cs, nm, regs, "SUCF", C),
         NEW regs2, Later(W, regs, regs2), regs2.then = Last(h).then, regs2.TXSP = regs.TXSP,
         NEW e \in EntrySet(W), e.fn = "SUCF", e.cur = regs.TXSP
  PROVE  Live(W, F, Append(h, e), s, cs, nm, regs2, "SCOK")
<1> DEFINE h2 == Append(h, e)
<1>1. InSUCF(W, F, h, nm, regs, C)
  <2>1. Phase(W, F, h, nm, regs, "SUCF", C)
    BY MatchIs
  <2> QED BY <2>1, Phases
<1>2. Held(W, F, h, nm, C) /\ Last(h).fn = Link /\ Follows(W, C, Last(h).then, regs.TXSP)
  BY <1>1 DEF InSUCF
<1>3. Sound(W, C) /\ AnySeq(h)
  BY <1>2, HeldIs
<1>4. Step(W, C, Under(F, h, Len(h)), Last(h), e, C)
  BY <1>2, LinkIs DEF Step, StepSUCF
<1>5. Held(W, F, h2, nm, C) /\ Last(h2) = e
  BY <1>2, <1>3, <1>4, HeldPushed, AnyAppend
<1> HIDE DEF h2
<1>6. Next_(W, F, C, cs, regs, C, s, regs2)
  BY SameLevels
<1>7. GoesOn(W, C, Last(h2), regs2.then, regs2.TXSP, C)
  <2>1. Last(h2).fn # "started"
    BY <1>5
  <2> QED BY <1>2, <2>1, FollowsOn
<1>8. Live(W, F, h2, s, cs, nm, regs2, "SCOK")
  BY <1>5, <1>6, <1>7, LiveGoing
<1> QED BY <1>8 DEF h2

(* A match begins, at the node 0 of a pattern.                             *)
LEMMA MatchBegins ==
  ASSUME NEW W, Worlds(W), NEW F, AnySeq(F.hist), AnySeq(F.named), NEW s, NEW cs, cs = F.calls, AnySeq(cs),
         Prefix(F.stk, s), Len(s) = Floor(W, F), W.anchored \/ s[Floor(W, F)].use = "head",
         NEW regs, Ours(W, F, regs), regs.PATICL = 0,
         NEW e \in EntrySet(W), e.fn = IF W.anchored THEN "SCFL" ELSE "SCON"
  PROVE  Live(W, F, Append(F.hist, e), s, cs, F.named, regs, "node")
<1> DEFINE h == Append(F.hist, e)
           p == regs.PATBCL
           m == regs.MAXLEN
           L == Level(p, m, Floor(W, F))
           D == <<L>>
<1>1. regs \in Registers(W) /\ m \in Int /\ p \in DOMAIN W.nodes
  <2>1. regs \in Registers(W)
    BY DEF Ours
  <2> QED BY <2>1, RegistersAre
<1>2. Floor(W, F) \in Nat
  <2>1. Len(s) \in Nat
    BY AnyRange DEF Prefix
  <2> QED BY <2>1
<1> HIDE DEF p, m
<1>3. /\ L \in Levels(W) /\ L.pat = p /\ L.max = m /\ L.at = Floor(W, F) /\ L.open = <<>>
  BY <1>1, <1>2 DEF Level, Levels
<1> HIDE DEF L
<1>4. D \in Seq(Levels(W)) /\ Len(D) = 1 /\ D[1] = L /\ D # <<>>
  BY <1>3
<1>5. Sound(W, D) /\ Last(D) = L
  BY <1>4 DEF Sound, Last
<1> HIDE DEF D
<1>6. Height(D) = Floor(W, F)
  <2>1. Len(<<>>) = 0
    BY PrefixEmpty
  <2> QED BY <1>2, <1>3, <1>5, <2>1 DEF Height
<1>7. Stands(W, F, D, s, cs)
  <2>1. Len(cs) = Len(F.calls) + Len(D) - 1 /\ Prefix(F.calls, cs)
    <3>1. Len(F.calls) \in Nat
      BY AnyRange
    <3>2. Prefix(cs, cs)
      BY PrefixSelf
    <3> QED BY <1>4, <3>1, <3>2
  <2>2. \A j \in 1 .. Len(D) : StartsOf(D[j], s)
    <3>1. Len(<<>>) = 0
      BY PrefixEmpty
    <3>2. StartsOf(L, s)
      BY <1>3, <3>1 DEF StartsOf
    <3> QED BY <1>4, <3>2
  <2>3. 1 .. Len(D) - 1 = {}
    BY <1>4
  <2> QED BY <1>3, <1>4, <1>5, <1>6, <2>1, <2>2, <2>3 DEF Stands
<1>8. Held(W, F, h, F.named, D)
  BY <1>3, <1>4, <1>5, HeldStarts
<1>9. Last(h) = e
  BY AnyAppend
<1> HIDE DEF h
<1>10. Joins(W, D, Last(h), 0, regs.TXSP, D)
  <2>1. Plain(W.nodes[p], W.open[p], 0, <<>>) /\ Len(W.nodes[p]) \in Nat \ {0}
    BY <1>1, WorldIs
  <2>2. 0 \in 0 .. Len(W.nodes[p]) - 1
    BY <2>1
  <2>3. Place(W, D, 0) /\ RoleOf(W, D, 0) = "plain"
    BY <1>3, <1>5, <2>1, <2>2 DEF Place, RoleOf, Plain
  <2>4. Last(h).fn # "started"
    BY <1>9
  <2> QED BY <2>3, <2>4 DEF Joins
<1>11. Phase(W, F, h, F.named, regs, "node", D)
  BY <1>8, <1>10 DEF Phase, Joining
<1>12. Live(W, F, h, s, cs, F.named, regs, "node")
  BY <1>3, <1>5, <1>7, <1>11 DEF Live, MatchAt, p, m
<1> QED BY <1>12 DEF h

(* SCON: the next place to begin at.                                       *)
LEMMA BeginsAgain ==
  ASSUME NEW W, Worlds(W), NEW F, NEW h, NEW s, NEW cs, NEW nm, NEW regs, NEW C,
         MatchAt(W, F, h, s, cs, nm, regs, "SCON", C),
         NEW regs2, Ours(W, F, regs2), regs2.PATICL = 0,
         NEW e \in EntrySet(W), e.fn = "SCON", NEW x
  PROVE  Live(W, F, Append(h, e), Append(Front(s), Cell("head", x)), cs, nm, regs2, "node")
<1> DEFINE s2 == Append(Front(s), Cell("head", x))
<1>1. Stands(W, F, C, s, cs) /\ Sound(W, C) /\ regs.MAXLEN \in Int /\ regs2 \in Registers(W)
  BY MatchIs DEF Ours
<1>2. ~ W.anchored /\ AtBottom(W, F, h, nm, C)
  <2>1. Phase(W, F, h, nm, regs, "SCON", C)
    BY MatchIs
  <2> QED BY <2>1, Phases
<1>4. h = F.hist /\ nm = F.named /\ AnySeq(F.hist) /\ AnySeq(F.named)
  BY <1>2, PrefixWhole DEF AtBottom, Prefix
<1>5. /\ AnySeq(s) /\ Len(s) \in Nat /\ Len(F.stk) \in Nat /\ Floor(W, F) = Len(F.stk) + 1
      /\ Floor(W, F) \in Nat /\ Prefix(F.stk, s) /\ Prefix(F.calls, cs)
  <2>1. AnySeq(s) /\ Len(s) \in Nat /\ Len(F.stk) \in Nat /\ Floor(W, F) \in Nat
    BY <1>1, StandsIs
  <2>2. Floor(W, F) = Len(F.stk) + 1
    BY <1>2 DEF Floor
  <2>3. Prefix(F.stk, s) /\ Prefix(F.calls, cs)
    BY <1>1 DEF Stands
  <2> QED BY <2>1, <2>2, <2>3
<1>6. Len(C) = 1 /\ C[1].open = <<>> /\ C[1].at = Floor(W, F)
  BY <1>1, <1>2 DEF AtBottom, Stands
<1>7. Len(s) = Floor(W, F) /\ Len(cs) = Len(F.calls)
  <2>1. Last(C) = C[1]
    BY <1>1, <1>6, SoundIs
  <2>2. Len(s) = C[1].at + Len(C[1].open)
    BY <1>1, <2>1 DEF Stands, Height
  <2>3. Len(<<>>) = 0
    BY <1>5, PrefixEmpty
  <2>4. Len(cs) = Len(F.calls) + Len(C) - 1
    BY <1>1 DEF Stands
  <2>5. Len(F.calls) \in Nat
    BY <1>1, StandsIs
  <2> QED BY <1>5, <1>6, <2>2, <2>3, <2>4, <2>5
<1>8. Prefix(F.stk, s2) /\ Len(s2) = Floor(W, F) /\ s2[Floor(W, F)].use = "head"
  <2>1. s # <<>>
    BY <1>5, <1>7
  <2>2. Prefix(F.stk, Front(s)) /\ Len(Front(s)) = Len(F.stk) /\ AnySeq(Front(s))
    BY <1>5, <1>7, <2>1, PrefixFront, AnyFront
  <2>3. Prefix(F.stk, s2)
    BY <2>2, PrefixAppend
  <2>4. Len(s2) = Len(F.stk) + 1 /\ s2[Len(F.stk) + 1] = Cell("head", x)
    BY <2>2, AnyAppend
  <2> HIDE DEF s2
  <2> QED BY <1>5, <2>3, <2>4 DEF Cell
<1> HIDE DEF s2
<1>9. cs = F.calls /\ AnySeq(cs)
  <2>1. Prefix(F.calls, cs)
    BY <1>5
  <2>2. cs = F.calls
    BY <1>7, <2>1, PrefixWhole
  <2> QED BY <2>1, <2>2 DEF Prefix
<1>10. e.fn = IF W.anchored THEN "SCFL" ELSE "SCON"
  BY <1>2
<1>11. Live(W, F, Append(F.hist, e), s2, cs, F.named, regs2, "node")
  BY <1>4, <1>8, <1>9, <1>10, MatchBegins
<1> QED BY <1>4, <1>11 DEF s2

(* BREAKX: its entry and one more, which go on from the break character.   *)
LEMMA BreakIs ==
  ASSUME NEW W, Worlds(W), NEW F, NEW h, NEW s, NEW cs, NEW nm, NEW regs, NEW C,
         MatchAt(W, F, h, s, cs, nm, regs, "BRKX", C)
  PROVE  /\ Held(W, F, h, nm, C) /\ Last(h).fn = Link /\ Last(h).fn # "started" /\ Len(h) > Bot(F)
         /\ Place(W, C, regs.PATICL) /\ NodeOf(W, C, regs.PATICL).fn = "BRKX"
         /\ Last(h).then = regs.then /\ regs.then = NodeOf(W, C, regs.PATICL).then
<1>1. InBRKX(W, F, h, nm, regs, C)
  <2>1. Phase(W, F, h, nm, regs, "BRKX", C)
    BY MatchIs
  <2> QED BY <2>1, Phases
<1> QED BY <1>1, LinkIs DEF InBRKX, At, ProcOf

LEMMA BreakFails ==
  ASSUME NEW W, Worlds(W), NEW F, NEW h, NEW s, NEW cs, NEW nm, NEW regs, NEW C,
         MatchAt(W, F, h, s, cs, nm, regs, "BRKX", C),
         NEW regs2, Later(W, regs, regs2), NEW td2 \in {"SALT", "SALF"}
  PROVE  Live(W, F, h, s, cs, nm, regs2, td2)
<1>1. Next_(W, F, C, cs, regs, C, s, regs2)
  BY SameLevels
<1> QED BY <1>1, BreakIs, LiveBacking

LEMMA BreakGoes ==
  ASSUME NEW W, Worlds(W), NEW F, NEW h, NEW s, NEW cs, NEW nm, NEW regs, NEW C,
         MatchAt(W, F, h, s, cs, nm, regs, "BRKX", C),
         NEW regs2, Later(W, regs, regs2), regs2.then = regs.then, W.quick => regs2.TXSP <= Last(C).max,
         NEW a \in EntrySet(W), a.fn = Link, a.or = 0, a.cur = regs.PATICL,
         NEW e \in EntrySet(W), e.fn = "BRKXF"
  PROVE  Live(W, F, Append(Append(h, a), e), s, cs, nm, regs2, "SCOK")
<1> DEFINE o == regs.PATICL
           h1 == Append(h, a)
           h2 == Append(h1, e)
<1>1. /\ Held(W, F, h, nm, C) /\ Last(h).fn = Link /\ Last(h).fn # "started" /\ Len(h) > Bot(F)
      /\ Place(W, C, o) /\ NodeOf(W, C, o).fn = "BRKX"
      /\ Last(h).then = regs.then /\ regs.then = NodeOf(W, C, o).then
  BY BreakIs
<1>2. AnySeq(h) /\ Sound(W, C) /\ Len(h) \in Nat /\ Bot(F) \in Nat /\ Last(h) = h[Len(h)] /\ h # <<>>
  BY <1>1, HeldIs
<1>3. Last(C).pat \in DOMAIN W.nodes
  BY MatchIs
<1>4. Step(W, C, Under(F, h, Len(h)), Last(h), a, C)
  BY <1>1 DEF Step, StepLink
<1>5. Held(W, F, h1, nm, C)
  BY <1>1, <1>2, <1>4, LinkIs, HeldPushed
<1>6. AnySeq(h1) /\ Len(h1) = Len(h) + 1 /\ Last(h1) = a /\ h1[Len(h)] = Last(h)
  <2>1. Len(h) \in 1 .. Len(h)
    <3>1. Len(h) > Bot(F) /\ Bot(F) \in Nat /\ Len(h) \in Nat
      BY <1>1, <1>2
    <3> QED BY <3>1
  <2> QED BY <1>2, <2>1, AnyAppend
<1> HIDE DEF h1
<1>7. Under(F, h1, Len(h1)) = Last(h)
  <2>1. Len(h1) > Bot(F) /\ Len(h1) - 1 = Len(h)
    BY <1>1, <1>2, <1>6
  <2> QED BY <1>6, <2>1 DEF Under
<1>8. Step(W, C, Under(F, h1, Len(h1)), Last(h1), e, C)
  <2>1. Breaks(W, C, Last(h1).cur, Under(F, h1, Len(h1)))
    BY <1>1, <1>6, <1>7 DEF Breaks
  <2> QED BY <1>6, <2>1, LinkIs DEF Step, StepBRKXF
<1>9. Held(W, F, h2, nm, C) /\ Last(h2).fn # "started"
  BY <1>2, <1>5, <1>6, <1>8, HeldPushed, AnyAppend
<1> HIDE DEF h2
<1>10. Next_(W, F, C, cs, regs, C, s, regs2)
  BY SameLevels
<1>11. NodeOf(W, C, o).fn \in Simple
  BY <1>1 DEF Simple
<1>12. Live(W, F, h2, s, cs, nm, regs2, "SCOK")
  BY <1>1, <1>3, <1>9, <1>10, <1>11, NodeSucceeds
<1> QED BY <1>12 DEF h2, h1

(* BRKXF: there is nothing more to find, or BREAKX goes on.                *)
LEMMA BreakAgain ==
  ASSUME NEW W, Worlds(W), NEW F, NEW h, NEW s, NEW cs, NEW nm, NEW regs, NEW C,
         MatchAt(W, F, h, s, cs, nm, regs, "BRKXF", C)
  PROVE  /\ Held(W, F, Front(h), nm, C) /\ Last(Front(h)).fn = Link /\ Last(Front(h)).fn # "started"
         /\ Len(Front(h)) > Bot(F) /\ Breaks(W, C, Last(h).cur, Last(Front(h)))
<1> DEFINE h1 == Front(h)
<1>1. InBRKXF(W, F, h, nm, regs, C)
  <2>1. Phase(W, F, h, nm, regs, "BRKXF", C)
    BY MatchIs
  <2> QED BY <2>1, Phases
<1>2. /\ Len(h) > Bot(F) /\ Held(W, F, h, nm, C) /\ Last(h).fn = Link /\ Last(h).or = 0
      /\ Breaks(W, C, Last(h).cur, Under(F, h, Len(h)))
  BY <1>1 DEF InBRKXF
<1>3. AnySeq(h) /\ h # <<>> /\ Len(h) \in Nat /\ Bot(F) \in Nat \ {0}
  BY <1>2, HeldIs
<1>4. /\ AnySeq(h1) /\ Len(h1) = Len(h) - 1 /\ \A i \in 1 .. Len(h) - 1 : h1[i] = h[i]
  BY <1>3, AnyFront
<1>5. PICK B : /\ Held(W, F, h1, nm, B)
               /\ Step(W, B, Under(F, h1, Len(h1)), Last(h1), Last(h), C)
  BY <1>2, LinkIs, HeldPopped
<1>6. C = B
  BY <1>2, <1>5, LinkIs DEF Step, StepLink
<1>7. Last(h1) = h[Len(h) - 1] /\ Under(F, h, Len(h)) = h[Len(h) - 1]
  <2>1. Last(h1) = h1[Len(h1)]
    BY <1>5, HeldIs
  <2>2. Len(h) - 1 \in 1 .. Len(h) - 1
    <3>1. Len(h) \in Nat /\ Bot(F) \in Nat \ {0} /\ Len(h) > Bot(F)
      BY <1>2, <1>3
    <3> QED BY <3>1
  <2> QED BY <1>2, <1>4, <2>1, <2>2 DEF Under
<1>8. Breaks(W, C, Last(h).cur, Last(h1)) /\ Last(h1).fn = Link
  BY <1>2, <1>7 DEF Breaks
<1>9. Len(h1) > Bot(F) /\ Last(h1).fn # "started"
  BY <1>5, <1>8, AboveBottom, LinkIs
<1> QED BY <1>5, <1>6, <1>8, <1>9

LEMMA BreakEnds ==
  ASSUME NEW W, Worlds(W), NEW F, NEW h, NEW s, NEW cs, NEW nm, NEW regs, NEW C,
         MatchAt(W, F, h, s, cs, nm, regs, "BRKXF", C),
         NEW regs2, Later(W, regs, regs2), NEW td2 \in {"SALT", "SALF"}
  PROVE  Live(W, F, Front(h), s, cs, nm, regs2, td2)
<1>1. Next_(W, F, C, cs, regs, C, s, regs2)
  BY SameLevels
<1>2. Held(W, F, Front(h), nm, C) /\ Last(Front(h)).fn # "started"
  BY BreakAgain
<1> QED BY <1>1, <1>2, LiveBacking

LEMMA BreakRetried ==
  ASSUME NEW W, Worlds(W), NEW F, NEW h, NEW s, NEW cs, NEW nm, NEW regs, NEW C,
         MatchAt(W, F, h, s, cs, nm, regs, "BRKXF", C),
         NEW regs2, Later(W, regs, regs2), regs2.PATICL = Last(h).cur, regs2.then = Last(Front(h)).then
  PROVE  Live(W, F, Front(h), s, cs, nm, regs2, "BRKX")
<1> DEFINE h1 == Front(h)
<1>1. Next_(W, F, C, cs, regs, C, s, regs2)
  BY SameLevels
<1>2. /\ Held(W, F, h1, nm, C) /\ Last(h1).fn = Link /\ Len(h1) > Bot(F)
      /\ Breaks(W, C, Last(h).cur, Last(h1))
  BY BreakAgain
<1> HIDE DEF h1
<1>3. /\ Place(W, C, regs2.PATICL) /\ NodeOf(W, C, regs2.PATICL).fn = "BRKX"
      /\ Last(h1).then = NodeOf(W, C, regs2.PATICL).then /\ regs2.then = Last(h1).then
  BY <1>2 DEF Breaks, h1
<1>4. At(W, regs2, "BRKX", C)
  BY <1>3 DEF At, ProcOf, Place
<1>5. InBRKX(W, F, h1, nm, regs2, C)
  BY <1>2, <1>3, <1>4 DEF InBRKX
<1>6. Phase(W, F, h1, nm, regs2, "BRKX", C)
  BY <1>5 DEF Phase
<1> QED BY <1>1, <1>6, LiveNext DEF h1

(* *X: STAR evaluates X, STARV has its value.                              *)
LEMMA StarEvaluated ==
  ASSUME NEW W, NEW F, NEW h, NEW s, NEW cs, NEW nm, NEW regs, NEW C,
         MatchAt(W, F, h, s, cs, nm, regs, "STAR", C)
  PROVE  Live(W, F, h, s, cs, nm, regs, "STARV")
<1>1. InNode1(W, F, h, nm, regs, "STAR", C)
  <2>1. Phase(W, F, h, nm, regs, "STAR", C)
    BY DEF MatchAt
  <2>2. "STAR" \in Own1
    BY DEF Own1
  <2> QED BY <2>1, <2>2, Phases
<1>2. InNode1(W, F, h, nm, regs, "STARV", C)
  BY <1>1 DEF InNode1, At, ProcOf
<1>3. Phase(W, F, h, nm, regs, "STARV", C)
  BY <1>2 DEF Phase, Own1
<1> QED BY <1>3 DEF Live, MatchAt

LEMMA StarOnTop ==
  ASSUME NEW W, Worlds(W), NEW F, NEW h, NEW s, NEW cs, NEW nm, NEW regs, NEW C,
         MatchAt(W, F, h, s, cs, nm, regs, "STARV", C), NEW n, OnTop(W, F, h, nm, regs, C, n), n.fn = "STAR"
  PROVE  /\ StarAt(W, C, regs.PATICL) /\ regs.PATICL \in 0 .. Len(Pat(W, C)) - 1 /\ Place(W, C, regs.PATICL)
         /\ n = NodeOf(W, C, regs.PATICL) /\ regs.then = regs.PATICL + 1 /\ regs.res = n.res
         /\ Held(W, F, h, nm, C) /\ Last(h).fn # "started" /\ n.arg \in DOMAIN W.nodes
<1>1. /\ n = NodeOf(W, C, regs.PATICL) /\ regs.PATICL \in 0 .. Len(Pat(W, C)) - 1 /\ Last(C).pat \in DOMAIN W.nodes
      /\ Place(W, C, regs.PATICL) /\ regs.then = n.then /\ regs.res = n.res
      /\ Held(W, F, h, nm, C) /\ Last(h).fn # "started"
  BY DEF OnTop
<1>2. StarAt(W, C, regs.PATICL)
  BY <1>1, StarNode
<1>3. n.then = regs.PATICL + 1 /\ n.arg \in Names
  BY <1>1, <1>2 DEF StarAt
<1>4. n.arg \in DOMAIN W.nodes
  BY <1>3 DEF Worlds
<1> QED BY <1>1, <1>2, <1>3, <1>4

(* The value is a string.                                                  *)
LEMMA StarString ==
  ASSUME NEW W, Worlds(W), NEW F, NEW h, NEW s, NEW cs, NEW nm, NEW regs, NEW C,
         MatchAt(W, F, h, s, cs, nm, regs, "STARV", C), NEW n, OnTop(W, F, h, nm, regs, C, n), n.fn = "STAR",
         IsString(n.arg), NEW regs2, Later(W, regs, regs2), regs2.then = regs.then
  PROVE  Live(W, F, h, s, cs, nm, regs2, "SCOK")
<1> DEFINE q == regs.PATICL
<1>1. Next_(W, F, C, cs, regs, C, s, regs2)
  BY SameLevels
<1>2. /\ StarAt(W, C, q) /\ q \in 0 .. Len(Pat(W, C)) - 1 /\ Place(W, C, q)
      /\ n = NodeOf(W, C, q) /\ regs.then = q + 1 /\ Held(W, F, h, nm, C) /\ Last(h).fn # "started"
  BY StarOnTop
<1>3. /\ q + 1 \in 0 .. Len(Pat(W, C)) - 1 /\ q + 1 # 0 /\ RoleOf(W, C, q + 1) = "DSAR"
      /\ Star(W, C, q + 1) = n.arg /\ W.open[Last(C).pat][(q + 1) + 1] = W.open[Last(C).pat][q + 1]
  <2>1. 1 \in 1 .. 2
    OBVIOUS
  <2> HIDE DEF q
  <2> QED BY <1>2, <2>1 DEF StarAt
<1>4. Place(W, C, q + 1)
  BY <1>2, <1>3 DEF Place, Pat
<1>5. JoinsDSAR(W, C, Last(h), q + 1, regs2.TXSP, C)
  BY <1>2, <1>3, <1>4 DEF JoinsDSAR
<1>6. GoesOn(W, C, Last(h), regs2.then, regs2.TXSP, C)
  BY <1>2, <1>3, <1>5 DEF GoesOn, Joins
<1> QED BY <1>1, <1>2, <1>6, LiveGoing

(* The value is a pattern: a SCIN1 of its own.                             *)
StarOf(W, C, regs, q, x, max2) ==
    /\ regs.PATBCL = Last(C).pat /\ regs.MAXLEN = Last(C).max /\ q \in 0 .. Len(Pat(W, C)) - 1
    /\ StarAt(W, C, q) /\ Last(C).open = W.open[Last(C).pat][q + 1] /\ regs.then = q + 1
    /\ regs.res = NodeOf(W, C, q).res /\ x = NodeOf(W, C, q).arg /\ ~ IsString(x)
    /\ max2 = Last(C).max - IF W.quick THEN regs.res ELSE 0

LEMMA StarOpens ==
  ASSUME NEW W, Worlds(W), NEW F, NEW C, NEW s, NEW cs, Stands(W, F, C, s, cs), NEW regs, Ours(W, F, regs),
         NEW q, NEW x, NEW max2, StarOf(W, C, regs, q, x, max2)
  PROVE  /\ Stands(W, F, Opened(C, x, max2), Append(s, [use |-> "kept", r |-> regs]),
                   Append(cs, [use |-> "SCIN", at |-> Len(s) + 1]))
         /\ Sound(W, C) /\ Sound(W, Opened(C, x, max2)) /\ Last(Opened(C, x, max2)).pat = x
         /\ Last(Opened(C, x, max2)).max = max2 /\ Last(Opened(C, x, max2)).open = <<>>
         /\ x \in DOMAIN W.nodes
<1>0. /\ regs.PATBCL = Last(C).pat /\ regs.MAXLEN = Last(C).max /\ q \in 0 .. Len(Pat(W, C)) - 1
      /\ StarAt(W, C, q) /\ Last(C).open = W.open[Last(C).pat][q + 1] /\ regs.then = q + 1
      /\ regs.res = NodeOf(W, C, q).res /\ x = NodeOf(W, C, q).arg /\ ~ IsString(x)
      /\ max2 = Last(C).max - IF W.quick THEN regs.res ELSE 0
  BY DEF StarOf
<1> DEFINE cell == [use |-> "kept", r |-> regs]
           L == Last(C)
           M == Level(x, max2, Height(C) + 1)
           n == NodeOf(W, C, q + 1)
<1>1. Sound(W, C) /\ L \in Levels(W)
  BY SoundIs DEF Stands
<1>2. L.pat \in DOMAIN W.nodes /\ L.max \in Int
  BY <1>1, LevelIs
<1>3. x \in DOMAIN W.nodes
  BY <1>0 DEF StarAt, Worlds
<1>4. regs \in Registers(W) /\ regs.PDLHED = Len(F.hist) /\ regs.NHEDCL = Len(F.named)
  BY DEF Ours, Of
<1>5. max2 \in Int
  <2>1. regs.res \in Int
    BY <1>4, RegistersAre
  <2> QED BY <1>0, <1>2, <2>1
<1>6. /\ q + 1 \in 1 .. Len(W.nodes[L.pat]) - 1 /\ n.fn = "SCOK" /\ n.or = q + 2
      /\ Role(W.nodes[L.pat], q + 1) = "DSAR" /\ NodeOf(W, C, q + 2).arg = x
      /\ n.val = regs.res /\ L.open = W.open[L.pat][(q + 1) + 1]
  <2>1. 1 \in 1 .. 2
    OBVIOUS
  <2>2. /\ q + 1 \in 0 .. Len(Pat(W, C)) - 1 /\ q + 1 # 0 /\ n.fn = "SCOK" /\ n.or = q + 2
        /\ NodeOf(W, C, q + 2).arg = x /\ n.val = regs.res
    BY <1>0 DEF StarAt
  <2>3. RoleOf(W, C, q + 1) = "DSAR" /\ W.open[L.pat][(q + 1) + 1] = W.open[L.pat][q + 1]
    BY <1>0, <2>1 DEF StarAt
  <2>4. q + 1 \in 1 .. Len(W.nodes[L.pat]) - 1
    <3>1. Len(W.nodes[L.pat]) \in Nat
      BY <1>2, WorldIs
    <3> DEFINE l == Len(W.nodes[L.pat])
    <3>2. q + 1 \in 0 .. l - 1 /\ q + 1 # 0 /\ l \in Nat
      BY <2>2, <3>1 DEF Pat
    <3> HIDE DEF l
    <3>3. q + 1 \in 1 .. l - 1
      BY <3>2
    <3> QED BY <3>3 DEF l
  <2> QED BY <1>0, <2>2, <2>3, <2>4 DEF RoleOf
<1>7. W.nodes[L.pat][n.or + 1].arg = x
  <2>1. NodeOf(W, C, n.or).arg = x
    BY <1>6
  <2> QED BY <2>1 DEF NodeOf
<1>8. max2 = L.max - Needed(W, n)
  BY <1>0, <1>6 DEF Needed
<1>9. M.pat = x /\ M.max = max2 /\ M.at = L.at + Len(L.open) + 1 /\ M.open = <<>>
  BY DEF Level, Height
<1>10. n = W.nodes[L.pat][(q + 1) + 1]
  BY DEF NodeOf
<1>11. cell.use = "kept" /\ cell.r = regs
  OBVIOUS
<1> HIDE DEF M, n, L, cell
<1>12. Waits(W, F, L, M, cell)
  BY <1>0, <1>4, <1>6, <1>7, <1>8, <1>9, <1>10, <1>11, Zenon DEF Waits, L
<1>13. Stands(W, F, Opened(C, x, max2), Append(s, cell), Append(cs, [use |-> "SCIN", at |-> Len(s) + 1]))
  BY <1>3, <1>5, <1>12, StandsOpened DEF L, M
<1>14. Sound(W, Opened(C, x, max2)) /\ Last(Opened(C, x, max2)) = M
  BY <1>1, <1>3, <1>5, OpenedIs DEF M
<1> QED BY <1>1, <1>3, <1>9, <1>13, <1>14 DEF cell

LEMMA StarBegins ==
  ASSUME NEW W, Worlds(W), NEW F, NEW h, NEW s, NEW cs, NEW nm, NEW regs, NEW C,
         MatchAt(W, F, h, s, cs, nm, regs, "STARV", C), NEW n, OnTop(W, F, h, nm, regs, C, n), n.fn = "STAR",
         ~ IsString(n.arg), NEW max2, max2 = regs.MAXLEN - IF W.quick THEN regs.res ELSE 0,
         NEW regs2, Ours(W, F, regs2), regs2.PATBCL = n.arg, regs2.PATICL = 0, regs2.MAXLEN = max2,
         NEW e \in EntrySet(W), e.fn = "SCFL"
  PROVE  Live(W, F, Append(h, e), Append(s, [use |-> "kept", r |-> regs]),
              Append(cs, [use |-> "SCIN", at |-> Len(s) + 1]), nm, regs2, "node")
<1> DEFINE q == regs.PATICL
           x == n.arg
           C2 == Opened(C, x, max2)
           h2 == Append(h, e)
           s2 == Append(s, [use |-> "kept", r |-> regs])
           cs2 == Append(cs, [use |-> "SCIN", at |-> Len(s) + 1])
<1>1. /\ Stands(W, F, C, s, cs) /\ Ours(W, F, regs) /\ regs.PATBCL = Last(C).pat /\ regs.MAXLEN = Last(C).max
  BY MatchIs
<1>2. /\ StarAt(W, C, q) /\ q \in 0 .. Len(Pat(W, C)) - 1 /\ Place(W, C, q)
      /\ n = NodeOf(W, C, q) /\ regs.then = q + 1 /\ regs.res = n.res
      /\ Held(W, F, h, nm, C) /\ Last(h).fn # "started"
  BY StarOnTop
<1>3. Last(C).open = W.open[Last(C).pat][q + 1]
  BY <1>2 DEF Place
<1>4. /\ Stands(W, F, C2, s2, cs2) /\ Sound(W, C) /\ Sound(W, C2) /\ Last(C2).pat = x
      /\ Last(C2).max = max2 /\ Last(C2).open = <<>> /\ x \in DOMAIN W.nodes
  <2>1. max2 = Last(C).max - IF W.quick THEN regs.res ELSE 0
    BY <1>1
  <2>2. x = NodeOf(W, C, q).arg /\ regs.res = NodeOf(W, C, q).res /\ ~ IsString(x)
    BY <1>2
  <2>3. StarAt(W, C, q) /\ q \in 0 .. Len(Pat(W, C)) - 1 /\ regs.then = q + 1
    BY <1>2
  <2>4. StarOf(W, C, regs, q, x, max2)
    BY <1>1, <1>3, <2>1, <2>2, <2>3 DEF StarOf
  <2> QED BY <1>1, <2>4, StarOpens
<1>5. Step(W, C, Under(F, h, Len(h)), Last(h), e, C2)
  <2>1. C2 = Opened(C, Last(C2).pat, Last(C2).max)
    BY <1>4
  <2> HIDE DEF C2
  <2> QED BY <1>2, <2>1 DEF Step
<1> HIDE DEF C2, s2, cs2
<1>6. Held(W, F, h2, nm, C2) /\ Last(h2) = e
  <2>1. AnySeq(h)
    BY <1>2, HeldIs
  <2>2. Last(h2) = e
    BY <2>1, AnyAppend
  <2> QED BY <1>2, <1>4, <1>5, <2>2, HeldPushed
<1> HIDE DEF h2
<1>7. Joins(W, C2, Last(h2), 0, regs2.TXSP, C2)
  <2>1. Plain(W.nodes[x], W.open[x], 0, <<>>) /\ Len(W.nodes[x]) \in Nat \ {0}
    BY <1>4, WorldIs
  <2>2. 0 \in 0 .. Len(W.nodes[x]) - 1
    <3> DEFINE l == Len(W.nodes[x])
    <3>1. l \in Nat \ {0}
      BY <2>1
    <3> HIDE DEF l
    <3>2. 0 \in 0 .. l - 1
      BY <3>1
    <3> QED BY <3>2 DEF l
  <2>3. Place(W, C2, 0) /\ RoleOf(W, C2, 0) = "plain"
    BY <1>4, <2>1, <2>2 DEF Place, Plain, RoleOf
  <2>4. Last(h2).fn # "started"
    BY <1>6
  <2> QED BY <2>3, <2>4 DEF Joins
<1>8. Phase(W, F, h2, nm, regs2, "node", C2)
  BY <1>6, <1>7 DEF Phase, Joining
<1>9. Live(W, F, h2, s2, cs2, nm, regs2, "node")
  BY <1>4, <1>8 DEF Live, MatchAt
<1> QED BY <1>9 DEF h2, s2, cs2

(* DSAR: *X is backed up into.                                             *)
LEMMA StarAgain ==
  ASSUME NEW W, Worlds(W), NEW F, NEW h, NEW s, NEW cs, NEW nm, NEW regs, NEW C,
         MatchAt(W, F, h, s, cs, nm, regs, "DSAR", C)
  PROVE  \E n, B, q :
           /\ n = NodeOf(W, C, regs.PATICL) /\ n.arg \in DOMAIN W.nodes /\ Held(W, F, h, nm, B) /\ Last(h).fn # "started"
           /\ StarAt(W, C, q) /\ q \in 0 .. Len(Pat(W, C)) - 1 /\ n.arg = NodeOf(W, C, q).arg
           /\ regs.then = q + 1 /\ regs.res = NodeOf(W, C, q).res /\ n.val = n.res /\ regs.res = n.res
           /\ Last(C).open = W.open[Last(C).pat][q + 1]
           /\ IsString(n.arg) => C = B
           /\ ~ IsString(n.arg) => B = Opened(C, n.arg, Last(C).max - Needed(W, n))
<1> DEFINE o == regs.PATICL
<1>1. PICK n, B : Above(W, F, h, nm, regs, C, n, B) /\ n.fn = "DSAR"
  BY AboveIs DEF Own2
<1>2. /\ n = NodeOf(W, C, o) /\ o \in 0 .. Len(Pat(W, C)) - 1 /\ Last(C).pat \in DOMAIN W.nodes
      /\ Joins(W, B, Last(Front(h)), o, regs.TXSP, C) /\ regs.then = n.then /\ regs.res = n.res
  BY <1>1 DEF Above
<1>3. RoleOf(W, C, o) = "DSAR"
  BY <1>1, <1>2 DEF RoleOf, Role, NodeOf
<1>4. JoinsDSAR(W, B, Last(Front(h)), o, regs.TXSP, C)
  BY <1>2, <1>3 DEF Joins
<1>5. PICK q \in 0 .. Len(Pat(W, C)) - 1 :
           /\ StarAt(W, C, q) /\ NodeOf(W, C, q).fn = "STAR"
           /\ \/ o = q + 1 /\ NodeOf(W, C, o).fn = "SCOK"
              \/ o = q + 2 /\ NodeOf(W, C, o).fn = "DSAR"
  BY <1>2, <1>3, DsarNode
<1>6. o = q + 2
  BY <1>1, <1>2, <1>5
<1>7. /\ n.or = 0 /\ n.then = q + 1 /\ n.arg = NodeOf(W, C, q).arg /\ NodeOf(W, C, q).arg \in Names
      /\ n.val = NodeOf(W, C, q).res /\ n.res = NodeOf(W, C, q).res
  BY <1>2, <1>5, <1>6 DEF StarAt
<1>8. Star(W, C, o) = n.arg
  BY <1>1, <1>2 DEF Star
<1>9. W.open[Last(C).pat][o + 1] = W.open[Last(C).pat][q + 1]
  <2>1. 2 \in 1 .. 2
    OBVIOUS
  <2> QED BY <1>5, <1>6, <2>1 DEF StarAt
<1>10. Last(C).open = W.open[Last(C).pat][o + 1] /\ Last(Front(h)).fn # "started"
  BY <1>4 DEF JoinsDSAR, Place
<1>11. Held(W, F, h, nm, B) /\ Last(h).fn # "started"
  BY <1>1, <1>7, <1>10, AboveAgain
<1>12. /\ IsString(n.arg) => C = B
       /\ ~ IsString(n.arg) => B = Opened(C, n.arg, Last(C).max - Needed(W, n))
  BY <1>2, <1>4, <1>8 DEF JoinsDSAR
<1>13. n.arg \in DOMAIN W.nodes
  BY <1>7 DEF Worlds
<1> HIDE DEF o
<1> QED BY <1>2, <1>5, <1>7, <1>9, <1>10, <1>11, <1>12, <1>13 DEF o

LEMMA StarFails ==
  ASSUME NEW W, Worlds(W), NEW F, NEW h, NEW s, NEW cs, NEW nm, NEW regs, NEW C,
         MatchAt(W, F, h, s, cs, nm, regs, "DSAR", C), IsString(NodeOf(W, C, regs.PATICL).arg),
         NEW td2 \in {"SALT", "SALF"}
  PROVE  Live(W, F, h, s, cs, nm, regs, td2)
<1>1. Held(W, F, h, nm, C) /\ Last(h).fn # "started"
  BY StarAgain
<1>2. Later(W, regs, regs)
  BY MatchIs DEF Later
<1>3. Next_(W, F, C, cs, regs, C, s, regs)
  BY <1>2, SameLevels
<1> QED BY <1>1, <1>3, LiveBacking

LEMMA StarResumes ==
  ASSUME NEW W, Worlds(W), NEW F, NEW h, NEW s, NEW cs, NEW nm, NEW regs, NEW C,
         MatchAt(W, F, h, s, cs, nm, regs, "DSAR", C), NEW x, x = NodeOf(W, C, regs.PATICL).arg, ~ IsString(x),
         NEW max2, max2 = regs.MAXLEN - IF W.quick THEN regs.res ELSE 0,
         NEW regs2, Ours(W, F, regs2), regs2.PATBCL = x, regs2.MAXLEN = max2,
         NEW td2 \in {"SALT", "SALF"}
  PROVE  Live(W, F, h, Append(s, [use |-> "kept", r |-> regs]),
              Append(cs, [use |-> "SCIN", at |-> Len(s) + 1]), nm, regs2, td2)
<1> DEFINE C2 == Opened(C, x, max2)
           s2 == Append(s, [use |-> "kept", r |-> regs])
           cs2 == Append(cs, [use |-> "SCIN", at |-> Len(s) + 1])
<1>1. /\ Stands(W, F, C, s, cs) /\ Ours(W, F, regs) /\ regs.PATBCL = Last(C).pat /\ regs.MAXLEN = Last(C).max
  BY MatchIs
<1>2. PICK n, B, q :
           /\ n = NodeOf(W, C, regs.PATICL) /\ n.arg \in DOMAIN W.nodes /\ Held(W, F, h, nm, B) /\ Last(h).fn # "started"
           /\ StarAt(W, C, q) /\ q \in 0 .. Len(Pat(W, C)) - 1 /\ n.arg = NodeOf(W, C, q).arg
           /\ regs.then = q + 1 /\ regs.res = NodeOf(W, C, q).res /\ n.val = n.res /\ regs.res = n.res
           /\ Last(C).open = W.open[Last(C).pat][q + 1]
           /\ IsString(n.arg) => C = B
           /\ ~ IsString(n.arg) => B = Opened(C, n.arg, Last(C).max - Needed(W, n))
  BY StarAgain
<1>3. max2 = Last(C).max - Needed(W, n) /\ max2 = Last(C).max - IF W.quick THEN regs.res ELSE 0
  BY <1>1, <1>2 DEF Needed
<1>4. B = C2
  BY <1>2, <1>3
<1>5. /\ Stands(W, F, C2, s2, cs2) /\ Last(C2).pat = x /\ Last(C2).max = max2
  <2>1. x = NodeOf(W, C, q).arg
    BY <1>2
  <2>2. /\ StarAt(W, C, q) /\ q \in 0 .. Len(Pat(W, C)) - 1 /\ regs.then = q + 1
        /\ regs.res = NodeOf(W, C, q).res /\ Last(C).open = W.open[Last(C).pat][q + 1]
    BY <1>2
  <2>3. max2 = Last(C).max - IF W.quick THEN regs.res ELSE 0
    BY <1>3
  <2>4. StarOf(W, C, regs, q, x, max2)
    BY <1>1, <2>1, <2>2, <2>3 DEF StarOf
  <2> QED BY <1>1, <2>4, StarOpens
<1> HIDE DEF C2, s2, cs2
<1>6. Phase(W, F, h, nm, regs2, td2, C2)
  BY <1>2, <1>4 DEF Phase, Backing
<1>7. Live(W, F, h, s2, cs2, nm, regs2, td2)
  BY <1>5, <1>6 DEF Live, MatchAt
<1> QED BY <1>7 DEF s2, cs2

-----------------------------------------------------------------------------
(* Where the procedures of nodes leave the cursor: in quickscan mode, not   *)
(* behind what the rest of the pattern must find.                           *)

LEMMA MinOfTwo ==
  ASSUME NEW a \in Int, NEW b \in Int
  PROVE  Min({a, b}) \in Int /\ Min({a, b}) <= a /\ Min({a, b}) <= b
<1>1. \E x \in {a, b} : \A y \in {a, b} : x <= y
  <2>1. CASE a <= b
    BY <2>1
  <2>2. CASE b <= a
    BY <2>2
  <2> QED BY <2>1, <2>2
<1>2. Min({a, b}) \in {a, b} /\ \A y \in {a, b} : Min({a, b}) <= y
  BY <1>1 DEF Min
<1> QED BY <1>2

Within(o) == /\ o.at \in Int /\ o.to \in {"SCOK", "SALT", "SALF"}
             /\ (o.to = "SCOK" /\ Quick) => o.at <= r.MAXLEN
\* The cursor is where the node n may be matched.
Enough(n) == /\ n.val \in Nat /\ Fits(n) /\ r.res \in Nat /\ r.TXSP \in Int /\ r.MAXLEN \in Int
             /\ Len(Subject) \in Nat /\ Quick \in BOOLEAN
             /\ Quick => r.TXSP <= r.MAXLEN /\ r.TXSP + n.val <= r.MAXLEN

LEMMA ToWithin ==
  ASSUME NEW c \in Int, Quick => c <= r.MAXLEN
  PROVE  Within(To(c))
BY DEF Within, To

LEMMA LostWithin ==
  ASSUME r.TXSP \in Int, NEW mood \in {"SALT", "SALF"}
  PROVE  Within(Lost(mood))
BY DEF Within, Lost

LEMMA CHRWithin ==
  ASSUME NEW n, Enough(n), n.fn = "CHR"
  PROVE  Within(CHR(n.arg, r.TXSP))
<1>1. AnySeq(n.arg) /\ Len(n.arg) <= n.val
  BY DEF Enough, Fits
<1>2. Len(n.arg) \in Nat
  BY <1>1, AnyRange
<1> DEFINE l == Len(n.arg)
           v == n.val
<1>3. l \in Nat /\ l <= v /\ v \in Nat /\ r.TXSP \in Int /\ r.MAXLEN \in Int /\ (Quick => r.TXSP + v <= r.MAXLEN)
  BY <1>1, <1>2 DEF Enough
<1> HIDE DEF l, v
<1>4. r.TXSP + l \in Int /\ (Quick => r.TXSP + l <= r.MAXLEN)
  BY <1>3
<1>5. Within(To(r.TXSP + l))
  BY <1>4, ToWithin
<1>6. Within(Lost("SALT")) /\ Within(Lost("SALF"))
  BY <1>3, LostWithin
<1> QED BY <1>5, <1>6 DEF CHR, l

LEMMA MeasuresWithin ==
  ASSUME NEW n, Enough(n), n.fn \in Measuring
  PROVE  /\ Within(LNTH(n.arg, r.TXSP)) /\ Within(POSI(n.arg, r.TXSP)) /\ Within(RPSI(n.arg, r.TXSP))
         /\ Within(TB(n.arg, r.TXSP)) /\ Within(RTB(n.arg, r.TXSP))
<1> DEFINE x == n.arg
           c == r.TXSP
           m == r.MAXLEN
           l == Len(Subject)
           t == l - x
           res == r.res
<1>1. /\ x \in Nat /\ c \in Int /\ m \in Int /\ l \in Nat /\ res \in Nat /\ t \in Int /\ Quick \in BOOLEAN
      /\ Quick => c <= m
  BY DEF Enough, Fits, Measuring
<1>2. Within(Lost("SALT")) /\ Within(Lost("SALF"))
  BY <1>1, LostWithin
<1> HIDE DEF x, c, m, l, t, res
<1>3. Within(LNTH(x, c))
  <2>1. CASE c + x > m
    BY <1>2, <2>1 DEF LNTH, m
  <2>2. CASE ~ (c + x > m)
    <3>1. c + x \in Int /\ c + x <= m
      BY <1>1, <2>2
    <3>2. Within(To(c + x))
      BY <3>1, ToWithin DEF m
    <3> QED BY <2>2, <3>2 DEF LNTH, m
  <2> QED BY <2>1, <2>2
<1>4. Within(To(c))
  BY <1>1, ToWithin DEF m
<1>5. Within(POSI(x, c))
  BY <1>2, <1>4 DEF POSI
<1>6. Within(RPSI(x, c))
  BY <1>2, <1>4 DEF RPSI
<1>7. Within(TB(x, c))
  <2>1. CASE c > x \/ x > m
    BY <1>2, <2>1 DEF TB, m
  <2>2. CASE ~ (c > x \/ x > m)
    <3>1. x \in Int /\ x <= m
      BY <1>1, <2>2
    <3>2. Within(To(x))
      BY <3>1, ToWithin DEF m
    <3> QED BY <2>2, <3>2 DEF TB, m
  <2> QED BY <2>1, <2>2
<1>8. Within(RTB(x, c))
  <2>1. CASE c > t \/ (Quick /\ m - res < t)
    <3>1. RTB(x, c) = Lost("SALT")
      BY <2>1, Zenon DEF RTB, m, t, l, res
    <3> QED BY <1>2, <3>1
  <2>2. CASE ~ (c > t \/ (Quick /\ m - res < t))
    <3>1. t \in Int /\ (Quick => t <= m)
      BY <1>1, <2>2
    <3>2. Within(To(t))
      BY <3>1, ToWithin DEF m
    <3>3. RTB(x, c) = To(t)
      BY <2>2, Zenon DEF RTB, m, t, l, res
    <3> QED BY <3>2, <3>3
  <2> QED BY <2>1, <2>2
<1> QED BY <1>3, <1>5, <1>6, <1>7, <1>8 DEF x, c

LEMMA ANYCWithin ==
  ASSUME NEW n, Enough(n), n.fn \in {"ANYC", "NNYC"}, NEW x
  PROVE  Within(ANYC(x, r.TXSP))
<1> DEFINE c == r.TXSP
           m == r.MAXLEN
           v == n.val
<1>1. c \in Int /\ m \in Int /\ v \in Nat /\ v >= 1 /\ Quick \in BOOLEAN /\ (Quick => c + v <= m)
  BY DEF Enough, Fits
<1>2. Within(Lost("SALT")) /\ Within(Lost("SALF"))
  BY <1>1, LostWithin
<1> HIDE DEF c, m, v
<1>3. c + 1 \in Int /\ (Quick => c + 1 <= m)
  BY <1>1
<1>4. Within(To(c + 1))
  BY <1>3, ToWithin DEF m
<1> QED BY <1>2, <1>4 DEF ANYC, c

LEMMA VisibleIs ==
  ASSUME r.MAXLEN \in Int, Len(Subject) \in Nat
  PROVE  Visible \in Int /\ (Quick => Visible <= r.MAXLEN + 1)
<1> DEFINE m == r.MAXLEN
           l == Len(Subject)
<1>1. m + 1 \in Int /\ l \in Int
  OBVIOUS
<1> HIDE DEF m, l
<1>2. Min({l, m + 1}) \in Int /\ Min({l, m + 1}) <= m + 1
  BY <1>1, MinOfTwo
<1>3. Visible = IF Quick THEN Min({l, m + 1}) ELSE l
  BY DEF Visible, l, m
<1> QED BY <1>1, <1>2, <1>3 DEF m

LEMMA BRKCWithin ==
  ASSUME r.TXSP \in Int, r.MAXLEN \in Int, Len(Subject) \in Nat, NEW x
  PROVE  Within(BRKC(x, r.TXSP))
<1> DEFINE c == r.TXSP
           m == r.MAXLEN
           v == Visible
           b == {j \in c .. v - 1 : Subject[j + 1] \in x}
<1>1. c \in Int /\ m \in Int /\ v \in Int /\ (Quick => v <= m + 1)
  BY VisibleIs
<1>2. Within(Lost("SALT"))
  BY LostWithin
<1>3. BRKC(x, c) = IF (Quick /\ m < c) \/ b = {} THEN Lost("SALT") ELSE To(Min(b))
  BY DEF BRKC
<1>4. b \subseteq c .. v - 1
  OBVIOUS
<1> HIDE DEF c, m, v, b
<1>5. ASSUME b # {} PROVE Within(To(Min(b)))
  <2>1. v - 1 \in Int
    BY <1>1
  <2>2. Min(b) \in b
    BY <1>1, <1>4, <1>5, <2>1, MinIs
  <2>3. Min(b) \in c .. v - 1
    BY <1>4, <2>2
  <2>4. Min(b) \in Int /\ (Quick => Min(b) <= m)
    BY <1>1, <2>3
  <2> QED BY <2>4, ToWithin DEF m
<1>6. Within(BRKC(x, c))
  BY <1>2, <1>3, <1>5
<1> QED BY <1>6 DEF c

LEMMA SPNCWithin ==
  ASSUME r.TXSP \in Int, r.MAXLEN \in Int, Len(Subject) \in Nat, NEW x
  PROVE  Within(SPNC(x, r.TXSP))
<1> DEFINE c == r.TXSP
           m == r.MAXLEN
           l == Len(Subject)
           e == SpanEnds(x, c, Subject)
<1>1. c \in Int /\ m \in Int /\ l \in Nat /\ e \subseteq c + 1 .. l
  BY DEF SpanEnds
<1>2. Within(Lost("SALT")) /\ Within(Lost("SALF"))
  BY LostWithin
<1>3. SPNC(x, c) = IF l <= c THEN Lost("SALT")
                   ELSE IF e = {} THEN Lost("SALF")
                   ELSE IF Quick /\ Max(e) > m THEN Lost("SALT") ELSE To(Max(e))
  BY DEF SPNC
<1> HIDE DEF c, m, l, e
<1>4. ASSUME e # {}, ~ (Quick /\ Max(e) > m) PROVE Within(To(Max(e)))
  <2>1. c + 1 \in Int /\ l \in Int
    BY <1>1
  <2>2. Max(e) \in e
    BY <1>1, <1>4, <2>1, MaxIs
  <2>3. Max(e) \in c + 1 .. l
    BY <1>1, <2>2
  <2>4. Max(e) \in Int
    BY <2>1, <2>3
  <2>5. Quick => Max(e) <= m
    BY <1>1, <1>4, <2>4
  <2> QED BY <2>4, <2>5, ToWithin DEF m
<1>5. Within(SPNC(x, c))
  BY <1>2, <1>3, <1>4
<1> QED BY <1>5 DEF c

Primitives == {"CHR", "ANYC", "NNYC", "BRKC", "SPNC"} \cup Measuring
LEMMA OutcomeWithin ==
  ASSUME NEW n, Enough(n), n.fn \in Primitives
  PROVE  Within(Outcome(n.fn, n.arg, r.TXSP))
<1> DEFINE x == n.arg
           c == r.TXSP
<1>0. r.TXSP \in Int /\ r.MAXLEN \in Int /\ Len(Subject) \in Nat
  BY DEF Enough
<1>1. CASE n.fn = "CHR"
  <2>1. Outcome(n.fn, x, c) = CHR(x, c)
    BY <1>1 DEF Outcome
  <2> QED BY <1>1, <2>1, CHRWithin
<1>2. CASE n.fn \in Measuring
  <2>1. /\ Within(LNTH(x, c)) /\ Within(POSI(x, c)) /\ Within(RPSI(x, c))
        /\ Within(TB(x, c)) /\ Within(RTB(x, c))
    BY <1>2, MeasuresWithin
  <2>2. Outcome(n.fn, x, c) \in {LNTH(x, c), POSI(x, c), RPSI(x, c), TB(x, c), RTB(x, c)}
    BY <1>2 DEF Outcome, Measuring
  <2> QED BY <2>1, <2>2
<1>3. CASE n.fn \in {"ANYC", "NNYC"}
  <2>1. Within(ANYC(x, c)) /\ Within(ANYC(Chars \ x, c))
    BY <1>3, ANYCWithin
  <2>2. Outcome(n.fn, x, c) \in {ANYC(x, c), ANYC(Chars \ x, c)}
    BY <1>3 DEF Outcome
  <2> QED BY <2>1, <2>2
<1>4. CASE n.fn = "BRKC"
  <2>1. Outcome(n.fn, x, c) = BRKC(x, c)
    BY <1>4 DEF Outcome
  <2> QED BY <1>0, <2>1, BRKCWithin
<1>5. CASE n.fn = "SPNC"
  <2>1. Outcome(n.fn, x, c) = SPNC(x, c)
    BY <1>5 DEF Outcome
  <2> QED BY <1>0, <2>1, SPNCWithin
<1> QED BY <1>1, <1>2, <1>3, <1>4, <1>5 DEF Primitives

-----------------------------------------------------------------------------
(* The invariant.  A statement begins, has a match in progress, and assigns *)
(* its names, and then what is to be replaced; an inner statement has those *)
(* of the outer one below its own.                                          *)

Nothing == [hist |-> <<>>, stk |-> <<>>, calls |-> <<>>, named |-> <<>>]
KindOf(p, F) == IF F.calls = <<>> THEN p.kind ELSE p.inner.kind

Begins(W, F, h, s, cs, nm, regs) ==
    cs = F.calls /\ s = F.stk /\ Prefix(F.hist, h) /\ Prefix(F.named, nm) /\ Ours(W, F, regs)
Ended(p, W, F, h, s, cs, nm, regs, td) ==
    /\ cs = F.calls /\ Prefix(F.stk, s) /\ Prefix(F.hist, h) /\ Prefix(F.named, nm) /\ Ours(W, F, regs)
    /\ KindOf(p, F) = "SJSR" => Len(s) > Len(F.stk) /\ Last(s).use = "tail"
    /\ td = "NMD" \/ td = KindOf(p, F) \/ (td = "SJSRV" /\ KindOf(p, F) = "SJSR")

Matching == {"SALT", "SALF", "SCOK", "node", "ENMI2", "BRKX", "SUCF", "BRKXF", "FNME", "DNME", "DNME1", "SCFL",
             "RTNUL3", "SCON"} \cup Own1 \cup Own2
Running(p, W, F, h, s, cs, nm, regs, td) ==
    \/ td \in Matching /\ Live(W, F, h, s, cs, nm, regs, td)
    \/ td = "SCNR" /\ Begins(W, F, h, s, cs, nm, regs)
    \/ td = "resume" /\ F # Nothing /\ Begins(W, F, h, s, cs, nm, regs)
    \/ td \in {"NMD", "SCAN", "SJSR", "SJSRV", "none"} /\ Ended(p, W, F, h, s, cs, nm, regs, td)
    \/ td = "done"

\* What an outer statement goes on with.
InMatch == {"STAR", "ENMI", "ATP"}
GoesBack(p, W, F, by, k) ==
    \/ /\ by \in InMatch /\ k.PDLPTR = Len(F.hist) /\ k.NAMICL = Len(F.named)
       /\ Live(W, Nothing, F.hist, Front(F.stk), Front(F.calls), F.named, k.r, After_(by))
    \/ /\ by = "NMD" /\ k.NAMICL = Len(F.named) /\ F.hist = <<>>
       /\ Ended(p, W, Nothing, <<>>, Front(F.stk), Front(F.calls), F.named, k.r, "NMD")
    \/ /\ by = "SJSR" /\ F.hist = <<>> /\ F.named = <<>> /\ p.kind = "SJSR" /\ Front(F.calls) = <<>>
       /\ Len(Front(F.stk)) > 0 /\ Last(Front(F.stk)).use = "tail"
Suspended(p, W, F) ==
    \/ F = Nothing
    \/ /\ AnySeq(F.hist) /\ AnySeq(F.stk) /\ AnySeq(F.calls) /\ AnySeq(F.named)
       /\ F.stk # <<>> /\ Last(F.stk).use = "kept" /\ F.calls # <<>> /\ Last(F.calls).at = Len(F.stk)
       /\ Last(F.calls).use \in InMatch \cup {"NMD", "SJSR"}
       /\ GoesBack(p, W, F, Last(F.calls).use, Last(F.stk))

Situation(W) ==
    /\ W.nodes = mem /\ W.quick = Quick /\ W.anchored = problem.anchored /\ Worlds(W)
    /\ problem \in Problems /\ now = [x \in Names |-> x] /\ mem = [p \in Names \cup Statements |-> mem[p]]

IInv == \E W, F : /\ Situation(W) /\ Suspended(problem, W, F)
                  /\ Running(problem, W, F, hist, stk, calls, named, r, todo)

LEMMA ProblemIs ==
  ASSUME NEW p \in Problems
  PROVE  /\ p.fullscan \in BOOLEAN /\ p.anchored \in BOOLEAN
         /\ p.kind \in {"SCAN", "SJSR"} /\ p.inner.kind \in {"SCAN", "SJSR", "none"}
         /\ AnySeq(p.subject) /\ AnySeq(p.inner.subject)
         /\ p.subject \in AllSubjects /\ p.inner.subject \in AllSubjects
<1>1. /\ {p.fullscan, p.anchored} \subseteq BOOLEAN
      /\ p.kind \in {"SCAN", "SJSR"} /\ p.inner.kind \in {"SCAN", "SJSR", "none"}
      /\ \A m \in {p, p.inner} : m.subject \in Seq(Range(m.subject))
  BY ProblemsAssumption
<1>2. AnySeq(p.subject) /\ AnySeq(p.inner.subject)
  BY <1>1 DEF AnySeq
<1>3. p.subject \in AllSubjects /\ p.inner.subject \in AllSubjects
  BY DEF AllSubjects
<1> QED BY <1>1, <1>2, <1>3

LEMMA SubjectIs ==
  ASSUME NEW x \in AllSubjects
  PROVE  AnySeq(x) /\ Len(x) \in Nat
<1>1. AnySeq(x)
  <2>1. CASE x = <<>>
    <3>1. <<>> \in Seq({})
      OBVIOUS
    <3> QED BY <2>1, <3>1 DEF AnySeq
  <2>2. CASE x # <<>>
    <3> DEFINE Y == UNION {{p.subject, p.inner.subject} : p \in Problems}
    <3>0. x \in Y
      <4>1. x \in Y \cup {<<>>}
        BY DEF AllSubjects
      <4> HIDE DEF Y
      <4> QED BY <2>2, <4>1
    <3>1. PICK p \in Problems : x \in {p.subject, p.inner.subject}
      BY <3>0
    <3> QED BY <3>1, ProblemIs
  <2> QED BY <2>1, <2>2
<1> QED BY <1>1, AnyRange

LEMMA SituationIs ==
  ASSUME NEW W, Situation(W)
  PROVE  /\ Worlds(W) /\ W.nodes = mem /\ W.quick = Quick /\ W.anchored = problem.anchored
         /\ Quick \in BOOLEAN /\ W.anchored \in BOOLEAN /\ problem \in Problems
         /\ DOMAIN W.nodes = Names \cup Statements /\ {"outer", "inner"} \subseteq DOMAIN W.nodes
BY ProblemIs DEF Situation, Quick, Statements

LEMMA SituationKept ==
  ASSUME NEW W, Situation(W), UNCHANGED <<problem, mem, now>>
  PROVE  Situation(W)'
BY DEF Situation, Quick

(* A match goes on.                                                        *)
LEMMA KeepsOn ==
  ASSUME NEW W, NEW F, Situation(W), Suspended(problem, W, F), UNCHANGED <<problem, mem, now>>,
         todo' \in Matching, Live(W, F, hist', stk', calls', named', r', todo')
  PROVE  IInv'
<1>1. Situation(W)'
  BY SituationKept
<1>2. Suspended(problem', W, F)
  BY Zenon
<1>3. Running(problem', W, F, hist', stk', calls', named', r', todo')
  BY Zenon DEF Running
<1> QED BY <1>1, <1>2, <1>3 DEF IInv

LEMMA KeepsOnWith ==
  ASSUME NEW W, NEW F, Situation(W), Suspended(problem, W, F), UNCHANGED <<problem, mem, now>>,
         Running(problem, W, F, hist', stk', calls', named', r', todo')
  PROVE  IInv'
<1>1. Situation(W)'
  BY SituationKept
<1>2. Suspended(problem', W, F) /\ Running(problem', W, F, hist', stk', calls', named', r', todo')
  BY Zenon
<1> QED BY <1>1, <1>2 DEF IInv

(* Which statement runs.                                                   *)
CallsOf(F, cs) == Prefix(F.calls, cs) /\ \A k \in Len(F.calls) + 1 .. Len(cs) : cs[k].use = "SCIN"

LEMMA StandsCalls ==
  ASSUME NEW W, NEW F, NEW C, NEW s, NEW cs, Stands(W, F, C, s, cs)
  PROVE  CallsOf(F, cs) /\ Prefix(F.stk, s)
<1> DEFINE c == Len(F.calls)
           l == Len(C)
           n == Len(cs)
<1>1. /\ Prefix(F.calls, cs) /\ Prefix(F.stk, s) /\ n = c + l - 1
      /\ \A j \in 1 .. l - 1 : cs[c + j] = [use |-> "SCIN", at |-> C[j + 1].at]
  BY DEF Stands
<1>2. c \in Nat /\ l \in Nat /\ n \in Nat
  BY StandsIs, SoundIs
<1> HIDE DEF c, l, n
<1>3. ASSUME NEW k \in c + 1 .. n PROVE cs[k].use = "SCIN"
  <2>1. k - c \in 1 .. l - 1 /\ c + (k - c) = k
    BY <1>1, <1>2
  <2>2. cs[c + (k - c)] = [use |-> "SCIN", at |-> C[(k - c) + 1].at]
    BY <1>1, <2>1
  <2> QED BY <2>1, <2>2
<1> QED BY <1>1, <1>3 DEF CallsOf, c, n

LEMMA SuspendedIs ==
  ASSUME NEW p, NEW W, NEW F, Suspended(p, W, F)
  PROVE  /\ AnySeq(F.hist) /\ AnySeq(F.stk) /\ AnySeq(F.calls) /\ AnySeq(F.named)
         /\ F = Nothing <=> F.calls = <<>>
         /\ F.calls # <<>> => /\ F.stk # <<>> /\ Last(F.stk).use = "kept" /\ Last(F.calls).at = Len(F.stk)
                              /\ Last(F.calls).use \in InMatch \cup {"NMD", "SJSR"}
                              /\ GoesBack(p, W, F, Last(F.calls).use, Last(F.stk))
<1>1. AnySeq(<<>>)
  <2>1. <<>> \in Seq({})
    OBVIOUS
  <2> QED BY <2>1 DEF AnySeq
<1>2. CASE F = Nothing
  <2>1. F.hist = <<>> /\ F.stk = <<>> /\ F.calls = <<>> /\ F.named = <<>>
    BY <1>2 DEF Nothing
  <2> QED BY <1>1, <1>2, <2>1
<1>3. CASE F # Nothing
  BY <1>3 DEF Suspended
<1> QED BY <1>2, <1>3

LEMMA Where ==
  ASSUME NEW W, NEW F, Situation(W), Suspended(problem, W, F), CallsOf(F, calls)
  PROVE  /\ Inside <=> F.calls # <<>>
         /\ Inside => /\ LastInner = Len(F.calls) /\ calls[LastInner].at = Len(F.stk)
                      /\ SubSeq(calls, 1, LastInner) = F.calls
         /\ Statement.kind = KindOf(problem, F) /\ Owner \in DOMAIN W.nodes
         /\ Statement.subject \in AllSubjects /\ AnySeq(Statement.subject)
<1> DEFINE f == F.calls
           m == Len(f)
           n == Len(calls)
           S == {k \in DOMAIN calls : calls[k].use # "SCIN"}
<1>1. /\ Prefix(f, calls) /\ AnySeq(f) /\ AnySeq(calls) /\ m \in Nat /\ n \in Nat /\ m <= n
      /\ DOMAIN calls = 1 .. n /\ \A k \in 1 .. m : calls[k] = f[k]
      /\ \A k \in m + 1 .. n : calls[k].use = "SCIN"
  <2>1. Prefix(f, calls) /\ \A k \in m + 1 .. n : calls[k].use = "SCIN"
    BY DEF CallsOf
  <2>2. AnySeq(f) /\ AnySeq(calls) /\ m <= n /\ \A k \in 1 .. m : calls[k] = f[k]
    BY <2>1 DEF Prefix
  <2> QED BY <2>1, <2>2, AnyRange
<1>2. S \subseteq 1 .. m
  BY <1>1
<1>3. f # <<>> => m \in S /\ calls[m] = Last(f)
  <2> SUFFICES ASSUME f # <<>> PROVE m \in S /\ calls[m] = Last(f)
    OBVIOUS
  <2>1. m \in 1 .. m /\ Last(f) = f[m]
    <3>1. m \in Nat \ {0} /\ Last(f) = f[m]
      BY <1>1, AnyFront
    <3> QED BY <3>1
  <2>2. Last(f).use \in InMatch \cup {"NMD", "SJSR"}
    BY SuspendedIs
  <2>3. Last(f).use # "SCIN"
    BY <2>2 DEF InMatch
  <2>4. calls[m] = Last(f) /\ m \in DOMAIN calls
    BY <1>1, <2>1
  <2> QED BY <2>3, <2>4
<1>4. Inside <=> S # {}
  BY DEF Inside
<1>5. f = <<>> => S = {}
  <2>1. f = <<>> => m = 0
    OBVIOUS
  <2> QED BY <1>2, <2>1
<1>6. Inside <=> f # <<>>
  BY <1>3, <1>4, <1>5
<1>7. ASSUME Inside
      PROVE  /\ LastInner = Len(F.calls) /\ calls[LastInner].at = Len(F.stk)
             /\ SubSeq(calls, 1, LastInner) = F.calls
  <2>1. m \in S /\ calls[m] = Last(f)
    BY <1>3, <1>6, <1>7
  <2>2. \E x \in S : \A y \in S : x >= y
    BY <1>2, <2>1
  <2>3. Max(S) \in S /\ \A y \in S : Max(S) >= y
    BY <2>2 DEF Max
  <2>4. Max(S) = m
    <3>1. Max(S) \in 1 .. m /\ Max(S) >= m
      BY <1>2, <2>1, <2>3
    <3> HIDE DEF S, m
    <3> QED BY <1>1, <3>1
  <2>5. LastInner = m
    BY <2>4 DEF LastInner
  <2>6. SubSeq(calls, 1, m) = f
    BY <1>1, PrefixTake
  <2>7. Last(f).at = Len(F.stk)
    BY <1>6, <1>7, SuspendedIs
  <2> QED BY <2>1, <2>5, <2>6, <2>7
<1>8. Statement = IF f = <<>> THEN problem ELSE problem.inner
  BY <1>6 DEF Statement
<1>9. Owner \in DOMAIN W.nodes
  BY SituationIs DEF Owner
<1>10. /\ problem.subject \in AllSubjects /\ problem.inner.subject \in AllSubjects
       /\ AnySeq(problem.subject) /\ AnySeq(problem.inner.subject)
  BY SituationIs, ProblemIs
<1> QED BY <1>6, <1>7, <1>8, <1>9, <1>10 DEF KindOf

(* The statement ends.                                                     *)
LEMMA EndsWell ==
  ASSUME NEW W, NEW F, Situation(W), Suspended(problem, W, F), CallsOf(F, calls), Prefix(F.stk, stk),
         UNCHANGED <<problem, mem, now>>, Prefix(F.hist, hist'), Prefix(F.named, named'), Ours(W, F, r'),
         NEW a, StatementEnds(a)
  PROVE  IInv'
<1>1. /\ Inside <=> F.calls # <<>>
      /\ Inside => /\ LastInner = Len(F.calls) /\ calls[LastInner].at = Len(F.stk)
                   /\ SubSeq(calls, 1, LastInner) = F.calls
  BY Where
<1>2. CASE ~ Inside
  <2>1. todo' = "done"
    BY <1>2 DEF StatementEnds
  <2>2. Running(problem, W, F, hist', stk', calls', named', r', todo')
    BY <2>1 DEF Running
  <2> QED BY <2>2, KeepsOnWith
<1>3. CASE Inside
  <2>1. /\ todo' = "resume" /\ calls' = SubSeq(calls, 1, LastInner)
        /\ stk' = SubSeq(stk, 1, calls[LastInner].at)
    BY <1>3 DEF StatementEnds
  <2>2. calls' = F.calls /\ stk' = SubSeq(stk, 1, Len(F.stk))
    BY <1>1, <1>3, <2>1
  <2>3. stk' = F.stk
    BY <2>2, PrefixTake
  <2>4. Begins(W, F, hist', stk', calls', named', r')
    BY <2>2, <2>3 DEF Begins
  <2>5. F # Nothing
    BY <1>1, <1>3, SuspendedIs
  <2>6. Running(problem, W, F, hist', stk', calls', named', r', todo')
    BY <2>1, <2>4, <2>5, Zenon DEF Running
  <2> QED BY <2>6, KeepsOnWith
<1> QED BY <1>2, <1>3

(* The registers that the actions set.                                     *)
LEMMA SetCursor ==
  ASSUME NEW W, NEW g \in Registers(W), NEW c \in Int, NEW x, x = [g EXCEPT !.TXSP = c]
  PROVE  Later(W, g, x) /\ x.TXSP = c /\ x.then = g.then /\ x.PATICL = g.PATICL /\ x.res = g.res
BY DEF Registers, Later

-----------------------------------------------------------------------------
(* The steps of a match.                                                    *)

On(W, F, C) == /\ Situation(W) /\ Suspended(problem, W, F)
               /\ MatchAt(W, F, hist, stk, calls, named, r, todo, C)

LEMMA InMatching ==
  ASSUME IInv, todo \in Matching
  PROVE  \E W, F, C : On(W, F, C)
<1>1. PICK W, F : /\ Situation(W) /\ Suspended(problem, W, F)
                  /\ Running(problem, W, F, hist, stk, calls, named, r, todo)
  BY DEF IInv
<1>2. todo \notin {"SCNR", "resume", "NMD", "SCAN", "SJSR", "SJSRV", "none", "done"}
  BY DEF Matching, Own1, Own2, Simple, Measuring
<1>3. Live(W, F, hist, stk, calls, named, r, todo)
  BY <1>1, <1>2 DEF Running
<1> QED BY <1>1, <1>3 DEF Live, On

LEMMA OnIs ==
  ASSUME NEW W, NEW F, NEW C, On(W, F, C)
  PROVE  /\ Situation(W) /\ Suspended(problem, W, F) /\ Worlds(W) /\ W.nodes = mem /\ W.quick = Quick
         /\ Quick \in BOOLEAN
         /\ MatchAt(W, F, hist, stk, calls, named, r, todo, C)
         /\ Stands(W, F, C, stk, calls) /\ Sound(W, C) /\ Ours(W, F, r) /\ r \in Registers(W)
         /\ r.PATBCL = Last(C).pat /\ r.MAXLEN = Last(C).max
         /\ Last(C).pat \in DOMAIN W.nodes /\ Last(C).max \in Int
         /\ CallsOf(F, calls) /\ Prefix(F.stk, stk)
         /\ OnNode = NodeOf(W, C, r.PATICL)
<1>1. /\ Situation(W) /\ Suspended(problem, W, F) /\ MatchAt(W, F, hist, stk, calls, named, r, todo, C)
  BY DEF On
<1>2. Worlds(W) /\ W.nodes = mem /\ W.quick = Quick /\ Quick \in BOOLEAN
  BY <1>1, SituationIs
<1>3. /\ Stands(W, F, C, stk, calls) /\ Ours(W, F, r) /\ r \in Registers(W) /\ Sound(W, C)
      /\ r.PATBCL = Last(C).pat /\ r.MAXLEN = Last(C).max
      /\ Last(C).pat \in DOMAIN W.nodes /\ Last(C).max \in Int
  BY <1>1, <1>2, MatchIs
<1>4. CallsOf(F, calls) /\ Prefix(F.stk, stk)
  BY <1>3, StandsCalls
<1>5. OnNode = NodeOf(W, C, r.PATICL)
  BY <1>2, <1>3 DEF OnNode, NodeOf
<1> QED BY <1>1, <1>2, <1>3, <1>4, <1>5

LEMMA GoesLive ==
  ASSUME NEW W, NEW F, NEW C, On(W, F, C), UNCHANGED <<problem, mem, now>>,
         todo' \in Matching, Live(W, F, hist', stk', calls', named', r', todo')
  PROVE  IInv'
BY OnIs, KeepsOn

(* Entries that are made.                                                  *)
LEMMA EntryIs ==
  ASSUME NEW W, r \in Registers(W), NEW fn \in EntryFns, NEW or \in Int, NEW then \in Int, NEW cur \in Int,
         NEW res \in Int, NEW len \in BOOLEAN, NEW e, e = Entry(fn, or, then, cur, res, len)
  PROVE  /\ e \in EntrySet(W) /\ e.fn = fn /\ e.or = or /\ e.then = then /\ e.cur = cur /\ e.res = res
         /\ e.owner = r.PATBCL
BY RegistersAre DEF Entry, EntrySet

LEMMA MatchingIs ==
  /\ {"SALT", "SALF", "SCOK", "node", "ENMI2", "BRKX", "SUCF", "BRKXF", "FNME", "DNME", "DNME1", "SCFL",
      "RTNUL3", "SCON", "STARV", "STAR", "DSAR"} \subseteq Matching
  /\ Fns \subseteq Matching /\ EntryFns \ {Link, "started"} \subseteq Matching
  /\ \A l \in BOOLEAN : Fails(l) \in {"SALT", "SALF"} /\ Fails(l) \in Matching
BY DEF Matching, Fns, Simple, Own1, Own2, Measuring, EntryFns, Fails

LEMMA SCIN3Keeps ==
  ASSUME NEW W, NEW F, NEW C, On(W, F, C), SCIN3
  PROVE  IInv' /\ TMVAL' \in Int
<1> DEFINE o == r.PATICL
           n == NodeOf(W, C, o)
           e == Entry(Link, n.or, n.then, r.TXSP, n.res, r.LENFCL)
<1>1. /\ todo = "node" /\ hist' = Append(hist, e) /\ r' = [r EXCEPT !.then = n.then, !.res = n.res]
      /\ todo' = IF Quick /\ r.TXSP + n.val > r.MAXLEN THEN "SALT" ELSE n.fn
      /\ UNCHANGED <<problem, mem, now, stk, calls, named>>
  BY OnIs DEF SCIN3
<1>2. /\ Worlds(W) /\ W.quick = Quick /\ MatchAt(W, F, hist, stk, calls, named, r, "node", C)
      /\ r \in Registers(W) /\ r.PATBCL = Last(C).pat /\ r.MAXLEN = Last(C).max
      /\ Last(C).pat \in DOMAIN W.nodes /\ Sound(W, C)
  BY <1>1, OnIs
<1>3. r.TXSP \in Int /\ r.LENFCL \in BOOLEAN
  BY <1>2, RegistersAre
<1>4. Joining(W, F, hist, named, r, C)
  <2>1. Phase(W, F, hist, named, r, "node", C)
    BY <1>2, MatchIs
  <2> QED BY <2>1, Phases
<1>5. o \in 0 .. Len(Pat(W, C)) - 1
  <2>1. PICK B : Held(W, F, hist, named, B) /\ Joins(W, B, Last(hist), o, r.TXSP, C)
    BY <1>4 DEF Joining
  <2>2. Sound(W, B)
    BY <2>1, HeldIs
  <2> QED BY <1>2, <2>1, <2>2, JoinsPlace
<1>6. n.fn \in Fns /\ n.val \in Nat /\ n.res \in Nat /\ n.then \in Nat /\ n.or \in Nat
  BY <1>2, <1>5, NodePlace
<1> HIDE DEF n
<1>7. e \in EntrySet(W) /\ OwnEntry(e, n, r.TXSP, Last(C).pat)
  <2>0. e = Entry(Link, n.or, n.then, r.TXSP, n.res, r.LENFCL)
    OBVIOUS
  <2> HIDE DEF e
  <2>1. Link \in EntryFns /\ n.or \in Int /\ n.then \in Int /\ n.res \in Int
    BY <1>6, LinkIs
  <2>2. /\ e \in EntrySet(W) /\ e.fn = Link /\ e.or = n.or /\ e.then = n.then /\ e.cur = r.TXSP /\ e.res = n.res
        /\ e.owner = r.PATBCL
    BY <1>2, <1>3, <2>0, <2>1, EntryIs
  <2> QED BY <1>2, <2>2 DEF OwnEntry
<1>8. Later(W, r, r') /\ r'.TXSP = r.TXSP /\ r'.then = n.then /\ r'.PATICL = o /\ r'.res = n.res
  <2>1. n.then \in Int /\ n.res \in Int
    BY <1>6
  <2>2. r \in Registers(W) /\ r' = [r EXCEPT !.then = n.then, !.res = n.res]
    BY <1>1, <1>2
  <2> HIDE DEF e
  <2> QED BY ONLY <2>1, <2>2 DEF Registers, Later
<1> HIDE DEF e
<1>9. NodeEntered(W, C, r, e, r', n)
  BY <1>7, <1>8 DEF NodeEntered, n
<1>10. todo' = IF Short(W, C, o, r.TXSP) THEN "SALT" ELSE n.fn
  BY <1>1, <1>2 DEF Short, n
<1>11. Live(W, F, Append(hist, e), stk, calls, named, r', todo')
  BY <1>2, <1>9, <1>10, NodeLive
<1>13. TMVAL' \in Int
  <2>1. TMVAL' = n.res
    BY OnIs DEF SCIN3, n
  <2> QED BY <1>6, <2>1
<1>12. todo' \in Matching
  BY <1>6, <1>10, MatchingIs
<1> QED BY <1>1, <1>11, <1>12, <1>13, GoesLive

LEMMA BackUpKeeps ==
  ASSUME NEW W, NEW F, NEW C, On(W, F, C), BackUp
  PROVE  IInv'
<1> DEFINE len == todo = "SALT" /\ Top.len
           back == [r EXCEPT !.LENFCL = len, !.then = Top.then, !.res = Top.res]
<1>1. /\ todo \in {"SALT", "SALF"} /\ hist' = Front(hist) /\ UNCHANGED <<problem, mem, now, stk, calls, named>>
      /\ \/ /\ Top.fn = Link /\ Top.or = 0
            /\ r' = back /\ todo' = Fails(len)
         \/ /\ Top.fn = Link /\ Top.or # 0
            /\ r' = [back EXCEPT !.TXSP = Top.cur, !.PATICL = Top.or]
            /\ todo' = "node"
         \/ /\ Top.fn # Link
            /\ r' = [back EXCEPT !.TXSP = Top.cur]
            /\ todo' = Top.fn
  BY DEF BackUp
<1>2. Worlds(W) /\ MatchAt(W, F, hist, stk, calls, named, r, todo, C) /\ r \in Registers(W)
  BY OnIs
<1>3. Top \in EntrySet(W)
  <2>1. Phase(W, F, hist, named, r, todo, C)
    BY <1>2, MatchIs
  <2>2. Backing(W, F, hist, named, C) \/ Shortened(W, F, hist, named, C)
    BY <1>1, <2>1, Phases
  <2>3. Backing(W, F, hist, named, C) => Last(hist) \in EntrySet(W)
    BY HeldIs DEF Backing
  <2>4. Shortened(W, F, hist, named, C) => Last(hist) \in EntrySet(W)
    BY DEF Shortened
  <2> QED BY <2>2, <2>3, <2>4 DEF Top
<1>4. /\ Top.or \in Int /\ Top.then \in Int /\ Top.cur \in Int /\ Top.res \in Int /\ Top.len \in BOOLEAN
      /\ Top.fn \in EntryFns
  BY <1>3 DEF EntrySet
<1>5. len \in BOOLEAN
  OBVIOUS
<1> HIDE DEF len
<1>6. back \in Registers(W) /\ Later(W, r, back)
  <2>1. back = [r EXCEPT !.LENFCL = len, !.then = Top.then, !.res = Top.res]
    OBVIOUS
  <2> HIDE DEF back
  <2> QED BY ONLY <1>2, <1>4, <1>5, <2>1 DEF Registers, Later
<1> HIDE DEF back
<1>7. Later(W, r, r') /\ Tried(Top, r', todo')
  <2>1. CASE Top.fn = Link /\ Top.or = 0
    <3>1. r' = back /\ todo' = Fails(len)
      BY <1>1, <2>1
    <3>2. Fails(len) \in {"SALT", "SALF"}
      BY <1>5, MatchingIs
    <3> QED BY <1>6, <2>1, <3>1, <3>2 DEF Tried
  <2>2. CASE Top.fn = Link /\ Top.or # 0
    <3>1. r' = [back EXCEPT !.TXSP = Top.cur, !.PATICL = Top.or] /\ todo' = "node"
      BY <1>1, <2>2
    <3>2. Later(W, back, r') /\ r'.TXSP = Top.cur /\ r'.PATICL = Top.or
      BY ONLY <1>4, <1>6, <3>1 DEF Registers, Later
    <3> QED BY <1>6, <2>2, <3>1, <3>2 DEF Tried, Later
  <2>3. CASE Top.fn # Link
    <3>1. r' = [back EXCEPT !.TXSP = Top.cur] /\ todo' = Top.fn
      BY <1>1, <2>3
    <3>2. Later(W, back, r') /\ r'.TXSP = Top.cur
      BY <1>4, <1>6, <3>1, SetCursor
    <3> QED BY <1>6, <2>3, <3>1, <3>2 DEF Tried, Later
  <2> QED BY <2>1, <2>2, <2>3
<1>8. Live(W, F, Front(hist), stk, calls, named, r', todo')
  BY <1>1, <1>2, <1>7, BackedUp DEF Top
<1>9. todo' \in Matching
  <2>1. todo' # "started"
    <3>1. \A C2 : Phase(W, F, Front(hist), named, r', todo', C2) => todo' # "started"
      BY Zenon DEF Phase, Own1, Own2, Simple, Measuring
    <3> QED BY <1>8, <3>1 DEF Live, MatchAt
  <2>2. todo' \in {"SALT", "SALF", "node"} \/ (todo' = Top.fn /\ Top.fn # Link)
    BY <1>7 DEF Tried
  <2> QED BY <1>4, <2>1, <2>2, MatchingIs
<1> QED BY <1>1, <1>8, <1>9, GoesLive

(* The end of a SCIN, and of the match.                                    *)
LEMMA InSCINIs ==
  ASSUME NEW W, NEW F, NEW C, On(W, F, C)
  PROVE  /\ InSCIN <=> Len(C) > 1
         /\ ~ InSCIN => Len(C) = 1 /\ calls = F.calls
         /\ InSCIN => Last(calls).at = Last(C).at
<1>1. /\ Stands(W, F, C, stk, calls) /\ Suspended(problem, W, F) /\ Sound(W, C)
  BY OnIs
<1>2. Prefix(F.calls, calls) /\ Len(calls) = Len(F.calls) + Len(C) - 1
  BY <1>1 DEF Stands
<1>3. Len(C) \in Nat \ {0} /\ Len(F.calls) \in Nat
  BY <1>1, SoundIs, StandsIs
<1>4. CASE Len(C) > 1
  <2>1. calls # <<>> /\ Last(calls) = [use |-> "SCIN", at |-> Last(C).at]
    BY <1>1, <1>4, StandsClosed
  <2>2. Last(calls).use = "SCIN" /\ Last(calls).at = Last(C).at
    BY <2>1
  <2> QED BY <1>4, <2>1, <2>2 DEF InSCIN
<1>5. CASE Len(C) = 1
  <2>1. calls = F.calls
    <3> DEFINE l == Len(C)
               n == Len(calls)
               m == Len(F.calls)
    <3>1. l = 1 /\ n = m + l - 1 /\ m \in Nat
      BY <1>2, <1>3, <1>5
    <3> HIDE DEF l, n, m
    <3>2. n = m
      BY <3>1
    <3>3. Len(calls) = Len(F.calls)
      BY <3>2 DEF n, m
    <3> QED BY <1>2, <3>3, PrefixWhole
  <2>2. F.calls # <<>> => Last(F.calls).use # "SCIN"
    BY <1>1, SuspendedIs DEF InMatch
  <2>3. ~ InSCIN
    BY <2>1, <2>2 DEF InSCIN
  <2>4. ~ Len(C) > 1
    BY <1>5
  <2> QED BY <1>5, <2>1, <2>3, <2>4
<1>6. Len(C) > 1 \/ Len(C) = 1
  <2> DEFINE l == Len(C)
  <2>1. l \in Nat \ {0}
    BY <1>3
  <2> HIDE DEF l
  <2>2. l > 1 \/ l = 1
    BY <2>1
  <2> QED BY <2>2 DEF l
<1> QED BY <1>4, <1>5, <1>6

LEMMA Returns ==
  ASSUME NEW W, NEW F, NEW C, On(W, F, C), InSCIN, SCINReturns
  PROVE  /\ Len(C) > 1 /\ Returned(W, stk[Last(C).at].r, r') /\ r'.TXSP = r.TXSP
         /\ stk' = SubSeq(stk, 1, Last(C).at - 1) /\ calls' = Front(calls)
<1> DEFINE g == stk[Last(C).at].r
<1>1. Len(C) > 1 /\ Last(calls).at = Last(C).at
  BY InSCINIs
<1>2. Stands(W, F, C, stk, calls) /\ r \in Registers(W)
  BY OnIs
<1>3. Waits(W, F, Last(Front(C)), Last(C), stk[Last(C).at])
  BY <1>1, <1>2, StandsClosed
<1>4. g \in Registers(W)
  BY <1>3 DEF Waits
<1>5. /\ r' = [g EXCEPT !.LENFCL = r.LENFCL, !.TXSP = r.TXSP]
      /\ stk' = SubSeq(stk, 1, Last(C).at - 1) /\ calls' = Front(calls)
  BY <1>1 DEF SCINReturns
<1>6. r.LENFCL \in BOOLEAN /\ r.TXSP \in Int
  BY <1>2, RegistersAre
<1> HIDE DEF g
<1>7. Returned(W, g, r') /\ r'.TXSP = r.TXSP
  BY ONLY <1>4, <1>5, <1>6 DEF Registers, Returned
<1> QED BY <1>1, <1>5, <1>7 DEF g

LEMMA SCOKKeeps ==
  ASSUME NEW W, NEW F, NEW C, On(W, F, C), SCOK
  PROVE  IInv'
<1>1. todo = "SCOK" /\ UNCHANGED <<problem, mem, now, hist, named>>
  BY DEF SCOK
<1>2. /\ Worlds(W) /\ MatchAt(W, F, hist, stk, calls, named, r, "SCOK", C) /\ r \in Registers(W)
      /\ Situation(W) /\ Suspended(problem, W, F) /\ CallsOf(F, calls) /\ Prefix(F.stk, stk) /\ Ours(W, F, r)
  BY <1>1, OnIs
<1>3. CASE r.then # 0
  <2>1. r' = [r EXCEPT !.PATICL = r.then, !.LENFCL = TRUE] /\ todo' = "node" /\ UNCHANGED <<stk, calls>>
    BY <1>3 DEF SCOK
  <2>2. r.then \in Int
    BY <1>2, RegistersAre
  <2>3. Later(W, r, r') /\ r'.PATICL = r.then /\ r'.TXSP = r.TXSP
    BY ONLY <1>2, <2>1, <2>2 DEF Registers, Later
  <2>4. Live(W, F, hist, stk, calls, named, r', "node")
    BY <1>2, <1>3, <2>3, WentOn
  <2> QED BY <1>1, <2>1, <2>4, MatchingIs, GoesLive
<1>4. CASE r.then = 0 /\ InSCIN
  <2>1. SCINReturns /\ todo' = "SCOK"
    BY <1>1, <1>4 DEF SCOK
  <2>2. /\ Len(C) > 1 /\ Returned(W, stk[Last(C).at].r, r') /\ r'.TXSP = r.TXSP
        /\ stk' = SubSeq(stk, 1, Last(C).at - 1) /\ calls' = Front(calls)
    BY <1>4, <2>1, Returns
  <2>3. Live(W, F, hist, SubSeq(stk, 1, Last(C).at - 1), Front(calls), named, r', "SCOK")
    BY <1>2, <1>4, <2>2, ReturnedOk
  <2> QED BY <1>1, <2>1, <2>2, <2>3, MatchingIs, GoesLive
<1>5. CASE r.then = 0 /\ ~ InSCIN
  <2>1. /\ todo' = "NMD" /\ r' = [r EXCEPT !.TCL = r.NHEDCL] /\ UNCHANGED calls
        /\ stk' = IF Statement.kind = "SCAN" THEN stk
                     ELSE Append(stk, [use |-> "tail", head |-> r.HEADSP, to |-> r.TXSP])
    BY <1>5 DEF SCOK, Matched
  <2>2. calls = F.calls
    BY <1>5, InSCINIs
  <2>3. Held(W, F, hist, named, C)
    BY <1>2, <1>5, AtEnd
  <2>4. Prefix(F.hist, hist) /\ Prefix(F.named, named)
    BY <2>3, HeldIs
  <2>5. Ours(W, F, r')
    <3>1. r.NHEDCL \in Int
      BY <1>2, RegistersAre
    <3>2. r' \in Registers(W) /\ r'.PDLHED = r.PDLHED /\ r'.NHEDCL = r.NHEDCL
      BY ONLY <1>2, <2>1, <3>1 DEF Registers
    <3> QED BY <1>2, <3>2 DEF Ours, Of
  <2>6. Statement.kind = KindOf(problem, F)
    BY <1>2, Where
  <2>7. AnySeq(stk) /\ AnySeq(F.stk) /\ Len(F.stk) <= Len(stk) /\ Len(stk) \in Nat /\ Len(F.stk) \in Nat
    <3>1. AnySeq(stk) /\ AnySeq(F.stk) /\ Len(F.stk) <= Len(stk)
      BY <1>2 DEF Prefix
    <3> QED BY <3>1, AnyRange
  <2>8. Prefix(F.stk, stk') /\ (KindOf(problem, F) = "SJSR" => Len(stk') > Len(F.stk) /\ Last(stk').use = "tail")
    <3> DEFINE cell == [use |-> "tail", head |-> r.HEADSP, to |-> r.TXSP]
    <3>1. CASE Statement.kind = "SCAN"
      <4>1. stk' = stk /\ KindOf(problem, F) # "SJSR"
        BY <2>1, <2>6, <3>1
      <4> QED BY <1>2, <4>1
    <3>2. CASE Statement.kind # "SCAN"
      <4>1. stk' = Append(stk, cell) /\ cell.use = "tail"
        BY <2>1, <3>2
      <4> HIDE DEF cell
      <4>2. Len(stk') = Len(stk) + 1 /\ Last(stk') = cell
        BY <2>7, <4>1, AnyAppend
      <4>3. Len(stk') > Len(F.stk)
        BY <2>7, <4>2
      <4>4. Prefix(F.stk, stk')
        BY <1>2, <4>1, PrefixAppend
      <4> QED BY <4>1, <4>2, <4>3, <4>4
    <3> QED BY <3>1, <3>2
  <2>9. Ended(problem, W, F, hist', stk', calls', named', r', "NMD")
    BY <1>1, <2>1, <2>2, <2>4, <2>5, <2>8 DEF Ended
  <2>10. Running(problem, W, F, hist', stk', calls', named', r', todo')
    BY <2>1, <2>9 DEF Running
  <2> QED BY <1>1, <1>2, <2>10, KeepsOnWith
<1> QED BY <1>3, <1>4, <1>5

(* The bottom of the history list of a statement, or of one of its SCINs.  *)
LEMMA SCFLKeeps ==
  ASSUME NEW W, NEW F, NEW C, On(W, F, C), SCFL
  PROVE  IInv'
<1>1. todo = "SCFL" /\ UNCHANGED <<problem, mem, now, hist, named>>
  BY DEF SCFL
<1>2. /\ Worlds(W) /\ MatchAt(W, F, hist, stk, calls, named, r, "SCFL", C) /\ r \in Registers(W)
      /\ Situation(W) /\ Suspended(problem, W, F) /\ CallsOf(F, calls) /\ Prefix(F.stk, stk) /\ Ours(W, F, r)
  BY <1>1, OnIs
<1>3. CASE InSCIN
  <2>1. SCINReturns /\ todo' = Fails(r.LENFCL)
    BY <1>3 DEF SCFL
  <2>2. /\ Len(C) > 1 /\ Returned(W, stk[Last(C).at].r, r')
        /\ stk' = SubSeq(stk, 1, Last(C).at - 1) /\ calls' = Front(calls)
    BY <1>3, <2>1, Returns
  <2>3. todo' \in {"SALT", "SALF"} /\ todo' \in Matching
    <3>1. r.LENFCL \in BOOLEAN
      BY <1>2, RegistersAre
    <3> QED BY <2>1, <3>1, MatchingIs
  <2>4. Live(W, F, hist, SubSeq(stk, 1, Last(C).at - 1), Front(calls), named, r', todo')
    BY <1>2, <2>2, <2>3, ReturnedFails
  <2> QED BY <1>1, <2>2, <2>3, <2>4, GoesLive
<1>4. CASE ~ InSCIN
  <2>1. FAIL /\ r' = r
    BY <1>4 DEF SCFL
  <2>2. AtBottom(W, F, hist, named, C)
    <3>1. Phase(W, F, hist, named, r, "SCFL", C)
      BY <1>2, MatchIs
    <3>2. ~ Len(C) > 1
      BY <1>4, InSCINIs
    <3>3. ~ InNME(W, F, hist, named, "SCFL", C)
      BY <3>2, Zenon DEF InNME
    <3> QED BY <3>1, <3>3, Phases
  <2>3. Prefix(F.hist, hist) /\ Prefix(F.named, named)
    BY <2>2 DEF AtBottom
  <2> QED BY <1>1, <1>2, <2>1, <2>3, EndsWell DEF FAIL
<1> QED BY <1>3, <1>4

LEMMA SCONKeeps ==
  ASSUME NEW W, NEW F, NEW C, On(W, F, C), SCON
  PROVE  IInv'
<1>1. todo = "SCON" /\ UNCHANGED <<problem, mem, now, named>>
  BY DEF SCON
<1>2. /\ Worlds(W) /\ MatchAt(W, F, hist, stk, calls, named, r, "SCON", C) /\ r \in Registers(W)
      /\ Situation(W) /\ Suspended(problem, W, F) /\ CallsOf(F, calls) /\ Prefix(F.stk, stk) /\ Ours(W, F, r)
  BY <1>1, OnIs
<1>3. CASE FAIL /\ UNCHANGED <<r, hist>>
  <2>1. AtBottom(W, F, hist, named, C)
    <3>1. Phase(W, F, hist, named, r, "SCON", C)
      BY <1>2, MatchIs
    <3> QED BY <3>1, Phases
  <2>2. Prefix(F.hist, hist) /\ Prefix(F.named, named)
    BY <2>1 DEF AtBottom
  <2> QED BY <1>1, <1>2, <1>3, <2>2, EndsWell DEF FAIL
<1>4. CASE ~ (FAIL /\ UNCHANGED <<r, hist>>)
  <2> DEFINE e == [Entry("SCON", 0, 0, r.TXSP + 1, 0, TRUE) EXCEPT !.owner = Owner]
             x == Last(stk).n - 1
  <2>1. /\ stk' = Append(Front(stk), Cell("head", x))
        /\ r' = [r EXCEPT !.TXSP = r.TXSP + 1, !.HEADSP = r.TXSP + 1, !.PATBCL = Owner, !.PATICL = 0, !.LENFCL = TRUE]
        /\ hist' = Append(hist, e) /\ todo' = "node" /\ UNCHANGED calls
    BY <1>4 DEF SCON
  <2>2. Owner \in DOMAIN W.nodes
    BY <1>2, Where
  <2>3. r.TXSP + 1 \in Int /\ r.TXSP \in Int
    BY <1>2, RegistersAre
  <2> DEFINE d == r.TXSP + 1
             f == Entry("SCON", 0, 0, d, 0, TRUE)
  <2>4. r'\in Registers(W) /\ r'.PDLHED = r.PDLHED /\ r'.NHEDCL = r.NHEDCL /\ r'.MAXLEN = r.MAXLEN /\ r'.PATICL = 0
    <3>1. r' = [r EXCEPT !.TXSP = d, !.HEADSP = d, !.PATBCL = Owner, !.PATICL = 0, !.LENFCL = TRUE] /\ d \in Int
      BY <2>1, <2>3
    <3> HIDE DEF d, e
    <3> DEFINE y == [PATBCL |-> Owner, PATICL |-> 0, then |-> r.then, res |-> r.res,
                     LENFCL |-> TRUE, MAXLEN |-> r.MAXLEN, TXSP |-> d, HEADSP |-> d,
                     XSP |-> r.XSP, TCL |-> r.TCL, PDLHED |-> r.PDLHED, NHEDCL |-> r.NHEDCL]
    <3>2. y \in Registers(W)
      BY ONLY <1>2, <2>2, <3>1 DEF Registers
    <3>3. r' = y
      BY ONLY <1>2, <2>2, <3>1 DEF Registers
    <3> QED BY ONLY <3>2, <3>3
  <2>5. e \in EntrySet(W) /\ e.fn = "SCON"
    <3>1. "SCON" \in EntryFns /\ d \in Int
      BY <2>3 DEF EntryFns
    <3>2. f \in EntrySet(W) /\ f.fn = "SCON"
      <4>1. f = Entry("SCON", 0, 0, d, 0, TRUE) /\ r.PATBCL \in DOMAIN W.nodes
        BY <1>2, RegistersAre
      <4> HIDE DEF f, d
      <4> QED BY ONLY <3>1, <4>1 DEF Entry, EntrySet
    <3>3. e = [f EXCEPT !.owner = Owner]
      BY DEF f, d
    <3> HIDE DEF f, e
    <3> QED BY <2>2, <3>2, <3>3 DEF EntrySet
  <2>6. Ours(W, F, r')
    BY <1>2, <2>4 DEF Ours, Of
  <2> HIDE DEF e, x
  <2>7. Live(W, F, Append(hist, e), Append(Front(stk), Cell("head", x)), calls, named, r', "node")
    BY <1>2, <2>4, <2>5, <2>6, BeginsAgain
  <2> QED BY <1>1, <2>1, <2>7, MatchingIs, GoesLive
<1> QED BY <1>3, <1>4

LEMMA RTNUL3Keeps ==
  ASSUME NEW W, NEW F, NEW C, On(W, F, C), RTNUL3
  PROVE  IInv'
<1>1. todo = "RTNUL3" /\ UNCHANGED <<problem, mem, now, r, hist, named>> /\ FAIL
  BY DEF RTNUL3
<1>2. /\ Worlds(W) /\ MatchAt(W, F, hist, stk, calls, named, r, "RTNUL3", C)
      /\ Situation(W) /\ Suspended(problem, W, F) /\ CallsOf(F, calls) /\ Prefix(F.stk, stk) /\ Ours(W, F, r)
  BY <1>1, OnIs
<1>3. Prefix(F.hist, hist) /\ Prefix(F.named, named)
  <2>1. Phase(W, F, hist, named, r, "RTNUL3", C)
    BY <1>2, MatchIs
  <2> QED BY <2>1, Phases
<1> QED BY <1>1, <1>2, <1>3, EndsWell DEF FAIL

LEMMA INTR31Keeps ==
  ASSUME NEW W, NEW F, NEW C, On(W, F, C), INTR31
  PROVE  IInv'
<1>1. todo = "node" /\ UNCHANGED <<problem, mem, now, r, hist, named>> /\ StatementEnds([end |-> "overflow"])
  BY DEF INTR31
<1>2. /\ Worlds(W) /\ MatchAt(W, F, hist, stk, calls, named, r, "node", C)
      /\ Situation(W) /\ Suspended(problem, W, F) /\ CallsOf(F, calls) /\ Prefix(F.stk, stk) /\ Ours(W, F, r)
  BY <1>1, OnIs
<1>3. Prefix(F.hist, hist) /\ Prefix(F.named, named)
  <2>1. Phase(W, F, hist, named, r, "node", C)
    BY <1>2, MatchIs
  <2>2. Joining(W, F, hist, named, r, C)
    BY <2>1, Phases
  <2> QED BY <2>2, HeldIs DEF Joining
<1> QED BY <1>1, <1>2, <1>3, EndsWell

(* The procedures of nodes.                                                *)
LEMMA RegsAre ==
  ASSUME NEW W, NEW F, NEW C, On(W, F, C)
  PROVE  /\ r.TXSP \in Int /\ r.MAXLEN \in Int /\ r.then \in Int /\ r.res \in Int /\ r.PATICL \in Int
         /\ r.LENFCL \in BOOLEAN /\ Len(Subject) \in Nat /\ Quick \in BOOLEAN
         /\ r.MAXLEN = Last(C).max /\ W.quick = Quick /\ r.PATBCL \in DOMAIN W.nodes
<1>1. r \in Registers(W) /\ r.MAXLEN = Last(C).max /\ W.quick = Quick /\ Quick \in BOOLEAN
  BY OnIs
<1>2. Len(Subject) \in Nat
  <2>1. r.XSP \in AllSubjects
    BY <1>1, RegistersAre
  <2>2. Subject \in AllSubjects
    BY <2>1 DEF Subject
  <2> QED BY <2>2, SubjectIs
<1> QED BY <1>1, <1>2, RegistersAre

LEMMA OnNodeTop ==
  ASSUME NEW W, NEW F, NEW C, On(W, F, C), todo \in Own1
  PROVE  /\ OnTop(W, F, hist, named, r, C, OnNode) /\ OnNode.fn = ProcOf(todo) /\ Enough(OnNode)
         /\ Worlds(W) /\ MatchAt(W, F, hist, stk, calls, named, r, todo, C) /\ r \in Registers(W)
<1>1. Worlds(W) /\ MatchAt(W, F, hist, stk, calls, named, r, todo, C) /\ r \in Registers(W)
  BY OnIs
<1>2. PICK n : OnTop(W, F, hist, named, r, C, n) /\ n.fn = ProcOf(todo)
  BY <1>1, OnTopIs
<1>3. n = OnNode
  <2>1. n = NodeOf(W, C, r.PATICL)
    BY <1>2 DEF OnTop
  <2> QED BY <2>1, OnIs
<1>4. Enough(n)
  <2>1. /\ n.val \in Nat /\ n.res \in Nat /\ Fits(n) /\ r.res = n.res
        /\ W.quick => r.TXSP <= Last(C).max /\ r.TXSP + n.val <= Last(C).max
    BY <1>2 DEF OnTop
  <2>2. /\ r.TXSP \in Int /\ r.MAXLEN \in Int /\ Len(Subject) \in Nat /\ Quick \in BOOLEAN
        /\ r.MAXLEN = Last(C).max /\ W.quick = Quick
    BY RegsAre
  <2> QED BY <2>1, <2>2 DEF Enough
<1> QED BY <1>1, <1>2, <1>3, <1>4

LEMMA OutcomeMoves ==
  ASSUME NEW W, NEW F, NEW C, On(W, F, C), NEW o, Within(o), Outcomes(o)
  PROVE  /\ Later(W, r, r') /\ r'.TXSP = o.at /\ r'.then = r.then /\ r'.PATICL = r.PATICL
         /\ todo' = o.to /\ o.to \in {"SCOK", "SALT", "SALF"} /\ todo' \in Matching
         /\ (o.to = "SCOK" /\ W.quick) => r'.TXSP <= Last(C).max
<1>1. /\ o.at \in Int /\ o.to \in {"SCOK", "SALT", "SALF"}
      /\ (o.to = "SCOK" /\ Quick) => o.at <= r.MAXLEN
      /\ todo' = o.to /\ r' = [r EXCEPT !.TXSP = o.at]
  BY DEF Within, Outcomes
<1>2. r \in Registers(W) /\ r.MAXLEN = Last(C).max /\ W.quick = Quick
  BY OnIs
<1>3. Later(W, r, r') /\ r'.TXSP = o.at /\ r'.then = r.then /\ r'.PATICL = r.PATICL
  <2> DEFINE c == o.at
  <2>1. c \in Int /\ r' = [r EXCEPT !.TXSP = c]
    BY <1>1
  <2>2. r \in Registers(W)
    BY <1>2
  <2> HIDE DEF c
  <2>3. Later(W, r, r') /\ r'.TXSP = c /\ r'.then = r.then /\ r'.PATICL = r.PATICL
    BY ONLY <2>1, <2>2 DEF Registers, Later
  <2> QED BY <2>3 DEF c
<1> QED BY <1>1, <1>2, <1>3, MatchingIs

LEMMA PrimitiveKeeps ==
  ASSUME NEW W, NEW F, NEW C, On(W, F, C), Primitive
  PROVE  IInv'
<1>0. UNCHANGED <<problem, mem, now, hist, stk, calls, named>>
  BY DEF Primitive
<1>1. todo \in Primitives /\ Outcomes(Outcome(todo, OnNode.arg, r.TXSP))
  BY DEF Primitive, Primitives
<1>2. todo \in Own1 /\ ProcOf(todo) = todo /\ todo \in Simple
  BY <1>1 DEF Primitives, Own1, Simple, Measuring, ProcOf
<1>3. /\ OnTop(W, F, hist, named, r, C, OnNode) /\ OnNode.fn = todo /\ Enough(OnNode)
      /\ Worlds(W) /\ MatchAt(W, F, hist, stk, calls, named, r, todo, C)
  BY <1>2, OnNodeTop
<1> DEFINE o == Outcome(todo, OnNode.arg, r.TXSP)
<1>4. Within(o)
  <2>1. OnNode.fn \in Primitives
    BY <1>1, <1>3
  <2>2. Within(Outcome(OnNode.fn, OnNode.arg, r.TXSP))
    BY <1>3, <2>1, OutcomeWithin
  <2> QED BY <1>3, <2>2
<1>5. Outcomes(o)
  BY <1>1
<1> HIDE DEF o
<1>6. /\ Later(W, r, r') /\ r'.then = r.then /\ todo' = o.to /\ o.to \in {"SCOK", "SALT", "SALF"}
      /\ todo' \in Matching
      /\ (o.to = "SCOK" /\ W.quick) => r'.TXSP <= Last(C).max
  BY <1>4, <1>5, OutcomeMoves
<1>7. Live(W, F, hist, stk, calls, named, r', todo')
  <2>1. CASE o.to = "SCOK"
    <3>1. OnNode.fn \in Simple /\ (W.quick => r'.TXSP <= Last(C).max)
      BY <1>2, <1>3, <1>6, <2>1
    <3>2. Live(W, F, hist, stk, calls, named, r', "SCOK")
      BY <1>3, <1>6, <3>1, SimpleGoes
    <3> QED BY <1>6, <2>1, <3>2
  <2>2. CASE o.to \in {"SALT", "SALF"}
    BY <1>3, <1>6, <2>2, OnTopFails
  <2> QED BY <1>6, <2>1, <2>2
<1> QED BY <1>0, <1>6, <1>7, GoesLive

LEMMA NoIntegerKeeps ==
  ASSUME NEW W, NEW F, NEW C, On(W, F, C), NoInteger
  PROVE  IInv'
<1>1. todo \in Measuring /\ OnNode.arg = NotInteger
  BY DEF NoInteger
<1>2. todo \in Own1 /\ ProcOf(todo) = todo
  BY <1>1 DEF Own1, Simple, Measuring, ProcOf
<1>3. OnNode.fn = todo /\ Enough(OnNode)
  BY <1>2, OnNodeTop
<1> QED BY <1>1, <1>3 DEF Enough, Fits

LEMMA BRKXKeeps ==
  ASSUME NEW W, NEW F, NEW C, On(W, F, C), BRKX, TMVAL \in Int
  PROVE  IInv'
<1> DEFINE o == BRKC(OnNode.arg, r.TXSP)
           a == [Undo(Link, 0) EXCEPT !.cur = r.PATICL]
           e == [Undo("BRKXF", TMVAL) EXCEPT !.cur = o.at]
<1>0. UNCHANGED <<problem, mem, now, stk, calls, named>>
  BY DEF BRKX
<1>1. /\ todo = "BRKX" /\ Outcomes(o)
      /\ IF o.to # "SCOK" THEN hist' = hist ELSE hist' = hist \o <<a, e>>
  BY DEF BRKX
<1>2. /\ Worlds(W) /\ MatchAt(W, F, hist, stk, calls, named, r, "BRKX", C) /\ r \in Registers(W)
  BY <1>1, OnIs
<1>3. Within(o)
  BY RegsAre, BRKCWithin
<1>4. o.at \in Int /\ r.PATICL \in Int
  BY <1>3, RegsAre DEF Within
<1>5. /\ Later(W, r, r') /\ r'.then = r.then /\ todo' = o.to /\ o.to \in {"SCOK", "SALT", "SALF"}
      /\ todo' \in Matching
      /\ (o.to = "SCOK" /\ W.quick) => r'.TXSP <= Last(C).max
  <2>1. Outcomes(o)
    BY <1>1
  <2> HIDE DEF o
  <2> QED BY <1>3, <2>1, OutcomeMoves
<1> HIDE DEF o
<1>6. a \in EntrySet(W) /\ a.fn = Link /\ a.or = 0 /\ a.cur = r.PATICL
  <2> DEFINE u == Undo(Link, 0)
  <2>1. u = Entry(Link, 0, 0, r.TXSP, 0, r.LENFCL) /\ a = [u EXCEPT !.cur = r.PATICL]
    BY DEF Undo
  <2>2. r.TXSP \in Int /\ r.LENFCL \in BOOLEAN /\ r.PATBCL \in DOMAIN W.nodes
    BY RegsAre
  <2> HIDE DEF u, a
  <2> QED BY ONLY <1>4, <2>1, <2>2, LinkIs DEF Entry, EntrySet
<1>7. e \in EntrySet(W) /\ e.fn = "BRKXF"
  <2> DEFINE u == Undo("BRKXF", TMVAL)
  <2>0. TMVAL \in Int
    OBVIOUS
  <2>1. u = Entry("BRKXF", 0, 0, r.TXSP, TMVAL, r.LENFCL) /\ e = [u EXCEPT !.cur = o.at] /\ "BRKXF" \in EntryFns
    BY DEF Undo, EntryFns
  <2>2. r.TXSP \in Int /\ r.LENFCL \in BOOLEAN /\ r.PATBCL \in DOMAIN W.nodes
    BY RegsAre
  <2> HIDE DEF u, e
  <2> QED BY ONLY <1>4, <2>0, <2>1, <2>2 DEF Entry, EntrySet
<1> HIDE DEF a, e
<1>8. CASE o.to # "SCOK"
  <2>1. hist' = hist /\ todo' \in {"SALT", "SALF"}
    BY <1>1, <1>5, <1>8
  <2>2. Live(W, F, hist, stk, calls, named, r', todo')
    BY <1>2, <1>5, <2>1, BreakFails
  <2> QED BY <1>0, <1>5, <2>1, <2>2, GoesLive
<1>9. CASE o.to = "SCOK"
  <2>1. hist' = hist \o <<a, e>>
    BY <1>1, <1>9
  <2>2. AnySeq(hist)
    <3>1. Held(W, F, hist, named, C)
      BY <1>2, BreakIs
    <3>2. Prefix(F.hist, hist)
      BY <3>1, HeldIs
    <3> QED BY <3>2 DEF Prefix
  <2>3. hist' = Append(Append(hist, a), e)
    <3>1. PICK S : hist \in Seq(S)
      BY <2>2 DEF AnySeq
    <3> QED BY <2>1, <3>1
  <2>4. W.quick => r'.TXSP <= Last(C).max
    BY <1>5, <1>9
  <2>5. Live(W, F, Append(Append(hist, a), e), stk, calls, named, r', "SCOK")
    BY <1>2, <1>5, <1>6, <1>7, <2>4, BreakGoes
  <2>6. todo' = "SCOK"
    BY <1>5, <1>9
  <2> QED BY <1>0, <2>3, <2>5, <2>6, MatchingIs, GoesLive
<1> QED BY <1>8, <1>9

LEMMA BRKXFKeeps ==
  ASSUME NEW W, NEW F, NEW C, On(W, F, C), BRKXF
  PROVE  IInv'
<1>1. /\ todo = "BRKXF" /\ hist' = Front(hist) /\ UNCHANGED <<problem, mem, now, stk, calls, named>>
      /\ \/ todo' = "SALT" /\ r' = [r EXCEPT !.PATICL = Top.cur]
         \/ todo' = "BRKX" /\ r' = [r EXCEPT !.PATICL = Top.cur, !.TXSP = @ + 1, !.then = Last(hist').then]
  BY DEF BRKXF
<1>2. /\ Worlds(W) /\ MatchAt(W, F, hist, stk, calls, named, r, "BRKXF", C) /\ r \in Registers(W)
  BY <1>1, OnIs
<1>3. /\ Held(W, F, Front(hist), named, C) /\ Breaks(W, C, Last(hist).cur, Last(Front(hist)))
  BY <1>2, BreakAgain
<1>4. Last(hist).cur \in Int /\ Last(Front(hist)).then \in Int
  <2>1. Last(Front(hist)) \in EntrySet(W)
    BY <1>3, HeldIs
  <2>2. Last(hist).cur \in Int
    <3>1. Last(hist).cur \in 0 .. Len(Pat(W, C)) - 1
      BY <1>3 DEF Breaks, Place, Pat
    <3>2. Last(C).pat \in DOMAIN W.nodes
      BY OnIs
    <3>3. Len(Pat(W, C)) \in Nat
      BY <1>2, <3>2, WorldIs DEF Pat
    <3> QED BY <3>1, <3>3
  <2> QED BY <2>1, <2>2 DEF EntrySet
<1> DEFINE c == Last(hist).cur
           t == Last(Front(hist)).then
           d == r.TXSP + 1
<1>5. c \in Int /\ t \in Int /\ d \in Int
  BY <1>4, RegsAre
<1>6. CASE todo' = "SALT" /\ r' = [r EXCEPT !.PATICL = Top.cur]
  <2>1. r' = [r EXCEPT !.PATICL = c]
    BY <1>6 DEF Top
  <2> HIDE DEF c
  <2>2. Later(W, r, r')
    BY ONLY <1>2, <1>5, <2>1 DEF Registers, Later
  <2>3. Live(W, F, Front(hist), stk, calls, named, r', "SALT")
    BY <1>2, <2>2, BreakEnds
  <2> QED BY <1>1, <1>6, <2>3, MatchingIs, GoesLive
<1>7. CASE todo' = "BRKX" /\ r' = [r EXCEPT !.PATICL = Top.cur, !.TXSP = @ + 1, !.then = Last(hist').then]
  <2>1. r' = [r EXCEPT !.PATICL = c, !.TXSP = d, !.then = t]
    BY <1>1, <1>7 DEF Top
  <2> HIDE DEF c, t, d
  <2>2. Later(W, r, r') /\ r'.PATICL = c /\ r'.then = t
    BY ONLY <1>2, <1>5, <2>1 DEF Registers, Later
  <2>3. r'.PATICL = Last(hist).cur /\ r'.then = Last(Front(hist)).then
    BY <2>2 DEF c, t
  <2>4. Live(W, F, Front(hist), stk, calls, named, r', "BRKX")
    BY <1>2, <2>2, <2>3, BreakRetried
  <2> QED BY <1>1, <1>7, <2>4, MatchingIs, GoesLive
<1> QED BY <1>1, <1>6, <1>7

LEMMA UndoMade ==
  ASSUME NEW W, NEW F, NEW C, On(W, F, C), NEW fn \in EntryFns, NEW x \in Int
  PROVE  /\ Undo(fn, x) \in EntrySet(W) /\ Undo(fn, x).fn = fn /\ Undo(fn, x).cur = r.TXSP
         /\ Undo(fn, x).or = 0
<1> DEFINE u == Undo(fn, x)
<1>1. u = Entry(fn, 0, 0, r.TXSP, x, r.LENFCL)
  BY DEF Undo
<1>2. r.TXSP \in Int /\ r.LENFCL \in BOOLEAN /\ r.PATBCL \in DOMAIN W.nodes
  BY RegsAre
<1> HIDE DEF u
<1>3. u \in EntrySet(W) /\ u.fn = fn /\ u.cur = r.TXSP /\ u.or = 0
  BY ONLY <1>1, <1>2, fn \in EntryFns, x \in Int DEF Entry, EntrySet
<1> QED BY <1>3 DEF u

LEMMA LaterSame ==
  ASSUME NEW W, NEW F, NEW C, On(W, F, C)
  PROVE  Later(W, r, r)
BY OnIs DEF Later

(* The last entry, with another cursor.                                    *)
LEMMA TopMoved ==
  ASSUME NEW W, NEW e \in EntrySet(W), NEW c \in Int, NEW x, x = [e EXCEPT !.cur = c]
  PROVE  x \in EntrySet(W) /\ x.fn = e.fn /\ x.or = e.or /\ x.owner = e.owner
BY DEF EntrySet

LEMMA LenTrue ==
  ASSUME NEW W, NEW F, NEW C, On(W, F, C), r' = [r EXCEPT !.LENFCL = TRUE]
  PROVE  Later(W, r, r') /\ r'.then = r.then /\ r'.TXSP = r.TXSP /\ r'.PATICL = r.PATICL
<1>1. r \in Registers(W)
  BY OnIs
<1> QED BY ONLY <1>1, r' = [r EXCEPT !.LENFCL = TRUE] DEF Registers, Later

(* ARB and BAL succeed once more, with the same entry; or it goes.         *)
LEMMA MovesTop ==
  ASSUME NEW W, NEW F, NEW C, On(W, F, C), todo \in {"FARB", "BAL", "BALF"},
         UNCHANGED <<problem, mem, now, stk, calls, named>>,
         NEW c \in Int, Quick => c <= r.MAXLEN, todo' = "SCOK", r' = [r EXCEPT !.TXSP = c],
         hist' = Append(Front(hist), [Last(hist) EXCEPT !.cur = c])
  PROVE  IInv'
<1> DEFINE e == [Last(hist) EXCEPT !.cur = c]
<1>1. todo \in Own1 /\ todo \in Simple /\ ProcOf(todo) = todo
  BY DEF Own1, Simple, ProcOf
<1>2. /\ OnTop(W, F, hist, named, r, C, OnNode) /\ OnNode.fn \in Simple
      /\ Worlds(W) /\ MatchAt(W, F, hist, stk, calls, named, r, todo, C) /\ r \in Registers(W)
  BY <1>1, OnNodeTop
<1>3. Last(hist) \in EntrySet(W) /\ Last(hist).fn = Link
  BY <1>2 DEF OnTop
<1>4. e \in EntrySet(W) /\ e.fn = Link /\ e.or = Last(hist).or /\ e.owner = Last(hist).owner
  <2>1. e = [Last(hist) EXCEPT !.cur = c]
    OBVIOUS
  <2> HIDE DEF e
  <2> QED BY <1>3, <2>1, TopMoved
<1>5. Later(W, r, r') /\ r'.TXSP = c /\ r'.then = r.then
  <2> HIDE DEF e
  <2> QED BY ONLY <1>2, c \in Int, r' = [r EXCEPT !.TXSP = c] DEF Registers, Later
<1>6. W.quick => r'.TXSP <= Last(C).max
  BY <1>5, RegsAre
<1>7. hist' = Append(Front(hist), e)
  OBVIOUS
<1> HIDE DEF e
<1>8. Live(W, F, Append(Front(hist), e), stk, calls, named, r', "SCOK")
  BY <1>2, <1>4, <1>5, <1>6, TopGoes
<1> QED BY <1>7, <1>8, MatchingIs, GoesLive

LEMMA DropsTop ==
  ASSUME NEW W, NEW F, NEW C, On(W, F, C), todo \in {"FARB", "BAL", "BALF"},
         UNCHANGED <<problem, mem, now, r, stk, calls, named>>,
         todo' \in {"SALT", "SALF"}, hist' = Front(hist)
  PROVE  IInv'
<1>1. todo \in Own1
  BY DEF Own1, Simple
<1>2. /\ OnTop(W, F, hist, named, r, C, OnNode)
      /\ Worlds(W) /\ MatchAt(W, F, hist, stk, calls, named, r, todo, C)
  BY <1>1, OnNodeTop
<1>3. Live(W, F, Front(hist), stk, calls, named, r, todo')
  BY <1>2, LaterSame, TopFails
<1>4. todo' \in Matching
  BY MatchingIs
<1> QED BY <1>3, <1>4, GoesLive

LEMMA FARBKeeps ==
  ASSUME NEW W, NEW F, NEW C, On(W, F, C), FARB
  PROVE  IInv'
<1>1. todo = "FARB" /\ UNCHANGED <<problem, mem, now, stk, calls, named>>
  BY DEF FARB
<1>2. \/ todo' = "SALT" /\ hist' = Front(hist) /\ UNCHANGED r
      \/ /\ todo' = "SCOK" /\ r' = [r EXCEPT !.TXSP = r.TXSP + 1]
         /\ hist' = Append(Front(hist), [Last(hist) EXCEPT !.cur = r.TXSP + 1])
         /\ ~ r.TXSP + Needs >= r.MAXLEN
  BY DEF FARB, Succeeds, SetTop, Top
<1>3. CASE todo' = "SALT" /\ hist' = Front(hist) /\ UNCHANGED r
  BY <1>1, <1>3, DropsTop
<1>4. CASE /\ todo' = "SCOK" /\ r' = [r EXCEPT !.TXSP = r.TXSP + 1]
           /\ hist' = Append(Front(hist), [Last(hist) EXCEPT !.cur = r.TXSP + 1])
           /\ ~ r.TXSP + Needs >= r.MAXLEN
  <2> DEFINE c == r.TXSP + 1
  <2>1. r.TXSP \in Int /\ r.MAXLEN \in Int
    BY RegsAre
  <2>2. Quick => c <= r.MAXLEN
    <3> SUFFICES ASSUME Quick PROVE c <= r.MAXLEN
      OBVIOUS
    <3>1. Needs = r.res
      BY DEF Needs
    <3>2. r.res \in Nat
      <4>1. "FARB" \in Own1
        BY DEF Own1, Simple
      <4>2. Enough(OnNode)
        BY <1>1, <4>1, OnNodeTop
      <4> QED BY <4>2 DEF Enough
    <3> QED BY <1>4, <2>1, <3>1, <3>2
  <2>3. /\ c \in Int /\ todo' = "SCOK" /\ r' = [r EXCEPT !.TXSP = c]
        /\ hist' = Append(Front(hist), [Last(hist) EXCEPT !.cur = c])
    BY <1>4, <2>1
  <2> HIDE DEF c
  <2> QED BY <1>1, <2>2, <2>3, MovesTop
<1> QED BY <1>2, <1>3, <1>4

LEMMA BALKeeps ==
  ASSUME NEW W, NEW F, NEW C, On(W, F, C), BAL
  PROVE  IInv'
<1> DEFINE ends == {j \in r.TXSP + 1 .. r.MAXLEN - Needs : Balanced(r.TXSP, j, Subject)}
<1>1. todo \in {"BAL", "BALF"} /\ UNCHANGED <<problem, mem, now, stk, calls, named>>
  BY DEF BAL
<1>2. \/ todo' = "SALF" /\ hist' = Front(hist) /\ UNCHANGED r
      \/ /\ todo' = "SCOK" /\ r' = [r EXCEPT !.TXSP = Min(ends)]
         /\ hist' = Append(Front(hist), [Last(hist) EXCEPT !.cur = Min(ends)])
         /\ ends # {}
  BY DEF BAL, Succeeds, SetTop, Top
<1>3. CASE todo' = "SALF" /\ hist' = Front(hist) /\ UNCHANGED r
  BY <1>1, <1>3, DropsTop
<1>4. CASE /\ todo' = "SCOK" /\ r' = [r EXCEPT !.TXSP = Min(ends)]
           /\ hist' = Append(Front(hist), [Last(hist) EXCEPT !.cur = Min(ends)])
           /\ ends # {}
  <2> DEFINE c == Min(ends)
             a == r.TXSP + 1
             b == r.MAXLEN - Needs
  <2>1. r.TXSP \in Int /\ r.MAXLEN \in Int /\ r.res \in Nat
    <3>1. todo \in Own1
      BY <1>1 DEF Own1, Simple
    <3>2. Enough(OnNode)
      BY <3>1, OnNodeTop
    <3> QED BY <3>2 DEF Enough
  <2>2. Needs \in Nat
    BY <2>1 DEF Needs
  <2>3. a \in Int /\ b \in Int /\ b <= r.MAXLEN
    BY <2>1, <2>2
  <2>4. ends \subseteq a .. b
    OBVIOUS
  <2>5. c \in ends
    <3> HIDE DEF ends, a, b
    <3> QED BY <1>4, <2>3, <2>4, MinIs
  <2>6. c \in a .. b
    BY <2>4, <2>5
  <2>7. c \in Int /\ c <= r.MAXLEN
    <3> HIDE DEF c, a, b
    <3> QED BY <2>1, <2>3, <2>6
  <2>8. /\ todo' = "SCOK" /\ r' = [r EXCEPT !.TXSP = c]
        /\ hist' = Append(Front(hist), [Last(hist) EXCEPT !.cur = c])
    BY <1>4
  <2>9. todo \in {"FARB", "BAL", "BALF"}
    BY <1>1
  <2> HIDE DEF c, ends, a, b
  <2> QED BY <1>1, <2>7, <2>8, <2>9, MovesTop
<1> QED BY <1>2, <1>3, <1>4

LEMMA FNCEKeeps ==
  ASSUME NEW W, NEW F, NEW C, On(W, F, C), FNCE
  PROVE  IInv'
<1> DEFINE e == Undo("RTNUL3", 0)
<1>1. /\ todo = "FNCE" /\ UNCHANGED <<problem, mem, now, stk, calls, named>> /\ hist' = Append(hist, e)
      /\ todo' = "SCOK" /\ r' = [r EXCEPT !.LENFCL = TRUE]
  BY DEF FNCE, Keeps
<1>2. e \in EntrySet(W) /\ e.fn = "RTNUL3"
  <2>1. "RTNUL3" \in EntryFns
    BY DEF EntryFns
  <2> QED BY <2>1, UndoMade
<1> HIDE DEF e
<1>3. "FNCE" \in Own1 /\ ProcOf("FNCE") = "FNCE"
  BY DEF Own1, Simple, ProcOf
<1>4. /\ OnTop(W, F, hist, named, r, C, OnNode) /\ OnNode.fn = "FNCE"
      /\ Worlds(W) /\ MatchAt(W, F, hist, stk, calls, named, r, todo, C)
  BY <1>1, <1>3, OnNodeTop
<1>5. Later(W, r, r') /\ r'.then = r.then /\ r'.TXSP = r.TXSP
  BY <1>1, LenTrue
<1>6. Live(W, F, Append(hist, e), stk, calls, named, r', "SCOK")
  BY <1>2, <1>4, <1>5, FenceGoes
<1> QED BY <1>1, <1>6, MatchingIs, GoesLive

LEMMA SUCFKeeps ==
  ASSUME NEW W, NEW F, NEW C, On(W, F, C), SUCF
  PROVE  IInv'
<1> DEFINE e == Undo("SUCF", 0)
           t == Last(hist).then
<1>1. /\ todo = "SUCF" /\ UNCHANGED <<problem, mem, now, stk, calls, named>> /\ hist' = Append(hist, e)
      /\ todo' = "SCOK" /\ r' = [r EXCEPT !.LENFCL = TRUE, !.then = t]
  BY DEF SUCF, Keeps, Top
<1>2. e \in EntrySet(W) /\ e.fn = "SUCF" /\ e.cur = r.TXSP
  <2>1. "SUCF" \in EntryFns
    BY DEF EntryFns
  <2> QED BY <2>1, UndoMade
<1> HIDE DEF e
<1>3. Worlds(W) /\ MatchAt(W, F, hist, stk, calls, named, r, "SUCF", C) /\ r \in Registers(W)
  BY <1>1, OnIs
<1>4. t \in Int
  <2>1. Phase(W, F, hist, named, r, "SUCF", C)
    BY <1>3, MatchIs
  <2>2. InSUCF(W, F, hist, named, r, C)
    BY <2>1, Phases
  <2>3. Last(hist) \in EntrySet(W)
    BY <2>2, HeldIs DEF InSUCF
  <2> QED BY <2>3 DEF EntrySet
<1>5. Later(W, r, r') /\ r'.then = t /\ r'.TXSP = r.TXSP
  <2>1. r' = [r EXCEPT !.LENFCL = TRUE, !.then = t]
    BY <1>1
  <2> HIDE DEF t
  <2> QED BY ONLY <1>3, <1>4, <2>1 DEF Registers, Later
<1>6. r'.then = Last(hist).then
  BY <1>5
<1> HIDE DEF t
<1>7. Live(W, F, Append(hist, e), stk, calls, named, r', "SCOK")
  BY <1>2, <1>3, <1>5, <1>6, Succeeding
<1> QED BY <1>1, <1>7, MatchingIs, GoesLive

LEMMA ARBNKeeps ==
  ASSUME NEW W, NEW F, NEW C, On(W, F, C), ARBN
  PROVE  IInv'
<1>1. /\ todo = "ARBN" /\ UNCHANGED <<problem, mem, now, r, hist, calls, named>>
      /\ stk' = Append(stk, Cell("arbno", r.TXSP)) /\ todo' = "SCOK"
  BY DEF ARBN
<1>2. /\ Worlds(W) /\ MatchAt(W, F, hist, stk, calls, named, r, "ARBN", C) /\ r.TXSP \in Int
  BY <1>1, OnIs, RegsAre
<1>3. Live(W, F, hist, Append(stk, Cell("arbno", r.TXSP)), calls, named, r, "SCOK")
  BY <1>2, RepeatStarts
<1> QED BY <1>1, <1>3, MatchingIs, GoesLive

LEMMA FailsBack ==
  ASSUME NEW W, NEW F, NEW C, On(W, F, C)
  PROVE  Fails(r.LENFCL) \in {"SALT", "SALF"} /\ Fails(r.LENFCL) \in Matching
BY RegsAre, MatchingIs

LEMMA ARBFKeeps ==
  ASSUME NEW W, NEW F, NEW C, On(W, F, C), ARBF
  PROVE  IInv'
<1>1. /\ todo = "ARBF" /\ UNCHANGED <<problem, mem, now, r, hist, calls, named>>
      /\ stk' = Front(stk) /\ todo' = Fails(r.LENFCL)
  BY DEF ARBF, Pops
<1>2. Worlds(W) /\ MatchAt(W, F, hist, stk, calls, named, r, "ARBF", C)
  BY <1>1, OnIs
<1>3. todo' \in {"SALT", "SALF"} /\ todo' \in Matching
  BY <1>1, FailsBack
<1>4. Live(W, F, hist, Front(stk), calls, named, r, todo')
  BY <1>2, <1>3, RepeatFails
<1> QED BY <1>1, <1>3, <1>4, GoesLive

LEMMA EARBKeeps ==
  ASSUME NEW W, NEW F, NEW C, On(W, F, C), EARB
  PROVE  IInv'
<1> DEFINE e == [Last(hist) EXCEPT !.fn = "started", !.or = Last(stk).n, !.then = 0,
                                   !.cur = r.TXSP, !.len = FALSE]
<1>1. /\ todo = "EARB" /\ UNCHANGED <<problem, mem, now, r, calls, named>>
      /\ stk' = Front(stk) /\ todo' = "SCOK" /\ hist' = Append(Front(hist), e)
  BY DEF EARB, Pops, SetTop, Top
<1>2. "EARB" \in Own1 /\ ProcOf("EARB") = "EARB"
  BY DEF Own1, ProcOf
<1>3. /\ OnTop(W, F, hist, named, r, C, OnNode) /\ OnNode.fn = "EARB"
      /\ Worlds(W) /\ MatchAt(W, F, hist, stk, calls, named, r, todo, C)
  BY <1>1, <1>2, OnNodeTop
<1>4. Last(stk).n \in Int
  <2> DEFINE tag == "arbno"
  <2>1. tag = IF OnNode.fn = "EARB" THEN "arbno" ELSE "name"
    BY <1>3
  <2>2. OnNode.fn \in {"ENME", "ENMI", "EARB"}
    BY <1>3
  <2> HIDE DEF tag
  <2>3. Last(stk) \in [use : {tag}, n : Int]
    BY <1>3, <2>1, <2>2, Closing
  <2> QED BY <2>3
<1>5. e \in EntrySet(W) /\ e.fn = "started" /\ e.cur = r.TXSP
  <2> DEFINE t == Last(hist)
             b == Last(stk).n
             c == r.TXSP
  <2>1. e = [t EXCEPT !.fn = "started", !.or = b, !.then = 0, !.cur = c, !.len = FALSE]
    OBVIOUS
  <2>2. t \in EntrySet(W) /\ b \in Int /\ c \in Int /\ "started" \in EntryFns
    BY <1>3, <1>4, RegsAre DEF OnTop, EntryFns
  <2> DEFINE y == [fn |-> "started", or |-> b, then |-> 0, cur |-> c, res |-> t.res, len |-> FALSE,
                   owner |-> t.owner]
  <2> HIDE DEF e, t, b, c
  <2>3. y \in EntrySet(W) /\ y.fn = "started" /\ y.cur = c
    BY ONLY <2>2 DEF EntrySet
  <2>4. e = y
    BY ONLY <2>1, <2>2 DEF EntrySet
  <2> HIDE DEF y
  <2>5. e \in EntrySet(W) /\ e.fn = "started" /\ e.cur = c
    BY <2>3, <2>4
  <2> QED BY <2>5 DEF c
<1> HIDE DEF e
<1>6. Live(W, F, Append(Front(hist), e), Front(stk), calls, named, r, "SCOK")
  BY <1>3, <1>5, OnceDone
<1> QED BY <1>1, <1>6, MatchingIs, GoesLive

LEMMA ONARKeeps ==
  ASSUME NEW W, NEW F, NEW C, On(W, F, C), ONAR
  PROVE  IInv'
<1>1. /\ todo \in {"ONAR", "ONRF"} /\ UNCHANGED <<problem, mem, now, r, calls, named>>
      /\ \/ todo = "ONAR" /\ todo' = "SCOK" /\ UNCHANGED <<hist, stk>>
         \/ /\ stk' = Append(stk, Cell("arbno", Started)) /\ hist' = ButEARB /\ todo' = Fails(r.LENFCL)
  BY DEF ONAR
<1>2. Worlds(W) /\ MatchAt(W, F, hist, stk, calls, named, r, todo, C)
  BY OnIs
<1>3. CASE todo = "ONAR" /\ todo' = "SCOK" /\ UNCHANGED <<hist, stk>>
  <2>1. Live(W, F, hist, stk, calls, named, r, "SCOK")
    BY <1>2, <1>3, RepeatOnce
  <2> QED BY <1>1, <1>3, <2>1, MatchingIs, GoesLive
<1>4. CASE stk' = Append(stk, Cell("arbno", Started)) /\ hist' = ButEARB /\ todo' = Fails(r.LENFCL)
  <2>1. todo' \in {"SALT", "SALF"} /\ todo' \in Matching
    BY <1>4, FailsBack
  <2>2. AnySeq(hist) /\ Len(Front(hist)) > 0 /\ hist # <<>>
    <3>1. PICK n : Above(W, F, hist, named, r, C, n, C)
      BY <1>1, <1>2, Repeating
    <3>2. AnySeq(hist) /\ hist # <<>> /\ Held(W, F, Front(hist), named, C)
      BY <3>1 DEF Above
    <3>3. Front(hist) # <<>> /\ AnySeq(Front(hist))
      BY <3>2, HeldIs DEF Prefix
    <3>4. Len(Front(hist)) > 0
      BY <3>3, AnyFront
    <3> QED BY <3>2, <3>4
  <2>3. ButEARB = Front(Front(hist)) /\ Started = Last(Front(hist)).or
    <3> DEFINE n == Len(hist)
    <3>1. PICK S : hist \in Seq(S)
      BY <2>2 DEF AnySeq
    <3>2. Front(hist) = SubSeq(hist, 1, n - 1) /\ n \in Nat \ {0} /\ Front(hist) \in Seq(S) /\ Len(Front(hist)) = n - 1
      BY <2>2, <3>1 DEF Front
    <3>3. n - 1 > 0
      BY <2>2, <3>2
    <3>4. Last(Front(hist)) = hist[n - 1]
      BY <3>1, <3>2, <3>3 DEF Last
    <3>5. Front(Front(hist)) = SubSeq(hist, 1, n - 2)
      <4>1. Front(Front(hist)) = SubSeq(Front(hist), 1, (n - 1) - 1)
        BY <3>2 DEF Front
      <4>2. (n - 1) - 1 = n - 2
        BY <3>2
      <4> QED BY <3>1, <3>2, <3>3, <4>1, <4>2
    <3> QED BY <3>4, <3>5 DEF ButEARB, Started
  <2> DEFINE x == Last(Front(hist)).or
  <2>4. stk' = Append(stk, Cell("arbno", x)) /\ hist' = Front(Front(hist))
    BY <1>4, <2>3
  <2> HIDE DEF x
  <2>5. Live(W, F, Front(Front(hist)), Append(stk, Cell("arbno", x)), calls, named, r, todo')
    <3>1. x = Last(Front(hist)).or
      BY DEF x
    <3> QED BY <1>1, <1>2, <2>1, <3>1, RepeatBack
  <2> QED BY <1>1, <2>1, <2>4, <2>5, GoesLive
<1> QED BY <1>1, <1>3, <1>4

(* Names.                                                                  *)
LEMMA NMEKeeps ==
  ASSUME NEW W, NEW F, NEW C, On(W, F, C), NME
  PROVE  IInv'
<1> DEFINE e == Undo("FNME", 0)
<1>1. /\ todo = "NME" /\ UNCHANGED <<problem, mem, now, calls, named>> /\ hist' = Append(hist, e)
      /\ stk' = Append(stk, Cell("name", r.TXSP)) /\ todo' = "SCOK" /\ r' = [r EXCEPT !.LENFCL = TRUE]
  BY DEF NME, Keeps
<1>2. e \in EntrySet(W) /\ e.fn = "FNME"
  <2>1. "FNME" \in EntryFns
    BY DEF EntryFns
  <2> QED BY <2>1, UndoMade
<1> HIDE DEF e
<1>3. "NME" \in Own1 /\ ProcOf("NME") = "NME"
  BY DEF Own1, ProcOf
<1>4. /\ OnTop(W, F, hist, named, r, C, OnNode) /\ OnNode.fn = "NME"
      /\ Worlds(W) /\ MatchAt(W, F, hist, stk, calls, named, r, todo, C) /\ r.TXSP \in Int
  BY <1>1, <1>3, OnNodeTop, RegsAre
<1>5. Later(W, r, r') /\ r'.then = r.then /\ r'.TXSP = r.TXSP
  BY <1>1, LenTrue
<1>6. Live(W, F, Append(hist, e), Append(stk, Cell("name", r.TXSP)), calls, named, r', "SCOK")
  BY <1>2, <1>4, <1>5, NameStarts
<1> QED BY <1>1, <1>6, MatchingIs, GoesLive

LEMMA FNMEKeeps ==
  ASSUME NEW W, NEW F, NEW C, On(W, F, C), FNME
  PROVE  IInv'
<1>1. /\ todo = "FNME" /\ UNCHANGED <<problem, mem, now, r, hist, calls, named>>
      /\ stk' = Front(stk) /\ todo' = Fails(r.LENFCL)
  BY DEF FNME, Pops
<1>2. Worlds(W) /\ MatchAt(W, F, hist, stk, calls, named, r, "FNME", C)
  BY <1>1, OnIs
<1>3. todo' \in {"SALT", "SALF"} /\ todo' \in Matching
  BY <1>1, FailsBack
<1>4. Live(W, F, hist, Front(stk), calls, named, r, todo')
  BY <1>2, <1>3, LaterSame, NameFails
<1> QED BY <1>1, <1>3, <1>4, GoesLive

LEMMA ENMEKeeps ==
  ASSUME NEW W, NEW F, NEW C, On(W, F, C), ENME
  PROVE  IInv' /\ TMVAL' \in Int
<1> DEFINE e == Undo("DNME", Last(stk).n)
           x == <<OnNode.arg, Last(stk).n, r.TXSP>>
<1>1. /\ todo = "ENME" /\ UNCHANGED <<problem, mem, now, calls>> /\ hist' = Append(hist, e)
      /\ stk' = Front(stk) /\ named' = Append(named, x) /\ todo' = "SCOK" /\ r' = [r EXCEPT !.LENFCL = TRUE]
  BY DEF ENME, Keeps, Pops
<1>2. "ENME" \in Own1 /\ ProcOf("ENME") = "ENME"
  BY DEF Own1, ProcOf
<1>3. /\ OnTop(W, F, hist, named, r, C, OnNode) /\ OnNode.fn = "ENME"
      /\ Worlds(W) /\ MatchAt(W, F, hist, stk, calls, named, r, todo, C)
  BY <1>1, <1>2, OnNodeTop
<1>4. Last(stk).n \in Int
  <2> DEFINE tag == "name"
  <2>1. tag = IF OnNode.fn = "EARB" THEN "arbno" ELSE "name"
    BY <1>3
  <2>2. OnNode.fn \in {"ENME", "ENMI", "EARB"}
    BY <1>3
  <2> HIDE DEF tag
  <2>3. Last(stk) \in [use : {tag}, n : Int]
    BY <1>3, <2>1, <2>2, Closing
  <2> QED BY <2>3
<1>8. TMVAL' \in Int
  BY <1>4 DEF ENME
<1>5. e \in EntrySet(W) /\ e.fn = "DNME"
  <2>1. "DNME" \in EntryFns
    BY DEF EntryFns
  <2> QED BY <1>4, <2>1, UndoMade
<1> HIDE DEF e, x
<1>6. Later(W, r, r') /\ r'.then = r.then /\ r'.TXSP = r.TXSP
  BY <1>1, LenTrue
<1>7. Live(W, F, Append(hist, e), Front(stk), calls, Append(named, x), r', "SCOK")
  BY <1>3, <1>5, <1>6, NameListed
<1> QED BY <1>1, <1>7, <1>8, MatchingIs, GoesLive

LEMMA ENMI2Keeps ==
  ASSUME NEW W, NEW F, NEW C, On(W, F, C), ENMI2
  PROVE  IInv' /\ TMVAL' \in Int
<1> DEFINE e == Undo("DNME1", r.res)
<1>1. /\ todo = "ENMI2" /\ UNCHANGED <<problem, mem, now, stk, calls, named>> /\ hist' = Append(hist, e)
      /\ todo' = "SCOK" /\ r' = [r EXCEPT !.LENFCL = TRUE]
  BY DEF ENMI2, Keeps
<1>2. e \in EntrySet(W) /\ e.fn = "DNME1"
  <2>1. "DNME1" \in EntryFns /\ r.res \in Int
    BY RegsAre DEF EntryFns
  <2> QED BY <2>1, UndoMade
<1>6. TMVAL' \in Int
  BY RegsAre DEF ENMI2
<1> HIDE DEF e
<1>3. Worlds(W) /\ MatchAt(W, F, hist, stk, calls, named, r, "ENMI2", C)
  BY <1>1, OnIs
<1>4. Later(W, r, r') /\ r'.then = r.then /\ r'.TXSP = r.TXSP
  BY <1>1, LenTrue
<1>5. Live(W, F, Append(hist, e), stk, calls, named, r', "SCOK")
  BY <1>2, <1>3, <1>4, NameDone
<1> QED BY <1>1, <1>5, <1>6, MatchingIs, GoesLive

LEMMA DNMEKeeps ==
  ASSUME NEW W, NEW F, NEW C, On(W, F, C), DNME
  PROVE  IInv'
<1>1. /\ todo \in {"DNME", "DNME1"} /\ UNCHANGED <<problem, mem, now, r, hist, calls>>
      /\ named' = IF todo = "DNME" THEN Front(named) ELSE named
      /\ stk' = Append(stk, Cell("name", r.res)) /\ todo' = Fails(r.LENFCL)
  BY DEF DNME, Unnamed
<1>2. Worlds(W) /\ MatchAt(W, F, hist, stk, calls, named, r, todo, C) /\ r.res \in Int
  BY OnIs, RegsAre
<1>3. todo' \in {"SALT", "SALF"} /\ todo' \in Matching
  BY <1>1, FailsBack
<1> DEFINE x == r.res
<1>4. x \in Int /\ stk' = Append(stk, Cell("name", x))
  BY <1>1, <1>2
<1> HIDE DEF x
<1>5. Live(W, F, hist, Append(stk, Cell("name", x)), calls, named', r, todo')
  BY <1>1, <1>2, <1>3, <1>4, LaterSame, NameBack
<1> QED BY <1>1, <1>3, <1>4, <1>5, GoesLive

-----------------------------------------------------------------------------
(* An inner statement begins.                                              *)

KeptCell(back) == [use |-> "kept", r |-> back, PDLPTR |-> Len(hist), NAMICL |-> Len(named)]
Suspending(gh, gn, below, by, k) ==
    [hist |-> gh, stk |-> Append(below, k), calls |-> Append(calls, [use |-> by, at |-> Len(Append(below, k))]),
     named |-> gn]

\* What is kept can be had again.
KeptBelow(G, gh, gn, below, by, k) ==
    /\ G.hist = gh /\ G.named = gn /\ AnySeq(G.stk) /\ AnySeq(G.calls)
    /\ G.stk = Append(below, k) /\ G.calls = Append(calls, [use |-> by, at |-> Len(Append(below, k))])
    /\ G.stk # <<>> /\ G.calls # <<>> /\ Front(G.stk) = below /\ Last(G.stk) = k
    /\ Front(G.calls) = calls /\ Last(G.calls).use = by /\ Last(G.calls).at = Len(G.stk)

LEMMA SuspendingIs ==
  ASSUME NEW gh, NEW gn, NEW below, NEW by, NEW k, AnySeq(below), AnySeq(calls),
         NEW G, G = Suspending(gh, gn, below, by, k)
  PROVE  KeptBelow(G, gh, gn, below, by, k)
<1> DEFINE c == [use |-> by, at |-> Len(Append(below, k))]
           s == Append(below, k)
           d == Append(calls, c)
<1>1. /\ G.hist = gh /\ G.named = gn /\ G.stk = s /\ G.calls = d
  BY DEF Suspending
<1>2. c.use = by /\ c.at = Len(s)
  OBVIOUS
<1>3. AnySeq(s) /\ s # <<>> /\ Front(s) = below /\ Last(s) = k
  BY AnyAppend
<1>4. AnySeq(d) /\ d # <<>> /\ Front(d) = calls /\ Last(d) = c
  <2> HIDE DEF c
  <2> QED BY AnyAppend
<1>5. /\ G.stk = Append(below, k) /\ G.calls = Append(calls, [use |-> by, at |-> Len(Append(below, k))])
  BY <1>1
<1> HIDE DEF c, s, d
<1> QED BY <1>1, <1>2, <1>3, <1>4, <1>5 DEF KeptBelow

LEMMA Entering ==
  ASSUME NEW W, Situation(W), UNCHANGED <<problem, mem, now>>, NEW below, NEW by \in InMatch \cup {"NMD", "SJSR"},
         NEW back \in Registers(W), NEW gh, NEW gn, AnySeq(below), AnySeq(calls),
         Prefix(gh, hist), Prefix(gn, named), Enters(below, by, back, Len(gh), Len(gn)),
         NEW G, G = Suspending(gh, gn, below, by, KeptCell(back)), GoesBack(problem, W, G, by, KeptCell(back))
  PROVE  IInv'
<1> DEFINE k == KeptCell(back)
<1>0. KeptBelow(G, gh, gn, below, by, k)
  <2>1. G = Suspending(gh, gn, below, by, k)
    OBVIOUS
  <2> HIDE DEF k
  <2> QED BY <2>1, SuspendingIs
<1>1. /\ G.hist = gh /\ G.named = gn /\ AnySeq(G.stk) /\ AnySeq(G.calls)
      /\ G.stk = Append(below, k) /\ G.calls = Append(calls, [use |-> by, at |-> Len(Append(below, k))])
      /\ G.stk # <<>> /\ G.calls # <<>> /\ Last(G.stk) = k
      /\ Last(G.calls).use = by /\ Last(G.calls).at = Len(G.stk)
  <2> HIDE DEF k
  <2> QED BY <1>0, Zenon DEF KeptBelow
<1>2. AnySeq(gh) /\ AnySeq(gn) /\ Len(gh) \in Nat /\ Len(gn) \in Nat
  <2>1. AnySeq(gh) /\ AnySeq(gn)
    BY DEF Prefix
  <2> QED BY <2>1, AnyRange
<1>3. Suspended(problem, W, G)
  <2>1. GoesBack(problem, W, G, Last(G.calls).use, Last(G.stk))
    BY <1>1
  <2>2. Last(G.calls).use \in InMatch \cup {"NMD", "SJSR"}
    BY <1>1
  <2>3. Last(G.stk).use = "kept"
    BY <1>1 DEF KeptCell
  <2> HIDE DEF k
  <2> QED BY <1>1, <1>2, <2>1, <2>2, <2>3 DEF Suspended
<1>4. /\ stk' = Append(below, k) /\ calls' = Append(calls, [use |-> by, at |-> Len(stk')])
      /\ r' = [back EXCEPT !.PDLHED = Len(gh), !.NHEDCL = Len(gn)] /\ todo' = "SCNR"
      /\ hist' = hist /\ named' = named
  BY DEF Enters, KeptCell, lists
<1>5. Ours(W, G, r')
  <2> DEFINE a == Len(gh)
             b == Len(gn)
  <2>1. r' = [back EXCEPT !.PDLHED = a, !.NHEDCL = b] /\ a \in Int /\ b \in Int
    BY <1>2, <1>4
  <2> HIDE DEF a, b
  <2>2. r' \in Registers(W) /\ r'.PDLHED = a /\ r'.NHEDCL = b
    BY ONLY <2>1, back \in Registers(W) DEF Registers
  <2> QED BY <1>1, <2>2 DEF Ours, Of, a, b
<1>6. Begins(W, G, hist', stk', calls', named', r')
  <2>1. stk' = G.stk /\ calls' = G.calls
    BY <1>1, <1>4
  <2>2. Prefix(G.hist, hist') /\ Prefix(G.named, named')
    BY <1>1, <1>4
  <2> QED BY <1>5, <2>1, <2>2 DEF Begins
<1>7. Running(problem, W, G, hist', stk', calls', named', r', todo')
  BY <1>4, <1>6 DEF Running
<1> QED BY <1>3, <1>7, KeepsOnWith

\* In the middle of a match.
LEMMA EnteringMatch ==
  ASSUME NEW W, NEW F, Situation(W), Suspended(problem, W, F), CallsOf(F, calls), ~ Inside,
         UNCHANGED <<problem, mem, now>>, NEW below, NEW by \in InMatch,
         NEW back, AnySeq(hist), AnySeq(named),
         Live(W, F, hist, below, calls, named, back, After_(by)), EntersInMatch(below, by, back)
  PROVE  IInv'
<1>1. F = Nothing
  BY Where, SuspendedIs
<1>2. back \in Registers(W) /\ AnySeq(below) /\ AnySeq(calls)
  <2>1. PICK C : MatchAt(W, F, hist, below, calls, named, back, After_(by), C)
    BY DEF Live
  <2>2. back \in Registers(W)
    BY <2>1 DEF MatchAt, Ours
  <2>3. Prefix(F.stk, below) /\ Prefix(F.calls, calls)
    BY <2>1 DEF MatchAt, Stands
  <2> QED BY <2>2, <2>3 DEF Prefix
<1> DEFINE k == KeptCell(back)
           G == Suspending(hist, named, below, by, k)
<1>3. /\ G.hist = hist /\ G.named = named /\ Front(G.stk) = below /\ Front(G.calls) = calls
  <2>1. G = Suspending(hist, named, below, by, k)
    OBVIOUS
  <2> HIDE DEF G, k
  <2>2. KeptBelow(G, hist, named, below, by, k)
    BY <1>2, <2>1, SuspendingIs
  <2> QED BY <2>2, Zenon DEF KeptBelow
<1>4. k.r = back /\ k.PDLPTR = Len(hist) /\ k.NAMICL = Len(named)
  BY DEF KeptCell
<1>5. GoesBack(problem, W, G, by, k)
  <2> HIDE DEF G, k
  <2>1. Live(W, Nothing, G.hist, Front(G.stk), Front(G.calls), G.named, k.r, After_(by))
    BY <1>1, <1>3, <1>4
  <2> QED BY <1>3, <1>4, <2>1 DEF GoesBack
<1>6. Enters(below, by, back, Len(hist), Len(named))
  BY DEF EntersInMatch
<1>7. Prefix(hist, hist) /\ Prefix(named, named)
  BY PrefixSelf
<1>8. G = Suspending(hist, named, below, by, KeptCell(back)) /\ GoesBack(problem, W, G, by, KeptCell(back))
  BY <1>5
<1> HIDE DEF G, k
<1> QED BY <1>2, <1>6, <1>7, <1>8, Entering

LEMMA NotInside ==
  ASSUME Runs
  PROVE  ~ Inside
BY DEF Runs

LEMMA ListsAre ==
  ASSUME NEW W, NEW F, NEW C, OnTop(W, F, hist, named, r, C, OnNode)
  PROVE  AnySeq(hist) /\ AnySeq(named)
<1>1. Held(W, F, hist, named, C)
  BY DEF OnTop
<1>2. Prefix(F.hist, hist) /\ Prefix(F.named, named)
  BY <1>1, HeldIs
<1> QED BY <1>2 DEF Prefix

LEMMA ENMIKeeps ==
  ASSUME NEW W, NEW F, NEW C, On(W, F, C), ENMI
  PROVE  IInv'
<1> DEFINE i == Last(stk).n
           back == [r EXCEPT !.res = i]
<1>0. todo = "ENMI" /\ UNCHANGED <<problem, mem, now>>
  BY DEF ENMI
<1>1. \/ EntersInMatch(Front(stk), "ENMI", back) /\ Runs
      \/ /\ todo' = "ENMI2" /\ r' = back /\ stk' = Front(stk)
         /\ UNCHANGED <<hist, named, calls>>
      \/ OnNode.arg = Keyword
      \/ /\ todo' = "SALF" /\ stk' = Append(Front(stk), Cell("name", 0)) /\ UNCHANGED <<r, hist, named, calls>>
  BY DEF ENMI, Traced, lists
<1>2. "ENMI" \in Own1 /\ ProcOf("ENMI") = "ENMI"
  BY DEF Own1, ProcOf
<1>3. /\ OnTop(W, F, hist, named, r, C, OnNode) /\ OnNode.fn = "ENMI" /\ Enough(OnNode)
      /\ Worlds(W) /\ MatchAt(W, F, hist, stk, calls, named, r, todo, C) /\ r \in Registers(W)
  BY <1>0, <1>2, OnNodeTop
<1>4. i \in Int
  <2> DEFINE tag == "name"
  <2>1. tag = IF OnNode.fn = "EARB" THEN "arbno" ELSE "name"
    BY <1>3
  <2>2. OnNode.fn \in {"ENME", "ENMI", "EARB"}
    BY <1>3
  <2> HIDE DEF tag
  <2>3. Last(stk) \in [use : {tag}, n : Int]
    BY <1>3, <2>1, <2>2, Closing
  <2> QED BY <2>3
<1>5. /\ Later(W, r, back) /\ back.then = r.then /\ back.TXSP = r.TXSP /\ back.PATICL = r.PATICL
  <2>1. back = [r EXCEPT !.res = i]
    OBVIOUS
  <2> HIDE DEF back, i
  <2> QED BY ONLY <1>3, <1>4, <2>1 DEF Registers, Later
<1> HIDE DEF back
<1>6. Live(W, F, hist, Front(stk), calls, named, back, "ENMI2")
  BY <1>3, <1>5, NameTaken
<1>7. CASE EntersInMatch(Front(stk), "ENMI", back) /\ Runs
  <2>1. After_("ENMI") = "ENMI2" /\ "ENMI" \in InMatch
    BY DEF After_, InMatch
  <2>2. AnySeq(hist) /\ AnySeq(named)
    BY <1>3, ListsAre
  <2>3. Situation(W) /\ Suspended(problem, W, F) /\ CallsOf(F, calls) /\ ~ Inside
    BY <1>7, OnIs, NotInside
  <2>4. Live(W, F, hist, Front(stk), calls, named, back, After_("ENMI"))
    BY <1>6, <2>1
  <2> QED BY <1>0, <1>7, <2>1, <2>2, <2>3, <2>4, EnteringMatch
<1>8. CASE todo' = "ENMI2" /\ r' = back /\ stk' = Front(stk) /\ UNCHANGED <<hist, named, calls>>
  BY <1>0, <1>6, <1>8, MatchingIs, GoesLive
<1>9. OnNode.arg # Keyword
  BY <1>3 DEF Enough, Fits
<1>10. CASE /\ todo' = "SALF" /\ stk' = Append(Front(stk), Cell("name", 0)) /\ UNCHANGED <<r, hist, named, calls>>
  <2>1. Live(W, F, hist, Append(Front(stk), Cell("name", 0)), calls, named, r, "SALF")
    BY <1>3, NameMissing
  <2> QED BY <1>0, <1>10, <2>1, MatchingIs, GoesLive
<1> QED BY <1>1, <1>7, <1>8, <1>9, <1>10

LEMMA ATPKeeps ==
  ASSUME NEW W, NEW F, NEW C, On(W, F, C), ATP
  PROVE  IInv'
<1>0. todo = "ATP" /\ UNCHANGED <<problem, mem, now>>
  BY DEF ATP
<1>1. \/ EntersInMatch(stk, "ATP", r) /\ Runs
      \/ todo' = "SCOK" /\ UNCHANGED <<r, stk, hist, named, calls>>
  BY DEF ATP, Traced, lists
<1>2. "ATP" \in Own1 /\ ProcOf("ATP") = "ATP" /\ "ATP" \in Simple
  BY DEF Own1, ProcOf, Simple
<1>3. /\ OnTop(W, F, hist, named, r, C, OnNode) /\ OnNode.fn \in Simple
      /\ Worlds(W) /\ MatchAt(W, F, hist, stk, calls, named, r, todo, C)
  BY <1>0, <1>2, OnNodeTop
<1>4. Live(W, F, hist, stk, calls, named, r, "SCOK")
  <2>1. W.quick => r.TXSP <= Last(C).max
    BY <1>3 DEF OnTop
  <2>2. Later(W, r, r)
    BY LaterSame
  <2> QED BY <1>3, <2>1, <2>2, SimpleGoes
<1>5. CASE EntersInMatch(stk, "ATP", r) /\ Runs
  <2>1. After_("ATP") = "SCOK" /\ "ATP" \in InMatch
    BY DEF After_, InMatch
  <2>2. AnySeq(hist) /\ AnySeq(named)
    BY <1>3, ListsAre
  <2>3. Situation(W) /\ Suspended(problem, W, F) /\ CallsOf(F, calls) /\ ~ Inside
    BY <1>5, OnIs, NotInside
  <2>4. Live(W, F, hist, stk, calls, named, r, After_("ATP"))
    BY <1>4, <2>1
  <2> QED BY <1>0, <1>5, <2>1, <2>2, <2>3, <2>4, EnteringMatch
<1>6. CASE todo' = "SCOK" /\ UNCHANGED <<r, stk, hist, named, calls>>
  BY <1>0, <1>4, <1>6, MatchingIs, GoesLive
<1> QED BY <1>1, <1>5, <1>6

LEMMA STARKeeps ==
  ASSUME NEW W, NEW F, NEW C, On(W, F, C), STAR
  PROVE  IInv'
<1>0. todo = "STAR" /\ UNCHANGED <<problem, mem, now>>
  BY DEF STAR
<1>1. \/ EntersInMatch(stk, "STAR", r) /\ Runs
      \/ todo' = "STARV" /\ UNCHANGED <<r, stk, hist, named, calls>>
  BY DEF STAR, lists
<1>2. "STAR" \in Own1
  BY DEF Own1
<1>3. /\ OnTop(W, F, hist, named, r, C, OnNode) /\ MatchAt(W, F, hist, stk, calls, named, r, "STAR", C)
  BY <1>0, <1>2, OnNodeTop
<1>4. Live(W, F, hist, stk, calls, named, r, "STARV")
  BY <1>3, StarEvaluated
<1>5. CASE EntersInMatch(stk, "STAR", r) /\ Runs
  <2>1. After_("STAR") = "STARV" /\ "STAR" \in InMatch
    BY DEF After_, InMatch
  <2>2. AnySeq(hist) /\ AnySeq(named)
    BY <1>3, ListsAre
  <2>3. Situation(W) /\ Suspended(problem, W, F) /\ CallsOf(F, calls) /\ ~ Inside
    BY <1>5, OnIs, NotInside
  <2>4. Live(W, F, hist, stk, calls, named, r, After_("STAR"))
    BY <1>4, <2>1
  <2> QED BY <1>0, <1>5, <2>1, <2>2, <2>3, <2>4, EnteringMatch
<1>6. CASE todo' = "STARV" /\ UNCHANGED <<r, stk, hist, named, calls>>
  BY <1>0, <1>4, <1>6, MatchingIs, GoesLive
<1> QED BY <1>1, <1>5, <1>6

-----------------------------------------------------------------------------
(* The value of X in *X does not change while the statement runs.          *)
AfterConstant == \A x \in Names : After[x] = x

LEMMA SameValue ==
  ASSUME AfterConstant, NEW W, NEW F, NEW C, On(W, F, C), todo = "STARV"
  PROVE  /\ OnNode.arg \in Names /\ now[OnNode.arg] = OnNode.arg
         /\ Evaluated(OnNode.arg) => UNCHANGED <<mem, now>>
<1> DEFINE x == OnNode.arg
           p == r.PATBCL
           q == r.PATICL
           j == r.PATICL + 3
<1>1. "STARV" \in Own1 /\ ProcOf("STARV") = "STAR"
  BY DEF Own1, ProcOf
<1>2. /\ OnTop(W, F, hist, named, r, C, OnNode) /\ OnNode.fn = "STAR" /\ Worlds(W)
      /\ MatchAt(W, F, hist, stk, calls, named, r, "STARV", C)
  BY <1>1, OnNodeTop
<1>3. /\ StarAt(W, C, q) /\ q \in 0 .. Len(Pat(W, C)) - 1 /\ OnNode = NodeOf(W, C, q)
  BY <1>2, StarOnTop
<1>4. x \in Names /\ NodeOf(W, C, q + 2).arg = x /\ q + 2 \in 0 .. Len(Pat(W, C)) - 1
  BY <1>3 DEF StarAt
<1>5. Situation(W) /\ p = Last(C).pat /\ p \in DOMAIN W.nodes /\ W.nodes = mem
  BY OnIs
<1>6. now = [y \in Names |-> y] /\ mem = [y \in Names \cup Statements |-> mem[y]] /\ p \in Names \cup Statements
  BY <1>5, SituationIs DEF Situation
<1>7. now[x] = x
  <2> HIDE DEF x
  <2> QED BY <1>4, <1>6
<1>8. ASSUME Evaluated(x) PROVE UNCHANGED <<mem, now>>
  <2>1. mem' = [mem EXCEPT ![p][j].arg = x] /\ now' = [now EXCEPT ![x] = After[now[x]]]
    BY <1>8 DEF Evaluated
  <2>2. now' = now
    <3>1. After[x] = x
      BY <1>4 DEF AfterConstant
    <3> HIDE DEF x
    <3> QED BY <1>4, <1>6, <1>7, <2>1, <3>1
  <2>3. mem[p][j].arg = x /\ j \in 1 .. Len(mem[p])
    <3>1. q \in Int /\ j = (q + 2) + 1
      BY RegsAre
    <3>2. Len(mem[p]) \in Nat
      BY <1>2, <1>5, WorldIs
    <3>3. mem[p] = Pat(W, C) /\ NodeOf(W, C, q + 2) = mem[p][(q + 2) + 1]
      BY <1>5 DEF Pat, NodeOf
    <3>4. (q + 2) + 1 \in 1 .. Len(mem[p])
      <4>1. q + 2 \in 0 .. Len(mem[p]) - 1
        BY <1>4, <3>3
      <4> DEFINE l == Len(mem[p])
      <4> HIDE DEF l, q
      <4>2. q + 2 \in 0 .. l - 1 /\ l \in Nat /\ q \in Int
        BY <3>1, <3>2, <4>1 DEF l
      <4>3. (q + 2) + 1 \in 1 .. l
        BY <4>2
      <4> QED BY <4>3 DEF l
    <3> QED BY <1>4, <3>1, <3>3, <3>4
  <2>4. \E X : mem[p] \in Seq(NodesWith(X))
    BY <1>2, <1>5 DEF Worlds, GoodPattern
  <2>5. mem' = mem
    <3> DEFINE P == mem[p]
    <3>1. PICK X : P \in Seq(NodesWith(X))
      BY <2>4
    <3>2. P[j] \in NodesWith(X)
      BY <2>3, <3>1
    <3>3. [P[j] EXCEPT !.arg = x] = P[j]
      <4> DEFINE n == P[j]
      <4>1. n \in NodesWith(X) /\ n.arg = x
        BY <2>3, <3>2
      <4> HIDE DEF n, x
      <4>2. [n EXCEPT !.arg = x] = n
        BY ONLY <4>1 DEF NodesWith
      <4> QED BY <4>2 DEF n
    <3>4. [P EXCEPT ![j] = P[j]] = P
      <4> HIDE DEF P, j
      <4> QED BY ONLY <3>1
    <3>5. [P EXCEPT ![j].arg = x] = P
      <4>1. [P EXCEPT ![j].arg = x] = [P EXCEPT ![j] = [P[j] EXCEPT !.arg = x]]
        <5> HIDE DEF P, j, x
        <5> QED OBVIOUS
      <4> HIDE DEF P, j, x
      <4> QED BY ONLY <3>3, <3>4, <4>1
    <3>6. mem' = [mem EXCEPT ![p] = [mem[p] EXCEPT ![j].arg = x]]
      <4> HIDE DEF j, x, p
      <4> QED BY <2>1
    <3>7. mem' = [mem EXCEPT ![p] = mem[p]]
      <4> HIDE DEF j, x, p
      <4> QED BY <3>5, <3>6 DEF P
    <3> HIDE DEF P, j, x, p
    <3> QED BY ONLY <1>6, <3>7
  <2> QED BY <2>2, <2>5
<1> QED BY <1>4, <1>7, <1>8

(* A SCIN1 in progress calls another.                                      *)
LEMMA SCINIs ==
  ASSUME NEW W, NEW F, NEW C, On(W, F, C), NEW x \in DOMAIN W.nodes, NEW h, NEW mood, SCIN(x, h, mood)
  PROVE  /\ hist' = h /\ todo' = mood /\ stk' = Append(stk, [use |-> "kept", r |-> r])
         /\ calls' = Append(calls, [use |-> "SCIN", at |-> Len(stk) + 1])
         /\ Ours(W, F, r') /\ r'.PATBCL = x /\ r'.PATICL = 0
         /\ r'.MAXLEN = r.MAXLEN - IF W.quick THEN r.res ELSE 0
<1> DEFINE max2 == r.MAXLEN - Needs
           l == IF mood = "node" THEN TRUE ELSE r.LENFCL
           cell == [use |-> "kept", r |-> r]
<1>1. /\ hist' = h /\ todo' = mood /\ stk' = Append(stk, cell)
      /\ calls' = Append(calls, [use |-> "SCIN", at |-> Len(stk')])
      /\ r' = [r EXCEPT !.PATBCL = x, !.PATICL = 0, !.MAXLEN = max2, !.LENFCL = l]
  BY DEF SCIN
<1>2. /\ r \in Registers(W) /\ Ours(W, F, r) /\ Prefix(F.stk, stk)
  BY OnIs
<1>3. Len(stk') = Len(stk) + 1
  <2>1. AnySeq(stk)
    BY <1>2 DEF Prefix
  <2> HIDE DEF cell
  <2> QED BY <1>1, <2>1, AnyAppend
<1>4. max2 \in Int /\ l \in BOOLEAN
  <2>1. r.MAXLEN \in Int /\ Needs \in Int /\ r.LENFCL \in BOOLEAN
    BY RegsAre DEF Needs
  <2>2. max2 \in Int
    BY <2>1
  <2>3. l \in BOOLEAN
    BY <2>1, Zenon
  <2> QED BY <2>2, <2>3
<1>5. max2 = r.MAXLEN - IF W.quick THEN r.res ELSE 0
  BY RegsAre DEF Needs
<1> HIDE DEF max2, l
<1>6. r' \in Registers(W) /\ r'.PATBCL = x /\ r'.PATICL = 0 /\ r'.MAXLEN = max2 /\ r'.PDLHED = r.PDLHED /\ r'.NHEDCL = r.NHEDCL
  <2>1. r' = [r EXCEPT !.PATBCL = x, !.PATICL = 0, !.MAXLEN = max2, !.LENFCL = l]
    BY <1>1
  <2>2. r \in Registers(W)
    BY <1>2
  <2> DEFINE y == [PATBCL |-> x, PATICL |-> 0, then |-> r.then, res |-> r.res,
                   LENFCL |-> l, MAXLEN |-> max2, TXSP |-> r.TXSP, HEADSP |-> r.HEADSP,
                   XSP |-> r.XSP, TCL |-> r.TCL, PDLHED |-> r.PDLHED, NHEDCL |-> r.NHEDCL]
  <2>3. /\ y \in Registers(W) /\ y.PATBCL = x /\ y.PATICL = 0 /\ y.MAXLEN = max2
        /\ y.PDLHED = r.PDLHED /\ y.NHEDCL = r.NHEDCL
    BY ONLY <1>4, <2>2, x \in DOMAIN W.nodes DEF Registers
  <2>4. r' = y
    BY ONLY <1>4, <2>1, <2>2, x \in DOMAIN W.nodes DEF Registers
  <2> QED BY ONLY <2>3, <2>4
<1>7. Ours(W, F, r')
  BY <1>2, <1>6 DEF Ours, Of
<1> QED BY <1>1, <1>3, <1>5, <1>6, <1>7

LEMMA STARVKeeps ==
  ASSUME AfterConstant, NEW W, NEW F, NEW C, On(W, F, C), STARV
  PROVE  IInv'
<1> DEFINE x == OnNode.arg
           o == CHR(Value[x][2], r.TXSP)
           e == Undo("SCFL", 0)
<1>0. todo = "STARV" /\ UNCHANGED <<problem, named>>
  BY DEF STARV
<1>2. \/ todo' = "SALF" /\ UNCHANGED <<mem, now, r, hist, stk, calls>>
      \/ /\ Evaluated(now[x])
         /\ \/ IsString(now[x]) /\ Outcomes(CHR(Value[now[x]][2], r.TXSP)) /\ UNCHANGED <<hist, stk, calls>>
            \/ todo' = "SALT" /\ UNCHANGED <<r, hist, stk, calls>>
            \/ ~ IsString(now[x]) /\ SCIN(now[x], Append(hist, e), "node")
  BY DEF STARV
<1>1. now[x] = x /\ x \in Names
  BY <1>0, SameValue
<1>3. \/ todo' = "SALF" /\ UNCHANGED <<mem, now, r, hist, stk, calls>>
      \/ /\ Evaluated(x)
         /\ \/ IsString(x) /\ Outcomes(o) /\ UNCHANGED <<hist, stk, calls>>
            \/ todo' = "SALT" /\ UNCHANGED <<r, hist, stk, calls>>
            \/ ~ IsString(x) /\ SCIN(x, Append(hist, e), "node")
  BY <1>1, <1>2
<1>4. UNCHANGED <<problem, mem, now, named>>
  BY <1>0, <1>3, SameValue
<1>5. "STARV" \in Own1 /\ ProcOf("STARV") = "STAR"
  BY DEF Own1, ProcOf
<1>6. /\ OnTop(W, F, hist, named, r, C, OnNode) /\ OnNode.fn = "STAR" /\ Worlds(W)
      /\ MatchAt(W, F, hist, stk, calls, named, r, "STARV", C) /\ r \in Registers(W)
  BY <1>0, <1>5, OnNodeTop
<1>7. CASE IsString(x) /\ Outcomes(o) /\ UNCHANGED <<hist, stk, calls>>
  <2>1. o.at \in Int /\ o.to \in {"SCOK", "SALT", "SALF"}
    <3> DEFINE s == Value[x][2]
    <3>1. Len(s) \in Nat
      <4>1. s \in Seq(Range(s))
        BY <1>1, <1>7, StringsAssumption DEF IsString, Names
      <4> HIDE DEF s
      <4> QED BY <4>1
    <3>2. r.TXSP \in Int
      BY RegsAre
    <3>3. o = IF Len(Subject) - r.TXSP < Len(s) THEN Lost("SALT")
              ELSE IF SubSeq(Subject, r.TXSP + 1, r.TXSP + Len(s)) # s THEN Lost("SALF")
              ELSE To(r.TXSP + Len(s))
      BY DEF CHR
    <3> HIDE DEF o, s
    <3>4. o \in {Lost("SALT"), Lost("SALF"), To(r.TXSP + Len(s))}
      BY <3>3
    <3> QED BY <3>1, <3>2, <3>4 DEF Lost, To
  <2>2. todo' = o.to /\ r' = [r EXCEPT !.TXSP = o.at]
    BY <1>7 DEF Outcomes
  <2>3. Later(W, r, r') /\ r'.then = r.then
    <3> DEFINE c == o.at
    <3>1. c \in Int /\ r' = [r EXCEPT !.TXSP = c]
      BY <2>1, <2>2
    <3> HIDE DEF c
    <3> QED BY ONLY <1>6, <3>1 DEF Registers, Later
  <2> HIDE DEF o
  <2>4. CASE o.to = "SCOK"
    <3>1. Live(W, F, hist, stk, calls, named, r', "SCOK")
      BY <1>6, <1>7, <2>3, StarString
    <3>2. todo' = "SCOK"
      BY <2>2, <2>4
    <3> QED BY <1>4, <1>7, <3>1, <3>2, MatchingIs, GoesLive
  <2>5. CASE o.to \in {"SALT", "SALF"}
    <3>1. todo' \in {"SALT", "SALF"}
      BY <2>2, <2>5
    <3>2. Live(W, F, hist, stk, calls, named, r', todo')
      BY <1>6, <2>3, <3>1, OnTopFails
    <3> QED BY <1>4, <1>7, <3>1, <3>2, MatchingIs, GoesLive
  <2> QED BY <2>1, <2>4, <2>5
<1>8. CASE todo' \in {"SALT", "SALF"} /\ UNCHANGED <<r, hist, stk, calls>>
  <2>1. Live(W, F, hist, stk, calls, named, r, todo')
    BY <1>6, <1>8, LaterSame, OnTopFails
  <2> QED BY <1>4, <1>8, <2>1, MatchingIs, GoesLive
<1>9. CASE ~ IsString(x) /\ SCIN(x, Append(hist, e), "node")
  <2> DEFINE max2 == r.MAXLEN - IF W.quick THEN r.res ELSE 0
  <2>1. x \in DOMAIN W.nodes
    BY <1>6, StarOnTop
  <2>2. /\ hist' = Append(hist, e) /\ todo' = "node" /\ stk' = Append(stk, [use |-> "kept", r |-> r])
        /\ calls' = Append(calls, [use |-> "SCIN", at |-> Len(stk) + 1])
        /\ Ours(W, F, r') /\ r'.PATBCL = x /\ r'.PATICL = 0 /\ r'.MAXLEN = max2
    <3> HIDE DEF x, e
    <3> QED BY <1>9, <2>1, SCINIs
  <2>3. e \in EntrySet(W) /\ e.fn = "SCFL"
    <3>1. "SCFL" \in EntryFns
      BY DEF EntryFns
    <3> QED BY <3>1, UndoMade
  <2> HIDE DEF e
  <2>4. Live(W, F, Append(hist, e), Append(stk, [use |-> "kept", r |-> r]),
             Append(calls, [use |-> "SCIN", at |-> Len(stk) + 1]), named, r', "node")
    BY <1>6, <1>9, <2>2, <2>3, StarBegins
  <2> QED BY <1>4, <2>2, <2>4, MatchingIs, GoesLive
<1> QED BY <1>3, <1>7, <1>8, <1>9

LEMMA DSARKeeps ==
  ASSUME NEW W, NEW F, NEW C, On(W, F, C), DSAR
  PROVE  IInv'
<1> DEFINE x == OnNode.arg
<1>0. todo = "DSAR" /\ UNCHANGED <<problem, mem, now, named>>
  BY DEF DSAR
<1>1. \/ IsString(x) /\ todo' = Fails(r.LENFCL) /\ UNCHANGED <<r, hist, stk, calls>>
      \/ ~ IsString(x) /\ SCIN(x, hist, Fails(r.LENFCL))
  BY DEF DSAR
<1>2. Worlds(W) /\ MatchAt(W, F, hist, stk, calls, named, r, "DSAR", C) /\ OnNode = NodeOf(W, C, r.PATICL)
  BY <1>0, OnIs
<1>3. Fails(r.LENFCL) \in {"SALT", "SALF"}
  BY FailsBack
<1>4. CASE IsString(x) /\ todo' = Fails(r.LENFCL) /\ UNCHANGED <<r, hist, stk, calls>>
  <2>1. Live(W, F, hist, stk, calls, named, r, todo')
    BY <1>2, <1>3, <1>4, StarFails
  <2> QED BY <1>0, <1>3, <1>4, <2>1, MatchingIs, GoesLive
<1>5. CASE ~ IsString(x) /\ SCIN(x, hist, Fails(r.LENFCL))
  <2> DEFINE max2 == r.MAXLEN - IF W.quick THEN r.res ELSE 0
  <2>1. x \in DOMAIN W.nodes
    BY <1>2, StarAgain
  <2>2. /\ hist' = hist /\ todo' = Fails(r.LENFCL) /\ stk' = Append(stk, [use |-> "kept", r |-> r])
        /\ calls' = Append(calls, [use |-> "SCIN", at |-> Len(stk) + 1])
        /\ Ours(W, F, r') /\ r'.PATBCL = x /\ r'.MAXLEN = max2
    <3> HIDE DEF x
    <3> QED BY <1>5, <2>1, SCINIs
  <2>3. x = NodeOf(W, C, r.PATICL).arg /\ ~ IsString(x) /\ todo' \in {"SALT", "SALF"}
    BY <1>2, <1>3, <1>5, <2>2
  <2>4. Live(W, F, hist, Append(stk, [use |-> "kept", r |-> r]),
             Append(calls, [use |-> "SCIN", at |-> Len(stk) + 1]), named, r', todo')
    <3> HIDE DEF x
    <3> QED BY <1>2, <2>2, <2>3, StarResumes
  <2> QED BY <1>0, <2>2, <2>3, <2>4, MatchingIs, GoesLive
<1> QED BY <1>1, <1>4, <1>5

-----------------------------------------------------------------------------
(* The steps of statements.                                                *)

LEMMA AtBegin ==
  ASSUME IInv, todo \in {"SCNR", "resume"}
  PROVE  \E W, F : /\ Situation(W) /\ Suspended(problem, W, F) /\ (todo = "resume" => F # Nothing)
                   /\ Begins(W, F, hist, stk, calls, named, r)
<1>1. PICK W, F : /\ Situation(W) /\ Suspended(problem, W, F)
                  /\ Running(problem, W, F, hist, stk, calls, named, r, todo)
  BY DEF IInv
<1>2. todo \notin Matching
  BY DEF Matching, Own1, Own2, Simple, Measuring
<1>3. Begins(W, F, hist, stk, calls, named, r) /\ (todo = "resume" => F # Nothing)
  BY <1>1, <1>2 DEF Running
<1> QED BY <1>1, <1>3

LEMMA AtEnding ==
  ASSUME IInv, todo \in {"NMD", "SCAN", "SJSR", "SJSRV"}
  PROVE  \E W, F : /\ Situation(W) /\ Suspended(problem, W, F)
                   /\ Ended(problem, W, F, hist, stk, calls, named, r, todo)
<1>1. PICK W, F : /\ Situation(W) /\ Suspended(problem, W, F)
                  /\ Running(problem, W, F, hist, stk, calls, named, r, todo)
  BY DEF IInv
<1>2. todo \notin Matching
  BY DEF Matching, Own1, Own2, Simple, Measuring
<1>3. Ended(problem, W, F, hist, stk, calls, named, r, todo)
  BY <1>1, <1>2 DEF Running
<1> QED BY <1>1, <1>3

LEMMA OwnCalls ==
  ASSUME NEW W, NEW F, Suspended(problem, W, F), calls = F.calls
  PROVE  CallsOf(F, calls) /\ AnySeq(calls)
<1>1. AnySeq(F.calls)
  BY SuspendedIs
<1>2. Prefix(F.calls, calls)
  BY <1>1, PrefixSelf
<1>3. Len(F.calls) + 1 .. Len(calls) = {}
  <2> DEFINE n == Len(calls)
  <2>1. n \in Nat /\ Len(F.calls) = n
    BY <1>1, AnyRange
  <2> HIDE DEF n
  <2>2. n + 1 .. n = {}
    BY <2>1
  <2> QED BY <2>1, <2>2 DEF n
<1> QED BY <1>1, <1>2, <1>3 DEF CallsOf

LEMMA SCNRKeeps ==
  ASSUME IInv, SCNR
  PROVE  IInv'
<1>1. todo = "SCNR" /\ UNCHANGED <<problem, mem, now>>
  BY DEF SCNR
<1>2. PICK W, F : /\ Situation(W) /\ Suspended(problem, W, F) /\ Begins(W, F, hist, stk, calls, named, r)
  BY <1>1, AtBegin
<1>3. /\ calls = F.calls /\ stk = F.stk /\ Prefix(F.hist, hist) /\ Prefix(F.named, named) /\ Ours(W, F, r)
      /\ r \in Registers(W) /\ r.PDLHED = Len(F.hist) /\ r.NHEDCL = Len(F.named)
  BY <1>2 DEF Begins, Ours, Of
<1>4. /\ AnySeq(F.hist) /\ AnySeq(F.stk) /\ AnySeq(F.calls) /\ AnySeq(F.named) /\ Prefix(F.stk, stk)
  BY <1>2, <1>3, SuspendedIs, PrefixSelf
<1>5. CallsOf(F, calls) /\ AnySeq(calls)
  BY <1>2, <1>3, OwnCalls
<1>6. Owner \in DOMAIN W.nodes /\ Statement.subject \in AllSubjects
  BY <1>2, <1>5, Where
<1> DEFINE x == Statement.subject
           n == Len(x)
           least == LVALUE(mem[Owner])
           bottom == IF problem.anchored THEN "SCFL" ELSE "SCON"
           e == [Entry(bottom, 0, 0, 0, 0, TRUE) EXCEPT !.owner = Owner]
           cell == Cell("head", (IF Quick THEN n - least ELSE n) + 1)
           one == FAIL /\ r' = [r EXCEPT !.XSP = x, !.MAXLEN = n] /\ UNCHANGED <<hist, named>>
           two == /\ r' = [r EXCEPT !.XSP = x, !.MAXLEN = n, !.TXSP = 0,
                                  !.HEADSP = 0, !.PATBCL = Owner, !.PATICL = 0, !.LENFCL = TRUE]
                  /\ hist' = Append(SubSeq(hist, 1, r.PDLHED), e)
                  /\ named' = SubSeq(named, 1, r.NHEDCL)
                  /\ stk' = IF problem.anchored THEN stk ELSE Append(stk, cell)
                  /\ todo' = "node" /\ UNCHANGED calls
<1>7. one \/ two
  BY DEF SCNR, lists
<1>8. n \in Int
  BY <1>6, SubjectIs
<1> HIDE DEF n, x
<1>9. CASE one
  <2>1. Ours(W, F, r')
    <3>1. r' = [r EXCEPT !.XSP = x, !.MAXLEN = n] /\ x \in AllSubjects
      BY <1>6, <1>9 DEF x
    <3>2. r' \in Registers(W) /\ r'.PDLHED = r.PDLHED /\ r'.NHEDCL = r.NHEDCL
      BY ONLY <1>3, <1>8, <3>1 DEF Registers
    <3> QED BY <1>3, <3>2 DEF Ours, Of
  <2>2. FAIL /\ Prefix(F.hist, hist') /\ Prefix(F.named, named')
    BY <1>3, <1>9
  <2> QED BY <1>1, <1>2, <1>4, <1>5, <2>1, <2>2, EndsWell DEF FAIL
<1>10. CASE two
  <2>1. Ours(W, F, r') /\ r'.PATICL = 0
    <3>1. /\ r' = [r EXCEPT !.XSP = x, !.MAXLEN = n, !.TXSP = 0,
                            !.HEADSP = 0, !.PATBCL = Owner, !.PATICL = 0, !.LENFCL = TRUE]
          /\ x \in AllSubjects
      BY <1>6, <1>10 DEF x
    <3> DEFINE y == [PATBCL |-> Owner, PATICL |-> 0, then |-> r.then, res |-> r.res,
                     LENFCL |-> TRUE, MAXLEN |-> n, TXSP |-> 0, HEADSP |-> 0,
                     XSP |-> x, TCL |-> r.TCL, PDLHED |-> r.PDLHED, NHEDCL |-> r.NHEDCL]
    <3>2. y \in Registers(W) /\ y.PDLHED = r.PDLHED /\ y.NHEDCL = r.NHEDCL /\ y.PATICL = 0
      BY ONLY <1>3, <1>6, <1>8, <3>1 DEF Registers
    <3>3. r' = y
      BY ONLY <1>3, <1>6, <1>8, <3>1 DEF Registers
    <3> HIDE DEF y
    <3> QED BY <1>3, <3>2, <3>3 DEF Ours, Of
  <2>2. e \in EntrySet(W) /\ e.fn = bottom /\ bottom = IF W.anchored THEN "SCFL" ELSE "SCON"
    <3> DEFINE f == Entry(bottom, 0, 0, 0, 0, TRUE)
    <3>1. bottom \in EntryFns /\ bottom = IF W.anchored THEN "SCFL" ELSE "SCON"
      BY <1>2, SituationIs DEF EntryFns
    <3>2. r.PATBCL \in DOMAIN W.nodes
      BY <1>3, RegistersAre
    <3>3. f = Entry(bottom, 0, 0, 0, 0, TRUE) /\ e = [f EXCEPT !.owner = Owner]
      OBVIOUS
    <3> HIDE DEF f, e, bottom
    <3>4. f \in EntrySet(W) /\ f.fn = bottom
      BY ONLY <3>1, <3>2, <3>3 DEF Entry, EntrySet
    <3>5. e \in EntrySet(W) /\ e.fn = f.fn
      BY ONLY <1>6, <3>3, <3>4 DEF EntrySet
    <3> QED BY <3>1, <3>4, <3>5
  <2>3. hist' = Append(F.hist, e) /\ named' = F.named
    <3>1. SubSeq(hist, 1, r.PDLHED) = F.hist /\ SubSeq(named, 1, r.NHEDCL) = F.named
      BY <1>3, PrefixTake
    <3> HIDE DEF e
    <3> QED BY <1>10, <3>1
  <2>4. Prefix(F.stk, stk') /\ Len(stk') = Floor(W, F) /\ (W.anchored \/ stk'[Floor(W, F)].use = "head")
    <3>0. W.anchored = problem.anchored /\ W.anchored \in BOOLEAN
      BY <1>2, SituationIs
    <3>1. CASE W.anchored
      <4>1. stk' = F.stk
        BY <1>3, <1>10, <3>0, <3>1
      <4>2. Len(F.stk) \in Nat
        BY <1>4, AnyRange
      <4>3. Floor(W, F) = Len(F.stk)
        <5>1. Floor(W, F) = Len(F.stk) + 0
          BY <3>1 DEF Floor
        <5> QED BY <4>2, <5>1
      <4> QED BY <1>4, <3>1, <4>1, <4>3, PrefixSelf
    <3>2. CASE ~ W.anchored
      <4>1. stk' = Append(F.stk, cell)
        BY <1>3, <1>10, <3>0, <3>2
      <4>2. Floor(W, F) = Len(F.stk) + 1
        BY <3>2 DEF Floor
      <4>3. cell.use = "head"
        BY DEF Cell
      <4> HIDE DEF cell
      <4>4. Len(stk') = Len(F.stk) + 1 /\ stk'[Len(F.stk) + 1] = cell
        BY <1>4, <4>1, AnyAppend
      <4>5. Prefix(F.stk, F.stk)
        BY <1>4, PrefixSelf
      <4>6. Prefix(F.stk, stk')
        BY <4>1, <4>5, PrefixAppend
      <4> QED BY <4>2, <4>3, <4>4, <4>6
    <3> QED BY <3>0, <3>1, <3>2
  <2>5. calls' = F.calls /\ AnySeq(calls') /\ todo' = "node"
    BY <1>3, <1>5, <1>10
  <2>6. Worlds(W)
    BY <1>2, SituationIs
  <2>7. e.fn = IF W.anchored THEN "SCFL" ELSE "SCON"
    BY <2>2
  <2> HIDE DEF e
  <2>8. Live(W, F, Append(F.hist, e), stk', calls', F.named, r', "node")
    BY <1>4, <2>1, <2>2, <2>4, <2>5, <2>6, <2>7, MatchBegins
  <2>9. Live(W, F, hist', stk', calls', named', r', todo') /\ todo' \in Matching
    BY <2>3, <2>5, <2>8, MatchingIs
  <2> QED BY <1>1, <1>2, <2>9, KeepsOn
<1> QED BY <1>7, <1>9, <1>10

LEMMA NothingIs ==
  /\ Nothing.hist = <<>> /\ Nothing.stk = <<>> /\ Nothing.calls = <<>> /\ Nothing.named = <<>>
  /\ Len(<<>>) = 0
BY DEF Nothing

LEMMA EmptyPrefix ==
  ASSUME NEW s, AnySeq(s)
  PROVE  Prefix(<<>>, s)
BY PrefixEmpty

LEMMA EndedIs ==
  ASSUME NEW W, NEW F, Suspended(problem, W, F), Ended(problem, W, F, hist, stk, calls, named, r, todo)
  PROVE  /\ calls = F.calls /\ Prefix(F.stk, stk) /\ Prefix(F.hist, hist) /\ Prefix(F.named, named)
         /\ Ours(W, F, r) /\ r \in Registers(W) /\ r.PDLHED = Len(F.hist) /\ r.NHEDCL = Len(F.named)
         /\ KindOf(problem, F) = "SJSR" => Len(stk) > Len(F.stk) /\ Last(stk).use = "tail"
         /\ todo = "NMD" \/ todo = KindOf(problem, F) \/ (todo = "SJSRV" /\ KindOf(problem, F) = "SJSR")
         /\ CallsOf(F, calls) /\ AnySeq(calls) /\ AnySeq(stk) /\ AnySeq(named) /\ AnySeq(hist)
<1>1. /\ calls = F.calls /\ Prefix(F.stk, stk) /\ Prefix(F.hist, hist) /\ Prefix(F.named, named)
      /\ Ours(W, F, r)
      /\ KindOf(problem, F) = "SJSR" => Len(stk) > Len(F.stk) /\ Last(stk).use = "tail"
  BY DEF Ended
<1>2. todo = "NMD" \/ todo = KindOf(problem, F) \/ (todo = "SJSRV" /\ KindOf(problem, F) = "SJSR")
  BY DEF Ended
<1>3. r \in Registers(W) /\ r.PDLHED = Len(F.hist) /\ r.NHEDCL = Len(F.named)
  BY <1>1 DEF Ours, Of
<1>4. CallsOf(F, calls) /\ AnySeq(calls)
  BY <1>1, OwnCalls
<1>5. AnySeq(stk) /\ AnySeq(named) /\ AnySeq(hist)
  BY <1>1 DEF Prefix
<1> QED BY <1>1, <1>2, <1>3, <1>4, <1>5

LEMMA EndsNow ==
  ASSUME NEW W, NEW F, Situation(W), Suspended(problem, W, F),
         Ended(problem, W, F, hist, stk, calls, named, r, todo), UNCHANGED <<problem, mem, now, r, hist, named>>,
         NEW a, StatementEnds(a)
  PROVE  IInv'
<1>1. /\ Prefix(F.stk, stk) /\ Prefix(F.hist, hist') /\ Prefix(F.named, named') /\ Ours(W, F, r')
      /\ CallsOf(F, calls)
  BY EndedIs
<1> QED BY <1>1, EndsWell

LEMMA SCANKeeps ==
  ASSUME IInv, SCAN
  PROVE  IInv'
<1>1. todo = "SCAN" /\ UNCHANGED <<problem, mem, now, r, hist, named>>
  BY DEF SCAN, lists
<1>2. \E a : StatementEnds(a)
  BY Zenon DEF SCAN
<1>3. PICK W, F : /\ Situation(W) /\ Suspended(problem, W, F)
                  /\ Ended(problem, W, F, hist, stk, calls, named, r, todo)
  BY <1>1, AtEnding
<1> QED BY <1>1, <1>2, <1>3, EndsNow

LEMMA SJSRVKeeps ==
  ASSUME IInv, SJSRV
  PROVE  IInv'
<1>1. todo = "SJSRV" /\ UNCHANGED <<problem, mem, now, r, hist, named>>
  BY DEF SJSRV, lists
<1>2. \E a : StatementEnds(a)
  BY Zenon DEF SJSRV
<1>3. PICK W, F : /\ Situation(W) /\ Suspended(problem, W, F)
                  /\ Ended(problem, W, F, hist, stk, calls, named, r, todo)
  BY <1>1, AtEnding
<1> QED BY <1>1, <1>2, <1>3, EndsNow

LEMMA OutermostIs ==
  ASSUME NEW W, NEW F, Situation(W), Suspended(problem, W, F),
         Ended(problem, W, F, hist, stk, calls, named, r, todo), ~ Inside
  PROVE  F = Nothing /\ calls = <<>> /\ r.PDLHED = 0 /\ r.NHEDCL = 0 /\ KindOf(problem, F) = problem.kind
<1>1. F = Nothing
  BY EndedIs, Where, SuspendedIs
<1>2. calls = <<>> /\ r.PDLHED = 0 /\ r.NHEDCL = 0
  BY <1>1, EndedIs, NothingIs
<1> QED BY <1>1, <1>2, NothingIs DEF KindOf

LEMMA SJSRKeeps ==
  ASSUME IInv, SJSR
  PROVE  IInv'
<1>1. todo = "SJSR" /\ UNCHANGED <<problem, mem, now>>
  BY DEF SJSR
<1>2. \/ Enters(stk, "SJSR", r, r.PDLHED, r.NHEDCL) /\ Runs
      \/ todo' = "SJSRV" /\ UNCHANGED <<r, stk, calls, hist, named>>
  BY DEF SJSR, lists
<1>3. PICK W, F : /\ Situation(W) /\ Suspended(problem, W, F)
                  /\ Ended(problem, W, F, hist, stk, calls, named, r, todo)
  BY <1>1, AtEnding
<1>4. /\ r \in Registers(W) /\ KindOf(problem, F) = "SJSR" /\ AnySeq(stk) /\ AnySeq(calls) /\ AnySeq(hist) /\ AnySeq(named)
      /\ Len(stk) > Len(F.stk) /\ Last(stk).use = "tail"
  BY <1>1, <1>3, EndedIs
<1>5. CASE Enters(stk, "SJSR", r, r.PDLHED, r.NHEDCL) /\ Runs
  <2> DEFINE k == KeptCell(r)
             G == Suspending(<<>>, <<>>, stk, "SJSR", k)
  <2>1. F = Nothing /\ calls = <<>> /\ r.PDLHED = 0 /\ r.NHEDCL = 0 /\ problem.kind = "SJSR"
    BY <1>3, <1>4, <1>5, NotInside, OutermostIs
  <2>2. Len(stk) > 0
    BY <1>4, <2>1, NothingIs
  <2>3. /\ G.hist = <<>> /\ G.named = <<>> /\ Front(G.stk) = stk /\ Front(G.calls) = calls
    <3>1. G = Suspending(<<>>, <<>>, stk, "SJSR", k)
      OBVIOUS
    <3> HIDE DEF G, k
    <3>2. KeptBelow(G, <<>>, <<>>, stk, "SJSR", k)
      BY <1>4, <3>1, SuspendingIs
    <3> QED BY <3>2, Zenon DEF KeptBelow
  <2>4. GoesBack(problem, W, G, "SJSR", k)
    <3> HIDE DEF G, k
    <3> QED BY <1>4, <2>1, <2>2, <2>3 DEF GoesBack
  <2>5. Enters(stk, "SJSR", r, Len(<<>>), Len(<<>>))
    BY <1>5, <2>1, NothingIs
  <2>6. G = Suspending(<<>>, <<>>, stk, "SJSR", KeptCell(r)) /\ GoesBack(problem, W, G, "SJSR", KeptCell(r))
    BY <2>4
  <2>7. Prefix(<<>>, hist) /\ Prefix(<<>>, named)
    BY <1>4, EmptyPrefix
  <2> HIDE DEF G, k
  <2> QED BY <1>1, <1>3, <1>4, <2>5, <2>6, <2>7, Entering
<1>6. CASE todo' = "SJSRV" /\ UNCHANGED <<r, stk, calls, hist, named>>
  <2>1. Ended(problem, W, F, hist', stk', calls', named', r', "SJSRV")
    <3>1. Ended(problem, W, F, hist, stk, calls, named, r, "SJSRV")
      BY <1>3, <1>4 DEF Ended
    <3> QED BY <1>6, <3>1
  <2>2. Running(problem, W, F, hist', stk', calls', named', r', todo')
    BY <1>6, <2>1 DEF Running
  <2> QED BY <1>1, <1>3, <2>2, KeepsOnWith
<1> QED BY <1>2, <1>5, <1>6

LEMMA NMDKeeps ==
  ASSUME IInv, NMD
  PROVE  IInv'
<1> DEFINE one == [r EXCEPT !.TCL = @ + 1]
<1>1. todo = "NMD" /\ UNCHANGED <<problem, mem, now>>
  BY DEF NMD
<1>2. \/ todo' = Statement.kind /\ UNCHANGED <<r, stk, calls, hist, named>>
      \/ FAIL /\ UNCHANGED <<r, hist, named>>
      \/ Enters(stk, "NMD", one, r.PDLHED, Len(named)) /\ Runs
      \/ r' = one /\ UNCHANGED <<todo, stk, calls, hist, named>>
  BY DEF NMD, lists, Traced
<1>3. PICK W, F : /\ Situation(W) /\ Suspended(problem, W, F)
                  /\ Ended(problem, W, F, hist, stk, calls, named, r, todo)
  BY <1>1, AtEnding
<1>4. /\ r \in Registers(W) /\ AnySeq(stk) /\ AnySeq(calls) /\ AnySeq(hist) /\ AnySeq(named)
      /\ CallsOf(F, calls) /\ Ours(W, F, r)
  BY <1>3, EndedIs
<1>5. one \in Registers(W) /\ one.PDLHED = r.PDLHED /\ one.NHEDCL = r.NHEDCL
  <2> DEFINE c == r.TCL + 1
  <2>1. c \in Int /\ one = [r EXCEPT !.TCL = c]
    BY <1>4, RegistersAre
  <2> HIDE DEF c, one
  <2> QED BY ONLY <1>4, <2>1 DEF Registers
<1>6. Ended(problem, W, F, hist, stk, calls, named, one, "NMD")
  <2>1. Ours(W, F, one)
    BY <1>4, <1>5 DEF Ours, Of
  <2> HIDE DEF one
  <2> QED BY <1>3, <2>1 DEF Ended
<1> HIDE DEF one
<1>7. CASE todo' = Statement.kind /\ UNCHANGED <<r, stk, calls, hist, named>>
  <2>1. todo' = KindOf(problem, F)
    BY <1>3, <1>4, <1>7, Where
  <2>2. Ended(problem, W, F, hist', stk', calls', named', r', todo')
    <3>1. Ended(problem, W, F, hist, stk, calls, named, r, todo')
      BY <1>3, <2>1 DEF Ended
    <3> QED BY <1>7, <3>1
  <2>3. KindOf(problem, F) \in {"SCAN", "SJSR", "none"}
    BY <1>3, SituationIs, ProblemIs DEF KindOf
  <2>4. Running(problem, W, F, hist', stk', calls', named', r', todo')
    BY <2>1, <2>2, <2>3 DEF Running
  <2> QED BY <1>1, <1>3, <2>4, KeepsOnWith
<1>8. CASE FAIL /\ UNCHANGED <<r, hist, named>>
  BY <1>1, <1>3, <1>8, EndsNow DEF FAIL
<1>9. CASE Enters(stk, "NMD", one, r.PDLHED, Len(named)) /\ Runs
  <2> DEFINE k == KeptCell(one)
             G == Suspending(<<>>, named, stk, "NMD", k)
  <2>1. F = Nothing /\ r.PDLHED = 0
    BY <1>3, <1>9, NotInside, OutermostIs
  <2>2. /\ G.hist = <<>> /\ G.named = named /\ Front(G.stk) = stk /\ Front(G.calls) = calls
    <3>1. G = Suspending(<<>>, named, stk, "NMD", k)
      OBVIOUS
    <3> HIDE DEF G, k
    <3>2. KeptBelow(G, <<>>, named, stk, "NMD", k)
      BY <1>4, <3>1, SuspendingIs
    <3> QED BY <3>2, Zenon DEF KeptBelow
  <2>3. k.r = one /\ k.NAMICL = Len(named)
    BY DEF KeptCell
  <2>4. Ended(problem, W, Nothing, <<>>, stk, calls, named, one, "NMD")
    <3>1. Ended(problem, W, Nothing, hist, stk, calls, named, one, "NMD")
      BY <1>6, <2>1
    <3>2. AnySeq(<<>>)
      BY <1>4, EmptyPrefix DEF Prefix
    <3>3. Prefix(Nothing.hist, <<>>)
      BY <3>2, NothingIs, PrefixSelf
    <3> QED BY <3>1, <3>3 DEF Ended
  <2>5. GoesBack(problem, W, G, "NMD", k)
    <3> HIDE DEF G, k
    <3>1. Ended(problem, W, Nothing, <<>>, Front(G.stk), Front(G.calls), G.named, k.r, "NMD")
      BY <2>2, <2>3, <2>4
    <3> QED BY <2>2, <2>3, <3>1 DEF GoesBack
  <2>6. Enters(stk, "NMD", one, Len(<<>>), Len(named))
    BY <1>9, <2>1, NothingIs
  <2>7. G = Suspending(<<>>, named, stk, "NMD", KeptCell(one)) /\ GoesBack(problem, W, G, "NMD", KeptCell(one))
    BY <2>5
  <2>8. Prefix(<<>>, hist) /\ Prefix(named, named)
    BY <1>4, EmptyPrefix, PrefixSelf
  <2> HIDE DEF G, k
  <2> QED BY <1>1, <1>3, <1>4, <1>5, <2>6, <2>7, <2>8, Entering
<1>10. CASE r' = one /\ UNCHANGED <<todo, stk, calls, hist, named>>
  <2>1. Ended(problem, W, F, hist', stk', calls', named', r', "NMD")
    BY <1>6, <1>10
  <2>2. Running(problem, W, F, hist', stk', calls', named', r', todo')
    BY <1>1, <1>10, <2>1 DEF Running
  <2> QED BY <1>1, <1>3, <2>2, KeepsOnWith
<1> QED BY <1>2, <1>7, <1>8, <1>9, <1>10

(* The inner statement is done.                                            *)
LEMMA ResumeKeeps ==
  ASSUME IInv, Resume
  PROVE  IInv'
<1>1. todo = "resume" /\ UNCHANGED <<problem, mem, now>>
  BY DEF Resume
<1>2. PICK W, F : /\ Situation(W) /\ Suspended(problem, W, F) /\ F # Nothing
                  /\ Begins(W, F, hist, stk, calls, named, r)
  BY <1>1, AtBegin
<1>3. /\ calls = F.calls /\ stk = F.stk /\ Prefix(F.hist, hist) /\ Prefix(F.named, named)
      /\ r \in Registers(W) /\ r.PDLHED = Len(F.hist) /\ r.NHEDCL = Len(F.named)
  BY <1>2 DEF Begins, Ours, Of
<1> DEFINE by == Last(calls).use
           k == Last(stk)
<1>4. GoesBack(problem, W, F, by, k) /\ by \in InMatch \cup {"NMD", "SJSR"}
  BY <1>2, <1>3, SuspendedIs
<1>5. /\ todo' = After_(by) /\ calls' = Front(F.calls) /\ stk' = Front(F.stk)
      /\ \/ by = "SJSR" /\ UNCHANGED <<r, hist, named>>
         \/ /\ by = "NMD"
            /\ r' = [r EXCEPT !.NHEDCL = k.r.NHEDCL, !.TCL = k.r.TCL]
            /\ named' = SubSeq(named, 1, k.NAMICL) /\ UNCHANGED hist
         \/ /\ by \in InMatch
            /\ r' = k.r
            /\ named' = SubSeq(named, 1, k.NAMICL) /\ hist' = SubSeq(hist, 1, k.PDLPTR)
  BY <1>3 DEF Resume, lists, InMatch
<1> HIDE DEF by, k
<1>6. Suspended(problem, W, Nothing)
  BY DEF Suspended
<1>7. SubSeq(named, 1, Len(F.named)) = F.named /\ SubSeq(hist, 1, Len(F.hist)) = F.hist
  BY <1>3, PrefixTake
<1>8. AnySeq(hist) /\ AnySeq(named)
  BY <1>3 DEF Prefix
<1>9. CASE by = "SJSR" /\ UNCHANGED <<r, hist, named>>
  <2>1. /\ F.hist = <<>> /\ F.named = <<>> /\ problem.kind = "SJSR" /\ Front(F.calls) = <<>>
        /\ Len(Front(F.stk)) > 0 /\ Last(Front(F.stk)).use = "tail"
    BY <1>4, <1>9 DEF GoesBack, InMatch
  <2>2. todo' = "SJSRV"
    BY <1>5, <1>9 DEF After_
  <2>3. Ended(problem, W, Nothing, hist, Front(F.stk), Front(F.calls), named, r, "SJSRV")
    <3>1. Ours(W, Nothing, r)
      BY <1>3, <2>1, NothingIs DEF Ours, Of
    <3>2. KindOf(problem, Nothing) = "SJSR"
      BY <2>1, NothingIs DEF KindOf
    <3>3. AnySeq(Front(F.stk))
      BY <1>2, SuspendedIs, AnyFront
    <3>4. Prefix(Nothing.stk, Front(F.stk)) /\ Prefix(Nothing.hist, hist) /\ Prefix(Nothing.named, named)
      BY <1>8, <3>3, NothingIs, EmptyPrefix
    <3>5. Front(F.calls) = Nothing.calls /\ Len(Front(F.stk)) > Len(Nothing.stk)
      BY <2>1, NothingIs
    <3> QED BY <2>1, <3>1, <3>2, <3>4, <3>5 DEF Ended
  <2>4. Ended(problem, W, Nothing, hist', stk', calls', named', r', "SJSRV")
    BY <1>5, <1>9, <2>3
  <2>5. Running(problem, W, Nothing, hist', stk', calls', named', r', todo')
    BY <2>2, <2>4 DEF Running
  <2> QED BY <1>1, <1>2, <1>6, <2>5, KeepsOnWith
<1>10. CASE /\ by = "NMD"
            /\ r' = [r EXCEPT !.NHEDCL = k.r.NHEDCL, !.TCL = k.r.TCL]
            /\ named' = SubSeq(named, 1, k.NAMICL) /\ UNCHANGED hist
  <2>1. /\ k.NAMICL = Len(F.named) /\ F.hist = <<>>
        /\ Ended(problem, W, Nothing, <<>>, Front(F.stk), Front(F.calls), F.named, k.r, "NMD")
    BY <1>4, <1>10 DEF GoesBack, InMatch
  <2>2. todo' = "NMD"
    BY <1>5, <1>10 DEF After_
  <2>3. named' = F.named /\ hist' = hist
    BY <1>7, <1>10, <2>1
  <2>4. k.r \in Registers(W) /\ k.r.NHEDCL = 0
    BY <2>1, NothingIs DEF Ended, Ours, Of
  <2>5. Ours(W, Nothing, r')
    <3> DEFINE a == k.r.NHEDCL
               b == k.r.TCL
    <3>1. a \in Int /\ b \in Int /\ r' = [r EXCEPT !.NHEDCL = a, !.TCL = b]
      BY <1>10, <2>4, RegistersAre
    <3> HIDE DEF a, b
    <3>2. r' \in Registers(W) /\ r'.NHEDCL = a /\ r'.PDLHED = r.PDLHED
      BY ONLY <1>3, <3>1 DEF Registers
    <3> QED BY <1>3, <2>1, <2>4, <3>2, NothingIs DEF Ours, Of, a
  <2>6. Prefix(Nothing.hist, hist)
    BY <1>8, NothingIs, EmptyPrefix
  <2>7. Ended(problem, W, Nothing, hist', stk', calls', named', r', "NMD")
    <3>1. Ended(problem, W, Nothing, hist, Front(F.stk), Front(F.calls), F.named, r', "NMD")
      BY <2>1, <2>5, <2>6 DEF Ended
    <3> QED BY <1>5, <2>3, <3>1
  <2>8. Running(problem, W, Nothing, hist', stk', calls', named', r', todo')
    BY <2>2, <2>7 DEF Running
  <2> QED BY <1>1, <1>2, <1>6, <2>8, KeepsOnWith
<1>11. CASE /\ by \in InMatch
            /\ r' = k.r
            /\ named' = SubSeq(named, 1, k.NAMICL) /\ hist' = SubSeq(hist, 1, k.PDLPTR)
  <2>1. /\ k.PDLPTR = Len(F.hist) /\ k.NAMICL = Len(F.named)
        /\ Live(W, Nothing, F.hist, Front(F.stk), Front(F.calls), F.named, k.r, After_(by))
    BY <1>4, <1>11 DEF GoesBack, InMatch
  <2>2. named' = F.named /\ hist' = F.hist
    BY <1>7, <1>11, <2>1
  <2>3. Live(W, Nothing, hist', stk', calls', named', r', todo')
    BY <1>5, <1>11, <2>1, <2>2
  <2>4. todo' \in Matching
    BY <1>5, <1>11, MatchingIs DEF After_, InMatch
  <2> QED BY <1>1, <1>2, <1>6, <2>3, <2>4, KeepsOn
<1> QED BY <1>5, <1>9, <1>10, <1>11

(* Every step keeps the invariant.                                         *)
MatchStep ==
    \/ SCIN3 \/ INTR31 \/ BackUp \/ SCOK \/ SCFL \/ SCON \/ RTNUL3
    \/ Primitive \/ NoInteger \/ BRKX \/ BRKXF \/ FARB \/ BAL \/ FNCE \/ SUCF
    \/ ARBN \/ ARBF \/ EARB \/ ONAR \/ NME \/ FNME \/ ENME \/ ENMI \/ ENMI2 \/ DNME
    \/ ATP \/ STAR \/ STARV \/ DSAR

LEMMA MatchStepTodo ==
  ASSUME MatchStep
  PROVE  todo \in Matching
<1>1. /\ {"SALT", "SALF", "SCOK", "node", "ENMI2", "BRKX", "SUCF", "BRKXF", "FNME", "DNME", "DNME1", "SCFL",
          "RTNUL3", "SCON", "STARV", "STAR", "DSAR"} \subseteq Matching
      /\ {"CHR", "ANYC", "NNYC", "BRKC", "SPNC"} \cup Measuring \subseteq Matching
      /\ {"FARB", "BAL", "BALF", "FNCE", "ARBN", "ARBF", "EARB", "ONAR", "ONRF", "NME", "ENME", "ENMI", "ATP"}
           \subseteq Matching
  BY MatchingIs DEF Fns, Simple
<1>2. CASE SCIN3
  BY <1>1, <1>2 DEF SCIN3
<1>3. CASE INTR31
  BY <1>1, <1>3 DEF INTR31
<1>4. CASE BackUp
  BY <1>1, <1>4 DEF BackUp
<1>5. CASE SCOK
  BY <1>1, <1>5 DEF SCOK
<1>6. CASE SCFL
  BY <1>1, <1>6 DEF SCFL
<1>7. CASE SCON
  BY <1>1, <1>7 DEF SCON
<1>8. CASE RTNUL3
  BY <1>1, <1>8 DEF RTNUL3
<1>9. CASE Primitive
  BY <1>1, <1>9 DEF Primitive
<1>10. CASE NoInteger
  BY <1>1, <1>10 DEF NoInteger
<1>11. CASE BRKX
  BY <1>1, <1>11 DEF BRKX
<1>12. CASE BRKXF
  BY <1>1, <1>12 DEF BRKXF
<1>13. CASE FARB
  BY <1>1, <1>13 DEF FARB
<1>14. CASE BAL
  BY <1>1, <1>14 DEF BAL
<1>15. CASE FNCE
  BY <1>1, <1>15 DEF FNCE
<1>16. CASE SUCF
  BY <1>1, <1>16 DEF SUCF
<1>17. CASE ARBN
  BY <1>1, <1>17 DEF ARBN
<1>18. CASE ARBF
  BY <1>1, <1>18 DEF ARBF
<1>19. CASE EARB
  BY <1>1, <1>19 DEF EARB
<1>20. CASE ONAR
  BY <1>1, <1>20 DEF ONAR
<1>21. CASE NME
  BY <1>1, <1>21 DEF NME
<1>22. CASE FNME
  BY <1>1, <1>22 DEF FNME
<1>23. CASE ENME
  BY <1>1, <1>23 DEF ENME
<1>24. CASE ENMI
  BY <1>1, <1>24 DEF ENMI
<1>25. CASE ENMI2
  BY <1>1, <1>25 DEF ENMI2
<1>26. CASE DNME
  BY <1>1, <1>26 DEF DNME
<1>27. CASE ATP
  BY <1>1, <1>27 DEF ATP
<1>28. CASE STAR
  BY <1>1, <1>28 DEF STAR
<1>29. CASE STARV
  BY <1>1, <1>29 DEF STARV
<1>30. CASE DSAR
  BY <1>1, <1>30 DEF DSAR
<1> QED BY <1>2, <1>3, <1>4, <1>5, <1>6, <1>7, <1>8, <1>9, <1>10, <1>11, <1>12, <1>13, <1>14, <1>15, <1>16, <1>17, <1>18, <1>19, <1>20, <1>21, <1>22, <1>23, <1>24, <1>25, <1>26, <1>27, <1>28, <1>29, <1>30 DEF MatchStep

LEMMA MatchStepKeeps ==
  ASSUME AfterConstant, IInv, MatchStep, TMVAL \in Int
  PROVE  IInv'
<1>1. PICK W, F, C : On(W, F, C)
  BY MatchStepTodo, InMatching
<1>2. CASE SCIN3
  BY <1>1, <1>2, SCIN3Keeps
<1>3. CASE INTR31
  BY <1>1, <1>3, INTR31Keeps
<1>4. CASE BackUp
  BY <1>1, <1>4, BackUpKeeps
<1>5. CASE SCOK
  BY <1>1, <1>5, SCOKKeeps
<1>6. CASE SCFL
  BY <1>1, <1>6, SCFLKeeps
<1>7. CASE SCON
  BY <1>1, <1>7, SCONKeeps
<1>8. CASE RTNUL3
  BY <1>1, <1>8, RTNUL3Keeps
<1>9. CASE Primitive
  BY <1>1, <1>9, PrimitiveKeeps
<1>10. CASE NoInteger
  BY <1>1, <1>10, NoIntegerKeeps
<1>11. CASE BRKX
  BY <1>1, <1>11, BRKXKeeps
<1>12. CASE BRKXF
  BY <1>1, <1>12, BRKXFKeeps
<1>13. CASE FARB
  BY <1>1, <1>13, FARBKeeps
<1>14. CASE BAL
  BY <1>1, <1>14, BALKeeps
<1>15. CASE FNCE
  BY <1>1, <1>15, FNCEKeeps
<1>16. CASE SUCF
  BY <1>1, <1>16, SUCFKeeps
<1>17. CASE ARBN
  BY <1>1, <1>17, ARBNKeeps
<1>18. CASE ARBF
  BY <1>1, <1>18, ARBFKeeps
<1>19. CASE EARB
  BY <1>1, <1>19, EARBKeeps
<1>20. CASE ONAR
  BY <1>1, <1>20, ONARKeeps
<1>21. CASE NME
  BY <1>1, <1>21, NMEKeeps
<1>22. CASE FNME
  BY <1>1, <1>22, FNMEKeeps
<1>23. CASE ENME
  BY <1>1, <1>23, ENMEKeeps
<1>24. CASE ENMI
  BY <1>1, <1>24, ENMIKeeps
<1>25. CASE ENMI2
  BY <1>1, <1>25, ENMI2Keeps
<1>26. CASE DNME
  BY <1>1, <1>26, DNMEKeeps
<1>27. CASE ATP
  BY <1>1, <1>27, ATPKeeps
<1>28. CASE STAR
  BY <1>1, <1>28, STARKeeps
<1>29. CASE STARV
  BY <1>1, <1>29, STARVKeeps
<1>30. CASE DSAR
  BY <1>1, <1>30, DSARKeeps
<1> QED BY <1>2, <1>3, <1>4, <1>5, <1>6, <1>7, <1>8, <1>9, <1>10, <1>11, <1>12, <1>13, <1>14, <1>15, <1>16, <1>17, <1>18, <1>19, <1>20, <1>21, <1>22, <1>23, <1>24, <1>25, <1>26, <1>27, <1>28, <1>29, <1>30 DEF MatchStep

\* What is left in TMVAL is a residual, a cursor or 0.
LEMMA ResidualKept ==
  ASSUME IInv, TMVAL \in Int, [Next]_vars
  PROVE  TMVAL' \in Int
<1>1. CASE SCIN3
  <2>1. PICK W, F, C : On(W, F, C)
    BY <1>1, MatchStepTodo, InMatching DEF MatchStep
  <2> QED BY <1>1, <2>1, SCIN3Keeps
<1>2. CASE ENME
  <2>1. PICK W, F, C : On(W, F, C)
    BY <1>2, MatchStepTodo, InMatching DEF MatchStep
  <2> QED BY <1>2, <2>1, ENMEKeeps
<1>3. CASE ENMI2
  <2>1. PICK W, F, C : On(W, F, C)
    BY <1>3, MatchStepTodo, InMatching DEF MatchStep
  <2> QED BY <1>3, <2>1, ENMI2Keeps
<1>4. CASE UNCHANGED vars
  BY <1>4 DEF vars
<1>5. CASE SCNR \/ Resume \/ NMD \/ SCAN \/ SJSR \/ SJSRV
  BY <1>5 DEF SCNR, Resume, NMD, SCAN, SJSR, SJSRV
<1>6. CASE INTR31 \/ BackUp \/ SCOK \/ SCFL \/ SCON \/ RTNUL3 \/ Primitive \/ NoInteger
  BY <1>6 DEF INTR31, BackUp, SCOK, SCFL, SCON, RTNUL3, Primitive, NoInteger
<1>7. CASE BRKX \/ BRKXF \/ FARB \/ BAL \/ FNCE \/ SUCF \/ ARBN \/ ARBF \/ EARB \/ ONAR
  BY <1>7 DEF BRKX, BRKXF, FARB, BAL, FNCE, SUCF, ARBN, ARBF, EARB, ONAR
<1>8. CASE NME \/ FNME \/ ENMI \/ DNME \/ ATP \/ STAR \/ STARV \/ DSAR
  BY <1>8 DEF NME, FNME, ENMI, DNME, ATP, STAR, STARV, DSAR
<1> QED BY <1>1, <1>2, <1>3, <1>4, <1>5, <1>6, <1>7, <1>8 DEF Next

LEMMA IInvKept ==
  ASSUME IInv, UNCHANGED vars
  PROVE  IInv'
<1>1. PICK W, F : /\ Situation(W) /\ Suspended(problem, W, F)
                  /\ Running(problem, W, F, hist, stk, calls, named, r, todo)
  BY DEF IInv
<1>2. UNCHANGED <<problem, mem, now>> /\ UNCHANGED <<hist, stk, calls, named, r, todo>>
  BY DEF vars
<1>3. Running(problem, W, F, hist', stk', calls', named', r', todo')
  BY <1>1, <1>2
<1> QED BY <1>1, <1>2, <1>3, KeepsOnWith

LEMMA IInvStep ==
  ASSUME AfterConstant, IInv, TMVAL \in Int, [Next]_vars
  PROVE  IInv'
<1>1. CASE UNCHANGED vars
  BY <1>1, IInvKept
<1>2. CASE SCNR
  BY <1>2, SCNRKeeps
<1>3. CASE Resume
  BY <1>3, ResumeKeeps
<1>4. CASE NMD
  BY <1>4, NMDKeeps
<1>5. CASE SCAN
  BY <1>5, SCANKeeps
<1>6. CASE SJSR
  BY <1>6, SJSRKeeps
<1>7. CASE SJSRV
  BY <1>7, SJSRVKeeps
<1>8. CASE MatchStep
  BY <1>8, MatchStepKeeps
<1>9. Next => MatchStep \/ SCNR \/ Resume \/ NMD \/ SCAN \/ SJSR \/ SJSRV
  BY DEF Next, MatchStep
<1> QED BY <1>1, <1>2, <1>3, <1>4, <1>5, <1>6, <1>7, <1>8, <1>9

-----------------------------------------------------------------------------
(* What the invariant says of the properties of Match.                      *)

\* The procedures that pop, in a match.
Popping == {"ARBF", "EARB", "FNME", "ENME", "ENMI", "SCON"}

LEMMA PopsOwn ==
  ASSUME NEW W, NEW F, NEW C, On(W, F, C), todo \in Popping
  PROVE  Tops(Uses[todo])
<1>1. Worlds(W) /\ MatchAt(W, F, hist, stk, calls, named, r, todo, C)
  BY OnIs
<1>2. CASE todo = "ARBF"
  <2>1. "SALT" \in {"SALT", "SALF"} /\ MatchAt(W, F, hist, stk, calls, named, r, "ARBF", C)
    BY <1>1, <1>2
  <2>2. stk # <<>> /\ Last(stk) \in [use : {"arbno"}, n : Int]
    BY <1>1, <2>1, RepeatFails
  <2> QED BY <1>2, <2>2 DEF Tops, Uses
<1>3. CASE todo = "FNME"
  <2>1. "SALT" \in {"SALT", "SALF"} /\ MatchAt(W, F, hist, stk, calls, named, r, "FNME", C) /\ Later(W, r, r)
    BY <1>1, <1>3, OnIs, LaterSame
  <2>2. stk # <<>> /\ Last(stk) \in [use : {"name"}, n : Int]
    BY <1>1, <2>1, NameFails
  <2> QED BY <1>3, <2>2 DEF Tops, Uses
<1>4. CASE todo \in {"EARB", "ENME", "ENMI"}
  <2> DEFINE tag == IF OnNode.fn = "EARB" THEN "arbno" ELSE "name"
  <2>1. todo \in Own1 /\ ProcOf(todo) = todo
    BY <1>4 DEF Own1, ProcOf
  <2>2. OnTop(W, F, hist, named, r, C, OnNode) /\ OnNode.fn = todo
    BY <2>1, OnNodeTop
  <2>3. OnNode.fn \in {"ENME", "ENMI", "EARB"} /\ tag = IF OnNode.fn = "EARB" THEN "arbno" ELSE "name"
    BY <1>4, <2>2
  <2>4. tag = Uses[todo]
    BY <1>4, <2>2 DEF Uses
  <2> HIDE DEF tag
  <2>5. stk # <<>> /\ Last(stk) \in [use : {tag}, n : Int]
    BY <1>1, <2>2, <2>3, Closing
  <2> QED BY <2>4, <2>5 DEF Tops
<1>5. CASE todo = "SCON"
  <2>1. Phase(W, F, hist, named, r, "SCON", C)
    BY <1>1, <1>5, MatchIs
  <2>2. AtBottom(W, F, hist, named, C) /\ ~ W.anchored
    BY <2>1, Phases
  <2>3. /\ Stands(W, F, C, stk, calls) /\ Len(C) = 1 /\ C[1].open = <<>>
        /\ Last(C) = C[1]
    BY <1>1, <2>2, MatchIs DEF AtBottom, Last
  <2>4. /\ AnySeq(stk) /\ Len(stk) \in Nat /\ Floor(W, F) \in Nat /\ Floor(W, F) > 0
        /\ Last(C).at + Len(Last(C).open) = Len(stk)
    BY <2>2, <2>3, StandsIs
  <2>5. C[1].at = Floor(W, F) /\ stk[Floor(W, F)].use = "head"
    BY <2>2, <2>3 DEF Stands
  <2>6. Len(stk) = Floor(W, F)
    BY <2>3, <2>4, <2>5
  <2>7. Last(stk).use = "head" /\ stk # <<>>
    <3> DEFINE n == Floor(W, F)
    <3>1. Len(stk) = n /\ n > 0 /\ stk[n].use = "head"
      BY <2>4, <2>5, <2>6
    <3> HIDE DEF n
    <3> QED BY <3>1 DEF Last
  <2> QED BY <1>5, <2>7 DEF Tops, Uses
<1> QED BY <1>2, <1>3, <1>4, <1>5 DEF Popping

LEMMA StackOwnedHolds ==
  ASSUME IInv
  PROVE  StackOwned
<1>1. ASSUME todo \in Popping PROVE Tops(Uses[todo])
  <2>1. todo \in Matching
    BY <1>1, MatchingIs DEF Popping, Fns
  <2> QED BY <1>1, <2>1, InMatching, PopsOwn
<1>2. ASSUME todo = "SJSRV" PROVE Tops(Uses[todo])
  <2>1. PICK W, F : /\ Situation(W) /\ Suspended(problem, W, F)
                    /\ Ended(problem, W, F, hist, stk, calls, named, r, todo)
    BY <1>2, AtEnding
  <2>2. KindOf(problem, F) = "SJSR"
    <3>1. problem \in Problems
      BY <2>1 DEF Situation
    <3>2. KindOf(problem, F) \in {"SCAN", "SJSR", "none"}
      BY <3>1, ProblemIs DEF KindOf
    <3>3. todo = "NMD" \/ todo = KindOf(problem, F) \/ (todo = "SJSRV" /\ KindOf(problem, F) = "SJSR")
      BY <2>1 DEF Ended
    <3> QED BY <1>2, <3>2, <3>3
  <2>3. Len(stk) > Len(F.stk) /\ Last(stk).use = "tail" /\ Prefix(F.stk, stk)
    BY <2>1, <2>2 DEF Ended
  <2>4. Len(stk) \in Nat /\ Len(F.stk) \in Nat
    BY <2>3, AnyRange DEF Prefix
  <2>5. stk # <<>>
    BY <2>3, <2>4
  <2> QED BY <1>2, <2>3, <2>5 DEF Tops, Uses
<1>3. ASSUME todo = "resume" PROVE Tops(Uses[todo])
  <2>1. PICK W, F : /\ Situation(W) /\ Suspended(problem, W, F) /\ F # Nothing
                    /\ Begins(W, F, hist, stk, calls, named, r)
    BY <1>3, AtBegin
  <2>2. stk = F.stk
    BY <2>1 DEF Begins
  <2>3. F.stk # <<>> /\ Last(F.stk).use = "kept"
    BY <2>1, SuspendedIs
  <2> QED BY <1>3, <2>2, <2>3 DEF Tops, Uses
<1>4. DOMAIN Uses = Popping \cup {"SJSRV", "resume"}
  BY DEF Uses, Popping
<1> QED BY <1>1, <1>2, <1>3, <1>4 DEF StackOwned

LEMMA LinksOwnedHolds ==
  ASSUME IInv
  PROVE  LinksOwned
<1> SUFFICES ASSUME todo \in {"SALT", "SALF"}
             PROVE  /\ Len(hist) > r.PDLHED /\ Top.fn # "started"
                    /\ (Top.fn = Link /\ Top.or # 0) => Top.owner = r.PATBCL
  BY DEF LinksOwned
<1>1. PICK W, F, C : On(W, F, C)
  BY InMatching, MatchingIs
<1>2. /\ Worlds(W) /\ MatchAt(W, F, hist, stk, calls, named, r, todo, C) /\ Ours(W, F, r)
      /\ r.PATBCL = Last(C).pat
  BY <1>1, OnIs
<1>3. Phase(W, F, hist, named, r, todo, C)
  BY <1>2, MatchIs
<1>4. Backing(W, F, hist, named, C) \/ Shortened(W, F, hist, named, C)
  BY <1>3, Phases
<1>5. CASE Backing(W, F, hist, named, C)
  <2>1. Held(W, F, hist, named, C) /\ Last(hist).fn # "started"
    BY <1>5 DEF Backing
  <2>2. /\ Len(hist) \in Nat /\ Bot(F) \in Nat \ {0} /\ Len(hist) >= Bot(F) /\ Len(F.hist) \in Nat
    BY <2>1, HeldIs
  <2>3. Len(hist) > r.PDLHED
    BY <1>2, <2>2 DEF Ours, Of, Bot
  <2>4. ASSUME Top.fn = Link, Top.or # 0 PROVE Top.owner = r.PATBCL
    <3>1. Len(hist) > Bot(F) /\ Last(hist).fn # "DNME"
      BY <2>1, <2>4, AboveBottom, LinkIs DEF Top
    <3>2. PICK B : Step(W, B, Under(F, Front(hist), Len(Front(hist))), Last(Front(hist)), Last(hist), C)
      BY <2>1, <3>1, HeldPopped
    <3>3. StepLink(W, B, Last(Front(hist)), Last(hist), C)
      BY <2>4, <3>2, LinkIs DEF Step, Top
    <3> QED BY <1>2, <2>4, <3>3 DEF StepLink, Top
  <2> QED BY <2>1, <2>3, <2>4 DEF Top
<1>6. CASE Shortened(W, F, hist, named, C)
  <2>1. /\ Len(hist) > Bot(F) /\ Held(W, F, Front(hist), named, C)
        /\ \E p \in 0 .. Len(Pat(W, C)) - 1 :
             OwnEntry(Last(hist), NodeOf(W, C, p), Last(hist).cur, Last(C).pat)
    BY <1>6 DEF Shortened
  <2>2. Bot(F) \in Nat \ {0} /\ Len(F.hist) \in Nat
    BY <2>1, HeldIs
  <2>3. Len(hist) \in Nat
    BY <1>6, AnyRange DEF Shortened
  <2>4. Len(hist) > r.PDLHED
    BY <1>2, <2>1, <2>2, <2>3 DEF Ours, Of, Bot
  <2>5. Last(hist).fn = Link /\ Last(hist).owner = Last(C).pat
    BY <2>1 DEF OwnEntry
  <2> QED BY <1>2, <2>4, <2>5, LinkIs DEF Top
<1> QED BY <1>4, <1>5, <1>6

(* Counting.                                                               *)
\* f goes up at X and down at Y.
Counts(b, n, X, Y, f) ==
    /\ b \in Nat /\ n \in Nat /\ b <= n /\ X \subseteq b + 1 .. n /\ Y \subseteq b + 1 .. n
    /\ f[b] = 0 /\ \A k \in b .. n : f[k] \in Int
    /\ \A k \in b + 1 .. n :
         f[k] = f[k - 1] + (IF k \in X THEN 1 ELSE 0) - (IF k \in Y THEN 1 ELSE 0)

LEMMA Counting ==
  ASSUME NEW b, NEW n, NEW X, NEW Y, NEW f, Counts(b, n, X, Y, f)
  PROVE  f[n] = Cardinality(X) - Cardinality(Y)
<1> USE DEF Counts
<1> DEFINE Upto(Z, k) == Z \cap (b + 1 .. k)
           Right(k) == f[k] = Cardinality(Upto(X, k)) - Cardinality(Upto(Y, k))
           Wrong == {k \in b .. n : ~ Right(k)}
<1>1. ASSUME NEW Z, Z \subseteq b + 1 .. n, NEW k \in b + 1 .. n
      PROVE  /\ Cardinality(Upto(Z, k)) = Cardinality(Upto(Z, k - 1)) + (IF k \in Z THEN 1 ELSE 0)
             /\ Cardinality(Upto(Z, k - 1)) \in Nat
  <2>1. IsFiniteSet(b + 1 .. n)
    BY FS_Interval
  <2>2. Upto(Z, k - 1) \subseteq b + 1 .. n
    OBVIOUS
  <2>3. IsFiniteSet(Upto(Z, k - 1))
    BY <2>1, <2>2, FS_Subset
  <2>4. k \notin Upto(Z, k - 1)
    OBVIOUS
  <2>5. Upto(Z, k) = IF k \in Z THEN Upto(Z, k - 1) \cup {k} ELSE Upto(Z, k - 1)
    OBVIOUS
  <2> HIDE DEF Upto
  <2>6. Cardinality(Upto(Z, k - 1) \cup {k}) = Cardinality(Upto(Z, k - 1)) + 1
    BY <2>3, <2>4, FS_AddElement
  <2>7. Cardinality(Upto(Z, k - 1)) \in Nat
    BY <2>3, FS_CardinalityType
  <2> QED BY <2>5, <2>6, <2>7
<1>2. Right(b)
  <2>1. Upto(X, b) = {} /\ Upto(Y, b) = {}
    OBVIOUS
  <2> HIDE DEF Upto
  <2> QED BY <2>1, FS_EmptySet
<1>3. ASSUME NEW k \in b + 1 .. n, Right(k - 1) PROVE Right(k)
  <2> HIDE DEF Upto
  <2>1. /\ Cardinality(Upto(X, k)) = Cardinality(Upto(X, k - 1)) + (IF k \in X THEN 1 ELSE 0)
        /\ Cardinality(Upto(X, k - 1)) \in Nat
    BY <1>1
  <2>2. /\ Cardinality(Upto(Y, k)) = Cardinality(Upto(Y, k - 1)) + (IF k \in Y THEN 1 ELSE 0)
        /\ Cardinality(Upto(Y, k - 1)) \in Nat
    BY <1>1
  <2>3. f[k] = f[k - 1] + (IF k \in X THEN 1 ELSE 0) - (IF k \in Y THEN 1 ELSE 0) /\ f[k - 1] \in Int
    OBVIOUS
  <2>4. f[k - 1] = Cardinality(Upto(X, k - 1)) - Cardinality(Upto(Y, k - 1))
    BY <1>3
  <2> QED BY <2>1, <2>2, <2>3, <2>4
<1>4. Upto(X, n) = X /\ Upto(Y, n) = Y
  OBVIOUS
<1> HIDE DEF Upto, Right
<1>5. Wrong = {}
  <2> SUFFICES ASSUME Wrong # {} PROVE FALSE
    OBVIOUS
  <2>1. Wrong \in SUBSET Nat
    OBVIOUS
  <2>2. PICK k \in Wrong : \A m \in Wrong : k <= m
    <3> HIDE DEF Wrong
    <3> QED BY <2>1, NatLeast
  <2>3. k \in b .. n /\ ~ Right(k) /\ k # b
    BY <1>2
  <2>4. k \in b + 1 .. n /\ k - 1 \in b .. n /\ ~ (k <= k - 1)
    BY <2>3
  <2>5. Right(k - 1)
    BY <2>2, <2>4
  <2> QED BY <1>3, <2>3, <2>4, <2>5
<1>6. Right(n)
  BY <1>5
<1> QED BY <1>4, <1>6 DEF Right

(* Where on the stack the starts of levels C are.                          *)
Has(C, k, tag) ==
    \E j \in 1 .. Len(C) : k - C[j].at \in 1 .. Len(C[j].open) /\ C[j].open[k - C[j].at] = tag
Starts(C, tag) == {k \in 1 .. Height(C) : Has(C, k, tag)}
Many(C, tag) == Cardinality(Starts(C, tag))

LEMMA ManyIs ==
  ASSUME NEW W, NEW C, Sound(W, C), NEW tag
  PROVE  IsFiniteSet(Starts(C, tag)) /\ Many(C, tag) \in Nat
<1>1. Height(C) \in Nat
  BY SoundIs
<1>2. Starts(C, tag) \subseteq 1 .. Height(C) /\ IsFiniteSet(1 .. Height(C))
  BY <1>1, FS_Interval DEF Starts
<1>3. IsFiniteSet(Starts(C, tag))
  BY <1>2, FS_Subset
<1> QED BY <1>3, FS_CardinalityType DEF Many

LEMMA ManyPushed ==
  ASSUME NEW W, NEW C, Sound(W, C), NEW t \in Tags, NEW tag
  PROVE  Many(Pushed(C, t), tag) = Many(C, tag) + (IF t = tag THEN 1 ELSE 0)
<1> DEFINE D == Pushed(C, t)
           n == Len(C)
           H == Height(C)
           a == Last(C).at
           l == Len(Last(C).open)
<1>1. /\ Len(D) = n /\ Last(D).at = a /\ Last(D).open = Append(Last(C).open, t)
      /\ Height(D) = H + 1 /\ (\A j \in 1 .. n - 1 : D[j] = C[j]) /\ Sound(W, D)
  BY PushedIs
<1>2. /\ n \in Nat \ {0} /\ Last(C) = C[n] /\ H \in Nat /\ Last(D) = D[n]
      /\ Last(C) \in Levels(W)
  BY <1>1, SoundIs
<1>3. a \in Nat /\ l \in Nat /\ AnySeq(Last(C).open) /\ H = a + l
  BY <1>2, LevelIs DEF Height
<1>4. /\ Len(D[n].open) = l + 1 /\ D[n].open[l + 1] = t
      /\ \A i \in 1 .. l : D[n].open[i] = C[n].open[i]
  <2>1. D[n].open = Append(Last(C).open, t) /\ C[n].open = Last(C).open
    BY <1>1, <1>2, Zenon
  <2>2. /\ Len(Append(Last(C).open, t)) = l + 1 /\ Append(Last(C).open, t)[l + 1] = t
        /\ \A i \in 1 .. l : Append(Last(C).open, t)[i] = Last(C).open[i]
    BY <1>3, AnyAppend
  <2> QED BY <2>1, <2>2, Zenon
<1>5. \A j \in 1 .. n : C[j].at \in Nat /\ Len(C[j].open) \in Nat /\ C[j].at + Len(C[j].open) <= H
  BY Lower
<1> HIDE DEF D, n, H, a, l
<1>6. ASSUME NEW k \in 1 .. H PROVE Has(D, k, tag) <=> Has(C, k, tag)
  <2>1. ASSUME Has(C, k, tag) PROVE Has(D, k, tag)
    <3>1. PICK j \in 1 .. n : k - C[j].at \in 1 .. Len(C[j].open) /\ C[j].open[k - C[j].at] = tag
      BY <2>1 DEF Has, n
    <3>2. CASE j = n
      <4>1. k - a \in 1 .. l /\ C[n].open[k - a] = tag
        BY <1>2, <3>1, <3>2 DEF a, l
      <4>2. k - a \in 1 .. Len(D[n].open)
        BY <1>3, <1>4, <4>1
      <4>3. D[n].open[k - a] = tag
        BY <1>4, <4>1
      <4>4. D[n].at = a
        BY <1>1, <1>2
      <4>5. k - D[n].at \in 1 .. Len(D[n].open) /\ D[n].open[k - D[n].at] = tag
        BY <4>2, <4>3, <4>4
      <4> QED BY <1>1, <1>2, <4>5 DEF Has
    <3>3. CASE j # n
      <4>1. j \in 1 .. n - 1
        BY <1>2, <3>3
      <4>2. D[j] = C[j] /\ j \in 1 .. Len(D)
        BY <1>1, <4>1
      <4> QED BY <3>1, <4>2 DEF Has
    <3> QED BY <3>2, <3>3
  <2>2. ASSUME Has(D, k, tag) PROVE Has(C, k, tag)
    <3>1. PICK j \in 1 .. n : k - D[j].at \in 1 .. Len(D[j].open) /\ D[j].open[k - D[j].at] = tag
      BY <1>1, <2>2 DEF Has
    <3>2. CASE j = n
      <4>1. k - a \in 1 .. l + 1 /\ D[n].open[k - a] = tag
        BY <1>1, <1>2, <1>4, <3>1, <3>2
      <4>2. k - a \in 1 .. l
        BY <1>3, <4>1
      <4>3. k - C[n].at \in 1 .. Len(C[n].open) /\ C[n].open[k - C[n].at] = tag
        BY <1>2, <1>4, <4>1, <4>2 DEF a, l
      <4> QED BY <1>2, <4>3 DEF Has, n
    <3>3. CASE j # n
      <4>1. j \in 1 .. n - 1
        BY <1>2, <3>3
      <4>2. D[j] = C[j]
        BY <1>1, <4>1
      <4> QED BY <3>1, <4>2 DEF Has, n
    <3> QED BY <3>2, <3>3
  <2> QED BY <2>1, <2>2
<1>7. Has(D, H + 1, tag) <=> t = tag
  <2>1. ASSUME t = tag PROVE Has(D, H + 1, tag)
    <3>0. D[n].at = a
      BY <1>1, <1>2, Zenon
    <3>1. (H + 1) - D[n].at = l + 1
      BY ONLY <1>3, <3>0
    <3>2. (H + 1) - D[n].at \in 1 .. Len(D[n].open) /\ D[n].open[(H + 1) - D[n].at] = tag
      BY <1>3, <1>4, <2>1, <3>1
    <3> QED BY <1>1, <1>2, <3>2 DEF Has
  <2>2. ASSUME Has(D, H + 1, tag) PROVE t = tag
    <3>1. PICK j \in 1 .. n : (H + 1) - D[j].at \in 1 .. Len(D[j].open) /\ D[j].open[(H + 1) - D[j].at] = tag
      BY <1>1, <2>2 DEF Has
    <3>2. CASE j = n
      <4>0. D[n].at = a
        BY <1>1, <1>2, Zenon
      <4>1. (H + 1) - D[n].at = l + 1
        BY ONLY <1>3, <4>0
      <4> QED BY <1>4, <3>1, <3>2, <4>1
    <3>3. CASE j # n
      <4>1. j \in 1 .. n - 1
        BY <1>2, <3>3
      <4>2. D[j] = C[j]
        BY <1>1, <4>1
      <4>3. C[j].at \in Nat /\ Len(C[j].open) \in Nat /\ C[j].at + Len(C[j].open) <= H
        BY <1>5
      <4>4. (H + 1) - C[j].at <= Len(C[j].open)
        BY <1>2, <3>1, <4>2, <4>3
      <4> QED BY <1>2, <4>3, <4>4
    <3> QED BY <3>2, <3>3
  <2> QED BY <2>1, <2>2
<1>8. Starts(D, tag) = IF t = tag THEN Starts(C, tag) \cup {H + 1} ELSE Starts(C, tag)
  <2>1. Starts(D, tag) = {k \in 1 .. H + 1 : Has(D, k, tag)}
    BY <1>1 DEF Starts
  <2>2. Starts(C, tag) = {k \in 1 .. H : Has(C, k, tag)}
    BY DEF Starts, H
  <2>3. 1 .. H + 1 = (1 .. H) \cup {H + 1}
    BY <1>2
  <2> QED BY <1>6, <1>7, <2>1, <2>2, <2>3
<1>9. IsFiniteSet(Starts(C, tag)) /\ Many(C, tag) \in Nat
  BY ManyIs
<1>10. H + 1 \notin Starts(C, tag)
  BY <1>2 DEF Starts, H
<1>11. Cardinality(Starts(C, tag) \cup {H + 1}) = Cardinality(Starts(C, tag)) + 1
  BY <1>9, <1>10, FS_AddElement
<1> QED BY <1>8, <1>9, <1>11 DEF Many, D

LEMMA ManyOpened ==
  ASSUME NEW W, NEW C, Sound(W, C), NEW x \in DOMAIN W.nodes, NEW max \in Int, NEW tag
  PROVE  Many(Opened(C, x, max), tag) = Many(C, tag)
<1> DEFINE D == Opened(C, x, max)
           n == Len(C)
           H == Height(C)
<1>1. /\ Len(D) = n + 1 /\ Height(D) = H + 1 /\ (\A j \in 1 .. n : D[j] = C[j])
      /\ D[n + 1] = Level(x, max, H + 1)
  BY OpenedIs
<1>2. n \in Nat \ {0} /\ H \in Nat
  BY SoundIs
<1>3. Len(D[n + 1].open) = 0
  BY <1>1 DEF Level
<1>4. \A j \in 1 .. n : C[j].at \in Nat /\ Len(C[j].open) \in Nat /\ C[j].at + Len(C[j].open) <= H
  BY Lower
<1> HIDE DEF D, n, H
<1>5. ASSUME NEW k PROVE Has(D, k, tag) <=> Has(C, k, tag)
  <2>1. ASSUME Has(C, k, tag) PROVE Has(D, k, tag)
    <3>1. PICK j \in 1 .. n : k - C[j].at \in 1 .. Len(C[j].open) /\ C[j].open[k - C[j].at] = tag
      BY <2>1 DEF Has, n
    <3>2. D[j] = C[j] /\ j \in 1 .. Len(D)
      BY <1>1, <1>2
    <3> QED BY <3>1, <3>2 DEF Has
  <2>2. ASSUME Has(D, k, tag) PROVE Has(C, k, tag)
    <3>1. PICK j \in 1 .. n + 1 : k - D[j].at \in 1 .. Len(D[j].open) /\ D[j].open[k - D[j].at] = tag
      BY <1>1, <2>2 DEF Has
    <3>2. j # n + 1
      BY <1>3, <3>1
    <3>3. j \in 1 .. n
      BY <1>2, <3>2
    <3>4. D[j] = C[j]
      BY <1>1, <3>3
    <3> QED BY <3>1, <3>3, <3>4 DEF Has, n
  <2> QED BY <2>1, <2>2
<1>6. ~ Has(C, H + 1, tag)
  <2> SUFFICES ASSUME Has(C, H + 1, tag) PROVE FALSE
    OBVIOUS
  <2>1. PICK j \in 1 .. n : (H + 1) - C[j].at \in 1 .. Len(C[j].open)
    BY DEF Has, n
  <2>2. C[j].at \in Nat /\ Len(C[j].open) \in Nat /\ C[j].at + Len(C[j].open) <= H
    BY <1>4
  <2>3. (H + 1) - C[j].at <= Len(C[j].open)
    BY <1>2, <2>1, <2>2
  <2> QED BY <1>2, <2>2, <2>3
<1>7. Starts(D, tag) = Starts(C, tag)
  <2>1. Starts(D, tag) = {k \in 1 .. H + 1 : Has(D, k, tag)}
    BY <1>1 DEF Starts
  <2>2. Starts(C, tag) = {k \in 1 .. H : Has(C, k, tag)}
    BY DEF Starts, H
  <2>3. 1 .. H + 1 = (1 .. H) \cup {H + 1}
    BY <1>2
  <2> QED BY <1>5, <1>6, <2>1, <2>2, <2>3
<1> QED BY <1>7 DEF Many, D

\* The stack has just these.
LEMMA CellsAre ==
  ASSUME NEW W, NEW F, NEW C, NEW s, NEW cs, Stands(W, F, C, s, cs), NEW tag \in Tags
  PROVE  Starts(C, tag) = {k \in Len(F.stk) + 1 .. Len(s) : s[k].use = tag}
<1> DEFINE n == Len(C)
           H == Height(C)
           f == Floor(W, F)
           b == Len(F.stk)
<1>1. /\ Sound(W, C) /\ Len(s) = H /\ C[1].at = f /\ (W.anchored \/ s[f].use = "head")
      /\ f = b + IF W.anchored THEN 0 ELSE 1
  BY DEF Stands, Floor
<1>2. \A j \in 1 .. n : \A i \in 1 .. Len(C[j].open) : s[C[j].at + i].use = C[j].open[i]
  <2>1. \A j \in 1 .. n : StartsOf(C[j], s)
    BY DEF Stands
  <2> HIDE DEF n
  <2> QED BY <2>1 DEF StartsOf
<1>3. \A j \in 1 .. n - 1 : s[C[j + 1].at].use = "kept" /\ C[j + 1].at = C[j].at + Len(C[j].open) + 1
  <2>1. \A j \in 1 .. n - 1 : Waits(W, F, C[j], C[j + 1], s[C[j + 1].at])
    BY DEF Stands
  <2> HIDE DEF n
  <2> QED BY <2>1 DEF Waits
<1>4. /\ n \in Nat \ {0} /\ H \in Nat /\ f \in Nat /\ b \in Nat
      /\ H = C[n].at + Len(C[n].open)
  BY <1>1, SoundIs, StandsIs DEF Height
<1>5. \A j \in 1 .. n : C[j].at \in Nat /\ Len(C[j].open) \in Nat /\ C[j].at + Len(C[j].open) <= H
  BY <1>1, Lower
<1>6. \A j \in 1 .. n : f <= C[j].at
  <2>1. \A i, j \in 1 .. n : i < j => C[i].at + Len(C[i].open) < C[j].at
    BY <1>1 DEF Sound
  <2> HIDE DEF n, f, b, H
  <2>2. 1 \in 1 .. n
    BY <1>4
  <2> TAKE j \in 1 .. n
  <2>3. CASE j = 1
    BY <1>1, <1>4, <2>3
  <2>4. CASE j # 1
    <3>1. 1 < j
      BY <1>4, <2>4
    <3>2. C[1].at + Len(C[1].open) < C[j].at /\ C[1].at = f
      BY <1>1, <2>1, <2>2, <3>1
    <3>3. C[1].at \in Nat /\ Len(C[1].open) \in Nat /\ C[j].at \in Nat
      BY <1>5, <2>2
    <3> QED BY ONLY <3>2, <3>3
  <2> QED BY <2>3, <2>4
<1> HIDE DEF n, H, f, b
<1>7. ASSUME NEW k \in 1 .. H, Has(C, k, tag) PROVE k \in b + 1 .. H /\ s[k].use = tag
  <2>1. PICK j \in 1 .. n : k - C[j].at \in 1 .. Len(C[j].open) /\ C[j].open[k - C[j].at] = tag
    BY <1>7 DEF Has, n
  <2>2. s[C[j].at + (k - C[j].at)].use = tag
    BY <1>2, <2>1
  <2>3. C[j].at \in Nat /\ f <= C[j].at /\ b <= f
    BY <1>1, <1>4, <1>5, <1>6
  <2>4. C[j].at + (k - C[j].at) = k /\ k > C[j].at
    BY <1>5, <2>1, <2>3
  <2> QED BY <1>4, <2>2, <2>3, <2>4
<1>8. ASSUME NEW k \in b + 1 .. H, s[k].use = tag PROVE Has(C, k, tag)
  <2>0. tag # "head" /\ tag # "kept"
    BY DEF Tags
  <2>1. k > f
    <3>1. CASE W.anchored
      BY <1>1, <1>4, <3>1
    <3>2. CASE ~ W.anchored
      <4>1. f = b + 1 /\ s[f].use = "head"
        BY <1>1, <3>2
      <4>2. k # f
        BY <1>8, <2>0, <4>1
      <4> QED BY <1>4, <4>1, <4>2
    <3> QED BY <3>1, <3>2
  <2> DEFINE X == {j \in 1 .. n : k <= C[j].at + Len(C[j].open)}
  <2>2. n \in X /\ X \in SUBSET Nat
    BY <1>4
  <2>3. PICK j \in X : \A i \in X : j <= i
    <3> HIDE DEF X
    <3> QED BY <2>2, NatLeast
  <2>4. j \in 1 .. n /\ k <= C[j].at + Len(C[j].open)
    BY <2>3
  <2>5. k > C[j].at
    <3>1. CASE j = 1
      BY <1>1, <2>1, <3>1
    <3>2. CASE j # 1
      <4>1. j - 1 \in 1 .. n - 1 /\ j - 1 \in 1 .. n /\ (j - 1) + 1 = j /\ ~ (j <= j - 1)
        BY <1>4, <2>4, <3>2
      <4>2. ~ (k <= C[j - 1].at + Len(C[j - 1].open))
        BY <2>3, <4>1
      <4>3. s[C[j].at].use = "kept" /\ C[j].at = C[j - 1].at + Len(C[j - 1].open) + 1
        <5>1. s[C[(j - 1) + 1].at].use = "kept" /\ C[(j - 1) + 1].at = C[j - 1].at + Len(C[j - 1].open) + 1
          BY <1>3, <4>1
        <5> QED BY <4>1, <5>1
      <4>4. k # C[j].at
        BY <1>8, <2>0, <4>3
      <4>5. C[j - 1].at \in Nat /\ Len(C[j - 1].open) \in Nat
        BY <1>5, <4>1
      <4>6. k \in Nat
        BY <1>4
      <4> QED BY ONLY <4>2, <4>3, <4>4, <4>5, <4>6
    <3> QED BY <3>1, <3>2
  <2>6. C[j].at \in Nat /\ Len(C[j].open) \in Nat
    BY <1>5, <2>4
  <2>7. k - C[j].at \in 1 .. Len(C[j].open)
    BY <1>4, <2>4, <2>5, <2>6
  <2>8. s[C[j].at + (k - C[j].at)].use = C[j].open[k - C[j].at]
    BY <1>2, <2>4, <2>7
  <2>9. C[j].at + (k - C[j].at) = k
    BY <1>4, <2>6
  <2>10. C[j].open[k - C[j].at] = tag
    BY <1>8, <2>8, <2>9
  <2> QED BY <2>4, <2>7, <2>10 DEF Has, n
<1>9. Starts(C, tag) = {k \in 1 .. H : Has(C, k, tag)}
  BY DEF Starts, H
<1>10. \A k \in b + 1 .. H : k \in 1 .. H
  BY <1>4
<1>11. Starts(C, tag) = {k \in b + 1 .. H : s[k].use = tag}
  BY <1>7, <1>8, <1>9, <1>10
<1> QED BY <1>1, <1>11 DEF b

(* What an entry undoes.                                                   *)
\* The entry of the alternative of the ARBN in ARBNO(P).
Repeated(W, e) == e.fn = Link /\ e.or # 0 /\ W.nodes[e.owner][e.or + 1].fn = "ARBF"

LEMMA OpenedMany ==
  ASSUME NEW W, NEW C, Sound(W, C), NEW x, NEW max, Sound(W, Opened(C, x, max)), NEW tag
  PROVE  Many(Opened(C, x, max), tag) = Many(C, tag)
<1> DEFINE L == Level(x, max, Height(C) + 1)
           D == Opened(C, x, max)
<1>1. AnySeq(C) /\ D = Append(C, L)
  BY SoundIs DEF Opened
<1>2. Last(D) = L
  <2> HIDE DEF L
  <2> QED BY <1>1, AnyAppend
<1>3. Last(D) \in Levels(W)
  <2>1. Sound(W, D)
    OBVIOUS
  <2> HIDE DEF D
  <2> QED BY <2>1, SoundIs
<1>4. L.pat \in DOMAIN W.nodes /\ L.max \in Int
  <2> HIDE DEF L, D
  <2> QED BY <1>2, <1>3, LevelIs
<1>5. x \in DOMAIN W.nodes /\ max \in Int
  BY <1>4 DEF Level
<1> QED BY <1>5, ManyOpened

LEMMA JoinsMany ==
  ASSUME NEW W, NEW B, NEW top, NEW o, NEW cur, NEW C, Sound(W, B), Sound(W, C), Joins(W, B, top, o, cur, C),
         NodeOf(W, C, o).fn # "ARBF", NEW tag
  PROVE  Many(C, tag) = Many(B, tag)
<1>1. RoleOf(W, C, o) # "ARBF"
  BY DEF RoleOf, Role, NodeOf
<1>2. C = B \/ \E x, max : B = Opened(C, x, max)
  BY <1>1, Zenon DEF Joins, JoinsONAR, JoinsDSAR
<1>3. CASE C = B
  BY <1>3
<1>4. CASE \E x, max : B = Opened(C, x, max)
  <2>1. PICK x, max : B = Opened(C, x, max)
    BY <1>4
  <2>2. Many(Opened(C, x, max), tag) = Many(C, tag)
    BY <2>1, OpenedMany
  <2> QED BY <2>1, <2>2
<1> QED BY <1>2, <1>3, <1>4

\* How many starts an entry adds to those behind it, or takes from them.
Adds(W, e, tag) == IF tag = "name" THEN e.fn = "FNME" ELSE Repeated(W, e)
Takes(e, tag) == IF tag = "name" THEN e.fn \in {"DNME", "DNME1"} ELSE e.fn = "started"

LEMMA StepMany ==
  ASSUME NEW W, NEW B, NEW under2, NEW under, NEW e, NEW C, Sound(W, B), Sound(W, C),
         Step(W, B, under2, under, e, C), NEW tag \in Tags
  PROVE  Many(C, tag) = Many(B, tag) + (IF Adds(W, e, tag) THEN 1 ELSE 0)
                                     - (IF Takes(e, tag) THEN 1 ELSE 0)
<1>1. Many(B, tag) \in Nat /\ Many(C, tag) \in Nat
  BY ManyIs
<1>2. Link \notin {"SCON", "SCFL", "RTNUL3", "SUCF", "BRKXF", "FNME", "DNME", "DNME1", "started"}
  BY LinkIs
<1>3. tag = "name" \/ tag = "arbno"
  BY DEF Tags
<1>4. ASSUME ~ Adds(W, e, tag), ~ Takes(e, tag), Many(C, tag) = Many(B, tag)
      PROVE  Many(C, tag) = Many(B, tag) + (IF Adds(W, e, tag) THEN 1 ELSE 0)
                                         - (IF Takes(e, tag) THEN 1 ELSE 0)
  BY <1>1, <1>4
<1>5. CASE e.fn = Link /\ StepLink(W, B, under, e, C)
  <2>1. ~ Takes(e, tag)
    BY <1>2, <1>5 DEF Takes
  <2>2. CASE e.or = 0
    <3>1. C = B
      BY <1>5, <2>2 DEF StepLink
    <3>2. ~ Adds(W, e, tag)
      BY <1>2, <1>5, <2>2 DEF Adds, Repeated
    <3> QED BY <1>4, <2>1, <3>1, <3>2
  <2>3. CASE e.or # 0
    <3>1. /\ Joins(W, B, under, e.or, e.cur, C) /\ e.owner = Last(C).pat
          /\ RoleOf(W, C, e.or) = "ARBF" => ~ Short(W, C, e.or, e.cur)
      BY <1>5, <2>3 DEF StepLink
    <3>2. Repeated(W, e) <=> NodeOf(W, C, e.or).fn = "ARBF"
      BY <1>5, <2>3, <3>1 DEF Repeated, NodeOf
    <3>3. CASE NodeOf(W, C, e.or).fn # "ARBF"
      <4>1. Many(C, tag) = Many(B, tag)
        BY <3>1, <3>3, JoinsMany
      <4>2. ~ Adds(W, e, tag)
        BY <1>2, <1>5, <3>2, <3>3 DEF Adds
      <4> QED BY <1>4, <2>1, <4>1, <4>2
    <3>4. CASE NodeOf(W, C, e.or).fn = "ARBF"
      <4>1. RoleOf(W, C, e.or) = "ARBF"
        BY <3>4 DEF RoleOf, Role, NodeOf
      <4>2. C = Pushed(B, "arbno")
        BY <3>1, <4>1 DEF Joins, JoinsARBF
      <4>3. Many(C, tag) = Many(B, tag) + (IF "arbno" = tag THEN 1 ELSE 0)
        BY <4>2, ManyPushed DEF Tags
      <4>4. Adds(W, e, tag) <=> "arbno" = tag
        BY <1>2, <1>3, <1>5, <3>2, <3>4 DEF Adds
      <4> QED BY <1>1, <2>1, <4>3, <4>4
    <3> QED BY <3>3, <3>4
  <2> QED BY <2>2, <2>3
<1>6. CASE e.fn = "started" /\ B = Pushed(C, "arbno")
  <2>1. Many(B, tag) = Many(C, tag) + (IF "arbno" = tag THEN 1 ELSE 0)
    BY <1>6, ManyPushed DEF Tags
  <2>2. ~ Adds(W, e, tag) /\ (Takes(e, tag) <=> "arbno" = tag)
    BY <1>2, <1>3, <1>6 DEF Adds, Takes, Repeated
  <2> QED BY <1>1, <2>1, <2>2
<1>7. CASE e.fn = "FNME" /\ C = Pushed(B, "name")
  <2>1. Many(C, tag) = Many(B, tag) + (IF "name" = tag THEN 1 ELSE 0)
    BY <1>7, ManyPushed DEF Tags
  <2>2. (Adds(W, e, tag) <=> "name" = tag) /\ ~ Takes(e, tag)
    BY <1>2, <1>3, <1>7 DEF Adds, Takes, Repeated
  <2> QED BY <1>1, <2>1, <2>2
<1>8. CASE e.fn \in {"DNME", "DNME1"} /\ B = Pushed(C, "name")
  <2>1. Many(B, tag) = Many(C, tag) + (IF "name" = tag THEN 1 ELSE 0)
    BY <1>8, ManyPushed DEF Tags
  <2>2. ~ Adds(W, e, tag) /\ (Takes(e, tag) <=> "name" = tag)
    BY <1>2, <1>3, <1>8 DEF Adds, Takes, Repeated
  <2> QED BY <1>1, <2>1, <2>2
<1>9. CASE e.fn = "SCFL" /\ C = Opened(B, Last(C).pat, Last(C).max)
  <2>1. Many(C, tag) = Many(B, tag)
    <3> DEFINE x == Last(C).pat
               max == Last(C).max
    <3>1. C = Opened(B, x, max)
      BY <1>9
    <3> HIDE DEF x, max
    <3> QED BY <3>1, OpenedMany
  <2>2. ~ Adds(W, e, tag) /\ ~ Takes(e, tag)
    BY <1>2, <1>9 DEF Adds, Takes, Repeated
  <2> QED BY <1>4, <2>1, <2>2
<1>10. CASE e.fn \in {"RTNUL3", "SUCF", "BRKXF"} /\ C = B
  <2>1. ~ Adds(W, e, tag) /\ ~ Takes(e, tag)
    BY <1>2, <1>10 DEF Adds, Takes, Repeated
  <2> QED BY <1>4, <1>10, <2>1
<1> QED BY <1>5, <1>6, <1>7, <1>8, <1>9, <1>10 DEF Step, StepSUCF, StepBRKXF

LEMMA HistoryMany ==
  ASSUME NEW W, NEW F, NEW h, NEW B, Leads(W, F, h, B), NEW tag \in Tags
  PROVE  Many(B, tag) = Cardinality({k \in Bot(F) .. Len(h) : Adds(W, h[k], tag)})
                          - Cardinality({k \in Bot(F) .. Len(h) : Takes(h[k], tag)})
<1> DEFINE b == Bot(F)
           n == Len(h)
           X == {k \in b .. n : Adds(W, h[k], tag)}
           Y == {k \in b .. n : Takes(h[k], tag)}
<1>1. PICK G : Steps(W, F, h, G) /\ B = G[n]
  BY DEF Leads
<1>2. b \in Nat \ {0} /\ n \in Nat /\ b <= n
  BY LeadsIs
<1>3. /\ \A k \in b .. n : Sound(W, G[k])
      /\ Bottom(W, F, h, G)
      /\ \A k \in b + 1 .. n : Step(W, G[k - 1], Under(F, h, k - 1), h[k - 1], h[k], G[k])
  BY <1>1 DEF Steps
<1>4. h[b].fn \in {"SCFL", "SCON"} /\ Len(G[b]) = 1 /\ G[b][1].open = <<>>
  BY <1>3 DEF Bottom
<1> DEFINE f == [k \in b .. n |-> Many(G[k], tag)]
<1> HIDE DEF b, n
<1>5. \A k \in b .. n : f[k] \in Int
  BY <1>3, ManyIs
<1>6. f[b] = 0
  <2>1. Sound(W, G[b]) /\ f[b] = Many(G[b], tag)
    BY <1>2, <1>3
  <2>2. \A k : ~ Has(G[b], k, tag)
    <3>1. Len(<<>>) = 0
      OBVIOUS
    <3>2. \A j \in 1 .. 1 : 1 .. Len(G[b][j].open) = {}
      BY <1>4, <3>1
    <3> QED BY <1>4, <3>2 DEF Has
  <2>3. Starts(G[b], tag) = {}
    BY <2>2 DEF Starts
  <2> QED BY <2>1, <2>3, FS_EmptySet DEF Many
<1>7. b \notin X /\ b \notin Y
  BY <1>4, LinkIs DEF Adds, Takes, Repeated
<1>8. X \subseteq b + 1 .. n /\ Y \subseteq b + 1 .. n
  <2>1. X \subseteq b .. n /\ Y \subseteq b .. n
    OBVIOUS
  <2> HIDE DEF X, Y
  <2> QED BY <1>2, <1>7, <2>1
<1>9. ASSUME NEW k \in b + 1 .. n
      PROVE  f[k] = f[k - 1] + (IF k \in X THEN 1 ELSE 0) - (IF k \in Y THEN 1 ELSE 0)
  <2>1. k \in b .. n /\ k - 1 \in b .. n
    BY <1>2
  <2>2. Step(W, G[k - 1], Under(F, h, k - 1), h[k - 1], h[k], G[k])
    BY <1>3
  <2>3. Sound(W, G[k - 1]) /\ Sound(W, G[k])
    BY <1>3, <2>1
  <2>4. Many(G[k], tag) = Many(G[k - 1], tag) + (IF Adds(W, h[k], tag) THEN 1 ELSE 0)
                                              - (IF Takes(h[k], tag) THEN 1 ELSE 0)
    BY <2>2, <2>3, StepMany
  <2>5. (k \in X <=> Adds(W, h[k], tag)) /\ (k \in Y <=> Takes(h[k], tag))
    BY <2>1
  <2>6. f[k] = Many(G[k], tag) /\ f[k - 1] = Many(G[k - 1], tag)
    BY <2>1
  <2> HIDE DEF X, Y, f
  <2> QED BY <2>4, <2>5, <2>6
<1>10. f[n] = Cardinality(X) - Cardinality(Y)
  <2> HIDE DEF X, Y, f
  <2>1. b \in Nat /\ n \in Nat /\ b <= n
    BY <1>2
  <2>2. \A k \in b + 1 .. n : f[k] = f[k - 1] + (IF k \in X THEN 1 ELSE 0) - (IF k \in Y THEN 1 ELSE 0)
    BY <1>9
  <2>3. X \subseteq b + 1 .. n /\ Y \subseteq b + 1 .. n
    BY <1>8
  <2>4. (\A k \in b .. n : f[k] \in Int) /\ f[b] = 0
    BY <1>5, <1>6
  <2>5. Counts(b, n, X, Y, f)
    BY ONLY <2>1, <2>2, <2>3, <2>4, Zenon DEF Counts
  <2> QED BY ONLY <2>5, Counting
<1>11. f[n] = Many(B, tag)
  BY <1>1, <1>2
<1> HIDE DEF f
<1> QED BY <1>10, <1>11 DEF b, n

LEMMA HistoryUndoesHolds ==
  ASSUME IInv
  PROVE  HistoryUndoes
<1> SUFFICES ASSUME todo = "node", OnNode.fn # "ARBF"
             PROVE  /\ Cells("name") = Entries({"FNME"}) - Entries({"DNME", "DNME1"})
                    /\ Cells("arbno") = ArbnoEntries - Entries({"started"})
                    /\ Len(named) - r.NHEDCL = Entries({"DNME"})
  BY DEF HistoryUndoes
<1>1. PICK W, F, C : On(W, F, C)
  BY InMatching, MatchingIs
<1>2. /\ Worlds(W) /\ MatchAt(W, F, hist, stk, calls, named, r, "node", C) /\ Ours(W, F, r)
      /\ Situation(W) /\ Suspended(problem, W, F) /\ CallsOf(F, calls) /\ Sound(W, C)
      /\ W.nodes = mem /\ OnNode = NodeOf(W, C, r.PATICL) /\ Stands(W, F, C, stk, calls)
  BY <1>1, OnIs
<1>3. Joining(W, F, hist, named, r, C)
  <2>1. Phase(W, F, hist, named, r, "node", C)
    BY <1>2, MatchIs
  <2> QED BY <2>1, Phases
<1>4. PICK B : Held(W, F, hist, named, B) /\ Joins(W, B, Last(hist), r.PATICL, r.TXSP, C)
  BY <1>3 DEF Joining
<1>5. Sound(W, B) /\ Leads(W, F, hist, B)
  BY <1>4, HeldIs
<1>6. Own = Bot(F) .. Len(hist) /\ r.NHEDCL = Len(F.named)
  BY <1>2 DEF Own, Ours, Of, Bot
<1>7. ASSUME NEW tag \in Tags
      PROVE  Cells(tag) = Cardinality({k \in Own : Adds(W, hist[k], tag)})
                            - Cardinality({k \in Own : Takes(hist[k], tag)})
  <2>1. Many(C, tag) = Many(B, tag)
    BY <1>2, <1>4, <1>5, JoinsMany
  <2>2. Many(B, tag) = Cardinality({k \in Bot(F) .. Len(hist) : Adds(W, hist[k], tag)})
                         - Cardinality({k \in Bot(F) .. Len(hist) : Takes(hist[k], tag)})
    BY <1>5, HistoryMany
  <2>3. Starts(C, tag) = {k \in Len(F.stk) + 1 .. Len(stk) : stk[k].use = tag}
    BY <1>2, CellsAre
  <2>4. (IF Inside THEN calls[LastInner].at ELSE 0) = Len(F.stk)
    <3>1. /\ Inside <=> F.calls # <<>>
          /\ Inside => calls[LastInner].at = Len(F.stk)
      BY <1>2, Where
    <3>2. CASE Inside
      BY <3>1, <3>2
    <3>3. CASE ~ Inside
      <4>1. F = Nothing
        BY <1>2, <3>1, <3>3, SuspendedIs
      <4>2. Len(F.stk) = 0
        BY <4>1 DEF Nothing
      <4> QED BY <3>3, <4>2
    <3> QED BY <3>2, <3>3
  <2>5. Cells(tag) = Many(C, tag)
    BY <2>3, <2>4 DEF Cells, Many
  <2> QED BY <1>6, <2>1, <2>2, <2>5
<1>8. Cells("name") = Entries({"FNME"}) - Entries({"DNME", "DNME1"})
  <2>1. "name" \in Tags
    BY DEF Tags
  <2>2. {k \in Own : Adds(W, hist[k], "name")} = {k \in Own : hist[k].fn \in {"FNME"}}
    BY DEF Adds
  <2>3. {k \in Own : Takes(hist[k], "name")} = {k \in Own : hist[k].fn \in {"DNME", "DNME1"}}
    BY DEF Takes
  <2> QED BY <1>7, <2>1, <2>2, <2>3 DEF Entries
<1>9. Cells("arbno") = ArbnoEntries - Entries({"started"})
  <2>1. "arbno" \in Tags
    BY DEF Tags
  <2>2. {k \in Own : Adds(W, hist[k], "arbno")}
          = {k \in Own : hist[k].fn = Link /\ hist[k].or # 0 /\ mem[hist[k].owner][hist[k].or + 1].fn = "ARBF"}
    BY <1>2 DEF Adds, Repeated
  <2>3. {k \in Own : Takes(hist[k], "arbno")} = {k \in Own : hist[k].fn \in {"started"}}
    BY DEF Takes
  <2> QED BY <1>7, <2>1, <2>2, <2>3 DEF Entries, ArbnoEntries
<1>10. Len(named) - r.NHEDCL = Entries({"DNME"})
  <2>1. Len(named) = Len(F.named) + Cardinality(OwnWith(F, hist, {"DNME"})) /\ Prefix(F.hist, hist)
    BY <1>4, <1>5, LeadsIs DEF Held, NamedBy
  <2>2. OwnWith(F, hist, {"DNME"}) = {k \in Own : hist[k].fn \in {"DNME"}}
    BY <1>6 DEF OwnWith
  <2>3. Cardinality(OwnWith(F, hist, {"DNME"})) \in Nat /\ Len(F.named) \in Nat
    BY <1>4, <2>1, OwnAppended, HeldIs
  <2> DEFINE x == Entries({"DNME"})
  <2>4. Len(named) = Len(F.named) + x /\ x \in Nat
    BY <2>1, <2>2, <2>3 DEF Entries
  <2> HIDE DEF x
  <2>5. Len(named) - r.NHEDCL = x
    BY <1>6, <2>3, <2>4
  <2> QED BY <2>5 DEF x
<1> QED BY <1>8, <1>9, <1>10

-----------------------------------------------------------------------------
(* The patterns of the statements, and the values of names, are made as the *)
(* procedures of PatternNodes make them.                                    *)

PatternsBuilt ==
    /\ \A x \in Names : Built(Values[x])
    /\ \A p \in Problems : Built(Compiled(p.pattern)) /\ Built(Compiled(p.inner.pattern))

PatternsGood ==
    /\ \A x \in Names : Good(Values[x])
    /\ \A p \in Problems : Good(Compiled(p.pattern)) /\ Good(Compiled(p.inner.pattern))

LEMMA BuiltIsGood ==
  ASSUME PatternsBuilt
  PROVE  PatternsGood
  BY BuiltGood DEF PatternsBuilt, PatternsGood

-----------------------------------------------------------------------------
(* The invariant holds initially, when the patterns are good.               *)

LEMMA IInvInit ==
  ASSUME PatternsGood, Init
  PROVE  IInv
<1> DEFINE N == [p \in Names \cup Statements |->
                   CASE p = "outer" -> Compiled(problem.pattern)
                     [] p = "inner" -> Compiled(problem.inner.pattern)
                     [] OTHER -> Values[p]]
           O == [p \in Names \cup Statements |-> CHOOSE c : \E A : GoodPattern(N[p], c, A)]
           W == [nodes |-> N, open |-> O, quick |-> Quick, anchored |-> problem.anchored]
<1>1. /\ problem \in Problems /\ mem = N /\ now = [x \in Names |-> x]
      /\ r = [PATBCL |-> "outer", PATICL |-> 0, then |-> 0, res |-> 0, LENFCL |-> TRUE,
              MAXLEN |-> 0, TXSP |-> 0, HEADSP |-> 0, XSP |-> <<>>, TCL |-> 0,
              PDLHED |-> 0, NHEDCL |-> 0]
      /\ hist = <<>> /\ stk = <<>> /\ calls = <<>> /\ named = <<>> /\ todo = "SCNR"
  BY DEF Init
<1>2. DOMAIN N = Names \cup Statements /\ N = [p \in Names \cup Statements |-> N[p]]
  OBVIOUS
<1>3. ASSUME NEW p \in Names \cup Statements PROVE Good(N[p])
  <2>1. CASE p = "outer"
    <3>1. N[p] = Compiled(problem.pattern)
      BY <2>1
    <3> HIDE DEF N
    <3> QED BY <1>1, <3>1 DEF PatternsGood
  <2>2. CASE p = "inner"
    <3>1. N[p] = Compiled(problem.inner.pattern)
      BY <2>2
    <3> HIDE DEF N
    <3> QED BY <1>1, <3>1 DEF PatternsGood
  <2>3. CASE p \notin Statements
    <3>1. N[p] = Values[p] /\ p \in Names
      BY <2>3 DEF Statements
    <3> HIDE DEF N
    <3> QED BY <3>1 DEF PatternsGood
  <2> QED BY <2>1, <2>2, <2>3 DEF Statements
<1> HIDE DEF N
<1>4. ASSUME NEW p \in Names \cup Statements PROVE \E A : GoodPattern(N[p], O[p], A)
  <2>1. \E c, A : GoodPattern(N[p], c, A)
    BY <1>3 DEF Good
  <2>2. O[p] = CHOOSE c : \E A : GoodPattern(N[p], c, A)
    OBVIOUS
  <2> HIDE DEF O
  <2> QED BY <2>1, <2>2, Zenon
<1> HIDE DEF O
<1>5. W.nodes = N /\ W.open = O /\ W.quick = Quick /\ W.anchored = problem.anchored
  OBVIOUS
<1> HIDE DEF W
<1>6. Quick \in BOOLEAN /\ problem.anchored \in BOOLEAN
  BY <1>1, ProblemIs DEF Quick
<1>7. Worlds(W)
  <2>1. Names \subseteq DOMAIN W.nodes
    BY <1>2, <1>5
  <2>2. \A p \in DOMAIN W.nodes : \E A : GoodPattern(W.nodes[p], W.open[p], A)
    BY <1>2, <1>4, <1>5
  <2> QED BY <1>5, <1>6, <2>1, <2>2 DEF Worlds
<1>8. Situation(W)
  BY <1>1, <1>2, <1>5, <1>7 DEF Situation
<1>9. Suspended(problem, W, Nothing)
  BY DEF Suspended
<1>10. Ours(W, Nothing, r)
  <2>1. "outer" \in DOMAIN W.nodes
    BY <1>2, <1>5 DEF Statements
  <2>2. <<>> \in AllSubjects
    BY DEF AllSubjects
  <2>3. r \in Registers(W)
    <3> DEFINE x == <<>>
    <3>1. r = [PATBCL |-> "outer", PATICL |-> 0, then |-> 0, res |-> 0, LENFCL |-> TRUE,
               MAXLEN |-> 0, TXSP |-> 0, HEADSP |-> 0, XSP |-> x, TCL |-> 0, PDLHED |-> 0, NHEDCL |-> 0]
      BY <1>1
    <3>2. x \in AllSubjects
      BY <2>2
    <3> HIDE DEF x
    <3> QED BY <2>1, <3>1, <3>2 DEF Registers
  <2>4. r.PDLHED = 0 /\ r.NHEDCL = 0
    BY <1>1
  <2>5. Len(Nothing.hist) = 0 /\ Len(Nothing.named) = 0
    BY DEF Nothing
  <2> QED BY <2>3, <2>4, <2>5 DEF Ours, Of
<1>11. Begins(W, Nothing, hist, stk, calls, named, r)
  <2>1. AnySeq(<<>>)
    <3>1. <<>> \in Seq({})
      OBVIOUS
    <3> QED BY <3>1 DEF AnySeq
  <2>2. Prefix(<<>>, <<>>)
    BY <2>1, PrefixSelf
  <2> QED BY <1>1, <1>10, <2>2 DEF Begins, Nothing
<1>12. Running(problem, W, Nothing, hist, stk, calls, named, r, todo)
  BY <1>1, <1>11 DEF Running
<1> QED BY <1>8, <1>9, <1>12 DEF IInv

-----------------------------------------------------------------------------
(* Theorems.  X keeps its value while a match evaluates *X (AfterConstant): *)
(* its DSAR would take the characters of another one.                       *)

LEMMA IInvAlways ==
  ASSUME PatternsBuilt, AfterConstant
  PROVE  Spec => []IInv
<1>1. PatternsGood
  BY BuiltIsGood
<1> DEFINE Residual == TMVAL \in Int
<1>2. Init => IInv /\ Residual
  BY <1>1, IInvInit DEF Init
<1>3. (IInv /\ Residual) /\ [Next]_vars => (IInv /\ Residual)'
  BY IInvStep, ResidualKept
<1> HIDE DEF Residual
<1> QED BY <1>2, <1>3, PTL DEF Spec

\* What is popped from the data stack was pushed for what pops it: SCON, FNME, ENMEX,
\* DNME, FARBN, EARB, ONARX and DSARX find their own start there.
THEOREM StackIsOwned == (PatternsBuilt /\ AfterConstant) => (Spec => []StackOwned)
<1> SUFFICES ASSUME PatternsBuilt, AfterConstant PROVE Spec => []StackOwned
  OBVIOUS
<1>1. Spec => []IInv
  BY IInvAlways
<1>2. IInv => StackOwned
  BY StackOwnedHolds
<1> QED BY <1>1, <1>2, PTL

\* What SALT and SALF take from the history list is of this statement, and a link on it
\* is to a node of the pattern that it was put there for.
THEOREM LinksAreOwned == (PatternsBuilt /\ AfterConstant) => (Spec => []LinksOwned)
<1> SUFFICES ASSUME PatternsBuilt, AfterConstant PROVE Spec => []LinksOwned
  OBVIOUS
<1>1. Spec => []IInv
  BY IInvAlways
<1>2. IInv => LinksOwned
  BY LinksOwnedHolds
<1> QED BY <1>1, <1>2, PTL

\* At every node there is one entry on the history list for each start on the stack
\* and each name on the name list, to take it off again.
THEOREM HistoryAlwaysUndoes == (PatternsBuilt /\ AfterConstant) => (Spec => []HistoryUndoes)
<1> SUFFICES ASSUME PatternsBuilt, AfterConstant PROVE Spec => []HistoryUndoes
  OBVIOUS
<1>1. Spec => []IInv
  BY IInvAlways
<1>2. IInv => HistoryUndoes
  BY HistoryUndoesHolds
<1> QED BY <1>1, <1>2, PTL
=============================================================================
