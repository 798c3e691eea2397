---------------------------- MODULE Interp_proofs ----------------------------
(* Theorems about Interp, for every set of names, definitions and labels.  *)
EXTENDS Interp, SequenceTheorems, FiniteSetTheorems, TLAPS

-----------------------------------------------------------------------------
(* The C stack and the data stack.                                         *)

Procs == {"INTERP", "DEFFNC", "EXPVAL", "TRPHND"}
ProcFrames == [proc : Procs, base : Nat]

ArgCells == [XCL : Int, WCL : Nat, YPTR : Nat]
ExprCells == [pos : Positions, XCL : Int]
TraceCells == [pos : Positions, trace : Nat]
CallCells == [pos : Positions, defn : Defs]

(* The cells b + 1 .. n of s are those of an argument loop with counters a. *)
Loop(a, b, n, s) ==
    /\ a \in ArgCells /\ a.YPTR = b /\ a.XCL \in 0 .. a.WCL
    /\ n = b + 1 + a.WCL - a.XCL
    /\ \A j \in b + 1 .. n : s[j] \in Values

(* The cells b + 1 .. n of s are those of a call in progress.              *)
Slots(b, n, s) ==
    /\ s[n] \in CallCells /\ n = b + Len(Bound(s[n].defn)) + 1
    /\ \A j \in b + 1 .. n - 1 : s[j] \in Values

(* The counters on top of the argument loop's cells, around an argument.   *)
Around(b, n, s) == s[n].XCL >= 1 /\ Loop(s[n], b, n - 1, s)

(* What procedure i of the C stack c waits for, and has left on s.         *)
Waits(c, s, i) ==
    LET b == c[i].base
        n == c[i + 1].base
        up == c[i + 1].proc
    IN  \/ c[i].proc = "INTERP" /\ up # "INTERP" /\ n = b
        \/ /\ c[i].proc = "EXPVAL" /\ up \in {"DEFFNC", "EXPVAL"}
           /\ n = b + 1 /\ s[n] \in ExprCells
        \/ /\ c[i].proc = "TRPHND" /\ up = "DEFFNC"
           /\ n = b + 1 /\ s[n] \in TraceCells
        \/ c[i].proc = "DEFFNC" /\ up = "INTERP" /\ Slots(b, n, s)
        \/ c[i].proc = "DEFFNC" /\ up \in {"DEFFNC", "EXPVAL"} /\ Around(b, n, s)

(* What the running procedure has on the data stack.                       *)
Runs ==
    LET b == Top.base
        n == Len(stk)
        ret(rcs) == todo.op = "ret" /\ todo.rc \in rcs
    IN  \/ Top.proc = "INTERP" /\ n = b /\ todo.op \in {"fetch", "ret"}
        \/ /\ Top.proc = "EXPVAL" /\ n = b + 1 /\ stk[n] \in ExprCells
           /\ todo.op = "fetch" \/ ret(1 .. 3)
        \/ /\ Top.proc = "TRPHND" /\ n = b + 1 /\ stk[n] \in TraceCells
           /\ todo.op = "fetch" \/ ret(1 .. 3)
        \/ /\ Top.proc = "DEFFNC" /\ todo.op \in {"fetch", "enter"}
           /\ Loop(args, b, n, stk) /\ (args.XCL = 0 <=> todo.op = "enter")
        \/ Top.proc = "DEFFNC" /\ ret({1}) /\ b <= n
        \/ Top.proc = "DEFFNC" /\ ret({2, 3}) /\ Around(b, n, stk)
        \/ Top.proc = "DEFFNC" /\ ret(4 .. 6) /\ Slots(b, n, stk)

Stacked(c, s) ==
    /\ c[1] = [proc |-> "INTERP", base |-> 0]
    /\ \A i, j \in 1 .. Len(c) : i <= j => c[i].base <= c[j].base
    /\ \A i \in 1 .. Len(c) - 1 : Waits(c, s, i)

Frames ==
    /\ Stacked(ctl, stk)
    /\ todo.op = "stop" \/ Runs
    /\ todo.op = "ret" /\ todo.rc = 2 => todo.v \in Names

-----------------------------------------------------------------------------
(* Positions.                                                              *)

(* Code of an expression or a trace call runs above procedure n, in no     *)
(* function's body.                                                        *)
Level(c, h, n) == \A k \in h + 1 .. n : c[k].proc # "INTERP"
Within(c, n) == \E h \in 1 .. n : c[h].proc \in {"EXPVAL", "TRPHND"} /\ Level(c, h, n)

SameStatement(p, q) == p.STNOCL = q.STNOCL /\ p.FRTNCL = q.FRTNCL

(* The failure exit of p is that of the statement it names.                *)
ExitAgrees(block, frtn, stno) ==
    block # Expr /\ block = stno[1] /\ frtn = (stno[2] + 1) * StmtLen

(* The cell procedure i of the C stack c has on top of its part of s.      *)
KeptOf(c, s, i) == s[IF i < Len(c) THEN c[i + 1].base ELSE Len(s)]

(* Expressions around position p of level n have left p's statement alone. *)
Undisturbed(c, s, n, p) ==
    \A h \in 1 .. n : c[h].proc = "EXPVAL" /\ Level(c, h, n) =>
                        SameStatement(p, KeptOf(c, s, h).pos)

(* A trace around level n was called between two statements.               *)
Between(c, s, n) ==
    \E h \in 1 .. n : /\ c[h].proc = "TRPHND" /\ Level(c, h, n)
                      /\ KeptOf(c, s, h).pos.OCICL % StmtLen = 0

(* Procedure i of the C stack c is in a body, with t to do.                *)
BodyOf(c, t, i) ==
    /\ c[i].proc = "DEFFNC"
    /\ IF i < Len(c) THEN c[i + 1].proc = "INTERP" ELSE t.op = "ret" /\ t.rc > 3

Keeper(c, t, i) == c[i].proc \in {"EXPVAL", "TRPHND"} \/ BodyOf(c, t, i)

(* The position that procedure i has kept.                                 *)
KeptRight(c, s, i) ==
    LET p == KeptOf(c, s, i).pos
    IN  /\ IF Within(c, i - 1) THEN p.OCBSCL = Expr
           ELSE /\ p.OCBSCL # Expr
                /\ \/ Agree(p)
                   \/ c[i].proc = "TRPHND" /\ p.OCICL % StmtLen = 0
        /\ Undisturbed(c, s, i - 1, p)

(* The position p of the procedure that runs on level n, with t to do and  *)
(* the handler e to enter.                                                 *)
PosRight(c, s, n, t, p, e) ==
    IF Within(c, n)
    THEN t.op \in {"fetch", "enter"} \/ t.rc <= 3 =>
               p.OCBSCL = Expr /\ Undisturbed(c, s, n, p)
    ELSE /\ t.op \in {"fetch", "enter"} =>
               /\ p.OCBSCL # Expr
               /\ Agree(p) \/ (c[n].proc = "INTERP" /\ p.OCICL % StmtLen = 0)
         /\ t.op = "ret" /\ t.rc \in {2, 3} => p.OCBSCL # Expr /\ Agree(p)
         /\ t.op = "ret" /\ t.rc = 1 /\ e = None =>
               ExitAgrees(p.OCBSCL, p.FRTNCL, p.STNOCL)

XitRight(x) == x.ocbs \notin NoBlocks => ExitAgrees(x.ocbs, x.frtn, x.stno)

(* The program has not met what makes the registers wrong: an end that is  *)
(* trapped, SCONTINUE, CONTINUE outside a handler, a goto to no label that *)
(* no handler is told of.                                                  *)
Tracked(e) == /\ ~e /\ "resume" \notin Defects /\ "stray" \notin Defects
              /\ "undefined" \notin Defects

Placed ==
    Tracked(ended) =>
        /\ \A i \in 1 .. Len(ctl) :
              Keeper(ctl, todo, i) /\ (i < Len(ctl) \/ todo.op # "stop") =>
                  KeptRight(ctl, stk, i)
        /\ todo.op # "stop" => PosRight(ctl, stk, Len(ctl), todo, pos, entering)
        /\ XitRight(xit)

(* The handler e that was chosen is still to be entered.                   *)
Awaits(c, s, n, t, p, e) ==
    \/ /\ t.op = "ret" /\ t.rc = 1 /\ ~Within(c, n)
       /\ p.OCBSCL = e /\ p.FRTNCL = 0 /\ e # Expr
    \/ t.op = "fetch" /\ c[n].proc = "INTERP" /\ p.OCICL % StmtLen = 0
    \/ (t.op \in {"fetch", "enter"} \/ t.rc <= 3) /\ Between(c, s, n)

Pending ==
    (entering # None /\ todo.op # "stop") =>
        Awaits(ctl, stk, Len(ctl), todo, pos, entering)

Ranked == \A k \in 1 .. LVLCL : \E i \in Bodies : Cardinality({j \in Bodies : j <= i}) = k

IInv == TypeOK /\ Frames /\ LevelIsDepth /\ Ranked /\ Placed /\ Pending

-----------------------------------------------------------------------------
(* Sequences as both stacks use them.                                      *)

LEMMA Appended ==
  ASSUME NEW S, NEW s \in Seq(S), NEW e \in S
  PROVE  /\ Append(s, e) \in Seq(S) /\ Append(s, e) # <<>>
         /\ Len(Append(s, e)) = Len(s) + 1
         /\ \A i \in 1 .. Len(s) : Append(s, e)[i] = s[i]
         /\ Append(s, e)[Len(s) + 1] = e
BY AppendProperties

LEMMA Cut ==
  ASSUME NEW S, NEW s \in Seq(S), NEW n \in 0 .. Len(s)
  PROVE  /\ SubSeq(s, 1, n) \in Seq(S)
         /\ Len(SubSeq(s, 1, n)) = n
         /\ \A i \in 1 .. n : SubSeq(s, 1, n)[i] = s[i]
<1>1. \A i \in 1 .. n : s[i] \in S
  BY ElementOfSeq
<1> QED BY <1>1, SubSeqProperties, Z3

(* A set of naturals has a least element, a bounded one a greatest.        *)
LEMMA MinOf ==
  ASSUME NEW S, S \subseteq Nat, S # {}
  PROVE  Min(S) \in S /\ \A j \in S : Min(S) <= j
<1> DEFINE R == {ss \in Nat \X Nat : ss[1] < ss[2]}
<1>1. IsWellFoundedOn(R, Nat)
  <2>1. OpToRel(<, Nat) = R
    BY Zenon DEF OpToRel
  <2> QED BY <2>1, NatLessThanWellFounded, Zenon
<1>2. \E i \in S : \A j \in S : ~(<<j, i>> \in R)
  <2> HIDE DEF R
  <2> QED BY <1>1, WFMin, Zenon
<1>3. \E i \in S : \A j \in S : i <= j
  <2>1. PICK i \in S : \A j \in S : ~(<<j, i>> \in R)
    BY <1>2
  <2>2. \A j \in S : ~(j < i)
    BY <2>1
  <2> QED BY <2>2
<1> QED BY <1>3 DEF Min

LEMMA MaxOf ==
  ASSUME NEW n \in Nat, NEW S, S \subseteq 1 .. n, S # {}
  PROVE  Max(S) \in S /\ \A j \in S : j <= Max(S)
<1> DEFINE T == {n - j : j \in S}
<1>1. T \subseteq Nat /\ T # {}
  <2>1. \A j \in S : n - j \in Nat
    OBVIOUS
  <2> QED BY <2>1
<1>2. PICK i \in S : Min(T) = n - i
  BY <1>1, MinOf
<1>3. ASSUME NEW j \in S PROVE i >= j
  <2>1. n - i <= n - j
    BY <1>1, <1>2, MinOf
  <2> QED BY <2>1
<1> QED BY <1>3 DEF Max

LEMMA ThreeParts ==
  ASSUME NEW S, NEW e \in S, NEW s \in Seq(S), NEW t \in Seq(S)
  PROVE  <<e>> \o s \o t \in Seq(S) /\ Len(<<e>> \o s \o t) \in Nat \ {0}
<1>1. <<e>> \in Seq(S) /\ Len(<<e>>) = 1
  OBVIOUS
<1>2. <<e>> \o s \in Seq(S) /\ Len(<<e>> \o s) = 1 + Len(s)
  BY <1>1, ConcatProperties
<1>3. /\ <<e>> \o s \o t \in Seq(S)
      /\ Len(<<e>> \o s \o t) = 1 + Len(s) + Len(t)
  BY <1>2, ConcatProperties
<1>4. Len(s) \in Nat /\ Len(t) \in Nat
  OBVIOUS
<1> QED BY <1>3, <1>4

LEMMA BoundType ==
  ASSUME NEW d \in Defs
  PROVE  Bound(d) \in Seq(Names) /\ Len(Bound(d)) \in Nat \ {0}
<1>1. d.name \in Names /\ d.args \in Seq(Names) /\ d.locals \in Seq(Names)
  BY ProgramAssumption
<1> QED BY <1>1, ThreeParts DEF Bound

-----------------------------------------------------------------------------
(* What the stacks keep when a procedure is called or returns.             *)

LEMMA WaitsAgree ==
  ASSUME NEW c, NEW s, NEW d, NEW t, NEW i,
         c[i] = d[i], c[i + 1] = d[i + 1],
         c[i].base \in Nat, c[i + 1].base \in Nat,
         \A j \in 1 .. c[i + 1].base : t[j] = s[j],
         Waits(c, s, i)
  PROVE  Waits(d, t, i)
<1> DEFINE b == c[i].base
           n == c[i + 1].base
<1>1. ASSUME Slots(b, n, s) PROVE Slots(b, n, t)
  <2>1. s[n] \in CallCells /\ n = b + Len(Bound(s[n].defn)) + 1
        /\ \A j \in b + 1 .. n - 1 : s[j] \in Values
    BY <1>1 DEF Slots
  <2>2. Len(Bound(s[n].defn)) \in Nat
    BY <2>1, BoundType DEF CallCells
  <2>3. n \in 1 .. n /\ b + 1 .. n - 1 \subseteq 1 .. n
    <3>1. b \in Nat /\ n \in Nat /\ n >= b + 1
      BY <2>1, <2>2
    <3> HIDE DEF b, n
    <3> QED BY <3>1
  <2>4. t[n] = s[n] /\ \A j \in b + 1 .. n - 1 : t[j] = s[j]
    BY <2>3
  <2> QED BY <2>1, <2>4 DEF Slots
<1>2. ASSUME Around(b, n, s) PROVE Around(b, n, t)
  <2>1. /\ s[n] \in ArgCells /\ s[n].YPTR = b /\ s[n].XCL \in 0 .. s[n].WCL
        /\ n - 1 = b + 1 + s[n].WCL - s[n].XCL
        /\ \A j \in b + 1 .. n - 1 : s[j] \in Values
        /\ s[n].XCL >= 1
    BY <1>2 DEF Around, Loop
  <2>2. s[n].WCL \in Nat /\ s[n].XCL \in Int
    BY <2>1 DEF ArgCells
  <2>3. n \in 1 .. n /\ b + 1 .. n - 1 \subseteq 1 .. n
    <3>1. b \in Nat /\ n \in Nat /\ n >= b + 1
      BY <2>1, <2>2
    <3> HIDE DEF b, n
    <3> QED BY <3>1
  <2>4. t[n] = s[n] /\ \A j \in b + 1 .. n - 1 : t[j] = s[j]
    BY <2>3
  <2> QED BY <2>1, <2>4 DEF Around, Loop
<1>3. ASSUME n = b + 1 PROVE t[n] = s[n]
  BY <1>3
<1> QED BY <1>1, <1>2, <1>3 DEF Waits

LEMMA FrameType ==
  ASSUME NEW c \in Seq(ProcFrames)
  PROVE  /\ Len(c) \in Nat
         /\ \A i \in 1 .. Len(c) : c[i].base \in Nat /\ c[i].proc \in Procs
         /\ c # <<>> => Len(c) \in Nat \ {0} /\ Len(c) \in 1 .. Len(c)
<1>1. \A i \in 1 .. Len(c) : c[i] \in ProcFrames
  BY ElementOfSeq
<1>2. \A i \in 1 .. Len(c) : c[i].base \in Nat /\ c[i].proc \in Procs
  BY <1>1 DEF ProcFrames
<1>3. Len(c) \in Nat /\ (c # <<>> => Len(c) \in Nat \ {0})
  BY EmptySeq
<1> QED BY <1>2, <1>3

LEMMA StackedKeep ==
  ASSUME NEW c \in Seq(ProcFrames) \ {<<>>}, NEW s, NEW t, Stacked(c, s),
         \A j \in 1 .. c[Len(c)].base : t[j] = s[j]
  PROVE  Stacked(c, t)
<1> SUFFICES ASSUME NEW i \in 1 .. Len(c) - 1
             PROVE  Waits(c, t, i)
  BY DEF Stacked
<1>1. /\ i \in 1 .. Len(c) /\ i + 1 \in 1 .. Len(c) /\ Len(c) \in 1 .. Len(c)
      /\ c[i].base \in Nat /\ c[i + 1].base \in Nat /\ c[Len(c)].base \in Nat
  BY FrameType
<1>2. c[i + 1].base <= c[Len(c)].base
  BY <1>1 DEF Stacked
<1>3. Waits(c, s, i) /\ \A j \in 1 .. c[i + 1].base : t[j] = s[j]
  BY <1>1, <1>2 DEF Stacked
<1> QED BY <1>1, <1>3, WaitsAgree, Z3

LEMMA StackedPush ==
  ASSUME NEW c \in Seq(ProcFrames) \ {<<>>}, NEW s, NEW t, Stacked(c, s),
         NEW f \in ProcFrames,
         \A j \in 1 .. c[Len(c)].base : t[j] = s[j],
         c[Len(c)].base <= f.base,
         Waits(Append(c, f), t, Len(c))
  PROVE  Stacked(Append(c, f), t)
<1> DEFINE d == Append(c, f)
<1>1. /\ Len(c) \in Nat \ {0} /\ Len(d) = Len(c) + 1
      /\ \A i \in 1 .. Len(c) : d[i] = c[i] /\ c[i].base \in Nat
      /\ d[Len(c) + 1] = f
  <2>1. Len(c) \in Nat \ {0} /\ \A i \in 1 .. Len(c) : c[i].base \in Nat
    BY FrameType
  <2>2. /\ Len(d) = Len(c) + 1 /\ d[Len(c) + 1] = f
        /\ \A i \in 1 .. Len(c) : d[i] = c[i]
    BY Appended
  <2> QED BY <2>1, <2>2
<1> HIDE DEF d
<1>2. ASSUME NEW i \in 1 .. Len(d), NEW j \in 1 .. Len(d), i <= j
      PROVE  d[i].base <= d[j].base
  <2>1. CASE j = Len(c) + 1 /\ i \in 1 .. Len(c)
    <3>1. c[i].base <= c[Len(c)].base
      BY <1>1, <2>1 DEF Stacked
    <3> QED BY <3>1, <2>1, <1>1 DEF ProcFrames
  <2>2. CASE j \in 1 .. Len(c)
    BY <2>2, <1>1, <1>2 DEF Stacked
  <2> QED BY <2>1, <2>2, <1>1, <1>2 DEF ProcFrames
<1>3. ASSUME NEW i \in 1 .. Len(c) - 1
      PROVE  Waits(d, t, i)
  <2>1. i \in 1 .. Len(c) /\ i + 1 \in 1 .. Len(c) /\ Len(c) \in 1 .. Len(c)
    BY <1>1
  <2>2. c[i + 1].base <= c[Len(c)].base
    BY <2>1, <1>1 DEF Stacked
  <2>3. Waits(c, s, i) /\ \A j \in 1 .. c[i + 1].base : t[j] = s[j]
    BY <1>1, <2>1, <2>2 DEF Stacked
  <2>4. c[i] = d[i] /\ c[i + 1] = d[i + 1] /\ c[i].base \in Nat /\ c[i + 1].base \in Nat
    BY <1>1, <2>1
  <2> QED BY <2>3, <2>4, WaitsAgree, Z3
<1>4. d[1] = [proc |-> "INTERP", base |-> 0]
  BY <1>1 DEF Stacked
<1> QED BY <1>1, <1>2, <1>3, <1>4 DEF Stacked, d

LEMMA StackedPop ==
  ASSUME NEW c \in Seq(ProcFrames), NEW s, NEW t, Stacked(c, s), Len(c) > 1,
         \A j \in 1 .. c[Len(c)].base : t[j] = s[j]
  PROVE  Stacked(SubSeq(c, 1, Len(c) - 1), t)
<1> DEFINE d == SubSeq(c, 1, Len(c) - 1)
<1>1. /\ Len(c) \in Nat \ {0, 1} /\ Len(d) = Len(c) - 1
      /\ \A i \in 1 .. Len(c) - 1 : d[i] = c[i]
      /\ \A i \in 1 .. Len(c) : c[i].base \in Nat
  <2>1. Len(c) \in Nat \ {0, 1} /\ \A i \in 1 .. Len(c) : c[i].base \in Nat
    BY FrameType
  <2>2. Len(c) - 1 \in 0 .. Len(c)
    BY <2>1
  <2>3. Len(d) = Len(c) - 1 /\ \A i \in 1 .. Len(c) - 1 : d[i] = c[i]
    BY <2>2, Cut
  <2> QED BY <2>1, <2>3
<1> HIDE DEF d
<1>2. ASSUME NEW i \in 1 .. Len(d) - 1
      PROVE  Waits(d, t, i)
  <2>1. i \in 1 .. Len(c) - 1 /\ i + 1 \in 1 .. Len(c) - 1 /\ Len(c) \in 1 .. Len(c)
    BY <1>1
  <2>2. c[i + 1].base <= c[Len(c)].base
    BY <2>1, <1>1 DEF Stacked
  <2>3. Waits(c, s, i) /\ \A j \in 1 .. c[i + 1].base : t[j] = s[j]
    BY <1>1, <2>1, <2>2 DEF Stacked
  <2>4. c[i] = d[i] /\ c[i + 1] = d[i + 1] /\ c[i].base \in Nat /\ c[i + 1].base \in Nat
    BY <1>1, <2>1
  <2> QED BY <2>3, <2>4, WaitsAgree, Z3
<1>3. d[1] = c[1] /\ \A i \in 1 .. Len(d) : d[i] = c[i] /\ i \in 1 .. Len(c)
  BY <1>1
<1>4. \A i, j \in 1 .. Len(d) : i <= j => d[i].base <= d[j].base
  BY <1>3 DEF Stacked
<1> QED BY <1>2, <1>3, <1>4 DEF Stacked, d

-----------------------------------------------------------------------------
(* Type correctness, in two halves: the cells of the running procedure and *)
(* the stacks.                                                             *)

XitType == [ptr : Labels \cup {None}, ocbs : Blocks \cup NoBlocks, ocic : Nat,
            frtn : Nat, stno : Blocks \X Nat, typ : Nat]
TodoType == [op : {"fetch", "enter", "ret", "stop"}, rc : 1 .. 6, v : Values]

Regs == /\ pos \in Positions
        /\ xit \in XitType
        /\ err \in [typ : Nat, fatal : BOOLEAN]
        /\ lim \in [st : Nat, err : Nat, ftl : Nat, trace : Nat]
        /\ todo \in TodoType
        /\ entering \in Labels \cup {None} /\ ended \in BOOLEAN

Stacks == /\ value \in [Names -> Values] /\ defn \in Defs
          /\ stk \in Seq(Cells)
          /\ ctl \in Seq(ProcFrames) \ {<<>>}
          /\ args \in ArgCells
          /\ LVLCL \in Nat

LEMMA TypeSplit == TypeOK <=> Regs /\ Stacks
BY DEF TypeOK, Regs, Stacks, XitType, TodoType, ProcFrames, Procs, ArgCells

LEMMA StepType ==
  ASSUME Regs
  PROVE  /\ Step \in Positions
         /\ Step.OCBSCL = pos.OCBSCL /\ Step.STNOCL = pos.STNOCL
         /\ Step.FRTNCL = pos.FRTNCL
         /\ Step.OCICL = IF pos.OCICL % StmtLen = 2 THEN pos.OCICL ELSE pos.OCICL + 1
BY DEF Regs, Positions, Step, StmtLen

LEMMA RaiseType ==
  ASSUME Regs, NEW typ \in Nat, NEW fatal \in BOOLEAN, NEW p \in Positions,
         Raise(typ, fatal, p), UNCHANGED ended
  PROVE  Regs' /\ (todo'.op = "stop" \/ todo' = Ret(1, Null))
<1>1. CASE ~Allowed(fatal) /\ err' = [typ |-> typ, fatal |-> err.fatal] /\ pos' = p /\ Stop
  BY <1>1 DEF Stop, Stopped, Regs, TodoType, Values
<1>2. CASE /\ Allowed(fatal)
           /\ lim' = [lim EXCEPT !.err = @ - 1, !.ftl = IF fatal THEN @ - 1 ELSE @]
           /\ err' = [typ |-> typ, fatal |-> fatal]
           /\ XITHND(p, typ)
           /\ todo' = Ret(1, Null)
  <2>1. lim' \in [st : Nat, err : Nat, ftl : Nat, trace : Nat]
    <3>1. /\ lim.err \in Nat /\ lim.err > 0 /\ lim.ftl \in Nat
          /\ fatal => lim.ftl > 0
      BY <1>2 DEF Allowed, Regs
    <3>2. lim.err - 1 \in Nat /\ (fatal => lim.ftl - 1 \in Nat)
      BY <3>1
    <3>3. CASE fatal
      BY <1>2, <3>2, <3>3 DEF Regs
    <3>4. CASE ~fatal
      BY <1>2, <3>2, <3>4 DEF Regs
    <3> QED BY <3>3, <3>4
  <2>2. err' \in [typ : Nat, fatal : BOOLEAN] /\ todo' \in TodoType /\ todo' = Ret(1, Null)
    BY <1>2 DEF Ret, TodoType, Values
  <2>3. CASE xit.ptr = None
    BY <1>2, <2>1, <2>2, <2>3 DEF XITHND, Regs
  <2>4. CASE xit.ptr # None
    <3>1. xit.ptr \in Labels
      BY <2>4 DEF Regs, XitType
    <3>2. pos' \in Positions
      <4>1. pos' = [p EXCEPT !.OCBSCL = xit.ptr, !.FRTNCL = 0]
        BY <1>2, <2>4 DEF XITHND, HandlerAt
      <4>2. xit.ptr \in Blocks
        BY <3>1 DEF Blocks
      <4> QED BY <4>1, <4>2 DEF Positions
    <3>3. xit' \in XitType
      BY <1>2, <2>4 DEF XITHND, XitType, Positions
    <3>4. entering' \in Labels \cup {None}
      BY <1>2, <2>4, <3>1 DEF XITHND
    <3> QED BY <2>1, <2>2, <3>2, <3>3, <3>4 DEF Regs
  <2> QED BY <2>3, <2>4
<1> QED BY <1>1, <1>2 DEF Raise

-----------------------------------------------------------------------------
(* Actions that leave both stacks alone.                                   *)

LEMMA TopType ==
  ASSUME Stacks
  PROVE  /\ Len(ctl) \in Nat \ {0} /\ Len(stk) \in Nat /\ DOMAIN ctl = 1 .. Len(ctl)
         /\ Top = ctl[Len(ctl)] /\ Top.proc \in Procs /\ Top.base \in Nat
         /\ Top \in ProcFrames
<1>1. ctl \in Seq(ProcFrames) /\ ctl # <<>>
  BY DEF Stacks
<1>2. Len(ctl) \in Nat \ {0} /\ Len(ctl) \in 1 .. Len(ctl) /\ DOMAIN ctl = 1 .. Len(ctl)
  BY <1>1, FrameType
<1>3. Len(stk) \in Nat
  BY DEF Stacks
<1>4. ctl[Len(ctl)] \in ProcFrames
  BY <1>1, <1>2, ElementOfSeq
<1> QED BY <1>2, <1>3, <1>4 DEF Top, ProcFrames

LEMMA Quiet ==
  ASSUME Frames, todo.op # "stop", UNCHANGED <<stk, ctl, args>>,
         \/ UNCHANGED todo
         \/ todo'.op = "stop"
         \/ Top.proc = "INTERP" /\ todo' = Fetch
         \/ Top.proc = "INTERP" /\ \E rc \in {1, 4, 5, 6} : todo' = Ret(rc, Null)
         \/ todo.op = "fetch" /\ todo' = Ret(1, Null) /\ Stacks
  PROVE  Frames'
<1>1. Stacked(ctl, stk)' /\ Runs /\ Top' = Top
  BY DEF Frames, Top
<1>2. CASE UNCHANGED todo
  BY <1>1, <1>2 DEF Frames, Runs
<1>3. CASE todo'.op = "stop"
  BY <1>1, <1>3 DEF Frames
<1>4. CASE /\ Top.proc = "INTERP"
           /\ todo' = Fetch \/ \E rc \in {1, 4, 5, 6} : todo' = Ret(rc, Null)
  <2>1. Top'.proc = "INTERP" /\ Len(stk') = Top'.base
    BY <1>1, <1>4 DEF Runs
  <2>2. todo'.op \in {"fetch", "ret"} /\ ~(todo'.op = "ret" /\ todo'.rc = 2)
    BY <1>4 DEF Ret, Fetch
  <2> QED BY <1>1, <2>1, <2>2 DEF Frames, Runs
<1>5. CASE todo.op = "fetch" /\ todo' = Ret(1, Null) /\ Stacks
  <2>1. todo'.op = "ret" /\ todo'.rc = 1
    BY <1>5 DEF Ret
  <2>2. CASE Top.proc = "INTERP"
    BY <1>1, <2>1, <2>2 DEF Frames, Runs
  <2>3. CASE Top.proc \in {"EXPVAL", "TRPHND"}
    BY <1>1, <2>1, <2>3 DEF Frames, Runs
  <2>4. CASE Top.proc = "DEFFNC"
    <3>1. Loop(args, Top.base, Len(stk), stk)
      BY <1>1, <1>5, <2>4 DEF Runs
    <3>2. /\ args.XCL \in 0 .. args.WCL /\ args.WCL \in Nat
          /\ Len(stk) = Top.base + 1 + args.WCL - args.XCL
      BY <3>1 DEF Loop, ArgCells
    <3>3. Top.base <= Len(stk)
      BY <1>5, <3>2, TopType
    <3> QED BY <1>1, <2>1, <2>4, <3>3 DEF Frames, Runs
  <2> QED BY <2>2, <2>3, <2>4, <1>5, TopType DEF Procs
<1> QED BY <1>2, <1>3, <1>4, <1>5

LEMMA DivType ==
  ASSUME NEW o \in Nat
  PROVE  o \div StmtLen \in Nat /\ o % StmtLen \in 0 .. 2
BY DEF StmtLen

(* INIT's position.                                                        *)
Counted == [Step EXCEPT !.STNOCL = <<pos.OCBSCL, pos.OCICL \div StmtLen>>,
                        !.FRTNCL = pos.OCICL + StmtLen]

LEMMA CountedType ==
  ASSUME Regs, HasCode
  PROVE  Counted \in Positions
<1>1. pos.OCBSCL \in Blocks /\ pos.OCICL \in Nat
  BY DEF Regs, Positions, HasCode
<1>2. pos.OCICL \div StmtLen \in Nat /\ pos.OCICL + StmtLen \in Nat
  BY <1>1, DivType DEF StmtLen
<1> QED BY <1>1, <1>2, StepType DEF Counted, Positions

(* Procedure p is called and has pushed one cell.                          *)
Pushed(p, cell) ==
    /\ Len(ctl') = Len(ctl) + 1 /\ \A i \in 1 .. Len(ctl) : ctl'[i] = ctl[i]
    /\ ctl'[Len(ctl) + 1] = [proc |-> p, base |-> Len(stk') - 1]
    /\ Len(stk') = Len(stk) + (IF Top.proc = "DEFFNC" THEN 2 ELSE 1)
    /\ \A j \in 1 .. Len(stk) : stk'[j] = stk[j]
    /\ stk'[Len(stk')] = cell

(* A trace call is pushed on both stacks.                                  *)
LEMMA Traced ==
  ASSUME Stacks, Frames, NEW p \in Positions, TRPHND(p), Top.proc = "INTERP",
         todo.op \in {"fetch", "ret"}, lim.trace \in Nat \ {0},
         UNCHANGED <<value, defn, args, LVLCL>>, todo'.op = "fetch"
  PROVE  /\ Stacks' /\ Frames' /\ pos' \in Positions
         /\ Pushed("TRPHND", [pos |-> p, trace |-> lim.trace - 1])
<1> DEFINE fr == Frame("TRPHND")
           cell == [pos |-> p, trace |-> lim.trace - 1]
<1>1. /\ fr \in ProcFrames /\ fr.proc = "TRPHND" /\ fr.base = Len(stk)
      /\ cell \in TraceCells /\ cell \in Cells
  BY TopType DEF Frame, ProcFrames, Procs, TraceCells, Cells
<1>2. ctl' = Append(ctl, fr) /\ stk' = Append(stk, cell)
  BY DEF TRPHND
<1>3. /\ ctl \in Seq(ProcFrames) \ {<<>>} /\ stk \in Seq(Cells)
  BY DEF Stacks
<1> HIDE DEF fr, cell
<1>4. /\ ctl' \in Seq(ProcFrames) \ {<<>>} /\ Len(ctl') = Len(ctl) + 1
      /\ \A i \in 1 .. Len(ctl) : ctl'[i] = ctl[i]
      /\ ctl'[Len(ctl) + 1] = fr
  BY <1>1, <1>2, <1>3, Appended
<1>5. /\ stk' \in Seq(Cells) /\ Len(stk') = Len(stk) + 1
      /\ \A i \in 1 .. Len(stk) : stk'[i] = stk[i]
      /\ stk'[Len(stk) + 1] = cell
  BY <1>1, <1>2, <1>3, Appended
<1>6. Len(stk) = Top.base /\ Stacked(ctl, stk) /\ todo.op # "stop"
  BY DEF Frames, Runs
<1>7. Stacked(ctl', stk')
  <2>1. Waits(ctl', stk', Len(ctl))
    BY <1>1, <1>4, <1>6, TopType DEF Waits
  <2>2. Top.base <= fr.base /\ \A j \in 1 .. Top.base : stk'[j] = stk[j]
    BY <1>1, <1>5, <1>6, TopType
  <2>3. Top = ctl[Len(ctl)]
    BY DEF Top
  <2> QED BY <1>1, <1>2, <1>3, <1>6, <2>1, <2>2, <2>3, StackedPush
<1>8. Top' = fr
  BY <1>4 DEF Top
<1>9. Runs'
  BY <1>1, <1>5, <1>8 DEF Runs
<1>10. pos' \in Positions
  BY DEF TRPHND, Positions, Blocks
<1>11. Pushed("TRPHND", cell)
  <2>1. fr = [proc |-> "TRPHND", base |-> Len(stk') - 1] /\ Top.proc # "DEFFNC"
    <3>1. Len(stk') - 1 = Len(stk)
      BY <1>5, TopType
    <3> QED BY <3>1 DEF fr, Frame
  <2> QED BY <1>4, <1>5, <2>1 DEF Pushed
<1> QED BY <1>4, <1>5, <1>7, <1>9, <1>10, <1>11 DEF Stacks, Frames, cell

LEMMA InitStatementType ==
  ASSUME Regs, Stacks, Frames, InitStatement
  PROVE  Regs' /\ Stacks' /\ Frames'
<1> DEFINE p == Counted
<1>1. p \in Positions
  BY CountedType DEF InitStatement, Reads
<1>2. todo.op = "fetch" /\ Top.proc = "INTERP" /\ UNCHANGED <<value, defn, args, LVLCL, ended>>
  BY DEF InitStatement, Reads
<1>3. CASE lim.st = 0
  <2>1. pos' = p /\ err' = [err EXCEPT !.typ = 22] /\ Stop /\ UNCHANGED <<stk, ctl>>
    BY <1>3 DEF InitStatement, Counted
  <2>2. Regs'
    BY <1>1, <1>2, <2>1 DEF Regs, Stop, Stopped, TodoType, Values
  <2>3. Frames'
    BY <1>2, <2>1, Quiet DEF Stop, Stopped
  <2> QED BY <1>2, <2>1, <2>2, <2>3 DEF Stacks
<1>4. CASE lim.st # 0
  <2>1. /\ entering' = None /\ UNCHANGED <<err, todo, xit>>
        /\ \/ pos' = p /\ lim' = [lim EXCEPT !.st = @ - 1] /\ UNCHANGED <<stk, ctl>>
           \/ TRPHND(p) /\ lim' = [lim EXCEPT !.st = @ - 1, !.trace = 0]
    BY <1>4 DEF InitStatement, Counted
  <2>2. lim' \in [st : Nat, err : Nat, ftl : Nat, trace : Nat]
    <3>1. lim.st - 1 \in Nat
      BY <1>4 DEF Regs
    <3>2. CASE lim' = [lim EXCEPT !.st = @ - 1]
      BY <3>1, <3>2 DEF Regs
    <3>3. CASE lim' = [lim EXCEPT !.st = @ - 1, !.trace = 0]
      BY <3>1, <3>3 DEF Regs
    <3> QED BY <3>2, <3>3, <2>1
  <2>3. CASE pos' = p /\ UNCHANGED <<stk, ctl>>
    BY <1>1, <1>2, <2>1, <2>2, <2>3, Quiet DEF Regs, Stacks
  <2>4. CASE TRPHND(p)
    <3>1. todo'.op = "fetch" /\ lim.trace \in Nat \ {0}
      BY <1>2, <2>1, <2>4 DEF TRPHND, Regs
    <3> QED BY <1>1, <1>2, <2>1, <2>2, <2>4, <3>1, Traced DEF Regs
  <2> QED BY <2>1, <2>3, <2>4
<1> QED BY <1>3, <1>4

LEMMA Moves ==
  ASSUME Regs, NEW b \in Blocks \cup NoBlocks, NEW o \in Nat
  PROVE  /\ [pos EXCEPT !.OCICL = o] \in Positions
         /\ [pos EXCEPT !.OCBSCL = b, !.OCICL = o] \in Positions
BY DEF Regs, Positions

LEMMA StatementEndType ==
  ASSUME Regs
  PROVE  StatementEnd \in Nat
<1>1. pos.OCICL \in Nat
  BY DEF Regs, Positions
<1> QED BY <1>1 DEF StatementEnd, StmtLen

LEMMA StatementType ==
  ASSUME Regs, Stacks, Frames, Assign \/ SETXIT \/ Fails \/ PrimitiveError
  PROVE  Regs' /\ Stacks' /\ Frames'
<1>1. CASE Assign
  <2>1. /\ todo.op = "fetch" /\ pos' = Step
        /\ UNCHANGED <<defn, stk, ctl, args, LVLCL, xit, err, lim, todo, entering, ended>>
        /\ \E v \in Names, x \in Strings : value' = [value EXCEPT ![v] = x]
    BY <1>1 DEF Assign, Reads
  <2>2. value' \in [Names -> Values]
    BY <2>1, ProgramAssumption DEF Stacks, Values
  <2> QED BY <2>1, <2>2, StepType, Quiet DEF Regs, Stacks
<1>2. CASE SETXIT
  <2>1. /\ todo.op = "fetch" /\ pos' = Step
        /\ UNCHANGED <<value, defn, stk, ctl, args, LVLCL, err, lim, todo, entering, ended>>
        /\ \E l \in Labels \cup {None} : xit' = [xit EXCEPT !.ptr = l]
    BY <1>2 DEF SETXIT, Reads
  <2>2. xit' \in XitType
    BY <2>1 DEF Regs, XitType
  <2> QED BY <2>1, <2>2, StepType, Quiet DEF Regs, Stacks
<1>3. CASE Fails
  <2>1. /\ todo.op = "fetch" /\ pos' = Step /\ todo' = Ret(1, Null)
        /\ UNCHANGED <<value, defn, stk, ctl, args, LVLCL, xit, err, lim, entering, ended>>
    BY <1>3 DEF Fails
  <2>2. todo' \in TodoType
    BY <2>1 DEF Ret, TodoType, Values
  <2> QED BY <2>1, <2>2, StepType, Quiet DEF Regs, Stacks
<1>4. CASE PrimitiveError
  <2>1. /\ todo.op = "fetch" /\ UNCHANGED <<value, defn, stk, ctl, args, LVLCL, ended>>
        /\ \E fatal \in BOOLEAN : Raise(1, fatal, Step)
    BY <1>4 DEF PrimitiveError
  <2>2. Regs' /\ (todo'.op = "stop" \/ todo' = Ret(1, Null))
    BY <2>1, StepType, RaiseType
  <2> QED BY <2>1, <2>2, Quiet DEF Stacks
<1> QED BY <1>1, <1>2, <1>3, <1>4

LEMMA GotoType ==
  ASSUME Regs, Stacks, Frames,
         \/ GOTO \/ GotoLabel \/ GotoUndefined \/ GotoFails \/ GotoReturn \/ GotoAbort
         \/ GotoContinue \/ Crash
  PROVE  Regs' /\ Stacks' /\ Frames'
<1>1. /\ todo.op = "fetch" /\ Top.proc = "INTERP"
      /\ UNCHANGED <<value, defn, stk, ctl, args, LVLCL, ended>>
  BY DEF GOTO, GotoLabel, GotoUndefined, GotoFails, GotoReturn, GotoAbort, GotoContinue, Crash,
         GotoKeeps, InGoto, Reads
<1>2. Stacks'
  BY <1>1 DEF Stacks
<1>3. CASE GOTO
  BY <1>1, <1>2, <1>3, Moves, StatementEndType, Quiet DEF GOTO, Regs, Positions
<1>4. CASE GotoLabel
  <2>1. PICK l \in Labels : pos' = [pos EXCEPT !.OCBSCL = l, !.OCICL = 0]
    BY <1>4 DEF GotoLabel
  <2>2. pos' \in Positions
    BY <2>1, Moves DEF Blocks
  <2> QED BY <1>1, <1>2, <1>4, <2>2, Quiet DEF GotoLabel, Regs
<1>5. CASE GotoReturn
  <2>1. PICK rc \in {4, 5, 6} : todo' = Ret(rc, Null)
    BY <1>5 DEF GotoReturn
  <2>2. todo' \in TodoType
    BY <2>1 DEF Ret, TodoType, Values
  <2> QED BY <1>1, <1>2, <1>5, <2>1, <2>2, StepType, Quiet DEF GotoReturn, Regs
<1>6. CASE GotoAbort
  <2>1. CASE Raise(35, TRUE, Step)
    BY <1>1, <1>2, <2>1, StepType, RaiseType, Quiet
  <2>2. CASE err' = [err EXCEPT !.typ = xit.typ] /\ pos' = Step /\ Stop
    <3>1. err' \in [typ : Nat, fatal : BOOLEAN]
      BY <2>2 DEF Regs, XitType
    <3>2. todo' \in TodoType /\ todo'.op = "stop"
      BY <2>2 DEF Stop, Stopped, TodoType, Values
    <3> QED BY <1>1, <1>2, <2>2, <3>1, <3>2, StepType, Quiet DEF Regs, Stop
  <2> QED BY <1>6, <2>1, <2>2 DEF GotoAbort
<1>7. CASE GotoContinue
  <2>1. PICK again \in BOOLEAN :
          LET p == [Step EXCEPT !.FRTNCL = ResumesAt(again)]
              q == [p EXCEPT !.OCBSCL = xit.ocbs, !.STNOCL = xit.stno]
          IN  \/ err' = [err EXCEPT !.typ = 39] /\ pos' = Step /\ Stop
              \/ Raise(35, TRUE, p)
              \/ xit.ocbs # None /\ pos' = q /\ Stop /\ UNCHANGED err
              \/ /\ xit.ocbs # None /\ pos' = q /\ xit' = [xit EXCEPT !.ocbs = None]
                 /\ err' = [err EXCEPT !.typ = xit.typ] /\ todo' = Ret(1, Null)
                 /\ UNCHANGED <<lim, entering>>
    BY <1>7 DEF GotoContinue
  <2> DEFINE p == [Step EXCEPT !.FRTNCL = ResumesAt(again)]
             q == [p EXCEPT !.OCBSCL = xit.ocbs, !.STNOCL = xit.stno]
  <2>2. ResumesAt(again) \in Nat
    BY DEF ResumesAt, Regs, XitType
  <2>3. p \in Positions
    BY <2>2, StepType DEF Positions
  <2>4. xit.ocbs # None => q \in Positions
    BY <2>3 DEF Regs, XitType, Positions
  <2> HIDE DEF p, q
  <2>5. CASE err' = [err EXCEPT !.typ = 39] /\ pos' = Step /\ Stop
    <3>1. todo' \in TodoType /\ todo'.op = "stop" /\ err' \in [typ : Nat, fatal : BOOLEAN]
      BY <2>5 DEF Stop, Stopped, TodoType, Values, Regs
    <3> QED BY <1>1, <1>2, <2>5, <3>1, StepType, Quiet DEF Regs, Stop
  <2>6. CASE Raise(35, TRUE, p)
    BY <1>1, <1>2, <2>3, <2>6, RaiseType, Quiet
  <2>7. CASE xit.ocbs # None /\ pos' = q /\ Stop /\ UNCHANGED err
    <3>1. todo' \in TodoType /\ todo'.op = "stop"
      BY <2>7 DEF Stop, Stopped, TodoType, Values
    <3> QED BY <1>1, <1>2, <2>4, <2>7, <3>1, Quiet DEF Regs, Stop
  <2>8. CASE /\ xit.ocbs # None /\ pos' = q /\ xit' = [xit EXCEPT !.ocbs = None]
             /\ err' = [err EXCEPT !.typ = xit.typ] /\ todo' = Ret(1, Null)
             /\ UNCHANGED <<lim, entering>>
    <3>1. todo' \in TodoType
      BY <2>8 DEF Ret, TodoType, Values
    <3>2. xit' \in XitType /\ err' \in [typ : Nat, fatal : BOOLEAN]
      BY <2>8 DEF Regs, XitType, NoBlocks
    <3> QED BY <1>1, <1>2, <2>4, <2>8, <3>1, <3>2, Quiet DEF Regs
  <2> QED BY <2>1, <2>5, <2>6, <2>7, <2>8 DEF p, q
<1>8. CASE GotoUndefined
  <2>1. PICK b \in NoBlocks : Raise(24, TRUE, [Step EXCEPT !.OCBSCL = b])
    BY <1>8 DEF GotoUndefined
  <2>2. [Step EXCEPT !.OCBSCL = b] \in Positions
    BY StepType DEF Positions
  <2> QED BY <1>1, <1>2, <2>1, <2>2, RaiseType, Quiet
<1>9. CASE GotoFails
  <2>1. PICK typ \in {19, 24} : Raise(typ, TRUE, Step)
    BY <1>9 DEF GotoFails
  <2> QED BY <1>1, <1>2, <2>1, StepType, RaiseType, Quiet
<1>10. CASE Crash
  <2>1. /\ todo' \in TodoType /\ todo'.op = "stop"
        /\ UNCHANGED <<pos, xit, err, lim, entering, ended>>
    BY <1>10 DEF Crash, Stop, Stopped, TodoType, Values, GotoKeeps
  <2> QED BY <1>1, <1>2, <2>1, Quiet DEF Regs
<1> QED BY <1>3, <1>4, <1>5, <1>6, <1>7, <1>8, <1>9, <1>10

LEMMA EndType ==
  ASSUME Regs, Stacks, Frames, END
  PROVE  Regs' /\ Stacks' /\ Frames'
<1> DEFINE p == [pos EXCEPT !.OCBSCL = End, !.OCICL = 1, !.FRTNCL = 0]
<1>1. p \in Positions
  BY DEF Regs, Positions, Blocks
<1>2. todo.op = "fetch" /\ UNCHANGED <<value, defn, stk, ctl, args, LVLCL>>
  BY DEF END, Reads
<1> HIDE DEF p
<1>3. CASE pos' = p /\ Stop /\ UNCHANGED <<err, ended>>
  <2>1. todo' \in TodoType /\ todo'.op = "stop"
    BY <1>3 DEF Stop, Stopped, TodoType, Values
  <2> QED BY <1>1, <1>2, <1>3, <2>1, Quiet DEF Regs, Stacks, Stop
<1>4. CASE /\ lim.err > 0 /\ xit.ptr # None /\ lim' = [lim EXCEPT !.err = @ - 1]
           /\ err' = [err EXCEPT !.typ = 0] /\ XITHND(p, 0) /\ ended' = TRUE
           /\ UNCHANGED todo
  <2>1. xit.ptr \in Labels /\ xit.ptr \in Blocks
    BY <1>4 DEF Regs, XitType, Blocks
  <2>2. pos' = [p EXCEPT !.OCBSCL = xit.ptr, !.FRTNCL = 0] /\ entering' = None
    BY <1>4 DEF XITHND, HandlerAt
  <2>3. pos' \in Positions
    BY <1>1, <2>1, <2>2 DEF Positions
  <2>4. xit' \in XitType
    BY <1>1, <1>4 DEF XITHND, XitType, Positions
  <2>5. lim.err - 1 \in Nat
    BY <1>4 DEF Regs
  <2>6. lim' \in [st : Nat, err : Nat, ftl : Nat, trace : Nat]
        /\ err' \in [typ : Nat, fatal : BOOLEAN]
    BY <1>4, <2>5 DEF Regs
  <2> QED BY <1>2, <1>4, <2>2, <2>3, <2>4, <2>6, Quiet DEF Regs, Stacks
<1> QED BY <1>3, <1>4 DEF END, p

-----------------------------------------------------------------------------
(* Calls: arguments, the function's body and its return.                   *)

LEMMA CellTypes ==
  /\ \A a \in ArgCells : a \in Cells
  /\ \A a \in ExprCells : a \in Cells
  /\ \A a \in TraceCells : a \in Cells
  /\ \A a \in CallCells : a \in Cells
  /\ \A a \in Values : a \in Cells
BY DEF Cells, ArgCells, ExprCells, TraceCells, CallCells

LEMMA KeepsType ==
  ASSUME Stacks
  PROVE  /\ stk \o Keeps \in Seq(Cells)
         /\ \A i \in 1 .. Len(stk) : (stk \o Keeps)[i] = stk[i]
         /\ Top.proc # "DEFFNC" => Len(stk \o Keeps) = Len(stk)
         /\ Top.proc = "DEFFNC" => /\ Len(stk \o Keeps) = Len(stk) + 1
                                   /\ (stk \o Keeps)[Len(stk) + 1] = args
<1>1. stk \in Seq(Cells) /\ args \in Cells
  BY CellTypes DEF Stacks
<1>2. CASE Top.proc # "DEFFNC"
  <2>1. Keeps = <<>>
    BY <1>2 DEF Keeps
  <2>2. stk \o Keeps = stk
    BY <1>1, <2>1, ConcatEmptySeq
  <2> QED BY <1>1, <1>2, <2>2
<1>3. CASE Top.proc = "DEFFNC"
  <2>1. Keeps = <<args>>
    BY <1>3 DEF Keeps
  <2>2. stk \o Keeps = Append(stk, args)
    BY <1>1, <2>1, AppendIsConcat
  <2> QED BY <1>1, <1>3, <2>2, Appended
<1> QED BY <1>2, <1>3

(* A procedure that pushes one cell is called.                             *)
LEMMA Invoked ==
  ASSUME Stacks, Frames, todo.op = "fetch", NEW p \in {"DEFFNC", "EXPVAL"},
         NEW cell \in Cells, Top.proc = "TRPHND" => p = "DEFFNC",
         ctl' = Append(ctl, [proc |-> p, base |-> Len(stk \o Keeps)]),
         stk' = stk \o Keeps \o <<cell>>
  PROVE  /\ stk' \in Seq(Cells) /\ ctl' \in Seq(ProcFrames) \ {<<>>}
         /\ Stacked(ctl, stk)'
         /\ Top' = [proc |-> p, base |-> Len(stk \o Keeps)]
         /\ Len(stk') = Len(stk \o Keeps) + 1
         /\ stk'[Len(stk')] = cell
         /\ Pushed(p, cell)
<1> DEFINE u == stk \o Keeps
           fr == [proc |-> p, base |-> Len(u)]
<1>1. /\ u \in Seq(Cells) /\ \A i \in 1 .. Len(stk) : u[i] = stk[i]
      /\ Top.proc # "DEFFNC" => Len(u) = Len(stk)
      /\ Top.proc = "DEFFNC" => Len(u) = Len(stk) + 1 /\ u[Len(stk) + 1] = args
  BY KeepsType
<1>2. ctl \in Seq(ProcFrames) \ {<<>>}
  BY DEF Stacks
<1>3. ctl' = Append(ctl, fr) /\ stk' = u \o <<cell>>
  OBVIOUS
<1> HIDE DEF u
<1>4. stk' = Append(u, cell)
  BY <1>1, <1>3, AppendIsConcat
<1>5. /\ stk' \in Seq(Cells) /\ Len(stk') = Len(u) + 1 /\ stk'[Len(u) + 1] = cell
      /\ \A i \in 1 .. Len(u) : stk'[i] = u[i]
  <2>1. /\ Append(u, cell) \in Seq(Cells) /\ Len(Append(u, cell)) = Len(u) + 1
        /\ Append(u, cell)[Len(u) + 1] = cell
        /\ \A i \in 1 .. Len(u) : Append(u, cell)[i] = u[i]
    BY <1>1, Appended
  <2> QED BY <2>1, <1>4
<1>6. Len(u) \in Nat /\ Len(stk) \in Nat /\ Len(stk) <= Len(u)
  BY <1>1, TopType DEF Procs
<1>7. fr \in ProcFrames /\ fr.proc = p /\ fr.base = Len(u)
  BY <1>6 DEF ProcFrames, Procs
<1> HIDE DEF fr
<1>8. /\ ctl' \in Seq(ProcFrames) \ {<<>>} /\ Len(ctl') = Len(ctl) + 1
      /\ ctl'[Len(ctl)] = Top /\ ctl'[Len(ctl) + 1] = fr
      /\ \A i \in 1 .. Len(ctl) : ctl'[i] = ctl[i]
  <2>1. /\ Append(ctl, fr) \in Seq(ProcFrames) /\ Append(ctl, fr) # <<>>
        /\ Len(Append(ctl, fr)) = Len(ctl) + 1
        /\ Append(ctl, fr)[Len(ctl) + 1] = fr
        /\ \A i \in 1 .. Len(ctl) : Append(ctl, fr)[i] = ctl[i]
    BY <1>2, <1>7, Appended
  <2>2. Len(ctl) \in 1 .. Len(ctl) /\ Top = ctl[Len(ctl)]
    BY TopType
  <2> QED BY <2>1, <2>2, <1>3
<1>9. \A i \in 1 .. Len(stk) : stk'[i] = stk[i]
  BY <1>1, <1>5, <1>6
<1>10. Waits(ctl', stk', Len(ctl)) /\ Top.base <= Len(stk)
  <2>1. Runs /\ Top.base \in Nat
    BY TopType DEF Frames
  <2>6. /\ ctl'[Len(ctl)].proc = Top.proc /\ ctl'[Len(ctl)].base = Top.base
        /\ ctl'[Len(ctl) + 1].proc = p /\ ctl'[Len(ctl) + 1].base = Len(u)
    BY <1>7, <1>8
  <2>2. CASE Top.proc = "INTERP"
    <3>1. Len(stk) = Top.base /\ Len(u) = Len(stk)
      BY <1>1, <2>1, <2>2 DEF Runs
    <3>2. Top.proc = "INTERP" /\ p # "INTERP" /\ Len(u) = Top.base
      BY <3>1, <2>2
    <3>3. Waits(ctl', stk', Len(ctl))
      BY <3>2, <2>6 DEF Waits
    <3> QED BY <3>1, <3>3, <2>1
  <2>7. CASE Top.proc \in {"EXPVAL", "TRPHND"}
    <3>1. Len(stk) = Top.base + 1 /\ stk'[Len(u)] = stk[Len(stk)] /\ Len(u) = Len(stk)
      BY <1>1, <1>9, <2>1, <2>7, TopType DEF Runs
    <3>2. Top.proc = "EXPVAL" => stk[Len(stk)] \in ExprCells
      BY <2>1 DEF Runs
    <3>3. Top.proc = "TRPHND" => stk[Len(stk)] \in TraceCells
      BY <2>1 DEF Runs
    <3>4. Len(stk) = Top.base + 1 => Top.base <= Len(stk)
      BY <2>1, TopType
    <3> QED BY <3>1, <3>2, <3>3, <3>4, <2>6, <2>7 DEF Waits
  <2>5. CASE Top.proc = "DEFFNC"
    <3>1. Loop(args, Top.base, Len(stk), stk) /\ args.XCL # 0
      BY <2>1, <2>5 DEF Runs
    <3>2. /\ args.XCL \in 0 .. args.WCL /\ args.WCL \in Nat
          /\ Len(stk) = Top.base + 1 + args.WCL - args.XCL
      BY <3>1 DEF Loop, ArgCells
    <3>3. Top.base + 1 .. Len(stk) \subseteq 1 .. Len(stk) /\ Top.base <= Len(stk)
      BY <2>1, <3>2, TopType
    <3>4. Loop(args, Top.base, Len(stk), stk')
      BY <1>9, <3>1, <3>3 DEF Loop
    <3>5. stk'[fr.base] = args /\ fr.base - 1 = Len(stk) /\ args.XCL >= 1
      <4>1. args.XCL >= 1
        BY <3>1, <3>2
      <4>2. stk'[fr.base] = args /\ fr.base - 1 = Len(stk)
        BY <1>1, <1>5, <1>6, <1>7, <2>5, TopType
      <4> QED BY <4>1, <4>2
    <3>6. Around(Top.base, fr.base, stk')
      BY <3>4, <3>5 DEF Around
    <3> QED BY <1>7, <1>8, <2>5, <3>3, <3>6 DEF Waits
  <2> QED BY <2>2, <2>5, <2>7, TopType DEF Procs
<1>11. Stacked(ctl', stk')
  <2>1. Top.base <= fr.base /\ \A j \in 1 .. Top.base : stk'[j] = stk[j]
    BY <1>6, <1>7, <1>9, <1>10, TopType
  <2>2. Top = ctl[Len(ctl)] /\ Stacked(ctl, stk)
    BY DEF Top, Frames
  <2> QED BY <1>2, <1>3, <1>7, <1>10, <2>1, <2>2, StackedPush
<1>12. Top' = fr
  BY <1>8, TopType DEF Top
<1>13. Pushed(p, cell)
  <2>1. Len(u) = Len(stk) + (IF Top.proc = "DEFFNC" THEN 1 ELSE 0)
    BY <1>1, <1>6
  <2>2. Len(stk') - 1 = Len(u) /\ Len(stk') = Len(stk) + (IF Top.proc = "DEFFNC" THEN 2 ELSE 1)
    BY <1>5, <1>6, <2>1
  <2>3. fr = [proc |-> p, base |-> Len(stk') - 1]
    BY <2>2 DEF fr
  <2>4. stk'[Len(stk')] = cell
    BY <1>5
  <2> QED BY <1>8, <1>9, <2>2, <2>3, <2>4 DEF Pushed
<1> QED BY <1>5, <1>8, <1>11, <1>12, <1>13 DEF u, fr

LEMMA CallType ==
  ASSUME Regs, Stacks, Frames, Call
  PROVE  Regs' /\ Stacks' /\ Frames'
<1>1. PICK n \in Givens :
        /\ ctl' = Append(ctl, [proc |-> "DEFFNC", base |-> Len(stk \o Keeps)])
        /\ args' = [XCL |-> n, WCL |-> n, YPTR |-> Len(stk \o Keeps)]
        /\ stk' = stk \o Keeps \o <<Null>>
  BY DEF Call
<1>2. /\ todo.op = "fetch" /\ pos' = Step
      /\ UNCHANGED <<value, defn, LVLCL, xit, err, lim, todo, entering, ended>>
  BY DEF Call
<1>3. Null \in Cells /\ Null \in Values
  BY DEF Cells, Values
<1>4. /\ stk' \in Seq(Cells) /\ ctl' \in Seq(ProcFrames) \ {<<>>}
      /\ Stacked(ctl, stk)'
      /\ Top' = [proc |-> "DEFFNC", base |-> Len(stk \o Keeps)]
      /\ Len(stk') = Len(stk \o Keeps) + 1
      /\ stk'[Len(stk')] = Null
  BY <1>1, <1>2, <1>3, Invoked
<1>5. Len(stk \o Keeps) \in Nat /\ n \in Nat \ {0}
  BY KeepsType, BoundsAssumption
<1>6. args' \in ArgCells
  BY <1>1, <1>5 DEF ArgCells
<1>7. Loop(args', Top'.base, Len(stk'), stk')
  BY <1>1, <1>3, <1>4, <1>5, <1>6 DEF Loop
<1>8. Runs'
  BY <1>1, <1>2, <1>4, <1>5, <1>7 DEF Runs
<1> QED BY <1>2, <1>4, <1>6, <1>8, StepType DEF Regs, Stacks, Frames

LEMMA OneLess ==
  ASSUME NEW l \in Nat, NEW b \in Nat, NEW w \in Nat, NEW x \in 0 .. w, l = b + 1 + w - x
  PROVE  l + 1 = b + 1 + w - (x - 1)
OBVIOUS

(* One more argument of the loop has a value.                              *)
LEMMA ArgumentType ==
  ASSUME Regs, Stacks, Frames, NEW kept \in ArgCells, NEW s \in Seq(Cells),
         NEW x \in Values, Argument(kept, s, x), Top.proc = "DEFFNC",
         kept.XCL >= 1, Loop(kept, Top.base, Len(s), s),
         \A j \in 1 .. Top.base : s[j] = stk[j],
         UNCHANGED <<value, ctl, LVLCL, xit, err, lim, entering, ended>>,
         pos' \in Positions, defn' \in Defs
  PROVE  /\ Regs' /\ Stacks' /\ Frames' /\ todo'.op \in {"fetch", "enter"}
         /\ \A j \in 1 .. Top.base : stk'[j] = stk[j]
<1>1. /\ stk' = Append(s, x) /\ args' = [kept EXCEPT !.XCL = @ - 1]
      /\ todo' = [Fetch EXCEPT !.op = IF kept.XCL = 1 THEN "enter" ELSE "fetch"]
  BY DEF Argument
<1>2. /\ stk' \in Seq(Cells) /\ Len(stk') = Len(s) + 1 /\ stk'[Len(s) + 1] = x
      /\ \A j \in 1 .. Len(s) : stk'[j] = s[j]
  BY <1>1, CellTypes, Appended
<1>3. /\ kept.XCL \in 0 .. kept.WCL /\ kept.WCL \in Nat /\ kept.YPTR = Top.base
      /\ Len(s) = Top.base + 1 + kept.WCL - kept.XCL /\ Len(s) \in Nat
      /\ Top.base \in Nat
  BY TopType DEF Loop, ArgCells
<1>4. /\ args' \in ArgCells /\ args'.XCL = kept.XCL - 1 /\ args'.WCL = kept.WCL
      /\ args'.YPTR = kept.YPTR
  BY <1>1, SMTT(30) DEF ArgCells
<1>5. Loop(args', Top.base, Len(stk'), stk')
  <2>1. \A j \in Top.base + 1 .. Len(s) : s[j] \in Values
    BY DEF Loop
  <2>2. ASSUME NEW j \in Top.base + 1 .. Len(stk') PROVE stk'[j] \in Values
    <3>1. j \in Top.base + 1 .. Len(s) \/ j = Len(s) + 1
      BY <1>2, <1>3, <2>2
    <3>2. j \in Top.base + 1 .. Len(s) => j \in 1 .. Len(s)
      BY <1>3
    <3> QED BY <1>2, <2>1, <3>1, <3>2
  <2>3. Len(stk') = Top.base + 1 + args'.WCL - args'.XCL
    <3>1. Len(stk') = Len(s) + 1 /\ args'.WCL = kept.WCL /\ args'.XCL = kept.XCL - 1
      BY <1>2, <1>4
    <3> QED BY <1>3, <3>1, OneLess
  <2>4. args'.XCL \in 0 .. args'.WCL
    BY <1>3, <1>4
  <2> QED BY <1>3, <1>4, <2>2, <2>3, <2>4 DEF Loop
<1>6. Top' = Top /\ todo' \in TodoType /\ todo'.op \in {"fetch", "enter"}
      /\ (todo'.op = "enter" <=> kept.XCL = 1)
  BY <1>1 DEF Top, Fetch, TodoType, Values
<1>7. Runs'
  <2>1. args'.XCL = 0 <=> todo'.op = "enter"
    BY <1>3, <1>4, <1>6
  <2> QED BY <1>5, <1>6, <2>1 DEF Runs
<1>8. \A j \in 1 .. Top.base : stk'[j] = stk[j]
  BY <1>2, <1>3, TopType, SMTT(30)
<1>9. Stacked(ctl', stk')
  BY <1>8, StackedKeep DEF Stacks, Frames, Top
<1> QED BY <1>2, <1>4, <1>6, <1>7, <1>8, <1>9 DEF Regs, Stacks, Frames

LEMMA ArgumentsType ==
  ASSUME Regs, Stacks, Frames, ArgVariable \/ ArgReturned \/ Redefine
  PROVE  /\ Regs' /\ Stacks' /\ Frames' /\ todo'.op \in {"fetch", "enter"}
         /\ \A j \in 1 .. Top.base : stk'[j] = stk[j]
<1>1. ASSUME Reads("DEFFNC"), NEW x \in Values, Argument(args, stk, x),
             UNCHANGED <<value, ctl, LVLCL, xit, err, lim, entering, ended>>,
             pos' = Step, defn' \in Defs
      PROVE  /\ Regs' /\ Stacks' /\ Frames' /\ todo'.op \in {"fetch", "enter"}
             /\ \A j \in 1 .. Top.base : stk'[j] = stk[j]
  <2>1. todo.op = "fetch" /\ Top.proc = "DEFFNC"
    BY <1>1 DEF Reads
  <2>2. Loop(args, Top.base, Len(stk), stk) /\ args.XCL # 0
    BY <2>1 DEF Frames, Runs
  <2>3. args.XCL >= 1
    BY <2>2 DEF Loop
  <2>4. stk \in Seq(Cells) /\ args \in ArgCells /\ pos' \in Positions
    BY <1>1, StepType DEF Stacks
  <2> QED BY <1>1, <2>1, <2>2, <2>3, <2>4, ArgumentType
<1>2. CASE ArgVariable
  <2>1. PICK v \in Names : Argument(args, stk, value[v])
    BY <1>2 DEF ArgVariable
  <2>2. value[v] \in Values /\ defn' \in Defs
    BY <1>2 DEF ArgVariable, Stacks
  <2> QED BY <1>1, <1>2, <2>1, <2>2 DEF ArgVariable
<1>3. CASE ArgReturned
  <2> DEFINE kept == stk[Len(stk)]
             s == SubSeq(stk, 1, Len(stk) - 1)
             x == IF todo.rc = 2 THEN value[todo.v] ELSE todo.v
  <2>1. /\ todo.op = "ret" /\ todo.rc \in {2, 3} /\ Top.proc = "DEFFNC"
        /\ Argument(kept, s, x)
        /\ UNCHANGED <<value, defn, ctl, pos, LVLCL, xit, err, lim, entering, ended>>
    BY <1>3 DEF ArgReturned, Gets
  <2>2. kept.XCL >= 1 /\ Loop(kept, Top.base, Len(stk) - 1, stk)
    BY <2>1 DEF Frames, Runs, Around
  <2>3. /\ kept \in ArgCells /\ kept.XCL \in 0 .. kept.WCL /\ kept.WCL \in Nat
        /\ Len(stk) - 1 = Top.base + 1 + kept.WCL - kept.XCL
        /\ Top.base \in Nat /\ Len(stk) \in Nat
    BY <2>2, TopType DEF Loop, ArgCells
  <2>4. Len(stk) - 1 \in 0 .. Len(stk) /\ Top.base <= Len(stk) - 1
    BY <2>3
  <2>5. /\ s \in Seq(Cells) /\ Len(s) = Len(stk) - 1
        /\ \A j \in 1 .. Len(stk) - 1 : s[j] = stk[j]
    BY <2>4, Cut DEF Stacks
  <2>6. \A j \in 1 .. Top.base : s[j] = stk[j]
    BY <2>3, <2>4, <2>5
  <2>7. Loop(kept, Top.base, Len(s), s)
    <3>1. \A j \in Top.base + 1 .. Len(stk) - 1 : stk[j] \in Values
      BY <2>2 DEF Loop
    <3>2. \A j \in Top.base + 1 .. Len(s) : s[j] \in Values
      BY <2>3, <2>4, <2>5, <3>1
    <3> QED BY <2>2, <2>5, <3>2 DEF Loop
  <2>8. x \in Values
    BY <2>1 DEF Regs, TodoType, Stacks, Frames, Values
  <2>9. pos' \in Positions /\ defn' \in Defs
    BY <2>1 DEF Regs, Stacks
  <2> HIDE DEF kept, s, x
  <2> QED BY <2>1, <2>2, <2>3, <2>5, <2>6, <2>7, <2>8, <2>9, ArgumentType
<1>4. CASE Redefine
  <2>1. /\ defn' \in Defs /\ pos' = Step
        /\ UNCHANGED <<value, ctl, LVLCL, xit, err, lim, entering, ended>>
    BY <1>4 DEF Redefine
  <2>2. CASE Reads("INTERP") /\ UNCHANGED <<stk, args, todo>>
    BY <2>1, <2>2, StepType, Quiet DEF Regs, Stacks, Reads
  <2>3. CASE Reads("DEFFNC") /\ Argument(args, stk, Null)
    BY <1>1, <2>1, <2>3 DEF Values
  <2> QED BY <1>4, <2>2, <2>3 DEF Redefine
<1> QED BY <1>2, <1>3, <1>4

(* The arguments as the definition takes them.                             *)
LEMMA GivenType ==
  ASSUME Stacks, Frames, todo.op = "enter"
  PROVE  /\ Top.proc = "DEFFNC" /\ Loop(args, Top.base, Len(stk), stk)
         /\ Len(stk) = Top.base + 1 + args.WCL /\ args.WCL \in Nat
         /\ args.YPTR = Top.base /\ Top.base \in Nat
         /\ \A i \in DOMAIN Bound(defn) : Given(i) \in Values
<1>1. Top.proc = "DEFFNC" /\ Loop(args, Top.base, Len(stk), stk) /\ args.XCL = 0
  BY DEF Frames, Runs
<1>2. /\ Len(stk) = Top.base + 1 + args.WCL /\ args.WCL \in Nat
      /\ args.YPTR = Top.base /\ Top.base \in Nat
  BY <1>1, TopType DEF Loop, ArgCells
<1>3. ASSUME NEW i \in DOMAIN Bound(defn) PROVE Given(i) \in Values
  <2>1. i \in Nat \ {0}
    BY BoundType DEF Stacks
  <2>2. ASSUME i <= 1 + args.WCL PROVE stk[args.YPTR + i] \in Values
    <3>1. args.YPTR + i \in Top.base + 1 .. Len(stk)
      BY <1>2, <2>1, <2>2
    <3> QED BY <1>1, <3>1 DEF Loop
  <2> QED BY <2>2 DEF Given, Values
<1> QED BY <1>1, <1>2, <1>3

LEMMA BoundNames ==
  ASSUME NEW d \in Defs
  PROVE  /\ DOMAIN Bound(d) = 1 .. Len(Bound(d))
         /\ \A i \in DOMAIN Bound(d) : Bound(d)[i] \in Names
         /\ \A v : At(d, v) \subseteq 1 .. Len(Bound(d)) /\ At(d, v) \subseteq Nat
<1>1. Bound(d) \in Seq(Names) /\ Len(Bound(d)) \in Nat
  BY BoundType
<1>2. DOMAIN Bound(d) = 1 .. Len(Bound(d)) /\ \A i \in DOMAIN Bound(d) : Bound(d)[i] \in Names
  BY <1>1, LenProperties, ElementOfSeq
<1> QED BY <1>1, <1>2 DEF At

LEMMA OldType ==
  ASSUME Stacks, Frames, todo.op = "enter", NEW i \in DOMAIN Bound(defn)
  PROVE  Old(i) \in Values
<1>1. defn \in Defs
  BY DEF Stacks
<1>2. CASE Before(i) = {}
  BY <1>1, <1>2, BoundNames DEF Old, Stacks
<1>3. CASE Before(i) # {}
  <2>1. Before(i) \subseteq 1 .. Len(Bound(defn)) /\ Len(Bound(defn)) \in Nat
    BY <1>1, BoundNames, BoundType DEF Before
  <2>2. Max(Before(i)) \in DOMAIN Bound(defn)
    BY <1>1, <1>3, <2>1, MaxOf, BoundNames
  <2> QED BY <1>3, <2>2, GivenType DEF Old
<1> QED BY <1>2, <1>3

LEMMA BindType ==
  ASSUME Stacks, Frames, todo.op = "enter", BindArguments
  PROVE  args' \in ArgCells /\ value' \in [Names -> Values] /\ defn' \in Defs
<1>1. defn \in Defs /\ Len(Bound(defn)) \in Nat
  BY BoundType DEF Stacks
<1>2. ASSUME NEW v \in Names, At(defn, v) # {}
      PROVE  Given(Max(At(defn, v))) \in Values
  <2>1. Max(At(defn, v)) \in DOMAIN Bound(defn)
    BY <1>1, <1>2, MaxOf, BoundNames
  <2> QED BY <2>1, GivenType
<1>3. value' \in [Names -> Values]
  BY <1>2 DEF BindArguments, Stacks
<1> QED BY <1>1, <1>3 DEF BindArguments, Clobbered, ArgCells

-----------------------------------------------------------------------------
(* Procedures that return.                                                 *)

LEMMA BaseBelow ==
  ASSUME Stacks, Frames, todo.op # "stop"
  PROVE  Top.base <= Len(stk)
<1>1. Runs /\ Top.base \in Nat /\ Len(stk) \in Nat
  BY TopType DEF Frames
<1>2. ASSUME Loop(args, Top.base, Len(stk), stk) PROVE Top.base <= Len(stk)
  <2>1. args.XCL \in 0 .. args.WCL /\ args.WCL \in Nat /\ Len(stk) = Top.base + 1 + args.WCL - args.XCL
    BY <1>2 DEF Loop, ArgCells
  <2> QED BY <1>1, <2>1
<1>3. ASSUME Around(Top.base, Len(stk), stk) PROVE Top.base <= Len(stk)
  <2> DEFINE a == stk[Len(stk)]
  <2>1. a.XCL \in 0 .. a.WCL /\ a.WCL \in Nat /\ Len(stk) - 1 = Top.base + 1 + a.WCL - a.XCL
    BY <1>3 DEF Around, Loop, ArgCells
  <2> HIDE DEF a
  <2> QED BY <1>1, <2>1
<1>4. ASSUME Slots(Top.base, Len(stk), stk) PROVE Top.base <= Len(stk)
  <2>1. stk[Len(stk)].defn \in Defs /\ Len(stk) = Top.base + Len(Bound(stk[Len(stk)].defn)) + 1
    BY <1>4 DEF Slots, CallCells
  <2>2. Len(Bound(stk[Len(stk)].defn)) \in Nat
    BY <2>1, BoundType
  <2> QED BY <1>1, <2>1, <2>2
<1>5. ASSUME Len(stk) = Top.base \/ Len(stk) = Top.base + 1 PROVE Top.base <= Len(stk)
  BY <1>1, <1>5
<1> QED BY <1>1, <1>2, <1>3, <1>4, <1>5 DEF Runs

LEMMA Bottom ==
  ASSUME Stacks, Frames, Top.proc # "INTERP"
  PROVE  Len(ctl) > 1
<1>1. ctl[1].proc = "INTERP" /\ Top = ctl[Len(ctl)] /\ Len(ctl) \in Nat \ {0}
  BY TopType DEF Frames, Stacked
<1> QED BY <1>1

LEMMA Popped ==
  ASSUME Stacks, Frames, todo.op # "stop", Len(ctl) > 1, Leaves(stk)
  PROVE  /\ stk' \in Seq(Cells) /\ Len(stk') = Top.base
         /\ \A j \in 1 .. Top.base : stk'[j] = stk[j]
         /\ ctl' \in Seq(ProcFrames) \ {<<>>} /\ Len(ctl') = Len(ctl) - 1
         /\ \A i \in 1 .. Len(ctl) - 1 : ctl'[i] = ctl[i]
         /\ Stacked(ctl, stk)' /\ Top' = ctl[Len(ctl) - 1]
         /\ Waits(ctl, stk', Len(ctl) - 1)
<1>1. /\ Len(ctl) \in Nat \ {0, 1} /\ Top.base \in Nat /\ Len(stk) \in Nat
      /\ Top.base <= Len(stk) /\ Top = ctl[Len(ctl)]
  <2>1. Top.base <= Len(stk)
    BY BaseBelow
  <2>2. Len(ctl) \in Nat /\ Top.base \in Nat /\ Len(stk) \in Nat /\ Top = ctl[Len(ctl)]
    BY TopType
  <2> QED BY <2>1, <2>2
<1>2. Len(ctl) - 1 \in 0 .. Len(ctl) /\ Top.base \in 0 .. Len(stk)
  BY <1>1
<1>3. /\ stk' \in Seq(Cells) /\ Len(stk') = Top.base
      /\ \A j \in 1 .. Top.base : stk'[j] = stk[j]
  BY <1>2, Cut DEF Stacks, Leaves
<1>4. /\ ctl' \in Seq(ProcFrames) /\ Len(ctl') = Len(ctl) - 1
      /\ \A i \in 1 .. Len(ctl) - 1 : ctl'[i] = ctl[i]
  BY <1>2, Cut DEF Stacks, Leaves
<1>5. ctl' # <<>>
  <2>1. Len(ctl') # 0
    BY <1>1, <1>4
  <2> QED BY <2>1
<1>6. Stacked(ctl', stk')
  <2>1. ctl \in Seq(ProcFrames) /\ Stacked(ctl, stk)
    BY DEF Stacks, Frames
  <2>2. \A j \in 1 .. ctl[Len(ctl)].base : stk'[j] = stk[j]
    BY <1>1, <1>3
  <2>3. Stacked(SubSeq(ctl, 1, Len(ctl) - 1), stk')
    BY <2>1, <2>2, StackedPop
  <2> QED BY <2>3 DEF Leaves
<1>7. Top' = ctl[Len(ctl) - 1]
  BY <1>1, <1>4 DEF Top
<1>8. Waits(ctl, stk', Len(ctl) - 1)
  <2>0. PICK i : i = Len(ctl) - 1
    OBVIOUS
  <2>1. i \in 1 .. Len(ctl) - 1 /\ i + 1 = Len(ctl) /\ i \in 1 .. Len(ctl)
    BY <1>1, <2>0
  <2>2. Waits(ctl, stk, i)
    BY <2>1 DEF Frames, Stacked
  <2>3. ctl[i].base \in Nat /\ ctl[i + 1].base \in Nat
    BY <2>1, <1>1, FrameType DEF Stacks
  <2>4. \A j \in 1 .. ctl[i + 1].base : stk'[j] = stk[j]
    BY <2>1, <1>1, <1>3
  <2>5. Waits(ctl, stk', i)
    BY <2>2, <2>3, <2>4, WaitsAgree, Z3
  <2> QED BY <2>0, <2>5
<1> QED BY <1>3, <1>4, <1>5, <1>6, <1>7, <1>8

LEMMA PopType ==
  ASSUME Stacks, Frames, todo.op # "stop", Len(ctl) > 1, Leaves(stk),
         \/ todo'.op = "stop"
         \/ todo'.op = "ret" /\ Top.proc = "INTERP" /\ todo'.rc \in 4 .. 6
         \/ todo'.op = "ret" /\ Top.proc \in {"DEFFNC", "EXPVAL"} /\ todo'.rc \in 1 .. 3
         \/ todo'.op = "fetch" /\ Top.proc = "TRPHND",
         todo'.op = "ret" /\ todo'.rc = 2 => todo'.v \in Names
  PROVE  Frames'
<1> DEFINE F == ctl[Len(ctl) - 1]
           n == Top.base
<1>1. /\ Top' = F /\ Len(stk') = n /\ Stacked(ctl, stk)' /\ n \in Nat
      /\ Waits(ctl, stk', Len(ctl) - 1)
  BY Popped, TopType
<1>2. /\ Top = ctl[Len(ctl)] /\ Len(ctl) - 1 + 1 = Len(ctl)
      /\ ctl[Len(ctl) - 1 + 1] = Top /\ F.base \in Nat
  <2>1. Len(ctl) \in Nat /\ Len(ctl) - 1 \in 1 .. Len(ctl) /\ Top = ctl[Len(ctl)]
    BY TopType
  <2>2. \A i \in 1 .. Len(ctl) : ctl[i].base \in Nat
    BY FrameType DEF Stacks
  <2> QED BY <2>1, <2>2
<1> HIDE DEF F
<1>3. \/ F.proc = "INTERP" /\ Top.proc # "INTERP" /\ n = F.base
      \/ F.proc = "EXPVAL" /\ Top.proc \in {"DEFFNC", "EXPVAL"} /\ n = F.base + 1 /\ stk'[n] \in ExprCells
      \/ F.proc = "TRPHND" /\ Top.proc = "DEFFNC" /\ n = F.base + 1 /\ stk'[n] \in TraceCells
      \/ F.proc = "DEFFNC" /\ Top.proc = "INTERP" /\ Slots(F.base, n, stk')
      \/ F.proc = "DEFFNC" /\ Top.proc \in {"DEFFNC", "EXPVAL"} /\ Around(F.base, n, stk')
  BY <1>1, <1>2 DEF Waits, F
<1>4. ASSUME Around(F.base, n, stk') PROVE F.base <= n
  <2> DEFINE a == stk'[n]
  <2>1. a.XCL \in 0 .. a.WCL /\ a.WCL \in Nat /\ n - 1 = F.base + 1 + a.WCL - a.XCL
    BY <1>4 DEF Around, Loop, ArgCells
  <2> HIDE DEF a
  <2> QED BY <1>1, <1>2, <2>1
<1>5. CASE todo'.op = "stop"
  BY <1>1, <1>5 DEF Frames
<1>6. CASE todo'.op = "ret" /\ Top.proc = "INTERP" /\ todo'.rc \in 4 .. 6
  BY <1>1, <1>3, <1>6 DEF Frames, Runs
<1>7. CASE todo'.op = "ret" /\ Top.proc \in {"DEFFNC", "EXPVAL"} /\ todo'.rc \in 1 .. 3
  <2>1. ASSUME F.proc = "INTERP" PROVE Runs'
    BY <1>1, <1>3, <1>7, <2>1 DEF Runs
  <2>2. ASSUME F.proc \in {"EXPVAL", "TRPHND"} PROVE Runs'
    BY <1>1, <1>3, <1>7, <2>2 DEF Runs
  <2>3. ASSUME F.proc = "DEFFNC", Around(F.base, n, stk') PROVE Runs'
    <3>1. todo'.rc = 1 \/ todo'.rc \in {2, 3}
      BY <1>7
    <3> QED BY <1>1, <1>4, <1>7, <2>3, <3>1 DEF Runs
  <2>4. Runs'
    BY <1>3, <1>7, <2>1, <2>2, <2>3
  <2> QED BY <1>1, <2>4, <1>7 DEF Frames
<1>8. CASE todo'.op = "fetch" /\ Top.proc = "TRPHND"
  BY <1>1, <1>3, <1>8 DEF Frames, Runs
<1> QED BY <1>5, <1>6, <1>7, <1>8

(* The data stack of a function's body.                                    *)
LEMMA Entered ==
  ASSUME Regs, Stacks, Frames, Enter
  PROVE  LET b == Top.base
             k == Len(Bound(defn))
             cell == [pos |-> pos, defn |-> defn]
         IN  /\ stk' \in Seq(Cells) /\ Len(stk') = b + k + 1
             /\ b \in Nat /\ k \in Nat \ {0}
             /\ \A j \in 1 .. b : stk'[j] = stk[j]
             /\ \A i \in 1 .. k : stk'[b + i] = Old(i) /\ Old(i) \in Values
             /\ stk'[b + k + 1] = cell /\ cell \in CallCells
<1> DEFINE b == Top.base
           k == Len(Bound(defn))
           cell == [pos |-> pos, defn |-> defn]
           low == SubSeq(stk, 1, b)
           slots == [i \in DOMAIN Bound(defn) |-> Old(i)]
           u == low \o slots
<1>1. /\ b \in Nat /\ args.YPTR = b /\ Len(stk) = b + 1 + args.WCL /\ args.WCL \in Nat
      /\ todo.op = "enter"
  BY GivenType DEF Enter
<1>2. stk' = u \o <<cell>>
  BY <1>1 DEF Enter
<1>3. defn \in Defs /\ k \in Nat \ {0} /\ DOMAIN Bound(defn) = 1 .. k
  BY BoundType, BoundNames DEF Stacks
<1>4. cell \in CallCells /\ cell \in Cells
  BY <1>3, CellTypes DEF CallCells, Regs
<1>5. \A i \in 1 .. k : Old(i) \in Values /\ Old(i) \in Cells
  BY <1>1, <1>3, OldType, CellTypes
<1>6. low \in Seq(Cells) /\ Len(low) = b /\ \A j \in 1 .. b : low[j] = stk[j]
  <2>1. b \in 0 .. Len(stk)
    BY <1>1
  <2> QED BY <2>1, Cut DEF Stacks
<1>7. slots \in Seq(Cells) /\ Len(slots) = k /\ \A i \in 1 .. k : slots[i] = Old(i)
  <2>1. slots \in [1 .. k -> Cells] /\ k \in Nat
    BY <1>3, <1>5
  <2> HIDE DEF slots
  <2>2. slots \in Seq(Cells) /\ Len(slots) = k
    BY <2>1, <1>3, IsASeq, SeqDef, LenProperties
  <2> QED BY <2>2, <1>3 DEF slots
<1> HIDE DEF b, k, cell, low, slots
<1>8. /\ u \in Seq(Cells) /\ Len(u) = b + k
      /\ \A j \in 1 .. b : u[j] = stk[j]
      /\ \A i \in 1 .. k : u[b + i] = Old(i)
  <2>1. /\ u \in Seq(Cells) /\ Len(u) = Len(low) + Len(slots)
        /\ \A j \in 1 .. Len(low) + Len(slots) :
              u[j] = IF j <= Len(low) THEN low[j] ELSE slots[j - Len(low)]
    BY <1>6, <1>7, ConcatProperties
  <2>2. ASSUME NEW j \in 1 .. b PROVE u[j] = stk[j]
    BY <2>1, <2>2, <1>1, <1>3, <1>6, <1>7
  <2>3. ASSUME NEW i \in 1 .. k PROVE u[b + i] = Old(i)
    <3>1. b + i \in 1 .. b + k /\ ~(b + i <= b) /\ b + i - b = i
      BY <1>1, <1>3
    <3>2. u[b + i] = slots[i]
      BY <2>1, <3>1, <1>6, <1>7
    <3> QED BY <3>2, <1>7
  <2> QED BY <2>1, <2>2, <2>3, <1>6, <1>7
<1> HIDE DEF u
<1>9. /\ stk' \in Seq(Cells) /\ Len(stk') = Len(u) + 1 /\ stk'[Len(u) + 1] = cell
      /\ \A i \in 1 .. Len(u) : stk'[i] = u[i]
  <2>1. stk' = Append(u, cell)
    BY <1>2, <1>4, <1>8, AppendIsConcat
  <2>2. /\ Append(u, cell) \in Seq(Cells) /\ Len(Append(u, cell)) = Len(u) + 1
        /\ Append(u, cell)[Len(u) + 1] = cell
        /\ \A i \in 1 .. Len(u) : Append(u, cell)[i] = u[i]
    BY <1>4, <1>8, Appended
  <2> QED BY <2>1, <2>2
<1>10. \A j \in 1 .. b : stk'[j] = stk[j]
  BY <1>1, <1>3, <1>8, <1>9
<1>11. ASSUME NEW i \in 1 .. k PROVE stk'[b + i] = Old(i)
  <2>1. b + i \in 1 .. Len(u)
    BY <1>1, <1>3, <1>8
  <2>2. stk'[b + i] = u[b + i]
    BY <2>1, <1>9
  <2> QED BY <2>2, <1>8
<1>12. stk'[b + k + 1] = cell /\ Len(stk') = b + k + 1
  BY <1>8, <1>9
<1> QED BY <1>1, <1>3, <1>4, <1>5, <1>9, <1>10, <1>11, <1>12 DEF b, k, cell

LEMMA EnterType ==
  ASSUME Regs, Stacks, Frames, Enter
  PROVE  Regs' /\ Stacks' /\ Frames'
<1> DEFINE b == Top.base
           k == Len(Bound(defn))
           n == Len(stk')
           fr == [proc |-> "INTERP", base |-> n]
<1>1. /\ stk' \in Seq(Cells) /\ n = b + k + 1 /\ b \in Nat /\ k \in Nat
      /\ \A j \in 1 .. b : stk'[j] = stk[j]
      /\ \A i \in 1 .. k : stk'[b + i] \in Values
      /\ stk'[n] = [pos |-> pos, defn |-> defn] /\ stk'[n] \in CallCells
  BY Entered
<1>2. /\ todo.op = "enter" /\ ctl' = Append(ctl, fr)
      /\ pos' = [pos EXCEPT !.OCBSCL = defn.entry, !.OCICL = 0]
      /\ LVLCL' = LVLCL + 1 /\ todo' = Fetch
      /\ UNCHANGED <<xit, err, lim, entering, ended>>
      /\ BindArguments /\ defn.entry \in Labels
  BY DEF Enter
<1>3. Top.proc = "DEFFNC" /\ Top = ctl[Len(ctl)] /\ Len(ctl) \in 1 .. Len(ctl)
  BY <1>2, GivenType, TopType
<1>4. fr \in ProcFrames /\ fr.proc = "INTERP" /\ fr.base = n
  BY <1>1 DEF ProcFrames, Procs
<1> HIDE DEF fr
<1>5. /\ ctl' \in Seq(ProcFrames) \ {<<>>} /\ Len(ctl') = Len(ctl) + 1
      /\ ctl'[Len(ctl)] = Top /\ ctl'[Len(ctl) + 1] = fr
  <2>1. /\ Append(ctl, fr) \in Seq(ProcFrames) /\ Append(ctl, fr) # <<>>
        /\ Len(Append(ctl, fr)) = Len(ctl) + 1
        /\ Append(ctl, fr)[Len(ctl) + 1] = fr
        /\ \A i \in 1 .. Len(ctl) : Append(ctl, fr)[i] = ctl[i]
    BY <1>4, Appended DEF Stacks
  <2> QED BY <2>1, <1>2, <1>3
<1>6. Slots(b, n, stk')
  <2>1. stk'[n].defn = defn
    BY <1>1
  <2>2. \A j \in b + 1 .. n - 1 : stk'[j] \in Values
    <3>1. ASSUME NEW j \in b + 1 .. n - 1 PROVE stk'[j] \in Values
      <4>1. j - b \in 1 .. k /\ b + (j - b) = j
        BY <1>1, SMTT(60)
      <4>2. stk'[b + (j - b)] \in Values
        BY <1>1, <4>1
      <4> QED BY <4>1, <4>2
    <3> QED BY <3>1
  <2> QED BY <1>1, <2>1, <2>2 DEF Slots
<1>7. Stacked(ctl', stk')
  <2>1. Waits(ctl', stk', Len(ctl))
    BY <1>3, <1>4, <1>5, <1>6 DEF Waits
  <2>2. b <= fr.base /\ \A j \in 1 .. b : stk'[j] = stk[j]
    BY <1>1, <1>4
  <2>3. Stacked(Append(ctl, fr), stk')
    BY <1>2, <1>3, <1>4, <2>1, <2>2, StackedPush DEF Stacks, Frames
  <2> QED BY <2>3, <1>2
<1>8. Top' = fr /\ todo'.op = "fetch"
  BY <1>2, <1>5 DEF Top, Fetch
<1>9. Frames'
  BY <1>4, <1>7, <1>8 DEF Frames, Runs
<1>10. Regs'
  <2>1. defn.entry \in Blocks
    BY <1>2 DEF Blocks
  <2>2. pos' \in Positions
    BY <2>1, <1>2, Moves
  <2>3. todo' \in TodoType
    BY <1>2 DEF Fetch, TodoType, Values
  <2> QED BY <1>2, <2>2, <2>3 DEF Regs
<1>11. Stacks'
  <2>1. args' \in ArgCells /\ value' \in [Names -> Values] /\ defn' \in Defs
    BY <1>2, BindType
  <2>2. LVLCL' \in Nat
    BY <1>2 DEF Stacks
  <2>3. stk' \in Seq(Cells) /\ ctl' \in Seq(ProcFrames) \ {<<>>}
    BY <1>1, <1>5
  <2> QED BY <2>1, <2>2, <2>3 DEF Stacks
<1> QED BY <1>9, <1>10, <1>11

LEMMA EnterUndefinedType ==
  ASSUME Regs, Stacks, Frames, EnterUndefined
  PROVE  Regs' /\ Stacks' /\ Frames'
<1>1. /\ todo.op = "enter" /\ BindArguments /\ Leaves(stk) /\ Raise(9, FALSE, pos)
      /\ UNCHANGED <<LVLCL, ended>>
  BY DEF EnterUndefined, Leaves
<1>2. Top.proc = "DEFFNC" /\ todo.op # "stop" /\ Len(ctl) > 1
  BY <1>1, GivenType, Bottom
<1>3. Regs' /\ (todo'.op = "stop" \/ todo' = Ret(1, Null))
  <2>1. pos \in Positions
    BY DEF Regs
  <2> QED BY <1>1, <2>1, RaiseType
<1>4. Frames'
  BY <1>1, <1>2, <1>3, PopType DEF Ret
<1>5. Stacks'
  BY <1>1, <1>2, Popped, BindType DEF Stacks
<1> QED BY <1>3, <1>4, <1>5

(* What a body has kept for the return of its call.                        *)
LEMMA KeptOnTop ==
  ASSUME Stacks, Frames, Gets("DEFFNC", {4, 5, 6})
  PROVE  LET kept == stk[Len(stk)]
             slots == Len(stk) - 1 - Len(Bound(kept.defn))
         IN  /\ kept \in CallCells /\ kept.defn \in Defs /\ kept.pos \in Positions
             /\ slots = Top.base /\ Top.base \in Nat
             /\ \A i \in 1 .. Len(Bound(kept.defn)) : stk[slots + i] \in Values
             /\ todo.op = "ret" /\ todo.rc \in {4, 5, 6} /\ Top.proc = "DEFFNC"
<1> DEFINE kept == stk[Len(stk)]
           k == Len(Bound(kept.defn))
<1>1. todo.op = "ret" /\ todo.rc \in {4, 5, 6} /\ Top.proc = "DEFFNC"
  BY DEF Gets
<1>2. Slots(Top.base, Len(stk), stk)
  BY <1>1 DEF Frames, Runs
<1>3. kept \in CallCells /\ Len(stk) = Top.base + k + 1
      /\ \A j \in Top.base + 1 .. Len(stk) - 1 : stk[j] \in Values
  BY <1>2 DEF Slots
<1>4. kept.defn \in Defs /\ kept.pos \in Positions /\ k \in Nat
  BY <1>3, BoundType DEF CallCells
<1>5. Top.base \in Nat
  BY TopType
<1> HIDE DEF k, kept
<1>6. Len(stk) - 1 - k = Top.base
  BY <1>3, <1>4, <1>5
<1>7. ASSUME NEW i \in 1 .. k PROVE stk[Top.base + i] \in Values
  <2>1. Top.base + i \in Top.base + 1 .. Len(stk) - 1
    BY <1>3, <1>4, <1>5
  <2> QED BY <2>1, <1>3
<1> QED BY <1>1, <1>3, <1>4, <1>5, <1>6, <1>7 DEF k, kept

LEMMA ReturnType ==
  ASSUME Regs, Stacks, Frames, LVLCL >= 1, Return
  PROVE  Regs' /\ Stacks' /\ Frames'
<1> DEFINE kept == stk[Len(stk)]
           slots == Len(stk) - 1 - Len(Bound(kept.defn))
           result == value[kept.defn.name]
<1>1. /\ kept.defn \in Defs /\ kept.pos \in Positions
      /\ slots = Top.base /\ Top.base \in Nat
      /\ \A i \in 1 .. Len(Bound(kept.defn)) : stk[slots + i] \in Values
      /\ todo.op = "ret" /\ todo.rc \in {4, 5, 6} /\ Top.proc = "DEFFNC"
  BY KeptOnTop DEF Return
<1>2. /\ value' = [v \in Names |->
                           IF At(kept.defn, v) = {} THEN value[v]
                           ELSE stk[slots + LastPopped(kept.defn, v)]]
      /\ \/ /\ todo.rc # 5 \/ result # Null
            /\ todo' = CASE todo.rc = 4 -> Ret(1, Null)
                              [] todo.rc = 5 -> Ret(2, result)
                              [] todo.rc = 6 -> Ret(3, result)
            /\ pos' = kept.pos
            /\ UNCHANGED <<xit, err, lim, entering>>
         \/ /\ todo.rc = 5 /\ result = Null
            /\ Raise(4, FALSE, kept.pos)
      /\ LVLCL' = LVLCL - 1
      /\ Leaves(stk)
      /\ UNCHANGED <<defn, args, ended>>
  BY DEF Return, CallerPos, Lowered, Leaves
<1>3. Len(ctl) > 1 /\ todo.op # "stop"
  BY <1>1, Bottom
<1> HIDE DEF kept, slots
<1>4. value' \in [Names -> Values]
  <2>1. ASSUME NEW v \in Names, At(kept.defn, v) # {}
        PROVE  stk[slots + LastPopped(kept.defn, v)] \in Values
    <3>1. At(kept.defn, v) \subseteq 1 .. Len(Bound(kept.defn)) /\ At(kept.defn, v) \subseteq Nat
      BY <1>1, BoundNames
    <3>2. LastPopped(kept.defn, v) \in 1 .. Len(Bound(kept.defn))
      BY <2>1, <3>1, MinOf DEF LastPopped
    <3> QED BY <1>1, <3>2
  <2>2. \A v \in Names : value[v] \in Values
    BY DEF Stacks
  <2> QED BY <1>2, <2>1, <2>2
<1>5. result \in Values
  <2>1. kept.defn.name \in Names
    BY <1>1, ProgramAssumption
  <2> QED BY <2>1 DEF Stacks
<1> HIDE DEF result
<1>6. /\ Regs'
      /\ todo'.op = "stop" \/ (todo'.op = "ret" /\ todo'.rc \in 1 .. 3)
      /\ todo'.op = "ret" /\ todo'.rc = 2 => todo'.v \in Names
  <2>1. CASE /\ todo.rc # 5 \/ result # Null
             /\ todo' = CASE todo.rc = 4 -> Ret(1, Null)
                              [] todo.rc = 5 -> Ret(2, result)
                              [] todo.rc = 6 -> Ret(3, result)
             /\ pos' = kept.pos
             /\ UNCHANGED <<xit, err, lim, entering>>
    <3>1. \/ todo' = Ret(1, Null)
          \/ todo' = Ret(2, result) /\ result # Null
          \/ todo' = Ret(3, result)
      BY <1>1, <2>1
    <3>2. todo' \in TodoType /\ todo'.op = "ret" /\ todo'.rc \in 1 .. 3
          /\ (todo'.rc = 2 => todo'.v \in Names)
      BY <3>1, <1>5 DEF Ret, TodoType, Values
    <3> QED BY <1>1, <1>2, <2>1, <3>2 DEF Regs
  <2>2. CASE Raise(4, FALSE, kept.pos)
    <3>1. Regs' /\ (todo'.op = "stop" \/ todo' = Ret(1, Null))
      BY <1>1, <1>2, <2>2, RaiseType
    <3> QED BY <3>1 DEF Ret
  <2> QED BY <1>2, <2>1, <2>2
<1>7. Frames'
  BY <1>1, <1>2, <1>3, <1>6, PopType
<1>8. LVLCL' \in Nat
  BY <1>2 DEF Stacks
<1>9. Stacks'
  BY <1>2, <1>3, <1>4, <1>8, Popped DEF Stacks
<1> QED BY <1>6, <1>7, <1>9

LEMMA CallFailsType ==
  ASSUME Regs, Stacks, Frames, CallFails
  PROVE  Regs' /\ Stacks' /\ Frames'
<1>1. /\ todo.op = "ret" /\ todo.rc = 1 /\ Top.proc = "DEFFNC" /\ Leaves(stk)
      /\ args' = Clobbered
      /\ UNCHANGED <<value, defn, pos, LVLCL, xit, err, lim, todo, entering, ended>>
  BY DEF CallFails, Gets
<1>2. Len(ctl) > 1 /\ todo.op # "stop"
  BY <1>1, Bottom
<1>3. Frames'
  BY <1>1, <1>2, PopType
<1>4. args' \in ArgCells
  BY <1>1 DEF Clobbered, ArgCells
<1> QED BY <1>1, <1>2, <1>3, <1>4, Popped DEF Regs, Stacks

LEMMA ExprType ==
  ASSUME Regs, Stacks, Frames, EXPVAL \/ ExprVariable \/ ExprReturn \/ TraceReturn
  PROVE  Regs' /\ Stacks' /\ Frames'
<1>1. CASE EXPVAL
  <2> DEFINE cell == [pos |-> Step, XCL |-> args.XCL]
             b == Len(stk \o Keeps)
  <2>1. /\ todo.op = "fetch" /\ Top.proc # "TRPHND"
        /\ ctl' = Append(ctl, [proc |-> "EXPVAL", base |-> b])
        /\ stk' = stk \o Keeps \o <<cell>>
        /\ pos' = [pos EXCEPT !.OCBSCL = Expr, !.OCICL = 0]
        /\ UNCHANGED <<value, defn, args, LVLCL, xit, err, lim, todo, entering, ended>>
    BY <1>1 DEF EXPVAL
  <2>2. cell \in ExprCells /\ cell \in Cells
    BY StepType, CellTypes DEF ExprCells, Stacks, ArgCells
  <2> HIDE DEF cell, b
  <2>3. /\ stk' \in Seq(Cells) /\ ctl' \in Seq(ProcFrames) \ {<<>>}
        /\ Stacked(ctl, stk)'
        /\ Top' = [proc |-> "EXPVAL", base |-> b]
        /\ Len(stk') = b + 1
        /\ stk'[Len(stk')] = cell
    BY <2>1, <2>2, Invoked DEF b
  <2>4. Runs'
    BY <2>1, <2>2, <2>3 DEF Runs
  <2>5. pos' \in Positions
    BY <2>1, Moves DEF Blocks
  <2> QED BY <2>1, <2>3, <2>4, <2>5 DEF Regs, Stacks, Frames
<1>2. CASE ExprVariable
  <2>1. /\ todo.op = "fetch" /\ Top.proc = "EXPVAL" /\ pos' = Step
        /\ UNCHANGED <<value, defn, stk, ctl, args, LVLCL, xit, err, lim, entering, ended>>
    BY <1>2 DEF ExprVariable, Reads
  <2>2. PICK v \in Names : todo' = Ret(2, v)
    BY <1>2 DEF ExprVariable
  <2>3. todo' \in TodoType /\ todo'.op = "ret" /\ todo'.rc = 2 /\ todo'.v \in Names
    BY <2>2 DEF Ret, TodoType, Values
  <2>4. Frames'
    <3>1. Runs /\ Top' = Top /\ Stacked(ctl, stk)'
      BY <2>1 DEF Frames, Top
    <3>2. Runs'
      BY <2>1, <2>3, <3>1 DEF Runs
    <3> QED BY <2>3, <3>1, <3>2 DEF Frames
  <2> QED BY <2>1, <2>3, <2>4, StepType DEF Regs, Stacks
<1>3. CASE ExprReturn
  <2> DEFINE kept == stk[Len(stk)]
  <2>1. /\ todo.op = "ret" /\ todo.rc \in 1 .. 3 /\ Top.proc = "EXPVAL"
        /\ pos' = [pos EXCEPT !.OCBSCL = kept.pos.OCBSCL, !.OCICL = kept.pos.OCICL]
        /\ args' = [Clobbered EXCEPT !.XCL = kept.XCL]
        /\ Leaves(stk)
        /\ UNCHANGED <<value, defn, LVLCL, xit, err, lim, todo, entering, ended>>
    BY <1>3 DEF ExprReturn, Gets
  <2>2. kept \in ExprCells
    BY <2>1 DEF Frames, Runs
  <2>3. kept.pos.OCBSCL \in Blocks \cup NoBlocks /\ kept.pos.OCICL \in Nat /\ kept.XCL \in Int
    BY <2>2 DEF ExprCells, Positions
  <2> HIDE DEF kept
  <2>4. pos' \in Positions
    BY <2>1, <2>3, Moves
  <2>5. args' \in ArgCells
    BY <2>1, <2>3 DEF Clobbered, ArgCells
  <2>6. Len(ctl) > 1 /\ todo.op # "stop"
    BY <2>1, Bottom
  <2>7. Frames'
    <3>1. todo.rc = 2 => todo.v \in Names
      BY <2>1 DEF Frames
    <3> QED BY <2>1, <2>6, <3>1, PopType
  <2> QED BY <2>1, <2>4, <2>5, <2>6, <2>7, Popped DEF Regs, Stacks
<1>4. CASE TraceReturn
  <2> DEFINE kept == stk[Len(stk)]
  <2>1. /\ todo.op = "ret" /\ todo.rc \in 1 .. 3 /\ Top.proc = "TRPHND"
        /\ pos' = kept.pos
        /\ lim' = [lim EXCEPT !.trace = kept.trace]
        /\ Leaves(stk) /\ todo' = Fetch
        /\ UNCHANGED <<value, defn, args, LVLCL, xit, err, entering, ended>>
    BY <1>4 DEF TraceReturn, Gets
  <2>2. kept \in TraceCells
    BY <2>1 DEF Frames, Runs
  <2>3. kept.pos \in Positions /\ kept.trace \in Nat
    BY <2>2 DEF TraceCells
  <2> HIDE DEF kept
  <2>4. Len(ctl) > 1 /\ todo.op # "stop"
    BY <2>1, Bottom
  <2>5. todo' \in TodoType /\ todo'.op = "fetch"
    BY <2>1 DEF Fetch, TodoType, Values
  <2>6. Frames'
    BY <2>1, <2>4, <2>5, PopType
  <2>7. lim' \in [st : Nat, err : Nat, ftl : Nat, trace : Nat]
    BY <2>1, <2>3 DEF Regs
  <2> QED BY <2>1, <2>3, <2>4, <2>5, <2>6, <2>7, Popped DEF Regs, Stacks
<1> QED BY <1>1, <1>2, <1>3, <1>4

LEMMA ExitType ==
  ASSUME Regs, Stacks, Frames, StatementFails \/ StatementGoesOn \/ InterpReturn
  PROVE  Regs' /\ Stacks' /\ Frames'
<1>1. CASE StatementFails
  <2> DEFINE p == [pos EXCEPT !.OCICL = pos.FRTNCL]
  <2>1. /\ todo.op = "ret" /\ Top.proc = "INTERP" /\ todo' = Fetch
        /\ UNCHANGED <<value, defn, args, LVLCL, xit, err, entering, ended>>
        /\ \/ pos' = p /\ UNCHANGED <<stk, ctl, lim>>
           \/ TRPHND(p) /\ lim' = [lim EXCEPT !.trace = 0]
    BY <1>1 DEF StatementFails, Gets
  <2>2. p \in Positions
    BY Moves DEF Regs, Positions
  <2> HIDE DEF p
  <2>3. todo' \in TodoType /\ todo'.op = "fetch"
    BY <2>1 DEF Fetch, TodoType, Values
  <2>4. CASE pos' = p /\ UNCHANGED <<stk, ctl, lim>>
    BY <2>1, <2>2, <2>3, <2>4, Quiet DEF Regs, Stacks
  <2>5. CASE TRPHND(p) /\ lim' = [lim EXCEPT !.trace = 0]
    <3>1. lim.trace \in Nat \ {0} /\ lim' \in [st : Nat, err : Nat, ftl : Nat, trace : Nat]
      <4>1. lim.trace > 0
        BY <2>5 DEF TRPHND
      <4>2. lim \in [st : Nat, err : Nat, ftl : Nat, trace : Nat]
        BY DEF Regs
      <4> QED BY <2>5, <4>1, <4>2
    <3>2. Stacks' /\ Frames' /\ pos' \in Positions
      BY <2>1, <2>2, <2>3, <2>5, <3>1, Traced
    <3> QED BY <2>1, <2>3, <3>1, <3>2 DEF Regs
  <2> QED BY <2>1, <2>4, <2>5
<1>2. CASE StatementGoesOn
  <2>1. /\ todo.op = "ret" /\ Top.proc = "INTERP" /\ todo' = Fetch
        /\ UNCHANGED <<value, defn, stk, ctl, pos, args, LVLCL, xit, err, lim, entering, ended>>
    BY <1>2 DEF StatementGoesOn, Gets
  <2>2. todo' \in TodoType
    BY <2>1 DEF Fetch, TodoType, Values
  <2> QED BY <2>1, <2>2, Quiet DEF Regs, Stacks
<1>3. CASE InterpReturn
  <2>1. /\ todo.op = "ret" /\ Top.proc = "INTERP" /\ todo.rc \in 4 .. 6
        /\ UNCHANGED <<value, defn, pos, args, LVLCL, ended>>
    BY <1>3 DEF InterpReturn, Gets
  <2>2. CASE Len(ctl) > 1 /\ Leaves(stk) /\ UNCHANGED <<xit, err, lim, todo, entering>>
    <3>1. Frames'
      BY <2>1, <2>2, PopType
    <3> QED BY <2>1, <2>2, <3>1, Popped DEF Regs, Stacks
  <2>3. CASE Stop /\ err' = [err EXCEPT !.typ = 18] /\ UNCHANGED <<stk, ctl>>
    <3>1. todo' \in TodoType /\ todo'.op = "stop" /\ err' \in [typ : Nat, fatal : BOOLEAN]
      BY <2>3 DEF Stop, Stopped, TodoType, Values, Regs
    <3> QED BY <2>1, <2>3, <3>1, Quiet DEF Regs, Stacks, Stop
  <2> QED BY <1>3, <2>2, <2>3 DEF InterpReturn
<1> QED BY <1>1, <1>2, <1>3

-----------------------------------------------------------------------------
(* What a step may do to the calls in progress.                            *)

Height(i) == IF i < Len(ctl) THEN ctl[i + 1].base ELSE Len(stk)

(* The first m procedures and their cells are as they were.                *)
Lasting(m) ==
    \A i \in 1 .. m : /\ i <= Len(ctl') /\ ctl'[i] = ctl[i] /\ Height(i)' = Height(i)
                      /\ \A j \in 1 .. Height(i) : stk'[j] = stk[j]

(* The running procedure goes on, calls another one, or returns.           *)
Stays == /\ UNCHANGED ctl /\ \A j \in 1 .. Top.base : stk'[j] = stk[j]
         /\ ~BodyOf(ctl, todo, Len(ctl)) /\ ~BodyOf(ctl', todo', Len(ctl))

Calls(p) == /\ Len(ctl') = Len(ctl) + 1 /\ \A i \in 1 .. Len(ctl) : ctl'[i] = ctl[i]
            /\ ctl'[Len(ctl) + 1].proc = p /\ \A j \in 1 .. Top.base : stk'[j] = stk[j]
            /\ ~BodyOf(ctl, todo, Len(ctl)) /\ todo'.op # "ret"

Returns == /\ Len(ctl) > 1 /\ Len(ctl') = Len(ctl) - 1
           /\ \A i \in 1 .. Len(ctl) - 1 : ctl'[i] = ctl[i]
           /\ Len(stk') = Top.base /\ \A j \in 1 .. Top.base : stk'[j] = stk[j]
           /\ BodyOf(ctl', todo', Len(ctl) - 1) <=> BodyOf(ctl, todo, Len(ctl) - 1)

Shaped == Stays \/ Returns \/ \E p \in Procs : Calls(p)

LEMMA Lasts ==
  ASSUME Stacks, Frames, Shaped
  PROVE  Lasting(Len(ctl) - 1)
<1> SUFFICES ASSUME NEW i \in 1 .. Len(ctl) - 1
             PROVE  /\ i <= Len(ctl') /\ ctl'[i] = ctl[i] /\ Height(i)' = Height(i)
                    /\ \A j \in 1 .. Height(i) : stk'[j] = stk[j]
  BY DEF Lasting
<1>1. /\ Len(ctl) \in Nat /\ i \in 1 .. Len(ctl) /\ i + 1 \in 1 .. Len(ctl)
      /\ Len(ctl) \in 1 .. Len(ctl) /\ Top = ctl[Len(ctl)]
  BY TopType
<1>2. Height(i) = ctl[i + 1].base /\ ctl[i + 1].base \in Nat /\ Top.base \in Nat
  BY <1>1, FrameType DEF Height, Stacks
<1>3. Height(i) <= Top.base
  BY <1>1, <1>2 DEF Frames, Stacked
<1>4. \A j \in 1 .. Top.base : stk'[j] = stk[j]
  BY DEF Shaped, Stays, Calls, Returns
<1>5. \A j \in 1 .. Height(i) : stk'[j] = stk[j]
  BY <1>2, <1>3, <1>4
<1>6. CASE Stays
  BY <1>1, <1>2, <1>5, <1>6 DEF Stays, Height
<1>7. CASE \E p \in Procs : Calls(p)
  BY <1>1, <1>2, <1>5, <1>7 DEF Calls, Height
<1>8. CASE Returns
  <2>1. /\ Len(ctl') = Len(ctl) - 1 /\ Len(stk') = Top.base
        /\ \A k \in 1 .. Len(ctl) - 1 : ctl'[k] = ctl[k]
    BY <1>8 DEF Returns
  <2>2. ctl'[i] = ctl[i] /\ i <= Len(ctl')
    BY <1>1, <2>1
  <2>3. CASE i = Len(ctl) - 1
    <3>1. ~(i < Len(ctl')) /\ i + 1 = Len(ctl)
      BY <1>1, <2>1, <2>3
    <3> QED BY <1>1, <1>2, <1>5, <2>1, <2>2, <3>1 DEF Height
  <2>4. CASE i < Len(ctl) - 1
    <3>1. i < Len(ctl') /\ i + 1 \in 1 .. Len(ctl) - 1
      BY <1>1, <2>1, <2>4
    <3> QED BY <1>2, <1>5, <2>1, <2>2, <3>1 DEF Height
  <2> QED BY <1>1, <2>3, <2>4
<1> QED BY <1>6, <1>7, <1>8 DEF Shaped

LEMMA BodiesType ==
  ASSUME Stacks
  PROVE  /\ Bodies \subseteq 1 .. Len(ctl) /\ Bodies \subseteq Nat /\ IsFiniteSet(Bodies)
         /\ Cardinality(Bodies) \in Nat
<1>1. Bodies \subseteq 1 .. Len(ctl) /\ Len(ctl) \in Nat
  BY TopType DEF Bodies
<1>2. IsFiniteSet(1 .. Len(ctl))
  BY <1>1, FS_Interval
<1>3. IsFiniteSet(Bodies)
  BY <1>1, <1>2, FS_Subset
<1>4. Cardinality(Bodies) \in Nat
  BY <1>3, FS_CardinalityType
<1> QED BY <1>1, <1>3, <1>4

(* Bodies are told by a procedure and the one it has called.               *)
LEMMA BodiesBelow ==
  ASSUME Stacks, NEW i \in Nat \ {0}, i < Len(ctl), i < Len(ctl'),
         ctl'[i] = ctl[i], ctl'[i + 1].proc = ctl[i + 1].proc
  PROVE  BodyOf(ctl', todo', i) <=> BodyOf(ctl, todo, i)
BY DEF BodyOf

LEMMA BodiesStep ==
  ASSUME Stacks, Stacks', Frames, Shaped
  PROVE  /\ Stays => Bodies' = Bodies
         /\ Returns => Bodies' = Bodies \ {Len(ctl)}
         /\ \A p \in Procs : Calls(p) =>
              /\ Len(ctl) \notin Bodies
              /\ Bodies' = IF p = "INTERP" /\ Top.proc = "DEFFNC"
                           THEN Bodies \cup {Len(ctl)} ELSE Bodies
<1>1. /\ Len(ctl) \in Nat \ {0} /\ Len(ctl)' \in Nat
      /\ DOMAIN ctl = 1 .. Len(ctl) /\ (DOMAIN ctl)' = 1 .. Len(ctl')
      /\ Top = ctl[Len(ctl)]
  BY TopType
<1>2. /\ Bodies = {i \in 1 .. Len(ctl) : BodyOf(ctl, todo, i)}
      /\ Bodies' = {i \in 1 .. Len(ctl') : BodyOf(ctl', todo', i)}
  BY <1>1 DEF Bodies, InBody, BodyOf
<1>3. ASSUME Stays PROVE Bodies' = Bodies
  <2>1. ASSUME NEW i \in 1 .. Len(ctl) PROVE BodyOf(ctl', todo', i) <=> BodyOf(ctl, todo, i)
    <3>1. CASE i < Len(ctl)
      BY <1>1, <1>3, <3>1, BodiesBelow DEF Stays
    <3>2. CASE i = Len(ctl)
      BY <1>3, <3>2 DEF Stays
    <3>3. i < Len(ctl) \/ i = Len(ctl)
      <4>1. Len(ctl) \in Nat
        BY <1>1
      <4> QED BY <4>1, <2>1
    <3> QED BY <3>1, <3>2, <3>3
  <2> QED BY <1>2, <1>3, <2>1 DEF Stays
<1>4. ASSUME Returns PROVE Bodies' = Bodies \ {Len(ctl)}
  <2>1. Len(ctl') = Len(ctl) - 1 /\ \A i \in 1 .. Len(ctl) - 1 : ctl'[i] = ctl[i]
    BY <1>4 DEF Returns
  <2>2. ASSUME NEW i \in 1 .. Len(ctl) - 1 PROVE BodyOf(ctl', todo', i) <=> BodyOf(ctl, todo, i)
    <3>1. CASE i < Len(ctl) - 1
      <4>1. i \in Nat \ {0} /\ i < Len(ctl) /\ i < Len(ctl') /\ i + 1 \in 1 .. Len(ctl) - 1
        BY <1>1, <2>1, <3>1
      <4> QED BY <2>1, <4>1, BodiesBelow
    <3>2. CASE i = Len(ctl) - 1
      BY <1>4, <3>2 DEF Returns
    <3>3. i < Len(ctl) - 1 \/ i = Len(ctl) - 1
      <4>1. Len(ctl) \in Nat
        BY <1>1
      <4> QED BY <4>1, <2>2
    <3> QED BY <3>1, <3>2, <3>3
  <2> QED BY <1>1, <1>2, <2>1, <2>2
<1>5. ASSUME NEW p \in Procs, Calls(p)
      PROVE  /\ Len(ctl) \notin Bodies
             /\ Bodies' = IF p = "INTERP" /\ Top.proc = "DEFFNC"
                          THEN Bodies \cup {Len(ctl)} ELSE Bodies
  <2>1. /\ Len(ctl') = Len(ctl) + 1 /\ \A i \in 1 .. Len(ctl) : ctl'[i] = ctl[i]
        /\ ctl'[Len(ctl) + 1].proc = p /\ ~BodyOf(ctl, todo, Len(ctl)) /\ todo'.op # "ret"
    BY <1>5 DEF Calls
  <2>2. ASSUME NEW i \in 1 .. Len(ctl) - 1 PROVE BodyOf(ctl', todo', i) <=> BodyOf(ctl, todo, i)
    <3>1. i \in Nat \ {0} /\ i < Len(ctl) /\ i < Len(ctl') /\ i + 1 \in 1 .. Len(ctl)
      BY <1>1, <2>1
    <3> QED BY <2>1, <3>1, BodiesBelow
  <2>3. BodyOf(ctl', todo', Len(ctl)) <=> Top.proc = "DEFFNC" /\ p = "INTERP"
    BY <1>1, <2>1 DEF BodyOf
  <2>4. ~BodyOf(ctl', todo', Len(ctl) + 1)
    BY <1>1, <2>1 DEF BodyOf
  <2>5. 1 .. Len(ctl') = (1 .. Len(ctl) - 1) \cup {Len(ctl), Len(ctl) + 1}
        /\ 1 .. Len(ctl) = (1 .. Len(ctl) - 1) \cup {Len(ctl)}
    BY <1>1, <2>1
  <2>6. Bodies = {i \in 1 .. Len(ctl) - 1 : BodyOf(ctl, todo, i)}
    BY <1>2, <2>1, <2>5
  <2>7. Bodies' = {i \in 1 .. Len(ctl) - 1 : BodyOf(ctl, todo, i)}
                     \cup {i \in {Len(ctl)} : Top.proc = "DEFFNC" /\ p = "INTERP"}
    BY <1>2, <2>2, <2>3, <2>4, <2>5
  <2>8. Len(ctl) \notin Bodies
    BY <1>2, <2>1
  <2> QED BY <2>6, <2>7, <2>8
<1> QED BY <1>3, <1>4, <1>5

LEMMA StaysHere ==
  ASSUME Stacks, UNCHANGED <<stk, ctl>>,
         \/ Top.proc # "DEFFNC"
         \/ ~(todo.op = "ret" /\ todo.rc > 3) /\ ~(todo'.op = "ret" /\ todo'.rc > 3)
  PROVE  Stays
BY TopType DEF Stays, BodyOf, Top

LEMMA CallsOne ==
  ASSUME Stacks, Frames, NEW p \in Procs, NEW cell, Pushed(p, cell),
         Top.proc = "INTERP" \/ todo.op = "fetch", todo'.op # "ret", todo.op # "stop"
  PROVE  Calls(p)
<1>1. /\ Len(ctl') = Len(ctl) + 1 /\ \A i \in 1 .. Len(ctl) : ctl'[i] = ctl[i]
      /\ ctl'[Len(ctl) + 1].proc = p
      /\ \A j \in 1 .. Len(stk) : stk'[j] = stk[j]
  BY DEF Pushed
<1>2. Top.base <= Len(stk) /\ Top.base \in Nat /\ Len(stk) \in Nat
  BY TopType, BaseBelow
<1>3. \A j \in 1 .. Top.base : stk'[j] = stk[j]
  BY <1>1, <1>2
<1>4. ~BodyOf(ctl, todo, Len(ctl))
  BY DEF BodyOf, Top
<1> QED BY <1>1, <1>3, <1>4 DEF Calls

LEMMA ReturnsOne ==
  ASSUME Stacks, Frames, todo.op # "stop", Len(ctl) > 1, Leaves(stk),
         IF Top.proc = "INTERP" THEN todo.op = "ret" /\ todo.rc > 3 /\ UNCHANGED todo
         ELSE ~(todo'.op = "ret" /\ todo'.rc > 3)
  PROVE  Returns
<1> DEFINE F == ctl[Len(ctl) - 1]
<1>1. /\ Len(stk') = Top.base /\ \A j \in 1 .. Top.base : stk'[j] = stk[j]
      /\ Len(ctl') = Len(ctl) - 1 /\ \A i \in 1 .. Len(ctl) - 1 : ctl'[i] = ctl[i]
      /\ Top' = F /\ Waits(ctl, stk', Len(ctl) - 1)
  BY Popped
<1>2. Len(ctl) \in Nat /\ Len(ctl) - 1 + 1 = Len(ctl) /\ Top = ctl[Len(ctl)]
      /\ Len(ctl) - 1 < Len(ctl) /\ Len(ctl) - 1 \in 1 .. Len(ctl) - 1
  BY TopType
<1>3. Top.proc = "INTERP" => F.proc = "DEFFNC"
  BY <1>1, <1>2 DEF Waits
<1>4. BodyOf(ctl, todo, Len(ctl) - 1) <=> Top.proc = "INTERP"
  <2>1. BodyOf(ctl, todo, Len(ctl) - 1) <=> F.proc = "DEFFNC" /\ Top.proc = "INTERP"
    BY <1>2 DEF BodyOf
  <2> QED BY <2>1, <1>3
<1>5. BodyOf(ctl', todo', Len(ctl) - 1) <=> Top.proc = "INTERP"
  <2>1. ctl'[Len(ctl) - 1] = F /\ ~(Len(ctl) - 1 < Len(ctl'))
    BY <1>1, <1>2
  <2>2. BodyOf(ctl', todo', Len(ctl) - 1) <=>
           F.proc = "DEFFNC" /\ todo'.op = "ret" /\ todo'.rc > 3
    BY <2>1 DEF BodyOf
  <2> QED BY <2>2, <1>3
<1> QED BY <1>1, <1>4, <1>5 DEF Returns

LEMMA ShapeOfPlain ==
  ASSUME Regs, Stacks, Frames,
         \/ Assign \/ SETXIT \/ Fails \/ PrimitiveError
         \/ GOTO \/ GotoLabel \/ GotoUndefined \/ GotoFails \/ GotoReturn \/ GotoAbort
         \/ GotoContinue \/ Crash \/ END
         \/ ExprVariable \/ StatementGoesOn
  PROVE  /\ Regs' /\ Stacks' /\ Frames' /\ Stays /\ todo.op # "stop" /\ UNCHANGED LVLCL
         /\ UNCHANGED <<stk, ctl, args>>
<1>1. /\ UNCHANGED <<stk, ctl, args, LVLCL>>
      /\ todo.op # "stop" /\ (Top.proc = "DEFFNC" => todo.op = "fetch")
  BY DEF Assign, SETXIT, Fails, PrimitiveError, GOTO, GotoLabel, GotoUndefined, GotoFails,
         GotoReturn, GotoAbort, GotoContinue, Crash, END, ExprVariable, StatementGoesOn, GotoKeeps, InGoto, Reads, Gets
<1>2. Regs' /\ Stacks' /\ Frames'
  BY StatementType, GotoType, EndType, ExprType, ExitType
<1>3. Top.proc = "DEFFNC" => Fails \/ PrimitiveError
  BY DEF Assign, SETXIT, GOTO, GotoLabel, GotoUndefined, GotoFails, GotoReturn, GotoAbort,
         GotoContinue, Crash, END, ExprVariable, StatementGoesOn, InGoto, Reads, Gets
<1>4. ASSUME Fails \/ PrimitiveError PROVE todo'.op = "stop" \/ todo'.rc = 1
  <2>1. CASE Fails
    BY <2>1 DEF Fails, Ret
  <2>2. CASE PrimitiveError
    <3>1. PICK fatal \in BOOLEAN : Raise(1, fatal, Step)
      BY <2>2 DEF PrimitiveError
    <3>2. UNCHANGED ended
      BY <2>2 DEF PrimitiveError
    <3>3. todo'.op = "stop" \/ todo' = Ret(1, Null)
      BY <3>1, <3>2, StepType, RaiseType
    <3> QED BY <3>3 DEF Ret
  <2> QED BY <1>4, <2>1, <2>2
<1>5. Stays
  BY <1>1, <1>3, <1>4, StaysHere
<1> QED BY <1>1, <1>2, <1>5

LEMMA ShapeOfArguments ==
  ASSUME Regs, Stacks, Frames, ArgVariable \/ ArgReturned \/ Redefine
  PROVE  /\ Regs' /\ Stacks' /\ Frames' /\ Stays /\ todo.op # "stop" /\ UNCHANGED LVLCL
<1>1. /\ Regs' /\ Stacks' /\ Frames' /\ todo'.op \in {"fetch", "enter"}
      /\ \A j \in 1 .. Top.base : stk'[j] = stk[j]
  BY ArgumentsType
<1>2. /\ UNCHANGED <<ctl, LVLCL>>
      /\ todo.op = "fetch" \/ (todo.op = "ret" /\ todo.rc \in {2, 3})
  BY DEF ArgVariable, ArgReturned, Redefine, Reads, Gets
<1> QED BY <1>1, <1>2 DEF Stays, BodyOf

LEMMA TracedCalls ==
  ASSUME Regs, Stacks, Frames, Top.proc = "INTERP", todo.op \in {"fetch", "ret"},
         UNCHANGED <<value, defn, args, LVLCL>>, todo'.op = "fetch",
         NEW p \in Positions, TRPHND(p)
  PROVE  /\ Calls("TRPHND") /\ lim.trace - 1 \in Nat
         /\ Pushed("TRPHND", [pos |-> p, trace |-> lim.trace - 1])
<1>1. lim.trace \in Nat \ {0}
  <2>1. lim.trace > 0
    BY DEF TRPHND
  <2>2. lim \in [st : Nat, err : Nat, ftl : Nat, trace : Nat]
    BY DEF Regs
  <2> QED BY <2>1, <2>2
<1>2. Pushed("TRPHND", [pos |-> p, trace |-> lim.trace - 1])
  BY <1>1, Traced
<1>3. Calls("TRPHND")
  BY <1>2, CallsOne DEF Procs
<1>4. lim.trace - 1 \in Nat
  BY <1>1
<1> QED BY <1>2, <1>3, <1>4

LEMMA ShapeOfInit ==
  ASSUME Regs, Stacks, Frames, InitStatement \/ StatementFails
  PROVE  /\ Regs' /\ Stacks' /\ Frames' /\ todo.op # "stop" /\ UNCHANGED LVLCL
         /\ Top.proc = "INTERP"
         /\ \/ Stays /\ UNCHANGED <<stk, ctl>>
            \/ Calls("TRPHND") /\ \E p \in Positions, n \in Nat :
                                     TRPHND(p) /\ Pushed("TRPHND", [pos |-> p, trace |-> n])
<1>1. Regs' /\ Stacks' /\ Frames'
  BY InitStatementType, ExitType
<1>2. /\ Top.proc = "INTERP" /\ todo.op \in {"fetch", "ret"} /\ UNCHANGED <<value, defn, args, LVLCL>>
  BY DEF InitStatement, StatementFails, Reads, Gets
<1>3. \/ UNCHANGED <<stk, ctl>>
      \/ todo'.op = "fetch" /\ \E p \in Positions : TRPHND(p)
  <2>1. CASE InitStatement
    <3>1. CASE lim.st = 0
      BY <2>1, <3>1 DEF InitStatement
    <3>2. CASE lim.st # 0
      BY <2>1, <3>2, CountedType DEF InitStatement, Counted, Reads
    <3> QED BY <3>1, <3>2
  <2>2. CASE StatementFails
    <3>1. [pos EXCEPT !.OCICL = pos.FRTNCL] \in Positions
      BY Moves DEF Regs, Positions
    <3> QED BY <2>2, <3>1 DEF StatementFails, Fetch
  <2> QED BY <2>1, <2>2
<1>4. CASE UNCHANGED <<stk, ctl>>
  BY <1>1, <1>2, <1>4, StaysHere
<1>5. CASE todo'.op = "fetch" /\ \E p \in Positions : TRPHND(p)
  <2>1. PICK p \in Positions : TRPHND(p)
    BY <1>5
  <2>2. Calls("TRPHND") /\ lim.trace - 1 \in Nat
        /\ Pushed("TRPHND", [pos |-> p, trace |-> lim.trace - 1])
    BY <1>2, <1>5, <2>1, TracedCalls
  <2> QED BY <1>1, <1>2, <2>1, <2>2
<1> QED BY <1>3, <1>4, <1>5

LEMMA ShapeOfCalls ==
  ASSUME Regs, Stacks, Frames, Call \/ EXPVAL
  PROVE  /\ Regs' /\ Stacks' /\ Frames' /\ todo.op = "fetch" /\ todo' = todo /\ UNCHANGED LVLCL
         /\ Call => Calls("DEFFNC") /\ Pushed("DEFFNC", Null)
         /\ EXPVAL => Calls("EXPVAL") /\ Pushed("EXPVAL", [pos |-> Step, XCL |-> args.XCL])
<1>1. Regs' /\ Stacks' /\ Frames'
  BY CallType, ExprType
<1>2. todo.op = "fetch" /\ todo' = todo /\ UNCHANGED LVLCL
  BY DEF Call, EXPVAL
<1>3. ASSUME Call PROVE Pushed("DEFFNC", Null)
  <2>1. /\ ctl' = Append(ctl, [proc |-> "DEFFNC", base |-> Len(stk \o Keeps)])
        /\ stk' = stk \o Keeps \o <<Null>>
    BY <1>3 DEF Call
  <2>2. Null \in Cells
    BY DEF Cells, Values
  <2> QED BY <1>2, <2>1, <2>2, Invoked
<1>4. ASSUME EXPVAL PROVE Pushed("EXPVAL", [pos |-> Step, XCL |-> args.XCL])
  <2> DEFINE cell == [pos |-> Step, XCL |-> args.XCL]
  <2>1. /\ ctl' = Append(ctl, [proc |-> "EXPVAL", base |-> Len(stk \o Keeps)])
        /\ stk' = stk \o Keeps \o <<cell>> /\ Top.proc # "TRPHND"
    BY <1>4 DEF EXPVAL
  <2>2. cell \in Cells
    BY StepType DEF Cells, Stacks, ArgCells
  <2> HIDE DEF cell
  <2>3. Pushed("EXPVAL", cell)
    BY <1>2, <2>1, <2>2, Invoked
  <2> QED BY <2>3 DEF cell
<1> QED BY <1>1, <1>2, <1>3, <1>4, CallsOne DEF Procs

LEMMA ShapeOfEnter ==
  ASSUME Regs, Stacks, Frames, Enter
  PROVE  /\ Regs' /\ Stacks' /\ Frames' /\ Calls("INTERP")
         /\ Top.proc = "DEFFNC" /\ todo.op = "enter" /\ LVLCL' = LVLCL + 1
         /\ ctl'[Len(ctl) + 1] = [proc |-> "INTERP", base |-> Len(stk')]
<1> DEFINE fr == [proc |-> "INTERP", base |-> Len(stk')]
<1>1. todo.op = "enter" /\ todo' = Fetch /\ LVLCL' = LVLCL + 1 /\ ctl' = Append(ctl, fr)
  BY DEF Enter
<1>2. Regs' /\ Stacks' /\ Frames' /\ Top.proc = "DEFFNC"
  BY <1>1, EnterType, GivenType
<1>3. /\ stk' \in Seq(Cells) /\ \A j \in 1 .. Top.base : stk'[j] = stk[j]
  BY Entered
<1>4. fr \in ProcFrames /\ fr.proc = "INTERP"
  <2>1. Len(stk') \in Nat
    BY <1>3
  <2> QED BY <2>1 DEF ProcFrames, Procs
<1> HIDE DEF fr
<1>5. /\ Len(ctl') = Len(ctl) + 1 /\ ctl'[Len(ctl) + 1] = fr
      /\ \A i \in 1 .. Len(ctl) : ctl'[i] = ctl[i]
  <2>1. /\ Len(Append(ctl, fr)) = Len(ctl) + 1
        /\ Append(ctl, fr)[Len(ctl) + 1] = fr
        /\ \A i \in 1 .. Len(ctl) : Append(ctl, fr)[i] = ctl[i]
    BY <1>4, Appended DEF Stacks
  <2> QED BY <2>1, <1>1
<1>6. Calls("INTERP")
  BY <1>1, <1>3, <1>4, <1>5 DEF Calls, BodyOf, Fetch
<1> QED BY <1>1, <1>2, <1>5, <1>6 DEF fr

LEMMA ShapeOfReturns ==
  ASSUME Regs, Stacks, Frames,
         EnterUndefined \/ CallFails \/ ExprReturn \/ TraceReturn
  PROVE  /\ Regs' /\ Stacks' /\ Frames' /\ UNCHANGED LVLCL /\ todo.op # "stop"
         /\ Returns /\ ~BodyOf(ctl, todo, Len(ctl))
<1>1. Regs' /\ Stacks' /\ Frames'
  BY EnterUndefinedType, CallFailsType, ExprType
<1>2. UNCHANGED LVLCL /\ Leaves(stk) /\ todo.op # "stop"
      /\ (todo.op = "ret" => todo.rc \in 1 .. 3)
  <2>1. CASE EnterUndefined
    BY <2>1 DEF EnterUndefined, Leaves
  <2>2. CASE CallFails
    BY <2>2 DEF CallFails, Gets
  <2>3. CASE ExprReturn \/ TraceReturn
    BY <2>3 DEF ExprReturn, TraceReturn, Gets
  <2> QED BY <2>1, <2>2, <2>3
<1>3. Top.proc # "INTERP"
  <2>1. CASE EnterUndefined
    <3>1. todo.op = "enter"
      BY <2>1 DEF EnterUndefined
    <3> QED BY <3>1, GivenType
  <2>2. CASE CallFails \/ ExprReturn \/ TraceReturn
    BY <2>2 DEF CallFails, ExprReturn, TraceReturn, Gets
  <2> QED BY <2>1, <2>2
<1>4. Len(ctl) > 1
  BY <1>3, Bottom
<1>5. ~(todo'.op = "ret" /\ todo'.rc > 3)
  <2>1. CASE EnterUndefined
    <3>1. /\ UNCHANGED ended /\ Raise(9, FALSE, pos)
      BY <2>1 DEF EnterUndefined
    <3>2. pos \in Positions
      BY DEF Regs
    <3>3. todo'.op = "stop" \/ todo' = Ret(1, Null)
      BY <3>1, <3>2, RaiseType
    <3> QED BY <3>3 DEF Ret
  <2>2. CASE CallFails \/ ExprReturn
    <3>1. todo' = todo
      BY <2>2 DEF CallFails, ExprReturn
    <3>2. todo.op = "ret" => todo.rc \in {1, 2, 3}
      BY <1>2
    <3> QED BY <3>1, <3>2
  <2>3. CASE TraceReturn
    BY <2>3 DEF TraceReturn, Fetch
  <2> QED BY <2>1, <2>2, <2>3
<1>6. Returns
  BY <1>2, <1>3, <1>4, <1>5, ReturnsOne
<1>7. ~BodyOf(ctl, todo, Len(ctl))
  <2>1. todo.op = "ret" => todo.rc \in {1, 2, 3}
    BY <1>2
  <2> QED BY <2>1 DEF BodyOf
<1> QED BY <1>1, <1>2, <1>6, <1>7

LEMMA ShapeOfReturn ==
  ASSUME Regs, Stacks, Frames, LevelIsDepth, Return
  PROVE  /\ Regs' /\ Stacks' /\ Frames' /\ LVLCL' = LVLCL - 1 /\ todo.op # "stop"
         /\ Returns /\ Len(ctl) \in Bodies
<1>1. todo.op = "ret" /\ todo.rc \in {4, 5, 6} /\ Top.proc = "DEFFNC"
  BY DEF Return, Gets
<1>2. Len(ctl) \in Bodies
  <2>1. DOMAIN ctl = 1 .. Len(ctl) /\ Len(ctl) \in Nat \ {0} /\ Top = ctl[Len(ctl)]
    BY TopType
  <2> QED BY <1>1, <2>1 DEF Bodies, InBody
<1>3. LVLCL \in Nat /\ LVLCL # 0
  <2>1. Cardinality(Bodies) # 0
    BY <1>2, BodiesType, FS_EmptySet
  <2> QED BY <2>1 DEF LevelIsDepth, Stacks
<1>4. LVLCL >= 1
  BY <1>3
<1>5. Regs' /\ Stacks' /\ Frames'
  BY <1>4, ReturnType
<1>6. Leaves(stk) /\ LVLCL' = LVLCL - 1 /\ todo.op # "stop"
  BY <1>1 DEF Return, Leaves, Lowered
<1>7. ~(todo'.op = "ret" /\ todo'.rc > 3)
  <2> DEFINE kept == stk[Len(stk)]
  <2>1. CASE \/ todo' = Ret(1, Null) \/ todo' = Ret(2, value[kept.defn.name])
             \/ todo' = Ret(3, value[kept.defn.name])
    BY <2>1 DEF Ret
  <2>2. CASE Raise(4, FALSE, kept.pos) /\ UNCHANGED ended
    <3>1. kept.pos \in Positions
      BY KeptOnTop DEF Return
    <3> HIDE DEF kept
    <3>2. todo'.op = "stop" \/ todo' = Ret(1, Null)
      BY <2>2, <3>1, RaiseType
    <3> QED BY <3>2 DEF Ret
  <2>3. \/ todo' = CASE todo.rc = 4 -> Ret(1, Null)
                              [] todo.rc = 5 -> Ret(2, value[kept.defn.name])
                              [] todo.rc = 6 -> Ret(3, value[kept.defn.name])
        \/ Raise(4, FALSE, kept.pos) /\ UNCHANGED ended
    BY DEF Return, CallerPos
  <2>4. todo.rc = 4 \/ todo.rc = 5 \/ todo.rc = 6
    BY <1>1
  <2> HIDE DEF kept
  <2>5. \/ todo' = Ret(1, Null) \/ todo' = Ret(2, value[kept.defn.name])
        \/ todo' = Ret(3, value[kept.defn.name])
        \/ Raise(4, FALSE, kept.pos) /\ UNCHANGED ended
    BY <2>3, <2>4
  <2> QED BY <2>1, <2>2, <2>5 DEF kept
<1>8. Len(ctl) > 1 /\ Returns
  BY <1>1, <1>6, <1>7, Bottom, ReturnsOne
<1> QED BY <1>2, <1>5, <1>6, <1>8

LEMMA ShapeOfInterpReturn ==
  ASSUME Regs, Stacks, Frames, InterpReturn
  PROVE  /\ Regs' /\ Stacks' /\ Frames' /\ UNCHANGED LVLCL /\ todo.op # "stop"
         /\ Top.proc = "INTERP"
         /\ (Stays /\ UNCHANGED <<stk, ctl>>) \/ Returns
<1>1. Regs' /\ Stacks' /\ Frames'
  BY ExitType
<1>2. /\ todo.op = "ret" /\ todo.rc \in {4, 5, 6} /\ Top.proc = "INTERP" /\ UNCHANGED LVLCL
      /\ \/ UNCHANGED <<stk, ctl>>
         \/ Len(ctl) > 1 /\ Leaves(stk) /\ UNCHANGED todo
  BY DEF InterpReturn, Gets
<1>3. CASE UNCHANGED <<stk, ctl>>
  BY <1>1, <1>2, <1>3, StaysHere
<1>4. CASE Len(ctl) > 1 /\ Leaves(stk) /\ UNCHANGED todo
  <2>1. todo.rc > 3
    BY <1>2
  <2>2. Returns
    BY <1>2, <1>4, <2>1, ReturnsOne
  <2> QED BY <1>1, <1>2, <2>2
<1> QED BY <1>2, <1>3, <1>4

(* Type correctness, the two stacks and &FNCLEVEL of every step.           *)
LEMMA Steps ==
  ASSUME Regs, Stacks, Frames, LevelIsDepth, Next
  PROVE  /\ Regs' /\ Stacks' /\ Frames' /\ todo.op # "stop" /\ Shaped
         /\ \/ /\ Enter /\ LVLCL' = LVLCL + 1 /\ Calls("INTERP")
               /\ Len(ctl) \notin Bodies /\ Bodies' = Bodies \cup {Len(ctl)}
            \/ /\ Return /\ LVLCL' = LVLCL - 1 /\ Returns
               /\ Len(ctl) \in Bodies /\ Bodies' = Bodies \ {Len(ctl)}
            \/ UNCHANGED LVLCL /\ Bodies' = Bodies
<1>1. ASSUME Enter
      PROVE  /\ Regs' /\ Stacks' /\ Frames' /\ todo.op # "stop" /\ Shaped
             /\ LVLCL' = LVLCL + 1 /\ Calls("INTERP")
             /\ Len(ctl) \notin Bodies /\ Bodies' = Bodies \cup {Len(ctl)}
  <2>1. /\ Regs' /\ Stacks' /\ Frames' /\ Calls("INTERP") /\ "INTERP" \in Procs
        /\ Top.proc = "DEFFNC" /\ todo.op = "enter" /\ LVLCL' = LVLCL + 1
    BY <1>1, ShapeOfEnter DEF Procs
  <2>2. Shaped
    BY <2>1 DEF Shaped
  <2> QED BY <2>1, <2>2, BodiesStep
<1>2. ASSUME Return
      PROVE  /\ Regs' /\ Stacks' /\ Frames' /\ todo.op # "stop" /\ Shaped
             /\ LVLCL' = LVLCL - 1 /\ Returns
             /\ Len(ctl) \in Bodies /\ Bodies' = Bodies \ {Len(ctl)}
  <2>1. /\ Regs' /\ Stacks' /\ Frames' /\ LVLCL' = LVLCL - 1 /\ todo.op # "stop"
        /\ Returns /\ Len(ctl) \in Bodies
    BY <1>2, ShapeOfReturn
  <2>2. Shaped
    BY <2>1 DEF Shaped
  <2> QED BY <2>1, <2>2, BodiesStep
<1>3. ASSUME Regs', Stacks', Frames', todo.op # "stop", UNCHANGED LVLCL,
             \/ Stays
             \/ Returns /\ ~BodyOf(ctl, todo, Len(ctl))
             \/ \E p \in Procs : Calls(p) /\ ~(p = "INTERP" /\ Top.proc = "DEFFNC")
      PROVE  Shaped /\ Bodies' = Bodies
  <2>1. Shaped
    BY <1>3 DEF Shaped
  <2>2. ~BodyOf(ctl, todo, Len(ctl)) => Len(ctl) \notin Bodies
    BY DEF Bodies, InBody, BodyOf
  <2> QED BY <1>3, <2>1, <2>2, BodiesStep
<1>4. CASE \/ Assign \/ SETXIT \/ Fails \/ PrimitiveError
           \/ GOTO \/ GotoLabel \/ GotoUndefined \/ GotoFails \/ GotoReturn \/ GotoAbort
           \/ GotoContinue \/ Crash \/ END
           \/ ExprVariable \/ StatementGoesOn
  BY <1>3, <1>4, ShapeOfPlain, <1>2
<1>5. CASE ArgVariable \/ ArgReturned \/ Redefine
  BY <1>3, <1>5, ShapeOfArguments
<1>6. CASE InitStatement \/ StatementFails
  BY <1>3, <1>6, ShapeOfInit DEF Procs
<1>7. CASE Call \/ EXPVAL
  BY <1>3, <1>7, ShapeOfCalls DEF Procs
<1>8. CASE EnterUndefined \/ CallFails \/ ExprReturn \/ TraceReturn
  BY <1>3, <1>8, ShapeOfReturns
<1>9. CASE InterpReturn
  <2>1. Top.proc = "INTERP" => ~BodyOf(ctl, todo, Len(ctl))
    BY DEF BodyOf, Top
  <2> QED BY <1>3, <1>9, <2>1, ShapeOfInterpReturn
<1> QED BY <1>1, <1>2, <1>4, <1>5, <1>6, <1>7, <1>8, <1>9 DEF Next

-----------------------------------------------------------------------------
(* The calls in progress, counted from the first.                          *)

Rank(B, i) == Cardinality({j \in B : j <= i})
RankedIn(B, n) == \A k \in 1 .. n : \E i \in B : Rank(B, i) = k

LEMMA RankType ==
  ASSUME NEW B, B \subseteq Nat, IsFiniteSet(B), NEW i \in B
  PROVE  /\ IsFiniteSet({j \in B : j <= i}) /\ Rank(B, i) \in Nat
         /\ Rank(B, i) <= Cardinality(B) /\ Rank(B, i) >= 1
<1> DEFINE S == {j \in B : j <= i}
<1>1. S \subseteq B /\ i \in S
  OBVIOUS
<1>2. IsFiniteSet(S) /\ Cardinality(S) <= Cardinality(B)
  BY <1>1, FS_Subset
<1>3. Cardinality(S) \in Nat /\ Cardinality(S) # 0
  BY <1>1, <1>2, FS_CardinalityType, FS_EmptySet
<1> HIDE DEF S
<1>4. Cardinality(S) >= 1
  BY <1>3
<1> QED BY <1>2, <1>3, <1>4 DEF S, Rank

(* No two calls have the same rank.                                        *)
LEMMA RankUnique ==
  ASSUME NEW B, B \subseteq Nat, IsFiniteSet(B), NEW i \in B, NEW k \in B,
         Rank(B, i) = Rank(B, k)
  PROVE  i = k
<1>1. ASSUME NEW x \in B, NEW y \in B, Rank(B, x) = Rank(B, y), x <= y
      PROVE  x = y
  <2> DEFINE S == {j \in B : j <= x}
             T == {j \in B : j <= y}
  <2>1. S \subseteq T
    <3>1. ASSUME NEW j \in B, j <= x PROVE j <= y
      <4>1. x \in Nat /\ y \in Nat /\ j \in Nat /\ x <= y
        BY <1>1, <3>1
      <4> QED BY <3>1, <4>1
    <3> QED BY <3>1
  <2>2. IsFiniteSet(T) /\ Cardinality(T) = Cardinality(S)
    BY <1>1, RankType DEF Rank
  <2>3. S = T
    BY <2>1, <2>2, FS_Subset
  <2>4. y \in T /\ x \in Nat /\ y \in Nat
    BY <1>1
  <2>5. y <= x
    BY <2>3, <2>4
  <2> QED BY <1>1, <2>4, <2>5
<1>2. i \in Nat /\ k \in Nat
  OBVIOUS
<1>3. i <= k \/ k <= i
  BY <1>2
<1> QED BY <1>1, <1>3

LEMMA RankAdd ==
  ASSUME NEW B, B \subseteq Nat, IsFiniteSet(B), NEW m \in Nat, \A j \in B : j < m,
         RankedIn(B, Cardinality(B))
  PROVE  /\ IsFiniteSet(B \cup {m}) /\ Cardinality(B \cup {m}) = Cardinality(B) + 1
         /\ \A i \in B : Rank(B \cup {m}, i) = Rank(B, i)
         /\ Rank(B \cup {m}, m) = Cardinality(B) + 1
         /\ RankedIn(B \cup {m}, Cardinality(B) + 1)
<1> DEFINE C == B \cup {m}
<1>1. m \notin B
  OBVIOUS
<1>2. IsFiniteSet(C) /\ Cardinality(C) = Cardinality(B) + 1 /\ Cardinality(B) \in Nat
  BY <1>1, FS_AddElement, FS_CardinalityType
<1>3. ASSUME NEW i \in B PROVE Rank(C, i) = Rank(B, i)
  <2>1. {j \in C : j <= i} = {j \in B : j <= i}
    BY <1>3
  <2> QED BY <2>1 DEF Rank
<1>4. Rank(C, m) = Cardinality(B) + 1
  <2>1. \A j \in C : j <= m
    OBVIOUS
  <2>2. {j \in C : j <= m} = C
    BY <2>1
  <2> QED BY <1>2, <2>2 DEF Rank
<1>5. RankedIn(C, Cardinality(B) + 1)
  <2>1. ASSUME NEW k \in 1 .. Cardinality(B) + 1 PROVE \E i \in C : Rank(C, i) = k
    <3>1. CASE k = Cardinality(B) + 1
      BY <1>4, <3>1
    <3>2. CASE k \in 1 .. Cardinality(B)
      <4>1. PICK i \in B : Rank(B, i) = k
        BY <3>2 DEF RankedIn
      <4> QED BY <1>3, <4>1
    <3>3. k = Cardinality(B) + 1 \/ k \in 1 .. Cardinality(B)
      BY <1>2, <2>1
    <3> QED BY <3>1, <3>2, <3>3
  <2> QED BY <2>1 DEF RankedIn
<1> QED BY <1>2, <1>3, <1>4, <1>5

LEMMA RankRemove ==
  ASSUME NEW B, B \subseteq Nat, IsFiniteSet(B), NEW m \in B, \A j \in B : j <= m,
         RankedIn(B, Cardinality(B))
  PROVE  /\ IsFiniteSet(B \ {m}) /\ Cardinality(B \ {m}) = Cardinality(B) - 1
         /\ \A i \in B \ {m} : Rank(B \ {m}, i) = Rank(B, i)
         /\ Rank(B, m) = Cardinality(B)
         /\ RankedIn(B \ {m}, Cardinality(B) - 1)
<1> DEFINE C == B \ {m}
<1>1. IsFiniteSet(C) /\ Cardinality(C) = Cardinality(B) - 1 /\ Cardinality(B) \in Nat
  BY FS_RemoveElement, FS_CardinalityType
<1>2. ASSUME NEW i \in C PROVE Rank(C, i) = Rank(B, i)
  <2>1. i < m
    <3>1. i \in Nat /\ m \in Nat /\ i <= m /\ i # m
      BY <1>2
    <3> QED BY <3>1
  <2>2. {j \in C : j <= i} = {j \in B : j <= i}
    BY <1>2, <2>1
  <2> QED BY <2>2 DEF Rank
<1>3. Rank(B, m) = Cardinality(B)
  <2>1. {j \in B : j <= m} = B
    OBVIOUS
  <2> QED BY <2>1 DEF Rank
<1>4. RankedIn(C, Cardinality(B) - 1)
  <2>1. ASSUME NEW k \in 1 .. Cardinality(B) - 1 PROVE \E i \in C : Rank(C, i) = k
    <3>1. k \in 1 .. Cardinality(B) /\ k # Cardinality(B)
      BY <1>1, <2>1
    <3>2. PICK i \in B : Rank(B, i) = k
      BY <3>1 DEF RankedIn
    <3>3. i # m
      BY <1>3, <3>1, <3>2
    <3> QED BY <1>2, <3>2, <3>3
  <2> QED BY <2>1 DEF RankedIn
<1> QED BY <1>1, <1>2, <1>3, <1>4

-----------------------------------------------------------------------------
(* The invariant that the stacks need: the types, the frames of the two    *)
(* stacks, and the calls in progress.                                      *)

StackInv == TypeOK /\ Frames /\ LevelIsDepth /\ Ranked

LEMMA StackInvParts ==
  StackInv <=> /\ Regs /\ Stacks /\ Frames /\ LVLCL = Cardinality(Bodies)
               /\ RankedIn(Bodies, LVLCL)
BY TypeSplit DEF StackInv, LevelIsDepth, Ranked, RankedIn, Rank

LEMMA StackInvInit == Init => StackInv
<1> SUFFICES ASSUME Init PROVE StackInv
  OBVIOUS
<1>1. ctl = <<[proc |-> "INTERP", base |-> 0]>> /\ stk = <<>> /\ todo = Fetch
  BY DEF Init
<1>2. /\ Len(ctl) = 1 /\ DOMAIN ctl = {1} /\ ctl[1] = [proc |-> "INTERP", base |-> 0]
      /\ Len(stk) = 0 /\ todo.op = "fetch"
  BY <1>1 DEF Fetch
<1>3. Regs
  <2>1. pos \in Positions
    BY DEF Init, Positions, Blocks
  <2>2. xit \in XitType
    BY DEF Init, XitType, Blocks, NoBlocks
  <2>3. todo \in TodoType
    BY <1>1 DEF Fetch, TodoType, Values
  <2>4. err \in [typ : Nat, fatal : BOOLEAN] /\ entering = None /\ ended = FALSE
    BY DEF Init
  <2>5. lim \in [st : Nat, err : Nat, ftl : Nat, trace : Nat]
    BY ProgramAssumption DEF Init
  <2> QED BY <2>1, <2>2, <2>3, <2>4, <2>5 DEF Regs
<1>4. Stacks
  <2>1. value \in [Names -> Values] /\ defn \in Defs /\ LVLCL = 0
    BY DEF Init, Values
  <2>2. ctl \in Seq(ProcFrames) /\ ctl # <<>>
    BY <1>1 DEF ProcFrames, Procs
  <2>3. args \in ArgCells
    BY DEF Init, Clobbered, ArgCells
  <2> QED BY <1>1, <2>1, <2>2, <2>3 DEF Stacks
<1>5. Frames
  BY <1>2 DEF Frames, Stacked, Runs, Top
<1>6. Bodies = {} /\ LVLCL = 0
  BY <1>2 DEF Bodies, InBody, Init
<1>7. LVLCL = Cardinality(Bodies) /\ RankedIn(Bodies, LVLCL)
  BY <1>6, FS_EmptySet DEF RankedIn
<1> QED BY <1>3, <1>4, <1>5, <1>7, StackInvParts

LEMMA StackInvNext == StackInv /\ [Next]_vars => StackInv'
<1> SUFFICES ASSUME StackInv, [Next]_vars PROVE StackInv'
  OBVIOUS
<1>1. /\ Regs /\ Stacks /\ Frames /\ LevelIsDepth /\ LVLCL = Cardinality(Bodies)
      /\ RankedIn(Bodies, LVLCL)
  BY StackInvParts DEF LevelIsDepth
<1>2. CASE UNCHANGED vars
  <2>1. TypeOK'
    BY <1>2 DEF vars, StackInv, TypeOK
  <2>2. Frames'
    BY <1>2 DEF vars, StackInv, Frames, Runs, Top
  <2>3. Bodies' = Bodies /\ LVLCL' = LVLCL
    BY <1>2 DEF vars, Bodies, InBody
  <2> QED BY <2>1, <2>2, <2>3 DEF StackInv, LevelIsDepth, Ranked
<1>3. CASE Next
  <2>1. /\ Regs' /\ Stacks' /\ Frames'
        /\ \/ /\ LVLCL' = LVLCL + 1
              /\ Len(ctl) \notin Bodies /\ Bodies' = Bodies \cup {Len(ctl)}
           \/ /\ LVLCL' = LVLCL - 1
              /\ Len(ctl) \in Bodies /\ Bodies' = Bodies \ {Len(ctl)}
           \/ UNCHANGED LVLCL /\ Bodies' = Bodies
    BY <1>1, <1>3, Steps
  <2>2. /\ Bodies \subseteq Nat /\ IsFiniteSet(Bodies) /\ Cardinality(Bodies) \in Nat
        /\ Len(ctl) \in Nat /\ \A j \in Bodies : j <= Len(ctl)
    BY <1>1, BodiesType, TopType
  <2>3. LVLCL' = Cardinality(Bodies') /\ RankedIn(Bodies', LVLCL')
    <3>1. CASE /\ LVLCL' = LVLCL + 1
               /\ Len(ctl) \notin Bodies /\ Bodies' = Bodies \cup {Len(ctl)}
      <4>1. \A j \in Bodies : j < Len(ctl)
        BY <2>2, <3>1
      <4> QED BY <1>1, <2>2, <3>1, <4>1, RankAdd
    <3>2. CASE /\ LVLCL' = LVLCL - 1
               /\ Len(ctl) \in Bodies /\ Bodies' = Bodies \ {Len(ctl)}
      BY <1>1, <2>2, <3>2, RankRemove
    <3>3. CASE UNCHANGED LVLCL /\ Bodies' = Bodies
      BY <1>1, <3>3
    <3> QED BY <2>1, <3>1, <3>2, <3>3
  <2>4. (Regs /\ Stacks /\ Frames)'
    BY <2>1
  <2>5. (LVLCL = Cardinality(Bodies) /\ RankedIn(Bodies, LVLCL))'
    BY <2>3
  <2> QED BY <2>4, <2>5, StackInvParts, PTL
<1> QED BY <1>2, <1>3

(* Every variable keeps its type.                                          *)
THEOREM TypeCorrect == Spec => []TypeOK
<1>1. StackInv => TypeOK
  BY DEF StackInv
<1> QED BY <1>1, StackInvInit, StackInvNext, PTL DEF Spec

(* &FNCLEVEL is the number of calls in progress (DEFFNC, INTERP, GOTL).    *)
THEOREM LevelRight == Spec => []LevelIsDepth
<1>1. StackInv => LevelIsDepth
  BY DEF StackInv
<1> QED BY <1>1, StackInvInit, StackInvNext, PTL DEF Spec

LEMMA OwnedByFrames == StackInv => StackOwned
<1> SUFFICES ASSUME StackInv PROVE StackOwned
  OBVIOUS
<1>1. Regs /\ Stacks /\ Frames
  BY StackInvParts
<1>2. Len(ctl) \in Nat /\ Len(stk) \in Nat /\ Top = ctl[Len(ctl)]
  BY <1>1, TopType
<1> SUFFICES ASSUME NEW i \in 1 .. Len(ctl), ctl[i].proc = "DEFFNC"
             PROVE  /\ InBody(i) => Height(i) = ctl[i].base + Len(Bound(Kept(i).defn)) + 1
                    /\ (~InBody(i) /\ i < Len(ctl)) =>
                          /\ Kept(i).YPTR = ctl[i].base
                          /\ ctl[i + 1].base = Kept(i).YPTR + 2 + Kept(i).WCL - Kept(i).XCL
                    /\ (i = Len(ctl) /\ todo.op \in {"fetch", "enter"}) =>
                          /\ args.YPTR = ctl[i].base
                          /\ Len(stk) = args.YPTR + 1 + args.WCL - args.XCL
  BY <1>1, TopType DEF StackOwned, Height, InBody
<1>3. ctl[i].base \in Nat /\ (i < Len(ctl) => ctl[i + 1].base \in Nat)
  <2>1. \A j \in 1 .. Len(ctl) : ctl[j].base \in Nat
    BY <1>1, FrameType DEF Stacks
  <2>2. i < Len(ctl) => i + 1 \in 1 .. Len(ctl)
    BY <1>2
  <2> QED BY <2>1, <2>2
<1>4. CASE i < Len(ctl)
  <2>1. i \in 1 .. Len(ctl) - 1
    BY <1>2, <1>4
  <2>2. Waits(ctl, stk, i) /\ Kept(i) = stk[ctl[i + 1].base] /\ Height(i) = ctl[i + 1].base
    BY <1>1, <1>4, <2>1 DEF Frames, Stacked, Kept, Height
  <2>3. CASE ctl[i + 1].proc = "INTERP"
    <3>1. Slots(ctl[i].base, ctl[i + 1].base, stk)
      BY <2>2, <2>3 DEF Waits
    <3>2. InBody(i) /\ i # Len(ctl)
      BY <1>2, <1>4, <2>3 DEF InBody
    <3> QED BY <2>2, <3>1, <3>2 DEF Slots
  <2>4. CASE ctl[i + 1].proc # "INTERP"
    <3>1. Around(ctl[i].base, ctl[i + 1].base, stk)
      BY <2>2, <2>4 DEF Waits
    <3>2. ~InBody(i) /\ i # Len(ctl)
      BY <1>2, <1>4, <2>4 DEF InBody
    <3>3. /\ Kept(i) \in ArgCells /\ Kept(i).YPTR = ctl[i].base
          /\ ctl[i + 1].base - 1 = ctl[i].base + 1 + Kept(i).WCL - Kept(i).XCL
      BY <2>2, <3>1 DEF Around, Loop
    <3>4. Kept(i).WCL \in Nat /\ Kept(i).XCL \in Int
      BY <3>3 DEF ArgCells
    <3>5. ctl[i + 1].base = Kept(i).YPTR + 2 + Kept(i).WCL - Kept(i).XCL
      <4>1. ctl[i + 1].base \in Nat /\ ctl[i].base \in Nat
        BY <1>3, <1>4
      <4>2. PICK n, b, w, x : n = ctl[i + 1].base /\ b = ctl[i].base
                              /\ w = Kept(i).WCL /\ x = Kept(i).XCL
        OBVIOUS
      <4>3. n \in Nat /\ b \in Nat /\ w \in Nat /\ x \in Int /\ n - 1 = b + 1 + w - x
        BY <4>1, <4>2, <3>3, <3>4
      <4>4. n = b + 2 + w - x
        BY <4>3
      <4> QED BY <4>2, <4>4, <3>3
    <3> QED BY <3>2, <3>3, <3>5
  <2> QED BY <2>3, <2>4
<1>5. CASE i = Len(ctl)
  <2>1. Top.proc = "DEFFNC" /\ Top = ctl[i] /\ Height(i) = Len(stk) /\ Kept(i) = stk[Len(stk)]
    BY <1>2, <1>5 DEF Height, Kept
  <2>2. ASSUME InBody(i) PROVE Height(i) = ctl[i].base + Len(Bound(Kept(i).defn)) + 1
    <3>1. todo.op = "ret" /\ todo.rc > 3 /\ todo.rc \in 1 .. 6
      BY <1>1, <1>5, <2>2 DEF InBody, Regs, TodoType
    <3>2. todo.rc \notin {1, 2, 3}
      BY <3>1
    <3>3. Slots(Top.base, Len(stk), stk)
      BY <1>1, <2>1, <3>1, <3>2 DEF Frames, Runs
    <3> QED BY <2>1, <3>3 DEF Slots
  <2>3. ASSUME todo.op \in {"fetch", "enter"}
        PROVE  /\ args.YPTR = ctl[i].base
               /\ Len(stk) = args.YPTR + 1 + args.WCL - args.XCL
    BY <1>1, <2>1, <2>3 DEF Frames, Runs, Loop
  <2> QED BY <1>5, <2>2, <2>3
<1> QED BY <1>2, <1>4, <1>5

(* Every procedure finds on the data stack what it left there: the slots of *)
(* a call, the counters and the values of an argument loop (DEFFNC).        *)
THEOREM StackRight == Spec => []StackOwned
BY OwnedByFrames, StackInvInit, StackInvNext, PTL DEF Spec

-----------------------------------------------------------------------------
(* Dynamic binding: every step is a step of Scopes.                        *)

BodyIn(B, k) == CHOOSE i \in B : Rank(B, i) = k
NamesOf(d) == {Bound(d)[j] : j \in DOMAIN Bound(d)}

(* What the call of procedure i gives back, on the C stack c and the data  *)
(* stack s; and all the calls with those of B.                             *)
GivesOf(c, s, i) ==
    LET h == IF i < Len(c) THEN c[i + 1].base ELSE Len(s)
        d == s[h].defn
    IN  [v \in NamesOf(d) |-> s[c[i].base + Min(At(d, v))]]
ScopesOf(c, s, B) == [k \in 1 .. Cardinality(B) |-> GivesOf(c, s, BodyIn(B, k))]

LEMMA BodyInRight ==
  ASSUME NEW B, B \subseteq Nat, IsFiniteSet(B), NEW n \in Nat, RankedIn(B, n), NEW k \in 1 .. n
  PROVE  /\ BodyIn(B, k) \in B /\ Rank(B, BodyIn(B, k)) = k
         /\ \A i \in B : Rank(B, i) = k => i = BodyIn(B, k)
<1>1. \E i \in B : Rank(B, i) = k
  BY DEF RankedIn
<1>2. BodyIn(B, k) \in B /\ Rank(B, BodyIn(B, k)) = k
  BY <1>1 DEF BodyIn
<1> QED BY <1>2, RankUnique

LEMMA NamesBound ==
  ASSUME NEW d \in Defs, NEW v
  PROVE  /\ v \in NamesOf(d) <=> At(d, v) # {}
         /\ v \in NamesOf(d) => /\ v \in Names /\ Min(At(d, v)) \in 1 .. Len(Bound(d))
                                /\ Bound(d)[Min(At(d, v))] = v
                                /\ \A j \in At(d, v) : Min(At(d, v)) <= j
<1>1. v \in NamesOf(d) <=> At(d, v) # {}
  BY DEF NamesOf, At
<1>2. ASSUME v \in NamesOf(d)
      PROVE  /\ v \in Names /\ Min(At(d, v)) \in 1 .. Len(Bound(d))
             /\ Bound(d)[Min(At(d, v))] = v /\ \A j \in At(d, v) : Min(At(d, v)) <= j
  <2>1. At(d, v) # {} /\ At(d, v) \subseteq Nat /\ At(d, v) \subseteq 1 .. Len(Bound(d))
    BY <1>1, <1>2, BoundNames
  <2>2. Min(At(d, v)) \in At(d, v) /\ \A j \in At(d, v) : Min(At(d, v)) <= j
    BY <2>1, MinOf
  <2>3. Bound(d)[Min(At(d, v))] = v
    BY <2>2 DEF At
  <2>4. v \in Names
    BY <1>2, BoundNames DEF NamesOf
  <2> QED BY <2>1, <2>2, <2>3, <2>4
<1> QED BY <1>1, <1>2

LEMMA ScopesMean ==
  ScopesOf(ctl, stk, Bodies) = [k \in 1 .. Cardinality(Bodies) |-> GivesBack(BodyAt(k))]
BY DEF ScopesOf, GivesOf, GivesBack, BodyIn, BodyAt, Kept, Rank, NamesOf

(* A call that is not the newest procedure gives back the same ever after. *)
LEMMA GivesSame ==
  ASSUME StackInv, Shaped, NEW i \in Bodies, i < Len(ctl)
  PROVE  GivesOf(ctl', stk', i) = GivesOf(ctl, stk, i)
<1>1. Regs /\ Stacks /\ Frames
  BY StackInvParts
<1>2. i \in 1 .. Len(ctl) - 1 /\ i \in 1 .. Len(ctl) /\ Len(ctl) \in Nat
  <2>1. Len(ctl) \in Nat /\ i \in 1 .. Len(ctl)
    BY <1>1, BodiesType, TopType
  <2> QED BY <2>1
<1> DEFINE h == ctl[i + 1].base
           b == ctl[i].base
           d == stk[h].defn
           k == Len(Bound(d))
<1>3. Slots(b, h, stk)
  <2>1. ctl[i].proc = "DEFFNC" /\ ctl[i + 1].proc = "INTERP"
    BY <1>2 DEF Bodies, InBody
  <2> QED BY <1>1, <1>2, <2>1 DEF Frames, Stacked, Waits
<1>4. d \in Defs /\ h = b + k + 1 /\ k \in Nat /\ b \in Nat
  <2>1. d \in Defs /\ h = b + k + 1
    BY <1>3 DEF Slots, CallCells
  <2>2. b \in Nat
    BY <1>1, <1>2, FrameType DEF Stacks
  <2> QED BY <2>1, <2>2, BoundType
<1>5. /\ ctl'[i] = ctl[i] /\ Height(i) = h /\ Height(i)' = h
      /\ \A j \in 1 .. h : stk'[j] = stk[j]
  <2>1. Lasting(Len(ctl) - 1)
    BY <1>1, Lasts
  <2> QED BY <1>2, <2>1 DEF Lasting, Height
<1>6. (IF i < Len(ctl') THEN ctl'[i + 1].base ELSE Len(stk')) = h
  BY <1>5 DEF Height
<1> HIDE DEF h, b, k
<1>7. stk'[h] = stk[h]
  BY <1>4, <1>5
<1>8. ASSUME NEW v \in NamesOf(d)
      PROVE  stk'[b + Min(At(d, v))] = stk[b + Min(At(d, v))]
  <2>1. Min(At(d, v)) \in 1 .. k
    BY <1>4, <1>8, NamesBound DEF k
  <2>2. b + Min(At(d, v)) \in 1 .. h
    BY <1>4, <2>1
  <2> QED BY <1>5, <2>2
<1>9. GivesOf(ctl, stk, i) = [v \in NamesOf(d) |-> stk[b + Min(At(d, v))]]
  BY DEF GivesOf, h, b
<1>10. GivesOf(ctl', stk', i) = [v \in NamesOf(d) |-> stk'[b + Min(At(d, v))]]
  <2>1. stk'[h].defn = d /\ ctl'[i].base = b
    BY <1>5, <1>7 DEF b
  <2> QED BY <1>6, <2>1 DEF GivesOf
<1> QED BY <1>8, <1>9, <1>10

LEMMA EnterScopes ==
  ASSUME StackInv, Enter
  PROVE  \E N \in SUBSET Names :
            /\ value' \in [Names -> Values]
            /\ \A v \in Names \ N : value'[v] = value[v]
            /\ ScopesOf(ctl', stk', Bodies') =
                  Append(ScopesOf(ctl, stk, Bodies), [v \in N |-> value[v]])
<1>1. /\ Regs /\ Stacks /\ Frames /\ LevelIsDepth /\ LVLCL = Cardinality(Bodies)
      /\ RankedIn(Bodies, LVLCL)
  BY StackInvParts DEF LevelIsDepth
<1> DEFINE L == Len(ctl)
           N == NamesOf(defn)
           n == Cardinality(Bodies)
           e == [v \in N |-> value[v]]
<1>2. /\ Stacks' /\ Shaped /\ Calls("INTERP") /\ Top.proc = "DEFFNC" /\ todo.op = "enter"
      /\ ctl'[L + 1] = [proc |-> "INTERP", base |-> Len(stk')]
  BY <1>1, ShapeOfEnter DEF Shaped, Procs
<1>3. L \notin Bodies /\ Bodies' = Bodies \cup {L}
  BY <1>1, <1>2, BodiesStep DEF Procs
<1>4. /\ Bodies \subseteq Nat /\ IsFiniteSet(Bodies) /\ n \in Nat /\ L \in Nat
      /\ \A j \in Bodies : j < L
  <2>1. Bodies \subseteq Nat /\ IsFiniteSet(Bodies) /\ n \in Nat /\ Bodies \subseteq 1 .. L
    BY <1>1, BodiesType
  <2>2. L \in Nat
    BY <1>1, TopType
  <2> QED BY <1>3, <2>1, <2>2
<1> HIDE DEF n
<1>5. /\ IsFiniteSet(Bodies') /\ Bodies' \subseteq Nat /\ Cardinality(Bodies') = n + 1
      /\ \A i \in Bodies : Rank(Bodies', i) = Rank(Bodies, i)
      /\ Rank(Bodies', L) = n + 1 /\ RankedIn(Bodies', n + 1)
  BY <1>1, <1>3, <1>4, RankAdd DEF n
<1>6. ASSUME NEW k \in 1 .. n
      PROVE  BodyIn(Bodies', k) = BodyIn(Bodies, k) /\ BodyIn(Bodies, k) \in Bodies
  <2>1. BodyIn(Bodies, k) \in Bodies /\ Rank(Bodies, BodyIn(Bodies, k)) = k
    BY <1>1, <1>4, <1>6, BodyInRight DEF n
  <2>2. BodyIn(Bodies, k) \in Bodies' /\ Rank(Bodies', BodyIn(Bodies, k)) = k
    BY <1>3, <1>5, <2>1
  <2>3. k \in 1 .. n + 1 /\ n + 1 \in Nat
    BY <1>4, <1>6
  <2> QED BY <1>5, <2>1, <2>2, <2>3, BodyInRight
<1>7. BodyIn(Bodies', n + 1) = L
  <2>1. n + 1 \in 1 .. n + 1 /\ n + 1 \in Nat /\ L \in Bodies'
    BY <1>3, <1>4
  <2>2. Bodies' \subseteq Nat /\ IsFiniteSet(Bodies') /\ RankedIn(Bodies', n + 1)
    BY <1>5
  <2>3. \A i \in Bodies' : Rank(Bodies', i) = n + 1 => i = BodyIn(Bodies', n + 1)
    BY <2>1, <2>2, BodyInRight
  <2> QED BY <1>5, <2>1, <2>3
<1>8. defn \in Defs
  BY <1>1 DEF Stacks
<1>9. GivesOf(ctl', stk', L) = e
  <2> DEFINE b == Top.base
             m == Len(Bound(defn))
  <2>1. /\ Len(stk') = b + m + 1 /\ b \in Nat /\ m \in Nat
        /\ \A i \in 1 .. m : stk'[b + i] = Old(i)
        /\ stk'[Len(stk')] = [pos |-> pos, defn |-> defn]
    BY <1>1, Entered
  <2>2. L < Len(ctl') /\ ctl'[L + 1].base = Len(stk') /\ ctl'[L].base = b
    BY <1>1, <1>2, <1>4, TopType DEF Calls
  <2>3. stk'[Len(stk')].defn = defn
    BY <2>1
  <2>4. GivesOf(ctl', stk', L) = [v \in N |-> stk'[b + Min(At(defn, v))]]
    BY <2>2, <2>3 DEF GivesOf
  <2>5. ASSUME NEW v \in N PROVE stk'[b + Min(At(defn, v))] = value[v]
    <3> DEFINE i == Min(At(defn, v))
    <3>1. i \in 1 .. m /\ Bound(defn)[i] = v /\ \A j \in At(defn, v) : i <= j
      BY <1>8, <2>5, NamesBound
    <3>2. Before(i) = {}
      <4>1. \A j \in At(defn, v) : j \in Nat
        BY <1>8, BoundNames
      <4>2. ~(\E j \in At(defn, v) : j < i)
        BY <2>1, <3>1, <4>1
      <4> QED BY <3>1, <4>2 DEF Before
    <3>3. Old(i) = value[v]
      BY <3>1, <3>2 DEF Old
    <3> QED BY <2>1, <3>1, <3>3
  <2> QED BY <2>4, <2>5
<1>10. ScopesOf(ctl', stk', Bodies') = Append(ScopesOf(ctl, stk, Bodies), e)
  <2> DEFINE s == ScopesOf(ctl, stk, Bodies)
             t == ScopesOf(ctl', stk', Bodies')
             S == {s[k] : k \in 1 .. n} \cup {e}
  <2>1. s = [k \in 1 .. n |-> GivesOf(ctl, stk, BodyIn(Bodies, k))]
        /\ t = [k \in 1 .. n + 1 |-> GivesOf(ctl', stk', BodyIn(Bodies', k))]
    BY <1>5 DEF ScopesOf, n
  <2>2. ASSUME NEW k \in 1 .. n PROVE t[k] = s[k]
    <3>1. k \in 1 .. n + 1
      BY <1>4, <2>2
    <3>2. BodyIn(Bodies, k) \in Bodies /\ BodyIn(Bodies, k) < Len(ctl)
      BY <1>4, <1>6, <2>2
    <3>3. GivesOf(ctl', stk', BodyIn(Bodies, k)) = GivesOf(ctl, stk, BodyIn(Bodies, k))
      BY <1>2, <3>2, GivesSame
    <3> QED BY <1>6, <2>1, <2>2, <3>1, <3>3
  <2>3. t[n + 1] = e
    <3>1. n + 1 \in 1 .. n + 1
      BY <1>4
    <3> QED BY <1>7, <1>9, <2>1, <3>1
  <2>4. s \in [1 .. n -> S] /\ t \in [1 .. n + 1 -> S]
    <3>1. \A k \in 1 .. n + 1 : k \in 1 .. n \/ k = n + 1
      BY <1>4
    <3>2. \A k \in 1 .. n + 1 : t[k] \in S
      BY <2>2, <2>3, <3>1
    <3> HIDE DEF s, t
    <3>3. s \in [1 .. n -> S]
      BY <2>1
    <3>4. t \in [1 .. n + 1 -> S]
      BY <2>1, <3>2
    <3> QED BY <3>3, <3>4
  <2> HIDE DEF s, t, S, e
  <2>5. s \in Seq(S) /\ Len(s) = n /\ t \in Seq(S) /\ Len(t) = n + 1 /\ e \in S
    <3>1. n + 1 \in Nat
      BY <1>4
    <3>2. s \in Seq(S) /\ t \in Seq(S)
      BY <1>4, <2>4, <3>1, SeqDef
    <3>3. DOMAIN s = 1 .. n /\ DOMAIN t = 1 .. n + 1
      BY <2>4
    <3>4. Len(s) = n /\ Len(t) = n + 1
      BY <1>4, <3>1, <3>2, <3>3, LenProperties
    <3> QED BY <3>2, <3>4 DEF S
  <2>6. /\ Append(s, e) \in Seq(S) /\ Len(Append(s, e)) = n + 1
        /\ \A i \in 1 .. n : Append(s, e)[i] = s[i]
        /\ Append(s, e)[n + 1] = e
    BY <2>5, Appended
  <2>7. \A i \in 1 .. n + 1 : t[i] = Append(s, e)[i]
    <3>1. \A i \in 1 .. n + 1 : i \in 1 .. n \/ i = n + 1
      BY <1>4
    <3> QED BY <2>2, <2>3, <2>6, <3>1
  <2>8. t = Append(s, e)
    BY <2>5, <2>6, <2>7, SeqEqual
  <2> QED BY <2>8 DEF s, t
<1>11. value' \in [Names -> Values]
  BY <1>2 DEF Stacks
<1>12. \A v \in Names \ N : value'[v] = value[v]
  BY <1>8, NamesBound DEF Enter, BindArguments
<1>13. N \in SUBSET Names
  BY <1>8, NamesBound
<1> QED BY <1>10, <1>11, <1>12, <1>13

LEMMA ReturnScopes ==
  ASSUME StackInv, Return
  PROVE  LET s == ScopesOf(ctl, stk, Bodies)
         IN  /\ s # <<>>
             /\ value' = [v \in Names |-> IF v \in DOMAIN s[Len(s)] THEN s[Len(s)][v]
                                          ELSE value[v]]
             /\ ScopesOf(ctl', stk', Bodies') = SubSeq(s, 1, Len(s) - 1)
<1>1. /\ Regs /\ Stacks /\ Frames /\ LevelIsDepth /\ LVLCL = Cardinality(Bodies)
      /\ RankedIn(Bodies, LVLCL)
  BY StackInvParts DEF LevelIsDepth
<1> DEFINE L == Len(ctl)
           n == Cardinality(Bodies)
           s == ScopesOf(ctl, stk, Bodies)
           t == ScopesOf(ctl', stk', Bodies')
<1>2. Stacks' /\ Shaped /\ Returns /\ L \in Bodies /\ Bodies' = Bodies \ {L}
  <2>1. Stacks' /\ Returns /\ L \in Bodies
    BY <1>1, ShapeOfReturn
  <2>2. Shaped
    BY <2>1 DEF Shaped
  <2> QED BY <1>1, <2>1, <2>2, BodiesStep
<1>3. /\ Bodies \subseteq Nat /\ IsFiniteSet(Bodies) /\ n \in Nat /\ L \in Nat
      /\ \A j \in Bodies : j <= L
  <2>1. Bodies \subseteq Nat /\ IsFiniteSet(Bodies) /\ n \in Nat /\ Bodies \subseteq 1 .. L
    BY <1>1, BodiesType
  <2>2. L \in Nat
    BY <1>1, TopType
  <2> QED BY <2>1, <2>2
<1>4. n >= 1
  <2>1. n # 0
    BY <1>2, <1>3, FS_EmptySet
  <2> QED BY <1>3, <2>1
<1> HIDE DEF n
<1>5. /\ IsFiniteSet(Bodies') /\ Bodies' \subseteq Nat /\ Cardinality(Bodies') = n - 1
      /\ \A i \in Bodies' : Rank(Bodies', i) = Rank(Bodies, i)
      /\ Rank(Bodies, L) = n /\ RankedIn(Bodies', n - 1)
  BY <1>1, <1>2, <1>3, RankRemove DEF n
<1>6. ASSUME NEW k \in 1 .. n - 1
      PROVE  /\ BodyIn(Bodies', k) = BodyIn(Bodies, k)
             /\ BodyIn(Bodies, k) \in Bodies /\ BodyIn(Bodies, k) # L
  <2>1. BodyIn(Bodies', k) \in Bodies' /\ Rank(Bodies', BodyIn(Bodies', k)) = k
    <3>1. n - 1 \in Nat
      BY <1>3, <1>4
    <3> QED BY <1>5, <1>6, <3>1, BodyInRight
  <2>2. BodyIn(Bodies', k) \in Bodies /\ Rank(Bodies, BodyIn(Bodies', k)) = k
    BY <1>2, <1>5, <2>1
  <2>3. k \in 1 .. n
    BY <1>3, <1>6
  <2>4. \A i \in Bodies : Rank(Bodies, i) = k => i = BodyIn(Bodies, k)
    BY <1>1, <1>3, <2>3, BodyInRight DEF n
  <2> QED BY <1>2, <2>1, <2>2, <2>4
<1>7. BodyIn(Bodies, n) = L
  <2>1. n \in 1 .. n
    BY <1>3, <1>4
  <2>2. \A i \in Bodies : Rank(Bodies, i) = n => i = BodyIn(Bodies, n)
    BY <1>1, <1>3, <2>1, BodyInRight DEF n
  <2> QED BY <1>2, <1>5, <2>2
<1>8. /\ s = [k \in 1 .. n |-> GivesOf(ctl, stk, BodyIn(Bodies, k))]
      /\ t = [k \in 1 .. n - 1 |-> GivesOf(ctl', stk', BodyIn(Bodies', k))]
  BY <1>5 DEF ScopesOf, n
<1>9. \A k \in 1 .. n - 1 : k \in 1 .. n
  BY <1>3
<1>10. ASSUME NEW k \in 1 .. n - 1 PROVE t[k] = s[k]
  <2>1. BodyIn(Bodies, k) \in Bodies /\ BodyIn(Bodies, k) < Len(ctl)
    <3>1. /\ BodyIn(Bodies, k) \in Bodies /\ BodyIn(Bodies, k) # L
          /\ BodyIn(Bodies, k) \in Nat /\ BodyIn(Bodies, k) <= L
      BY <1>3, <1>6, <1>10
    <3> QED BY <1>3, <3>1
  <2>2. GivesOf(ctl', stk', BodyIn(Bodies, k)) = GivesOf(ctl, stk, BodyIn(Bodies, k))
    BY <1>2, <2>1, GivesSame
  <2> QED BY <1>6, <1>8, <1>9, <1>10, <2>2
<1> DEFINE S == {s[k] : k \in 1 .. n}
<1>11. s \in [1 .. n -> S] /\ t \in [1 .. n - 1 -> S]
  <2>1. \A k \in 1 .. n - 1 : t[k] \in S
    BY <1>9, <1>10
  <2> HIDE DEF s, t
  <2>2. s \in [1 .. n -> S]
    BY <1>8
  <2>3. t \in [1 .. n - 1 -> S]
    BY <1>8, <2>1
  <2> QED BY <2>2, <2>3
<1> HIDE DEF s, t, S
<1>12. s \in Seq(S) /\ Len(s) = n /\ t \in Seq(S) /\ Len(t) = n - 1
  <2>1. n - 1 \in Nat
    BY <1>3, <1>4
  <2>2. s \in Seq(S) /\ t \in Seq(S)
    BY <1>3, <1>11, <2>1, SeqDef
  <2>3. DOMAIN s = 1 .. n /\ DOMAIN t = 1 .. n - 1
    BY <1>11
  <2>4. Len(s) = n /\ Len(t) = n - 1
    BY <1>3, <2>1, <2>2, <2>3, LenProperties
  <2> QED BY <2>2, <2>4
<1>13. t = SubSeq(s, 1, Len(s) - 1)
  <2>1. n - 1 \in 0 .. Len(s)
    BY <1>3, <1>4, <1>12
  <2>2. /\ SubSeq(s, 1, n - 1) \in Seq(S) /\ Len(SubSeq(s, 1, n - 1)) = n - 1
        /\ \A i \in 1 .. n - 1 : SubSeq(s, 1, n - 1)[i] = s[i]
    BY <1>12, <2>1, Cut
  <2>3. t = SubSeq(s, 1, n - 1)
    BY <1>10, <1>12, <2>2, SeqEqual
  <2> QED BY <1>12, <2>3
<1>14. s # <<>>
  BY <1>4, <1>12
<1>15. value' = [v \in Names |-> IF v \in DOMAIN s[n] THEN s[n][v] ELSE value[v]]
  <2> DEFINE kept == stk[Len(stk)]
             d == kept.defn
             b == Top.base
             slots == Len(stk) - 1 - Len(Bound(d))
  <2>1. d \in Defs /\ slots = b
    BY <1>1, KeptOnTop DEF Return
  <2>2. value' = [v \in Names |-> IF At(d, v) = {} THEN value[v]
                                  ELSE stk[slots + LastPopped(d, v)]]
    BY DEF Return
  <2>3. s[n] = GivesOf(ctl, stk, L)
    <3>1. n \in 1 .. n
      BY <1>3, <1>4
    <3> QED BY <1>7, <1>8, <3>1
  <2>4. GivesOf(ctl, stk, L) = [v \in NamesOf(d) |-> stk[b + Min(At(d, v))]]
    <3>1. ~(L < Len(ctl)) /\ ctl[L].base = b
      BY <1>1, <1>3, TopType
    <3> QED BY <3>1 DEF GivesOf
  <2> HIDE DEF kept, d, b, slots
  <2>5. \A v \in Names : v \in NamesOf(d) <=> At(d, v) # {}
    BY <2>1, NamesBound
  <2>6. DOMAIN s[n] = NamesOf(d) /\ \A v \in NamesOf(d) : s[n][v] = stk[b + Min(At(d, v))]
    BY <2>3, <2>4
  <2> QED BY <2>1, <2>2, <2>5, <2>6 DEF LastPopped
<1> QED BY <1>12, <1>13, <1>14, <1>15 DEF s, t

LEMMA OtherScopes ==
  ASSUME StackInv, Stacks', Shaped, Bodies' = Bodies
  PROVE  ScopesOf(ctl', stk', Bodies') = ScopesOf(ctl, stk, Bodies)
<1>1. Regs /\ Stacks /\ Frames /\ RankedIn(Bodies, Cardinality(Bodies))
  BY StackInvParts
<1>2. Len(ctl) \notin Bodies
  <2>1. CASE Stays
    BY <2>1 DEF Stays, Bodies, InBody, BodyOf
  <2>2. CASE Returns
    BY <1>1, <2>2, BodiesStep
  <2>3. CASE \E p \in Procs : Calls(p)
    BY <1>1, <2>3, BodiesStep
  <2> QED BY <2>1, <2>2, <2>3 DEF Shaped
<1>3. ASSUME NEW k \in 1 .. Cardinality(Bodies)
      PROVE  GivesOf(ctl', stk', BodyIn(Bodies, k)) = GivesOf(ctl, stk, BodyIn(Bodies, k))
  <2>1. /\ Bodies \subseteq 1 .. Len(ctl) /\ Bodies \subseteq Nat /\ IsFiniteSet(Bodies)
        /\ Cardinality(Bodies) \in Nat
    BY <1>1, BodiesType
  <2>2. BodyIn(Bodies, k) \in Bodies
    BY <1>1, <1>3, <2>1, BodyInRight
  <2>3. BodyIn(Bodies, k) < Len(ctl)
    <3>1. BodyIn(Bodies, k) \in 1 .. Len(ctl) /\ BodyIn(Bodies, k) # Len(ctl) /\ Len(ctl) \in Nat
      BY <1>1, <1>2, <2>1, <2>2, TopType
    <3> QED BY <3>1
  <2> QED BY <2>2, <2>3, GivesSame
<1> QED BY <1>3 DEF ScopesOf

(* Calls bind dynamically: every program's variables and calls in progress *)
(* behave as Scopes says.  DEFFNC binds the names in their order and gives *)
(* them back in the opposite one.                                          *)
THEOREM BindsDynamically == Spec => DynamicScoping
<1> DEFINE Sc == [k \in 1 .. Cardinality(Bodies) |-> GivesBack(BodyAt(k))]
<1>1. Init => Scoping!Init
  <2> SUFFICES ASSUME Init PROVE Scoping!Init
    OBVIOUS
  <2>1. value \in [Names -> Values]
    BY DEF Init, Values
  <2>2. Bodies = {}
    BY DEF Init, Bodies, InBody, Fetch
  <2>3. Cardinality(Bodies) = 0
    BY <2>2, FS_EmptySet
  <2>4. Sc = <<>>
    BY <2>3
  <2> QED BY <2>1, <2>4 DEF Scoping!Init
<1>2. StackInv /\ [Next]_vars => [Scoping!Next]_<<value, Sc>>
  <2> SUFFICES ASSUME StackInv, [Next]_vars PROVE [Scoping!Next]_<<value, Sc>>
    OBVIOUS
  <2> DEFINE s == ScopesOf(ctl, stk, Bodies)
             t == ScopesOf(ctl', stk', Bodies')
  <2>1. Sc = s /\ Sc' = t
    BY ScopesMean DEF ScopesOf, GivesOf, GivesBack, BodyIn, BodyAt, Kept, Rank, NamesOf
  <2>2. CASE UNCHANGED vars
    BY <2>2 DEF vars, Bodies, InBody, GivesBack, BodyAt, Kept
  <2>3. CASE Next
    <3>1. /\ Regs /\ Stacks /\ Frames /\ LevelIsDepth
      BY StackInvParts DEF LevelIsDepth
    <3>2. /\ Stacks' /\ Shaped
          /\ Enter \/ Return \/ Bodies' = Bodies
      BY <2>3, <3>1, Steps
    <3>3. CASE Enter
      BY <2>1, <3>3, EnterScopes DEF Scoping!Next, Scoping!Enter
    <3>4. CASE Return
      BY <2>1, <3>4, ReturnScopes DEF Scoping!Next, Scoping!Leave
    <3>5. CASE ~Enter /\ ~Return /\ Bodies' = Bodies
      <4>1. t = s
        BY <3>2, <3>5, OtherScopes
      <4>2. value' \in [Names -> Values]
        BY <3>2 DEF Stacks
      <4> QED BY <2>1, <4>1, <4>2 DEF Scoping!Next, Scoping!Assign
    <3> QED BY <3>2, <3>3, <3>4, <3>5
  <2> QED BY <2>2, <2>3
<1> QED BY <1>1, <1>2, StackInvInit, StackInvNext, PTL DEF Spec, DynamicScoping, Scoping!Spec

-----------------------------------------------------------------------------
(* What expressions and trace calls around a level mean for the next one.  *)

LEMMA Alike ==
  ASSUME NEW c, NEW s, NEW d, NEW t, NEW n \in Nat,
         \A i \in 1 .. n : d[i] = c[i],
         \A i \in 1 .. n : c[i].proc \in {"EXPVAL", "TRPHND"} => KeptOf(d, t, i) = KeptOf(c, s, i)
  PROVE  /\ Within(d, n) <=> Within(c, n)
         /\ \A p : Undisturbed(d, t, n, p) <=> Undisturbed(c, s, n, p)
         /\ Between(d, t, n) <=> Between(c, s, n)
<1>1. ASSUME NEW h \in 1 .. n PROVE Level(d, h, n) <=> Level(c, h, n)
  <2>1. \A k \in h + 1 .. n : k \in 1 .. n
    OBVIOUS
  <2> QED BY <2>1 DEF Level
<1> QED BY <1>1 DEF Within, Undisturbed, Between

LEMMA Above ==
  ASSUME NEW c, NEW s, NEW n \in Nat, c[n + 1].proc \in Procs
  PROVE  /\ c[n + 1].proc = "INTERP" =>
              /\ ~Within(c, n + 1) /\ ~Between(c, s, n + 1)
              /\ \A p : Undisturbed(c, s, n + 1, p)
         /\ c[n + 1].proc \in {"EXPVAL", "TRPHND"} => Within(c, n + 1)
         /\ c[n + 1].proc = "DEFFNC" =>
              /\ Within(c, n + 1) <=> Within(c, n)
              /\ Between(c, s, n + 1) <=> Between(c, s, n)
         /\ c[n + 1].proc = "EXPVAL" =>
              /\ Between(c, s, n + 1) <=> Between(c, s, n)
              /\ \A p : Undisturbed(c, s, n + 1, p) <=>
                           /\ Undisturbed(c, s, n, p)
                           /\ SameStatement(p, KeptOf(c, s, n + 1).pos)
         /\ c[n + 1].proc = "TRPHND" =>
              Between(c, s, n + 1) <=> \/ Between(c, s, n)
                                       \/ KeptOf(c, s, n + 1).pos.OCICL % StmtLen = 0
         /\ c[n + 1].proc \in {"DEFFNC", "TRPHND"} =>
              \A p : Undisturbed(c, s, n + 1, p) <=> Undisturbed(c, s, n, p)
<1>1. 1 .. n + 1 = (1 .. n) \cup {n + 1} /\ n + 1 \notin 1 .. n
  OBVIOUS
<1>2. ASSUME NEW h \in 1 .. n
      PROVE  Level(c, h, n + 1) <=> Level(c, h, n) /\ c[n + 1].proc # "INTERP"
  <2>1. h + 1 .. n + 1 = (h + 1 .. n) \cup {n + 1}
    OBVIOUS
  <2> QED BY <2>1 DEF Level
<1>3. Level(c, n + 1, n + 1)
  BY DEF Level
<1>4. Within(c, n + 1) <=> \/ c[n + 1].proc \in {"EXPVAL", "TRPHND"}
                           \/ Within(c, n) /\ c[n + 1].proc # "INTERP"
  BY <1>1, <1>2, <1>3 DEF Within
<1>5. Between(c, s, n + 1) <=> \/ /\ c[n + 1].proc = "TRPHND"
                                  /\ KeptOf(c, s, n + 1).pos.OCICL % StmtLen = 0
                               \/ Between(c, s, n) /\ c[n + 1].proc # "INTERP"
  BY <1>1, <1>2, <1>3 DEF Between
<1>6. ASSUME NEW p
      PROVE  Undisturbed(c, s, n + 1, p) <=>
               /\ c[n + 1].proc = "EXPVAL" => SameStatement(p, KeptOf(c, s, n + 1).pos)
               /\ c[n + 1].proc # "INTERP" => Undisturbed(c, s, n, p)
  BY <1>1, <1>2, <1>3 DEF Undisturbed
<1> QED BY <1>4, <1>5, <1>6 DEF Procs

LEMMA OutsideOf ==
  ASSUME NEW c, NEW s, NEW n, ~Within(c, n)
  PROVE  (\A p : Undisturbed(c, s, n, p)) /\ ~Between(c, s, n)
BY DEF Within, Undisturbed, Between

LEMMA Transport ==
  ASSUME NEW c, NEW s, NEW n, NEW p, NEW q, Undisturbed(c, s, n, p), SameStatement(q, p)
  PROVE  Undisturbed(c, s, n, q)
BY DEF Undisturbed, SameStatement

LEMMA AgreeGives ==
  ASSUME NEW p \in Positions, Agree(p), p.OCBSCL # Expr
  PROVE  ExitAgrees(p.OCBSCL, p.FRTNCL, p.STNOCL)
BY DEF Agree, ExitAgrees

(* Reading on in a statement.                                              *)
LEMMA StepAgrees ==
  ASSUME Regs
  PROVE  /\ SameStatement(Step, pos) /\ Step.OCBSCL = pos.OCBSCL /\ Step \in Positions
         /\ Agree(pos) => Agree(Step)
<1>1. SameStatement(Step, pos) /\ Step.OCBSCL = pos.OCBSCL /\ Step \in Positions
  BY StepType DEF SameStatement
<1>2. pos.OCICL \in Nat
  BY DEF Regs, Positions
<1>3. Step.OCICL \div StmtLen = pos.OCICL \div StmtLen
  <2>1. Step.OCICL = IF pos.OCICL % StmtLen = 2 THEN pos.OCICL ELSE pos.OCICL + 1
    BY StepType
  <2>2. ASSUME NEW o \in Nat, o % 3 # 2 PROVE (o + 1) \div 3 = o \div 3
    BY <2>2
  <2> QED BY <1>2, <2>1, <2>2 DEF StmtLen
<1>4. Agree(pos) => Agree(Step)
  BY <1>1, <1>3 DEF Agree, SameStatement
<1> QED BY <1>1, <1>4

(* INIT has set the registers of the statement.                            *)
LEMMA CountedAgrees ==
  ASSUME Regs, AtStatement
  PROVE  Agree(Counted) /\ Counted.OCBSCL = pos.OCBSCL
<1>1. pos.OCICL \in Nat /\ pos.OCICL % 3 = 0 /\ pos \in Positions
  BY DEF Regs, Positions, AtStatement, StmtLen
<1>2. Step.OCICL = pos.OCICL + 1 /\ Step.OCBSCL = pos.OCBSCL /\ Step \in Positions
  BY <1>1, StepType DEF StmtLen
<1>3. /\ Counted.OCICL = pos.OCICL + 1 /\ Counted.OCBSCL = pos.OCBSCL
      /\ Counted.STNOCL = <<pos.OCBSCL, pos.OCICL \div 3>> /\ Counted.FRTNCL = pos.OCICL + 3
  BY <1>2 DEF Counted, Positions, StmtLen
<1>4. ASSUME NEW o \in Nat, o % 3 = 0
      PROVE  (o + 1) \div 3 = o \div 3 /\ ((o + 1) \div 3 + 1) * 3 = o + 3
  BY <1>4
<1> QED BY <1>1, <1>3, <1>4 DEF Agree, StmtLen

(* The cell of a procedure that keeps a position.                          *)
LEMMA KeeperCell ==
  ASSUME Regs, Stacks, Frames, todo.op # "stop", NEW i \in 1 .. Len(ctl), Keeper(ctl, todo, i)
  PROVE  /\ Height(i) \in Nat \ {0} /\ KeptOf(ctl, stk, i) = stk[Height(i)]
         /\ KeptOf(ctl, stk, i).pos \in Positions
<1>1. KeptOf(ctl, stk, i) = stk[Height(i)]
  BY DEF KeptOf, Height
<1>2. Len(ctl) \in Nat /\ Len(stk) \in Nat /\ Top = ctl[Len(ctl)]
  BY TopType
<1>3. ctl[i].base \in Nat /\ (i < Len(ctl) => ctl[i + 1].base \in Nat)
  <2>1. \A j \in 1 .. Len(ctl) : ctl[j].base \in Nat
    BY FrameType DEF Stacks
  <2>2. i < Len(ctl) => i + 1 \in 1 .. Len(ctl)
    BY <1>2
  <2> QED BY <2>1, <2>2
<1>4. ASSUME NEW n \in Nat, NEW b \in Nat, Slots(b, n, stk) PROVE n # 0 /\ stk[n].pos \in Positions
  <2>1. stk[n].defn \in Defs /\ n = b + Len(Bound(stk[n].defn)) + 1 /\ stk[n].pos \in Positions
    BY <1>4 DEF Slots, CallCells
  <2>2. Len(Bound(stk[n].defn)) \in Nat
    BY <2>1, BoundType
  <2> QED BY <1>4, <2>1, <2>2
<1>5. ASSUME NEW n \in Nat, NEW b \in Nat, n = b + 1, stk[n] \in ExprCells \/ stk[n] \in TraceCells
      PROVE  n # 0 /\ stk[n].pos \in Positions
  BY <1>5 DEF ExprCells, TraceCells
<1>6. CASE i < Len(ctl)
  <2>1. i \in 1 .. Len(ctl) - 1
    BY <1>2, <1>6
  <2>2. Waits(ctl, stk, i) /\ Height(i) = ctl[i + 1].base
    BY <1>6, <2>1 DEF Frames, Stacked, Height
  <2>3. \/ ctl[i].proc \in {"EXPVAL", "TRPHND"}
        \/ ctl[i].proc = "DEFFNC" /\ ctl[i + 1].proc = "INTERP"
    BY <1>6 DEF Keeper, BodyOf
  <2>4. \/ /\ Height(i) = ctl[i].base + 1
           /\ stk[Height(i)] \in ExprCells \/ stk[Height(i)] \in TraceCells
        \/ Slots(ctl[i].base, Height(i), stk)
    BY <2>2, <2>3 DEF Waits
  <2>5. Height(i) \in Nat
    BY <1>3, <1>6, <2>2
  <2> QED BY <1>1, <1>3, <1>4, <1>5, <2>4, <2>5
<1>7. CASE i = Len(ctl)
  <2>1. Height(i) = Len(stk) /\ Runs
    BY <1>2, <1>7 DEF Height, Frames
  <2>2. \/ Top.proc \in {"EXPVAL", "TRPHND"}
        \/ Top.proc = "DEFFNC" /\ todo.op = "ret" /\ todo.rc \notin {1, 2, 3}
    BY <1>2, <1>7 DEF Keeper, BodyOf
  <2>3. \/ /\ Len(stk) = Top.base + 1
           /\ stk[Len(stk)] \in ExprCells \/ stk[Len(stk)] \in TraceCells
        \/ Slots(Top.base, Len(stk), stk)
    BY <2>1, <2>2 DEF Runs
  <2> QED BY <1>1, <1>2, <1>3, <1>4, <1>5, <1>7, <2>1, <2>3
<1> QED BY <1>2, <1>6, <1>7

(* Below level m nothing has changed, and the positions kept there agree   *)
(* as they did.                                                            *)
Same(m) == /\ \A i \in 1 .. m : ctl'[i] = ctl[i]
           /\ \A n \in 0 .. m : /\ Within(ctl', n) <=> Within(ctl, n)
                                /\ \A p : Undisturbed(ctl', stk', n, p) <=> Undisturbed(ctl, stk, n, p)
                                /\ Between(ctl', stk', n) <=> Between(ctl, stk, n)

LEMMA LastingSame ==
  ASSUME Regs, Stacks, Frames, todo.op # "stop", NEW m \in 0 .. Len(ctl), Lasting(m)
  PROVE  /\ Same(m)
         /\ \A i \in 1 .. m : Keeper(ctl, todo, i) => KeptOf(ctl', stk', i) = KeptOf(ctl, stk, i)
<1>1. Len(ctl) \in Nat
  BY TopType
<1>2. ASSUME NEW i \in 1 .. m
      PROVE  /\ i \in 1 .. Len(ctl) /\ ctl'[i] = ctl[i]
             /\ Keeper(ctl, todo, i) => KeptOf(ctl', stk', i) = KeptOf(ctl, stk, i)
  <2>1. i \in 1 .. Len(ctl)
    BY <1>1
  <2>2. ctl'[i] = ctl[i] /\ Height(i)' = Height(i) /\ \A j \in 1 .. Height(i) : stk'[j] = stk[j]
    BY DEF Lasting
  <2>3. KeptOf(ctl', stk', i) = stk'[Height(i)']
    BY DEF KeptOf, Height
  <2>4. ASSUME Keeper(ctl, todo, i) PROVE KeptOf(ctl', stk', i) = KeptOf(ctl, stk, i)
    <3>1. Height(i) \in 1 .. Height(i) /\ KeptOf(ctl, stk, i) = stk[Height(i)]
      BY <2>1, <2>4, KeeperCell
    <3> QED BY <2>2, <2>3, <3>1
  <2> QED BY <2>1, <2>2, <2>4
<1>3. ASSUME NEW n \in 0 .. m
      PROVE  /\ Within(ctl', n) <=> Within(ctl, n)
             /\ \A p : Undisturbed(ctl', stk', n, p) <=> Undisturbed(ctl, stk, n, p)
             /\ Between(ctl', stk', n) <=> Between(ctl, stk, n)
  <2>1. n \in Nat /\ \A i \in 1 .. n : i \in 1 .. m
    OBVIOUS
  <2>2. \A i \in 1 .. n : ctl'[i] = ctl[i]
    BY <1>2, <2>1
  <2>3. \A i \in 1 .. n : ctl[i].proc \in {"EXPVAL", "TRPHND"} =>
                             KeptOf(ctl', stk', i) = KeptOf(ctl, stk, i)
    BY <1>2, <2>1 DEF Keeper
  <2> QED BY <2>1, <2>2, <2>3, Alike
<1> QED BY <1>2, <1>3 DEF Same

LEMMA StillRight ==
  ASSUME NEW m \in Nat, Same(m), NEW i \in 1 .. m, KeptOf(ctl', stk', i) = KeptOf(ctl, stk, i),
         KeptRight(ctl, stk, i)
  PROVE  KeptRight(ctl', stk', i)
<1>1. i - 1 \in 0 .. m /\ ctl'[i] = ctl[i]
  BY DEF Same
<1> QED BY <1>1 DEF Same, KeptRight

LEMMA SamePosition ==
  ASSUME NEW m \in Nat, Same(m), NEW n \in 1 .. m, NEW t, NEW p, NEW e
  PROVE  /\ PosRight(ctl', stk', n, t, p, e) <=> PosRight(ctl, stk, n, t, p, e)
         /\ Awaits(ctl', stk', n, t, p, e) <=> Awaits(ctl, stk, n, t, p, e)
<1>1. n \in 0 .. m /\ ctl'[n] = ctl[n]
  BY DEF Same
<1> QED BY <1>1 DEF Same, PosRight, Awaits

(* What every step finds.                                                  *)
Works == Regs /\ Stacks /\ Frames /\ todo.op # "stop" /\ Stacks' /\ Shaped

LEMMA WorksLen == Works => Len(ctl) \in Nat \ {0} /\ Len(ctl') \in Nat /\ Top = ctl[Len(ctl)]
<1> SUFFICES ASSUME Works PROVE Len(ctl) \in Nat \ {0} /\ Len(ctl') \in Nat /\ Top = ctl[Len(ctl)]
  OBVIOUS
<1>1. Stacks /\ Stacks'
  BY DEF Works
<1>2. ctl' \in Seq(ProcFrames)
  BY <1>1 DEF Stacks
<1> QED BY <1>1, <1>2, TopType

LEMMA PlacedBelow ==
  ASSUME Works
  PROVE  /\ Same(Len(ctl) - 1)
         /\ Placed /\ Tracked(ended) =>
              \A i \in 1 .. Len(ctl) - 1 :
                 Keeper(ctl', todo', i) /\ i <= Len(ctl') => KeptRight(ctl', stk', i)
<1>1. Regs /\ Stacks /\ Frames /\ todo.op # "stop" /\ Stacks' /\ Shaped
  BY DEF Works
<1>2. Len(ctl) \in Nat \ {0} /\ Len(ctl) - 1 \in 0 .. Len(ctl) /\ Len(ctl) - 1 \in Nat
      /\ Len(ctl') \in Nat
  BY WorksLen
<1>3. Lasting(Len(ctl) - 1)
  BY <1>1, Lasts
<1>4. Same(Len(ctl) - 1)
      /\ \A i \in 1 .. Len(ctl) - 1 : Keeper(ctl, todo, i) => KeptOf(ctl', stk', i) = KeptOf(ctl, stk, i)
  BY <1>1, <1>2, <1>3, LastingSame
<1>5. ASSUME NEW i \in 1 .. Len(ctl) - 1, Keeper(ctl', todo', i), i <= Len(ctl'), Placed, Tracked(ended)
      PROVE  KeptRight(ctl', stk', i)
  <2>1. ctl'[i] = ctl[i] /\ i \in 1 .. Len(ctl) /\ i < Len(ctl) /\ i \in 1 .. Len(ctl')
        /\ i # Len(ctl)
    <3>1. Len(ctl) \in Nat /\ Len(ctl') \in Nat
      BY <1>2
    <3> QED BY <3>1, <1>4, <1>5 DEF Same
  <2>2. Keeper(ctl, todo, i)
    <3>1. CASE ctl'[i].proc \in {"EXPVAL", "TRPHND"}
      BY <2>1, <3>1 DEF Keeper
    <3>2. CASE BodyOf(ctl', todo', i)
      <4>1. i \in Bodies'
        <5>1. (DOMAIN ctl = 1 .. Len(ctl))'
          BY <1>1, TopType, PTL
        <5>2. i \in DOMAIN ctl'
          BY <5>1, <2>1
        <5> QED BY <5>2, <3>2 DEF Bodies, InBody, BodyOf
      <4>2. Bodies' \subseteq Bodies \cup {Len(ctl)}
        BY <1>1, BodiesStep DEF Shaped
      <4>3. i \in Bodies
        BY <2>1, <4>1, <4>2
      <4> QED BY <4>3 DEF Bodies, InBody, BodyOf, Keeper
    <3> QED BY <1>5, <3>1, <3>2 DEF Keeper
  <2>3. KeptRight(ctl, stk, i)
    BY <1>5, <2>1, <2>2 DEF Placed
  <2> QED BY <1>2, <1>4, <1>5, <2>2, <2>3, StillRight
<1> QED BY <1>4, <1>5

(* The running procedure goes on.                                          *)
LEMMA SameHere ==
  ASSUME Works, Stays, UNCHANGED stk \/ Top.proc \in {"INTERP", "DEFFNC"}
  PROVE  /\ Same(Len(ctl)) /\ Len(ctl') = Len(ctl)
         /\ Placed /\ Tracked(ended) /\ Keeper(ctl', todo', Len(ctl)) => KeptRight(ctl', stk', Len(ctl))
<1>1. Regs /\ Stacks /\ Frames /\ todo.op # "stop"
  BY DEF Works
<1>2. Len(ctl) \in Nat \ {0} /\ Top = ctl[Len(ctl)] /\ Len(ctl) \in 1 .. Len(ctl)
      /\ Len(ctl) \in 0 .. Len(ctl)
  BY WorksLen
<1>3. ctl' = ctl /\ ~BodyOf(ctl, todo, Len(ctl)) /\ ~BodyOf(ctl', todo', Len(ctl))
  BY DEF Stays
<1>4. CASE UNCHANGED stk
  <2>1. /\ KeptRight(ctl', stk', Len(ctl)) <=> KeptRight(ctl, stk, Len(ctl))
        /\ Same(Len(ctl))
    BY <1>3, <1>4 DEF Same
  <2>2. Keeper(ctl', todo', Len(ctl)) => Keeper(ctl, todo, Len(ctl))
    BY <1>3 DEF Keeper
  <2> QED BY <1>1, <1>2, <1>3, <2>1, <2>2 DEF Placed
<1>5. CASE Top.proc \in {"INTERP", "DEFFNC"}
  <2>1. ~Keeper(ctl', todo', Len(ctl)) /\ ~Keeper(ctl, todo, Len(ctl))
    BY <1>2, <1>3, <1>5 DEF Keeper
  <2>2. Same(Len(ctl) - 1) /\ Lasting(Len(ctl) - 1)
    BY <1>1, PlacedBelow, Lasts DEF Works
  <2>3. Len(ctl) - 1 \in 0 .. Len(ctl)
    BY <1>2
  <2>4. \A i \in 1 .. Len(ctl) - 1 : Keeper(ctl, todo, i) => KeptOf(ctl', stk', i) = KeptOf(ctl, stk, i)
    BY <1>1, <2>2, <2>3, LastingSame
  <2>5. ASSUME NEW n \in 0 .. Len(ctl)
        PROVE  /\ Within(ctl', n) <=> Within(ctl, n)
               /\ \A p : Undisturbed(ctl', stk', n, p) <=> Undisturbed(ctl, stk, n, p)
               /\ Between(ctl', stk', n) <=> Between(ctl, stk, n)
    <3>1. n \in Nat /\ \A i \in 1 .. n : i \in 1 .. Len(ctl) - 1 \/ i = Len(ctl)
      BY <1>2
    <3>2. \A i \in 1 .. n : ctl[i].proc \in {"EXPVAL", "TRPHND"} =>
                              KeptOf(ctl', stk', i) = KeptOf(ctl, stk, i)
      BY <1>2, <1>5, <2>4, <3>1 DEF Keeper
    <3> QED BY <1>3, <3>1, <3>2, Alike
  <2> QED BY <1>3, <2>1, <2>5 DEF Same
<1> QED BY <1>4, <1>5

(* A procedure other than INTERP is called.                                *)
LEMMA SamePushed ==
  ASSUME Works, NEW q \in Procs, NEW cell, Calls(q), Pushed(q, cell), q # "INTERP"
  PROVE  /\ Same(Len(ctl)) /\ Len(ctl') = Len(ctl) + 1 /\ ctl'[Len(ctl) + 1].proc = q
         /\ KeptOf(ctl', stk', Len(ctl) + 1) = cell
         /\ Placed /\ Tracked(ended) /\ Keeper(ctl', todo', Len(ctl)) => KeptRight(ctl', stk', Len(ctl))
<1>1. Regs /\ Stacks /\ Frames /\ todo.op # "stop"
  BY DEF Works
<1>2. Len(ctl) \in Nat \ {0} /\ Top = ctl[Len(ctl)] /\ Len(ctl) \in 1 .. Len(ctl)
  BY WorksLen
<1>3. /\ Len(ctl') = Len(ctl) + 1 /\ \A i \in 1 .. Len(ctl) : ctl'[i] = ctl[i]
      /\ ctl'[Len(ctl) + 1] = [proc |-> q, base |-> Len(stk') - 1]
      /\ Len(stk') = Len(stk) + (IF Top.proc = "DEFFNC" THEN 2 ELSE 1)
      /\ \A j \in 1 .. Len(stk) : stk'[j] = stk[j]
      /\ stk'[Len(stk')] = cell
  BY DEF Pushed
<1>4. KeptOf(ctl', stk', Len(ctl) + 1) = cell
  BY <1>2, <1>3 DEF KeptOf
<1>5. ~BodyOf(ctl', todo', Len(ctl))
  BY <1>2, <1>3 DEF BodyOf
<1>6. ASSUME Top.proc # "DEFFNC", Keeper(ctl, todo, Len(ctl))
      PROVE  KeptOf(ctl', stk', Len(ctl)) = KeptOf(ctl, stk, Len(ctl))
  <2>1. Len(stk) \in Nat /\ Height(Len(ctl)) = Len(stk)
    BY <1>1, <1>2, TopType DEF Height
  <2>2. Len(stk) \in 1 .. Len(stk) /\ KeptOf(ctl, stk, Len(ctl)) = stk[Len(stk)]
    BY <1>1, <1>2, <1>6, <2>1, KeeperCell
  <2>3. Len(ctl) < Len(ctl') /\ ctl'[Len(ctl) + 1].base = Len(stk)
    BY <1>2, <1>3, <1>6, <2>1
  <2> QED BY <1>3, <2>2, <2>3 DEF KeptOf
<1>7. Same(Len(ctl) - 1) /\ Lasting(Len(ctl) - 1)
  BY <1>1, PlacedBelow, Lasts DEF Works
<1>8. Len(ctl) - 1 \in 0 .. Len(ctl)
  BY <1>2
<1>9. \A i \in 1 .. Len(ctl) - 1 : Keeper(ctl, todo, i) => KeptOf(ctl', stk', i) = KeptOf(ctl, stk, i)
  BY <1>1, <1>7, <1>8, LastingSame
<1>10. Same(Len(ctl))
  <2>1. ASSUME NEW n \in 0 .. Len(ctl)
        PROVE  /\ Within(ctl', n) <=> Within(ctl, n)
               /\ \A p : Undisturbed(ctl', stk', n, p) <=> Undisturbed(ctl, stk, n, p)
               /\ Between(ctl', stk', n) <=> Between(ctl, stk, n)
    <3>1. n \in Nat /\ \A i \in 1 .. n : i \in 1 .. Len(ctl) - 1 \/ i = Len(ctl)
      BY <1>2
    <3>2. \A i \in 1 .. n : ctl[i].proc \in {"EXPVAL", "TRPHND"} =>
                              KeptOf(ctl', stk', i) = KeptOf(ctl, stk, i)
      BY <1>2, <1>6, <1>9, <3>1 DEF Keeper
    <3>3. \A i \in 1 .. n : ctl'[i] = ctl[i]
      BY <1>2, <1>3, <3>1
    <3> QED BY <3>1, <3>2, <3>3, Alike
  <2> QED BY <1>3, <2>1 DEF Same
<1>11. ASSUME Placed, Tracked(ended), Keeper(ctl', todo', Len(ctl)) PROVE KeptRight(ctl', stk', Len(ctl))
  <2>1. ctl[Len(ctl)].proc \in {"EXPVAL", "TRPHND"}
    BY <1>2, <1>3, <1>5, <1>11 DEF Keeper
  <2>2. Keeper(ctl, todo, Len(ctl)) /\ Top.proc # "DEFFNC"
    BY <1>2, <2>1 DEF Keeper
  <2>3. KeptRight(ctl, stk, Len(ctl))
    BY <1>1, <1>2, <1>11, <2>2 DEF Placed
  <2> QED BY <1>2, <1>6, <1>10, <2>2, <2>3, StillRight
<1> QED BY <1>3, <1>4, <1>10, <1>11

(* What is left to show of a step: the position and the handler of the     *)
(* procedure that runs after it, on level n of c and s.                    *)
Goes(c, s, n) ==
    /\ Tracked(ended') =>
          /\ Tracked(ended) /\ XitRight(xit')
          /\ todo'.op # "stop" => PosRight(c, s, n, todo', pos', entering')
    /\ (entering' # None /\ todo'.op # "stop") => Awaits(c, s, n, todo', pos', entering')

LEMMA PlacedStays ==
  ASSUME Works, Placed, Stays, UNCHANGED stk \/ Top.proc \in {"INTERP", "DEFFNC"},
         Goes(ctl, stk, Len(ctl))
  PROVE  Placed' /\ Pending'
<1>1. Len(ctl) \in Nat \ {0} /\ Len(ctl) \in 1 .. Len(ctl)
  BY WorksLen
<1>2. /\ Same(Len(ctl)) /\ Len(ctl') = Len(ctl)
      /\ Tracked(ended) /\ Keeper(ctl', todo', Len(ctl)) => KeptRight(ctl', stk', Len(ctl))
  BY SameHere
<1>3. Tracked(ended) =>
                   \A i \in 1 .. Len(ctl) - 1 :
                      Keeper(ctl', todo', i) /\ i <= Len(ctl') => KeptRight(ctl', stk', i)
  BY PlacedBelow
<1>4. \A i \in 1 .. Len(ctl') : i \in 1 .. Len(ctl) - 1 \/ i = Len(ctl)
  BY <1>1, <1>2
<1>5. ASSUME Tracked(ended') PROVE \A i \in 1 .. Len(ctl') : Keeper(ctl', todo', i) => KeptRight(ctl', stk', i)
  BY <1>2, <1>3, <1>4, <1>5 DEF Goes
<1>6. /\ (Tracked(ended') /\ todo'.op # "stop") =>
            PosRight(ctl', stk', Len(ctl'), todo', pos', entering')
      /\ (entering' # None /\ todo'.op # "stop") =>
            Awaits(ctl', stk', Len(ctl'), todo', pos', entering')
  BY <1>1, <1>2, SamePosition DEF Goes
<1> QED BY <1>5, <1>6 DEF Goes, Placed, Pending

LEMMA PlacedPushed ==
  ASSUME Works, Placed, NEW q \in Procs, NEW cell, Calls(q), Pushed(q, cell), q # "INTERP",
         Tracked(ended) /\ q # "DEFFNC" => KeptRight(ctl', stk', Len(ctl) + 1),
         Goes(ctl', stk', Len(ctl) + 1)
  PROVE  Placed' /\ Pending'
<1>1. Len(ctl) \in Nat \ {0} /\ Len(ctl) \in 1 .. Len(ctl)
  BY WorksLen
<1>2. /\ Len(ctl') = Len(ctl) + 1 /\ ctl'[Len(ctl) + 1].proc = q
      /\ Tracked(ended) /\ Keeper(ctl', todo', Len(ctl)) => KeptRight(ctl', stk', Len(ctl))
  BY SamePushed
<1>3. Tracked(ended) =>
                   \A i \in 1 .. Len(ctl) - 1 :
                      Keeper(ctl', todo', i) /\ i <= Len(ctl') => KeptRight(ctl', stk', i)
  BY PlacedBelow
<1>4. \A i \in 1 .. Len(ctl') : /\ i \in 1 .. Len(ctl) - 1 \/ i = Len(ctl) \/ i = Len(ctl) + 1
                                /\ i <= Len(ctl')
  BY <1>1, <1>2
<1>5. q = "DEFFNC" => ~Keeper(ctl', todo', Len(ctl) + 1)
  <2>1. todo'.op # "ret" /\ ~(Len(ctl) + 1 < Len(ctl'))
    BY <1>1, <1>2 DEF Calls
  <2> QED BY <1>2, <2>1 DEF Keeper, BodyOf
<1>6. ASSUME Tracked(ended') PROVE \A i \in 1 .. Len(ctl') : Keeper(ctl', todo', i) => KeptRight(ctl', stk', i)
  <2>1. Tracked(ended)
    BY <1>6 DEF Goes
  <2> QED BY <1>2, <1>3, <1>4, <1>5, <2>1
<1>7. /\ (Tracked(ended') /\ todo'.op # "stop") =>
            PosRight(ctl', stk', Len(ctl'), todo', pos', entering')
      /\ (entering' # None /\ todo'.op # "stop") =>
            Awaits(ctl', stk', Len(ctl'), todo', pos', entering')
  BY <1>2 DEF Goes
<1> QED BY <1>6, <1>7 DEF Goes, Placed, Pending

LEMMA PlacedReturns ==
  ASSUME Works, Placed, Returns, Goes(ctl, stk, Len(ctl) - 1)
  PROVE  Placed' /\ Pending'
<1>1. Len(ctl') = Len(ctl) - 1 /\ Len(ctl) > 1
  BY DEF Returns
<1>2. Len(ctl) \in Nat
  BY WorksLen
<1>3. Len(ctl) - 1 \in Nat /\ Len(ctl) - 1 \in 1 .. Len(ctl) - 1
  BY <1>1, <1>2
<1>4. /\ Same(Len(ctl) - 1)
      /\ Tracked(ended) =>
                      \A i \in 1 .. Len(ctl) - 1 :
                         Keeper(ctl', todo', i) /\ i <= Len(ctl') => KeptRight(ctl', stk', i)
  BY PlacedBelow
<1>5. \A i \in 1 .. Len(ctl') : i \in 1 .. Len(ctl) - 1 /\ i <= Len(ctl')
  BY <1>1, <1>3
<1>6. ASSUME Tracked(ended') PROVE \A i \in 1 .. Len(ctl') : Keeper(ctl', todo', i) => KeptRight(ctl', stk', i)
  BY <1>4, <1>5, <1>6 DEF Goes
<1>7. /\ (Tracked(ended') /\ todo'.op # "stop") =>
            PosRight(ctl', stk', Len(ctl'), todo', pos', entering')
      /\ (entering' # None /\ todo'.op # "stop") =>
            Awaits(ctl', stk', Len(ctl'), todo', pos', entering')
  BY <1>1, <1>3, <1>4, SamePosition DEF Goes
<1> QED BY <1>6, <1>7 DEF Goes, Placed, Pending

(* What the levels say of the running procedure.                           *)
LEMMA AtTop ==
  ASSUME Works
  PROVE  /\ Top.proc = "INTERP" =>
              /\ ~Within(ctl, Len(ctl)) /\ ~Between(ctl, stk, Len(ctl))
              /\ \A p : Undisturbed(ctl, stk, Len(ctl), p)
         /\ Top.proc \in {"EXPVAL", "TRPHND"} => Within(ctl, Len(ctl))
         /\ Top.proc = "DEFFNC" =>
              /\ Within(ctl, Len(ctl)) <=> Within(ctl, Len(ctl) - 1)
              /\ Between(ctl, stk, Len(ctl)) <=> Between(ctl, stk, Len(ctl) - 1)
         /\ Top.proc = "EXPVAL" =>
              /\ Between(ctl, stk, Len(ctl)) <=> Between(ctl, stk, Len(ctl) - 1)
              /\ \A p : Undisturbed(ctl, stk, Len(ctl), p) <=>
                           /\ Undisturbed(ctl, stk, Len(ctl) - 1, p)
                           /\ SameStatement(p, KeptOf(ctl, stk, Len(ctl)).pos)
         /\ Top.proc = "TRPHND" =>
              Between(ctl, stk, Len(ctl)) <=>
                 \/ Between(ctl, stk, Len(ctl) - 1)
                 \/ KeptOf(ctl, stk, Len(ctl)).pos.OCICL % StmtLen = 0
         /\ Top.proc \in {"DEFFNC", "TRPHND"} =>
              \A p : Undisturbed(ctl, stk, Len(ctl), p) <=> Undisturbed(ctl, stk, Len(ctl) - 1, p)
         /\ InExpression <=> Within(ctl, Len(ctl))
<1>1. Len(ctl) \in Nat \ {0} /\ Top = ctl[Len(ctl)] /\ Top.proc \in Procs
  <2>1. Stacks
    BY DEF Works
  <2> QED BY <2>1, TopType
<1>2. PICK n \in Nat : n = Len(ctl) - 1
  BY <1>1
<1>3. Len(ctl) = n + 1 /\ ctl[n + 1] = Top
  BY <1>1, <1>2
<1>4. InExpression <=> Within(ctl, Len(ctl))
  <2>1. DOMAIN ctl = 1 .. Len(ctl)
    BY TopType DEF Works
  <2> QED BY <2>1 DEF InExpression, Within, Level
<1> QED BY <1>1, <1>2, <1>3, <1>4, Above

(* The position p is right in the middle of a statement, or of what an     *)
(* expression reads, on level n.                                           *)
Fine(n, p) == IF Within(ctl, n) THEN p.OCBSCL = Expr /\ Undisturbed(ctl, stk, n, p)
              ELSE p.OCBSCL # Expr /\ Agree(p)

LEMMA FineStep ==
  ASSUME Works, NEW n, NEW p \in Positions, NEW q, Fine(n, p),
         SameStatement(q, p), q.OCBSCL = p.OCBSCL, Agree(p) => Agree(q)
  PROVE  Fine(n, q)
BY Transport DEF Fine

(* A procedure that goes on or fails from a fine position.                 *)
LEMMA GoesFine ==
  ASSUME Works, NEW n, UNCHANGED <<ended, xit>>, pos' \in Positions,
         todo'.op \in {"fetch", "enter"} \/ (todo'.op = "ret" /\ todo'.rc \in {1, 2, 3}),
         Tracked(ended) => XitRight(xit) /\ Fine(n, pos'),
         entering' # None => Between(ctl, stk, n)
  PROVE  Goes(ctl, stk, n)
<1>1. todo'.op = "ret" => todo'.rc <= 3
  OBVIOUS
<1>2. ASSUME Tracked(ended') PROVE PosRight(ctl, stk, n, todo', pos', entering')
  <2>1. Fine(n, pos')
    BY <1>2
  <2>2. CASE Within(ctl, n)
    BY <2>1, <2>2 DEF Fine, PosRight
  <2>3. CASE ~Within(ctl, n)
    <3>1. /\ pos'.OCBSCL # Expr /\ Agree(pos')
          /\ ExitAgrees(pos'.OCBSCL, pos'.FRTNCL, pos'.STNOCL)
      BY <2>1, <2>3, AgreeGives DEF Fine
    <3> QED BY <2>3, <3>1 DEF PosRight
  <2> QED BY <2>2, <2>3
<1>3. ASSUME entering' # None PROVE Awaits(ctl, stk, n, todo', pos', entering')
  BY <1>1, <1>3 DEF Awaits
<1> QED BY <1>2, <1>3 DEF Goes

(* An error at a fine position.                                            *)
LEMMA Raised ==
  ASSUME Works, "inside" \notin Defects, NEW typ \in Nat \ {0}, NEW fatal, NEW p \in Positions,
         Raise(typ, fatal, p), UNCHANGED ended,
         NEW n, Within(ctl, n) <=> Within(ctl, Len(ctl)),
         Tracked(ended) => XitRight(xit) /\ Fine(n, p),
         entering # None => Between(ctl, stk, n)
  PROVE  Goes(ctl, stk, n)
<1>1. CASE pos' = p /\ Stop
  BY <1>1 DEF Goes, Stop, Stopped
<1>2. CASE XITHND(p, typ) /\ todo' = Ret(1, Null) /\ xit.ptr = None
  BY <1>2, GoesFine DEF XITHND, Ret
<1>3. CASE /\ XITHND(p, typ) /\ todo' = Ret(1, Null) /\ xit.ptr # None
           /\ "inside" \in Defects \/ xit.ptr = None \/ ~InExpression
  <2>1. ~Within(ctl, n)
    BY <1>3, AtTop
  <2>2. /\ xit' = [ptr |-> None, ocbs |-> p.OCBSCL, ocic |-> p.OCICL,
                   frtn |-> p.FRTNCL, stno |-> p.STNOCL, typ |-> typ]
        /\ pos' = [p EXCEPT !.OCBSCL = xit.ptr, !.FRTNCL = 0]
        /\ entering' = xit.ptr /\ todo'.op = "ret" /\ todo'.rc = 1
    BY <1>3 DEF XITHND, HandlerAt, Ret
  <2>3. pos'.OCBSCL = xit.ptr /\ pos'.FRTNCL = 0
    BY <2>2 DEF Positions
  <2>4. xit.ptr # Expr
    <3>1. xit.ptr \in Labels
      BY <1>3 DEF Works, Regs, XitType
    <3> QED BY <3>1, ProgramAssumption
  <2>5. ASSUME Tracked(ended') PROVE XitRight(xit')
    <3>1. p.OCBSCL # Expr /\ Agree(p)
      BY <2>1, <2>5 DEF Fine
    <3>2. ExitAgrees(p.OCBSCL, p.FRTNCL, p.STNOCL)
      BY <3>1, AgreeGives
    <3> QED BY <2>2, <3>2 DEF XitRight
  <2>6. PosRight(ctl, stk, n, todo', pos', entering')
    BY <1>3, <2>1, <2>2 DEF PosRight
  <2>7. Awaits(ctl, stk, n, todo', pos', entering')
    BY <2>1, <2>2, <2>3, <2>4 DEF Awaits
  <2> QED BY <2>5, <2>6, <2>7 DEF Goes
<1> QED BY <1>1, <1>2, <1>3 DEF Raise

(* An error at a position that is in no block.                             *)
LEMMA RaisedNowhere ==
  ASSUME Works, NEW typ \in Nat \ {0}, NEW fatal, NEW p \in Positions, p.OCBSCL \in NoBlocks,
         Raise(typ, fatal, p), UNCHANGED ended, ~Within(ctl, Len(ctl)), entering = None,
         Allowed(fatal) /\ Tracked(ended) => xit.ptr # None, Tracked(ended) => XitRight(xit)
  PROVE  Goes(ctl, stk, Len(ctl))
<1>1. CASE pos' = p /\ Stop
  BY <1>1 DEF Goes, Stop, Stopped
<1>2. CASE /\ XITHND(p, typ) /\ todo' = Ret(1, Null) /\ xit.ptr = None /\ ~Tracked(ended)
  <2>1. entering' = None
    BY <1>2 DEF XITHND
  <2> QED BY <1>2, <2>1 DEF Goes
<1>3. CASE /\ XITHND(p, typ) /\ todo' = Ret(1, Null) /\ xit.ptr # None
  <2>1. /\ xit'.ocbs \in NoBlocks /\ pos' = [p EXCEPT !.OCBSCL = xit.ptr, !.FRTNCL = 0]
        /\ entering' = xit.ptr /\ todo'.op = "ret" /\ todo'.rc = 1
    BY <1>3 DEF XITHND, HandlerAt, Ret
  <2>2. pos'.OCBSCL = xit.ptr /\ pos'.FRTNCL = 0
    BY <2>1 DEF Positions
  <2>3. xit.ptr # Expr
    <3>1. xit.ptr \in Labels
      BY <1>3 DEF Works, Regs, XitType
    <3> QED BY <3>1, ProgramAssumption
  <2>4. XitRight(xit')
    BY <2>1 DEF XitRight
  <2>5. PosRight(ctl, stk, Len(ctl), todo', pos', entering')
    BY <1>3, <2>1 DEF PosRight
  <2>6. Awaits(ctl, stk, Len(ctl), todo', pos', entering')
    BY <2>1, <2>2, <2>3 DEF Awaits
  <2> QED BY <2>4, <2>5, <2>6 DEF Goes
<1> QED BY <1>1, <1>2, <1>3 DEF Raise

(* What PosRight and Awaits say before a step.                             *)
Was == PosRight(ctl, stk, Len(ctl), todo, pos, entering)

LEMMA WasFine ==
  ASSUME Works, Was,
         \/ todo.op = "fetch" /\ (Top.proc = "INTERP" => ~AtStatement)
         \/ todo.op = "enter" /\ Top.proc = "DEFFNC"
         \/ todo.op = "ret" /\ todo.rc \in {2, 3}
  PROVE  Fine(Len(ctl), pos)
<1>1. todo.op = "ret" => todo.rc <= 3
  OBVIOUS
<1>2. Top = ctl[Len(ctl)]
  BY WorksLen
<1>3. CASE Within(ctl, Len(ctl))
  BY <1>1, <1>3 DEF Was, PosRight, Fine
<1>4. CASE ~Within(ctl, Len(ctl))
  BY <1>2, <1>4 DEF Was, PosRight, Fine, AtStatement
<1> QED BY <1>3, <1>4

LEMMA NoHandler ==
  ASSUME Works, Pending, entering # None
  PROVE  /\ todo.op \in {"fetch", "enter"} \/ todo.rc \in {2, 3} =>
              \/ Between(ctl, stk, Len(ctl))
              \/ todo.op = "fetch" /\ Top.proc = "INTERP" /\ AtStatement
         /\ todo.op = "ret" => todo.rc <= 3
         /\ todo.op = "ret" /\ todo.rc = 1 =>
              \/ Between(ctl, stk, Len(ctl))
              \/ ~Within(ctl, Len(ctl)) /\ pos.OCBSCL = entering /\ pos.FRTNCL = 0 /\ entering # Expr
<1>1. Awaits(ctl, stk, Len(ctl), todo, pos, entering)
  BY DEF Pending, Works
<1>2. Top = ctl[Len(ctl)] /\ todo.rc \in 1 .. 6
  BY WorksLen DEF Works, Regs, TodoType
<1>3. todo.op = "fetch" => todo.op # "ret" /\ todo.op # "enter"
  OBVIOUS
<1> QED BY <1>1, <1>2 DEF Awaits, AtStatement

Starts == Works /\ Placed /\ Pending

LEMMA StartsWith ==
  ASSUME Starts
  PROVE  /\ Works /\ Placed /\ Pending /\ pos \in Positions /\ Step \in Positions
         /\ Tracked(ended) => XitRight(xit) /\ Was
         /\ Len(ctl) \in Nat \ {0} /\ Top = ctl[Len(ctl)]
         /\ \A n : Fine(n, pos) => Fine(n, Step)
<1>1. Works /\ Placed /\ Pending /\ pos \in Positions
  BY DEF Starts, Works, Regs
<1>2. /\ SameStatement(Step, pos) /\ Step.OCBSCL = pos.OCBSCL /\ Step \in Positions
      /\ Agree(pos) => Agree(Step)
  BY <1>1, StepAgrees DEF Works
<1>3. \A n : Fine(n, pos) => Fine(n, Step)
  BY <1>1, <1>2, FineStep
<1>4. Tracked(ended) => XitRight(xit) /\ Was
  BY <1>1 DEF Placed, Was, Works
<1> QED BY <1>1, <1>2, <1>3, <1>4, WorksLen

(* Elements of the code that are read in the middle of a statement.        *)
LEMMA ElementPlaced ==
  ASSUME Starts, "inside" \notin Defects, Stays, UNCHANGED stk,
         Assign \/ SETXIT \/ Fails \/ PrimitiveError \/ ExprVariable
  PROVE  Placed' /\ Pending'
<1>1. /\ Works /\ Placed /\ Pending /\ Step \in Positions /\ (Tracked(ended) => XitRight(xit) /\ Was)
      /\ (Fine(Len(ctl), pos) => Fine(Len(ctl), Step))
  BY StartsWith
<1>2. todo.op = "fetch" /\ (Top.proc = "INTERP" => ~AtStatement)
  BY DEF Assign, SETXIT, Fails, PrimitiveError, ExprVariable, Reads, Inside, AtStatement
<1>3. Tracked(ended) => Fine(Len(ctl), Step)
  BY <1>1, <1>2, WasFine
<1>4. entering # None => Between(ctl, stk, Len(ctl))
  BY <1>1, <1>2, NoHandler
<1>5. CASE Assign \/ Fails \/ ExprVariable
  <2>1. /\ pos' = Step /\ UNCHANGED <<ended, xit, entering>>
        /\ todo'.op = "fetch" \/ (todo'.op = "ret" /\ todo'.rc \in {1, 2, 3})
    BY <1>2, <1>5 DEF Assign, Fails, ExprVariable, Ret
  <2> QED BY <1>1, <1>3, <1>4, <2>1, GoesFine, PlacedStays
<1>6. CASE SETXIT
  <2>1. /\ pos' = Step /\ UNCHANGED <<ended, entering, todo>> /\ Top.proc = "INTERP"
        /\ \E l \in Labels \cup {None} : xit' = [xit EXCEPT !.ptr = l]
    BY <1>6 DEF SETXIT, Reads
  <2>2. xit'.ocbs = xit.ocbs /\ xit'.frtn = xit.frtn /\ xit'.stno = xit.stno
    BY <2>1, <1>1 DEF Works, Regs, XitType
  <2>3. entering = None /\ ~Within(ctl, Len(ctl))
    BY <1>1, <1>4, <2>1, AtTop
  <2>4. Tracked(ended) => PosRight(ctl, stk, Len(ctl), todo', pos', entering')
    BY <1>2, <1>3, <2>1, <2>3 DEF Fine, PosRight
  <2>5. Tracked(ended) => XitRight(xit')
    BY <1>1, <2>2 DEF XitRight
  <2>6. Goes(ctl, stk, Len(ctl))
    BY <2>1, <2>3, <2>4, <2>5 DEF Goes
  <2> QED BY <1>1, <2>6, PlacedStays
<1>7. CASE PrimitiveError
  <2>1. PICK fatal \in BOOLEAN : Raise(1, fatal, Step)
    BY <1>7 DEF PrimitiveError
  <2>2. UNCHANGED ended /\ 1 \in Nat \ {0}
    BY <1>7 DEF PrimitiveError
  <2>3. Goes(ctl, stk, Len(ctl))
    BY <1>1, <1>3, <1>4, <2>1, <2>2, Raised
  <2> QED BY <1>1, <2>3, PlacedStays
<1> QED BY <1>5, <1>6, <1>7

LEMMA EndsAt ==
  ASSUME NEW o \in Nat
  PROVE  ((o \div StmtLen + 1) * StmtLen) % StmtLen = 0
<1>1. o \div 3 \in Nat
  OBVIOUS
<1>2. ASSUME NEW k \in Nat PROVE ((k + 1) * 3) % 3 = 0
  OBVIOUS
<1> QED BY <1>1, <1>2 DEF StmtLen

(* The gotos, which leave the statement.                                   *)
LEMMA GotoPlaced ==
  ASSUME Starts, "inside" \notin Defects, Stays, UNCHANGED stk,
         \/ GOTO \/ GotoLabel \/ GotoUndefined \/ GotoFails \/ GotoReturn \/ GotoAbort
         \/ GotoContinue \/ Crash
  PROVE  Placed' /\ Pending'
<1>1. /\ Works /\ Placed /\ Pending /\ Step \in Positions /\ (Tracked(ended) => XitRight(xit) /\ Was)
      /\ (Fine(Len(ctl), pos) => Fine(Len(ctl), Step)) /\ pos \in Positions
      /\ Top = ctl[Len(ctl)]
  BY StartsWith
<1>2. todo.op = "fetch" /\ Top.proc = "INTERP" /\ UNCHANGED ended /\ (Crash \/ ~AtStatement)
  BY DEF GOTO, GotoLabel, GotoUndefined, GotoFails, GotoReturn, GotoAbort, GotoContinue, Crash,
         InGoto, Reads, GotoKeeps
<1>3. ~Within(ctl, Len(ctl)) /\ ~Between(ctl, stk, Len(ctl))
  BY <1>1, <1>2, AtTop
<1>10c. CASE Crash
  <2>1. Goes(ctl, stk, Len(ctl))
    BY <1>1, <1>2, <1>10c DEF Crash, Goes, Stop, Stopped
  <2> QED BY <1>1, <2>1, PlacedStays
<1> SUFFICES ASSUME ~AtStatement PROVE Placed' /\ Pending'
  BY <1>2, <1>10c
<1>4. Tracked(ended) => Fine(Len(ctl), pos) /\ Fine(Len(ctl), Step) /\ pos.OCBSCL # Expr
  BY <1>1, <1>2, <1>3, WasFine DEF Fine
<1>5. entering = None
  BY <1>1, <1>2, <1>3, NoHandler
<1>6. CASE GOTO
  <2>1. pos' = [pos EXCEPT !.OCICL = StatementEnd] /\ UNCHANGED <<xit, todo, entering>>
    BY <1>6 DEF GOTO
  <2>2. pos'.OCBSCL = pos.OCBSCL /\ pos'.OCICL % StmtLen = 0
    BY <1>1, <2>1, EndsAt DEF StatementEnd, Positions
  <2>3. Goes(ctl, stk, Len(ctl))
    BY <1>1, <1>2, <1>3, <1>4, <1>5, <2>1, <2>2 DEF Goes, PosRight
  <2> QED BY <1>1, <2>3, PlacedStays
<1>7. CASE GotoLabel
  <2>1. PICK l \in Labels : pos' = [pos EXCEPT !.OCBSCL = l, !.OCICL = 0]
    BY <1>7 DEF GotoLabel
  <2>2. UNCHANGED <<xit, todo, entering>>
    BY <1>7 DEF GotoLabel
  <2>3. pos'.OCBSCL = l /\ pos'.OCICL % StmtLen = 0 /\ l # Expr
    <3>1. pos'.OCBSCL = l /\ pos'.OCICL = 0
      BY <1>1, <2>1 DEF Positions
    <3> QED BY <3>1, ProgramAssumption DEF StmtLen
  <2>4. Goes(ctl, stk, Len(ctl))
    BY <1>1, <1>2, <1>3, <1>5, <2>2, <2>3 DEF Goes, PosRight
  <2> QED BY <1>1, <2>4, PlacedStays
<1>8. CASE GotoReturn
  <2>1. UNCHANGED <<xit, entering>> /\ todo'.op = "ret" /\ todo'.rc \in {4, 5, 6}
    BY <1>8 DEF GotoReturn, Ret
  <2>2. Goes(ctl, stk, Len(ctl))
    BY <1>1, <1>2, <1>3, <1>5, <2>1 DEF Goes, PosRight
  <2> QED BY <1>1, <2>2, PlacedStays
<1>9. CASE GotoAbort
  <2>1. CASE Raise(35, TRUE, Step)
    <3>1. Goes(ctl, stk, Len(ctl))
      <4>1. 35 \in Nat \ {0}
        OBVIOUS
      <4> QED BY <1>1, <1>2, <1>4, <1>5, <2>1, <4>1, Raised
    <3> QED BY <1>1, <3>1, PlacedStays
  <2>2. CASE Stop
    <3>1. Goes(ctl, stk, Len(ctl))
      BY <1>1, <1>2, <2>2 DEF Goes, Stop, Stopped
    <3> QED BY <1>1, <3>1, PlacedStays
  <2> QED BY <1>9, <2>1, <2>2 DEF GotoAbort
<1>10. CASE GotoContinue
  <2> DEFINE f(again) == [Step EXCEPT !.FRTNCL = ResumesAt(again)]
             q == [f(FALSE) EXCEPT !.OCBSCL = xit.ocbs, !.STNOCL = xit.stno]
  <2>1. \/ Stop
        \/ ~err.fatal /\ xit.ocbs = None /\ \E again \in BOOLEAN : Raise(35, TRUE, f(again))
        \/ /\ xit' = [xit EXCEPT !.ocbs = None] /\ todo' = Ret(1, Null)
           /\ xit.ocbs # None /\ UNCHANGED entering
           /\ Tracked(ended) => pos' = q /\ xit.ocbs # NotCode
    BY <1>10 DEF GotoContinue, CanContinue, Tracked
  <2>2. CASE Stop
    <3>1. Goes(ctl, stk, Len(ctl))
      BY <1>1, <1>2, <2>2 DEF Goes, Stop, Stopped
    <3> QED BY <1>1, <3>1, PlacedStays
  <2>3. CASE ~err.fatal /\ xit.ocbs = None /\ \E again \in BOOLEAN : Raise(35, TRUE, f(again))
    <3>1. CASE lim.ftl = 0
      <4>1. ~Allowed(TRUE)
        BY <3>1 DEF Allowed
      <4>2. Stop
        BY <2>3, <4>1 DEF Raise
      <4> QED BY <2>2, <4>2
    <3>2. CASE lim.ftl # 0
      <4>1. ~Tracked(ended)
        BY <1>10, <2>3, <3>2 DEF GotoContinue, CanContinue, Tracked
      <4>2. PICK again \in BOOLEAN : Raise(35, TRUE, f(again))
        BY <2>3
      <4>3. f(again) \in Positions
        <5>1. ResumesAt(again) \in Nat
          BY <1>1 DEF ResumesAt, Works, Regs, XitType
        <5> QED BY <1>1, <5>1 DEF Positions
      <4>4. 35 \in Nat \ {0}
        OBVIOUS
      <4> HIDE DEF f
      <4>5. Goes(ctl, stk, Len(ctl))
        BY <1>1, <1>2, <1>5, <4>1, <4>2, <4>3, <4>4, Raised
      <4> QED BY <1>1, <4>5, PlacedStays
    <3> QED BY <3>1, <3>2
  <2>4. CASE /\ xit' = [xit EXCEPT !.ocbs = None] /\ todo' = Ret(1, Null)
             /\ xit.ocbs # None /\ UNCHANGED entering
             /\ Tracked(ended) => pos' = q /\ xit.ocbs # NotCode
    <3>1. Tracked(ended) =>
            pos'.OCBSCL = xit.ocbs /\ pos'.FRTNCL = xit.frtn /\ pos'.STNOCL = xit.stno
      BY <1>1, <2>4 DEF Positions, ResumesAt
    <3>2. Tracked(ended) => ExitAgrees(pos'.OCBSCL, pos'.FRTNCL, pos'.STNOCL)
      BY <1>1, <2>4, <3>1 DEF XitRight, NoBlocks
    <3>3. xit'.ocbs = None
      BY <1>1, <2>4 DEF Works, Regs, XitType
    <3>4. todo'.op = "ret" /\ todo'.rc = 1
      BY <2>4 DEF Ret
    <3>5. Goes(ctl, stk, Len(ctl))
      BY <1>2, <1>3, <1>5, <2>4, <3>2, <3>3, <3>4 DEF Goes, PosRight, XitRight, NoBlocks
    <3> QED BY <1>1, <3>5, PlacedStays
  <2> QED BY <2>1, <2>2, <2>3, <2>4
<1>11. CASE GotoUndefined
  <2>1. PICK b \in NoBlocks : Raise(24, TRUE, [Step EXCEPT !.OCBSCL = b])
    BY <1>11 DEF GotoUndefined
  <2> DEFINE p == [Step EXCEPT !.OCBSCL = b]
  <2>2. p.OCBSCL = b
    BY <1>1 DEF Positions
  <2> HIDE DEF p
  <2>3. Raise(24, TRUE, p)
    BY <2>1 DEF p
  <2>4. Allowed(TRUE) /\ Tracked(ended) => xit.ptr # None
    BY <1>11 DEF GotoUndefined, Tracked
  <2>5. Goes(ctl, stk, Len(ctl))
    <3>1. p \in Positions /\ 24 \in Nat \ {0}
      BY <1>1 DEF p, Positions
    <3> QED BY <1>1, <1>2, <1>3, <1>5, <2>2, <2>3, <2>4, <3>1, RaisedNowhere
  <2> QED BY <1>1, <2>5, PlacedStays
<1>12. CASE GotoFails
  <2>1. PICK typ \in {19, 24} : Raise(typ, TRUE, Step)
    BY <1>12 DEF GotoFails
  <2>2. typ \in Nat \ {0}
    OBVIOUS
  <2>3. Goes(ctl, stk, Len(ctl))
    BY <1>1, <1>2, <1>4, <1>5, <2>1, <2>2, Raised
  <2> QED BY <1>1, <2>3, PlacedStays
<1> QED BY <1>6, <1>7, <1>8, <1>9, <1>10, <1>10c, <1>11, <1>12

(* The end of the program, and an element that has returned.               *)
LEMMA EndPlaced ==
  ASSUME Starts, Stays, UNCHANGED stk, END \/ StatementGoesOn
  PROVE  Placed' /\ Pending'
<1>1. /\ Works /\ Placed /\ Pending /\ (Tracked(ended) => XitRight(xit) /\ Was)
      /\ Top = ctl[Len(ctl)]
  BY StartsWith
<1>2. Top.proc = "INTERP"
  BY DEF END, StatementGoesOn, Reads, Gets
<1>3. ~Within(ctl, Len(ctl)) /\ ~Between(ctl, stk, Len(ctl))
  BY <1>1, <1>2, AtTop
<1>4. CASE END
  <2>1. CASE Stop /\ UNCHANGED ended
    <3>1. Goes(ctl, stk, Len(ctl))
      BY <1>1, <2>1 DEF Goes, Stop, Stopped
    <3> QED BY <1>1, <3>1, PlacedStays
  <2>2. CASE ended' = TRUE /\ entering' = None
    <3>1. Goes(ctl, stk, Len(ctl))
      BY <2>2 DEF Goes, Tracked
    <3> QED BY <1>1, <3>1, PlacedStays
  <2>3. \/ Stop /\ UNCHANGED ended
        \/ ended' = TRUE /\ entering' = None
    BY <1>4 DEF END, XITHND
  <2> QED BY <2>1, <2>2, <2>3
<1>5. CASE StatementGoesOn
  <2>1. /\ todo.op = "ret" /\ todo.rc \in {2, 3} /\ todo'.op = "fetch"
        /\ UNCHANGED <<pos, ended, xit, entering>>
    BY <1>5 DEF StatementGoesOn, Gets, Fetch
  <2>2. Tracked(ended) => Fine(Len(ctl), pos)
    BY <1>1, <2>1, WasFine
  <2>3. entering = None
    BY <1>1, <1>3, <2>1, NoHandler
  <2>4. pos' \in Positions
    BY <2>1, StartsWith
  <2>5. Goes(ctl, stk, Len(ctl))
    BY <1>1, <2>1, <2>2, <2>3, <2>4, GoesFine
  <2> QED BY <1>1, <2>5, PlacedStays
<1> QED BY <1>4, <1>5

(* Arguments, and DEFINE().                                                *)
LEMMA ArgumentPlaced ==
  ASSUME Starts, Stays, ArgVariable \/ ArgReturned \/ Redefine
  PROVE  Placed' /\ Pending'
<1>1. /\ Works /\ Placed /\ Pending /\ (Tracked(ended) => XitRight(xit) /\ Was)
      /\ pos \in Positions /\ Step \in Positions
      /\ (Fine(Len(ctl), pos) => Fine(Len(ctl), Step))
  BY StartsWith
<1>2. /\ Top.proc \in {"INTERP", "DEFFNC"} /\ UNCHANGED <<ended, xit, entering>>
      /\ \/ todo.op = "fetch" /\ (Top.proc = "INTERP" => ~AtStatement)
         \/ todo.op = "ret" /\ todo.rc \in {2, 3} /\ Top.proc = "DEFFNC"
      /\ (pos' = Step \/ (pos' = pos /\ todo'.op \in {"fetch", "enter"}))
  <2>1. CASE ArgVariable
    BY <2>1 DEF ArgVariable, Reads, Argument, Fetch
  <2>2. CASE ArgReturned
    BY <2>2 DEF ArgReturned, Gets, Argument, Fetch
  <2>3. CASE Redefine
    BY <2>3 DEF Redefine, Reads, Argument, Fetch, Inside, AtStatement
  <2> QED BY <2>1, <2>2, <2>3
<1>3. todo'.op \in {"fetch", "enter"}
  BY DEF ArgVariable, ArgReturned, Redefine, Reads, Argument, Fetch
<1>4. Tracked(ended) => Fine(Len(ctl), pos')
  BY <1>1, <1>2, WasFine
<1>5. entering # None => Between(ctl, stk, Len(ctl))
  BY <1>1, <1>2, NoHandler
<1>6. pos' \in Positions
  BY <1>1, <1>2
<1>7. Goes(ctl, stk, Len(ctl))
  BY <1>1, <1>2, <1>3, <1>4, <1>5, <1>6, GoesFine
<1> QED BY <1>1, <1>2, <1>7, PlacedStays

(* INIT and the failure exit of a statement, with or without a trace call. *)
LEMMA TracedPlaced ==
  ASSUME Starts, NEW p \in Positions, NEW n, TRPHND(p), Calls("TRPHND"),
         Pushed("TRPHND", [pos |-> p, trace |-> n]), Top.proc = "INTERP",
         UNCHANGED <<ended, xit>>, todo'.op = "fetch",
         Tracked(ended) => p.OCBSCL # Expr /\ (Agree(p) \/ p.OCICL % StmtLen = 0),
         entering' # None => p.OCICL % StmtLen = 0
  PROVE  Placed' /\ Pending'
<1> DEFINE cell == [pos |-> p, trace |-> n]
<1>1. /\ Works /\ Placed /\ Pending /\ (Tracked(ended) => XitRight(xit) /\ Was)
      /\ Len(ctl) \in Nat \ {0}
  BY StartsWith
<1>2. cell.pos = p /\ "TRPHND" \in Procs
  BY DEF Procs
<1> HIDE DEF cell
<1>3. /\ Same(Len(ctl)) /\ ctl'[Len(ctl) + 1].proc = "TRPHND"
      /\ KeptOf(ctl', stk', Len(ctl) + 1) = cell
  <2>1. Pushed("TRPHND", cell)
    BY DEF cell
  <2> QED BY <1>1, <1>2, <2>1, SamePushed
<1>4. ~Within(ctl, Len(ctl)) /\ \A q : Undisturbed(ctl, stk, Len(ctl), q)
  BY <1>1, AtTop
<1>5. ~Within(ctl', Len(ctl)) /\ \A q : Undisturbed(ctl', stk', Len(ctl), q)
  BY <1>1, <1>3, <1>4 DEF Same
<1>6. /\ Within(ctl', Len(ctl) + 1)
      /\ \A q : Undisturbed(ctl', stk', Len(ctl) + 1, q)
      /\ p.OCICL % StmtLen = 0 => Between(ctl', stk', Len(ctl) + 1)
  BY <1>1, <1>2, <1>3, <1>5, Above
<1>7. pos'.OCBSCL = Expr
  BY DEF TRPHND, Positions
<1>8. Tracked(ended) => KeptRight(ctl', stk', Len(ctl) + 1)
  <2>1. Len(ctl) + 1 - 1 = Len(ctl)
    BY <1>1
  <2> QED BY <1>2, <1>3, <1>5, <2>1 DEF KeptRight
<1>9. Goes(ctl', stk', Len(ctl) + 1)
  <2>1. PosRight(ctl', stk', Len(ctl) + 1, todo', pos', entering')
    BY <1>6, <1>7 DEF PosRight
  <2>2. entering' # None => Awaits(ctl', stk', Len(ctl) + 1, todo', pos', entering')
    BY <1>6 DEF Awaits
  <2> QED BY <1>1, <2>1, <2>2 DEF Goes
<1>10. Pushed("TRPHND", cell)
  BY DEF cell
<1> QED BY <1>1, <1>2, <1>8, <1>9, <1>10, PlacedPushed

LEMMA InitPlaced ==
  ASSUME Starts, InitStatement
  PROVE  Placed' /\ Pending'
<1>1. /\ Works /\ Placed /\ Pending /\ (Tracked(ended) => XitRight(xit) /\ Was)
      /\ Top = ctl[Len(ctl)]
  BY StartsWith
<1>2. Regs /\ Stacks /\ Frames
  BY <1>1 DEF Works
<1>3. /\ todo.op = "fetch" /\ Top.proc = "INTERP" /\ AtStatement /\ HasCode
      /\ UNCHANGED <<value, defn, args, LVLCL, ended>>
  BY DEF InitStatement, Reads
<1>4. ~Within(ctl, Len(ctl))
  BY <1>1, <1>3, AtTop
<1>5. /\ Counted \in Positions /\ Agree(Counted)
      /\ Tracked(ended) => Counted.OCBSCL # Expr
  <2>1. Tracked(ended) => pos.OCBSCL # Expr
    BY <1>1, <1>3, <1>4 DEF Was, PosRight
  <2> QED BY <1>2, <1>3, <2>1, CountedType, CountedAgrees
<1>6. CASE Stop /\ UNCHANGED <<stk, ctl>>
  <2>1. Goes(ctl, stk, Len(ctl))
    BY <1>1, <1>3, <1>6 DEF Goes, Stop, Stopped
  <2> QED BY <1>1, <1>2, <1>3, <1>6, <2>1, StaysHere, PlacedStays
<1>7. CASE pos' = Counted /\ UNCHANGED <<stk, ctl, todo, xit>> /\ entering' = None
  <2>1. Goes(ctl, stk, Len(ctl))
    BY <1>1, <1>3, <1>4, <1>5, <1>7 DEF Goes, PosRight
  <2> QED BY <1>1, <1>2, <1>3, <1>7, <2>1, StaysHere, PlacedStays
<1>8. CASE TRPHND(Counted) /\ UNCHANGED <<todo, xit>> /\ entering' = None
  <2>1. Calls("TRPHND") /\ Pushed("TRPHND", [pos |-> Counted, trace |-> lim.trace - 1])
    BY <1>2, <1>3, <1>5, <1>8, TracedCalls
  <2>2. todo'.op = "fetch"
    BY <1>3, <1>8
  <2> QED BY <1>3, <1>5, <1>8, <2>1, <2>2, TracedPlaced
<1> QED BY <1>6, <1>7, <1>8 DEF InitStatement, Counted

LEMMA FailsPlaced ==
  ASSUME Starts, StatementFails
  PROVE  Placed' /\ Pending'
<1> DEFINE p == [pos EXCEPT !.OCICL = pos.FRTNCL]
<1>1. /\ Works /\ Placed /\ Pending /\ (Tracked(ended) => XitRight(xit) /\ Was)
      /\ Top = ctl[Len(ctl)] /\ pos \in Positions
  BY StartsWith
<1>2. Regs /\ Stacks /\ Frames
  BY <1>1 DEF Works
<1>3. /\ todo.op = "ret" /\ todo.rc = 1 /\ Top.proc = "INTERP" /\ todo'.op = "fetch"
      /\ UNCHANGED <<value, defn, args, LVLCL, ended, xit, entering>>
      /\ \/ pos' = p /\ UNCHANGED <<stk, ctl>>
         \/ TRPHND(p)
  BY DEF StatementFails, Gets, Fetch
<1>4. ~Within(ctl, Len(ctl)) /\ ~Between(ctl, stk, Len(ctl))
  BY <1>1, <1>3, AtTop
<1>5. p \in Positions /\ p.OCBSCL = pos.OCBSCL /\ p.OCICL = pos.FRTNCL
  BY <1>1 DEF Positions
<1>6. entering # None => pos.OCBSCL # Expr /\ pos.FRTNCL = 0
  BY <1>1, <1>3, <1>4, NoHandler
<1>7. Tracked(ended) /\ entering = None => pos.OCBSCL # Expr /\ pos.FRTNCL % StmtLen = 0
  <2>1. ASSUME Tracked(ended), entering = None PROVE pos.OCBSCL # Expr /\ pos.FRTNCL % StmtLen = 0
    <3>1. ExitAgrees(pos.OCBSCL, pos.FRTNCL, pos.STNOCL)
      BY <1>1, <1>3, <1>4, <2>1 DEF Was, PosRight
    <3>2. pos.STNOCL[2] \in Nat
      BY <1>1 DEF Positions
    <3>3. pos.OCBSCL # Expr /\ pos.FRTNCL = (pos.STNOCL[2] + 1) * 3
      BY <3>1 DEF ExitAgrees, StmtLen
    <3>4. ASSUME NEW k \in Nat PROVE ((k + 1) * 3) % 3 = 0
      OBVIOUS
    <3> QED BY <3>2, <3>3, <3>4 DEF StmtLen
  <2> QED BY <2>1
<1> HIDE DEF p
<1>8. /\ Tracked(ended) => p.OCBSCL # Expr /\ p.OCICL % StmtLen = 0
      /\ entering # None => p.OCICL % StmtLen = 0
  BY <1>5, <1>6, <1>7 DEF StmtLen
<1>9. CASE pos' = p /\ UNCHANGED <<stk, ctl>>
  <2>1. Goes(ctl, stk, Len(ctl))
    BY <1>1, <1>3, <1>4, <1>8, <1>9 DEF Goes, PosRight, Awaits
  <2> QED BY <1>1, <1>2, <1>3, <1>9, <2>1, StaysHere, PlacedStays
<1>10. CASE TRPHND(p)
  <2>1. Calls("TRPHND") /\ Pushed("TRPHND", [pos |-> p, trace |-> lim.trace - 1])
    BY <1>2, <1>3, <1>5, <1>10, TracedCalls
  <2> QED BY <1>3, <1>5, <1>8, <1>10, <2>1, TracedPlaced
<1> QED BY <1>3, <1>9, <1>10

(* Calls, whose arguments are read in the caller's statement.              *)
LEMMA CallPlaced ==
  ASSUME Starts, Call, Calls("DEFFNC"), Pushed("DEFFNC", Null)
  PROVE  Placed' /\ Pending'
<1>1. /\ Works /\ Placed /\ Pending /\ (Tracked(ended) => XitRight(xit) /\ Was)
      /\ Len(ctl) \in Nat \ {0} /\ Top = ctl[Len(ctl)] /\ Step \in Positions
      /\ (Fine(Len(ctl), pos) => Fine(Len(ctl), Step))
  BY StartsWith
<1>2. /\ todo.op = "fetch" /\ (Top.proc = "INTERP" => ~AtStatement)
      /\ pos' = Step /\ UNCHANGED <<ended, xit, entering, todo>>
  BY DEF Call, Inside, AtStatement
<1>3. Tracked(ended) => Fine(Len(ctl), Step)
  BY <1>1, <1>2, WasFine
<1>4. entering # None => Between(ctl, stk, Len(ctl))
  BY <1>1, <1>2, NoHandler
<1>5. Same(Len(ctl)) /\ ctl'[Len(ctl) + 1].proc = "DEFFNC" /\ "DEFFNC" \in Procs
  BY <1>1, SamePushed DEF Procs
<1>6. /\ Within(ctl', Len(ctl) + 1) <=> Within(ctl, Len(ctl))
      /\ Between(ctl', stk', Len(ctl) + 1) <=> Between(ctl, stk, Len(ctl))
      /\ \A q : Undisturbed(ctl', stk', Len(ctl) + 1, q) <=> Undisturbed(ctl, stk, Len(ctl), q)
  BY <1>1, <1>5, Above DEF Same
<1>7. Goes(ctl', stk', Len(ctl) + 1)
  <2>1. todo'.op = "fetch"
    BY <1>2
  <2>2. Tracked(ended) => PosRight(ctl', stk', Len(ctl) + 1, todo', pos', entering')
    BY <1>2, <1>3, <1>6, <2>1 DEF Fine, PosRight
  <2>3. entering' # None => Awaits(ctl', stk', Len(ctl) + 1, todo', pos', entering')
    BY <1>2, <1>4, <1>6, <2>1 DEF Awaits
  <2> QED BY <1>1, <1>2, <2>2, <2>3 DEF Goes
<1> QED BY <1>1, <1>5, <1>7, PlacedPushed

LEMMA ExpressionPlaced ==
  ASSUME Starts, EXPVAL, Calls("EXPVAL"), Pushed("EXPVAL", [pos |-> Step, XCL |-> args.XCL])
  PROVE  Placed' /\ Pending'
<1> DEFINE cell == [pos |-> Step, XCL |-> args.XCL]
<1>1. /\ Works /\ Placed /\ Pending /\ (Tracked(ended) => XitRight(xit) /\ Was)
      /\ Len(ctl) \in Nat \ {0} /\ Top = ctl[Len(ctl)] /\ Step \in Positions
      /\ (Fine(Len(ctl), pos) => Fine(Len(ctl), Step)) /\ pos \in Positions
  BY StartsWith
<1>2. /\ todo.op = "fetch" /\ (Top.proc = "INTERP" => ~AtStatement)
      /\ pos' = [pos EXCEPT !.OCBSCL = Expr, !.OCICL = 0]
      /\ UNCHANGED <<ended, xit, entering, todo>>
  BY DEF EXPVAL, Inside, AtStatement
<1>3. Tracked(ended) => Fine(Len(ctl), Step)
  BY <1>1, <1>2, WasFine
<1>4. entering # None => Between(ctl, stk, Len(ctl))
  BY <1>1, <1>2, NoHandler
<1>5. Pushed("EXPVAL", cell) /\ cell.pos = Step /\ "EXPVAL" \in Procs
  BY DEF Procs
<1> HIDE DEF cell
<1>6. /\ Same(Len(ctl)) /\ ctl'[Len(ctl) + 1].proc = "EXPVAL"
      /\ KeptOf(ctl', stk', Len(ctl) + 1) = cell
  BY <1>1, <1>5, SamePushed
<1>7. /\ Within(ctl', Len(ctl)) <=> Within(ctl, Len(ctl))
      /\ Between(ctl', stk', Len(ctl)) <=> Between(ctl, stk, Len(ctl))
      /\ \A q : Undisturbed(ctl', stk', Len(ctl), q) <=> Undisturbed(ctl, stk, Len(ctl), q)
  BY <1>1, <1>6 DEF Same
<1>8. /\ Within(ctl', Len(ctl) + 1)
      /\ Between(ctl', stk', Len(ctl) + 1) <=> Between(ctl, stk, Len(ctl))
      /\ \A q : Undisturbed(ctl', stk', Len(ctl) + 1, q) <=>
                  Undisturbed(ctl, stk, Len(ctl), q) /\ SameStatement(q, Step)
  BY <1>1, <1>5, <1>6, <1>7, Above
<1>9. Tracked(ended) => Undisturbed(ctl, stk, Len(ctl), Step)
  BY <1>3, OutsideOf DEF Fine
<1>10. Tracked(ended) => KeptRight(ctl', stk', Len(ctl) + 1)
  <2>1. Len(ctl) + 1 - 1 = Len(ctl)
    BY <1>1
  <2> QED BY <1>3, <1>5, <1>6, <1>7, <1>9, <2>1 DEF KeptRight, Fine
<1>11. SameStatement(pos', Step) /\ pos'.OCBSCL = Expr
  <2>1. SameStatement(Step, pos)
    BY <1>1, StepAgrees DEF Works
  <2>2. pos'.STNOCL = pos.STNOCL /\ pos'.FRTNCL = pos.FRTNCL /\ pos'.OCBSCL = Expr
    BY <1>1, <1>2 DEF Positions
  <2> QED BY <2>1, <2>2 DEF SameStatement
<1>12. Goes(ctl', stk', Len(ctl) + 1)
  <2>1. Tracked(ended) => PosRight(ctl', stk', Len(ctl) + 1, todo', pos', entering')
    <3>1. Tracked(ended) => Undisturbed(ctl, stk, Len(ctl), pos')
      BY <1>9, <1>11, Transport
    <3> QED BY <1>8, <1>11, <3>1 DEF PosRight
  <2>2. entering' # None => Awaits(ctl', stk', Len(ctl) + 1, todo', pos', entering')
    BY <1>2, <1>4, <1>8 DEF Awaits
  <2> QED BY <1>1, <1>2, <2>1, <2>2 DEF Goes
<1> QED BY <1>1, <1>5, <1>10, <1>12, PlacedPushed

(* Calls that end.                                                         *)
LEMMA EnterPlaced ==
  ASSUME Starts, Enter, Calls("INTERP"),
         ctl'[Len(ctl) + 1] = [proc |-> "INTERP", base |-> Len(stk')]
  PROVE  Placed' /\ Pending'
<1>1. /\ Works /\ Placed /\ Pending /\ (Tracked(ended) => XitRight(xit) /\ Was)
      /\ Len(ctl) \in Nat \ {0} /\ Top = ctl[Len(ctl)] /\ pos \in Positions
  BY StartsWith
<1>2. Regs /\ Stacks /\ Frames
  BY <1>1 DEF Works
<1>3. /\ todo.op = "enter" /\ todo'.op = "fetch" /\ defn.entry \in Labels
      /\ pos' = [pos EXCEPT !.OCBSCL = defn.entry, !.OCICL = 0]
      /\ UNCHANGED <<ended, xit>>
  BY DEF Enter, Fetch
<1>4. Top.proc = "DEFFNC"
  BY <1>2, <1>3, GivenType
<1>5. /\ Len(ctl') = Len(ctl) + 1 /\ \A i \in 1 .. Len(ctl) : ctl'[i] = ctl[i]
  BY DEF Calls
<1>6. KeptOf(ctl', stk', Len(ctl)).pos = pos
  <2>1. stk'[Len(stk')].pos = pos
    <3> DEFINE cell == [pos |-> pos, defn |-> defn]
    <3>1. cell.pos = pos
      OBVIOUS
    <3> HIDE DEF cell
    <3>2. stk'[Len(stk')] = cell
      BY <1>2, Entered DEF cell
    <3> QED BY <3>1, <3>2
  <2>2. Len(ctl) < Len(ctl') /\ ctl'[Len(ctl) + 1].base = Len(stk')
    BY <1>1, <1>5
  <2> QED BY <2>1, <2>2 DEF KeptOf
<1>7. /\ Same(Len(ctl) - 1)
      /\ Tracked(ended) =>
                      \A i \in 1 .. Len(ctl) - 1 :
                         Keeper(ctl', todo', i) /\ i <= Len(ctl') => KeptRight(ctl', stk', i)
  BY <1>1, PlacedBelow
<1>8. Tracked(ended) => KeptRight(ctl', stk', Len(ctl))
  <2>1. Tracked(ended) => Fine(Len(ctl), pos)
    BY <1>1, <1>3, <1>4, WasFine
  <2>2. Len(ctl) - 1 \in 0 .. Len(ctl) - 1
    BY <1>1
  <2>3. /\ Within(ctl', Len(ctl) - 1) <=> Within(ctl, Len(ctl))
        /\ Undisturbed(ctl', stk', Len(ctl) - 1, pos) <=> Undisturbed(ctl, stk, Len(ctl), pos)
    BY <1>1, <1>4, <1>7, <2>2, AtTop DEF Same
  <2>4. ~Within(ctl, Len(ctl)) => Undisturbed(ctl, stk, Len(ctl), pos)
    BY OutsideOf
  <2> QED BY <1>6, <2>1, <2>3, <2>4 DEF KeptRight, Fine
<1>9. ctl'[Len(ctl) + 1].proc = "INTERP" /\ ~Within(ctl', Len(ctl) + 1)
  <2>1. ctl'[Len(ctl) + 1].proc = "INTERP"
    OBVIOUS
  <2> QED BY <1>1, <2>1, Above DEF Procs
<1>10. pos'.OCBSCL # Expr /\ pos'.OCICL % StmtLen = 0
  <2>1. pos'.OCBSCL = defn.entry /\ pos'.OCICL = 0
    BY <1>1, <1>3 DEF Positions
  <2>2. defn.entry # Expr
    BY <1>3, ProgramAssumption
  <2> QED BY <2>1, <2>2 DEF StmtLen
<1>11. \A i \in 1 .. Len(ctl') : i \in 1 .. Len(ctl) - 1 \/ i = Len(ctl) \/ i = Len(ctl) + 1
  BY <1>1, <1>5
<1>12. ~Keeper(ctl', todo', Len(ctl) + 1)
  BY <1>9 DEF Keeper, BodyOf
<1>13. ASSUME Tracked(ended') PROVE \A i \in 1 .. Len(ctl') : Keeper(ctl', todo', i) => KeptRight(ctl', stk', i)
  <2>1. Tracked(ended) /\ \A i \in 1 .. Len(ctl') : i <= Len(ctl')
    BY <1>1, <1>3, <1>5, <1>13
  <2> QED BY <1>7, <1>8, <1>11, <1>12, <2>1
<1>14. \/ PosRight(ctl', stk', Len(ctl'), todo', pos', entering') /\ XitRight(xit')
       \/ ~Tracked(ended)
  BY <1>1, <1>3, <1>5, <1>9, <1>10 DEF PosRight
<1>15. Awaits(ctl', stk', Len(ctl'), todo', pos', entering')
  BY <1>3, <1>5, <1>9, <1>10 DEF Awaits
<1> QED BY <1>3, <1>13, <1>14, <1>15 DEF Placed, Pending

LEMMA UndefinedPlaced ==
  ASSUME Starts, "inside" \notin Defects, EnterUndefined, Returns
  PROVE  Placed' /\ Pending'
<1>1. /\ Works /\ Placed /\ Pending /\ (Tracked(ended) => XitRight(xit) /\ Was)
      /\ pos \in Positions
  BY StartsWith
<1>2. todo.op = "enter" /\ UNCHANGED ended /\ Raise(9, FALSE, pos)
  BY DEF EnterUndefined
<1>3. Top.proc = "DEFFNC"
  BY <1>1, <1>2, GivenType DEF Works
<1>4. /\ Within(ctl, Len(ctl)) <=> Within(ctl, Len(ctl) - 1)
      /\ Between(ctl, stk, Len(ctl)) <=> Between(ctl, stk, Len(ctl) - 1)
      /\ \A p : Undisturbed(ctl, stk, Len(ctl), p) <=> Undisturbed(ctl, stk, Len(ctl) - 1, p)
  BY <1>1, <1>3, AtTop
<1>5. Tracked(ended) => Fine(Len(ctl) - 1, pos)
  <2>1. Tracked(ended) => Fine(Len(ctl), pos)
    BY <1>1, <1>2, <1>3, WasFine
  <2> QED BY <1>4, <2>1 DEF Fine
<1>6. entering # None => Between(ctl, stk, Len(ctl) - 1)
  BY <1>1, <1>2, <1>4, NoHandler
<1>7. Goes(ctl, stk, Len(ctl) - 1)
  <2>1. 9 \in Nat \ {0}
    OBVIOUS
  <2> QED BY <1>1, <1>2, <1>4, <1>5, <1>6, <2>1, Raised
<1> QED BY <1>1, <1>7, PlacedReturns

LEMMA ReturnPlaced ==
  ASSUME Starts, "inside" \notin Defects, Return, Returns
  PROVE  Placed' /\ Pending'
<1> DEFINE kept == stk[Len(stk)]
<1>1. /\ Works /\ Placed /\ Pending /\ (Tracked(ended) => XitRight(xit) /\ Was)
      /\ Len(ctl) \in Nat \ {0} /\ Top = ctl[Len(ctl)]
  BY StartsWith
<1>2. /\ todo.op = "ret" /\ todo.rc \in {4, 5, 6} /\ Top.proc = "DEFFNC" /\ UNCHANGED ended
      /\ kept.pos \in Positions /\ Regs /\ Stacks /\ Frames
  BY <1>1, KeptOnTop DEF Return, Works
<1>3. /\ Within(ctl, Len(ctl)) <=> Within(ctl, Len(ctl) - 1)
      /\ \A p : Undisturbed(ctl, stk, Len(ctl), p) <=> Undisturbed(ctl, stk, Len(ctl) - 1, p)
  BY <1>1, <1>2, AtTop
<1>4. todo.rc > 3 /\ Len(ctl) \in 1 .. Len(ctl) /\ ~(Len(ctl) < Len(ctl))
  BY <1>1, <1>2
<1>5. KeptOf(ctl, stk, Len(ctl)) = kept /\ Keeper(ctl, todo, Len(ctl))
  BY <1>1, <1>2, <1>4 DEF KeptOf, Keeper, BodyOf
<1> HIDE DEF kept
<1>6. Tracked(ended) => Fine(Len(ctl) - 1, kept.pos)
  <2>1. Tracked(ended) => KeptRight(ctl, stk, Len(ctl))
    BY <1>1, <1>2, <1>4, <1>5 DEF Placed
  <2> QED BY <1>1, <1>2, <1>5, <2>1 DEF KeptRight, Fine
<1>7. entering = None
  BY <1>1, <1>2, <1>4, NoHandler
<1>8. \/ /\ pos' = kept.pos /\ UNCHANGED <<xit, entering>>
         /\ todo'.op = "ret" /\ todo'.rc \in {1, 2, 3}
      \/ Raise(4, FALSE, kept.pos)
  <2>1. todo.rc = 4 \/ todo.rc = 5 \/ todo.rc = 6
    BY <1>2
  <2>2. \/ /\ pos' = kept.pos /\ UNCHANGED <<xit, entering>>
           /\ todo' = CASE todo.rc = 4 -> Ret(1, Null)
                        [] todo.rc = 5 -> Ret(2, value[kept.defn.name])
                        [] todo.rc = 6 -> Ret(3, value[kept.defn.name])
        \/ Raise(4, FALSE, kept.pos)
    BY DEF Return, CallerPos, kept
  <2>3. \/ /\ pos' = kept.pos /\ UNCHANGED <<xit, entering>>
           /\ \/ todo' = Ret(1, Null)
              \/ todo' = Ret(2, value[kept.defn.name])
              \/ todo' = Ret(3, value[kept.defn.name])
        \/ Raise(4, FALSE, kept.pos)
    BY <2>1, <2>2
  <2>4. ASSUME NEW v, NEW rc \in {1, 2, 3}, todo' = Ret(rc, v)
        PROVE  todo'.op = "ret" /\ todo'.rc \in {1, 2, 3}
    BY <2>4 DEF Ret
  <2>5. 1 \in {1, 2, 3} /\ 2 \in {1, 2, 3} /\ 3 \in {1, 2, 3}
    OBVIOUS
  <2> QED BY <2>3, <2>4, <2>5
<1>9. Goes(ctl, stk, Len(ctl) - 1)
  <2>1. CASE /\ pos' = kept.pos /\ UNCHANGED <<xit, entering>>
             /\ todo'.op = "ret" /\ todo'.rc \in {1, 2, 3}
    BY <1>1, <1>2, <1>6, <1>7, <2>1, GoesFine
  <2>2. CASE Raise(4, FALSE, kept.pos)
    <3>1. 4 \in Nat \ {0}
      OBVIOUS
    <3> QED BY <1>1, <1>2, <1>3, <1>6, <1>7, <2>2, <3>1, Raised
  <2> QED BY <1>8, <2>1, <2>2
<1> QED BY <1>1, <1>9, PlacedReturns

LEMMA CallFailsPlaced ==
  ASSUME Starts, CallFails, Returns
  PROVE  Placed' /\ Pending'
<1>1. /\ Works /\ Placed /\ Pending /\ (Tracked(ended) => XitRight(xit) /\ Was)
      /\ Len(ctl) \in Nat \ {0} /\ Top = ctl[Len(ctl)]
  BY StartsWith
<1>2. /\ todo.op = "ret" /\ todo.rc = 1 /\ Top.proc = "DEFFNC"
      /\ UNCHANGED <<pos, xit, todo, entering, ended>>
  BY DEF CallFails, Gets
<1>3. /\ Within(ctl, Len(ctl)) <=> Within(ctl, Len(ctl) - 1)
      /\ Between(ctl, stk, Len(ctl)) <=> Between(ctl, stk, Len(ctl) - 1)
      /\ \A p : Undisturbed(ctl, stk, Len(ctl), p) <=> Undisturbed(ctl, stk, Len(ctl) - 1, p)
  BY <1>1, <1>2, AtTop
<1>4. Tracked(ended) => PosRight(ctl, stk, Len(ctl) - 1, todo, pos, entering)
  BY <1>1, <1>2, <1>3 DEF Was, PosRight
<1>5. entering # None => Awaits(ctl, stk, Len(ctl) - 1, todo, pos, entering)
  BY <1>1, <1>2, <1>3, NoHandler DEF Awaits
<1>6. Goes(ctl, stk, Len(ctl) - 1)
  BY <1>1, <1>2, <1>4, <1>5 DEF Goes
<1> QED BY <1>1, <1>6, PlacedReturns

(* EVAL() and trace calls that end.                                        *)
LEMMA ExprReturnPlaced ==
  ASSUME Starts, ExprReturn, Returns
  PROVE  Placed' /\ Pending'
<1> DEFINE kept == stk[Len(stk)]
<1>1. /\ Works /\ Placed /\ Pending /\ (Tracked(ended) => XitRight(xit) /\ Was)
      /\ Len(ctl) \in Nat \ {0} /\ Top = ctl[Len(ctl)] /\ pos \in Positions
  BY StartsWith
<1>2. /\ todo.op = "ret" /\ todo.rc \in {1, 2, 3} /\ Top.proc = "EXPVAL"
      /\ UNCHANGED <<xit, todo, entering, ended>>
      /\ pos' = [pos EXCEPT !.OCBSCL = kept.pos.OCBSCL, !.OCICL = kept.pos.OCICL]
      /\ Regs /\ Stacks /\ Frames
  BY <1>1 DEF ExprReturn, Gets, Works
<1>3. /\ Within(ctl, Len(ctl))
      /\ Between(ctl, stk, Len(ctl)) <=> Between(ctl, stk, Len(ctl) - 1)
      /\ \A p : Undisturbed(ctl, stk, Len(ctl), p) <=>
                   /\ Undisturbed(ctl, stk, Len(ctl) - 1, p)
                   /\ SameStatement(p, KeptOf(ctl, stk, Len(ctl)).pos)
  BY <1>1, <1>2, AtTop
<1>4. Len(ctl) \in 1 .. Len(ctl) /\ ~(Len(ctl) < Len(ctl)) /\ todo.rc <= 3
  BY <1>1, <1>2
<1>5. KeptOf(ctl, stk, Len(ctl)) = kept /\ Keeper(ctl, todo, Len(ctl))
  BY <1>1, <1>2, <1>4 DEF KeptOf, Keeper
<1> HIDE DEF kept
<1>6. kept.pos \in Positions
  BY <1>2, <1>4, <1>5, KeeperCell
<1>7. Tracked(ended) => Fine(Len(ctl) - 1, kept.pos)
  <2>1. Tracked(ended) => KeptRight(ctl, stk, Len(ctl))
    BY <1>1, <1>2, <1>4, <1>5 DEF Placed
  <2> QED BY <1>1, <1>2, <1>5, <2>1 DEF KeptRight, Fine
<1>8. Tracked(ended) => SameStatement(pos, kept.pos)
  BY <1>1, <1>2, <1>3, <1>4, <1>5 DEF Was, PosRight
<1>9. /\ pos'.OCBSCL = kept.pos.OCBSCL /\ pos'.OCICL = kept.pos.OCICL
      /\ pos'.STNOCL = pos.STNOCL /\ pos'.FRTNCL = pos.FRTNCL /\ pos' \in Positions
  BY <1>1, <1>2, <1>6 DEF Positions
<1>10. Tracked(ended) => Fine(Len(ctl) - 1, pos')
  <2>1. Tracked(ended) => SameStatement(pos', kept.pos) /\ (Agree(kept.pos) => Agree(pos'))
    BY <1>8, <1>9 DEF SameStatement, Agree
  <2> QED BY <1>1, <1>6, <1>7, <1>9, <2>1, FineStep
<1>11. entering # None => Between(ctl, stk, Len(ctl) - 1)
  BY <1>1, <1>2, <1>3, NoHandler
<1>12. Goes(ctl, stk, Len(ctl) - 1)
  BY <1>1, <1>2, <1>9, <1>10, <1>11, GoesFine
<1> QED BY <1>1, <1>12, PlacedReturns

LEMMA TraceReturnPlaced ==
  ASSUME Starts, TraceReturn, Returns
  PROVE  Placed' /\ Pending'
<1> DEFINE kept == stk[Len(stk)]
<1>1. /\ Works /\ Placed /\ Pending /\ (Tracked(ended) => XitRight(xit) /\ Was)
      /\ Len(ctl) \in Nat \ {0} /\ Top = ctl[Len(ctl)] /\ pos \in Positions
  BY StartsWith
<1>2. /\ todo.op = "ret" /\ todo.rc \in {1, 2, 3} /\ Top.proc = "TRPHND"
      /\ UNCHANGED <<xit, entering, ended>> /\ todo'.op = "fetch"
      /\ pos' = kept.pos /\ Regs /\ Stacks /\ Frames
  BY <1>1 DEF TraceReturn, Gets, Works, Fetch
<1>3. /\ Within(ctl, Len(ctl))
      /\ Between(ctl, stk, Len(ctl)) <=>
            \/ Between(ctl, stk, Len(ctl) - 1)
            \/ KeptOf(ctl, stk, Len(ctl)).pos.OCICL % StmtLen = 0
  BY <1>1, <1>2, AtTop
<1>4. /\ Len(ctl) > 1 /\ Len(ctl) \in 1 .. Len(ctl) /\ ~(Len(ctl) < Len(ctl))
      /\ Len(ctl) - 1 \in 1 .. Len(ctl) - 1 /\ Len(ctl) - 1 + 1 = Len(ctl)
  BY <1>1 DEF Returns
<1>5. KeptOf(ctl, stk, Len(ctl)) = kept /\ Keeper(ctl, todo, Len(ctl))
  BY <1>1, <1>2, <1>4 DEF KeptOf, Keeper
<1> HIDE DEF kept
<1>6. ctl[Len(ctl) - 1].proc = "INTERP"
  <2>1. Waits(ctl, stk, Len(ctl) - 1)
    BY <1>2, <1>4 DEF Frames, Stacked
  <2> QED BY <1>1, <1>2, <1>4, <2>1 DEF Waits
<1>7. ~Within(ctl, Len(ctl) - 1) /\ ~Between(ctl, stk, Len(ctl) - 1)
  <2>1. Len(ctl) - 1 - 1 \in Nat /\ Len(ctl) - 1 - 1 + 1 = Len(ctl) - 1
    BY <1>1, <1>4
  <2>2. ctl[Len(ctl) - 1 - 1 + 1].proc = "INTERP"
    BY <1>6, <2>1
  <2>3. ~Within(ctl, Len(ctl) - 1 - 1 + 1) /\ ~Between(ctl, stk, Len(ctl) - 1 - 1 + 1)
    BY <2>1, <2>2, Above DEF Procs
  <2> QED BY <2>1, <2>3
<1>8. Tracked(ended) => kept.pos.OCBSCL # Expr /\ (Agree(kept.pos) \/ kept.pos.OCICL % StmtLen = 0)
  <2>1. Tracked(ended) => KeptRight(ctl, stk, Len(ctl))
    BY <1>1, <1>2, <1>4, <1>5 DEF Placed
  <2> QED BY <1>5, <1>7, <2>1 DEF KeptRight
<1>9. entering # None => kept.pos.OCICL % StmtLen = 0
  BY <1>1, <1>2, <1>3, <1>5, <1>7, NoHandler
<1>10. Goes(ctl, stk, Len(ctl) - 1)
  BY <1>1, <1>2, <1>6, <1>7, <1>8, <1>9 DEF Goes, PosRight, Awaits
<1> QED BY <1>1, <1>10, PlacedReturns

(* INTERP has returned to DEFFNC, or the program ends.                     *)
LEMMA InterpReturnPlaced ==
  ASSUME Starts, InterpReturn, (Stays /\ UNCHANGED <<stk, ctl>>) \/ Returns
  PROVE  Placed' /\ Pending'
<1>1. /\ Works /\ Placed /\ Pending /\ (Tracked(ended) => XitRight(xit) /\ Was)
      /\ Len(ctl) \in Nat \ {0} /\ Top = ctl[Len(ctl)]
  BY StartsWith
<1>2. /\ todo.op = "ret" /\ todo.rc \in {4, 5, 6} /\ Top.proc = "INTERP"
      /\ UNCHANGED <<pos, ended>>
      /\ \/ UNCHANGED <<xit, todo, entering>> /\ Len(ctl') = Len(ctl) - 1
         \/ Stop /\ UNCHANGED ctl
  <2>1. ASSUME Len(ctl) > 1, Leaves(stk) PROVE Len(ctl') = Len(ctl) - 1
    BY <1>1, <2>1, Popped DEF Works
  <2> QED BY <2>1 DEF InterpReturn, Gets
<1>3. todo.rc > 3 /\ Len(ctl) # Len(ctl) - 1
  BY <1>1, <1>2
<1>4. entering = None
  BY <1>1, <1>2, <1>3, NoHandler
<1>5. CASE UNCHANGED <<xit, todo, entering>> /\ Len(ctl') = Len(ctl) - 1
  <2>1. Returns
    BY <1>3, <1>5
  <2>2. PosRight(ctl, stk, Len(ctl) - 1, todo', pos', entering')
    BY <1>2, <1>3, <1>5 DEF PosRight
  <2>3. Goes(ctl, stk, Len(ctl) - 1)
    BY <1>1, <1>2, <1>4, <1>5, <2>2 DEF Goes
  <2> QED BY <1>1, <2>1, <2>3, PlacedReturns
<1>6. CASE Stop /\ UNCHANGED ctl
  <2>1. Stays /\ UNCHANGED stk
    <3>1. ~Returns
      BY <1>3, <1>6 DEF Returns
    <3> QED BY <3>1
  <2>2. Goes(ctl, stk, Len(ctl))
    BY <1>1, <1>2, <1>6 DEF Goes, Stop, Stopped
  <2> QED BY <1>1, <2>1, <2>2, PlacedStays
<1> QED BY <1>2, <1>5, <1>6

-----------------------------------------------------------------------------
(* The whole invariant, and what it says of statements, failure exits and  *)
(* the handlers of SETEXIT().  Where the program does one of the Defects   *)
(* the registers are wrong, which the theorems exclude by name.            *)

LEMMA IInvInit == Init => IInv
<1> SUFFICES ASSUME Init PROVE IInv
  OBVIOUS
<1>1. ctl = <<[proc |-> "INTERP", base |-> 0]>> /\ todo = Fetch /\ entering = None
      /\ pos = [OCBSCL |-> Main, OCICL |-> 0, FRTNCL |-> 0, STNOCL |-> <<Main, 0>>]
      /\ xit = [ptr |-> None, ocbs |-> None, ocic |-> 0, frtn |-> 0,
                stno |-> <<Main, 0>>, typ |-> 0]
  BY DEF Init
<1>2. Len(ctl) = 1 /\ ctl[1].proc = "INTERP" /\ todo.op = "fetch" /\ xit.ocbs = None
      /\ pos.OCBSCL = Main /\ pos.OCICL % StmtLen = 0
  BY <1>1 DEF Fetch, StmtLen
<1>3. Main # Expr
  BY ProgramAssumption
<1>4. ~Within(ctl, 1)
  BY <1>2 DEF Within
<1>5. Placed
  BY <1>2, <1>3, <1>4 DEF Placed, Keeper, BodyOf, PosRight, XitRight, NoBlocks
<1>6. Pending
  BY <1>1 DEF Pending
<1> QED BY <1>5, <1>6, StackInvInit DEF IInv, StackInv

LEMMA PlacedNext ==
  ASSUME Regs, Stacks, Frames, LevelIsDepth, Placed, Pending, "inside" \notin Defects, Next
  PROVE  Placed' /\ Pending'
<1>1. Starts
  BY Steps DEF Starts, Works
<1>2. CASE Assign \/ SETXIT \/ Fails \/ PrimitiveError \/ ExprVariable
  BY <1>1, <1>2, ShapeOfPlain, ElementPlaced
<1>3. CASE \/ GOTO \/ GotoLabel \/ GotoUndefined \/ GotoFails \/ GotoReturn \/ GotoAbort
           \/ GotoContinue \/ Crash
  BY <1>1, <1>3, ShapeOfPlain, GotoPlaced
<1>4. CASE END \/ StatementGoesOn
  BY <1>1, <1>4, ShapeOfPlain, EndPlaced
<1>5. CASE ArgVariable \/ ArgReturned \/ Redefine
  BY <1>1, <1>5, ShapeOfArguments, ArgumentPlaced
<1>6. CASE InitStatement \/ StatementFails
  BY <1>1, <1>6, InitPlaced, FailsPlaced
<1>7. CASE Call \/ EXPVAL
  BY <1>1, <1>7, ShapeOfCalls, CallPlaced, ExpressionPlaced
<1>8. CASE Enter
  BY <1>1, <1>8, ShapeOfEnter, EnterPlaced
<1>9. CASE EnterUndefined \/ CallFails \/ ExprReturn \/ TraceReturn
  BY <1>1, <1>9, ShapeOfReturns, UndefinedPlaced, CallFailsPlaced, ExprReturnPlaced,
     TraceReturnPlaced
<1>10. CASE Return
  BY <1>1, <1>10, ShapeOfReturn, ReturnPlaced
<1>11. CASE InterpReturn
  BY <1>1, <1>11, ShapeOfInterpReturn, InterpReturnPlaced
<1> QED BY <1>2, <1>3, <1>4, <1>5, <1>6, <1>7, <1>8, <1>9, <1>10, <1>11 DEF Next

LEMMA IInvNext == "inside" \notin Defects /\ IInv /\ [Next]_vars => IInv'
<1> SUFFICES ASSUME "inside" \notin Defects, IInv, [Next]_vars PROVE IInv'
  OBVIOUS
<1>1. StackInv /\ Placed /\ Pending
  BY DEF IInv, StackInv
<1>2. StackInv'
  BY <1>1, StackInvNext
<1>3. CASE Next
  <2>1. Regs /\ Stacks /\ Frames /\ LevelIsDepth
    BY <1>1, StackInvParts DEF LevelIsDepth
  <2>2. Placed' /\ Pending'
    BY <1>1, <1>3, <2>1, PlacedNext
  <2> QED BY <1>2, <2>2 DEF IInv, StackInv
<1>4. CASE UNCHANGED vars
  <2>1. Placed' /\ Pending'
    BY <1>1, <1>4 DEF vars, Placed, Pending
  <2> QED BY <1>2, <2>1 DEF IInv, StackInv
<1> QED BY <1>3, <1>4

LEMMA PlacedGives == IInv => HandlerEntered /\ (Defects = {} => RegistersAgree /\ FailureExit)
<1> SUFFICES ASSUME IInv
             PROVE  HandlerEntered /\ (Defects = {} => RegistersAgree /\ FailureExit)
  OBVIOUS
<1>1. Regs /\ Stacks /\ Frames /\ Placed /\ Pending
  BY TypeSplit DEF IInv
<1>2. /\ Len(ctl) \in Nat \ {0} /\ Top = ctl[Len(ctl)] /\ Top.proc \in Procs
      /\ DOMAIN ctl = 1 .. Len(ctl)
  BY <1>1, TopType
<1>3. Top.proc = "INTERP" => ~Within(ctl, Len(ctl)) /\ ~Between(ctl, stk, Len(ctl))
  <2>1. Len(ctl) - 1 \in Nat /\ Len(ctl) - 1 + 1 = Len(ctl)
    <3>1. Len(ctl) \in Nat \ {0}
      BY <1>2
    <3> QED BY <3>1
  <2>2. ctl[Len(ctl) - 1 + 1] = Top
    BY <1>2, <2>1
  <2>3. Top.proc = "INTERP" => /\ ~Within(ctl, Len(ctl) - 1 + 1)
                               /\ ~Between(ctl, stk, Len(ctl) - 1 + 1)
    BY <1>2, <2>1, <2>2, Above
  <2> QED BY <2>1, <2>3
<1>4. ASSUME Tracked(ended), Reads("INTERP"), ~AtStatement PROVE Agree(pos)
  <2>1. todo.op = "fetch" /\ Top.proc = "INTERP" /\ PosRight(ctl, stk, Len(ctl), todo, pos, entering)
    BY <1>1, <1>4 DEF Reads, Placed
  <2> QED BY <1>2, <1>3, <1>4, <2>1 DEF PosRight, AtStatement
<1>5. ASSUME Tracked(ended), NEW i \in Bodies, Kept(i).pos.OCBSCL # Expr PROVE Agree(Kept(i).pos)
  <2>1. i \in 1 .. Len(ctl) /\ BodyOf(ctl, todo, i) /\ ctl[i].proc = "DEFFNC"
    BY <1>2 DEF Bodies, InBody, BodyOf
  <2>2. i < Len(ctl) \/ todo.op # "stop"
    BY <2>1 DEF BodyOf
  <2>3. KeptRight(ctl, stk, i) /\ KeptOf(ctl, stk, i) = Kept(i)
    BY <1>1, <1>5, <2>1, <2>2 DEF Placed, Keeper, KeptOf, Kept
  <2> QED BY <1>5, <2>1, <2>3 DEF KeptRight
<1>6. ASSUME Tracked(ended), Gets("INTERP", {1}), entering = None
      PROVE  pos.OCBSCL = pos.STNOCL[1] /\ pos.FRTNCL = (pos.STNOCL[2] + 1) * StmtLen
  <2>1. /\ todo.op = "ret" /\ todo.rc = 1 /\ Top.proc = "INTERP"
        /\ PosRight(ctl, stk, Len(ctl), todo, pos, entering)
    BY <1>1, <1>6 DEF Gets, Placed
  <2>2. ExitAgrees(pos.OCBSCL, pos.FRTNCL, pos.STNOCL)
    BY <1>3, <1>6, <2>1 DEF PosRight
  <2> QED BY <2>2 DEF ExitAgrees
<1>7. ASSUME Gets("INTERP", {1}), entering # None
      PROVE  pos.OCBSCL = entering /\ pos.FRTNCL = 0
  <2>1. /\ todo.op = "ret" /\ todo.rc = 1 /\ Top.proc = "INTERP"
        /\ Awaits(ctl, stk, Len(ctl), todo, pos, entering)
    BY <1>1, <1>7 DEF Gets, Pending
  <2> QED BY <1>3, <2>1 DEF Awaits
<1>8. Defects = {} /\ ~ended => Tracked(ended)
  BY DEF Tracked
<1> QED BY <1>4, <1>5, <1>6, <1>7, <1>8 DEF RegistersAgree, FailureExit, HandlerEntered

(* In the middle of a statement the code block, the offset, the failure    *)
(* exit and the number of the statement agree, and so do those a call has  *)
(* kept for its return (INIT, DEFFNC, EXPVJ2, TRPHND, GOTL).               *)
THEOREM RegistersRight == ASSUME Defects = {} PROVE Spec => []RegistersAgree
<1>1. "inside" \notin Defects
  OBVIOUS
<1>2. IInv => RegistersAgree
  BY PlacedGives
<1> QED BY <1>1, <1>2, IInvInit, IInvNext, PTL DEF Spec

(* A statement that fails goes to its own failure exit, and CONTINUE to    *)
(* that of the statement in error (INTERP, XITHND, GOTL).                  *)
THEOREM FailureExitRight == ASSUME Defects = {} PROVE Spec => []FailureExit
<1>1. "inside" \notin Defects
  OBVIOUS
<1>2. IInv => FailureExit
  BY PlacedGives
<1> QED BY <1>1, <1>2, IInvInit, IInvNext, PTL DEF Spec

(* A trapped error passes control to the label given to SETEXIT(), through *)
(* every procedure that fails on the way to it (FTERST, XITHND, INTERP).   *)
THEOREM HandlerRight == ASSUME "inside" \notin Defects PROVE Spec => []HandlerEntered
BY IInvInit, IInvNext, PlacedGives, PTL DEF Spec
=============================================================================
