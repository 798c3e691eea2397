------------------------------- MODULE Match -------------------------------
(***************************************************************************)
(* Pattern matching: SCNR, SCIN and the matching procedures of SCIN1; the  *)
(* statements that match, SCAN (X ? P) and SJSR (X P = Y); and NMD, which  *)
(* assigns the names of a match that has succeeded.                        *)
(*                                                                         *)
(* The history list hist holds what can still be tried: the alternative of *)
(* a node, or a procedure that undoes something.  A match backs up by      *)
(* taking its last entry, in two moods: after SALT the entry says whether  *)
(* all failures so far were for want of characters (LENFCL), after SALF it *)
(* is known that one was not.  In quickscan mode the least number of       *)
(* characters a pattern still needs (val, res) and LENFCL are used to give *)
(* up early; in fullscan mode they are not.                                *)
(*                                                                         *)
(* stk is the data stack; what is pushed on it is tagged with what it is   *)
(* pushed for.  calls is the C stack: a SCIN1 inside a SCIN1 that matches  *)
(* the value of an unevaluated expression, *X; and an inner statement,     *)
(* which the function of a trace or an expression runs in the middle of a  *)
(* match, with the same cells, history list and name list.                 *)
(***************************************************************************)
EXTENDS PatternNodes

CONSTANTS
    Compiled(_), \* the nodes of a pattern
    Problems,   \* the statements: kind, subject, pattern, fullscan, anchored, the
                \* inner statement, and the names whose trace runs it
    Value,      \* what *X stands for, per name: a pattern
    After,      \* per name: which one's value X has when it was evaluated
    Calling,    \* the names of Value that call a function, of the inner statement
    Failing,    \* the names of Value whose function fails
    NotInteger, \* an argument that is no integer
    MaxHistory  \* the length of the history list

ASSUME ProblemsAssumption ==
    \A p \in Problems : /\ {p.fullscan, p.anchored} \subseteq BOOLEAN
                         /\ p.kind \in {"SCAN", "SJSR"} /\ p.inner.kind \in {"SCAN", "SJSR", "none"}
                         /\ \A m \in {p, p.inner} : m.subject \in Seq(Range(m.subject))

\* In quickscan mode *X is taken to need one character (STARPT).
Values == [x \in DOMAIN Value |-> Compiled(Value[x])]
ASSUME StringsAssumption ==
    \A x \in DOMAIN Value : Value[x][1] = "CHR" => Value[x][2] \in Seq(Range(Value[x][2]))
ASSUME ValuesNeedOne == \A x \in DOMAIN Values : LVALUE(Values[x]) >= 1

VARIABLES
    problem,
    mem,        \* the nodes of the patterns, and of the values
    now,        \* per name: whose value it has
    r,          \* PATBCL, PATICL, the link to the next node in XCL, what
                \* follows in YCL, LENFCL, MAXLEN, the cursor in TXSP, HEADSP, XSP,
                \* TCL, and where the lists begin for this statement
    hist, stk, calls,
    named,      \* the name list
    store,      \* the variables that are assigned
    TMVAL,      \* what the residual of TMVAL was left as
    todo,       \* the procedure that runs next
    answer

vars == <<problem, mem, now, r, hist, stk, calls, named, store, TMVAL, todo, answer>>
lists == <<hist, named>>

Names == DOMAIN Value
Statements == {"outer", "inner"}
Vars == {"n", "m", "c", "z"}
Unset == <<"unset">>

\* The statement that runs is an inner one, from the last of the calls that is not
\* a SCIN.
Inside == \E k \in DOMAIN calls : calls[k].use # "SCIN"
LastInner == Max({k \in DOMAIN calls : calls[k].use # "SCIN"})
Owner == IF Inside THEN "inner" ELSE "outer"
Statement == IF Inside THEN problem.inner ELSE problem
NoStatement == [kind |-> "none", subject |-> <<>>, pattern |-> <<"SALF", 0>>]
Subject == r.XSP
Quick == ~problem.fullscan

None == [end |-> "none"]

\* An entry of the history list is for a procedure, or for an alternative of a node;
\* owner is whose node a link is to.
Link == ""
Entry(fn, or, then, cur, res, len) ==
    [fn |-> fn, or |-> or, then |-> then, cur |-> cur, res |-> res, len |-> len,
     owner |-> r.PATBCL]
Undo(fn, res) == Entry(fn, 0, 0, r.TXSP, res, r.LENFCL)
Top == Last(hist)
\* Mutation: the entry stays as it was.
TopStays(e) == hist
SetTop(e) == Append(Front(hist), e)
Cell(use, n) == [use |-> use, n |-> n]

Init ==
    /\ problem \in Problems
    /\ mem = [p \in Names \cup Statements |->
                 CASE p = "outer" -> Compiled(problem.pattern)
                   [] p = "inner" -> Compiled(problem.inner.pattern)
                   [] OTHER -> Values[p]]
    /\ now = [x \in Names |-> x]
    /\ r = [PATBCL |-> "outer", PATICL |-> 0, then |-> 0, res |-> 0, LENFCL |-> TRUE,
            MAXLEN |-> 0, TXSP |-> 0, HEADSP |-> 0, XSP |-> <<>>, TCL |-> 0,
            PDLHED |-> 0, NHEDCL |-> 0]
    /\ hist = <<>> /\ stk = <<>> /\ calls = <<>> /\ named = <<>>
    /\ store = [x \in Vars |-> Unset] /\ TMVAL = 0
    /\ todo = "SCNR" /\ answer = None

-----------------------------------------------------------------------------
(* Statements.                                                              *)

\* The statement is done, whatever was called and pushed for it.
StatementEnds(a) ==
    IF ~Inside THEN todo' = "done" /\ answer' = a /\ UNCHANGED <<stk, calls>>
    ELSE /\ todo' = "resume" /\ UNCHANGED answer
         /\ calls' = SubSeq(calls, 1, LastInner)
         /\ stk' = SubSeq(stk, 1, calls[LastInner].at)
FAIL == StatementEnds([end |-> "fail"])

\* The match begins.  Unanchored, it may begin at as many places as the pattern
\* leaves room for; how many is kept on the stack.
SCNR ==
    /\ todo = "SCNR"
    /\ LET n == Len(Statement.subject)
           least == LVALUE(mem[Owner])
           bottom == IF problem.anchored THEN "SCFL" ELSE "SCON"
       IN  IF Quick /\ least > n
           THEN /\ FAIL
                /\ r' = [r EXCEPT !.XSP = Statement.subject, !.MAXLEN = n]
                /\ UNCHANGED <<lists, TMVAL>>
           ELSE /\ TMVAL' = 0
                /\ r' = [r EXCEPT !.XSP = Statement.subject, !.MAXLEN = n, !.TXSP = 0,
                                  !.HEADSP = 0, !.PATBCL = Owner, !.PATICL = 0,
                                  !.LENFCL = TRUE]
                /\ hist' = Append(SubSeq(hist, 1, r.PDLHED),
                                  [Entry(bottom, 0, 0, 0, 0, TRUE) EXCEPT !.owner = Owner])
                /\ named' = SubSeq(named, 1, r.NHEDCL)
                /\ stk' = IF problem.anchored THEN stk
                          ELSE Append(stk, Cell("head", (IF Quick THEN n - least ELSE n) + 1))
                /\ todo' = "node"
                /\ UNCHANGED <<calls, answer>>
    /\ UNCHANGED <<problem, mem, now, store>>

\* An inner statement is run: by what; what comes back after it is kept on the stack;
\* and the history list is its own from base on, the name list from names on.
Enters(below, by, back, base, names) ==
    /\ stk' = Append(below, [use |-> "kept", r |-> back, PDLPTR |-> Len(hist), NAMICL |-> Len(named)])
    /\ calls' = Append(calls, [use |-> by, at |-> Len(stk')])
    /\ r' = [back EXCEPT !.PDLHED = base, !.NHEDCL = names]
    /\ todo' = "SCNR"
    /\ UNCHANGED <<lists, answer>>
EntersInMatch(below, by, back) == Enters(below, by, back, Len(hist), Len(named))
Runs == problem.inner # NoStatement /\ ~Inside
Traced(x) == Runs /\ x \in problem.traced

\* What goes on after it.
After_(by) == [NMD |-> "NMD", SJSR |-> "SJSRV", STAR |-> "STARV", ENMI |-> "ENMI2", ATP |-> "SCOK"][by]

\* NMD and SJSR keep little; EXPVAL, ENMI and ATP keep everything, as there is a
\* match to go on with.
Resume ==
    /\ todo = "resume"
    /\ LET by == Last(calls).use
           k == Last(stk)
       IN  /\ todo' = After_(by)
           /\ calls' = Front(calls) /\ stk' = Front(stk)
           /\ \/ /\ by = "SJSR" /\ UNCHANGED <<r, lists>>
              \/ /\ by = "NMD"
                 /\ r' = [r EXCEPT !.NHEDCL = k.r.NHEDCL, !.TCL = k.r.TCL]
                 /\ named' = SubSeq(named, 1, k.NAMICL) /\ UNCHANGED hist
              \/ /\ by \in {"STAR", "ENMI", "ATP"}
                 /\ r' = k.r
                 /\ named' = SubSeq(named, 1, k.NAMICL) /\ hist' = SubSeq(hist, 1, k.PDLPTR)
    /\ UNCHANGED <<problem, mem, now, store, answer, TMVAL>>

Text(i, j) == SubSeq(Statement.subject, i + 1, j)

\* The match has succeeded: SJSR puts on the stack what is to be replaced.
Matched == /\ todo' = "NMD" /\ r' = [r EXCEPT !.TCL = r.NHEDCL]
           /\ stk' = IF Statement.kind = "SCAN" THEN stk
                     ELSE Append(stk, [use |-> "tail", head |-> r.HEADSP, to |-> r.TXSP])
           /\ UNCHANGED <<calls, answer>>

\* The entry of the name list that is assigned when n have been.
NextName(n) == named[n + 1]

\* The names of the match are assigned in turn.
NMD ==
    /\ todo = "NMD"
    /\ \/ /\ r.TCL = Len(named)
          /\ todo' = Statement.kind
          /\ UNCHANGED <<r, stk, calls, lists, store, answer>>
       \/ /\ r.TCL < Len(named)
          /\ LET e == NextName(r.TCL)
                 x == e[1]
                 one == [r EXCEPT !.TCL = @ + 1]
             IN  \/ \* NMDIC: the text is no integer; or the name's function fails.
                    /\ x \in Unassignable
                    /\ FAIL /\ UNCHANGED <<r, lists, store>>
                 \/ /\ x \notin Unassignable
                    /\ store' = [store EXCEPT ![x] = Text(e[2], e[3])]
                    /\ IF Traced(x) THEN Enters(stk, "NMD", one, r.PDLHED, Len(named))
                       ELSE r' = one /\ UNCHANGED <<todo, stk, calls, lists, answer>>
    /\ UNCHANGED <<problem, mem, now, TMVAL>>

\* The value of X ? P, from the cells as they are now.
SCAN ==
    /\ todo = "SCAN"
    /\ StatementEnds([end |-> "ok",
                      value |-> SubSeq(r.XSP, Min({r.HEADSP, r.TXSP}) + 1, Max({r.HEADSP, r.TXSP}))])
    /\ UNCHANGED <<problem, mem, now, r, lists, store, TMVAL>>

\* X P = Y: Y is evaluated, and then put between what came before the match and what
\* comes after it.
SJSR ==
    /\ todo = "SJSR"
    /\ IF Runs THEN Enters(stk, "SJSR", r, r.PDLHED, r.NHEDCL)
       ELSE todo' = "SJSRV" /\ UNCHANGED <<r, stk, calls, lists, answer>>
    /\ UNCHANGED <<problem, mem, now, store, TMVAL>>

New == "*"
SJSRV ==
    /\ todo = "SJSRV" /\ Last(stk).use = "tail"
    /\ StatementEnds([end |-> "ok",
                      value |-> Text(0, Last(stk).head) \o <<New>>
                                  \o Text(Last(stk).to, Len(Statement.subject))])
    /\ UNCHANGED <<problem, mem, now, r, lists, store, TMVAL>>

-----------------------------------------------------------------------------
(* Going on and backing up.                                                 *)

OnNode == mem[r.PATBCL][r.PATICL + 1]
\* What the rest of the pattern needs.
Needs == IF Quick THEN r.res ELSE 0

\* After a failure, SALT or SALF.
Fails(len) == IF len THEN "SALT" ELSE "SALF"

\* SCIN3: an entry for the alternative of the node; its procedure runs if
\* enough characters are left.
SCIN3 ==
    /\ todo = "node" /\ Len(hist) < MaxHistory
    /\ hist' = Append(hist, Entry(Link, OnNode.or, OnNode.then, r.TXSP, OnNode.res, r.LENFCL))
    /\ r' = [r EXCEPT !.then = OnNode.then, !.res = OnNode.res]
    /\ todo' = IF Quick /\ r.TXSP + OnNode.val > r.MAXLEN THEN "SALT" ELSE OnNode.fn
    /\ TMVAL' = OnNode.res
    /\ UNCHANGED <<problem, mem, now, stk, calls, named, store, answer>>

\* SALT1, SALF1: the last entry is tried.
BackUp ==
    /\ todo \in {"SALT", "SALF"}
    /\ LET len == todo = "SALT" /\ Top.len
           back == [r EXCEPT !.LENFCL = len, !.then = Top.then, !.res = Top.res]
       IN  \/ /\ Top.fn = Link /\ Top.or = 0
              /\ r' = back /\ todo' = Fails(len)
           \/ /\ Top.fn = Link /\ Top.or # 0
              /\ r' = [back EXCEPT !.TXSP = Top.cur, !.PATICL = Top.or]
              /\ todo' = "node"
           \/ /\ Top.fn # Link
              /\ r' = [back EXCEPT !.TXSP = Top.cur]
              /\ todo' = Top.fn
    /\ hist' = Front(hist)
    /\ UNCHANGED <<problem, mem, now, stk, calls, named, store, answer, TMVAL>>

\* SCIN1 returns to STAR or DSAR: what they pushed comes back.
InSCIN == calls # <<>> /\ Last(calls).use = "SCIN"
SCINReturns == /\ r' = [stk[Last(calls).at].r EXCEPT !.LENFCL = r.LENFCL, !.TXSP = r.TXSP]
               /\ stk' = SubSeq(stk, 1, Last(calls).at - 1)
               /\ calls' = Front(calls)
               /\ UNCHANGED answer

\* SCOK: the node that follows, or the end of the pattern.
SCOK ==
    /\ todo = "SCOK"
    /\ \/ /\ r.then # 0
          /\ r' = [r EXCEPT !.PATICL = r.then, !.LENFCL = TRUE]
          /\ todo' = "node"
          /\ UNCHANGED <<stk, calls, answer>>
       \/ r.then = 0 /\ InSCIN /\ SCINReturns /\ UNCHANGED todo
       \/ r.then = 0 /\ ~InSCIN /\ Matched
    /\ UNCHANGED <<problem, mem, now, hist, named, store, TMVAL>>

\* FAIL, as the bottom of a match: STARP5, or the end of an anchored one.
SCFL ==
    /\ todo = "SCFL"
    /\ \/ InSCIN /\ SCINReturns /\ todo' = Fails(r.LENFCL)
       \/ ~InSCIN /\ FAIL /\ UNCHANGED r
    /\ UNCHANGED <<problem, mem, now, hist, named, store, TMVAL>>

\* No place further on can do what this one could not for want of characters.
GivesUp == Quick /\ r.LENFCL

\* SCON: the match begins one character further on.
SCON ==
    /\ todo = "SCON" /\ Last(stk).use = "head"
    /\ \/ /\ GivesUp \/ Last(stk).n = 1
          /\ FAIL
          /\ UNCHANGED <<r, hist, TMVAL>>
       \/ /\ ~GivesUp /\ Last(stk).n > 1
          /\ stk' = Append(Front(stk), Cell("head", Last(stk).n - 1))
          /\ TMVAL' = 0
          /\ r' = [r EXCEPT !.TXSP = @ + 1, !.HEADSP = r.TXSP + 1, !.PATBCL = Owner,
                            !.PATICL = 0, !.LENFCL = TRUE]
          /\ hist' = Append(hist, [Entry("SCON", 0, 0, r.TXSP + 1, 0, TRUE) EXCEPT !.owner = Owner])
          /\ todo' = "node"
          /\ UNCHANGED <<calls, answer>>
    /\ UNCHANGED <<problem, mem, now, named, store>>

\* ABORT, and backing up over FENCE: every SCIN of the match fails too.
RTNUL3 == /\ todo = "RTNUL3"
          /\ FAIL
          /\ UNCHANGED <<problem, mem, now, r, hist, named, store, TMVAL>>

\* INTR31: the history list is full, which every procedure that makes it longer
\* looks at and SCIN3 notices for them here.
INTR31 == /\ todo = "node" /\ Len(hist) >= MaxHistory
          /\ StatementEnds([end |-> "overflow"])
          /\ UNCHANGED <<problem, mem, now, r, hist, named, store, TMVAL>>

-----------------------------------------------------------------------------
(* Procedures that only test the subject and move the cursor.               *)

To(c) == [to |-> "SCOK", at |-> c]
Lost(mood) == [to |-> mood, at |-> r.TXSP]
\* Where a subject ends for ANY(), NOTANY() and BREAK(): a break character may
\* be the first one that the pattern must leave.
Visible == IF Quick THEN Min({Len(Subject), r.MAXLEN + 1}) ELSE Len(Subject)

CHR(s, c) ==
    IF Len(Subject) - c < Len(s) THEN Lost("SALT")
    ELSE IF SubSeq(Subject, c + 1, c + Len(s)) # s THEN Lost("SALF")
    ELSE To(c + Len(s))

LNTH(x, c) == IF c + x > r.MAXLEN THEN Lost("SALT") ELSE To(c + x)

POSI(x, c) == IF x > r.MAXLEN THEN Lost("SALT")
              ELSE IF x = c THEN To(c)
              ELSE IF x > c THEN Lost("SALF") ELSE Lost("SALT")

RPSI(x, c) == IF c < Len(Subject) - x THEN Lost("SALF")
              ELSE IF c = Len(Subject) - x THEN To(c) ELSE Lost("SALT")

TB(x, c) == IF c > x \/ x > r.MAXLEN THEN Lost("SALT") ELSE To(x)

RTB(x, c) == LET t == Len(Subject) - x
             IN  IF c > t \/ (Quick /\ r.MAXLEN - r.res < t) THEN Lost("SALT") ELSE To(t)

\* ANYC3 .. ANYC6, with Quick's early end.
ANYC(x, c) == IF (Quick /\ r.MAXLEN < c) \/ Visible = c THEN Lost("SALT")
              ELSE IF Subject[c + 1] \in x THEN To(c + 1) ELSE Lost("SALF")

BRKC(x, c) == LET b == {j \in c .. Visible - 1 : Subject[j + 1] \in x}
              IN  IF (Quick /\ r.MAXLEN < c) \/ b = {} THEN Lost("SALT") ELSE To(Min(b))

SPNC(x, c) == LET e == SpanEnds(x, c, Subject)
              IN  IF Len(Subject) <= c THEN Lost("SALT")
                  ELSE IF e = {} THEN Lost("SALF")
                  ELSE IF Quick /\ Max(e) > r.MAXLEN THEN Lost("SALT") ELSE To(Max(e))

Chars == UNION {Range(p.subject) : p \in Problems}

Outcome(fn, x, c) ==
    CASE fn = "CHR" -> CHR(x, c)   [] fn = "LNTH" -> LNTH(x, c)
      [] fn = "POSI" -> POSI(x, c) [] fn = "RPSI" -> RPSI(x, c)
      [] fn = "TB" -> TB(x, c)     [] fn = "RTB" -> RTB(x, c)
      [] fn = "ANYC" -> ANYC(x, c) [] fn = "NNYC" -> ANYC(Chars \ x, c)
      [] fn = "BRKC" -> BRKC(x, c) [] fn = "SPNC" -> SPNC(x, c)

Measuring == {"LNTH", "POSI", "RPSI", "TB", "RTB"}

Outcomes(o) == todo' = o.to /\ r' = [r EXCEPT !.TXSP = o.at]

Primitive ==
    /\ todo \in {"CHR", "ANYC", "NNYC", "BRKC", "SPNC"} \cup Measuring
    /\ todo \in Measuring => OnNode.arg # NotInteger
    /\ Outcomes(Outcome(todo, OnNode.arg, r.TXSP))
    /\ UNCHANGED <<problem, mem, now, hist, stk, calls, named, store, answer, TMVAL>>

\* LPRRTV: the argument has turned out to be no integer (SCDTER); SCL, which
\* says which procedure it is for, stays on the stack.
NoInteger ==
    /\ todo \in Measuring /\ OnNode.arg = NotInteger
    /\ stk' = Append(stk, Cell("scl", 0))
    /\ todo' = "SALF"
    /\ UNCHANGED <<problem, mem, now, r, hist, calls, named, store, answer, TMVAL>>

-----------------------------------------------------------------------------
(* Procedures that leave something to undo.                                 *)

Succeeds(c) == todo' = "SCOK" /\ r' = [r EXCEPT !.TXSP = c]
\* Mutation: nothing is left to undo it.
KeepsNothing(h, e) == hist' = h
\* The entry e is on top when the next node is matched.
Keeps(h, e) == hist' = Append(h, e)

\* BREAKX(): what BRKXF needs to go on from the break character.  The residual it is
\* to test is not set, and is that of the node last matched: its own when it is come
\* to, and another one's when BRKXF comes back.
BRKX ==
    /\ todo = "BRKX"
    /\ LET o == BRKC(OnNode.arg, r.TXSP)
           entry == [Undo("BRKXF", TMVAL) EXCEPT !.cur = o.at]
       IN  /\ Outcomes(o)
           /\ IF o.to # "SCOK" THEN UNCHANGED hist
              ELSE hist' = hist \o <<[Undo(Link, 0) EXCEPT !.cur = r.PATICL], entry>>
    /\ UNCHANGED <<problem, mem, now, stk, calls, named, store, answer, TMVAL>>

BRKXF ==
    /\ todo = "BRKXF"
    /\ hist' = Front(hist)
    /\ IF (Quick /\ r.LENFCL) \/ r.TXSP + Needs >= r.MAXLEN
       THEN todo' = "SALT" /\ r' = [r EXCEPT !.PATICL = Top.cur]
       ELSE /\ todo' = "BRKX"
            /\ r' = [r EXCEPT !.PATICL = Top.cur, !.TXSP = @ + 1, !.then = Last(hist').then]
    /\ UNCHANGED <<problem, mem, now, stk, calls, named, store, answer, TMVAL>>

\* ARB goes one character further: its own entry is made to say so.
FARB ==
    /\ todo = "FARB"
    /\ IF (Quick /\ r.LENFCL) \/ r.TXSP + Needs >= r.MAXLEN
       THEN todo' = "SALT" /\ hist' = Front(hist) /\ UNCHANGED r
       ELSE Succeeds(r.TXSP + 1) /\ hist' = SetTop([Top EXCEPT !.cur = r.TXSP + 1])
    /\ UNCHANGED <<problem, mem, now, stk, calls, named, store, answer, TMVAL>>

\* BAL, and BALF when it is backed up to; GETBAL (lib/bal.c) takes the shortest.
BAL ==
    /\ todo \in {"BAL", "BALF"}
    /\ LET ends == {j \in r.TXSP + 1 .. r.MAXLEN - Needs : Balanced(r.TXSP, j, Subject)}
       IN  IF (todo = "BALF" /\ Quick /\ r.LENFCL) \/ ends = {}
           THEN todo' = "SALF" /\ hist' = Front(hist) /\ UNCHANGED r
           ELSE Succeeds(Min(ends)) /\ hist' = SetTop([Top EXCEPT !.cur = Min(ends)])
    /\ UNCHANGED <<problem, mem, now, stk, calls, named, store, answer, TMVAL>>

\* FENCE and SUCCEED.
FNCE ==
    /\ todo = "FNCE"
    /\ Keeps(hist, Undo("RTNUL3", 0))
    /\ todo' = "SCOK" /\ r' = [r EXCEPT !.LENFCL = TRUE]
    /\ TMVAL' = 0
    /\ UNCHANGED <<problem, mem, now, stk, calls, named, store, answer>>

SUCF ==
    /\ todo = "SUCF"
    /\ Keeps(hist, Undo("SUCF", 0))
    /\ todo' = "SCOK" /\ r' = [r EXCEPT !.LENFCL = TRUE, !.then = Top.then]
    /\ TMVAL' = 0
    /\ UNCHANGED <<problem, mem, now, stk, calls, named, store, answer>>

-----------------------------------------------------------------------------
(* ARBNO(P): where a P begins is on the stack while it is matched, and in   *)
(* the entry of EARB after that.                                            *)

Tops(use) == stk # <<>> /\ Last(stk).use = use
Pops(use) == Tops(use) /\ stk' = Front(stk)

ARBN == /\ todo = "ARBN"
        /\ stk' = Append(stk, Cell("arbno", r.TXSP))
        /\ todo' = "SCOK"
        /\ TMVAL' = 0
        /\ UNCHANGED <<problem, mem, now, r, hist, calls, named, store, answer>>

\* P has failed altogether.
ARBF == /\ todo = "ARBF" /\ Pops("arbno")
        /\ todo' = Fails(r.LENFCL)
        /\ TMVAL' = 0
        /\ UNCHANGED <<problem, mem, now, r, hist, calls, named, store, answer>>

EARB == /\ todo = "EARB" /\ Pops("arbno")
        /\ hist' = SetTop([Top EXCEPT !.fn = "started", !.or = Last(stk).n, !.then = 0,
                                      !.cur = r.TXSP, !.len = FALSE])
        /\ todo' = "SCOK"
        /\ TMVAL' = 0
        /\ UNCHANGED <<problem, mem, now, r, calls, named, store, answer>>

Started == hist[Len(hist) - 1].or

\* Mutation: the entry that EARB made stays.
ButONAR == Front(hist)
\* Without the entries of EARB and ONAR.
ButEARB == SubSeq(hist, 1, Len(hist) - 2)

\* In quickscan mode a P that has matched the null string is not repeated.
Repeats == ~Quick \/ Started # r.TXSP

\* ONAR: P is to be matched once more; or else, as when ONRF gives up what came
\* of that, the last P is backed up into.
ONAR ==
    /\ todo \in {"ONAR", "ONRF"}
    /\ TMVAL' = IF todo = "ONAR" /\ Quick THEN 0 ELSE TMVAL
    /\ \/ /\ todo = "ONAR" /\ Repeats
          /\ todo' = "SCOK" /\ UNCHANGED <<hist, stk>>
       \/ /\ todo = "ONRF" \/ ~Repeats
          /\ stk' = Append(stk, Cell("arbno", Started))
          /\ hist' = ButEARB
          /\ todo' = Fails(r.LENFCL)
    /\ UNCHANGED <<problem, mem, now, r, calls, named, store, answer>>

-----------------------------------------------------------------------------
(* P . name and P $ name: where P begins is on the stack while it is        *)
(* matched, and in the entry of DNME after that.                            *)

NME == /\ todo = "NME"
       /\ Keeps(hist, Undo("FNME", 0))
       /\ stk' = Append(stk, Cell("name", r.TXSP))
       /\ todo' = "SCOK" /\ r' = [r EXCEPT !.LENFCL = TRUE]
       /\ TMVAL' = 0
       /\ UNCHANGED <<problem, mem, now, calls, named, store, answer>>

\* P has failed.
FNME == /\ todo = "FNME" /\ Pops("name")
        /\ todo' = Fails(r.LENFCL)
        /\ UNCHANGED <<problem, mem, now, r, hist, calls, named, store, answer, TMVAL>>

\* Mutation: the name list is not shortened.
NotUnnamed == named
Unnamed == Front(named)

\* P has matched: the name list grows, or the value is assigned at once (which a
\* trace may notice).
ENME == /\ todo = "ENME" /\ Pops("name")
        /\ named' = Append(named, <<OnNode.arg, Last(stk).n, r.TXSP>>)
        /\ Keeps(hist, Undo("DNME", Last(stk).n))
        /\ todo' = "SCOK" /\ r' = [r EXCEPT !.LENFCL = TRUE]
        /\ TMVAL' = Last(stk).n
        /\ UNCHANGED <<problem, mem, now, calls, store, answer>>

ENMI ==
    /\ todo = "ENMI" /\ Tops("name")
    /\ LET x == OnNode.arg
           i == Last(stk).n
           back == [r EXCEPT !.res = i]
       IN \/ /\ x \notin Unassignable
             /\ store' = [store EXCEPT ![x] = SubSeq(Subject, i + 1, r.TXSP)]
             /\ IF Traced(x)
                THEN EntersInMatch(Front(stk), "ENMI", back)
                ELSE /\ todo' = "ENMI2" /\ r' = back /\ stk' = Front(stk)
                     /\ UNCHANGED <<calls, lists, answer>>
          \/ \* ENMIC: the text is no integer (SCDTER).
             /\ x = Keyword
             /\ todo' = "SALF" /\ stk' = Front(stk)
             /\ UNCHANGED <<r, calls, lists, store, answer>>
          \/ \* ENMEXN: the function of the name fails; its 0 is what FNME pops.
             /\ x = NoName
             /\ todo' = "SALF" /\ stk' = Append(Front(stk), Cell("name", 0))
             /\ UNCHANGED <<r, calls, lists, store, answer>>
    /\ UNCHANGED <<problem, mem, now, TMVAL>>

ENMI2 == /\ todo = "ENMI2"
         /\ Keeps(hist, Undo("DNME1", r.res))
         /\ todo' = "SCOK" /\ r' = [r EXCEPT !.LENFCL = TRUE]
         /\ TMVAL' = r.res
         /\ UNCHANGED <<problem, mem, now, stk, calls, named, store, answer>>

\* @X: X gets the cursor.
ATP ==
    /\ todo = "ATP"
    /\ store' = [store EXCEPT ![OnNode.arg] = <<"at", r.TXSP>>]
    /\ IF Traced(OnNode.arg) THEN EntersInMatch(stk, "ATP", r)
       ELSE todo' = "SCOK" /\ UNCHANGED <<r, stk, calls, lists, answer>>
    /\ UNCHANGED <<problem, mem, now, TMVAL>>

\* It is backed up into.
DNME ==
    /\ todo \in {"DNME", "DNME1"}
    /\ named' = IF todo = "DNME" THEN Unnamed ELSE named
    /\ stk' = Append(stk, Cell("name", r.res))
    /\ todo' = Fails(r.LENFCL)
    /\ UNCHANGED <<problem, mem, now, r, hist, calls, store, answer, TMVAL>>

-----------------------------------------------------------------------------
(* *X: X is evaluated, and a pattern is matched by a SCIN1 of its own.      *)

IsString(x) == Value[x][1] = "CHR"

\* The function in X runs the inner statement.
STAR ==
    /\ todo = "STAR"
    /\ IF OnNode.arg \in Calling /\ Runs THEN EntersInMatch(stk, "STAR", r)
       ELSE todo' = "STARV" /\ UNCHANGED <<r, stk, calls, lists, answer>>
    /\ UNCHANGED <<problem, mem, now, store, TMVAL>>

\* The node of DSAR, two after that of STAR, gets what X is.
Evaluated(x) ==
    /\ mem' = [mem EXCEPT ![r.PATBCL][r.PATICL + 3].arg = x]
    /\ now' = [now EXCEPT ![OnNode.arg] = After[@]]

SCIN(x, h, mood) ==
    /\ hist' = h
    /\ stk' = Append(stk, [use |-> "kept", r |-> r])
    /\ calls' = Append(calls, [use |-> "SCIN", at |-> Len(stk')])
    /\ r' = [r EXCEPT !.PATBCL = x, !.PATICL = 0, !.MAXLEN = @ - Needs,
                      !.LENFCL = IF mood = "node" THEN TRUE ELSE @]
    /\ todo' = mood

\* Its value is matched, if its function does not fail.
STARV ==
    /\ todo = "STARV"
    /\ \/ /\ OnNode.arg \in Failing
          /\ todo' = "SALF"
          /\ UNCHANGED <<mem, now, r, hist, stk, calls, TMVAL>>
       \/ /\ OnNode.arg \notin Failing
          /\ LET x == now[OnNode.arg]
                 room == r.MAXLEN - Needs
             IN  /\ Evaluated(x)
                 /\ IF IsString(x)
                    THEN Outcomes(CHR(Value[x][2], r.TXSP)) /\ UNCHANGED <<hist, stk, calls, TMVAL>>
                    ELSE IF room < 0 \/ (Quick /\ LVALUE(mem[x]) > room)
                    THEN todo' = "SALT" /\ UNCHANGED <<r, hist, stk, calls, TMVAL>>
                    ELSE SCIN(x, Append(hist, Undo("SCFL", 0)), "node") /\ TMVAL' = 0
    /\ UNCHANGED <<problem, named, store, answer>>

\* *X is backed up into: what is left to try of its value is on the history list.
DSAR ==
    /\ todo = "DSAR"
    /\ LET x == OnNode.arg
       IN  IF IsString(x)
           THEN todo' = Fails(r.LENFCL) /\ UNCHANGED <<r, hist, stk, calls>>
           ELSE SCIN(x, hist, Fails(r.LENFCL))
    /\ UNCHANGED <<problem, mem, now, named, store, answer, TMVAL>>

-----------------------------------------------------------------------------
Next ==
    \/ SCNR \/ Resume \/ NMD \/ SCAN \/ SJSR \/ SJSRV
    \/ SCIN3 \/ INTR31 \/ BackUp \/ SCOK \/ SCFL \/ SCON \/ RTNUL3
    \/ Primitive \/ NoInteger \/ BRKX \/ BRKXF \/ FARB \/ BAL \/ FNCE \/ SUCF
    \/ ARBN \/ ARBF \/ EARB \/ ONAR \/ NME \/ FNME \/ ENME \/ ENMI \/ ENMI2 \/ DNME
    \/ ATP \/ STAR \/ STARV \/ DSAR

Spec == Init /\ [][Next]_vars
FairSpec == Spec /\ WF_vars(Next)

-----------------------------------------------------------------------------
(* Properties.                                                              *)

\* What each procedure takes from the stack was pushed for.
Uses == [ARBF |-> "arbno", EARB |-> "arbno", FNME |-> "name", ENME |-> "name",
         ENMI |-> "name", SCON |-> "head", SJSRV |-> "tail", resume |-> "kept"]

\* A procedure that pops finds what was pushed for it.
StackOwned == todo \in DOMAIN Uses => Tops(Uses[todo])

\* A link is followed in the pattern it is a link of, and no entry of EARB is
\* ever taken for a link.
LinksOwned ==
    todo \in {"SALT", "SALF"} =>
      /\ Len(hist) > r.PDLHED /\ Top.fn # "started"
      /\ (Top.fn = Link /\ Top.or # 0) => Top.owner = r.PATBCL

\* The history list undoes everything a statement did: a start that is on the stack is
\* there for an entry that pops it, and its names are as many as the entries that
\* shorten their list.
Cells(use) == Cardinality({k \in (IF Inside THEN calls[LastInner].at ELSE 0) + 1 .. Len(stk) : stk[k].use = use})
Own == r.PDLHED + 1 .. Len(hist)
Entries(fns) == Cardinality({k \in Own : hist[k].fn \in fns})
ArbnoEntries == Cardinality({k \in Own :
    /\ hist[k].fn = Link /\ hist[k].or # 0
    /\ mem[hist[k].owner][hist[k].or + 1].fn = "ARBF"})
HistoryUndoes ==
    (todo = "node" /\ OnNode.fn # "ARBF") =>
      /\ Cells("name") = Entries({"FNME"}) - Entries({"DNME", "DNME1"})
      /\ Cells("arbno") = ArbnoEntries - Entries({"started"})
      /\ Len(named) - r.NHEDCL = Entries({"DNME"})

\* Every statement ends.
Terminates == <>(todo = "done")
=============================================================================
