------------------------------- MODULE Interp -------------------------------
(***************************************************************************)
(* The interpreter of object code: INTERP and INIT, the gotos, calls of    *)
(* programmer-defined functions (DEFINE, DEFFNC), EVAL() (EXPVJ2), keyword *)
(* traces (TRPHND) and errors trapped by SETEXIT() (FTERST, XITHND, GOTL). *)
(*                                                                         *)
(* The object code is arbitrary: whichever C procedure is to read the next *)
(* element may find any element the compiler could have put there.  A code *)
(* block is StmtsPer statements, and the program's END follows it.  OCICL, *)
(* the offset of the last element read, is abstracted to three offsets of  *)
(* a statement: 0, nothing is read; 1, INIT is; 2, its operation is being  *)
(* read, or has been.  XCL, WCL and YPTR are everybody's scratch cells:    *)
(* when an argument loop has lost them to another procedure they are       *)
(* Clobbered.                                                              *)
(*                                                                         *)
(* ctl is the C stack: the procedures that wait for an INVOKE or RCALL.    *)
(* base is the height of the data stack stk that a procedure was called    *)
(* with and that RSTSTK brings back when it returns (include/macros.h).    *)
(***************************************************************************)
EXTENDS Integers, Sequences, FiniteSets, FiniteSetsExt

CONSTANTS
    Names,        \* natural variables; a value is a name or the null string
    Strings,      \* the names an assignment may assign
    Null,
    Defs,         \* the definitions DEFINE() may give the function
    Labels,       \* labels with code; they name their code blocks
    Main,         \* the block of the main program
    Expr,         \* the block of a compiled expression or of a trace call
    End,          \* the block of the END statement
    None,         \* no block, 0 in the code
    NotCode,      \* what OCBSCL is when X of the goto :<X> is not code
    StmtsPer,
    Limits,       \* what the program may set &STLIMIT, &ERRLIMIT, &FATALLIMIT
                  \* and &TRACE to
    MaxFrames,    \* bound: C procedures that wait
    Givens,       \* bound: how many arguments a call is written with
    Defects       \* what the program does that the code does not do right:
                  \*   "inside"   errors inside an expression or a trace call,
                  \*              with a handler set
                  \*   "resume"   SCONTINUE
                  \*   "stray"    CONTINUE outside a handler, when errors of
                  \*              that kind are not fatal
                  \*   "undefined" a goto to a label that is not defined, or to
                  \*              what is not code, with errors of that kind
                  \*              not fatal and no handler set; CONTINUE from it

ASSUME DefectsAssumption == Defects \subseteq {"inside", "resume", "stray", "undefined"}

ASSUME ProgramAssumption ==
    /\ Strings \subseteq Names \cup {Null}
    /\ Defs \subseteq [name : Names, args : Seq(Names), locals : Seq(Names),
                       entry : Labels \cup {None}]
    /\ Limits \subseteq [st : Nat, err : Nat, ftl : Nat, trace : Nat]
    /\ Expr \notin Labels \cup {Main, End}

\* The compiler gives every call an argument, the null string if need be.
ASSUME BoundsAssumption ==
    StmtsPer \in Nat /\ MaxFrames \in Nat /\ Givens \subseteq Nat \ {0}

VARIABLES
    value,        \* the value of every natural variable
    defn,         \* the definition block of the function
    stk,          \* the data stack
    ctl,          \* the C stack
    pos,          \* OCBSCL, OCICL, FRTNCL, STNOCL
    args,         \* XCL, WCL, YPTR of the argument loop
    LVLCL,        \* &FNCLEVEL
    xit,          \* XITPTR and what XITHND saves
    err,          \* ERRTYP (0: the end of the program), FATLCL
    lim,          \* what is left of the four limits
    todo,         \* what the running procedure does next
    entering,     \* history: the handler XITHND has chosen for an error
    ended         \* history: the end of the program was trapped

vars == <<value, defn, stk, ctl, pos, args, LVLCL, xit, err, lim, todo,
          entering, ended>>

Values == Names \cup {Null}
Blocks == Labels \cup {Main, Expr, End}
\* The names a call of d rebinds, in the order of the definition block.
Bound(d) == <<d.name>> \o d.args \o d.locals

StmtLen == 3
Clobbered == [XCL |-> 0, WCL |-> 0, YPTR |-> 0]

Top == ctl[Len(ctl)]
Frame(p) == [proc |-> p, base |-> Len(stk)]
Fetch == [op |-> "fetch", rc |-> 3, v |-> Null]
Ret(rc, v) == [op |-> "ret", rc |-> rc, v |-> v]
Stopped == [op |-> "stop", rc |-> 3, v |-> Null]

\* OCBSCL points to a block.
NoBlocks == {None, NotCode}
HasCode == pos.OCBSCL \notin NoBlocks
\* The running procedure is p and reads the next element of the code.
Reads(p) == todo.op = "fetch" /\ Top.proc = p /\ HasCode
\* The running procedure is p and gets exit rc of what it invoked.
Gets(p, rcs) == todo.op = "ret" /\ Top.proc = p /\ todo.rc \in rcs

AtStatement == pos.OCICL % StmtLen = 0
\* Behind INIT, where the one operation of a statement is.
Inside == pos.OCICL % StmtLen = 1
StatementEnd == (pos.OCICL \div StmtLen + 1) * StmtLen

\* The statements of the block, or a block that has none, are used up.
AtEnd == pos.OCICL = StmtsPer * StmtLen \/ pos.OCBSCL = End

Positions == [OCBSCL : Blocks \cup NoBlocks, OCICL : Nat, FRTNCL : Nat, STNOCL : Blocks \X Nat]

Step == [pos EXCEPT !.OCICL = IF @ % StmtLen = 2 THEN @ ELSE @ + 1]

Init ==
    /\ value = [v \in Names |-> Null]
    /\ defn \in Defs
    /\ stk = <<>>
    /\ ctl = <<[proc |-> "INTERP", base |-> 0]>>
    /\ pos = [OCBSCL |-> Main, OCICL |-> 0, FRTNCL |-> 0, STNOCL |-> <<Main, 0>>]
    /\ args = Clobbered
    /\ LVLCL = 0
    /\ xit = [ptr |-> None, ocbs |-> None, ocic |-> 0, frtn |-> 0,
              stno |-> <<Main, 0>>, typ |-> 0]
    /\ err = [typ |-> 0, fatal |-> FALSE]
    /\ lim \in Limits
    /\ todo = Fetch
    /\ entering = None
    /\ ended = FALSE

-----------------------------------------------------------------------------
(* Errors.                                                                  *)

\* Code of an expression or a trace call is running: the innermost INTERP is
\* not the innermost procedure that keeps its own OCBSCL.
InExpression == \E i \in DOMAIN ctl :
                   /\ ctl[i].proc \in {"EXPVAL", "TRPHND"}
                   /\ \A j \in i + 1 .. Len(ctl) : ctl[j].proc # "INTERP"

\* Mutation: the handler's code starts at the failure exit of the statement.
HandlerAtExit(p) == [p EXCEPT !.OCBSCL = xit.ptr]

\* The handler's code starts at the offset that the failure exit becomes.
HandlerAt(p) == [p EXCEPT !.OCBSCL = xit.ptr, !.FRTNCL = 0]

\* XITHND: the state of the error at p is saved and p becomes the handler's.
XITHND(p, typ) ==
    IF xit.ptr = None
    THEN pos' = p /\ UNCHANGED <<xit, entering>>
    ELSE /\ xit' = [ptr |-> None, ocbs |-> p.OCBSCL, ocic |-> p.OCICL,
                    frtn |-> p.FRTNCL, stno |-> p.STNOCL, typ |-> typ]
         /\ pos' = HandlerAt(p)
         /\ entering' = IF typ = 0 THEN None ELSE xit.ptr

Stop == /\ todo' = Stopped
        /\ UNCHANGED <<xit, entering, lim>>

\* Mutation: &FATALLIMIT is not looked at.
AllowedByOne(fatal) == lim.err > 0

\* The limits allow the program to go on after an error.
Allowed(fatal) == lim.err > 0 /\ (fatal => lim.ftl > 0)

\* FTLERR (fatal), FTLTST (not fatal) and FTERST: an error at p makes the
\* running procedure fail, or ends the program when the limits do not allow it.
Raise(typ, fatal, p) ==
    \/ /\ ~Allowed(fatal)
       /\ err' = [typ |-> typ, fatal |-> err.fatal]
       /\ pos' = p
       /\ Stop
    \/ /\ Allowed(fatal)
       /\ "inside" \in Defects \/ xit.ptr = None \/ ~InExpression
       /\ lim' = [lim EXCEPT !.err = @ - 1, !.ftl = IF fatal THEN @ - 1 ELSE @]
       /\ err' = [typ |-> typ, fatal |-> fatal]
       /\ XITHND(p, typ)
       /\ todo' = Ret(1, Null)

-----------------------------------------------------------------------------
(* Statements: what INTERP reads.                                           *)

\* TRPHND: a trace function is about to be called, at position p.
TRPHND(p) ==
    /\ lim.trace > 0 /\ Len(ctl) + 1 < MaxFrames
    /\ ctl' = Append(ctl, Frame("TRPHND"))
    /\ stk' = Append(stk, [pos |-> p, trace |-> lim.trace - 1])
    /\ pos' = [p EXCEPT !.OCBSCL = Expr, !.OCICL = 0]

\* INIT: the statement's number and failure exit are set, and it is counted;
\* &STCOUNT may be traced.
InitStatement ==
    /\ Reads("INTERP") /\ AtStatement /\ ~AtEnd
    /\ LET p == [Step EXCEPT !.STNOCL = <<pos.OCBSCL, pos.OCICL \div StmtLen>>,
                             !.FRTNCL = pos.OCICL + StmtLen]
       IN  IF lim.st = 0
           THEN /\ pos' = p
                /\ err' = [err EXCEPT !.typ = 22]
                /\ Stop
                /\ UNCHANGED <<stk, ctl>>
           ELSE /\ entering' = None
                /\ \/ /\ pos' = p
                      /\ lim' = [lim EXCEPT !.st = @ - 1]
                      /\ UNCHANGED <<stk, ctl>>
                   \/ /\ TRPHND(p)
                      /\ lim' = [lim EXCEPT !.st = @ - 1, !.trace = 0]
                /\ UNCHANGED <<err, todo, xit>>
    /\ UNCHANGED <<value, defn, args, LVLCL, ended>>

\* An assignment of a string to a variable.
Assign ==
    /\ Reads("INTERP") /\ Inside
    /\ \E v \in Names, x \in Strings : value' = [value EXCEPT ![v] = x]
    /\ pos' = Step
    /\ UNCHANGED <<defn, stk, ctl, args, LVLCL, xit, err, lim, todo, entering, ended>>

\* SETEXIT() of a label, or of the null string.
SETXIT ==
    /\ Reads("INTERP") /\ Inside
    /\ \E l \in Labels \cup {None} : xit' = [xit EXCEPT !.ptr = l]
    /\ pos' = Step
    /\ UNCHANGED <<value, defn, stk, ctl, args, LVLCL, err, lim, todo, entering, ended>>

\* The statement, the argument or the expression fails.
Fails ==
    /\ todo.op = "fetch" /\ Top.proc # "TRPHND"
    /\ Top.proc = "INTERP" => HasCode /\ ~AtStatement
    /\ todo' = Ret(1, Null)
    /\ pos' = Step
    /\ UNCHANGED <<value, defn, stk, ctl, args, LVLCL, xit, err, lim, entering, ended>>

\* A primitive raises an error.
PrimitiveError ==
    /\ todo.op = "fetch" /\ Top.proc # "TRPHND"
    /\ Top.proc = "INTERP" => HasCode /\ Inside
    /\ \E fatal \in BOOLEAN : Raise(1, fatal, Step)
    /\ UNCHANGED <<value, defn, stk, ctl, args, LVLCL, ended>>

-----------------------------------------------------------------------------
(* Gotos, which follow the INIT of their statement.                         *)

InGoto == Reads("INTERP") /\ ~AtStatement
CanContinue == \/ err.fatal
               \/ xit.ocbs = None /\ (lim.ftl = 0 \/ "stray" \in Defects)
               \/ xit.ocbs # None /\ (xit.ocbs # NotCode \/ "undefined" \in Defects)
GotoKeeps == UNCHANGED <<value, defn, stk, ctl, args, LVLCL, ended>>

\* GOTO: the statement ends and the next one starts.
GOTO == /\ InGoto /\ pos' = [pos EXCEPT !.OCICL = StatementEnd]
        /\ GotoKeeps /\ UNCHANGED <<xit, err, lim, todo, entering>>

\* GOTL and GOTG: the label has code, or X of :<X> is code.
GotoLabel ==
    /\ InGoto
    /\ \E l \in Labels : pos' = [pos EXCEPT !.OCBSCL = l, !.OCICL = 0]
    /\ GotoKeeps /\ UNCHANGED <<xit, err, lim, todo, entering>>

\* L_GOTL6, GOTG: the label has none, or X is not code, which OCBSCL has become when
\* the error is found.
GotoUndefined ==
    /\ InGoto
    /\ Allowed(TRUE) /\ xit.ptr = None => "undefined" \in Defects
    /\ \E b \in NoBlocks : Raise(24, TRUE, [Step EXCEPT !.OCBSCL = b])
    /\ GotoKeeps

\* L_GOTLC, GOTG: the expression that gives the label or the code fails (error 19), or
\* gives no name.
GotoFails ==
    /\ InGoto
    /\ \E typ \in {19, 24} : Raise(typ, TRUE, Step)
    /\ GotoKeeps

\* What INTERP reads next when OCBSCL has no code can be anything: the model ends here.
Crash ==
    /\ todo.op = "fetch" /\ Top.proc = "INTERP" /\ ~HasCode
    /\ Stop
    /\ GotoKeeps /\ UNCHANGED <<pos, err>>

\* FRETURN, NRETURN and RETURN are exits 4, 5 and 6 of GOTL.
GotoReturn ==
    /\ InGoto
    /\ \E rc \in {4, 5, 6} : todo' = Ret(rc, Null)
    /\ pos' = Step
    /\ GotoKeeps /\ UNCHANGED <<xit, err, lim, entering>>

\* ABORT ends the program, but not outside a handler.
GotoAbort ==
    /\ InGoto
    /\ \/ xit.ocbs = None /\ Raise(35, TRUE, Step)
       \/ /\ xit.ocbs # None
          /\ err' = [err EXCEPT !.typ = xit.typ] /\ pos' = Step /\ Stop
    /\ GotoKeeps

\* Mutation: CONTINUE resumes where the error was.
ResumesInside(again) == xit.ocic

\* What CONTINUE and SCONTINUE make the failure exit.
ResumesAt(again) == IF again THEN xit.ocic ELSE xit.frtn

\* CONTINUE and SCONTINUE: the block, the statement and the offset of the error
\* come back, and the failure of this goto leads to that offset.  FRTNCL is set
\* before it is known that there is something to continue.
GotoContinue ==
    /\ InGoto /\ CanContinue
    /\ \E again \in IF "resume" \in Defects THEN BOOLEAN ELSE {FALSE} :
          LET p == [Step EXCEPT !.FRTNCL = ResumesAt(again)]
              q == [p EXCEPT !.OCBSCL = xit.ocbs, !.STNOCL = xit.stno]
          IN  CASE err.fatal -> err' = [err EXCEPT !.typ = 39] /\ pos' = Step /\ Stop
                [] ~err.fatal /\ xit.ocbs = None -> Raise(35, TRUE, p)
                [] ~err.fatal /\ xit.ocbs # None /\ err.typ = 0 ->
                      pos' = q /\ Stop /\ UNCHANGED err
                [] OTHER -> /\ pos' = q
                            /\ xit' = [xit EXCEPT !.ocbs = None]
                            /\ err' = [err EXCEPT !.typ = xit.typ]
                            /\ todo' = Ret(1, Null)
                            /\ UNCHANGED <<lim, entering>>
    /\ GotoKeeps

\* END: a handler that is set gets control with error type 0, but at the offset
\* that END has in its own block.
END ==
    /\ Reads("INTERP") /\ AtEnd
    /\ LET p == [pos EXCEPT !.OCBSCL = End, !.OCICL = 1, !.FRTNCL = 0]
       IN  \/ /\ lim.err = 0 \/ xit.ptr = None
              /\ pos' = p /\ Stop
              /\ UNCHANGED <<err, ended>>
           \/ /\ lim.err > 0 /\ xit.ptr # None
              /\ lim' = [lim EXCEPT !.err = @ - 1]
              /\ err' = [err EXCEPT !.typ = 0]
              /\ XITHND(p, 0)
              /\ ended' = TRUE
              /\ UNCHANGED todo
    /\ UNCHANGED <<value, defn, stk, ctl, args, LVLCL>>

-----------------------------------------------------------------------------
(* Calls of the function.                                                   *)

\* What a procedure keeps on the data stack around an INVOKE.
Keeps == IF Top.proc = "DEFFNC" THEN <<args>> ELSE <<>>

\* An element is a call with n arguments: DEFFNC starts to evaluate them.  The
\* null string it pushes first is the slot of the function's name.
Call ==
    /\ todo.op = "fetch"
    /\ Top.proc = "INTERP" => HasCode /\ Inside
    /\ Len(ctl) < MaxFrames
    /\ \E n \in Givens :
          /\ ctl' = Append(ctl, [proc |-> "DEFFNC", base |-> Len(stk \o Keeps)])
          /\ args' = [XCL |-> n, WCL |-> n, YPTR |-> Len(stk \o Keeps)]
          /\ stk' = stk \o Keeps \o <<Null>>
    /\ pos' = Step
    /\ UNCHANGED <<value, defn, LVLCL, xit, err, lim, todo, entering, ended>>

\* Mutation: the counters kept around the argument do not come back.
ArgumentLost(kept, s, x) ==
    /\ stk' = Append(s, x)
    /\ args' = [args EXCEPT !.XCL = @ - 1]
    /\ todo' = [Fetch EXCEPT !.op = IF args.XCL = 1 THEN "enter" ELSE "fetch"]

\* DEFF3: an argument has value x; after the last one the function is entered.
Argument(kept, s, x) ==
    /\ stk' = Append(s, x)
    /\ args' = [kept EXCEPT !.XCL = @ - 1]
    /\ todo' = [Fetch EXCEPT !.op = IF kept.XCL = 1 THEN "enter" ELSE "fetch"]

\* An argument is a variable.
ArgVariable ==
    /\ Reads("DEFFNC")
    /\ \E v \in Names : Argument(args, stk, value[v])
    /\ pos' = Step
    /\ UNCHANGED <<value, defn, ctl, LVLCL, xit, err, lim, entering, ended>>

\* An argument is a call or an expression that has returned a value or, exit 2,
\* the name of a variable: what was kept around it comes back.
ArgReturned ==
    /\ Gets("DEFFNC", {2, 3})
    /\ Argument(stk[Len(stk)], SubSeq(stk, 1, Len(stk) - 1),
                IF todo.rc = 2 THEN value[todo.v] ELSE todo.v)
    /\ UNCHANGED <<value, defn, ctl, pos, LVLCL, xit, err, lim, entering, ended>>

\* DEFINE(), in a statement or in an argument, makes a new definition block.
Redefine ==
    /\ \/ Reads("INTERP") /\ Inside /\ UNCHANGED <<stk, args, todo>>
       \/ Reads("DEFFNC") /\ Argument(args, stk, Null)
    /\ \E d \in Defs : d # defn /\ defn' = d
    /\ pos' = Step
    /\ UNCHANGED <<value, ctl, LVLCL, xit, err, lim, entering, ended>>

\* DEFF4, DEFF5: the arguments of the definition that is current now; missing
\* ones are null and those too many are dropped.
Given(i) == IF i > 1 + Len(defn.args) THEN Null
            ELSE IF i <= 1 + args.WCL THEN stk[args.YPTR + i] ELSE Null

\* DEFF8, DEFF10: names are bound in their order, each to what its slot holds,
\* and the slot takes what the name had: of a name that occurs twice, the
\* later slot takes the value the earlier one has given it.
At(d, v) == {i \in DOMAIN Bound(d) : Bound(d)[i] = v}
Before(i) == {j \in At(defn, Bound(defn)[i]) : j < i}
Old(i) == IF Before(i) = {} THEN value[Bound(defn)[i]] ELSE Given(Max(Before(i)))

BindArguments ==
    /\ args' = Clobbered
    /\ value' = [v \in Names |-> IF At(defn, v) = {} THEN value[v]
                                 ELSE Given(Max(At(defn, v)))]
    /\ UNCHANGED defn

\* DEFFGO: the caller's position is kept, and INTERP runs the function's code.
Enter ==
    /\ todo.op = "enter" /\ defn.entry \in Labels
    /\ BindArguments
    /\ stk' = SubSeq(stk, 1, args.YPTR) \o [i \in DOMAIN Bound(defn) |-> Old(i)]
                \o <<[pos |-> pos, defn |-> defn]>>
    /\ ctl' = Append(ctl, [proc |-> "INTERP", base |-> Len(stk')])
    /\ pos' = [pos EXCEPT !.OCBSCL = defn.entry, !.OCICL = 0]
    /\ LVLCL' = LVLCL + 1
    /\ todo' = Fetch
    /\ UNCHANGED <<xit, err, lim, entering, ended>>

\* UNDFFE: there is no such label, which is found out when the names are bound.
EnterUndefined ==
    /\ todo.op = "enter" /\ defn.entry \notin Labels
    /\ BindArguments
    /\ stk' = SubSeq(stk, 1, Top.base)
    /\ ctl' = SubSeq(ctl, 1, Len(ctl) - 1)
    /\ Raise(9, FALSE, pos)
    /\ UNCHANGED <<LVLCL, ended>>

\* Mutation: the slots are popped in the order of the names.
FirstPopped(d, v) == Max(At(d, v))

\* The slot whose value a name keeps: slots are popped from the last to the first.
LastPopped(d, v) == Min(At(d, v))

\* Mutation: the failure exit of the caller's statement is not kept.
CallerPosButExit(p) == [p EXCEPT !.FRTNCL = pos.FRTNCL]

\* DEFF17: the position at the call, all of it.
CallerPos(p) == p

\* Mutation: only RETURN lowers &FNCLEVEL.
LoweredByReturn == IF todo.rc = 6 THEN LVLCL - 1 ELSE LVLCL

\* DEFFS2.
Lowered == LVLCL - 1

\* DEFFS1 .. DEFF6: INTERP has returned from the function's code by exit 4, 5
\* or 6.  The names get their values back, the last slot first.
Return ==
    /\ Gets("DEFFNC", {4, 5, 6})
    /\ LET kept == stk[Len(stk)]
           slots == Len(stk) - 1 - Len(Bound(kept.defn))
           result == value[kept.defn.name]
       IN  /\ value' = [v \in Names |->
                           IF At(kept.defn, v) = {} THEN value[v]
                           ELSE stk[slots + LastPopped(kept.defn, v)]]
           /\ \/ /\ todo.rc # 5 \/ result # Null
                 /\ todo' = CASE todo.rc = 4 -> Ret(1, Null)
                              [] todo.rc = 5 -> Ret(2, result)
                              [] todo.rc = 6 -> Ret(3, result)
                 /\ pos' = CallerPos(kept.pos)
                 /\ UNCHANGED <<xit, err, lim, entering>>
              \/ /\ todo.rc = 5 /\ result = Null
                 /\ Raise(4, FALSE, CallerPos(kept.pos))
    /\ LVLCL' = Lowered
    /\ stk' = SubSeq(stk, 1, Top.base)
    /\ ctl' = SubSeq(ctl, 1, Len(ctl) - 1)
    /\ UNCHANGED <<defn, args, ended>>

\* The running procedure passes exit rc to its caller.
Leaves(s) == /\ stk' = SubSeq(s, 1, Top.base)
             /\ ctl' = SubSeq(ctl, 1, Len(ctl) - 1)

\* DEFFNC fails because an argument failed.
CallFails ==
    /\ Gets("DEFFNC", {1}) /\ Leaves(stk)
    /\ args' = Clobbered
    /\ UNCHANGED <<value, defn, pos, LVLCL, xit, err, lim, todo, entering, ended>>

-----------------------------------------------------------------------------
(* EVAL() and trace calls.                                                  *)

\* EXPVJ2: the position and the registers are kept, and the one element of the
\* expression's code is read.
EXPVAL ==
    /\ todo.op = "fetch" /\ Top.proc # "TRPHND"
    /\ Top.proc = "INTERP" => HasCode /\ Inside
    /\ Len(ctl) < MaxFrames
    /\ ctl' = Append(ctl, [proc |-> "EXPVAL", base |-> Len(stk \o Keeps)])
    /\ stk' = stk \o Keeps \o <<[pos |-> Step, XCL |-> args.XCL]>>
    /\ pos' = [pos EXCEPT !.OCBSCL = Expr, !.OCICL = 0]
    /\ UNCHANGED <<value, defn, args, LVLCL, xit, err, lim, todo, entering, ended>>

\* EXPV11, EXPV6: the expression is a variable, whose name is returned.
ExprVariable ==
    /\ Reads("EXPVAL")
    /\ \E v \in Names : todo' = Ret(2, v)
    /\ pos' = Step
    /\ UNCHANGED <<value, defn, stk, ctl, args, LVLCL, xit, err, lim, entering, ended>>

\* EXPV7: whatever the exit, the position at the call comes back.
ExprReturn ==
    /\ Gets("EXPVAL", {1, 2, 3})
    /\ LET kept == stk[Len(stk)]
       IN  /\ pos' = [pos EXCEPT !.OCBSCL = kept.pos.OCBSCL, !.OCICL = kept.pos.OCICL]
           /\ args' = [Clobbered EXCEPT !.XCL = kept.XCL]
    /\ Leaves(stk)
    /\ UNCHANGED <<value, defn, LVLCL, xit, err, lim, todo, entering, ended>>

\* TRPHND: the trace function has returned.
TraceReturn ==
    /\ Gets("TRPHND", {1, 2, 3})
    /\ pos' = stk[Len(stk)].pos
    /\ lim' = [lim EXCEPT !.trace = stk[Len(stk)].trace]
    /\ Leaves(stk)
    /\ todo' = Fetch
    /\ UNCHANGED <<value, defn, args, LVLCL, xit, err, entering, ended>>

-----------------------------------------------------------------------------
(* What INTERP does with the exits.                                         *)

\* The element has failed: the statement's failure exit is taken, and may be
\* traced (&STFCOUNT).
StatementFails ==
    /\ Gets("INTERP", {1})
    /\ LET p == [pos EXCEPT !.OCICL = pos.FRTNCL]
       IN  \/ /\ pos' = p
              /\ UNCHANGED <<stk, ctl, lim>>
           \/ /\ TRPHND(p)
              /\ lim' = [lim EXCEPT !.trace = 0]
    /\ todo' = Fetch
    /\ UNCHANGED <<value, defn, args, LVLCL, xit, err, entering, ended>>

StatementGoesOn ==
    /\ Gets("INTERP", {2, 3})
    /\ todo' = Fetch
    /\ UNCHANGED <<value, defn, stk, ctl, pos, args, LVLCL, xit, err, lim, entering, ended>>

\* INTERP returns to DEFFNC; from level zero the program ends (error 18).
InterpReturn ==
    /\ Gets("INTERP", {4, 5, 6})
    /\ \/ /\ Len(ctl) > 1 /\ Leaves(stk)
          /\ UNCHANGED <<xit, err, lim, todo, entering>>
       \/ /\ Len(ctl) = 1 /\ Stop /\ err' = [err EXCEPT !.typ = 18]
          /\ UNCHANGED <<stk, ctl>>
    /\ UNCHANGED <<value, defn, pos, args, LVLCL, ended>>

Next ==
    \/ InitStatement \/ Assign \/ Redefine \/ SETXIT \/ Fails \/ PrimitiveError
    \/ GOTO \/ GotoLabel \/ GotoUndefined \/ GotoFails \/ GotoReturn \/ GotoAbort
    \/ GotoContinue \/ Crash \/ END
    \/ Call \/ ArgVariable \/ ArgReturned \/ Enter \/ EnterUndefined \/ Return
    \/ CallFails \/ EXPVAL \/ ExprVariable \/ ExprReturn \/ TraceReturn
    \/ StatementFails \/ StatementGoesOn \/ InterpReturn

Spec == Init /\ [][Next]_vars

\* The interpreter never waits for anything.
FairSpec == Spec /\ WF_vars(Next)

-----------------------------------------------------------------------------
(* Properties.                                                              *)

Cells == Values \cup [XCL : Int, WCL : Nat, YPTR : Nat]
         \cup [pos : Positions, XCL : Int] \cup [pos : Positions, trace : Nat]
         \cup [pos : Positions, defn : Defs]

TypeOK ==
    /\ value \in [Names -> Values] /\ defn \in Defs
    /\ stk \in Seq(Cells)
    /\ ctl \in Seq([proc : {"INTERP", "DEFFNC", "EXPVAL", "TRPHND"}, base : Nat]) \ {<<>>}
    /\ pos \in Positions /\ args \in [XCL : Int, WCL : Nat, YPTR : Nat]
    /\ LVLCL \in Nat
    /\ xit \in [ptr : Labels \cup {None}, ocbs : Blocks \cup NoBlocks, ocic : Nat,
                frtn : Nat, stno : Blocks \X Nat, typ : Nat]
    /\ err \in [typ : Nat, fatal : BOOLEAN]
    /\ lim \in [st : Nat, err : Nat, ftl : Nat, trace : Nat]
    /\ todo \in [op : {"fetch", "enter", "ret", "stop"}, rc : 1 .. 6, v : Values]
    /\ entering \in Labels \cup {None} /\ ended \in BOOLEAN

\* Procedure i is a call whose code INTERP runs or has just left.
InBody(i) == /\ ctl[i].proc = "DEFFNC"
             /\ IF i < Len(ctl) THEN ctl[i + 1].proc = "INTERP"
                ELSE todo.op = "ret" /\ todo.rc > 3
Bodies == {i \in DOMAIN ctl : InBody(i)}
\* The cell a waiting procedure pushed last.
Kept(i) == stk[IF i < Len(ctl) THEN ctl[i + 1].base ELSE Len(stk)]

\* &FNCLEVEL counts the calls in progress, whatever exits, failures and trapped
\* errors have ended others.
LevelIsDepth == LVLCL = Cardinality(Bodies)

\* Every procedure finds on the data stack what it left there: the slots of a
\* call begin at its base, as many as its definition at the call has names,
\* also when the function is redefined meanwhile; an argument loop has its own
\* counters back, and one slot for every argument it has evaluated.
StackOwned ==
    \A i \in DOMAIN ctl :
        /\ InBody(i) => LET next == IF i < Len(ctl) THEN ctl[i + 1].base ELSE Len(stk)
                        IN  next = ctl[i].base + Len(Bound(Kept(i).defn)) + 1
        /\ (ctl[i].proc = "DEFFNC" /\ ~InBody(i) /\ i < Len(ctl)) =>
              /\ Kept(i).YPTR = ctl[i].base
              /\ ctl[i + 1].base = Kept(i).YPTR + 2 + Kept(i).WCL - Kept(i).XCL
        /\ (i = Len(ctl) /\ ctl[i].proc = "DEFFNC" /\ todo.op \in {"fetch", "enter"}) =>
              /\ args.YPTR = ctl[i].base
              /\ Len(stk) = args.YPTR + 1 + args.WCL - args.XCL

\* The position p is one in the statement its registers name.
Agree(p) == /\ p.STNOCL = <<p.OCBSCL, p.OCICL \div StmtLen>>
            /\ p.FRTNCL = (p.OCICL \div StmtLen + 1) * StmtLen

\* In the middle of a statement the code block, the offset, the failure exit
\* and the number of the statement agree, after any return, failure, trace call
\* or CONTINUE; and so do those a call has kept for its return.
RegistersAgree ==
    ~ended =>
      /\ Reads("INTERP") /\ ~AtStatement => Agree(pos)
      /\ \A i \in Bodies : Kept(i).pos.OCBSCL # Expr => Agree(Kept(i).pos)

\* A statement that fails goes to its own failure exit, and CONTINUE to the one
\* of the statement in error (doc/snobol4func.1.pea:474).
FailureExit ==
    (Gets("INTERP", {1}) /\ ~ended /\ entering = None) =>
      /\ pos.OCBSCL = pos.STNOCL[1]
      /\ pos.FRTNCL = (pos.STNOCL[2] + 1) * StmtLen

\* An error that is trapped passes control to the label given to SETEXIT()
\* (doc/snobol4func.1.pea:452).
HandlerEntered ==
    (Gets("INTERP", {1}) /\ entering # None) =>
      pos.OCBSCL = entering /\ pos.FRTNCL = 0

\* What the k-th call in progress gives back.
BodyAt(k) == CHOOSE i \in Bodies : Cardinality({j \in Bodies : j <= i}) = k
GivesBack(i) == LET d == Kept(i).defn
                IN  [v \in {Bound(d)[j] : j \in DOMAIN Bound(d)} |->
                       stk[ctl[i].base + Min(At(d, v))]]

\* Calls bind dynamically: a return gives the function's name, its arguments and
\* its locals the values they had at the call.
Scoping == INSTANCE Scopes WITH
              scopes <- [k \in 1 .. Cardinality(Bodies) |-> GivesBack(BodyAt(k))]
DynamicScoping == Scoping!Spec

\* &STLIMIT ends every program: no statement is run, and no failure exit taken,
\* for ever without being counted.
Halts == <>(todo.op = "stop")
=============================================================================
