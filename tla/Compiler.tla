------------------------------ MODULE Compiler ------------------------------
(***************************************************************************)
(* The compiler: statements (CMPILE), expressions (EXPR, EXPR1, BINOP),    *)
(* elements (ELEMNT, UNOP, ELEARG) and the object code they become (TREPUB *)
(* and CMPILE).                                                            *)
(*                                                                         *)
(* The program is read token by token; whatever the procedure that reads   *)
(* can find in the text may come next, errors too.  calls is the C stack   *)
(* with what the procedures have pushed: the caller of ELEMNT is on top    *)
(* while an element is read, the caller of EXPR below it.                  *)
(*                                                                         *)
(* Object code is a sequence of blocks of cells; a cell has an operation   *)
(* and a number: of arguments, of the text it comes from, an offset or a   *)
(* block.  An address is a block and an offset in it.                      *)
(***************************************************************************)
EXTENDS Trees

CONSTANTS
    Labels, NoLabel,
    Operators,        \* those the program uses
    Functions,
    PlusOps,          \* what -PLUSOPS may be set to
    OCASIZ,           \* the cells of the first block
    CODELT,           \* and those a full block is extended by
    MaxSize,          \* bound: what the program consists of
    Defects           \* what the program does that the code does not do right:
                      \*   "replace"    a replacement inside another assignment, or an
                      \*                assignment or match inside a replacement
                      \*   "unary"      an item of an item behind a unary operator
                      \*   "unchecked"  statements that are not published, or of a
                      \*                failure goto alone, where a block ends
                      \*   "redefined"  code without a label behind a label that was
                      \*                defined before

ASSUME SizesAssumption == OCASIZ \in Nat /\ CODELT \in Nat /\ OCASIZ > 8 /\ CODELT > 8
ASSUME ArityAssumption == \A f \in DOMAIN Arity : Arity[f] \in Nat
ASSUME DefectsAssumption == Defects \subseteq {"replace", "unary", "unchecked", "redefined"}

VARIABLES
    T,          \* the nodes of the statement's trees
    r,          \* the compiler's descriptors
    calls, todo,
    code,       \* the object code
    SPITCL,
    text,       \* history: the tokens of the expression that is read
    stmt,       \* history: what the statement that is read means
    program,    \* history: the statements before it
    size        \* bound: what has been read

vars == <<T, r, calls, todo, code, SPITCL, text, stmt, program, size>>
reading == <<SPITCL, program>>
NoCode == [block |-> 0, at |-> 0]

Breaks == {"=", ")", ">", ",", ":", "eos"}
\* What a statement means: whether there is one, its expression and its gotos.
Blank == [label |-> NoLabel, ok |-> TRUE, does |-> FALSE, body |-> <<>>,
          success |-> <<>>, failure |-> <<>>]
NoNodes == [EXPRND |-> 0, EXELND |-> 0, EXOPND |-> 0, ELEMND |-> 0, ELEXND |-> 0, XPTR |-> 0,
            SUBJND |-> 0, PATND |-> 0, FGOND |-> 0, BRTYPE |-> "eos", GOGOCL |-> "GOTL"]

Meaning(toks) == Prefix(toks)

Costs(n) == size + n <= MaxSize /\ size' = size + n
Reads(kind, v) == text' = Append(text, <<kind, v>>)

-----------------------------------------------------------------------------
(* The object code.                                                        *)

Empty(n) == [k \in 1 .. n |-> Cell("free", 0)]

\* Cells from offset k from the base on, and whether the block has so many.
PutAll(c, k, cells) ==
    LET at == c.base.at + k
        room == at .. at + Len(cells) - 1
    IN  [c EXCEPT !.mem[c.base.block] = [i \in DOMAIN @ |-> IF i \in room THEN cells[i - at + 1] ELSE @[i]],
                  !.overrun = @ \/ ~ room \subseteq DOMAIN c.mem[c.base.block]]
Put(c, k, cell) == PutAll(c, k, <<cell>>)
EmitAll(c, cells) == [PutAll(c, c.CMOFCL + 1, cells) EXCEPT !.CMOFCL = @ + Len(cells)]
Emit(c, cell) == EmitAll(c, <<cell>>)

\* What is left in a full block: a goto to the next one.
Forward(c, k) ==
    PutAll(c, k, <<Cell("GOTG", 1), Cell("LIT", 1), Cell("block", Len(c.mem) + 1)>>)

\* Mutation: the last cells of a block are for the code itself.
FullLate(c) == c.base.at + c.CMOFCL > c.OCLIM + 5
Full(c) == c.base.at + c.CMOFCL > c.OCLIM

\* TREPU5: the code since the base moves to a new block, and the label of
\* the statement goes with it.
Split(c) ==
    LET new == Len(c.mem) + 1
        block == [k \in 1 .. c.CMOFCL + CODELT |->
                    IF k <= c.CMOFCL THEN c.mem[c.base.block][c.base.at + k] ELSE Cell("free", 0)]
    IN  [Forward(c, 1) EXCEPT !.mem = Append(@, block), !.base = [block |-> new, at |-> 0],
                    !.OCLIM = c.CMOFCL + CODELT - 7,
                    !.attrib = IF c.LPTR = NoLabel THEN @
                               ELSE [@ EXCEPT ![c.LPTR] = [block |-> new, at |-> 0]]]

Publish(c, cell) == LET e == Emit(c, cell) IN IF Full(e) THEN Split(e) ELSE e
TREPUB(c, k) ==
    LET cells == Flat(T, k)
        upto[i \in 0 .. Len(cells)] == IF i = 0 THEN c ELSE Publish(upto[i - 1], cells[i])
    IN  upto[Len(cells)]
\* An operator and its operands.
PublishAll(c, cell, nodes) ==
    LET upto[i \in 0 .. Len(nodes)] == IF i = 0 THEN Emit(c, cell) ELSE TREPUB(upto[i - 1], nodes[i])
    IN  upto[Len(nodes)]

\* The statement's failure exit is here.
FailHere(c) == Put(c, c.FRNCL, Cell("fail", c.CMOFCL))

\* The base moves to a label; BASE makes the interpreter's base follow it.
Rebase(c) ==
    LET e == Emit(c, Cell("BASE", 0))
        here == [e EXCEPT !.base.at = @ + e.CMOFCL]
        block == [Empty(CODELT) EXCEPT ![1] = Cell("BASE", 0)]
        moved == IF here.base.at < c.OCLIM THEN here
                 ELSE [Forward(here, 0) EXCEPT !.mem = Append(@, block), !.OCLIM = CODELT - 7,
                                               !.base = [block |-> Len(c.mem) + 1, at |-> 1]]
    IN  [moved EXCEPT !.CMOFCL = 0, !.BOSCL = 0]

\* Mutation: a label that was there before is still the one that goes with the code.
LabelledLate(c, l) ==
    LET n == Rebase(c)
    IN  [n EXCEPT !.LPTR = IF @ = NoLabel THEN l ELSE @, !.attrib[l] = n.base]
\* The code that follows is the label's.
Labelled(c, l) == LET n == Rebase(c) IN [n EXCEPT !.LPTR = l, !.attrib[l] = n.base]

\* INIT with its failure exit, line and file.
Begun(c) == EmitAll([c EXCEPT !.FRNCL = c.CMOFCL + 2],
                    <<Cell("INIT", 1), Cell("free", 0), Cell("line", 0), Cell("file", 0)>>)

\* CDIAG: ERROR takes the place of what the statement has made.
Diagnosed(c) ==
    EmitAll([c EXCEPT !.CMOFCL = c.BOSCL],
            <<Cell("EROR", Len(program) + 1), Cell("stno", 0), Cell("line", 0), Cell("file", 0)>>)

\* There is room for a statement where it is not tested.
RoomFor(c, n) == "unchecked" \in Defects \/ c.base.at + n <= c.OCLIM

-----------------------------------------------------------------------------
(* Elements: ELEMNT, UNOP and ELEARG.                                      *)

Frame(p, node, close) == [proc |-> p, node |-> node, close |-> close]
Top == Last(calls)
Below == Front(calls)
Calling(p) == calls # <<>> /\ Top.proc = p

\* EXPR is called by p, which has pushed a node and reads on at a comma or close.
EXPR(stack, p, node, close) == stack \o <<Frame(p, node, close), Frame("EXPR", 0, "")>>

Place == Len(text) + 1
Next1 == Len(T) + 1
Chain == IF todo = "element" THEN 0 ELSE r.ELEMND

\* ELEMN1: an element is done, below the operators before it.
Attached(t, k) ==
    /\ T' = IF Chain = 0 THEN t ELSE addson(t, Chain, k)
    /\ r' = [r EXCEPT !.ELEMND = Chain, !.XPTR = IF Chain = 0 THEN k ELSE Root(t, Chain)]
    /\ todo' = "tail"

ReadsElement == todo \in {"element", "unary"}

UNOP(u) ==
    /\ ReadsElement /\ Costs(1) /\ Reads("un", u)
    /\ T' = LET t == Append(T, NewNode(u, 0)) IN IF Chain = 0 THEN t ELSE addson(t, Chain, Next1)
    /\ r' = [r EXCEPT !.ELEMND = Next1]
    /\ todo' = "unary"
    /\ UNCHANGED <<reading, calls, code, stmt>>

ELEVBL ==
    /\ ReadsElement /\ Reads("leaf", "")
    /\ Attached(Append(T, NewNode("x", Place)), Next1)
    /\ UNCHANGED <<reading, calls, code, stmt, size>>

ELEMN5 ==
    /\ ReadsElement /\ Costs(1) /\ Reads("lit", "")
    /\ Attached(addson(T \o <<NewNode("LIT", 0), NewNode("lit", Place)>>, Next1, Next1 + 1), Next1)
    /\ UNCHANGED <<reading, calls, code, stmt>>

ELENST ==
    /\ ReadsElement /\ Costs(1) /\ Reads("(", "")
    /\ calls' = EXPR(calls, "ELENST", Chain, ")") /\ todo' = "element"
    /\ UNCHANGED <<reading, T, r, code, stmt>>

ELEFNC(f) ==
    /\ ReadsElement /\ Costs(1) /\ Reads("f(", f)
    /\ T' = LET t == Append(T, NewNode(f, 0)) IN IF Chain = 0 THEN t ELSE addson(t, Chain, Next1)
    /\ calls' = EXPR(calls, "ELEMN7", Next1, ")") /\ todo' = "element"
    /\ UNCHANGED <<reading, r, code, stmt>>

\* ELEARG: op is applied to the node first of t and what comes until close.
Applied(t, op, chain, first, stack, close) ==
    LET k == Len(t) + 1
        node == Append(t, NewNode(op, 0))
    IN  /\ T' = addson(IF chain = 0 THEN node ELSE addson(node, chain, k), k, first)
        /\ calls' = EXPR(stack, "ELEAR1", first, close) /\ todo' = "element"

ELEARY ==
    /\ ReadsElement /\ Costs(1) /\ Reads("a<", "")
    /\ Applied(Append(T, NewNode("x", Place)), "ITEM", Chain, Next1, calls, ">")
    /\ UNCHANGED <<reading, r, code, stmt>>

\* ELEM10: an item of the element just read, operators before it and all.
ELEAR2 ==
    /\ todo = "tail" /\ Last(text)[1] # "leaf" /\ Costs(1) /\ Reads("<", "")
    /\ ("unary" \notin Defects /\ r.ELEMND # 0) => T[r.XPTR].op # "MNS"
    /\ Applied(T, "ITEM", 0, r.XPTR, calls, ">")
    /\ UNCHANGED <<reading, r, code, stmt>>

Kept(frame) == IF frame.proc = "EXPR" THEN 0 ELSE frame.node

\* ELEMNT returns to the statement, or to EXPR or EXPR1.
ElementEnds ==
    /\ todo = "tail"
    /\ calls' = Below
    /\ IF Top.proc = "CMPSUB"
       THEN r' = [r EXCEPT !.SUBJND = r.XPTR] /\ todo' = "subject"
       ELSE r' = [r EXCEPT !.EXPRND = Kept(Top), !.EXELND = r.XPTR] /\ todo' = "binop"
    /\ UNCHANGED <<reading, T, code, stmt, text, size>>

-----------------------------------------------------------------------------
(* Expressions: EXPR, EXPR1 and EXPR2.                                     *)

\* The break characters that the caller of EXPR goes on after.
Expected(frame) ==
    CASE frame.proc = "ELENST" -> {")"} \cup IF SPITCL # 0 THEN {","} ELSE {}
      [] frame.proc \in {"ELEMN7", "ELEMN2", "ELEAR1"} -> {",", frame.close}
      [] frame.proc \in {"CMPAT1", "CMPFRM", "CMPASP"} -> {":", "eos"}
      [] frame.proc = "CMPAT2" -> {"=", ":", "eos"}
      [] frame.proc \in {"CMPUGO", "CMPSGO", "CMPFGO", "CMPILN"} -> {frame.close}
Nested(frame) == frame.proc \in {"ELENST", "ELEMN7", "ELEMN2", "ELEAR1"}

\* EXPR returns the tree of node k of t, with the break character b.
Returned(t, k, stack, b) ==
    /\ b \in Expected(Last(stack))
    /\ T' = t /\ calls' = stack /\ todo' = "value"
    /\ r' = [r EXCEPT !.XPTR = Root(t, k), !.BRTYPE = b]
    /\ IF b = "," THEN Costs(1) ELSE UNCHANGED size
    /\ IF Nested(Last(stack)) THEN Reads(b, "") ELSE UNCHANGED text

Null(t) == addson(t \o <<NewNode("LIT", 0), NewNode("null", 0)>>, Len(t) + 1, Len(t) + 2)

\* EXPNUL: there is no expression.
EXPNUL(b) ==
    /\ todo = "element" /\ Top.proc = "EXPR"
    /\ Returned(Null(T), Next1, Below, b)
    /\ UNCHANGED <<reading, code, stmt>>

\* EXPR12: nothing is assigned, which is the null string.
EXPR12(b) ==
    /\ todo = "element" /\ Top.proc = "EXPR1"
    /\ SPITCL # 0 /\ T[r.EXOPND].op \in {"SJSR", "ASGN"}
    /\ LET t == Null(T)
       IN  Returned(IF Top.node = 0 THEN t ELSE addsib(t, Top.node, Next1), Next1, Below, b)
    /\ UNCHANGED <<reading, code, stmt>>

EXPR7(b) ==
    /\ todo = "binop"
    /\ Returned(IF r.EXPRND = 0 THEN T ELSE addsib(T, r.EXPRND, r.EXELND), r.EXELND, calls, b)
    /\ UNCHANGED <<reading, code, stmt>>

\* EXPR1: the next element, with the node k kept.
EXPR1(stack, k, op) ==
    /\ r' = [r EXCEPT !.EXPRND = k, !.EXOPND = op]
    /\ calls' = Append(stack, Frame("EXPR1", k, "")) /\ todo' = "element"

\* The operators above the place of the next operand, from the nearest.
Pending == IF r.EXPRND = 0 THEN <<>> ELSE Tail(Above(T, r.EXPRND))
Matches == {i \in DOMAIN Pending : T[Pending[i]].op = "SCAN"}
Replaces(op) == SPITCL # 0 /\ op = "ASGN" /\ Matches # {}
\* The operator is one that the code puts in the wrong place.
Misplaced(op) ==
    /\ "replace" \notin Defects /\ Pending # <<>>
    /\ IF Replaces(op) THEN T[Last(Pending)].op # "SCAN"
       ELSE op \in {"ASGN", "SCAN"} /\ T[Last(Pending)].op = "SJSR"

ReadsOperator(op) ==
    /\ todo = "binop" /\ Costs(1) /\ Reads("op", op)
    /\ op \in {"ASGN", "SCAN"} => SPITCL # 0
    /\ ~ Misplaced(op)

\* EXPR15: an assignment after a match makes it a replacement.
EXPR15 ==
    /\ ReadsOperator("ASGN") /\ Replaces("ASGN")
    /\ LET t == addsib([T EXCEPT ![Pending[Min(Matches)]].op = "SJSR"], r.EXPRND, r.EXELND)
           up == Above(t, r.EXELND)
       IN  T' = t /\ EXPR1(calls, up[Len(up) - 1], Last(up))
    /\ UNCHANGED <<reading, code, stmt>>

\* Mutation: an operator that binds as well comes first.
BindsAll(k, op) == Precedence[T[k].op][1] >= Precedence[op][2]
\* The operator of node k takes its operand before op does.
Binds(k, op) == Precedence[T[k].op][1] > Precedence[op][2]

\* EXPR3, EXPR4: the new operator goes below the first pending one that does not
\* bind more, with what is above the last operand up to there.
EXPR14(op) ==
    /\ ReadsOperator(op) /\ ~ Replaces(op)
    /\ LET t == Append(T, NewNode(op, 0))
           k == Next1
           stop == {i \in DOMAIN Pending : ~ Binds(Pending[i], op)}
       IN  IF r.EXPRND = 0
           THEN T' = addson(t, k, r.EXELND) /\ EXPR1(calls, r.EXELND, k)
           ELSE IF 1 \in stop
           THEN T' = addson(addsib(t, r.EXPRND, k), k, r.EXELND) /\ EXPR1(calls, r.EXELND, k)
           ELSE LET full == addsib(t, r.EXPRND, r.EXELND)
                    left == IF stop = {} THEN Last(Pending) ELSE Pending[Min(stop) - 1]
                IN  /\ T' = IF stop = {} THEN addson(full, k, left) ELSE insert(full, left, k)
                    /\ EXPR1(calls, left, k)
    /\ UNCHANGED <<reading, code, stmt>>

-----------------------------------------------------------------------------
(* Callers of EXPR inside an element.                                      *)

ELENST1 ==
    /\ todo = "value" /\ Calling("ELENST")
    /\ IF r.BRTYPE = ")"
       THEN /\ LET chain == Top.node
               IN  /\ T' = IF chain = 0 THEN T ELSE addson(T, chain, r.XPTR)
                   /\ r' = [r EXCEPT !.ELEMND = chain,
                                     !.XPTR = IF chain = 0 THEN r.XPTR ELSE Root(T, chain)]
            /\ calls' = Below /\ todo' = "tail"
       ELSE Applied(T, "CMA", Top.node, r.XPTR, Below, ")") /\ UNCHANGED r
    /\ UNCHANGED <<reading, code, stmt, text, size>>

\* ELEMN4: a function of a fixed number of arguments gets null strings for the last.
Padded(t, f, last) ==
    LET more(s) == [t |-> addsib(Null(s.t), s.last, Len(s.t) + 1), last |-> Len(s.t) + 1]
        lacks == Lacks(t[f].op, t[f].n)
        padded[i \in 0 .. lacks] == IF i = 0 THEN [t |-> t, last |-> last] ELSE more(padded[i - 1])
    IN  padded[lacks].t

ELEMN2 ==
    /\ todo = "value" /\ Top.proc \in {"ELEMN7", "ELEMN2"}
    /\ LET t == IF Top.proc = "ELEMN7" THEN addson(T, Top.node, r.XPTR) ELSE addsib(T, Top.node, r.XPTR)
       IN  IF r.BRTYPE = ","
           THEN /\ T' = t /\ calls' = EXPR(Below, "ELEMN2", r.XPTR, ")")
                /\ todo' = "element" /\ UNCHANGED r
           ELSE /\ T' = Padded(t, t[r.XPTR].father, r.XPTR) /\ calls' = Below /\ todo' = "tail"
                /\ r' = [r EXCEPT !.ELEMND = r.XPTR, !.XPTR = Root(t, r.XPTR)]
    /\ UNCHANGED <<reading, code, stmt, text, size>>

ELEAR1 ==
    /\ todo = "value" /\ Calling("ELEAR1")
    /\ T' = addsib(T, Top.node, r.XPTR)
    /\ IF r.BRTYPE = ","
       THEN calls' = EXPR(Below, "ELEAR1", r.XPTR, Top.close) /\ todo' = "element" /\ UNCHANGED r
       ELSE /\ calls' = Below /\ todo' = "tail"
            /\ r' = [r EXCEPT !.ELEMND = r.XPTR, !.XPTR = Root(T, Top.node)]
    /\ UNCHANGED <<reading, code, stmt, text, size>>

-----------------------------------------------------------------------------
(* Statements: CMPILE.                                                     *)

Done(s) ==
    /\ program' = Append(program, s) /\ stmt' = Blank
    /\ T' = <<>> /\ r' = NoNodes /\ calls' = <<>> /\ todo' = "label" /\ text' = <<>>
NextStatement(c, s) == code' = c /\ Done(s)

\* The label of the base has gone on to other code, which a split would move it to.
Stale == code.LPTR # NoLabel /\ code.attrib[code.LPTR] # code.base

CMPILA ==
    /\ todo = "label" /\ ("redefined" \in Defects \/ ~ Stale)
    /\ code' = [code EXCEPT !.BOSCL = code.CMOFCL] /\ todo' = "body"
    /\ UNCHANGED <<reading, T, r, calls, stmt, text, size>>

CMPILC(l) ==
    /\ todo = "label" /\ code.attrib[l] = NoCode /\ Costs(1)
    /\ code' = Labelled(code, l)
    /\ stmt' = [stmt EXCEPT !.label = l] /\ todo' = "body"
    /\ UNCHANGED <<reading, T, r, calls, text>>

\* CERR2: the label has been defined before.
CERR2(l) ==
    /\ todo = "label" /\ code.attrib[l] # NoCode /\ Costs(2)
    /\ LET c == [Rebase(code) EXCEPT !.LPTR = l]
       IN  RoomFor(c, 4) /\ NextStatement(Diagnosed(c), [stmt EXCEPT !.ok = FALSE])
    /\ UNCHANGED SPITCL

\* The END statement.
XLAEND ==
    /\ todo = "label" /\ todo' = "stop"
    /\ code' = Emit(Rebase(code), Cell("END", 0))
    /\ UNCHANGED <<reading, T, r, calls, stmt, text, size>>

\* A statement of a label or nothing.
EmptyStatement ==
    /\ todo = "body" /\ Costs(1) /\ NextStatement(code, stmt) /\ UNCHANGED SPITCL

CMPSUB ==
    /\ todo = "body" /\ Costs(1)
    /\ code' = Begun(code) /\ calls' = <<Frame("CMPSUB", 0, "")>> /\ todo' = "unary"
    /\ stmt' = [stmt EXCEPT !.does = TRUE]
    /\ UNCHANGED <<reading, T, r, text>>

\* A statement of gotos alone.
CMPGO0 ==
    /\ todo = "body" /\ Costs(1) /\ code' = Begun(code) /\ RoomFor(code, code.CMOFCL + 4)
    /\ stmt' = [stmt EXCEPT !.does = TRUE] /\ todo' = "goto"
    /\ UNCHANGED <<reading, T, r, calls, text>>

\* After the subject: SPITBOL operators make the match an expression.
CMPATN ==
    /\ todo = "subject" /\ Costs(1) /\ Reads("op", "SCAN")
    /\ IF SPITCL # 0
       THEN /\ T' = addson(Append(T, NewNode("SCAN", 0)), Next1, r.SUBJND)
            /\ EXPR1(<<Frame("CMPAT1", 0, "")>>, r.SUBJND, Next1)
       ELSE /\ calls' = EXPR(<<>>, "CMPAT2", 0, "") /\ todo' = "unary"
            /\ r' = [r EXCEPT !.ELEMND = 0] /\ UNCHANGED T
    /\ UNCHANGED <<reading, code, stmt>>

CMPFRM ==
    /\ todo = "subject" /\ Costs(1) /\ Reads("op", "ASGN")
    /\ calls' = EXPR(<<>>, "CMPFRM", 0, "") /\ todo' = "element"
    /\ UNCHANGED <<reading, T, r, code, stmt>>

\* CMPNGO: the statement ends without a goto; else its gotos are next.
GotosNext(c, b) ==
    LET s == [stmt EXCEPT !.body = Meaning(text)]
    IN  /\ code' = IF b = "eos" THEN FailHere(c) ELSE c
        /\ IF b = "eos" THEN Done(s) /\ UNCHANGED <<SPITCL, size>>
           ELSE /\ stmt' = s /\ calls' = <<>> /\ todo' = "goto" /\ text' = <<>>
                /\ UNCHANGED <<reading, T, r, size>>

CMPSB1(b) ==
    /\ todo = "subject" /\ b \in {":", "eos"}
    /\ GotosNext(TREPUB(code, r.SUBJND), b)

CMPAT1 ==
    /\ todo = "value" /\ Calling("CMPAT1")
    /\ GotosNext(TREPUB(code, r.XPTR), r.BRTYPE)

CMPAT2 ==
    /\ todo = "value" /\ Calling("CMPAT2")
    /\ IF r.BRTYPE = "="
       THEN /\ r' = [r EXCEPT !.PATND = r.XPTR] /\ Reads("op", "ASGN") /\ Costs(1)
            /\ calls' = EXPR(<<>>, "CMPASP", 0, "") /\ todo' = "element"
            /\ UNCHANGED <<reading, T, code, stmt>>
       ELSE GotosNext(PublishAll(code, Cell("SCAN", 2), <<r.SUBJND, r.XPTR>>), r.BRTYPE)

CMPASP ==
    /\ todo = "value" /\ Calling("CMPASP")
    /\ GotosNext(PublishAll(code, Cell("SJSR", 3), <<r.SUBJND, r.PATND, r.XPTR>>), r.BRTYPE)

CMPFT ==
    /\ todo = "value" /\ Calling("CMPFRM")
    /\ GotosNext(PublishAll(code, Cell("ASGN", 2), <<r.SUBJND, r.XPTR>>), r.BRTYPE)

-----------------------------------------------------------------------------
(* Gotos.  A goto in brackets is a direct one.                             *)

Bracket(go) == IF go = "GOTL" THEN ")" ELSE ">"
Operation == IF Top.close = ")" THEN "GOTL" ELSE "GOTG"
Goto == <<Cell(Operation, 1)>> \o Meaning(text)
ReadsGoto(p, go) ==
    /\ Costs(1) /\ calls' = EXPR(<<>>, p, 0, Bracket(go)) /\ todo' = "element"

CMPNGO ==
    /\ todo = "goto" /\ NextStatement(FailHere(code), stmt) /\ UNCHANGED <<SPITCL, size>>

\* CMPGG: a goto of either kind, for success or for failure.
CMPGG(p, go) ==
    /\ todo = "goto" /\ ReadsGoto(p, go)
    /\ r' = [r EXCEPT !.GOGOCL = go]
    /\ code' = IF p = "CMPUGO" THEN FailHere(code) ELSE code
    /\ UNCHANGED <<reading, T, stmt, text>>

CMPUGO ==
    /\ todo = "value" /\ Calling("CMPUGO")
    /\ code' = PublishAll(code, Cell(r.GOGOCL, 1), <<r.XPTR>>)
    /\ stmt' = [stmt EXCEPT !.failure = Goto, !.success = IF @ = <<>> THEN Goto ELSE @]
    /\ todo' = "end" /\ calls' = <<>> /\ text' = <<>>
    /\ UNCHANGED <<reading, T, r, size>>

EndOfGoto == todo = "end" /\ NextStatement(code, stmt) /\ UNCHANGED <<SPITCL, size>>

CMPSGO ==
    /\ todo = "value" /\ Calling("CMPSGO")
    /\ code' = PublishAll(code, Cell(r.GOGOCL, 1), <<r.XPTR>>)
    /\ stmt' = [stmt EXCEPT !.success = Goto]
    /\ todo' = "success" /\ calls' = <<>> /\ text' = <<>>
    /\ UNCHANGED <<reading, T, r, size>>

\* After a success goto: the end, or a failure goto.
CMPSGO1 ==
    /\ todo = "success" /\ NextStatement(FailHere(code), stmt) /\ UNCHANGED <<SPITCL, size>>
CMPILL(go) ==
    /\ todo = "success" /\ ReadsGoto("CMPUGO", go)
    /\ r' = [r EXCEPT !.GOGOCL = go] /\ code' = FailHere(code)
    /\ UNCHANGED <<reading, T, stmt, text>>

CMPFGO ==
    /\ todo = "value" /\ Calling("CMPFGO")
    /\ r' = [r EXCEPT !.FGOND = r.XPTR]
    /\ stmt' = [stmt EXCEPT !.failure = Goto]
    /\ todo' = "failure" /\ calls' = <<>> /\ text' = <<>>
    /\ UNCHANGED <<reading, T, code, size>>

\* Mutation: success goes to the failure goto.
SuccessExitAt(c) == c.SRNCL
SuccessExit(c) == c.CMOFCL

\* After a failure goto: the end, where success passes it by, or a success goto.
CMPFGO1 ==
    /\ todo = "failure"
    /\ LET c == EmitAll(code, <<Cell("GOTO", 1), Cell("free", 0)>>)
           f == FailHere([c EXCEPT !.SRNCL = c.CMOFCL])
           g == PublishAll(f, Cell(r.GOGOCL, 1), <<r.FGOND>>)
       IN  NextStatement(Put(g, g.SRNCL, Cell("at", SuccessExit(g))), stmt)
    /\ UNCHANGED <<SPITCL, size>>
CMPILM(go) ==
    /\ todo = "failure" /\ ReadsGoto("CMPILN", go)
    /\ UNCHANGED <<reading, T, r, code, stmt, text>>

CMPILN ==
    /\ todo = "value" /\ Calling("CMPILN")
    /\ LET s == PublishAll(code, Cell(Operation, 1), <<r.XPTR>>)
       IN  NextStatement(PublishAll(FailHere(s), Cell(r.GOGOCL, 1), <<r.FGOND>>),
                         [stmt EXCEPT !.success = Goto])
    /\ UNCHANGED <<SPITCL, size>>

\* CDIAG: what comes next in the text is wrong.
CDIAG ==
    /\ \/ todo \in {"body", "element", "unary", "tail", "binop", "subject", "goto", "end",
                    "success", "failure"}
       \/ todo = "value" /\ Calling("CMPILN")
    /\ Costs(1) /\ RoomFor(code, code.BOSCL + 4)
    /\ NextStatement(Diagnosed(code), [Blank EXCEPT !.label = stmt.label, !.ok = FALSE])
    /\ UNCHANGED SPITCL

-----------------------------------------------------------------------------
Init ==
    /\ T = <<>> /\ r = NoNodes /\ calls = <<>> /\ todo = "label"
    /\ code = [mem |-> <<Empty(OCASIZ)>>, base |-> [block |-> 1, at |-> 0], CMOFCL |-> 0, BOSCL |-> 0,
               FRNCL |-> 0, SRNCL |-> 0, OCLIM |-> OCASIZ - 7, LPTR |-> NoLabel,
               attrib |-> [l \in Labels |-> NoCode], overrun |-> FALSE]
    /\ SPITCL \in PlusOps
    /\ text = <<>> /\ stmt = Blank /\ program = <<>> /\ size = 0

Next ==
    \/ UNOP("MNS") \/ ELEVBL \/ ELEMN5 \/ ELENST \/ ELEARY \/ ELEAR2 \/ ElementEnds
    \/ \E f \in Functions : ELEFNC(f)
    \/ \E b \in Breaks : EXPNUL(b) \/ EXPR12(b) \/ EXPR7(b) \/ CMPSB1(b)
    \/ EXPR15
    \/ \E op \in Operators : EXPR14(op)
    \/ ELENST1 \/ ELEMN2 \/ ELEAR1
    \/ CMPILA \/ XLAEND \/ EmptyStatement \/ CMPSUB \/ CMPGO0
    \/ \E l \in Labels : CMPILC(l) \/ CERR2(l)
    \/ CMPATN \/ CMPFRM \/ CMPAT1 \/ CMPAT2 \/ CMPASP \/ CMPFT
    \/ CMPNGO \/ CMPUGO \/ EndOfGoto \/ CMPSGO \/ CMPSGO1 \/ CMPFGO \/ CMPFGO1 \/ CMPILN
    \/ \E go \in {"GOTL", "GOTG"} :
          \/ \E p \in {"CMPUGO", "CMPSGO", "CMPFGO"} : CMPGG(p, go)
          \/ CMPILL(go) \/ CMPILM(go)
    \/ CDIAG

Spec == Init /\ [][Next]_vars

-----------------------------------------------------------------------------
\* The types of the variables; every link of a tree, and every node that the compiler
\* keeps, leads to a node of the statement's trees.
Ops == Operators \cup Functions
         \cup {"ASGN", "SCAN", "SJSR", "MNS", "ITEM", "CMA", "LIT", "lit", "null", "x"}
Kinds == {"un", "leaf", "lit", "(", "f(", "a<", "<", "op"} \cup Breaks
Procedures == {"CMPSUB", "EXPR", "EXPR1", "ELENST", "ELEMN7", "ELEMN2", "ELEAR1", "CMPAT1", "CMPAT2",
               "CMPFRM", "CMPASP", "CMPUGO", "CMPSGO", "CMPFGO", "CMPILN"}
Nodes(n) == [op : Ops, n : Nat, father : 0 .. n, lson : 0 .. n, rsib : 0 .. n]
Points == {"label", "body", "element", "unary", "tail", "binop", "value", "subject", "goto", "end",
           "success", "failure", "stop"}
Texts == Seq(Kinds \X (Ops \cup {""}))
Brackets == {"", ")", ">"}
Frames(n) == [proc : Procedures, node : 0 .. n, close : Brackets]
Registers(n) == [EXPRND : 0 .. n, EXELND : 0 .. n, EXOPND : 0 .. n, ELEMND : 0 .. n, ELEXND : 0 .. n,
                 XPTR : 0 .. n, SUBJND : 0 .. n, PATND : 0 .. n, FGOND : 0 .. n,
                 BRTYPE : Breaks, GOGOCL : {"GOTL", "GOTG"}]
Cells == [op : Ops \cup {"INIT", "EROR", "END", "BASE", "GOTO", "GOTL", "GOTG", "stno", "line", "file",
                        "fail", "at", "block", "free"}, n : Nat]
Address == [block : Nat, at : Nat]
ObjectCode == [mem : Seq(Seq(Cells)), base : Address, CMOFCL : Nat, BOSCL : Nat,
               FRNCL : Nat, SRNCL : Nat, OCLIM : Nat, LPTR : Labels \cup {NoLabel},
               attrib : [Labels -> Address], overrun : BOOLEAN]
TypeOK ==
    /\ T \in Seq(Nodes(Len(T))) /\ r \in Registers(Len(T)) /\ calls \in Seq(Frames(Len(T)))
    /\ todo \in Points /\ text \in Texts /\ code \in ObjectCode /\ SPITCL \in PlusOps

\* A node that is to get a brother is below another one, whatever has been put between
\* them since: addsib counts the brother at its FATHER (addsib, EXPR1, ELEARG, ELEMN7).
Hangs(k) == k # 0 /\ T[k].father # 0
BrothersHang ==
    /\ \A i \in DOMAIN calls : calls[i].proc \in {"EXPR1", "ELEMN2", "ELEAR1"} => Hangs(calls[i].node)
    /\ todo = "binop" /\ r.EXPRND # 0 => Hangs(r.EXPRND)

\* Every cell of object code is written inside the block that was allocated for it,
\* though the limit is tested only where trees are published (TREPUB, CMPILE, OCLIM).
WithinBlocks == ~ code.overrun

\* The cells of the tree, or trees, that have just been read for the statement.
Parsed ==
    CASE Calling("CMPFRM") -> <<Cell("ASGN", 2)>> \o Flat(T, r.SUBJND) \o Flat(T, r.XPTR)
      [] Calling("CMPASP") ->
           <<Cell("SJSR", 3)>> \o Flat(T, r.SUBJND) \o Flat(T, r.PATND) \o Flat(T, r.XPTR)
      [] Calling("CMPAT2") -> <<Cell("SCAN", 2)>> \o Flat(T, r.SUBJND) \o Flat(T, r.XPTR)
      [] OTHER -> Flat(T, r.XPTR)

\* What is read becomes a tree of the operators' precedences and associativities, every
\* operand and argument in its place, however deep the brackets, operators and items
\* that are open when it is read (ELEMNT, ELEARG, EXPR, EXPR1, EXPR2).
TreeRight ==
    todo = "value" /\ ~ Nested(Top) /\ (Calling("CMPAT2") => r.BRTYPE # "=")
        => Parsed = Meaning(text)

-----------------------------------------------------------------------------
(* What the interpreter finds in the object code (INTERP, INIT, GOTO, BASE, GOTG): *)
(* a place is a block, the base in it and the offset in the block.         *)

CellsAt(p, n) == IF p.at + n <= Len(code.mem[p.block])
                 THEN SubSeq(code.mem[p.block], p.at + 1, p.at + n) ELSE <<>>
Fetches(p, cells) == CellsAt(p, Len(cells)) = cells
On(p, n) == [p EXCEPT !.at = @ + n]

\* Where the code goes on: behind BASE, and in the block that a full one was left for.
Settled(place) ==
    LET S[p \in [block : Nat, base : Nat, at : Nat]] ==
          LET next == CellsAt(p, 3)
          IN  IF Fetches(p, <<Cell("BASE", 0)>>)
              THEN S[[p EXCEPT !.base = p.at + 1, !.at = p.at + 1]]
              ELSE IF next # <<>> /\ next[1].op = "GOTG" /\ next[3].op = "block"
              THEN S[[block |-> next[3].n, base |-> 0, at |-> 0]]
              ELSE p
    IN  S[place]

\* Where the statement at p goes on when its expression succeeds, behind the body, and
\* when it fails, at the offset that INIT keeps.
Exits(s, p) ==
    LET q == On(p, 4 + Len(s.body))
        two == CellsAt(q, 2)
    IN  [success |-> IF two # <<>> /\ two[1] = Cell("GOTO", 1) THEN [q EXCEPT !.at = q.base + two[2].n] ELSE q,
         failure |-> [p EXCEPT !.at = p.base + CellsAt(On(p, 1), 1)[1].n]]

\* The statement's code from p ends where both of its exits have been passed.
EndAfter(s, exits) ==
    [exits.success EXCEPT !.at = Max({exits.success.at + Len(s.success), exits.failure.at + Len(s.failure)})]
EndOf(s, p) == IF ~ s.ok THEN On(p, 4) ELSE IF s.does THEN EndAfter(s, Exits(s, p)) ELSE p

\* Both exits do the gotos, or are the end where there is none.
Leaves(s, exits) ==
    \A e \in {"success", "failure"} :
        IF s[e] = <<>> THEN exits[e] = EndAfter(s, exits) ELSE Fetches(exits[e], s[e])

\* The code at p does what statement i is to do and goes on where it is to go.
Means(i, p) ==
    LET s == program[i]
    IN  IF ~ s.ok THEN Fetches(p, <<Cell("EROR", i), Cell("stno", 0), Cell("line", 0), Cell("file", 0)>>)
        ELSE s.does => /\ Fetches(p, <<Cell("INIT", 1)>>)
                       /\ Fetches(On(p, 2), <<Cell("line", 0), Cell("file", 0)>> \o s.body)
                       /\ CellsAt(On(p, 1), 1)[1].op = "fail"
                       /\ Leaves(s, Exits(s, p))

\* Where the statements start, and where the code ends.
Starts ==
    FoldLeft(LAMBDA ps, s : Append(ps, Settled(EndOf(s, Last(ps)))),
             <<Settled([block |-> 1, base |-> 0, at |-> 0])>>, program)

\* The interpreter, from the first cell on, finds each statement as it was written: its
\* expression, its gotos, and the next statement where there are none, whatever blocks
\* were full and left in the middle of it, and an error where one was (TREPUB, CMPILE).
CodeRight ==
    todo = "stop" =>
        LET starts == Starts
        IN  /\ \A i \in DOMAIN program : Means(i, starts[i])
            /\ Fetches(Last(starts), <<Cell("END", 0)>>)

\* A goto to a label enters the statement that was given it, wherever that has been
\* moved to since, and a second definition that is an error does not change it
\* (CMPILE, TREPU5).
LabelsRight ==
    todo = "stop" =>
        LET starts == Starts
        IN  \A i \in DOMAIN program : program[i].label # NoLabel =>
                LET a == code.attrib[program[i].label]
                IN  Settled([block |-> a.block, base |-> a.at, at |-> a.at]) = starts[i]
=============================================================================
