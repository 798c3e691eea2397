------------------------------ MODULE IOUnits ------------------------------
(***************************************************************************)
(* The unit table of CSNOBOL4's I/O runtime (lib/io.c), and the part of    *)
(* the compiler that shares it (INCSTK in v311.sil).                       *)
(*                                                                         *)
(* A unit holds two pointers into a singly linked list of heap-allocated   *)
(* `struct file`: head, where REWIND goes back to, and curr, the file that *)
(* is being read.  INPUT() and OUTPUT() replace the list, reading consumes *)
(* it, -INCLUDE pushes a file in front of curr (but not of head), and the  *)
(* end of compilation frees the source files that were read.  Nothing      *)
(* counts references, so the memory is sound only if every operation       *)
(* leaves curr, head and the links in step.                                *)
(*                                                                         *)
(* File contents are abstracted: a read yields a line, an error or end of  *)
(* file by choice.  The loop of io_read is one action per turn; every      *)
(* other operation runs to its return in one action, since the             *)
(* interpreter is single threaded.                                         *)
(***************************************************************************)
EXTENDS Naturals, FiniteSets, Sequences

CONSTANTS
  Units,        \* the unit numbers the program uses
  UNITI,        \* the unit of the compiler and of INPUT (5)
  UNITO,        \* the unit of OUTPUT (6)
  Files,        \* the addresses malloc may return for a struct file
  NULL,         \* the null pointer
  Names,        \* names of include files, without trailing spaces
  Sources,      \* the most source files on the command line
  Rflag,        \* -r: INPUT continues after the END statement
  Lflag,        \* -l: a listing was asked for
  OptionErrors, \* whether an option string may hold '-' (io_options fails)
  EndInInclude, \* whether the END statement may stand in an include file
  MallocFails   \* whether malloc may fail at the end of compilation

ASSUME UnitAssumption == UNITI \in Units /\ UNITO \in Units /\ UNITI # UNITO
ASSUME NullAssumption == NULL \notin Files /\ NULL \notin Units
ASSUME FlagAssumption ==
  {Rflag, Lflag, OptionErrors, EndInInclude, MallocFails} \subseteq BOOLEAN
ASSUME SourcesAssumption == Sources \in Nat \ {0}

VARIABLES
  live,      \* the struct files that are allocated
  next,      \* fp->next
  open,      \* the files with fp->iop # NULL
  incl,      \* the files with FL_INCLUDE in fp->flags
  curr,      \* units[u].curr
  head,      \* units[u].head
  offset,    \* units[u].offset: "start" or "end" (just after END)
  includes,  \* names on the list of files already included
  incdepth,  \* depth of the compiler's INCSTK
  phase,     \* "compile", "run", "done"
  reading,   \* the unit whose io_read is in progress, or NULL
  fault      \* "none", "freed" (use of a freed file), "nostream" (iop NULL)

heap  == <<live, next, open, incl>>
units == <<curr, head, offset>>
comp  == <<includes, incdepth>>
vars  == <<heap, units, comp, phase, reading, fault>>

Ptr == Files \cup {NULL}

(***************************************************************************)
(* The files a list starting at f runs through: the least set that holds f *)
(* and is closed under the links nx.                                       *)
(***************************************************************************)
Linked(nx, S) == \A g \in S : nx[g] \in S \cup {NULL}
Chain(nx, f)  ==
  {g \in Files : \A S \in SUBSET Files :
                   f \in S \cup {NULL} /\ Linked(nx, S) => g \in S}

Unread(u) == Chain(next, curr[u])
Kept(u)   == Chain(next, head[u])
Owned(u)  == Unread(u) \cup Kept(u)

Fresh == Files \ live

-----------------------------------------------------------------------------
(* After io_init: the command line's files (and preloads) are linked on    *)
(* UNITI, the first is open unless it is the implicit "-", and stdout is   *)
(* attached to UNITO unless a listing goes there.                          *)
LinkOf(n, s, f) ==
  IF \E i \in 1..n-1 : s[i] = f
  THEN s[1 + (CHOOSE i \in 1..n-1 : s[i] = f)] ELSE NULL

io_init(n, s, out) ==
  /\ \A i, j \in 1..n : s[i] = s[j] => i = j
  /\ \A i \in 1..n : s[i] # out
  /\ live = {s[i] : i \in 1..n} \cup {out}
  /\ next = [f \in Files |-> LinkOf(n, s, f)]
  /\ open \in {{out}, {out, s[1]}}
  /\ curr = [u \in Units |-> IF u = UNITI THEN s[1]
                             ELSE IF u = UNITO THEN out ELSE NULL]

Init ==
  /\ \E n \in 1..Sources : \E s \in [1..n -> Files] : \E out \in Files :
       io_init(n, s, out)
  /\ head = curr
  /\ offset = [u \in Units |-> "start"]
  /\ incl = {} /\ includes = {} /\ incdepth = 0
  /\ phase = "compile" /\ reading = NULL /\ fault = "none"

(* What a step did wrong: it used or freed a struct file that was already  *)
(* freed, or called through a null fp->iop.  Both are undefined; the model *)
(* takes no step after one.                                                *)
Sound(alive, stream) ==
  fault' = IF ~ alive THEN "freed" ELSE IF ~ stream THEN "nostream" ELSE "none"

-----------------------------------------------------------------------------
(* The heap after freeing `gone`, closing `closed` and allocating `fresh`, *)
(* which are open and linked to nothing.  (The link of a freed file is     *)
(* forgotten: whoever reads it has already used a freed file.)             *)
Heap(gone, closed, fresh) ==
  /\ live' = (live \ gone) \cup fresh
  /\ open' = (open \ closed) \cup fresh
  /\ incl' = incl \ gone
  /\ next' = [f \in Files |-> IF f \in gone \cup fresh THEN NULL ELSE next[f]]

(* io_closeall, on each unit of U: io_close runs down the unread files,    *)
(* closes each and frees the include files; then the list from head is     *)
(* freed.                                                                  *)
\* Mutation: the include files ahead of curr are not freed.
FreedWithoutIncludes(U) == UNION {Kept(u) : u \in U}

Freed(U) == UNION {Kept(u) \cup (Unread(u) \cap incl) : u \in U}
Closed(U) == UNION {Unread(u) : u \in U}
CloseSound(U) == \A u \in U : /\ Owned(u) \subseteq live
                              /\ Kept(u) \cap Unread(u) \cap incl = {}

Replace(U, fresh) ==
  /\ Sound(CloseSound(U), TRUE)
  /\ Heap(Freed(U), Closed(U), fresh)

\* Mutation: head is left behind.
SetCurrOnly(u, f) ==
  /\ curr' = [curr EXCEPT ![u] = f]
  /\ UNCHANGED head

SetList(u, f) ==
  /\ curr' = [curr EXCEPT ![u] = f]
  /\ head' = [head EXCEPT ![u] = f]

(* io_setfile, after io_newfile: the unit's list becomes the one file f.   *)
io_setfile(u, f) ==
  /\ Replace({u}, {f})
  /\ SetList(u, f)
  /\ offset' = [offset EXCEPT ![u] = "start"]

(* io_openi and io_openo with a file name: the new file is opened first,   *)
(* then it replaces the list; up->offset is not assigned.                  *)
OpenNamed(u, f) ==
  /\ Replace({u}, {f})
  /\ SetList(u, f)
  /\ UNCHANGED offset

(* Without a name fp is up->curr itself; when io_options rejects the       *)
(* options, free(fp) releases the file the unit still points to.           *)
RejectOptions(u) ==
  /\ OptionErrors /\ curr[u] # NULL
  /\ Sound(curr[u] \in live, TRUE)
  /\ live' = live \ {curr[u]}
  /\ UNCHANGED <<next, open, incl, units>>

Running == reading = NULL /\ fault = "none" /\ phase = "run"
Compiling == reading = NULL /\ fault = "none" /\ phase = "compile"

(* The entry points of INPUT() and OUTPUT().  Every other path returns     *)
(* with nothing changed: malloc or the open failed, bad options on a new   *)
(* file (it is freed), options accepted for the current file.              *)
io_openi(u) ==
  /\ Running
  /\ RejectOptions(u) \/ \E f \in Fresh : OpenNamed(u, f)
  /\ UNCHANGED <<comp, phase, reading>>

io_openo(u) ==
  /\ Running
  /\ RejectOptions(u) \/ \E f \in Fresh : OpenNamed(u, f)
  /\ UNCHANGED <<comp, phase, reading>>

io_endfile(u) ==
  /\ Running
  /\ curr[u] # NULL \/ head[u] # NULL
  /\ Replace({u}, {})
  /\ SetList(u, NULL)
  /\ UNCHANGED <<offset, comp, phase, reading>>

(* io_mkfile, by which loaded modules attach a stream they opened.         *)
io_mkfile(u) ==
  /\ Running
  /\ \E f \in Fresh : io_setfile(u, f)
  /\ UNCHANGED <<comp, phase, reading>>

-----------------------------------------------------------------------------
(* io_close: close the current file of u and advance; an include file is   *)
(* freed, any other stays on the list for REWIND.                          *)
\* Mutation: the flag is not tested, so that source files are freed too.
PopsAny(u) == {curr[u]}

Popped(u) == {curr[u]} \cap incl

io_close(u) ==
  /\ live' = live \ Popped(u)
  /\ incl' = incl \ Popped(u)
  /\ next' = [f \in Files |-> IF f \in Popped(u) THEN NULL ELSE next[f]]

(* io_rewind: a unit that has moved off its head closes its current file   *)
(* only, and reopens the head, which may fail; then it seeks.              *)
io_rewind(u) ==
  /\ Running
  /\ curr[u] # NULL \/ head[u] # NULL
  /\ \/ /\ curr[u] = head[u]
        /\ Sound(curr[u] \in live, curr[u] \in open)
        /\ UNCHANGED <<heap, curr>>
     \/ /\ curr[u] # head[u]
        /\ io_close(u)
        /\ open' \in {open \ {curr[u]}, (open \ {curr[u]}) \cup {head[u]}}
        /\ curr' = [curr EXCEPT ![u] = head[u]]
        /\ Sound(curr[u] \in live \cup {NULL} /\ head[u] \in live', head[u] \in open')
  /\ UNCHANGED <<head, offset, comp, phase, reading>>

(* SET passes fp->iop on without a test; OUTPUT to a file without a stream *)
(* writes nothing (ioo_write).                                             *)
UseStream(u, stream) ==
  /\ Running
  /\ curr[u] # NULL
  /\ Sound(curr[u] \in live, stream)
  /\ UNCHANGED <<heap, units, comp, phase, reading>>

io_seek(u)  == UseStream(u, curr[u] \in open)
io_print(u) == UseStream(u, TRUE)

-----------------------------------------------------------------------------
(* io_read.  With nothing attached it returns at once; else it loops.      *)
ReadStart(u) ==
  /\ \/ Running
     \/ Compiling /\ u = UNITI
  /\ curr[u] # NULL
  /\ reading' = u
  /\ UNCHANGED <<heap, units, comp, phase, fault>>

(* The top of the loop opens a file that is not open yet.                  *)
ReadOpen ==
  /\ reading # NULL /\ fault = "none"
  /\ curr[reading] \notin open
  /\ Sound(curr[reading] \in live, TRUE)
  /\ open' = open \cup {curr[reading]}
  /\ UNCHANGED <<live, next, incl, units, comp, phase, reading>>

(* io_finish: every unit is closed.                                        *)
io_finish ==
  /\ Replace(Units, {})
  /\ curr' = [u \in Units |-> NULL]
  /\ head' = [u \in Units |-> NULL]
  /\ phase' = "done"
  /\ UNCHANGED <<offset, comp>>

(* IO_ERR: a failed open or a failed read.  The compiler gives up (COMP1), *)
(* a running program may go on under &ERRLIMIT.                            *)
ReadError ==
  /\ reading # NULL /\ fault = "none"
  /\ reading' = NULL
  /\ IF phase = "compile" THEN io_finish
     ELSE /\ Sound(curr[reading] \in live, TRUE)
          /\ UNCHANGED <<heap, units, comp, phase>>

(* A line.                                                                 *)
ReadLine ==
  /\ reading # NULL /\ fault = "none"
  /\ curr[reading] \in open
  /\ Sound(curr[reading] \in live, TRUE)
  /\ reading' = NULL
  /\ UNCHANGED <<heap, units, comp, phase>>

(* End of file: io_next closes the file, and opens the one after it unless *)
(* it is open already.  A running program's read goes on with that file;   *)
(* the compiler always gets IO_EOF, and pops INCSTK (FILCHK).              *)

\* Mutation: the unit does not move.
StaysOn(u) == curr[u]

After(u) == next[curr[u]]

\* Mutation: the compiler's read goes on too.
AlwaysGoesOn(f) == f \in open'

GoesOn(f) == phase = "run" /\ f \in open'

ReadEof ==
  /\ reading # NULL /\ fault = "none"
  /\ curr[reading] \in open
  /\ LET u == reading
         after == After(u)
         closed == open \ {curr[u]}
     IN /\ io_close(u)
        /\ curr' = [curr EXCEPT ![u] = after]
        /\ \/ after = NULL /\ open' = closed
           \/ after # NULL /\ open' = closed \cup {after}
           \/ after \in Files \ closed /\ open' = closed
        /\ Sound(curr[u] \in live /\ after \in live' \cup {NULL}, TRUE)
        /\ reading' = IF GoesOn(after) THEN u ELSE NULL
  /\ incdepth' = IF phase = "compile" /\ reading' = NULL /\ incdepth > 0
                 THEN incdepth - 1 ELSE incdepth
  /\ UNCHANGED <<head, offset, includes, phase>>

-----------------------------------------------------------------------------
(* -INCLUDE (XINCLD, INCLUD in v311.sil): a name already on the list is    *)
(* skipped unless it came with a trailing space; the new file goes in      *)
(* front of curr, open, and INCSTK is pushed.                              *)
io_include(n, space, f) ==
  /\ Compiling
  /\ curr[UNITI] \in open
  /\ n \notin includes \/ space
  /\ f \in Fresh
  /\ live' = live \cup {f}
  /\ open' = open \cup {f}
  /\ incl' = incl \cup {f}
  /\ next' = [next EXCEPT ![f] = curr[UNITI]]
  /\ curr' = [curr EXCEPT ![UNITI] = f]
  /\ includes' = includes \cup {n}
  /\ incdepth' = incdepth + 1
  /\ UNCHANGED <<head, offset, phase, reading, fault>>

(* A fatal error of the compiler, such as an include file that is not      *)
(* found, and the end of the program.                                      *)
Exit ==
  /\ Compiling \/ Running
  /\ io_finish
  /\ UNCHANGED reading

-----------------------------------------------------------------------------
(* io_ecomp, when the END statement has been read from curr.               *)
AtEnd == Compiling /\ curr[UNITI] \in open
                   /\ (curr[UNITI] \in incl => EndInInclude)

(* With -l OUTPUT leaves the listing for stdout, without -r INPUT leaves   *)
(* the program for stdin, where malloc succeeds (W); no one looks whether  *)
(* it did.                                                                 *)
(* With -r the source files before the current one are freed, and REWIND   *)
(* is to come back to the line after END.                                  *)
Redirected == (IF Lflag THEN {UNITO} ELSE {}) \cup (IF Rflag THEN {} ELSE {UNITI})

\* Mutation: the files from the current one on are freed as well.
AllPassed == IF Rflag THEN Kept(UNITI) ELSE {}

Passed == LET c == curr[UNITI] IN
  IF ~ Rflag THEN {}
  ELSE IF c \in Kept(UNITI) THEN Kept(UNITI) \ Chain(next, c) ELSE Kept(UNITI)

Compiled(W, f) ==
  /\ Sound(CloseSound(W) /\ Passed \subseteq live, TRUE)
  /\ Heap(Freed(W) \cup Passed, Closed(W), {f[w] : w \in W})
  /\ curr' = [u \in Units |-> IF u \in W THEN f[u] ELSE curr[u]]
  /\ head' = [u \in Units |-> IF u \in W THEN f[u]
                              ELSE IF Rflag /\ u = UNITI THEN curr[u]
                              ELSE head[u]]
  /\ offset' = [u \in Units |-> IF u \in W THEN "start"
                                ELSE IF Rflag /\ u = UNITI THEN "end"
                                ELSE offset[u]]

io_ecomp ==
  /\ AtEnd
  /\ \E W \in SUBSET Redirected : \E f \in [W -> Fresh] :
       /\ MallocFails \/ W = Redirected
       /\ \A v, w \in W : f[v] = f[w] => v = w
       /\ Compiled(W, f)
  /\ includes' = IF Rflag THEN {} ELSE includes
  /\ phase' = "run"
  /\ UNCHANGED <<incdepth, reading>>

-----------------------------------------------------------------------------
ReadStep == ReadOpen \/ ReadError \/ ReadLine \/ ReadEof

Next ==
  \/ \E u \in Units : \/ io_openi(u) \/ io_openo(u) \/ io_endfile(u)
                      \/ io_mkfile(u) \/ io_rewind(u) \/ io_seek(u)
                      \/ io_print(u) \/ ReadStart(u)
  \/ ReadStep
  \/ \E n \in Names, space \in BOOLEAN, f \in Files : io_include(n, space, f)
  \/ io_ecomp
  \/ Exit

Spec == Init /\ [][Next]_vars

(* One thread runs io_read's loop and never stops in it: the top of the    *)
(* loop opens the current file, and at the end of a file the next one, if  *)
(* there is one and it can be opened, takes its place.  Nothing is assumed *)
(* of the files: no read has to yield a line or an error, no open to fail. *)
NextFile == ReadEof /\ After(reading) \in open' \cup {NULL}
FairSpec == Spec /\ WF_vars(ReadOpen) /\ WF_vars(NextFile)

-----------------------------------------------------------------------------
(* Every variable has its type, and a unit that is being read has a file   *)
(* and a place to rewind to: io_read and io_rewind dereference both.       *)
TypeOK ==
  /\ live \subseteq Files /\ open \subseteq Files /\ incl \subseteq Files
  /\ next \in [Files -> Ptr]
  /\ curr \in [Units -> Ptr] /\ head \in [Units -> Ptr]
  /\ offset \in [Units -> {"start", "end"}]
  /\ includes \subseteq Names /\ incdepth \in Nat
  /\ phase \in {"compile", "run", "done"}
  /\ reading \in Units \cup {NULL}
  /\ fault \in {"none", "freed", "nostream"}
  /\ \A u \in Units : curr[u] # NULL => head[u] # NULL
  /\ reading # NULL => curr[reading] # NULL

(* No pointer a unit holds, and no link of its lists, leads to a struct    *)
(* file that io_close, io_closeall, io_ecomp or a failed INPUT() freed.    *)
NoDangling ==
  /\ fault # "freed" /\ incl \subseteq live
  /\ \A u \in Units : Owned(u) \subseteq live

(* Two units never share a struct file: closing one cannot free a file of  *)
(* the other.                                                              *)
NoSharing ==
  \A u, v \in Units : u # v => Owned(u) \cap Owned(v) = {}

(* Every allocated file is on some unit's list, and every open stream is   *)
(* still ahead of some unit: io_close and io_closeall lose nothing.        *)
NoLeak ==
  /\ live \subseteq UNION {Owned(u) : u \in Units}
  /\ open \subseteq UNION {Unread(u) : u \in Units}

(* What is still to be read was linked behind head, so that REWIND() goes  *)
(* back to a list of which it is the tail; the include files in front of   *)
(* it exist during compilation only.                                       *)
UnreadWithinKept ==
  \A u \in Units :
    /\ Unread(u) \ incl \subseteq Kept(u)
    /\ Kept(u) \cap incl = {}
    /\ (phase # "compile" \/ u # UNITI) => Unread(u) \cap incl = {}

(* FILCHK pops INCSTK on every end of file the compiler sees, not knowing  *)
(* which file ended: the stack stays as deep as the include files pushed   *)
(* on UNITI only because io_read returns to the compiler at each file.     *)
IncludeStackInSync ==
  phase = "compile" => incdepth = Cardinality(Unread(UNITI) \cap incl)

(* Every call of io_read returns (or the program crashes in it): each end  *)
(* of file moves the unit forward.                                         *)
ReadTerminates == reading # NULL ~> reading = NULL \/ fault # "none"

-----------------------------------------------------------------------------
(* The list that starts at f, with the links nx.                           *)
ListFrom(nx, f) ==
  LET list[i \in 1..Cardinality(Chain(nx, f))] ==
        IF i = 1 THEN f ELSE nx[list[i - 1]]
  IN list

(* The pointer structure implements a pair of lists per unit.              *)
Lists == INSTANCE FileLists WITH
           kept   <- [u \in Units |-> ListFrom(next, head[u])],
           unread <- [u \in Units |-> ListFrom(next, curr[u])]

ListsSpec == Lists!Spec
=============================================================================
