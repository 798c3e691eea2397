# A verification development of CSNOBOL4

This directory specifies and verifies the runtime and the compiler of CSNOBOL4
2.3.3. The source is in `src/.local/src/snobol4-2.3.3`, and all paths below are
relative to it: Macro SNOBOL4 in SIL (`v311.sil`), the C made from it that the
default build compiles (`isnobol4.c`, to which the line numbers of the map refer),
and the C it calls (`lib/`, `lib/snolib/`, `modules/`). The rest of the repository is
an installed copy of the same release and the files of a course template.

`PROJECT.json` lists the components, the runs, the mutants that show each
property can fail, the lines every definition models, and the hazards.
To check it: `tlc -config X.cfg M` for the runs of section 4,
`tlapm M_proofs.tla` for the proofs.

## 1. The system

The interpreter is a single thread. What makes it hard is not concurrency but
long sequences of legal calls over memory that is managed by hand, operations
that fail half-way, cells of the whole program that are saved and restored around
nested evaluation, addresses that outlive what they point to, and, at the edge,
child processes and signals.

### Parts that are modelled

| Component | Source | State | Operations | Correct when |
|---|---|---|---|---|
| Unit table and file lists | `lib/io.c`; `FILCHK`, `INCLUD` | `units[]` (`curr`, `head`, `offset`), heap of `struct file`, names of include files, the compiler's `INCSTK` | command line, INPUT(), OUTPUT(), ENDFILE(), REWIND(), SET(), read, print, -INCLUDE, end of compilation, `io_mkfile`, exit | lists are sound (nothing freed is reachable, nothing shared, nothing lost), they stand for two lists of files per unit, reading ends, the compiler's stack follows the files |
| Unit allocation | `io_findunit` | `finger` | find a free unit | an answer is a free unit, or all are taken; it always answers |
| External functions | `lib/loadx.c`; `LOAD`, `UNLOAD`, `LNKFNC`, `OPSYN` | list of libraries with counts, list of functions, function descriptors | LOAD(), UNLOAD(), OPSYN(), calls | a library is open while it is used and no longer, a call reaches the function loaded last |
| Storage and regeneration | `BLOCK`, `GC`, `GENVAR`, `CONVAR`, `VPXPTR`; `lib/top.c` | the dynamic region, the bins, the resident descriptors and specifiers | allocation, strings, DUPL(), CLEAR(), COLLECT(), the program's fetches and stores | equal strings are one structure; the program cannot tell that blocks move |
| Functions and the interpreter | `INTERP`, `INIT`, `GOTL`, `DEFINE`, `DEFFNC`, `EXPVJ2`, `TRPHND`, `FTERST`, `XITHND` | data stack, position in the object code, the argument loop's cells, SETEXIT()'s cells, limits | statements, gotos, calls, returns, EVAL(), traces, trapped errors, CONTINUE | calls bind dynamically whatever exit they take; after any nesting a statement goes on with its own registers, exits and stack; every program stops |
| Pattern matching | `SCAN`, `SJSR`, `SCNR`, `SCIN`, the matching procedures, `NMD`; `lib/pat.c` | history list, name list, data stack, cursor and heuristics' cells, nodes | a step of a matching procedure, backing up, matches inside matches | a match finds what the pattern means, first things first; everything tentative is undone; it ends |
| Arrays, tables, objects, SORT() | `ITEM`, `ASSOC`, `ARRAY`, `DATDEF`, `FIELD`, `ICNVTA`, `CNVAT`, `SORT1`; `lib/pair.c` | blocks with slots, types and field functions | subscripts, assignment, making, copying, converting, freezing, sorting | a name of an element stays that element's; a key has one slot; sorts are sorted and stable |
| Compiler | `CMPILE`, `EXPR`, `ELEMNT`, `TREPUB`; `lib/tree.c` | trees, the C stack, blocks of object code, labels | a token, an error, the end of a statement | the code that the interpreter finds is what was written |

How they interact: INPUT() with a defaulted unit and the modules' `io_mkfile`
use unit allocation before they attach a file; the compiler and the running
program read through the same unit (5), and the end of compilation hands it
over; `-INCLUDE` changes the list under the compiler, which learns of it from
`IO_EOF` only. Everything that makes a string or a block may regenerate storage, so
every procedure keeps what it needs in descriptors that the regeneration sees.
Everything that evaluates (an argument, a subscript, an unevaluated expression in a
pattern, the function of a trace) runs `INTERP` again over the same cells: calls of
programmer-defined and external functions, matches, assignments to elements and
sorts each keep what they need on the data stack, by the discipline their models
check. The compiler's blocks of object code are what `INTERP`, `INIT`, `GOTO` and
`BASE` read. There are no messages; the callbacks are the release functions of handles
and the handler of SIGCHLD.

### Parts that are not modelled

| Component | Source | Why |
|---|---|---|
| I/O associations | `READ`, `PRINT`, `DETACH`, `PUTIN`, `PUTOUT` | lists searched by name; what they do to units is in `IOUnits` |
| Tracing | `TRACE`, `STOPTR`, `TRPHND` | only the call that a trace makes is modelled, in `Interp` and `Match` |
| Handles, TCP server, I/O objects | `lib/snolib/handle.c`, `serv.c`, `lib/*_obj.c` | small tables in front of libraries; the state of sockets and processes is the kernel's |
| Database files, other modules | `modules/` | vendored, or wrappers of libraries |
| String and number primitives, built-in functions | `lib/str.c`, `lib/hash.c`, `lib/snolib/` | functions without state, which unit tests reach |
| The scanner, control lines, listing | `syn.c`, `lib/stream.c`, `CTLCRD` | automata over characters; a token of `Compiler` is what STREAM finds |
| Generated code, ports, tools, template | `snobol4.c`, `data.c`, `lib/vms`, `*.sno` | the other translation of the same SIL; variants of small functions; programs on top |

## 2. Plan

| | Module | Models | Abstract specification or reference | Proved |
|---|---|---|---|---|
| 1 | `IOUnits` | `lib/io.c` | `FileLists`: two lists of files per unit | types, memory safety, lists, INCSTK; implements `FileLists` |
| 2 | `FindUnit` | `io_findunit` | - | answers |
| 3 | `LoadLib` | `lib/loadx.c` | - | counts, names, calls |
| 4 | `Storage` | allocation and regeneration | `Store`: nothing moves | tiling, the bin, interning, titles found |
| 5 | `Interp` | functions, gotos, errors | `Scopes`: dynamic binding | types, level, stack, registers, failure exits, handlers; implements `Scopes` |
| 6 | `PatternNodes`, `Match`; `Patterns`, `MatchAnswers` | matching | what a pattern means, by recursion on it | the stack, links, the history list |
| 7 | `Data`, `Sorting` | arrays, tables, objects, SORT() | `Maps`: maps with held names; a stable order | key slots, fields, conversions, sorts; implements `Maps` |
| 8 | `Compiler`, `Trees` | trees and object code | the prefix form of an expression; a walk over the code | types, trees that hang together, blocks |

Left: I/O associations composed with `IOUnits`; handles; the lists of TRACE().
To prove next: that `Storage` implements `Store`, for which the proofs of section 6 have the
parts (what a regeneration computes and keeps).

## 3. The modules and the code

**`IOUnits`** has one action per entry point of `lib/io.c`. Addresses of
`struct file` are model values; `malloc` is a choice of a free one, `free` takes
it out of `live`, and the model looks at every dereference the code makes:
`fault` becomes `freed` or `nostream` when it goes wrong, and nothing happens
after that, as anything could. A list is the chain of `next` from a pointer
(`Chain`). `io_read` is a loop over files and is one action per turn (`ReadStart`,
`ReadOpen`, `ReadLine`, `ReadError`, `ReadEof`), with `reading` for its program
counter; every other operation is one action, as nothing can come between. What a
file holds is abstracted: a read gives a line, an error or end of file. Whether a
file can be opened is a choice too. `incdepth` is the depth of `INCSTK`.

**`FileLists`**: a unit has the list REWIND() goes back to (`kept`) and the list
still to be read (`unread`), and an operation replaces both, goes on to the next
file, rewinds, or pushes an include file on `unread` only. `IOUnits` maps `head` and
`curr` to the lists that start there.

**`FindUnit`** is `io_findunit` statement by statement, with the program attaching
and closing units between calls.

**`LoadLib`**: `libs` holds for each file the name it is listed under, the
`refcount` and the number of times `dlopen` was called less `dlclose` (`os`);
`funcs` is the list of `struct func`, newest first; `desc` the addresses in the
interpreter's function descriptors. A `struct func` keeps the identity it had
when it was loaded, so that a call through a freed one (`freed`) or through one
that took its address (`wrong`) can be told. LNKFNC is two actions, before and after
the arguments. `aliases`, chosen at the start, says whether this is a program that
calls functions it has unloaded; `CallsNewest` is about the others.

**`Storage`**: the region is an array of descriptors with address, flags and value,
as in memory, and so are titles. `Regenerated` does what GC does: it marks from
the resident blocks and from strings with a value or label, points titles behind
the barrier `MVSGPT` to where their blocks go, closes the gaps in the bin's
chain, adjusts every pointer by the title TOP finds, and moves the blocks. `Located`,
`Entered` and `Generated` are LOCA1 to LOCA7; a regeneration may happen between
them, with `LSTPTR` and `BUKPTR` in the resident block. `Scratch` is CONVAR's use of
the space above `FRSGPT` that nothing owns yet. Abstractions: one bin stands for all,
and a string is a number in its order; a descriptor holds one character, and
`CharFlags` says what flags it amounts to when it is read as a title; what is above
`FRSGPT` is the worst it can be, marked titles; the marking stack is a fixpoint;
SPLIT and GNVARI/GNVARR are left out; where a regeneration does not give enough
room (error 20) the action is not enabled.

**`Store`** is the same program over a store where nothing moves and nothing is
collected. `MCStore` maps the heap to it by `Seen`. One operation is nondeterministic
in it, as in the code: VPXPTR gives the upper-case variable the value and label of
the one as written only when it has to make the variable, which depends on whether
storage was regenerated since that name was last seen.

**`Interp`**: the object code is arbitrary; whichever procedure reads the next
element finds any that the compiler could have put there. `ctl` is the C stack
(INTERP, DEFFNC, EXPVAL, TRPHND), with the height of the data stack each was called
at, and `stk` holds what they push: the values to give back, and the cells saved
for the return. `pos` is OCBSCL, OCICL, FRTNCL and STNOCL. An offset in a block is
abstracted to three per statement. An action is what one C procedure does between
two calls of others: an argument evaluated, a body entered, a return by RETURN,
FRETURN or NRETURN, a failure, an error with or without a handler, CONTINUE. A goto goes to a
label or to code, or fails as GOTL and GOTG can (`GotoFails`); where the label has no code, or X of
`:<X>` is none, OCBSCL is already 0 or something else (`NoBlocks`) when that is error 24
(`GotoUndefined`). The model ends where the interpreter reads such a block (`Crash`). `args`
becomes `Clobbered` when another procedure has used the cells of an argument loop.
**`Scopes`** says that a call binds names and that its return gives them back.

**`PatternNodes`** translates the construction of nodes (`lib/pat.c`, CONCAT, OR,
ARBNO, naming). **`Patterns`** applies it to a pattern as it is written, a tree, and defines, apart
from that, the matches of a pattern in order as a recursion over its tree; **`MatchAnswers`**
compares the two. **`Match`** has one action per matching procedure and per
way it can end, over the history list `hist`, the name list `named`, the data stack
`stk`, and `calls`, the matches that wait for one inside them. `r` holds the cells that
one match leaves to another unless they are saved; `TMVAL` is the residual in the cell of that name,
which every node sets when it is matched and BREAKX() pushes as it is. `Failing` are the variables whose `*X`
fails. Characters are members of a small set; lengths, cursors and the heuristics' numbers are as
in the code.

**`Sorting`** is the sort of SORT1, pass by pass until one exchanges nothing, with its comparison of
any two types. (The function that repeats the passes needs a bound, which `PassesEnd` shows is never reached.)
**`Data`** has the blocks as objects numbered by address; `ITEM` makes a name, a
place in a block, which `wait` holds while the program does anything else. CONVERT() to an array is
three loops, as in the code: ICNVTA counts the entries of each extent from its last slot to its first,
`EntriesOf` finds them from the first to the last and over the extents, and `Filling` copies one after
the other into an array of as many rows as were counted; SORT() of a table uses the first two.
`NaN`s and integers that are not exact as reals are values with those properties.
**`Maps`** says that elements are kept by key, that a name held is a key of a map, and
that an assignment changes that element; `Data` maps the slots to it (`MapOf`). `Starts` has the
programs' first lines: the blocks and types a run begins with, any that are sound (`Sound`,
`SoundTypes`).

**`Trees`** has `lib/tree.c` on a sequence of nodes, TREPUB's order (`Flat`, a walk that goes to a
son, a brother or the brother of a father, `Following`), and, apart from these, `Prefix`: the tokens
of an expression in prefix notation, a function of the stretch of tokens that splits it at the
operator that is applied last. **`Compiler`** reads a program token by token; an action is what the
code does between two calls of STREAM or of one another, so that what comes next is open, an error
(`CDIAG`) included. `calls` is the C stack with what ELEMNT and EXPR push. `code` is the object
code: the block and offset of the base (CMBSCL), the offset from it (CMOFCL), where the statement
began (BOSCL), what is to be filled in (FRNCL, SRNCL), the limit (OCLIM), the label that goes with
the code (LPTR). A cell that would lie behind its block sets `overrun`. Names and literals are their
places in the text. The walk of `CodeRight` is what INTERP, INIT, GOTO, GOTG and BASE do with
offsets.

**`MC...`** modules hold instances: symmetry sets, values of constants, and the
refinement mappings that need definitions of their own.

## 4. Runs

| Run | Shows | Instance and why it is enough |
|---|---|---|
| `units` | Pointers of the unit table stay sound; INCSTK follows the include files; every `io_read` returns; every step is a step of `FileLists` | 3 units, 5 files, up to 3 sources, an include file whose name is recognised or not, a listing, INPUT moved to stdin at the end of compilation, END in include files: include files in front of the first, a middle and the last source; two units besides the compiler's give sharing a chance. `-r` and a `malloc` that fails at the end of compilation are left to the theorems (section 6) |
| `findunit` | Right answers, from every position of the finger and every set of units in use; every search ends | 4 units |
| `load` | Libraries are open exactly while they are used; a program that calls functions by their own names reaches what it loaded last | 2 functions (one linked in), 2 names, 2 files, 4 addresses: a function can be loaded again from another library, and addresses come back |
| `storage` | Storage stays a row of unmarked blocks; every operation is one of `Store` | 12 descriptors, 2 strings, blocks of 2 fields, case folding: a structure of one character takes 5, so about every third operation regenerates, with blocks before, between and behind those that go |
| `storage_strings` | Equal strings are one structure; specifiers left behind never mislead the collector | 22 descriptors, 3 strings in one bin (first, middle, last), characters that look like titles |
| `interp` | `&FNCLEVEL`, the stack, the registers, failure exits and handlers are right after every exit; calls bind dynamically | F(X,X,X)F and F(X) without its label, redefined at any moment; 4 procedures deep (a call in an argument of a call in a handler), up to 3 statements, 1 error trapped, 1 trace, gotos that fail or find no code |
| `interp_halts` | Every program stops | the same, one statement in a block, with errors inside expressions and undefined gotos that no handler traps |
| `match` | The answers, names and replacements of a match are those of the pattern's meaning; the lists and the stack are as they were where a match backs up or ends; it ends | every two of 22 primitives, ARBNO, `.` and `$` of choices and of one another, grammars of themselves, statements run in the middle, subjects of up to 4 characters, both modes, anchored or not |
| `match_breakx` | Finding, section 5 | BREAKX() and what it is to be equivalent to, before alternatives of different lengths, in quickscan mode; the other runs have BREAKX() without these |
| `match_value` | Finding, section 5 | X ? P with a trace |
| `data` | Elements keep their values while names of them are held; a key has one slot; objects have their fields; conversions and sorts are complete, sorts in order and stable | tables of extents of 2, DATA() redefined with the same and another field, all arrays of 4 values of 5 kinds, and of 3 rows and 2 columns, numbered from 0 or 1, 3 or 4 steps besides |
| `compiler` | No cell is written outside its block; a node that is to get a brother has a father; every expression becomes the right tree; the interpreter finds what was written, and labels where they were put | programs of up to 4 tokens besides variables and closing brackets, in both sets of operators, 2 labels, a first block of 13 cells and others of 12 more than what they take over: every statement with an operator fills a block, some two. With 5 tokens (4.6 million states) it holds too |

Deadlock is checked in `findunit`, `storage` and `storage_strings`. In `IOUnits`
the program may exit or crash, in `LoadLib` and `Data` it may crash, in `Interp` and `Match`
the program ends, and in `Compiler` and `Data` it is as long as its bound.

**Fairness.** `ReadTerminates` assumes that the one thread in `io_read` goes on:
`ReadOpen` (the top of the loop, which opens the current file) and `NextFile` (end of
file, and on to the next file if there is one and it can be opened). A read of
the operating system is thus assumed to return: where neither a line nor an error
comes, the end of file does. No line, error or failing open ever has to happen, so it is
the list that must come to an end. `Terminates` of `FindUnit`, `Halts` of `Interp` and
`Terminates` of `Match` assume that the interpreter takes its next step, as it
never waits; which step is open, so `Halts` is about every program. Refinements are
checked without fairness.

**Types.** `IOUnits` and `Interp` have a `TypeOK` that a run checks; those of `LoadLib` and `Compiler`
are theorems, and those of `FindUnit`, `Data` and `Storage` (the heap, in `Sound`) part of their proofs. In `Match`,
whose state is sequences of cells, the properties fail with an error where an index or a cell
is not what its place calls for.

## 5. Where the code does not do what it says

Two runs end in a violation of what the documentation says, each confirmed on a build.

**`match_breakx`**: the entry that BREAKX() leaves to be continued has the residual that TMVAL happens to hold
(11705), and in quickscan mode BRKXF tests it (11740): after an alternative that needed more
characters, it fails, and with it the whole match. `'bxbxba' ? BREAKX('b') ('ba' | 'q' LEN(5))`
fails, and succeeds with `BREAK('b') ARBNO(LEN(1) BREAK('b'))`, which
`doc/snobol4func.1.pea:43` calls equivalent, or with `&FULLSCAN = 1`.

**`match_value`**: after a match SCAN calls NMD, which assigns the
names and runs the functions of VALUE traces while it keeps only TCL, NAMICL and NHEDCL
(`isnobol4.c:11190`); then SCAN makes the value of `X ? P` from HEADSP and TXSP as they are
now (12583), which a match in such a function has changed.
`doc/snobol4ext.1.pea:124` says that the match "returns the matched string as its value".
SJSR keeps head and tail on the stack before NMD and is right.

The other defects that were met are in the models too; the runs are set up not to meet
them, by the constant named. What was tried on a build is marked (b).

Units (`lib/io.c`):

- `io_openi` and `io_openo` say "fail; no harm done!" (1259, 1306, 1318). With options that
  `io_options` rejects and no file name, the file that is freed (1238) is the one the unit
  has and goes on pointing to. (`OptionErrors`)
- With `-r` and END in an include file, that file becomes `head` and `io_close` frees it
  at its end (1036, 364); REWIND() then uses it. (`Rflag` and `EndInInclude`)
- `io_openi` and `io_openo` replace a unit's list but not its `offset` (1262, 1321):
  REWIND() of another file on unit 5 goes to where END was in the program.
- When the next file of a list cannot be opened (457) the unit is left on a file without a
  stream, which `io_seek` (1463) does not test for (writing does, 183), and `io_getfp` (1004)
  returns. (`fault = "nostream"`)

External functions (`lib/loadx.c`):

- `callx` compares `fp->self` with `fp` to "validate, in case unloaded" (251). A synonym made
  by OPSYN() survives UNLOAD(); once another LOAD() gets the freed `struct func` the
  check passes and the call reaches the other function. (`aliases`)
- UNLOAD() of a function that is linked in, or `malloc` failing for one, calls
  `libclose(NULL)` (286, 217). LOAD() of an absolute name that does not exist looks the symbol
  up in no library (183; signal 11) (b). (`fault`)

Storage:

- VPXPTR sets XSP from `FRSGPT`, whose flags say pointer, and when the name is upper-case
  already returns with XSP at space that nothing owns (`isnobol4.c:5848`). A regeneration
  then adjusts XSP, and TOP takes characters of a string for a title: `$'abc'`,
  COLLECT() and a long line of input ended in signal 11 in `top` (b). (`CaseFolds` with `CharFlags`)
- GENVUP folds a name where it stands (4483), which for DEFINE(), DATA() and LOAD() is in the
  interned string the program passed: after `P = 'foo(x)'; DEFINE(P)`, P prints `FOO(X)` (b), and
  is filed under its old hash. (`Raised`)
- GCM pushes a block for every level of a structure on the interpreter's own stack (713): a
  list that is long enough overflows it. (Marking is a fixpoint in the model.)

Functions and the interpreter (`isnobol4.c`):

- DEFFNC finds that the entry label is missing (7134) after it has assigned arguments and
  locals; with `&ERRLIMIT` the variables keep the call's values (b). (`EnterUndefined`)
- OPSYN() of a function while its own arguments are evaluated (7094) ends in signal 11 (b). (Not
  modelled: the definition changes only by DEFINE().)
- An error inside an unevaluated expression or EVAL(), with a handler set: EXPVJ2 gives back
  OCBSCL (7712), so the handler's label is lost and the block starts again (b). (`"inside"`)
- SCONTINUE resumes by failing to FRTNCL, which stays at that offset for the rest of the
  statement: `X = 1 / 0 + LT(2,1)` goes round for ever and is never counted (4329) (b). (`"resume"`)
- A goto to an undefined label or of what is not code (4354, 7770), with `&ERRLIMIT` and `&FATALLIMIT`
  set and no handler, makes the statement fail with OCBSCL pointing to no code, which the
  interpreter then runs: signal 11 (b). (`"undefined"`)
- With a handler, XITHND saves the 0 that such a goto has put in OCBSCL as XOCBSC (4135), where 0 means that no
  handler is active: `:(ABORT)` in it is error 35 (4316), while `doc/snobol4func.1.pea:469` says that it
  "causes error processing to resume as though no error intercept had been set" (b).
- CONTINUE outside a handler, where such errors are not fatal, has set FRTNCL before it
  finds nothing to continue (4337). (`"stray"`)
- `&LASTNO` is taken from the cell of `&LINE` (4346), and a trap of the end of the program
  leaves OCICL as it is (4447).

Matching (`isnobol4.c`):

- STAR puts the value of `*X` into the pattern's own node (12126); when X gives another value
  the next time, entries of the history list are tried in the new one: signal 11 (b). The runs evaluate a
  changing `*X` once for each alternative before it only. (`AfterConstant` in the proofs)
- ENMI and an argument that is no integer leave cells on the stack or take too many
  (12391, 11798); the names of a match are assigned one by one (11215), and an error leaves the
  first ones assigned.

Arrays, tables, SORT() (`isnobol4.c`):

- `SORT(T,F())` counts the entries of T before it calls F (6396): entries that F deletes make it
  run off the table (signal 11) (b), entries it adds are left out. (`"shrinks"`)
- `SORT(ARRAY('1:0'))` (6474) and `CONVERT(ARRAY('1:0,2'),'TABLE')` end in signal 11 (b). (`"empty"`)
- CONVERT() to a table makes two slots for two rows with the same key (3101), of which the
  second shows again when the first is deleted (b). (`"duplicates"`)
- SORT() by a field that leads back to its object (6653) hangs (b). (`"cyclic"`)
- Integers above 2^53 among reals are compared as reals with some and as integers with
  others (6583), which is no order. (`Exact`)
- A null second argument of SORT() is the number 0: error 10 for a table or an array whose columns
  start at 1, column 0 where there is one (6434) (b), and not the default that
  `doc/snobol4func.1.pea:509` gives.

Compiler (`isnobol4.c`):

- A statement that publishes no tree (` :`, an erroneous one) does not test the end of
  the block, nor does ` :F(L)` before its eighth cell (3304, 13597, 13788): five hundred ` :` end in
  signal 11, as does `CODE(DUPL(' :;',400))` (b). (`"unchecked"`)
- EXPR15 makes a replacement of the match that `=` follows and goes on below the root of the
  tree instead of below the replacement (13065); and as the node's precedences are then SJSRFN's,
  a later `=` or `?` takes the replacement for its operand: `(R = A ? B = C)` and
  `A ? B = T = 'y'` are errors when they run (b), while `doc/snobol4ext.1.pea:122` says that assignment
  is right associative, of lowest precedence, and a replacement an expression. (`"replace"`)
- `-A<1><2>` makes the item of the negative (13196; error 1) (b), though
  `doc/snobol4ext.1.pea:10` allows several index operations in a row. (`"unary"`)
- A label that is defined again is an error, but code behind it, when it moves to another
  block, takes the label with it (3331; with -ERRORS and some 240 statements) (b). (`"redefined"`)
- `doc/snobol4op.1.pea:14` calls its table one of decreasing precedence; it increases.

Components that are not modelled: OUTPUT() takes its default unit before it looks at the
association (`v311.sil:5324`), and a variable keeps the association of a failing call (5392);
handles that `stcl.c:356` and `ffi.c:312` use after `handle.c:194` has removed them; the handler of
SIGCHLD (`lib/snolib/serv.c:56`) waits for every child, so that with one alive and one dead the
server accepts no connection.

## 6. Proofs

All theorems hold for every value of the constants under the ASSUMEs of the modules, which
TLC evaluates in the runs. These say that constants have their types (units, flags,
names, definitions, sizes), that 5 and 6 differ, that the null pointer is not a file, that
upper-casing leaves a string as long as it is, that an operator has one or two operands
(`ArityAssumption`) and, in `Data`, that a program starts with sound blocks. A theorem that needs more says so
after ASSUME: mostly that a defect of section 5 is not met.

**`IOUnits_proofs`**. `TypeCorrect`: `TypeOK` is inductive by itself. `MemorySafe`,
`FilesOwned`, `NothingLost` and `RewindComplete`: the lists of all units stay sound, i.e.
`NoDangling`, `NoSharing`, `NoLeak` and `UnreadWithinKept`. The inductive invariant is these four with
`TypeOK` and `IncludeAcyclic` (an include file is not on its own tail), which
freeing a list needs: after an include file is freed, the file behind it must not
lead back. No conjunct is inductive alone. That a unit's new list has no freed file needs
`NoSharing` (the files freed were this unit's only) and that freeing from
`head` is enough needs `UnreadWithinKept`. The argument is in three
layers: lemmas on `Chain` (it is the least closed set; what changing links outside
of it, or cutting it, does), `HeapStep` (which changes of the heap keep the invariant
for units that are not touched), and one lemma per operation.
These theorems assume `Environment`: options are well-formed, and if END can stand in an
include file there is neither `-r` nor failing `malloc`, i.e. that the first two defects of
section 5's list are not met. `IncludesInStep` needs none of it, as options and END come later: while the program is read,
`incdepth` is the number of unread include files, all in front of a source (`Synced`); the end of an
include file takes off one of each, and the end of a source finds none.

`ImplementsLists` is the refinement of `FileLists`. Pointers of all units start a list (`Lined`,
from the invariant): a finite chain has one numbering in which each file is followed by its `next`
(`ListFound`), so that it is enough to say for each operation which chains stay, lose their first
file or get one. An operation then replaces a unit's two lists or drops them, `NextFile` goes on or
rewinds, and `io_include` pushes; everything else leaves all lists alone. It assumes `Environment`.

The last theorem, `AnswersRight`, is about `FindUnit`: what the search has passed since `start`,
and all of it after it started at the top, is in use (`Seen`), from which both
answers follow.

**`LoadLib_proofs`**. `LibrariesCounted` and `NamesUnique`: `refcount` is the number of
functions of a library in the list, and it is open once if that is not zero, for every
program. `CallsRight`: where the program does not call what it unloaded (`aliases` is
FALSE) every defined descriptor points to the newest function of its name. The
invariant adds that addresses in the list are distinct. Lemmas count how
adding to and dropping from a sequence changes a cardinality.

**`Interp_proofs`**. `TypeCorrect`, `LevelRight` and `StackRight` follow from `StackInv`: types;
`Frames`, which says for each C procedure in progress what the data stack has from its base to
that of the procedure it called (the slots of a call under its return cell, the counters and
values of an argument loop); that `LVLCL` counts the bodies; and `Ranked`, that
the bodies have the levels 1 to `LVLCL`. `LevelIsDepth` cannot do without `Frames`: a return
takes one off the level, and only the stack says that it leaves a body. The three hold for
every program, with all defects. `BindsDynamically`, the refinement of `Scopes`, is proved from the
same invariant: giving back a call's names in the opposite order undoes its binding, for names
that occur twice too. `RegistersRight`, `FailureExitRight` and `HandlerRight` add `Placed` (the registers,
and those kept by every call, expression and trace that is waiting, belong to a statement of the block
they name) and `Pending` (a handler that was chosen is still ahead of every procedure that fails on the
way to it). A goto that fails, or that has put 0 in OCBSCL and is trapped, is a case of all three: the statement
fails in the handler's block, whatever OCBSCL was. The first
two assume `Defects = {}`, as each of the four breaks them; `HandlerRight` only that no error
within an expression is trapped.

**`Data_proofs`**. First about `Sorting`. `PassesEnd`: the loop of SORT1 over a gap ends, after at most
n*n+1 passes over n rows, for any keys, also for integers that are not exact as reals, of which `Compared` is
not an order. It needs only that two rows compare oppositely both ways (`SwapsOpposite`): an
exchange of neighbours of the gap then leaves one pair less that is the wrong way round (`ExchangeShrinks`), and a
pass that exchanges nothing is the last. For exact keys one more pass settles the next place from the end of
each chain (`PassesSettle`). `SortsInOrder`: the result is a permutation in the order of the keys, stable among equal
ones, for every number of rows. The last gap is 1, so that only the comparison matters: it is a
total preorder where integers are exact as reals (`Sortable`). The induction is on
places and passes, by least counterexamples in `Nat`; that the recursive functions exist is a lemma
too (`Recursion`).

Then about `Data`. `IInv` has four parts: `GoodObjects` (every block is as its maker makes it, and values
refer to blocks of their type), `SoundTypes` (field functions fit the types of DATA()), `GoodTodo`
and `GoodWait` (values on their way and what waits for them: a name that is held still leads to an
element). The last is why nothing moves under a name: a block is replaced by one that `Grew`, a
longer one with the same keys in the same places. `Sane` is this invariant, with all defects. `KeysOnce`: in
a table a key has one slot and the free ones come last, so that the search that stops at the first free
one finds it. `FieldsFoundRight` needs that a type keeps its fields when it is defined again.
`AllConverted` and `RowsSorted` are about the operation just done. The loops of CONVERT() are taken by
induction on their turns: what the forward walk has found lists the entries up to there, each once (`EntriesListed`, by
way of `Lists`); the backward count is the cardinality of those it has passed, so that both agree
for each extent and for all (`CountedAre`); and after i copies i rows of both columns are filled
(`FillingIs`), with all of them when the loop is over. Sorting then is `SortsInOrder`; `RowsSorted`
assumes `ExactNumbers`. `ImplementsMaps`, the refinement of `Maps`: each action leaves the
maps, makes one, or assigns to one element, and each name held is of the key it was made with. It
assumes, as `KeysOnce` and `AllConverted` do, that no array with equal keys was made a table.

**`Compiler_proofs`**. Two invariants. `TreeInv` is about nodes: links go up and down consistently
(`Linked`), and what the C stack, the expression being read and the parts of the statement keep are
nodes of their own trees with the links that the procedure that gets them back needs (`Stack`,
`Ready`, `Parts`). A node kept while another expression is read may be put below others or turned
around, so that what is kept of it is that it has a father, not which one. `BrothersHangHolds`:
addsib is never given a root. It needs no hypothesis.

`CodeInv` is about blocks: the base is in a block that has the limit OCLIM and seven cells more; the
place where code is written (`At`) is at most at OCLIM between the parts of a statement and while
the expression of a goto is read, and at most four cells further while the others are; and the cell
kept for the failure exit (FRNCL) is one that has been written. That seven cells are enough is a
count along every path from one test of OCLIM to the next: INIT and its three cells, an operator,
the goto that skips a failure goto, the goto to the next block. `WithinBlocksHolds` and `TypesHold`
assume that `"unchecked"` is not in `Defects`, as the statements that publish nothing break them
otherwise (section 5).

**`Storage_proofs`**. All four theorems follow from `Invariance`, i.e. `[]IInv(heap)`, with `IInv(H)
== Sound(H) /\ FRSGPT(H) <= TLSGP1 /\ Safe(H)`. `Sound` says that blocks tile the region (`Tiling`),
that titles and nothing else but characters look like titles (`Titled`), that fields and the
program's descriptors point to a string or into a block (`FieldsRight`, `RootsRight`), and that the
bin's links go through its strings in the order of some numbering (`Chain`), so that a walk along
the links ends and passes all of them. `Safe` is about the specifiers left at scratch space, which
`Sound` allows to be anything. None of it is inductive alone: what a regeneration keeps of the chain
depends on where blocks go, and where TOP leads depends on titles and on what points there.

The regeneration comes first. By `RegeneratedIs` storage afterwards is the blocks that stay, one
behind the other, each as it was but for pointers adjusted and the mark gone; `MovedTo` gives the
place of every block. The closure `Marked` is complete as it has taken as many turns as there are
blocks, so that what a kept block refers to is kept (`MovedSound`); links skip the strings that go
(`NextKept`). `Carries` sums up what an operation may rely on across a regeneration: its descriptors
lead where they led, and `LSTPTR` and `BUKPTR`, found before it, are still the place in the chain
for the string being entered (`Gap`). Then `EnteredSound` is LOCA7, at a place found before or after
a regeneration, and each action has a lemma.

`StorageTiled` and `BinComplete` need no hypothesis: also in a program that folds names where they
stand the bin loses no string, it only has it out of order. `StringsInterned` assumes
`Raised` to be empty, as GENVUP breaks it otherwise, and `TitlesFound` that names are not folded or
that no character reads as a title, as VPXPTR breaks it otherwise (section 5); the runs
are within these hypotheses. Induction on blocks, chains and turns is by least
counterexamples in `Nat`, as for `Sorting`.

**`Match_proofs`**. `StackIsOwned`, `LinksAreOwned` and `HistoryAlwaysUndoes` hold for all patterns,
subjects, modes and statements inside statements. One half is about patterns
(`Levels_proofs`, which goes on with what a match has on its stacks and history list). `GoodPattern` gives each node
its place, the starts of ARBNO(), `.` and `$` that are on the stack when it is matched, and says that
links lead to nodes whose place is what the node leaves, that what closes is open, and that the nodes
that only an entry of the history list may lead to (of ARBNO() and `*X`) are led to by no other. What MAKNOD,
CONCAT, OR, NAM5 and ARBNO make of good patterns is good (`MadeGood`, by way of `Placed`: a
copy at an offset, further inside, before another pattern), so that all that is made of one another in
any number of steps is (`BuiltGood`).

The other half is about matches. The three properties are not inductive, as what a procedure finds on
the stack is what backing up has put there. `IInv` reads the history list from its end: an entry
leads from the levels at which it is taken, i.e. the SCINs in progress, each with its pattern and its starts on the
stack, back to the levels below it (`Step`), and the first one to those the statement began with
(`Steps`). The stack and the calls are those of some levels (`Stands`), which are those the history list leads to, up to what
the running procedure has taken or pushed (`Phase`); and each statement that waits for one inside it has the same
for its own part of the lists (`Suspended`). That needs the heuristics too: in quickscan mode a
node may be left before it runs, and the proof has to know that the node of ARBNO() and the
one that undoes it (ARBF) need the same number of characters, else one would run
without the other (`Short`). Each matching procedure is a lemma, and counting the entries
of the list gives `HistoryAlwaysUndoes`.

There are two hypotheses. `PatternsBuilt`: patterns are made by these procedures from nodes whose least length is
what they take (`Fits`), with arguments that are integers where they must be, and `$` does not assign
a keyword: these errors leave cells on the stack or take too many (section 5). All patterns of the
runs but those of `NotInteger` and `Keyword` are such. `AfterConstant`: X has the value it had when `*X` was
first evaluated. Otherwise STAR has put another one into the node that the entries of the first one
refer to (section 5).

Checked by TLC only: the refinement `StoreSpec`, which relates a heap to one with other addresses by
a simulation that no theorem here has; `Answers` of `Match`, whose reference is a RECURSIVE
operator, which the provers cannot use, and its other properties where `*X` changes and arguments are
errors; `TreeRight`, `CodeRight` and `LabelsRight` of `Compiler`, which compare with
what a recursion computes of the text and so are inductions over data; the violations
of section 5; and liveness, `Halts`, `ReadTerminates` and `Terminates` among it, as fairness needs ENABLED.
