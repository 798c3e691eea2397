------------------------------ MODULE LoadLib ------------------------------
(***************************************************************************)
(* LOAD(), UNLOAD() and calls of external functions: lib/loadx.c, and      *)
(* LOAD, UNLOAD, LNKFNC in v311.sil.                                       *)
(*                                                                         *)
(* A library is opened once however many names and functions it is loaded  *)
(* by, and closed with its last function: struct lib counts its functions, *)
(* and the operating system counts opens.  A function descriptor of the    *)
(* interpreter holds the bare address of a struct func, which UNLOAD()     *)
(* frees; OPSYN() copies descriptors, and the arguments of a call are      *)
(* evaluated between fetching the descriptor and calling through it.       *)
(***************************************************************************)
EXTENDS Naturals, FiniteSets, Sequences

CONSTANTS
  Fns,      \* names of functions
  Pml,      \* those linked into the interpreter, which need no library
  LibNames, \* library names as written in LOAD()
  AbsNames, \* absolute names of them, which may be misspelt
  Libs,     \* library files
  Addrs,    \* addresses malloc may return for a struct func
  NULL,     \* no library, no name, an undefined function
  UnloadsPml \* whether the program unloads a function of Pml

ASSUME FnsAssumption == Pml \subseteq Fns
ASSUME NamesAssumption == AbsNames \subseteq LibNames
ASSUME NullAssumption == NULL \notin Libs \cup LibNames
ASSUME FlagAssumption == UnloadsPml \in BOOLEAN

VARIABLES
  libs,    \* per file: the name it is listed under, or NULL; refcount; os,
           \* how often it is open
  funcs,   \* the list of struct func, newest first
  desc,    \* per function name: the struct func its descriptor points to
           \* (as it was when loaded), or NULL
  calling, \* descriptors of calls whose arguments are being evaluated
  fault,   \* "none"; "nulllib": libclose(NULL); "nolib": a symbol looked up
           \* in no library; "freed", "wrong": a call through a freed
           \* struct func, or one that took its place
  aliases  \* whether this is a program that calls functions it has unloaded:
           \* by a name OPSYN() made, or from the arguments of the call

vars == <<libs, funcs, desc, calling, fault, aliases>>

Func == [addr : Addrs, fn : Fns, lib : Libs \cup {NULL}]
Elems(s) == {s[i] : i \in DOMAIN s}
Live == {r.addr : r \in Elems(funcs)}

Init ==
  /\ libs = [l \in Libs |-> [name |-> NULL, refcount |-> 0, os |-> 0]]
  /\ funcs = <<>>
  /\ desc = [f \in Fns |-> NULL]
  /\ calling = <<>>
  /\ fault = "none"
  /\ aliases \in BOOLEAN

-----------------------------------------------------------------------------
(* libopen: a listed name is taken from the list; any other is opened, and *)
(* when it turns out to be a listed file, that open is undone at once.     *)

\* Mutation: the list is not searched by name.
AnyFile(n, l) == TRUE

Resolves(n, l) == (\E m \in Libs : libs[m].name = n) => libs[l].name = n

\* Mutation: a file known under another name is left open twice.
KeepsOpen(L, n, l) ==
  [L EXCEPT ![l] = [name     |-> IF @.name = NULL THEN n ELSE @.name,
                    refcount |-> @.refcount + 1,
                    os       |-> IF @.name = n THEN @.os ELSE @.os + 1]]

libopen(L, n, l) ==
  [L EXCEPT ![l] = [name     |-> IF @.name = NULL THEN n ELSE @.name,
                    refcount |-> @.refcount + 1,
                    os       |-> IF @.name = NULL THEN @.os + 1 ELSE @.os]]

(* libclose: the last function's library is closed and unlisted.           *)

libclose(L, l) ==
  IF L[l].refcount > 1 THEN [L EXCEPT ![l].refcount = @ - 1]
  ELSE [L EXCEPT ![l] = [name |-> NULL, refcount |-> 0, os |-> @.os - 1]]

(* A struct func is put at the head of the list, and the name defined.     *)
Define(f, l) ==
  \E a \in Addrs \ Live :
    LET r == [addr |-> a, fn |-> f, lib |-> l]
    IN /\ funcs' = <<r>> \o funcs
       /\ desc' = [desc EXCEPT ![f] = r]

(* LOAD(): functions of Pml come first.  When the symbol is not found, or  *)
(* malloc fails, the library is closed again and LOAD() fails.             *)
LOAD(f, n, l) ==
  /\ fault = "none"
  /\ \/ f \in Pml /\ Define(f, NULL) /\ UNCHANGED libs
     \/ /\ f \notin Pml /\ Resolves(n, l)
        /\ \/ libs' = libopen(libs, n, l) /\ Define(f, l)
           \/ libs' = libclose(libopen(libs, n, l), l) /\ UNCHANGED <<funcs, desc>>
  /\ UNCHANGED <<calling, fault>>

(* No library is found for the name.  Only the search along SNOPATH, which *)
(* an absolute name does not get, ends in a test of the library.           *)
NotFound(f, n) ==
  /\ fault = "none"
  /\ f \notin Pml /\ \A m \in Libs : libs[m].name # n
  /\ fault' = IF n \in AbsNames THEN "nolib" ELSE fault
  /\ UNCHANGED <<libs, funcs, desc, calling>>

(* funload: the newest function of that name.                              *)

\* Mutation: the search goes on to the oldest.
Oldest(f, i) == funcs[i].fn = f /\ \A j \in DOMAIN funcs : funcs[j].fn = f => j <= i

Newest(f, i) == funcs[i].fn = f /\ \A j \in DOMAIN funcs : funcs[j].fn = f => i <= j

Without(i) == SubSeq(funcs, 1, i - 1) \o SubSeq(funcs, i + 1, Len(funcs))

funload(f) ==
  \/ /\ \A i \in DOMAIN funcs : funcs[i].fn # f
     /\ UNCHANGED <<libs, funcs, fault>>
  \/ \E i \in DOMAIN funcs :
       /\ Newest(f, i)
       /\ funcs' = Without(i)
       /\ IF funcs[i].lib = NULL
          THEN fault' = "nulllib" /\ UNCHANGED libs
          ELSE libs' = libclose(libs, funcs[i].lib) /\ UNCHANGED fault

UNLOAD(f) ==
  /\ fault = "none"
  /\ f \in Pml => UnloadsPml
  /\ calling # <<>> => aliases
  /\ desc' = [desc EXCEPT ![f] = NULL]
  /\ funload(f)
  /\ UNCHANGED calling

-----------------------------------------------------------------------------
(* OPSYN(g, f): g gets f's descriptor.                                     *)
OPSYN(g, f) ==
  /\ fault = "none" /\ aliases
  /\ desc' = [desc EXCEPT ![g] = desc[f]]
  /\ UNCHANGED <<libs, funcs, calling, fault>>

(* A call: LNKFNC fetches the definition block, then evaluates the         *)
(* arguments, then links to the address in the block.  (One call at a time *)
(* waits for its arguments.)                                               *)
LNKFNC(f) ==
  /\ fault = "none" /\ calling = <<>>
  /\ desc[f] # NULL
  /\ calling' = <<desc[f]>>
  /\ UNCHANGED <<libs, funcs, desc, fault>>

callx ==
  /\ fault = "none" /\ calling # <<>>
  /\ calling' = <<>>
  /\ LET r == calling[1]
     IN fault' = IF r \in Elems(funcs) THEN "none"
                 ELSE IF r.addr \in Live THEN "wrong" ELSE "freed"
  /\ UNCHANGED <<libs, funcs, desc>>

Next ==
  /\ \/ \E f \in Fns, n \in LibNames, l \in Libs : LOAD(f, n, l)
     \/ \E f \in Fns, n \in LibNames : NotFound(f, n)
     \/ \E f \in Fns : UNLOAD(f) \/ LNKFNC(f)
     \/ \E f, g \in Fns : OPSYN(g, f)
     \/ callx
  /\ UNCHANGED aliases

Spec == Init /\ [][Next]_vars

-----------------------------------------------------------------------------
TypeOK ==
  /\ libs \in [Libs -> [name : LibNames \cup {NULL}, refcount : Nat, os : Nat]]
  /\ funcs \in Seq(Func)
  /\ desc \in [Fns -> Func \cup {NULL}]
  /\ calling \in Seq(Func) /\ Len(calling) <= 1
  /\ fault \in {"none", "nulllib", "nolib", "freed", "wrong"}
  /\ aliases \in BOOLEAN

UsersOf(l) == {r \in Elems(funcs) : r.lib = l}

(* A library is open, once, exactly while the list holds a function of it: *)
(* no call reaches code that was closed, and no library stays open for     *)
(* ever, whatever names and failed LOAD()s there were.                     *)
OpenWhileUsed ==
  \A l \in Libs :
    LET used == Cardinality(UsersOf(l))
    IN /\ libs[l].refcount = used
       /\ libs[l].os = IF used > 0 THEN 1 ELSE 0
       /\ libs[l].name # NULL <=> used > 0

(* libopen searches by name: a name never stands for two open files.       *)
OneFilePerName ==
  \A l, m \in Libs : libs[l].name = libs[m].name /\ libs[l].name # NULL => l = m

(* A program that calls a function under its own name only calls what it   *)
(* loaded last: UNLOAD() frees the struct func it undefines, although it   *)
(* finds it by name, in a list that keeps redefined functions too.         *)
CallsNewest ==
  ~ aliases =>
    /\ \A f \in Fns : desc[f] # NULL =>
         \E i \in DOMAIN funcs : funcs[i] = desc[f] /\ Newest(f, i)
    /\ fault \notin {"freed", "wrong"}
=============================================================================
