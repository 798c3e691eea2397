----------------------------- MODULE FileLists -----------------------------
(***************************************************************************)
(* What the unit table of lib/io.c promises, without its pointers: a unit  *)
(* has the list of files REWIND() goes back to, and the list of files that *)
(* are still to be read.                                                   *)
(***************************************************************************)
EXTENDS Naturals, Sequences

CONSTANTS Units, UNITI, Files

VARIABLES kept, unread

lists == <<kept, unread>>

InUse == {f \in Files : \E u \in Units : \/ \E i \in DOMAIN kept[u] : kept[u][i] = f
                                         \/ \E i \in DOMAIN unread[u] : unread[u][i] = f}

(* Command-line files on UNITI, at most one file on any other unit.        *)
Init ==
  /\ kept \in [Units -> Seq(Files)]
  /\ \A u \in Units \ {UNITI} : Len(kept[u]) <= 1
  /\ \A u, v \in Units : \A i \in DOMAIN kept[u], j \in DOMAIN kept[v] :
       kept[u][i] = kept[v][j] => u = v /\ i = j
  /\ unread = kept

(* INPUT(), OUTPUT(), ENDFILE(), the end of compilation and exit give each *)
(* unit of U an empty list, or a list of one new file.                     *)
Given(U) ==
  /\ \A u \in Units \ U : unread'[u] = unread[u]
  /\ \A u \in U : /\ unread'[u] = kept'[u]
                  /\ kept'[u] # <<>> => \E f \in Files \ InUse : kept'[u] = <<f>>
  /\ \A u, v \in U : kept'[u] = kept'[v] /\ kept'[u] # <<>> => u = v
  /\ {kept', unread'} \subseteq [Units -> Seq(Files)]

Replace(U) == (\A u \in Units \ U : kept'[u] = kept[u]) /\ Given(U)

(* The end of compilation with -r forgets the files already read, and may  *)
(* replace the lists of other units.                                       *)
Forget(U) ==
  /\ \A u \in Units \ U : kept'[u] = IF u = UNITI THEN unread[u] ELSE kept[u]
  /\ Given(U)

(* End of file: on to the next file.                                       *)
Advance(u) ==
  /\ unread[u] # <<>>
  /\ unread' = [unread EXCEPT ![u] = Tail(@)]
  /\ UNCHANGED kept

(* REWIND(): the whole list is to be read again.                           *)
Rewind(u) == unread' = [unread EXCEPT ![u] = kept[u]] /\ UNCHANGED kept

(* -INCLUDE: a new file is read first; REWIND() never comes back to it.    *)
Push(f) ==
  /\ unread' = [unread EXCEPT ![UNITI] = <<f>> \o @]
  /\ UNCHANGED kept

Next ==
  \/ \E U \in SUBSET Units : Replace(U) \/ Forget(U)
  \/ \E u \in Units : Advance(u) \/ Rewind(u)
  \/ \E f \in Files \ InUse : Push(f)

Spec == Init /\ [][Next]_lists
=============================================================================
