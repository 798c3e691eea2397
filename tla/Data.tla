-------------------------------- MODULE Data --------------------------------
(***************************************************************************)
(* Arrays, tables and objects of DATA(): ARRAY, ASSOC (TABLE), DATDEF      *)
(* (DATA), DEFDAT (constructors), FIELD, ITEM, the assignment ASGN to an   *)
(* element, ICNVTA, CNVTA and CNVAT (CONVERT), COPY, FREEZE, THAW, SORT1.  *)
(*                                                                         *)
(* A table is a list of extents, blocks of slots that never move relative  *)
(* to one another.  ITEM gives the name of an element, a pointer into its  *)
(* block, and makes a slot for a key that has none; what is done with the  *)
(* name comes later, after anything else the program does in between.      *)
(*                                                                         *)
(* wait is the C stack: the procedures that wait for a value while the     *)
(* program does other things.  todo is what they wait for, or that the     *)
(* program is to do the next.  The addresses of blocks are the numbers of  *)
(* the objects; regeneration keeps their order.                            *)
(***************************************************************************)
EXTENDS Sorting, FiniteSets, FiniteSetsExt

CONSTANTS
    Literals,   \* the values the program writes
    Starts,     \* objects and types the program may have, and how many steps it then takes
    Protos,     \* the prototypes of ARRAY()
    Sizes,      \* the sizes of TABLE()
    EXTSIZ,     \* its default
    Defs,       \* the prototypes of DATA()
    MaxObjects, MaxTypes, MaxWait,  \* bounds
    Defects     \* what the program does that the code does not do right:
                \*   "shrinks"     it takes entries from a table while SORT() of it
                \*                 evaluates its second argument
                \*   "duplicates"  it makes a table from an array with equal keys
                \*   "empty"       it sorts or converts an array of no rows
                \*   "cyclic"      it sorts by a field that leads back to its object

Values == [type : Nat, v : Int]
ASSUME LiteralsAssumption == Literals \subseteq {x \in Values : x.type \in {S, I, R}}
ASSUME SizesAssumption == /\ Protos \subseteq Seq([low : Int, n : Int])
                          /\ Sizes \subseteq Int /\ EXTSIZ \in Nat \ {0}
ASSUME DefsAssumption == \A d \in Defs : /\ d.fields \in Seq(Values) /\ d.good \in BOOLEAN
                                         /\ d.good => d.fields # <<>>
ASSUME DefectsAssumption == Defects \subseteq {"shrinks", "duplicates", "empty", "cyclic"}

VARIABLES
    obj,        \* the blocks
    made,       \* per type of DATA(), its fields
    types,      \* per constructor, the type it makes objects of
    fields,     \* per field function, its pairs of a type and an offset
    wait, todo,
    steps       \* bound: what the program may still do

vars == <<obj, made, types, fields, wait, todo, steps>>
defs == <<made, types, fields>>

Null == [type |-> S, v |-> 0]
Free == [type |-> 0, v |-> 0]
Ref(k) == [type |-> obj[k].type, v |-> k]
Objects == DOMAIN obj
OfType(t) == {k \in Objects : obj[k].type = t}
Operands == Literals \cup {Null} \cup {Ref(k) : k \in Objects}
IsTable(b) == b.type = T

TypeNames == {d.name : d \in Defs}
FieldNames == UNION {ToSet(d.fields) : d \in Defs}

\* What the program does next, and what is returned to what waits.
Fetch == [op |-> "fetch"]
By(p) == [proc |-> p]
Value(v) == [op |-> "value", v |-> v, by |-> By("none")]
Name(k, at) == [op |-> "name", obj |-> k, at |-> at]
Crash == [op |-> "crash"]

Fetches == todo.op = "fetch" /\ steps > 0 /\ steps' = steps - 1
Waits(p) == wait # <<>> /\ Last(wait).proc = p
Room == Len(obj) < MaxObjects

FAIL == wait' = <<>> /\ todo' = Fetch

Init == /\ \E s \in Starts : /\ obj = s.obj /\ made = s.made /\ types = s.types
                             /\ fields = s.fields /\ steps = s.steps
        /\ wait = <<>> /\ todo = Fetch

-----------------------------------------------------------------------------
(* Elements.  The place of an element is an extent and a slot; an array or  *)
(* an object has one extent.                                                *)

Slot(key, v) == [key |-> key, v |-> v]
At(b, at) == b.ext[at[1]][at[2]]
Places(b) == UNION {{<<e, i>> : i \in DOMAIN b.ext[e]} : e \in DOMAIN b.ext}
Earlier(p, q) == p[1] < q[1] \/ (p[1] = q[1] /\ p[2] < q[2])
First(places) == CHOOSE p \in places : \A q \in places \ {p} : Earlier(p, q)
\* The members of a finite set of places in the order they come in.
Ordered(places) ==
    [n \in 1 .. Cardinality(places) |->
        CHOOSE p \in places : Cardinality({q \in places : q = p \/ Earlier(q, p)}) = n]

\* ASSOCE: an extent of n slots.
Extent(n) == [i \in 1 .. n |-> Slot(Free, Null)]

\* LOCAPV, for the extents one by one; and for a free slot, which only the last one has.
\* Mutation: only the last extent is looked at.
WithKeyInLast(b, key) == {p \in Places(b) : p[1] = Len(b.ext) /\ At(b, p).key = key}
WithKey(b, key) == {p \in Places(b) : At(b, p).key = key}
FreeIn(b) == {p \in Places(b) : p[1] = Len(b.ext) /\ At(b, p).key = Free}

\* Mutation: the new extent becomes the first.
Prepended(ext, n) == <<Extent(n)>> \o ext
\* A table whose last extent is full is given another one.
Extended(ext, n) == Append(ext, Extent(n))
Roomy(b) == IF FreeIn(b) # {} THEN b.ext ELSE Extended(b.ext, b.grow)
Unused(b) == IF FreeIn(b) # {} THEN First(FreeIn(b)) ELSE <<Len(Roomy(b)), 1>>
Keyed(b, at, key) == [b EXCEPT !.ext = [Roomy(b) EXCEPT ![at[1]][at[2]].key = key]]

\* ASSCR: the element of a table.
ItemTable(k, key) ==
    LET b == obj[k]
    IN  \/ /\ WithKey(b, key) # {}
           /\ todo' = Name(k, First(WithKey(b, key))) /\ UNCHANGED obj
        \/ /\ WithKey(b, key) = {} /\ b.frozen
           /\ todo' = Value(Null) /\ UNCHANGED obj
        \/ /\ WithKey(b, key) = {} /\ ~b.frozen
           /\ obj' = [obj EXCEPT ![k] = Keyed(b, Unused(b), key)]
           /\ todo' = Name(k, Unused(b))

\* ARYAD2 .. ARYA12: subscripts that are missing are 0; the last one counts first.
Missing(subs, n) == subs \o [i \in 1 .. n - Len(subs) |-> 0]
Offset(dims, subs) ==
    LET after[n \in 0 .. Len(dims)] ==
            LET d == Len(dims) + 1 - n
            IN  IF n = 0 THEN 0 ELSE after[n - 1] * dims[d].n + (subs[d] - dims[d].low)
    IN  after[Len(dims)]
InBounds(dims, subs) == \A d \in DOMAIN dims : subs[d] - dims[d].low \in 0 .. dims[d].n - 1

ITEM ==
    /\ Fetches
    /\ \/ \E k \in OfType(T), key \in Operands : ItemTable(k, key) /\ UNCHANGED wait
       \/ \E k \in OfType(A), n \in 1 .. 3 : \E subs \in [1 .. n -> 0 .. 2] :
            /\ UNCHANGED obj
            /\ LET dims == obj[k].dims
                   all == Missing(subs, Len(dims))
               IN  IF n > Len(dims) \/ ~InBounds(dims, all) THEN FAIL
                   ELSE todo' = Name(k, <<1, Offset(dims, all) + 1>>) /\ UNCHANGED wait
    /\ UNCHANGED defs

\* The value of an element that was returned as a name (ARGVAL and the like).
GetsName == todo.op = "name"
Dereferenced ==
    /\ GetsName /\ ~(Waits("ASGN") /\ Last(wait).name = <<>>)
    /\ todo' = Value(At(obj[todo.obj], todo.at).v)
    /\ UNCHANGED <<obj, defs, wait, steps>>

\* A value that nothing waits for.
StatementEnds ==
    /\ todo.op = "value" /\ wait = <<>>
    /\ todo' = Fetch
    /\ UNCHANGED <<obj, defs, wait, steps>>

\* The value of a variable, or a literal; assignments to variables are left out.
Operand ==
    /\ todo.op = "fetch" /\ wait # <<>>
    /\ \E v \in Operands : todo' = Value(v)
    /\ UNCHANGED <<obj, defs, wait, steps>>

\* An assignment: its left side gives a name, which is kept while the right side
\* is evaluated.
ASGN ==
    /\ Fetches /\ Len(wait) < MaxWait
    /\ wait' = Append(wait, [proc |-> "ASGN", name |-> <<>>])
    /\ UNCHANGED <<obj, defs, todo>>

ASGNN ==
    /\ Waits("ASGN") /\ Last(wait).name = <<>>
    /\ \/ /\ GetsName
          /\ wait' = Append(Front(wait), [proc |-> "ASGN", name |-> <<todo.obj, todo.at>>])
          /\ todo' = Fetch
       \/ todo.op = "value" /\ FAIL   \* NEMO
    /\ UNCHANGED <<obj, defs, steps>>

\* SORT1 has counted the rows of k and waits for its second argument.
Counted(k) == \E w \in DOMAIN wait : wait[w].proc = "SORT1" /\ wait[w].obj = k
Assigned(b, at, v) == [b EXCEPT !.ext[at[1]][at[2]].v = v]
ASGNV ==
    /\ Waits("ASGN") /\ Last(wait).name # <<>> /\ todo.op = "value"
    /\ LET k == Last(wait).name[1]
           at == Last(wait).name[2]
       IN  /\ (IsTable(obj[k]) /\ Counted(k) /\ todo.v = Null) => "shrinks" \in Defects
           /\ obj' = [obj EXCEPT ![k] = Assigned(obj[k], at, todo.v)]
    /\ wait' = Front(wait)
    /\ todo' = Value(todo.v)
    /\ UNCHANGED <<defs, steps>>

-----------------------------------------------------------------------------
(* Blocks that are made.                                                    *)

Block(type, dims, ext, grow) ==
    [type |-> type, dims |-> dims, ext |-> ext, grow |-> grow, frozen |-> FALSE]
\* b is returned, by whom; x says from what.
Made(b, x) ==
    /\ obj' = Append(obj, b)
    /\ todo' = [op |-> "value", v |-> [type |-> b.type, v |-> Len(obj) + 1], by |-> x]

\* LENERR for a negative size.
ASSOC ==
    /\ Fetches /\ Room
    /\ \E size, grow \in Sizes :
         IF size < 0 \/ grow < 0 THEN FAIL /\ UNCHANGED obj
         ELSE LET n(x) == IF x = 0 THEN EXTSIZ ELSE x
              IN  Made(Block(T, <<>>, <<Extent(n(size))>>, n(grow)), By("ASSOC")) /\ UNCHANGED wait
    /\ UNCHANGED defs

Elements(dims) ==
    LET after[n \in 0 .. Len(dims)] ==
            IF n = 0 THEN 1 ELSE after[n - 1] * dims[Len(dims) + 1 - n].n
    IN  after[Len(dims)]
Filled(dims, v) == [i \in 1 .. Elements(dims) |-> Slot(Free, v)]
ARRAY ==
    /\ Fetches /\ Room
    /\ \E dims \in Protos, v \in Operands :
         IF dims = <<>> \/ \E d \in ToSet(dims) : d.n < 0 THEN FAIL /\ UNCHANGED obj
         ELSE Made(Block(A, dims, <<Filled(dims, v)>>, 0), By("ARRAY")) /\ UNCHANGED wait
    /\ UNCHANGED defs

\* A block and what it points to; not tables.
COPY ==
    /\ Fetches /\ Room
    /\ \E k \in Objects : IF IsTable(obj[k]) THEN FAIL /\ UNCHANGED obj
                          ELSE Made(obj[k], By("COPY")) /\ UNCHANGED wait
    /\ UNCHANGED defs

FREEZE == /\ Fetches
          /\ \E k \in OfType(T) : obj' = [obj EXCEPT ![k].frozen = TRUE]
          /\ todo' = Value(Null) /\ UNCHANGED <<defs, wait>>
THAW == /\ Fetches
        /\ \E k \in OfType(T) : obj' = [obj EXCEPT ![k].frozen = FALSE]
        /\ todo' = Value(Null) /\ UNCHANGED <<defs, wait>>

-----------------------------------------------------------------------------
(* Tables and arrays made from one another.                                 *)

NotNull(b) == {p \in Places(b) : At(b, p).v # Null}

\* CNVTA1 .. CNVTA2: the entries of an extent that are not null are counted from its last slot
\* to its first.
CountedIn(ext) ==
    LET after[i \in 0 .. Len(ext)] ==
            IF i = 0 THEN 0
            ELSE IF ext[Len(ext) + 1 - i].v = Null THEN after[i - 1] ELSE after[i - 1] + 1
    IN  after[Len(ext)]

\* CNVTA7 .. CNVTA6: so they are extent by extent.
\* Mutation: the count starts anew with every extent.
ICNVTALast(b) == CountedIn(Last(b.ext))
ICNVTA(b) ==
    LET after[e \in 0 .. Len(b.ext)] ==
            IF e = 0 THEN 0 ELSE after[e - 1] + CountedIn(b.ext[e])
    IN  after[Len(b.ext)]

\* CNVTA3 .. CNVTA5 and SORTT2 .. SORTT3: the places of those of extent e, from its first slot on.
EntriesIn(b, e) ==
    LET after[i \in 0 .. Len(b.ext[e])] ==
            IF i = 0 THEN <<>>
            ELSE IF At(b, <<e, i>>).v = Null THEN after[i - 1] ELSE Append(after[i - 1], <<e, i>>)
    IN  after[Len(b.ext[e])]

\* CNVTA8 and SORTT1: of all extents.
EntriesOf(b) ==
    LET after[e \in 0 .. Len(b.ext)] ==
            IF e = 0 THEN <<>> ELSE after[e - 1] \o EntriesIn(b, e)
    IN  after[Len(b.ext)]

Height(b) == b.dims[1].n
Columns(b) == IF Len(b.dims) = 1 THEN 1 ELSE b.dims[2].n
Rectangle(rows) == <<[low |-> 1, n |-> rows], [low |-> 1, n |-> 2]>>
\* The keys of these places in the first column, their values in the second.
FromPlaces(b, places) ==
    Block(A, Rectangle(Len(places)),
          <<[i \in DOMAIN places |-> Slot(Free, At(b, places[i]).key)]
            \o [i \in DOMAIN places |-> Slot(Free, At(b, places[i]).v)]>>, 0)

\* CNVTA8 .. CNVTA5: an array of n rows is filled with the entries of b one by one, the values
\* n cells after the keys.
Filling(b, n) ==
    LET places == EntriesOf(b)
        after[i \in 0 .. Len(places)] ==
            IF i = 0 THEN Filled(Rectangle(n), Null)
            ELSE [after[i - 1] EXCEPT ![n + i] = Slot(Free, At(b, places[i]).v),
                                      ![i] = Slot(Free, At(b, places[i]).key)]
    IN  Block(A, Rectangle(n), <<after[Len(places)]>>, 0)

CNVTA ==
    /\ Fetches /\ Room
    /\ \E k \in OfType(T) :
         LET n == ICNVTA(obj[k])
         IN  IF n = 0 THEN FAIL /\ UNCHANGED obj
             ELSE Made(Filling(obj[k], n), [proc |-> "CNVTA", of |-> k]) /\ UNCHANGED wait
    /\ UNCHANGED defs

\* The keys of a table in the first column, their values in the second.
KeysOf(b) == [i \in 1 .. Height(b) |-> b.ext[1][i].v]
TableOf(b) ==
    Block(T, <<>>, <<[i \in 1 .. Height(b) |-> Slot(KeysOf(b)[i], b.ext[1][Height(b) + i].v)]>>, EXTSIZ)
TwoColumns(b) == Len(b.dims) = 2 /\ Columns(b) = 2
CNVAT ==
    /\ Fetches /\ Room
    /\ \E k \in OfType(A) :
         LET b == obj[k]
         IN  \/ ~TwoColumns(b) /\ FAIL /\ UNCHANGED obj
             \/ /\ TwoColumns(b) /\ Height(b) = 0
                /\ "empty" \in Defects
                /\ todo' = Crash /\ UNCHANGED <<obj, wait>>
             \/ /\ TwoColumns(b) /\ Height(b) > 0
                /\ IsInjective(KeysOf(b)) \/ "duplicates" \in Defects
                /\ Made(TableOf(b), By("CNVAT")) /\ UNCHANGED wait
    /\ UNCHANGED defs

-----------------------------------------------------------------------------
(* SORT() and RSORT().                                                      *)

IsData(v) == v.type >= DATSTA   \* a value or a block
\* LOCAPT: the first pair of a type.
PairsOf(list, t) == {i \in DOMAIN list : list[i].type = t}
FieldAt(f, t) == fields[f][Min(PairsOf(fields[f], t))].at
HasField(v, f) == IsData(v) /\ PairsOf(fields[f], v.type) # {}
FieldOf(v, f) == obj[v.v].ext[1][FieldAt(f, v.type)].v

\* COTH: objects are compared by the value of the field, which may be an object again.
Followed(v, f) ==
    LET after[n \in 0 .. Len(obj)] ==
            IF n = 0 THEN v
            ELSE IF HasField(after[n - 1], f) THEN FieldOf(after[n - 1], f) ELSE after[n - 1]
    IN  after[Len(obj)]
KeyOf(v, by) == IF by.field THEN Followed(v, by.f) ELSE v

\* The places of the rows' keys: by.c counts columns from 0.
RowsOf(b, by, n) ==
    IF IsTable(b) THEN SubSeq(EntriesOf(b), 1, n)
    ELSE [i \in 1 .. n |-> <<1, by.c * n + i>>]
KeyAt(b, by, p) == IF IsTable(b) /\ by.c = 0 THEN At(b, p).key ELSE At(b, p).v
SortKeys(b, by, n) == [i \in 1 .. n |-> KeyOf(KeyAt(b, by, RowsOf(b, by, n)[i]), by)]

\* SORT12: the rows are copied in their order.
Arranged(b, n, rows) ==
    IF IsTable(b) THEN FromPlaces(b, [i \in 1 .. n |-> EntriesOf(b)[rows[i]]])
    ELSE [b EXCEPT !.ext = <<[i \in DOMAIN b.ext[1] |->
             LET c == (i - 1) \div n IN b.ext[1][c * n + rows[i - c * n]]]>>]

\* SORT5: the n rows that were counted are sorted; entries that have come since are left out.
Sorts(k, by, n, down, rest) ==
    LET b == obj[k]
        keys == SortKeys(b, by, n)
    IN  IF IsTable(b) /\ Len(EntriesOf(b)) < n THEN todo' = Crash /\ UNCHANGED <<obj, wait>>
        ELSE IF n > 1 /\ by.field /\ \E i \in 1 .. n : IsData(keys[i])
        THEN IF \E i \in 1 .. n : HasField(keys[i], by.f)
             THEN "cyclic" \in Defects /\ todo' = Crash /\ UNCHANGED <<obj, wait>>
             ELSE FAIL /\ UNCHANGED obj
        ELSE /\ Made(Arranged(b, n, SORT1(keys, down)),
                     [proc |-> "SORT1", of |-> k, key |-> by, n |-> n, down |-> down])
             /\ wait' = rest

ByColumn(c) == [field |-> FALSE, c |-> c]
ByField(f) == [field |-> TRUE, c |-> 0, f |-> f]
Count(b) == IF IsTable(b) THEN ICNVTA(b) ELSE Height(b)

\* With or without a second argument, which is evaluated after the entries of a table
\* were counted.
SORT ==
    /\ Fetches /\ Room
    /\ \E k \in OfType(A) \cup OfType(T), down \in BOOLEAN :
         LET b == obj[k]
         IN  \/ /\ IF IsTable(b) THEN ICNVTA(b) = 0 ELSE Len(b.dims) > 2   \* INTR30
                /\ FAIL /\ UNCHANGED obj
             \/ /\ ~IsTable(b) /\ Len(b.dims) < 3 /\ Places(b) = {}
                /\ "empty" \in Defects
                /\ todo' = Crash /\ UNCHANGED <<obj, wait>>
             \/ /\ IF IsTable(b) THEN ICNVTA(b) # 0 ELSE Len(b.dims) < 3 /\ Places(b) # {}
                /\ \/ Sorts(k, ByColumn(0), Count(b), down, wait)
                   \/ /\ Len(wait) < MaxWait
                      /\ wait' = Append(wait, [proc |-> "SORT1", obj |-> k, n |-> Count(b), down |-> down])
                      /\ UNCHANGED <<obj, todo>>
    /\ UNCHANGED defs

\* SORT3: a number of a column, which the null string is too (SPCINT), or, with one dimension,
\* the name of a field function.
KeyChosen(b, v) ==
    LET columns == IF IsTable(b) THEN 2 ELSE Columns(b)
        low == IF IsTable(b) \/ Len(b.dims) = 1 THEN 1 ELSE b.dims[2].low
        number == (v.type \in {I, R} /\ ~IsNaN(v)) \/ v = Null
    IN  CASE number /\ v.v - low \in 0 .. columns - 1 -> <<ByColumn(v.v - low)>>
          [] ~number /\ v \in FieldNames /\ ~IsTable(b) /\ Len(b.dims) = 1 /\ fields[v] # <<>> -> <<ByField(v)>>
          [] OTHER -> <<>>

SORTV ==
    /\ Waits("SORT1") /\ todo.op = "value" /\ Room
    /\ LET w == Last(wait)
           by == KeyChosen(obj[w.obj], todo.v)
       IN  IF by = <<>> THEN FAIL /\ UNCHANGED obj
           ELSE Sorts(w.obj, by[1], w.n, w.down, Front(wait))
    /\ UNCHANGED <<defs, steps>>

-----------------------------------------------------------------------------
(* Types of DATA().                                                         *)

\* Mutation: the function only keeps the fields of the newest type.
AUGATLNewest(list, pairs) == IF pairs = <<>> THEN list ELSE pairs
AUGATL(list, pairs) == list \o pairs

\* The pairs of type t for the function f, one for each field of its name.
PairsFor(t, names, f) ==
    LET places == Ordered({<<1, i>> : i \in {j \in DOMAIN names : names[j] = f}})
    IN  [n \in DOMAIN places |-> [type |-> t, at |-> places[n][2]]]

\* The fields that were read before a mistake in the prototype have their functions;
\* the constructor is defined last.
DATDEF ==
    /\ Fetches /\ Len(made) < MaxTypes
    /\ \E d \in Defs :
         LET t == DATSTA + Len(made)
         IN  /\ made' = Append(made, d.fields)
             /\ fields' = [f \in FieldNames |-> AUGATL(fields[f], PairsFor(t, d.fields, f))]
             /\ IF d.good THEN types' = [types EXCEPT ![d.name] = [type |-> t, n |-> Len(d.fields)]]
                              /\ todo' = Value(Null) /\ UNCHANGED wait
                ELSE FAIL /\ UNCHANGED types
    /\ UNCHANGED obj

\* A call of a constructor; its arguments come one by one.
DEFDAT ==
    /\ Fetches /\ Len(wait) < MaxWait /\ Room
    /\ \E name \in TypeNames, n \in 1 .. 2 :
         /\ types[name].n > 0
         /\ wait' = Append(wait, [proc |-> "DEFDAT", name |-> name, args |-> <<>>, left |-> n])
    /\ UNCHANGED <<obj, defs, todo>>

\* DEFD4: arguments that are missing are null, and there may be too many.
Padded(args, n) == [i \in 1 .. n |-> IF i \in DOMAIN args THEN args[i] ELSE Null]

DEFD3 ==
    /\ Waits("DEFDAT") /\ todo.op = "value"
    /\ LET w == Last(wait)
           args == Append(w.args, todo.v)
           d == types[w.name]
       IN  IF w.left > 1
           THEN /\ wait' = Append(Front(wait), [w EXCEPT !.args = args, !.left = @ - 1])
                /\ todo' = Fetch /\ UNCHANGED obj
           ELSE /\ Room
                /\ Made(Block(d.type, <<>>, <<[i \in 1 .. d.n |-> Slot(Free, Padded(args, d.n)[i])]>>, 0), By("DEFDAT"))
                /\ wait' = Front(wait)
    /\ UNCHANGED <<defs, steps>>

\* A call of a field function.
FIELD ==
    /\ Fetches /\ Len(wait) < MaxWait
    /\ \E f \in FieldNames : /\ fields[f] # <<>>
                            /\ wait' = Append(wait, [proc |-> "FIELD", f |-> f])
    /\ UNCHANGED <<obj, defs, todo>>

\* FIELD1: what is no object with this field gives an error, and null does too.
FIELD1 ==
    /\ Waits("FIELD") /\ todo.op = "value"
    /\ LET f == Last(wait).f
           x == todo.v
       IN  IF HasField(x, f)
           THEN /\ todo' = Name(x.v, <<1, FieldAt(f, x.type)>>)
                /\ wait' = Front(wait)
           ELSE FAIL
    /\ UNCHANGED <<obj, defs, steps>>

Next ==
    \/ ITEM \/ Dereferenced \/ StatementEnds \/ Operand \/ ASGN \/ ASGNN \/ ASGNV
    \/ ASSOC \/ ARRAY \/ COPY \/ FREEZE \/ THAW \/ CNVTA \/ CNVAT \/ SORT \/ SORTV
    \/ DATDEF \/ DEFDAT \/ DEFD3 \/ FIELD \/ FIELD1

Spec == Init /\ [][Next]_vars

-----------------------------------------------------------------------------
\* A key is in one slot of a table at most, and slots are free only at its end.
KeyedOnce(b) ==
    /\ \A p, q \in Places(b) : At(b, p).key = At(b, q).key /\ At(b, p).key # Free => p = q
    /\ \A p, q \in Places(b) : At(b, p).key = Free /\ Earlier(p, q) => At(b, q).key = Free

\* An object has the fields of its type.
FieldsOfType(b, m) == Len(b.ext[1]) = Len(m[b.type - DATSTA + 1])

\* The functions of the fields of the type t find them.
FieldsFound(t, m, f) ==
    LET defined == m[t - DATSTA + 1]
    IN  \A i \in DOMAIN defined :
          LET pairs == PairsOf(f[defined[i]], t)
          IN  /\ pairs # {}
              /\ f[defined[i]][Min(pairs)].at = Min({j \in DOMAIN defined : defined[j] = defined[i]})

\* A value that is no free key; what it refers to is there.
IsValue(x, o) == /\ x \in Values /\ x.type # 0
                 /\ x.type \in {A, T} \/ IsData(x) => x.v \in DOMAIN o /\ o[x.v].type = x.type

\* A block of the objects o is as it should be, m being the types of DATA().
Blocks == [type : Nat, dims : Seq([low : Int, n : Nat]), ext : Seq(Seq([key : Values, v : Values])),
           grow : Nat, frozen : BOOLEAN]
Sound(b, o, m) ==
    /\ b.type \in {A, T} \/ b.type - DATSTA + 1 \in DOMAIN m
    /\ \A p \in Places(b) : IsValue(At(b, p).v, o) /\ (At(b, p).key = Free \/ IsValue(At(b, p).key, o))
    /\ IF IsTable(b)
       THEN /\ b.grow > 0 /\ b.ext # <<>> /\ (\A e \in DOMAIN b.ext : b.ext[e] # <<>>)
            /\ KeyedOnce(b)
            /\ \A p \in Places(b) : At(b, p).key = Free => p[1] = Len(b.ext) /\ At(b, p).v = Null
       ELSE /\ Len(b.ext) = 1
            /\ b.type = A => b.dims # <<>> /\ Len(b.ext[1]) = Elements(b.dims)
            /\ IsData(b) => FieldsOfType(b, m)

\* So are the types m, the constructors t and the field functions f.
SoundTypes(m, t, f) ==
    /\ m \in Seq(Seq(FieldNames))
    /\ t \in [TypeNames -> [type : Nat, n : Nat]] /\ f \in [FieldNames -> Seq([type : Nat, at : Nat])]
    /\ \A name \in TypeNames : LET i == t[name].type - DATSTA + 1
                               IN  t[name].n > 0 => i \in DOMAIN m /\ Len(m[i]) = t[name].n
    /\ \A g \in FieldNames : \A j \in DOMAIN f[g] :
         LET i == f[g][j].type - DATSTA + 1 IN i \in DOMAIN m /\ g \in ToSet(m[i])
    /\ \A i \in DOMAIN m : FieldsFound(DATSTA + i - 1, m, f)

ASSUME StartsAssumption ==
    \A s \in Starts : /\ s.obj \in Seq(Blocks) /\ s.steps \in Nat
                      /\ \A k \in DOMAIN s.obj : Sound(s.obj[k], s.obj, s.made)
                      /\ SoundTypes(s.made, s.types, s.fields)

-----------------------------------------------------------------------------
\* Data implements Maps.  The elements of a block that are not null, by their keys or places.
MapOf(b) ==
    IF IsTable(b)
    THEN [key \in {At(b, p).key : p \in NotNull(b)} |-> At(b, First(WithKey(b, key))).v]
    ELSE [p \in NotNull(b) |-> At(b, p).v]

\* The names that assignments hold, which are elements.
Names(frames) ==
    LET after[i \in 0 .. Len(frames)] ==
            IF i = 0 THEN <<>>
            ELSE IF frames[i].proc = "ASGN" /\ frames[i].name # <<>>
            THEN Append(after[i - 1], frames[i].name) ELSE after[i - 1]
    IN  after[Len(frames)]
ElementAt(name) ==
    LET b == obj[name[1]]
    IN  [obj |-> name[1], key |-> IF IsTable(b) THEN At(b, name[2]).key ELSE name[2]]

M == INSTANCE Maps WITH maps <- [k \in Objects |-> MapOf(obj[k])],
                        held <- [i \in DOMAIN Names(wait) |-> ElementAt(Names(wait)[i])]

\* Elements keep their values whatever is done to other elements and to the blocks they
\* are in, and what an assignment changes is the element its left side named (ITEM, ASGN).
MapsSpec == M!Spec

-----------------------------------------------------------------------------
\* Whatever extents a table has been given while names of its elements were in use,
\* a key is in one slot and the free slots are the last ones (ITEM, LOCAPV).
OneSlot == \A k \in OfType(T) : KeyedOnce(obj[k])

\* An object has the fields of the type it was made with, and each of their functions
\* finds its own in it, whatever DATA() has defined since, also by a prototype with a
\* mistake and while the arguments of the constructor were evaluated (DATDEF, DEFDAT, FIELD).
FieldsRight ==
    \A k \in Objects : IsData(obj[k]) => FieldsOfType(obj[k], made) /\ FieldsFound(obj[k].type, made, fields)

\* CONVERT() of a table gives a row for every key that has a value, and no other (CNVTA).
ConvertsAll ==
    todo.op = "value" /\ todo.by.proc = "CNVTA" =>
        LET x == obj[todo.v.v]
            b == obj[todo.by.of]
            n == Height(x)
            Row(i) == <<x.ext[1][i].v, x.ext[1][n + i].v>>
        IN  /\ {Row(i) : i \in 1 .. n} = {<<At(b, p).key, At(b, p).v>> : p \in NotNull(b)}
            /\ \A i, j \in 1 .. n : Row(i)[1] = Row(j)[1] => i = j

\* SORT() and RSORT() give the rows of an array or a table in the order of their keys,
\* rows with the same key in the order they had (SORT1).
SortRight ==
    todo.op = "value" /\ todo.by.proc = "SORT1" =>
        LET of == todo.by
            keys == SortKeys(obj[of.of], of.key, of.n)
        IN  \E rows \in [1 .. of.n -> 1 .. of.n] :
              /\ InOrder(rows, keys, of.down)
              /\ obj[todo.v.v].ext = Arranged(obj[of.of], of.n, rows).ext
=============================================================================
