------------------------------- MODULE MCData -------------------------------
(* Instances of Data for TLC.                                              *)
EXTENDS Data

s1 == [type |-> S, v |-> 1]
s2 == [type |-> S, v |-> 2]
i1 == [type |-> I, v |-> 1]
i2 == [type |-> I, v |-> 2]
r1 == [type |-> R, v |-> 1]
nan == [type |-> R, v |-> NotANumber]

i3 == [type |-> I, v |-> 3]
literals == {s1, i2}

Dim(low, n) == [low |-> low, n |-> n]
ArrayOf(dims, values) ==
    [type |-> A, dims |-> dims, ext |-> <<[i \in DOMAIN values |-> Slot(Free, values[i])]>>, grow |-> 0, frozen |-> FALSE]
TableWith(exts, n) ==
    [type |-> T, dims |-> <<>>, ext |-> exts, grow |-> n, frozen |-> FALSE]
ObjectOf(t, values) == [ArrayOf(<<>>, values) EXCEPT !.type = t]
Object(k, t) == [type |-> t, v |-> k]

\* DATA('P(1)') and DATA('Q(2,1)'), and prototypes with a mistake.
protosOfData == {
    [name |-> "P", fields |-> <<s1>>, good |-> TRUE],
    [name |-> "P", fields |-> <<s2, s1>>, good |-> TRUE],
    [name |-> "P", fields |-> <<s1>>, good |-> FALSE] }
noTypes == [made |-> <<>>, types |-> [n \in {"P"} |-> [type |-> 0, n |-> 0]], fields |-> [f \in {s1, s2} |-> <<>>]]
typeP == [made |-> <<<<s1>>>>, types |-> [n \in {"P"} |-> [type |-> DATSTA, n |-> 1]],
          fields |-> [f \in {s1, s2} |-> IF f = s1 THEN <<[type |-> DATSTA, at |-> 1]>> ELSE <<>>]]
From(objects, defined, n) == defined @@ [obj |-> objects, steps |-> n]

starts ==
    \* tables that are about to be extended, and a program that does what it likes
    {From(<<TableWith(exts, 1)>>, noTypes, 3) :
        exts \in {<<<<Slot(s1, i2), Slot(i2, s1)>>>>, <<<<Slot(s1, s1)>>, <<Slot(Free, Null)>>>>}}
    \* objects, in an array and of one another
    \cup {From(<<ObjectOf(DATSTA, <<i2>>), ArrayOf(<<Dim(1, 2)>>, <<Object(1, DATSTA), i1>>)>>, typeP, 4)}
    \* arrays to be sorted
    \cup {From(<<ArrayOf(<<Dim(1, 4)>>, v)>>, noTypes, 1) : v \in [1 .. 4 -> {s1, i1, i3, r1, nan}]}
    \cup {From(<<ArrayOf(<<Dim(1, 3), Dim(low, 2)>>, v)>>, noTypes, 1) :
              v \in [1 .. 6 -> {i1, i2}], low \in {0, 1}}

protos == {<<Dim(0, 2)>>, <<>>}
sizes == {-1, 0, 1}

=============================================================================
