------------------------------ MODULE Sorting ------------------------------
(***************************************************************************)
(* SORT() and RSORT(): the comparison of two values and the sort of SORT1, *)
(* which exchanges rows that are ever closer to one another, and, apart    *)
(* from that, what it is to be sorted.  A value has the type code of the   *)
(* interpreter (equ.h); v is what values of one type are ordered by: the   *)
(* order of strings, a number, or the address of a block.                  *)
(***************************************************************************)
EXTENDS Integers, Sequences, SequencesExt

CONSTANT Exact   \* the integers up to which each is a real number too
ASSUME ExactAssumption == Exact \in Nat

S == 1
A == 4
T == 5
I == 6
R == 7
DATSTA == 100   \* the first type of DATA()

NotANumber == 99
IsNaN(x) == x.type = R /\ x.v = NotANumber
Numbers(x, y) == {x.type, y.type} \subseteq {I, R}

Before(x, y) == IF x < y THEN "LT" ELSE IF x = y THEN "EQ" ELSE "GT"

\* An integer that is compared with a real is made one.
AsReal(x) == IF x.type = I /\ x.v > Exact THEN x.v - (x.v % 2) ELSE x.v

\* SORT9: numbers of both types are compared, a NaN is greater than any; values of
\* other types by their addresses (strings by their characters), and those of two
\* types by these.
Compared(x, y) ==
    CASE IsNaN(x) /\ Numbers(x, y) -> IF IsNaN(y) THEN "EQ" ELSE "GT"
      [] IsNaN(y) /\ ~IsNaN(x) /\ Numbers(x, y) -> "LT"
      [] ~IsNaN(x) /\ ~IsNaN(y) /\ Numbers(x, y) /\ x.type # y.type -> Before(AsReal(x), AsReal(y))
      [] x.type = y.type /\ ~IsNaN(x) /\ ~IsNaN(y) -> Before(x.v, y.v)
      [] ~Numbers(x, y) /\ x.type # y.type -> Before(x.type, y.type)

\* Mutation: equal rows stay as they are, wherever they come from.
SwapsUnequal(i, j, key, down) == Compared(key[i], key[j]) = IF down THEN "LT" ELSE "GT"

\* Row i is to come after row j; rows with equal keys stay in their order.
Swaps(i, j, key, down) ==
    LET c == Compared(key[i], key[j])
    IN  IF c = "EQ" THEN i > j ELSE c = IF down THEN "LT" ELSE "GT"

\* SORT8: the rows in the places k and l are exchanged if they have to be.
Exchanged(rows, k, l, key, down) ==
    IF Swaps(rows[k], rows[l], key, down)
    THEN [rows EXCEPT ![k] = rows[l], ![l] = rows[k]] ELSE rows

\* SORT7: a pass over the rows compares the places k and k + gap.
Pass(rows, gap, key, down) ==
    LET after[k \in 0 .. Len(rows) - gap] ==
            IF k = 0 THEN rows ELSE Exchanged(after[k - 1], k, k + gap, key, down)
    IN  after[Len(rows) - gap]

\* SORT11: passes until one exchanges nothing.  Each exchange takes one pair of rows away
\* from those that are in the wrong order, of which there are fewer than the square of
\* their number.
Repeated(s, gap, key, down) ==
    IF s.ended THEN s
    ELSE LET next == Pass(s.rows, gap, key, down) IN [rows |-> next, ended |-> next = s.rows]
Rounds(rows, gap, key, down) ==
    LET most == Len(rows) * Len(rows) + 1
        after[k \in 0 .. most] ==
            IF k = 0 THEN [rows |-> rows, ended |-> FALSE] ELSE Repeated(after[k - 1], gap, key, down)
    IN  after[most]
Passes(rows, gap, key, down) == Rounds(rows, gap, key, down).rows

\* SORT6: the gap is halved until it is 1.
Narrowed(s, key, down) ==
    IF s.gap <= 1 THEN s
    ELSE [gap |-> s.gap \div 2, rows |-> Passes(s.rows, s.gap \div 2, key, down)]

\* The order of the rows whose keys these are.
SORT1(key, down) ==
    LET after[k \in 0 .. Len(key)] ==
            IF k = 0 THEN [gap |-> Len(key), rows |-> [i \in DOMAIN key |-> i]]
            ELSE Narrowed(after[k - 1], key, down)
    IN  after[Len(key)].rows

-----------------------------------------------------------------------------
\* What x comes before y means to the program, when all integers are at most Exact.
Less(x, y) ==
    CASE Numbers(x, y) -> ~IsNaN(x) /\ (IsNaN(y) \/ x.v < y.v)
      [] ~Numbers(x, y) /\ x.type = y.type -> x.v < y.v
      [] OTHER -> x.type < y.type

\* The rows are all there, in the order of their keys, and rows with the same key in
\* the order they had.
InOrder(rows, key, down) ==
    /\ ToSet(rows) = DOMAIN key /\ Len(rows) = Len(key)
    /\ \A i, j \in DOMAIN rows : i < j =>
         LET x == IF down THEN key[rows[j]] ELSE key[rows[i]]
             y == IF down THEN key[rows[i]] ELSE key[rows[j]]
         IN  Less(x, y) \/ (~Less(y, x) /\ rows[i] < rows[j])
=============================================================================
