------------------------------- MODULE Order --------------------------------
(* utils/order/ordered.go: the comparisons by which the framework sorts its  *)
(* middleware, interceptors, configuration sources and the like. An object   *)
(* may implement PriorityOrdered, Ordered, both or neither. sort.SliceStable *)
(* is an insertion sort on lists of up to 20 elements.                       *)
EXTENDS Integers, Sequences

CONSTANTS Objects,      \* what is sorted: [priority, ordered : BOOLEAN, p, o : Int]
          MaxLen        \* longest list that is sorted

OrderedFirstCompare(l, r) ==
    IF l.priority /\ r.priority THEN l.p < r.p
    ELSE IF l.priority \/ r.priority THEN l.priority
    ELSE IF l.ordered /\ r.ordered THEN l.o < r.o
    ELSE l.ordered /\ ~r.ordered

OrderedFirstCompareReverse(l, r) ==
    IF l.priority /\ r.priority THEN l.p > r.p
    ELSE IF l.priority \/ r.priority THEN r.priority
    ELSE IF l.ordered /\ r.ordered THEN l.o > r.o
    ELSE r.ordered /\ ~l.ordered

Regular(x) == ~x.priority /\ ~x.ordered

OrderedLastCompare(l, r) ==
    IF Regular(l) \/ Regular(r) THEN Regular(l) /\ ~Regular(r)
    ELSE IF l.priority /\ r.priority THEN l.p < r.p
    ELSE IF l.priority \/ r.priority THEN l.priority
    ELSE l.o < r.o

OrderedLastCompareReverse(l, r) ==
    IF Regular(l) \/ Regular(r) THEN Regular(r) /\ ~Regular(l)
    ELSE IF l.priority /\ r.priority THEN l.p > r.p
    ELSE IF l.priority \/ r.priority THEN r.priority
    ELSE l.o > r.o

\* Mutant: objects that implement both are compared by Order as well.
UnorderedMiddleCompareAny(l, r) ==
    IF l.ordered /\ r.ordered THEN l.o < r.o
    ELSE IF l.priority /\ r.priority THEN l.p < r.p
    ELSE IF l.priority \/ r.priority THEN l.priority
    ELSE ~l.ordered /\ r.ordered

UnorderedMiddleCompare(l, r) ==
    IF l.priority /\ r.priority THEN l.p < r.p
    ELSE IF l.priority \/ r.priority THEN l.priority
    ELSE IF l.ordered /\ r.ordered THEN l.o < r.o
    ELSE ~l.ordered /\ r.ordered

Comparisons == {"OrderedFirst", "OrderedFirstReverse", "OrderedLast", "OrderedLastReverse",
                "UnorderedMiddle"}

Less(c, l, r) ==
    CASE c = "OrderedFirst" -> OrderedFirstCompare(l, r)
      [] c = "OrderedFirstReverse" -> OrderedFirstCompareReverse(l, r)
      [] c = "OrderedLast" -> OrderedLastCompare(l, r)
      [] c = "OrderedLastReverse" -> OrderedLastCompareReverse(l, r)
      [] c = "UnorderedMiddle" -> UnorderedMiddleCompare(l, r)

-----------------------------------------------------------------------------
VARIABLES compare,      \* the comparison in use
          input,        \* the list before it is sorted
          place,        \* place[k] is the index in input of what is now the kth element
          i, j          \* the element being inserted, and where it has got to

vars == <<compare, input, place, i, j>>

At(k) == input[place[k]]

\* Every state variable has a value of its type.
TypeOK ==
    /\ compare \in Comparisons
    /\ input \in Seq(Objects)
    /\ place \in [1 .. Len(input) -> 1 .. Len(input)]
    /\ i \in Nat /\ j \in Nat

Init ==
    /\ compare \in Comparisons
    /\ input \in UNION {[1 .. n -> Objects] : n \in 0 .. MaxLen}
    /\ place = [k \in 1 .. Len(input) |-> k]
    /\ i = 2 /\ j = 2

Swap ==
    /\ i <= Len(input) /\ j > 1 /\ Less(compare, At(j), At(j - 1))
    /\ place' = [place EXCEPT ![j] = place[j - 1], ![j - 1] = place[j]]
    /\ j' = j - 1
    /\ UNCHANGED <<compare, input, i>>

Inserted ==
    /\ i <= Len(input) /\ (j > 1 => ~Less(compare, At(j), At(j - 1)))
    /\ i' = i + 1 /\ j' = i + 1
    /\ UNCHANGED <<compare, input, place>>

Next == Swap \/ Inserted

Spec == Init /\ [][Next]_vars

-----------------------------------------------------------------------------
\* What the comments promise: the category of an object, and its value there.
Category(c, x) ==
    CASE c \in {"OrderedFirst", "OrderedFirstReverse"} ->
           IF x.priority THEN 1 ELSE IF x.ordered THEN 2 ELSE 3
      [] c \in {"OrderedLast", "OrderedLastReverse"} ->
           IF x.priority THEN 2 ELSE IF x.ordered THEN 3 ELSE 1
      [] c = "UnorderedMiddle" ->
           IF x.priority THEN 1 ELSE IF x.ordered THEN 3 ELSE 2
Value(x) == IF x.priority THEN x.p ELSE IF x.ordered THEN x.o ELSE 0

KeyBefore(c, x, y) ==
    \/ Category(c, x) < Category(c, y)
    \/ Category(c, x) = Category(c, y) /\ Value(x) < Value(y)
Goes(c, x, y) ==
    IF c \in {"OrderedFirstReverse", "OrderedLastReverse"} THEN KeyBefore(c, y, x)
    ELSE KeyBefore(c, x, y)

\* A sorted list has its categories in the order the comparison's comment gives, each
\* in the order of its values, the other way round for a reversed comparison; and two
\* elements of the same category and value are in the order they came in.
SortedStably ==
    i > Len(input) =>
        \A m, n \in 1 .. Len(input) : m < n =>
            \/ Goes(compare, At(m), At(n))
            \/ ~Goes(compare, At(n), At(m)) /\ place[m] < place[n]
=============================================================================
