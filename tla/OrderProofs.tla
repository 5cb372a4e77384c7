----------------------------- MODULE OrderProofs ----------------------------
(* The five comparisons of utils/order are the orders their comments promise, *)
(* for all objects, so that a stable sort by them of a list of any length is  *)
(* in the promised order.                                                     *)
EXTENDS Order, TLAPS

\* Objects with a value for each interface, and a number for the bound.
ProperObjects == /\ Objects \subseteq [priority : BOOLEAN, ordered : BOOLEAN, p : Int, o : Int]
                 /\ MaxLen \in Nat

\* Each comparison (OrderedFirstCompare and so on, ordered.go) compares first the
\* category and then the value in it.
LEMMA LessIsGoes ==
  ASSUME ProperObjects, NEW c \in Comparisons, NEW x \in Objects, NEW y \in Objects
  PROVE  Less(c, x, y) <=> Goes(c, x, y)
<1>1. /\ x.priority \in BOOLEAN /\ x.ordered \in BOOLEAN /\ x.p \in Int /\ x.o \in Int
      /\ y.priority \in BOOLEAN /\ y.ordered \in BOOLEAN /\ y.p \in Int /\ y.o \in Int
  BY DEF ProperObjects
<1> USE DEF Less, Goes, KeyBefore, Category, Value, Regular
<1>2. CASE c = "OrderedFirst"
  BY <1>1, <1>2 DEF OrderedFirstCompare
<1>3. CASE c = "OrderedFirstReverse"
  BY <1>1, <1>3 DEF OrderedFirstCompareReverse
<1>4. CASE c = "OrderedLast"
  BY <1>1, <1>4 DEF OrderedLastCompare
<1>5. CASE c = "OrderedLastReverse"
  BY <1>1, <1>5 DEF OrderedLastCompareReverse
<1>6. CASE c = "UnorderedMiddle"
  BY <1>1, <1>6 DEF UnorderedMiddleCompare
<1> QED BY <1>2, <1>3, <1>4, <1>5, <1>6 DEF Comparisons

\* The category and the value of an object are numbers.
LEMMA KeyTypes ==
  ASSUME ProperObjects, NEW c \in Comparisons, NEW x \in Objects
  PROVE  Category(c, x) \in Int /\ Value(x) \in Int
BY DEF ProperObjects, Category, Value, Comparisons

-----------------------------------------------------------------------------
\* Where the elements that were ath and bth in the input belong.
Before(a, b) ==
    \/ Goes(compare, input[a], input[b])
    \/ ~Goes(compare, input[b], input[a]) /\ a < b

\* The comparison, with the order of the input between equals, is transitive.
LEMMA BeforeTransitive ==
  ASSUME ProperObjects, compare \in Comparisons, input \in Seq(Objects),
         NEW a \in 1 .. Len(input), NEW b \in 1 .. Len(input), NEW c \in 1 .. Len(input),
         Before(a, b), Before(b, c)
  PROVE  Before(a, c)
<1>1. input[a] \in Objects /\ input[b] \in Objects /\ input[c] \in Objects
  OBVIOUS
<1> DEFINE K(x) == Category(compare, x)
<1>2. \A x \in Objects : K(x) \in Int /\ Value(x) \in Int
  BY KeyTypes
<1> HIDE DEF K
<1>3. \A x, y : KeyBefore(compare, x, y) <=> K(x) < K(y) \/ (K(x) = K(y) /\ Value(x) < Value(y))
  BY DEF KeyBefore, K
<1> DEFINE Reversed == compare \in {"OrderedFirstReverse", "OrderedLastReverse"}
           ka == K(input[a])  kb == K(input[b])  kc == K(input[c])
           va == Value(input[a])  vb == Value(input[b])  vc == Value(input[c])
<1>4. ka \in Int /\ kb \in Int /\ kc \in Int /\ va \in Int /\ vb \in Int /\ vc \in Int
  BY <1>1, <1>2
<1>5. a \in Int /\ b \in Int /\ c \in Int
  OBVIOUS
<1>6. CASE Reversed
  <2>1. /\ Before(a, b) <=> \/ kb < ka \/ (kb = ka /\ vb < va)
                            \/ ~(ka < kb \/ (ka = kb /\ va < vb)) /\ a < b
        /\ Before(b, c) <=> \/ kc < kb \/ (kc = kb /\ vc < vb)
                            \/ ~(kb < kc \/ (kb = kc /\ vb < vc)) /\ b < c
        /\ Before(a, c) <=> \/ kc < ka \/ (kc = ka /\ vc < va)
                            \/ ~(ka < kc \/ (ka = kc /\ va < vc)) /\ a < c
    BY <1>3, <1>6 DEF Before, Goes
  <2> HIDE DEF ka, kb, kc, va, vb, vc
  <2> QED BY <1>4, <1>5, <2>1
<1>7. CASE ~Reversed
  <2>1. /\ Before(a, b) <=> \/ ka < kb \/ (ka = kb /\ va < vb)
                            \/ ~(kb < ka \/ (kb = ka /\ vb < va)) /\ a < b
        /\ Before(b, c) <=> \/ kb < kc \/ (kb = kc /\ vb < vc)
                            \/ ~(kc < kb \/ (kc = kb /\ vc < vb)) /\ b < c
        /\ Before(a, c) <=> \/ ka < kc \/ (ka = kc /\ va < vc)
                            \/ ~(kc < ka \/ (kc = ka /\ vc < va)) /\ a < c
    BY <1>3, <1>7 DEF Before, Goes
  <2> HIDE DEF ka, kb, kc, va, vb, vc
  <2> QED BY <1>4, <1>5, <2>1
<1> QED BY <1>6, <1>7

\* The elements up to i are in order but for the one being inserted, which has got
\* to j and belongs before those it has passed; what follows is as it was.
SortInv ==
    /\ compare \in Comparisons /\ input \in Seq(Objects)
    /\ place \in [1 .. Len(input) -> 1 .. Len(input)]
    /\ i \in Nat /\ j \in 1 .. i
    /\ i <= Len(input) => place[j] = i
    /\ i > Len(input) => j = i
    /\ \A k \in 1 .. Len(input) : k > i => place[k] = k
    /\ \A k \in 1 .. Len(input) : k <= i /\ k # j => place[k] < i
    /\ \A m, n \in 1 .. Len(input) : m < n /\ n <= i /\ m # j /\ n # j => Before(place[m], place[n])
    /\ \A n \in 1 .. Len(input) : j < n /\ n <= i => Before(place[j], place[n])

\* A list of one element is sorted.
LEMMA InitSort == ProperObjects /\ Init => SortInv
<1> SUFFICES ASSUME ProperObjects, Init PROVE SortInv
  OBVIOUS
<1>1. PICK n \in 0 .. MaxLen : input \in [1 .. n -> Objects]
  BY DEF Init
<1>2. n \in Nat /\ input \in Seq(Objects) /\ Len(input) = n
  BY <1>1 DEF ProperObjects
<1> QED BY <1>2 DEF Init, SortInv

\* The inserted element passes one it goes before.
LEMMA SwapStep == ProperObjects /\ SortInv /\ Swap => SortInv'
<1> SUFFICES ASSUME ProperObjects, SortInv, Swap PROVE SortInv'
  OBVIOUS
<1> DEFINE N == Len(input)
<1>1. N \in Nat /\ i \in 1 .. N /\ j \in 2 .. i /\ j - 1 \in 1 .. N /\ j \in 1 .. N
  BY DEF SortInv, Swap
<1>2. UNCHANGED <<compare, input, i>> /\ j' = j - 1
  BY DEF Swap
<1>3. /\ place' \in [1 .. N -> 1 .. N]
      /\ place'[j] = place[j - 1] /\ place'[j - 1] = place[j]
      /\ \A k \in 1 .. N : k # j /\ k # j - 1 => place'[k] = place[k]
  BY <1>1 DEF SortInv, Swap
<1>4. Before(place[j], place[j - 1])
  BY <1>1, LessIsGoes DEF SortInv, Swap, At, Before
<1>5. \A a, b : Before(a, b)' = Before(a, b)
  BY <1>2 DEF Before
<1>6. /\ \A k \in 1 .. N : k > i => place'[k] = k
      /\ \A k \in 1 .. N : k <= i /\ k # j - 1 => place'[k] < i
      /\ place'[j - 1] = i
  BY <1>1, <1>3 DEF SortInv
<1>7. ASSUME NEW m \in 1 .. N, NEW n \in 1 .. N, m < n, n <= i, m # j - 1, n # j - 1
      PROVE  Before(place'[m], place'[n])
  <2>1. CASE n = j
    BY <1>1, <1>3, <1>7, <2>1 DEF SortInv
  <2>2. CASE m = j
    BY <1>1, <1>3, <1>7, <2>2 DEF SortInv
  <2>3. CASE m # j /\ n # j
    BY <1>1, <1>3, <1>7, <2>3 DEF SortInv
  <2> QED BY <2>1, <2>2, <2>3
<1>8. ASSUME NEW n \in 1 .. N, j - 1 < n, n <= i
      PROVE  Before(place'[j - 1], place'[n])
  <2>1. CASE n = j
    BY <1>3, <1>4, <2>1
  <2>2. CASE n # j
    BY <1>1, <1>3, <1>8, <2>2 DEF SortInv
  <2> QED BY <2>1, <2>2
<1> QED BY <1>1, <1>2, <1>3, <1>5, <1>6, <1>7, <1>8 DEF SortInv

\* The inserted element has met one it follows, and by transitivity follows the rest.
LEMMA InsertedStep == ProperObjects /\ SortInv /\ Inserted => SortInv'
<1> SUFFICES ASSUME ProperObjects, SortInv, Inserted PROVE SortInv'
  OBVIOUS
<1> DEFINE N == Len(input)
<1>1. N \in Nat /\ i \in 1 .. N /\ j \in 1 .. i /\ j \in 1 .. N
  BY DEF SortInv, Inserted
<1>2. UNCHANGED <<compare, input, place>> /\ i' = i + 1 /\ j' = i + 1
  BY DEF Inserted
<1>3. \A a, b : Before(a, b)' = Before(a, b)
  BY <1>2 DEF Before
<1>4. ASSUME NEW m \in 1 .. N, m < j PROVE Before(place[m], place[j])
  <2>1. j - 1 \in 1 .. N /\ place[j - 1] < place[j]
    BY <1>1, <1>4 DEF SortInv
  <2>2. Before(place[j - 1], place[j])
    BY <1>1, <1>4, <2>1, LessIsGoes DEF SortInv, Inserted, At, Before
  <2>3. CASE m = j - 1
    BY <2>2, <2>3
  <2>4. CASE m # j - 1
    <3>1. Before(place[m], place[j - 1])
      BY <1>1, <1>4, <2>1, <2>4 DEF SortInv
    <3>2. place[m] \in 1 .. N /\ place[j] \in 1 .. N /\ place[j - 1] \in 1 .. N
      BY <1>1, <2>1 DEF SortInv
    <3> QED BY <2>2, <3>1, <3>2, BeforeTransitive DEF SortInv
  <2> QED BY <2>3, <2>4
<1>5. ASSUME NEW m \in 1 .. N, NEW n \in 1 .. N, m < n, n <= i
      PROVE  Before(place[m], place[n])
  BY <1>1, <1>4, <1>5 DEF SortInv
<1>6. /\ i + 1 <= N => place[i + 1] = i + 1
      /\ \A k \in 1 .. N : k > i + 1 => place[k] = k
      /\ \A k \in 1 .. N : k <= i + 1 /\ k # i + 1 => place[k] < i + 1
  BY <1>1 DEF SortInv
<1>7. \A m, n \in 1 .. N : m < n /\ n <= i + 1 /\ m # i + 1 /\ n # i + 1 => Before(place[m], place[n])
  BY <1>1, <1>5
<1>8. compare \in Comparisons /\ input \in Seq(Objects) /\ place \in [1 .. N -> 1 .. N] /\ i + 1 \in Nat
        /\ i + 1 \in 1 .. i + 1
  BY <1>1 DEF SortInv
<1>9. \A n \in 1 .. N : ~(i + 1 < n /\ n <= i + 1)
  BY <1>1
<1> QED BY <1>2, <1>3, <1>6, <1>7, <1>8, <1>9 DEF SortInv

\* ordered.go: sorting by any of the comparisons gives the order its comment
\* promises and keeps equal objects as they came, for lists of any length and
\* objects with any values, those that implement both interfaces included.
THEOREM SortedStablyAlways == ProperObjects => (Spec => []SortedStably)
<1> SUFFICES ASSUME ProperObjects PROVE Spec => []SortedStably
  OBVIOUS
<1>1. Init => SortInv
  BY InitSort
<1>2. SortInv /\ [Next]_vars => SortInv'
  <2> SUFFICES ASSUME SortInv, [Next]_vars PROVE SortInv'
    OBVIOUS
  <2>1. CASE UNCHANGED vars
    BY <2>1 DEF vars, SortInv, Before
  <2> QED BY <2>1, SwapStep, InsertedStep DEF Next
<1>3. SortInv => SortedStably
  BY DEF SortInv, SortedStably, At, Before
<1> QED BY <1>1, <1>2, <1>3, PTL DEF Spec
=============================================================================
