----------------------------- MODULE PlannerProofs -----------------------------
(***************************************************************************)
(* Proofs about Planner: what the order of a plan, its selection and its   *)
(* removal are, for every set of modules. Each is a recursive function of  *)
(* a natural number; induction on it is by the least counterexample.       *)
(***************************************************************************)
EXTENDS Planner, FiniteSetTheorems, TLAPS

-------------------------------------------------------------------------------
(* Induction *)

\* A set of naturals has a least element.
LEMMA LeastNatural ==
    ASSUME NEW T \in SUBSET Nat, T # {}
    PROVE  \E n \in T : \A m \in T : n <= m
<1> DEFINE R == {e \in Nat \X Nat : e[1] < e[2]}
<1>1. IsWellFoundedOn(R, Nat)
  BY NatLessThanWellFounded DEF OpToRel
<1>2. PICK n \in T : \A m \in T : ~(<<m, n>> \in R)
  <2> HIDE DEF R
  <2> QED BY <1>1, WFMin
<1>3. \A m \in T : ~(m < n)
  BY <1>2
<1> QED BY <1>3

\* What holds of 0, and of n + 1 when it holds of n, holds of every natural.
LEMMA Induction ==
    ASSUME NEW holds, holds[0], \A n \in Nat : holds[n] => holds[n + 1]
    PROVE  \A n \in Nat : holds[n]
<1> DEFINE B == {n \in Nat : ~holds[n]}
<1> SUFFICES ASSUME B # {} PROVE FALSE
  OBVIOUS
<1>1. PICK n \in B : \A m \in B : n <= m
  BY LeastNatural, B \in SUBSET Nat
<1>2. n # 0 /\ n \in Nat
  OBVIOUS
<1>3. n - 1 \in Nat /\ n - 1 \notin B
  BY <1>1, <1>2
<1> QED BY <1>1, <1>2, <1>3

\* A function can be defined by its first value and how the next one follows.
Iterates(S, first, next, n) ==
    \E g \in [0..n -> S] : g[0] = first /\ \A i \in 1..n : g[i] = next[i][g[i - 1]]

LEMMA Iteration ==
    ASSUME NEW S, NEW first \in S, NEW next \in [Nat -> [S -> S]], NEW c \in Nat
    PROVE  Iterates(S, first, next, c)
<1> DEFINE Good(n) == \E g \in [0..n -> S] :
                        g[0] = first /\ \A i \in 1..n : g[i] = next[i][g[i - 1]]
           holds == [n \in Nat |-> Good(n)]
<1>1. Good(0)
  <2>1. [i \in 0..0 |-> first] \in [0..0 -> S]
    OBVIOUS
  <2>2. [i \in 0..0 |-> first][0] = first /\ 1..0 = {}
    OBVIOUS
  <2> QED BY <2>1, <2>2
<1>2. ASSUME NEW n \in Nat, Good(n) PROVE Good(n + 1)
  <2>1. PICK g \in [0..n -> S] : g[0] = first /\ \A i \in 1..n : g[i] = next[i][g[i - 1]]
    BY <1>2
  <2> DEFINE h == [i \in 0..(n + 1) |-> IF i = n + 1 THEN next[n + 1][g[n]] ELSE g[i]]
  <2>2. g[n] \in S /\ next[n + 1] \in [S -> S] /\ next[n + 1][g[n]] \in S
    OBVIOUS
  <2>3. h \in [0..(n + 1) -> S]
    BY <2>2
  <2>4. h[0] = first
    BY <2>1
  <2>5. ASSUME NEW i \in 1..(n + 1) PROVE h[i] = next[i][h[i - 1]]
    BY <2>1
  <2> HIDE DEF h
  <2> QED BY <2>3, <2>4, <2>5
<1> HIDE DEF Good
<1>3. \A n \in Nat : holds[n]
  <2>1. holds[0] /\ \A n \in Nat : holds[n] => holds[n + 1]
    BY <1>1, <1>2
  <2> HIDE DEF holds
  <2> QED BY <2>1, Induction
<1> QED BY <1>3 DEF Good, Iterates

-------------------------------------------------------------------------------
(* The stable order *)

\* One step of StableOrder: the least node that is ready, if one is.
ReadyAfter(before, prefix) ==
    {x \in DOMAIN before \ Range(prefix) : before[x] \subseteq Range(prefix)}
LeastOf(ready, less) == CHOOSE x \in ready : \A y \in ready \ {x} : <<x, y>> \in less
Longer(before, less, prefix) ==
    IF ReadyAfter(before, prefix) = {} THEN prefix
    ELSE Append(prefix, LeastOf(ReadyAfter(before, prefix), less))

\* less has a least element in every set of nodes.
Orders(less, nodes) ==
    \A ready \in SUBSET nodes :
        ready # {} => \E x \in ready : \A y \in ready \ {x} : <<x, y>> \in less

LEMMA LongerIsSeq ==
    ASSUME NEW before, NEW less, Orders(less, DOMAIN before),
           NEW prefix \in Seq(DOMAIN before)
    PROVE  /\ Longer(before, less, prefix) \in Seq(DOMAIN before)
           /\ ReadyAfter(before, prefix) # {} =>
                LeastOf(ReadyAfter(before, prefix), less) \in ReadyAfter(before, prefix)
<1> DEFINE ready == ReadyAfter(before, prefix)
<1>1. ready \in SUBSET (DOMAIN before)
  BY DEF ReadyAfter
<1>2. ready # {} => LeastOf(ready, less) \in ready
  <2> HIDE DEF ready
  <2> QED BY <1>1 DEF Orders, LeastOf
<1> HIDE DEF ready
<1>3. ready # {} => Append(prefix, LeastOf(ready, less)) \in Seq(DOMAIN before)
  BY <1>1, <1>2
<1> QED BY <1>2, <1>3 DEF Longer, ready

\* StableOrder is the last of a chain of ever longer prefixes.
LEMMA StableOrderChain ==
    ASSUME NEW before, NEW less, IsFiniteSet(DOMAIN before), Orders(less, DOMAIN before)
    PROVE  LET c == Cardinality(DOMAIN before)
           IN  /\ c \in Nat
               /\ \E order :
                    /\ StableOrder(before, less) = order[c]
                    /\ order[0] = <<>>
                    /\ \A n \in 1..c : order[n] = Longer(before, less, order[n - 1])
<1> DEFINE nodes == DOMAIN before
           c == Cardinality(nodes)
           Is(order) == order = [n \in 0..c |->
                           IF n = 0 THEN <<>> ELSE Longer(before, less, order[n - 1])]
<1>1. c \in Nat
  BY FS_CardinalityType
<1> HIDE DEF c
<1>2. \E g : Is(g)
  <2> DEFINE S == Seq(nodes)
             next == [n \in Nat |-> [prefix \in S |-> Longer(before, less, prefix)]]
  <2>1. next \in [Nat -> [S -> S]]
    BY LongerIsSeq
  <2>2. <<>> \in S
    OBVIOUS
  <2>3. PICK g \in [0..c -> S] : g[0] = <<>> /\ \A n \in 1..c : g[n] = next[n][g[n - 1]]
    <3> HIDE DEF next, S, nodes
    <3>1. Iterates(S, <<>>, next, c)
      BY <1>1, <2>1, <2>2, Iteration
    <3> QED BY <3>1 DEF Iterates
  <2>4. ASSUME NEW n \in 1..c PROVE g[n] = Longer(before, less, g[n - 1])
    <3>1. g[n - 1] \in S /\ n \in Nat
      BY <1>1, <2>3
    <3> QED BY <2>3, <3>1
  <2>5. \A n \in 0..c : g[n] = IF n = 0 THEN <<>> ELSE Longer(before, less, g[n - 1])
    BY <1>1, <2>3, <2>4
  <2> QED BY <2>3, <2>5
<1> DEFINE order == CHOOSE f : Is(f)
<1>3. Is(order)
  BY <1>2
<1>4. StableOrder(before, less) = order[c]
  BY DEF StableOrder, Longer, ReadyAfter, LeastOf, c
<1> HIDE DEF order
<1>5. order[0] = <<>> /\ \A n \in 1..c : order[n] = Longer(before, less, order[n - 1])
  BY <1>1, <1>3
<1> QED BY <1>1, <1>4, <1>5 DEF c

\* Distinct nodes, each behind all it must follow.
Ordered(before, s) ==
    /\ s \in Seq(DOMAIN before)
    /\ \A i, j \in 1..Len(s) : s[i] = s[j] => i = j
    /\ \A j \in 1..Len(s) : before[s[j]] \subseteq {s[i] : i \in 1..(j - 1)}

LEMMA LongerIsOrdered ==
    ASSUME NEW before, NEW less, Orders(less, DOMAIN before),
           NEW prefix, Ordered(before, prefix)
    PROVE  /\ Ordered(before, Longer(before, less, prefix))
           /\ IF ReadyAfter(before, prefix) = {} THEN Longer(before, less, prefix) = prefix
              ELSE Len(Longer(before, less, prefix)) = Len(prefix) + 1
<1> DEFINE ready == ReadyAfter(before, prefix)
           x == LeastOf(ready, less)
           longer == Append(prefix, x)
<1>1. prefix \in Seq(DOMAIN before) /\ Len(prefix) \in Nat
  BY DEF Ordered
<1>2. CASE ready = {}
  BY <1>2 DEF Longer
<1>3. CASE ready # {}
  <2>1. x \in ready
    BY <1>1, <1>3, LongerIsSeq
  <2> HIDE DEF x
  <2>2. x \in DOMAIN before /\ \A i \in 1..Len(prefix) : prefix[i] # x
    BY <1>1, <2>1 DEF ReadyAfter, Range
  <2>3. before[x] \subseteq {prefix[i] : i \in 1..Len(prefix)}
    BY <1>1, <2>1 DEF ReadyAfter, Range
  <2> HIDE DEF ready
  <2>4. /\ longer \in Seq(DOMAIN before) /\ Len(longer) = Len(prefix) + 1
        /\ longer[Len(prefix) + 1] = x
        /\ \A i \in 1..Len(prefix) : longer[i] = prefix[i]
    BY <1>1, <2>2
  <2> HIDE DEF longer
  <2>5. \A i, j \in 1..Len(longer) : longer[i] = longer[j] => i = j
    BY <1>1, <2>2, <2>4 DEF Ordered
  <2>6. ASSUME NEW j \in 1..Len(longer)
        PROVE  before[longer[j]] \subseteq {longer[i] : i \in 1..(j - 1)}
    <3>1. CASE j = Len(prefix) + 1
      BY <1>1, <2>3, <2>4, <3>1
    <3>2. CASE j \in 1..Len(prefix)
      <4>1. before[prefix[j]] \subseteq {prefix[i] : i \in 1..(j - 1)}
        BY <3>2 DEF Ordered
      <4>2. \A i \in 1..(j - 1) : i \in 1..Len(prefix)
        BY <1>1, <3>2
      <4> QED BY <2>4, <3>2, <4>1, <4>2
    <3> QED BY <1>1, <2>4, <3>1, <3>2
  <2>7. Longer(before, less, prefix) = longer
    BY <1>3 DEF Longer, longer, x, ready
  <2> QED BY <1>3, <2>4, <2>5, <2>6, <2>7 DEF Ordered, ready
<1> QED BY <1>2, <1>3

\* The order stops at the number of nodes, or where none is ready.
LEMMA StableOrderEnds ==
    ASSUME NEW before, NEW less, IsFiniteSet(DOMAIN before), Orders(less, DOMAIN before)
    PROVE  LET sorted == StableOrder(before, less)
           IN  /\ Ordered(before, sorted)
               /\ Len(sorted) = Cardinality(DOMAIN before) \/ ReadyAfter(before, sorted) = {}
<1> DEFINE c == Cardinality(DOMAIN before)
<1>1. c \in Nat
  BY FS_CardinalityType
<1>2. PICK order : /\ StableOrder(before, less) = order[c]
                   /\ order[0] = <<>>
                   /\ \A n \in 1..c : order[n] = Longer(before, less, order[n - 1])
  BY StableOrderChain
<1> HIDE DEF c
<1> DEFINE Good(n) == n <= c => /\ Ordered(before, order[n])
                                /\ Len(order[n]) = n \/ ReadyAfter(before, order[n]) = {}
           holds == [n \in Nat |-> Good(n)]
<1>3. Good(0)
  BY <1>2 DEF Ordered
<1>4. ASSUME NEW n \in Nat, Good(n) PROVE Good(n + 1)
  <2> SUFFICES ASSUME n + 1 <= c
               PROVE  /\ Ordered(before, order[n + 1])
                      /\ Len(order[n + 1]) = n + 1 \/ ReadyAfter(before, order[n + 1]) = {}
    OBVIOUS
  <2>1. n + 1 \in 1..c /\ n = (n + 1) - 1 /\ n <= c
    BY <1>1
  <2>2. order[n + 1] = Longer(before, less, order[n])
    BY <1>2, <2>1
  <2> QED BY <1>4, <2>1, <2>2, LongerIsOrdered
<1> HIDE DEF Good
<1>5. \A n \in Nat : holds[n]
  <2>1. holds[0] /\ \A n \in Nat : holds[n] => holds[n + 1]
    BY <1>3, <1>4
  <2> HIDE DEF holds
  <2> QED BY <2>1, Induction
<1>6. Good(c)
  BY <1>1, <1>5
<1> QED BY <1>1, <1>2, <1>6 DEF Good, c

\* The stable order has distinct nodes, each behind all it must follow; it
\* has every node exactly when no set of nodes is a cycle or fed by one.
THEOREM StableOrderIsSound ==
    ASSUME NEW before, NEW less, IsFiniteSet(DOMAIN before), Orders(less, DOMAIN before)
    PROVE  LET nodes  == DOMAIN before
               sorted == StableOrder(before, less)
           IN  /\ Ordered(before, sorted)
               /\ Len(sorted) = Cardinality(nodes) <=> Range(sorted) = nodes
               /\ (\A x \in nodes : before[x] \subseteq nodes) =>
                     (Range(sorted) = nodes <=>
                        \A T \in SUBSET nodes : T # {} => \E x \in T : \A y \in T : y \notin before[x])
<1> DEFINE nodes == DOMAIN before
           sorted == StableOrder(before, less)
<1>1. Ordered(before, sorted) /\ (Len(sorted) = Cardinality(nodes) \/ ReadyAfter(before, sorted) = {})
  BY StableOrderEnds
<1> HIDE DEF sorted
<1>2. sorted \in [1..Len(sorted) -> nodes] /\ Len(sorted) \in Nat /\ Range(sorted) \subseteq nodes
  BY <1>1 DEF Ordered, Range
<1>3. IsFiniteSet(Range(sorted)) /\ Cardinality(Range(sorted)) = Len(sorted)
  <2>1. sorted \in Bijection(1..Len(sorted), Range(sorted))
    BY <1>1, <1>2 DEF Ordered, Range, Bijection, Injection, Surjection, IsInjective
  <2>2. IsFiniteSet(1..Len(sorted)) /\ Cardinality(1..Len(sorted)) = Len(sorted)
    <3>1. 1 \in Int /\ Len(sorted) \in Int
      BY <1>2
    <3>2. /\ IsFiniteSet(1..Len(sorted))
          /\ Cardinality(1..Len(sorted)) = IF 1 > Len(sorted) THEN 0 ELSE Len(sorted) - 1 + 1
      BY <3>1, FS_Interval
    <3> QED BY <1>2, <3>2
  <2> QED BY <2>1, <2>2, FS_Bijection DEF ExistsBijection
<1>4. Len(sorted) = Cardinality(nodes) <=> Range(sorted) = nodes
  BY <1>2, <1>3, FS_Subset
<1>5. ASSUME \A x \in nodes : before[x] \subseteq nodes, Range(sorted) # nodes
      PROVE  \E T \in SUBSET nodes : T # {} /\ \A x \in T : \E y \in T : y \in before[x]
  <2> DEFINE T == nodes \ Range(sorted)
  <2>1. ReadyAfter(before, sorted) = {}
    BY <1>1, <1>4, <1>5
  <2>2. \A x \in T : \E y \in T : y \in before[x]
    BY <1>5, <2>1 DEF ReadyAfter
  <2>3. T \in SUBSET nodes /\ T # {}
    BY <1>2, <1>5
  <2> HIDE DEF T
  <2> QED BY <2>2, <2>3
<1>6. ASSUME Range(sorted) = nodes, NEW T \in SUBSET nodes, T # {}
      PROVE  \E x \in T : \A y \in T : y \notin before[x]
  <2> DEFINE places == {i \in 1..Len(sorted) : sorted[i] \in T}
  <2>1. places \in SUBSET Nat /\ places # {}
    BY <1>2, <1>6 DEF Range
  <2>2. PICK j \in places : \A i \in places : j <= i
    BY <2>1, LeastNatural
  <2>3. before[sorted[j]] \subseteq {sorted[i] : i \in 1..(j - 1)}
    BY <1>1 DEF Ordered
  <2>4. \A i \in 1..(j - 1) : sorted[i] \notin T
    BY <1>2, <2>2
  <2> QED BY <2>2, <2>3, <2>4
<1> QED BY <1>1, <1>4, <1>5, <1>6 DEF sorted

\* Each node was the least of those that could follow what is before it.
Greedy(before, less, s) ==
    \A j \in 1..Len(s) : \A y \in DOMAIN before :
        (before[y] \subseteq {s[i] : i \in 1..(j - 1)} /\ \A i \in 1..j : s[i] # y)
          => <<s[j], y>> \in less

LEMMA LongerIsGreedy ==
    ASSUME NEW before, NEW less, Orders(less, DOMAIN before),
           NEW prefix, Ordered(before, prefix), Greedy(before, less, prefix)
    PROVE  Greedy(before, less, Longer(before, less, prefix))
<1> DEFINE ready == ReadyAfter(before, prefix)
           x == LeastOf(ready, less)
           longer == Append(prefix, x)
<1>1. prefix \in Seq(DOMAIN before) /\ Len(prefix) \in Nat
  BY DEF Ordered
<1>2. CASE ready = {}
  BY <1>2 DEF Longer
<1>3. CASE ready # {}
  <2>1. x \in ready /\ \A y \in ready \ {x} : <<x, y>> \in less
    <3>1. ready \in SUBSET (DOMAIN before)
      BY DEF ReadyAfter
    <3> HIDE DEF ready
    <3> QED BY <1>3, <3>1 DEF Orders, LeastOf
  <2> HIDE DEF x
  <2>2. \A y \in DOMAIN before :
           before[y] \subseteq {prefix[i] : i \in 1..Len(prefix)} /\ (\A i \in 1..Len(prefix) : prefix[i] # y)
             => y \in ready
    BY <1>1 DEF ReadyAfter, Range
  <2>3. x \in DOMAIN before
    BY <2>1 DEF ReadyAfter
  <2> HIDE DEF ready
  <2>4. /\ longer \in Seq(DOMAIN before) /\ Len(longer) = Len(prefix) + 1
        /\ longer[Len(prefix) + 1] = x
        /\ \A i \in 1..Len(prefix) : longer[i] = prefix[i]
    BY <1>1, <2>3
  <2> HIDE DEF longer
  <2>5. ASSUME NEW j \in 1..Len(longer), NEW y \in DOMAIN before,
               before[y] \subseteq {longer[i] : i \in 1..(j - 1)}, \A i \in 1..j : longer[i] # y
        PROVE  <<longer[j], y>> \in less
    <3>1. \A i \in 1..(j - 1) : i \in 1..Len(prefix) /\ longer[i] = prefix[i]
      BY <1>1, <2>4
    <3>2. {longer[i] : i \in 1..(j - 1)} = {prefix[i] : i \in 1..(j - 1)}
      BY <3>1
    <3>3. CASE j = Len(prefix) + 1
      <4>1. y \in ready /\ y # x
        BY <1>1, <2>2, <2>4, <2>5, <3>1, <3>2, <3>3
      <4> QED BY <2>1, <2>4, <3>3, <4>1
    <3>4. CASE j \in 1..Len(prefix)
      <4>1. \A i \in 1..j : prefix[i] # y
        BY <1>1, <2>4, <2>5, <3>4
      <4> QED BY <2>4, <2>5, <3>2, <3>4, <4>1 DEF Greedy
    <3> QED BY <1>1, <2>4, <3>3, <3>4
  <2>6. Longer(before, less, prefix) = longer
    BY <1>3 DEF Longer, longer, x, ready
  <2> QED BY <2>5, <2>6 DEF Greedy
<1> QED BY <1>2, <1>3

LEMMA StableOrderIsGreedy ==
    ASSUME NEW before, NEW less, IsFiniteSet(DOMAIN before), Orders(less, DOMAIN before)
    PROVE  Greedy(before, less, StableOrder(before, less))
<1> DEFINE c == Cardinality(DOMAIN before)
<1>1. c \in Nat
  BY FS_CardinalityType
<1>2. PICK order : /\ StableOrder(before, less) = order[c]
                   /\ order[0] = <<>>
                   /\ \A n \in 1..c : order[n] = Longer(before, less, order[n - 1])
  BY StableOrderChain
<1> HIDE DEF c
<1> DEFINE Good(n) == n <= c => Ordered(before, order[n]) /\ Greedy(before, less, order[n])
           holds == [n \in Nat |-> Good(n)]
<1>3. Good(0)
  BY <1>2 DEF Ordered, Greedy
<1>4. ASSUME NEW n \in Nat, Good(n) PROVE Good(n + 1)
  <2> SUFFICES ASSUME n + 1 <= c
               PROVE  Ordered(before, order[n + 1]) /\ Greedy(before, less, order[n + 1])
    OBVIOUS
  <2>1. n + 1 \in 1..c /\ n = (n + 1) - 1 /\ n <= c
    BY <1>1
  <2>2. order[n + 1] = Longer(before, less, order[n])
    BY <1>2, <2>1
  <2> QED BY <1>4, <2>1, <2>2, LongerIsOrdered, LongerIsGreedy
<1> HIDE DEF Good
<1>5. \A n \in Nat : holds[n]
  <2>1. holds[0] /\ \A n \in Nat : holds[n] => holds[n + 1]
    BY <1>3, <1>4
  <2> HIDE DEF holds
  <2> QED BY <2>1, Induction
<1>6. Good(c)
  BY <1>1, <1>5
<1> QED BY <1>1, <1>2, <1>6 DEF Good, c

\* Nodes that follow none but one another, and that no other node is less
\* than, come before all others.
LEMMA FirstComeFirst ==
    ASSUME NEW before, NEW less, NEW s, Ordered(before, s), Greedy(before, less, s),
           Range(s) = DOMAIN before, NEW F \in SUBSET DOMAIN before,
           \A x \in F : before[x] \subseteq F,
           \A x \in F, y \in DOMAIN before : y \notin F => <<y, x>> \notin less
    PROVE  \A i, j \in 1..Len(s) : s[i] \in F /\ s[j] \notin F => i < j
<1> SUFFICES ASSUME NEW i \in 1..Len(s), NEW j \in 1..Len(s), s[i] \in F, s[j] \notin F, ~(i < j)
             PROVE  FALSE
  OBVIOUS
<1>1. s \in Seq(DOMAIN before) /\ Len(s) \in Nat
  BY DEF Ordered
<1> DEFINE later == {k \in 1..Len(s) : k > j /\ s[k] \in F}
<1>2. later \in SUBSET Nat /\ i \in later
  BY <1>1
<1>3. PICK k \in later : \A l \in later : k <= l
  <2> HIDE DEF later
  <2> QED BY <1>2, LeastNatural
<1>4. before[s[k]] \subseteq {s[l] : l \in 1..(j - 1)}
  <2>1. before[s[k]] \subseteq {s[l] : l \in 1..(k - 1)} /\ before[s[k]] \subseteq F
    BY <1>1, <1>3 DEF Ordered
  <2>2. \A l \in 1..(k - 1) : s[l] \in F => l \in 1..(j - 1)
    <3> SUFFICES ASSUME NEW l \in 1..(k - 1), s[l] \in F, ~(l \in 1..(j - 1)) PROVE FALSE
      OBVIOUS
    <3>1. l \in 1..Len(s) /\ l >= j /\ l < k
      BY <1>1, <1>3
    <3>2. l # j
      OBVIOUS
    <3>3. l \in later
      BY <3>1, <3>2
    <3> QED BY <1>3, <3>1, <3>3
  <2> QED BY <2>1, <2>2
<1>5. s[k] \in DOMAIN before /\ \A l \in 1..j : s[l] # s[k]
  BY <1>1, <1>3 DEF Ordered
<1>6. <<s[j], s[k]>> \in less
  BY <1>4, <1>5 DEF Greedy
<1> QED BY <1>1, <1>3, <1>6

-------------------------------------------------------------------------------
(* The order of modules and of steps *)

IsFirst(x, T, rank, place) ==
    \A y \in T \ {x} : rank[x] < rank[y] \/ (rank[x] = rank[y] /\ place[x] < place[y])

\* Of things with a rank and a place of their own there is a first one.
LEMMA FirstByRankAndPlace ==
    ASSUME NEW T, T # {}, NEW rank \in [T -> Nat], NEW place \in [T -> Nat],
           \A x, y \in T : place[x] = place[y] => x = y
    PROVE  \E x \in T : IsFirst(x, T, rank, place)
<1> DEFINE ranks == {rank[x] : x \in T}
<1>1. PICK r \in ranks : \A q \in ranks : r <= q
  <2>1. ranks \in SUBSET Nat /\ ranks # {}
    OBVIOUS
  <2> HIDE DEF ranks
  <2> QED BY <2>1, LeastNatural
<1> DEFINE lowest == {x \in T : rank[x] = r}
           places == {place[x] : x \in lowest}
<1>2. PICK q \in places : \A o \in places : q <= o
  <2>1. places \in SUBSET Nat /\ places # {}
    OBVIOUS
  <2> HIDE DEF places
  <2> QED BY <2>1, LeastNatural
<1>3. PICK x \in lowest : place[x] = q
  OBVIOUS
<1>4. ASSUME NEW y \in T \ {x}
      PROVE  rank[x] < rank[y] \/ (rank[x] = rank[y] /\ place[x] < place[y])
  <2>1. rank[x] = r /\ rank[y] \in Nat /\ r \in Nat /\ r <= rank[y]
    BY <1>1
  <2>2. CASE rank[y] = r
    <3>1. place[x] <= place[y] /\ place[x] # place[y] /\ place[x] \in Nat /\ place[y] \in Nat
      BY <1>2, <1>3, <2>2
    <3> QED BY <2>1, <2>2, <3>1
  <2> QED BY <2>1, <2>2
<1> QED BY <1>3, <1>4 DEF IsFirst

LEMMA RankIsNatural == \A name : ModuleRank(name) \in Nat
BY DEF ModuleRank, CanonicalRank

LEMMA ModulesHaveAnOrder ==
    ASSUME NEW names \in SUBSET Range(ModuleNames)
    PROVE  Orders({e \in names \X names : ModuleLess(e[1], e[2])}, names)
<1> SUFFICES ASSUME NEW T \in SUBSET names, T # {}
             PROVE  \E x \in T : \A y \in T \ {x} : ModuleLess(x, y)
  BY DEF Orders
<1> DEFINE rank == [x \in T |-> ModuleRank(x)]
           place == [x \in T |-> NamePlace[x]]
<1>1. \A x \in T : NamePlace[x] \in DOMAIN ModuleNames /\ ModuleNames[NamePlace[x]] = x
  BY DEF NamePlace, Range
<1>2. rank \in [T -> Nat] /\ place \in [T -> Nat]
  BY <1>1, RankIsNatural, PlannerAssumption
<1>3. \A x, y \in T : place[x] = place[y] => x = y
  BY <1>1
<1>4. PICK x \in T : IsFirst(x, T, rank, place)
  <2> HIDE DEF rank, place
  <2> QED BY <1>2, <1>3, FirstByRankAndPlace
<1> QED BY <1>4 DEF ModuleLess, IsFirst

LEMMA StepsHaveAnOrder ==
    ASSUME NEW steps, \A s \in steps : s.id \in Range(StepIDs),
           \A s, t \in steps : s.id = t.id => s = t
    PROVE  Orders({e \in steps \X steps : StepLess(e[1], e[2])}, steps)
<1> SUFFICES ASSUME NEW T \in SUBSET steps, T # {}
             PROVE  \E x \in T : \A y \in T \ {x} : StepLess(x, y)
  BY DEF Orders
<1> DEFINE rank == [s \in T |-> ModuleRank(s.module)]
           place == [s \in T |-> IDPlace[s.id]]
<1>1. \A s \in T : IDPlace[s.id] \in DOMAIN StepIDs /\ StepIDs[IDPlace[s.id]] = s.id
  BY DEF IDPlace, Range
<1>2. rank \in [T -> Nat] /\ place \in [T -> Nat]
  BY <1>1, RankIsNatural, PlannerAssumption
<1>3. \A x, y \in T : place[x] = place[y] => x = y
  BY <1>1
<1>4. PICK x \in T : IsFirst(x, T, rank, place)
  <2> HIDE DEF rank, place
  <2> QED BY <1>2, <1>3, FirstByRankAndPlace
<1> QED BY <1>4 DEF StepLess, IsFirst

-------------------------------------------------------------------------------
(* The selection *)

LEMMA NamesAreUnique ==
    ASSUME NEW mods, IsFiniteSet(mods)
    PROVE  /\ IsFiniteSet(Names(mods))
           /\ Cardinality(Names(mods)) = Cardinality(mods)
                 <=> \A m, o \in mods : m.name = o.name => m = o
<1> DEFINE f == [m \in mods |-> m.name]
<1>1. f \in Surjection(mods, Names(mods))
  BY DEF Surjection, Names
<1>2. f \in Injection(mods, Names(mods)) <=> \A m, o \in mods : m.name = o.name => m = o
  BY DEF Injection, IsInjective, Names
<1> HIDE DEF f
<1> QED BY <1>1, <1>2, FS_Surjection

LEMMA NamedByName ==
    ASSUME NEW mods, \A m, o \in mods : m.name = o.name => m = o
    PROVE  /\ \A m \in mods : Named(mods, m.name) = m
           /\ \A n \in Names(mods) : Named(mods, n) \in mods /\ Named(mods, n).name = n
BY DEF Named, Names

\* What SelectModules starts from, and what it adds.
Roots(mods, sel) == ({m.name : m \in {o \in mods : o.enabled}} \cup sel.with) \ sel.without
Pulled(mods, sel, chosen) ==
    {d \in (UNION {Named(mods, n).deps : n \in chosen}) :
        d \in Names(mods) \ sel.without /\ Named(mods, d).enabled}
Closed(mods, sel, S) ==
    /\ \A m \in mods : (m.enabled \/ m.name \in sel.with) /\ m.name \notin sel.without
                       => m.name \in S
    /\ \A m, d \in mods : m.name \in S /\ d.name \in m.deps /\ d.enabled
                          /\ d.name \notin sel.without => d.name \in S

IsClosure(closure, mods, sel) ==
    /\ SelectModules(mods, sel) = closure[Cardinality(mods)]
    /\ closure[0] = Roots(mods, sel)
    /\ \A n \in 1..Cardinality(mods) :
          closure[n] = closure[n - 1] \cup Pulled(mods, sel, closure[n - 1])

LEMMA ClosureChain ==
    ASSUME NEW mods, IsFiniteSet(mods), NEW sel, sel.only = {}, sel.with \subseteq Names(mods)
    PROVE  \E closure : IsClosure(closure, mods, sel)
<1> DEFINE c == Cardinality(mods)
           S == SUBSET Names(mods)
           Is(f) == f = [n \in 0..c |-> IF n = 0 THEN Roots(mods, sel)
                                        ELSE f[n - 1] \cup Pulled(mods, sel, f[n - 1])]
           next == [n \in Nat |-> [chosen \in S |-> chosen \cup Pulled(mods, sel, chosen)]]
<1>1. c \in Nat
  BY FS_CardinalityType
<1> HIDE DEF c
<1>2. \E f : Is(f)
  <2>1. next \in [Nat -> [S -> S]]
    BY DEF Pulled
  <2>2. Roots(mods, sel) \in S
    BY DEF Roots, Names
  <2>3. PICK f \in [0..c -> S] :
           f[0] = Roots(mods, sel) /\ \A n \in 1..c : f[n] = next[n][f[n - 1]]
    <3> HIDE DEF next, S
    <3>1. Iterates(S, Roots(mods, sel), next, c)
      BY <1>1, <2>1, <2>2, Iteration
    <3> QED BY <3>1 DEF Iterates
  <2>4. ASSUME NEW n \in 1..c PROVE f[n] = f[n - 1] \cup Pulled(mods, sel, f[n - 1])
    <3>1. f[n - 1] \in S /\ n \in Nat
      BY <1>1, <2>3
    <3> HIDE DEF S
    <3> QED BY <2>3, <3>1
  <2>5. \A n \in 0..c : f[n] = IF n = 0 THEN Roots(mods, sel)
                                ELSE f[n - 1] \cup Pulled(mods, sel, f[n - 1])
    BY <1>1, <2>3, <2>4
  <2> HIDE DEF S
  <2>6. f = [n \in 0..c |-> IF n = 0 THEN Roots(mods, sel)
                            ELSE f[n - 1] \cup Pulled(mods, sel, f[n - 1])]
    BY <2>3, <2>5
  <2> QED BY <2>6
<1> DEFINE closure == CHOOSE f : Is(f)
<1>3. Is(closure)
  BY <1>2
<1>4. SelectModules(mods, sel) = closure[c]
  BY DEF SelectModules, Roots, Pulled, c
<1> HIDE DEF closure
<1>5. closure[0] = Roots(mods, sel)
  BY <1>1, <1>3
<1>6. ASSUME NEW n \in 1..c
      PROVE  closure[n] = closure[n - 1] \cup Pulled(mods, sel, closure[n - 1])
  <2>1. n \in 0..c /\ n # 0
    BY <1>1
  <2> QED BY <1>3, <2>1
<1>7. IsClosure(closure, mods, sel)
  BY <1>4, <1>5, <1>6 DEF c, IsClosure
<1> QED BY <1>7

\* SelectModules takes as many rounds as there are modules, which is enough:
\* a round that is not the last adds one.
THEOREM SelectionIsLeastClosed ==
    ASSUME NEW mods, IsFiniteSet(mods), \A m, o \in mods : m.name = o.name => m = o,
           NEW sel, sel.with \subseteq Names(mods)
    PROVE  SelectModules(mods, sel) = Selected(mods, sel)
<1>1. CASE sel.only # {}
  BY <1>1 DEF SelectModules, Selected
<1>2. CASE sel.only = {}
  <2> DEFINE c == Cardinality(mods)
  <2>1. c \in Nat
    BY FS_CardinalityType
  <2>2. PICK closure : /\ SelectModules(mods, sel) = closure[c]
                       /\ closure[0] = Roots(mods, sel)
                       /\ \A n \in 1..c :
                             closure[n] = closure[n - 1] \cup Pulled(mods, sel, closure[n - 1])
    <3>1. PICK f : IsClosure(f, mods, sel)
      BY <1>2, ClosureChain
    <3> QED BY <3>1 DEF IsClosure
  <2>3. IsFiniteSet(Names(mods)) /\ Cardinality(Names(mods)) = c
    BY NamesAreUnique
  <2> HIDE DEF c
  <2> DEFINE Full(n) == Pulled(mods, sel, closure[n]) \subseteq closure[n] \/ Cardinality(closure[n]) >= n
             Good(n) == n <= c => /\ closure[n] \subseteq Names(mods)
                                  /\ Roots(mods, sel) \subseteq closure[n]
                                  /\ \A S \in SUBSET Names(mods) :
                                        Closed(mods, sel, S) => closure[n] \subseteq S
                                  /\ Full(n)
             holds == [n \in Nat |-> Good(n)]
  <2>4. Good(0)
    <3>1. Roots(mods, sel) \subseteq Names(mods)
      BY DEF Roots, Names
    <3>2. \A S \in SUBSET Names(mods) : Closed(mods, sel, S) => Roots(mods, sel) \subseteq S
      BY DEF Roots, Names, Closed
    <3>3. Cardinality(closure[0]) \in Nat
      BY <2>2, <2>3, <3>1, FS_Subset, FS_CardinalityType
    <3> QED BY <2>2, <3>1, <3>2, <3>3
  <2>5. ASSUME NEW n \in Nat, Good(n) PROVE Good(n + 1)
    <3> SUFFICES ASSUME n + 1 <= c PROVE Good(n + 1)
      OBVIOUS
    <3> DEFINE old == closure[n]
               new == closure[n + 1]
    <3>1. n + 1 \in 1..c /\ n = (n + 1) - 1 /\ n <= c
      BY <2>1
    <3>2. new = old \cup Pulled(mods, sel, old)
      BY <2>2, <3>1
    <3>3. /\ old \subseteq Names(mods) /\ Roots(mods, sel) \subseteq old /\ Full(n)
          /\ \A S \in SUBSET Names(mods) : Closed(mods, sel, S) => old \subseteq S
      BY <2>5, <3>1
    <3> HIDE DEF old
    <3>4. new \subseteq Names(mods) /\ Roots(mods, sel) \subseteq new
      BY <3>2, <3>3 DEF Pulled
    <3>5. ASSUME NEW S \in SUBSET Names(mods), Closed(mods, sel, S) PROVE new \subseteq S
      <4>1. old \subseteq S
        BY <3>3, <3>5
      <4>2. ASSUME NEW d \in Pulled(mods, sel, old) PROVE d \in S
        <5>1. PICK a \in old : d \in Named(mods, a).deps
          BY DEF Pulled
        <5>2. d \in Names(mods) /\ d \notin sel.without /\ Named(mods, d).enabled
          BY DEF Pulled
        <5>3. /\ Named(mods, a) \in mods /\ Named(mods, a).name = a
              /\ Named(mods, d) \in mods /\ Named(mods, d).name = d
          BY <3>3, <5>1, <5>2, NamedByName
        <5> QED BY <3>5, <4>1, <5>1, <5>2, <5>3 DEF Closed
      <4> QED BY <3>2, <4>1, <4>2
    <3>6. Full(n + 1)
      <4>1. CASE Pulled(mods, sel, old) \subseteq old
        <5>1. new = old
          BY <3>2, <4>1
        <5> QED BY <4>1, <5>1 DEF old
      <4>2. CASE ~(Pulled(mods, sel, old) \subseteq old)
        <5>1. Cardinality(old) >= n
          BY <3>3, <4>2 DEF old
        <5>2. old \subseteq new /\ old # new
          BY <3>2, <4>2
        <5>3. IsFiniteSet(new) /\ IsFiniteSet(old)
          BY <2>3, <3>3, <3>4, FS_Subset
        <5>4. Cardinality(old) <= Cardinality(new) /\ Cardinality(old) # Cardinality(new)
          BY <5>2, <5>3, FS_Subset
        <5>5. Cardinality(old) \in Nat /\ Cardinality(new) \in Nat
          BY <5>3, FS_CardinalityType
        <5> QED BY <5>1, <5>4, <5>5
      <4> QED BY <4>1, <4>2
    <3> QED BY <3>4, <3>5, <3>6
  <2> HIDE DEF Good
  <2>6. \A n \in Nat : holds[n]
    <3>1. holds[0] /\ \A n \in Nat : holds[n] => holds[n + 1]
      BY <2>4, <2>5
    <3> HIDE DEF holds
    <3> QED BY <3>1, Induction
  <2> DEFINE last == closure[c]
  <2>7. /\ last \subseteq Names(mods) /\ Roots(mods, sel) \subseteq last
        /\ \A S \in SUBSET Names(mods) : Closed(mods, sel, S) => last \subseteq S
        /\ Pulled(mods, sel, last) \subseteq last \/ Cardinality(last) >= c
    <3>1. Good(c)
      BY <2>1, <2>6
    <3> QED BY <2>1, <3>1 DEF Good
  <2> HIDE DEF last
  <2>8. Pulled(mods, sel, last) \subseteq last
    <3>1. CASE Cardinality(last) >= c
      <4>1. Cardinality(last) \in Nat /\ Cardinality(last) <= c
        BY <2>3, <2>7, FS_Subset, FS_CardinalityType
      <4>2. last = Names(mods)
        BY <2>1, <2>3, <2>7, <3>1, <4>1, FS_Subset
      <4> QED BY <4>2 DEF Pulled
    <3> QED BY <2>7, <3>1
  <2>9. Closed(mods, sel, last)
    <3>1. ASSUME NEW m \in mods, m.enabled \/ m.name \in sel.with, m.name \notin sel.without
          PROVE  m.name \in last
      BY <2>7, <3>1 DEF Roots
    <3>2. ASSUME NEW m \in mods, NEW d \in mods, m.name \in last, d.name \in m.deps,
                 d.enabled, d.name \notin sel.without
          PROVE  d.name \in last
      <4>1. Named(mods, m.name) = m /\ Named(mods, d.name) = d /\ d.name \in Names(mods)
        BY NamedByName DEF Names
      <4>2. d.name \in Pulled(mods, sel, last)
        BY <3>2, <4>1 DEF Pulled
      <4> QED BY <2>8, <4>2
    <3> QED BY <3>1, <3>2 DEF Closed
  <2>10. last = {n \in Names(mods) : \A S \in SUBSET Names(mods) : Closed(mods, sel, S) => n \in S}
    BY <2>7, <2>9
  <2> QED BY <1>2, <2>2, <2>10 DEF Selected, Closed, last
<1> QED BY <1>1, <1>2

-------------------------------------------------------------------------------
(* The plan *)

LEMMA Outcomes ==
    /\ \A why : Failure(why).ok = FALSE
    /\ \A steps : Success(steps).ok = TRUE /\ Success(steps).steps = steps
BY DEF Failure, Success

LEMMA StepsAreFinite ==
    ASSUME NEW mods, WellFormed(mods), NEW some \in SUBSET mods
    PROVE  IsFiniteSet(AllSteps(some))
<1> DEFINE f == [m \in some |-> m.steps]
           T == {m.steps : m \in some}
<1>1. IsFiniteSet(some)
  BY FS_Subset DEF WellFormed
<1>2. f \in Surjection(some, T)
  BY DEF Surjection
<1>3. \A S \in T : IsFiniteSet(S)
  BY DEF WellFormed
<1> HIDE DEF f
<1>4. IsFiniteSet(T)
  <2> HIDE DEF T
  <2> QED BY <1>1, <1>2, FS_Surjection
<1> HIDE DEF T
<1>5. IsFiniteSet(UNION T)
  BY <1>3, <1>4, FS_UNION
<1> QED BY <1>5 DEF AllSteps, T

LEMMA CopiedIsUnique ==
    ASSUME NEW mods, WellFormed(mods)
    PROVE  CopyDefinitions(mods) <=> /\ \A m, o \in mods : m.name = o.name => m = o
                                     /\ \A s, t \in AllSteps(mods) : s.id = t.id => s = t
<1>1. Cardinality(Names(mods)) = Cardinality(mods)
        <=> \A m, o \in mods : m.name = o.name => m = o
  BY NamesAreUnique DEF WellFormed
<1>2. ASSUME \A m, o \in mods : m.name = o.name => m = o
      PROVE  (\A m, o \in mods : \A s \in m.steps, t \in o.steps : s.id = t.id => m = o /\ s = t)
               <=> \A s, t \in AllSteps(mods) : s.id = t.id => s = t
  <2>1. \A m, o \in mods : \A s \in m.steps, t \in o.steps : s = t => m = o
    BY <1>2 DEF WellFormed
  <2>2. \A s : s \in AllSteps(mods) <=> \E m \in mods : s \in m.steps
    BY DEF AllSteps
  <2> QED BY <2>1, <2>2
<1> QED BY <1>1, <1>2 DEF CopyDefinitions

LEMMA CycleOfModules ==
    ASSUME NEW mods, WellFormed(mods), NEW chosen \in SUBSET Names(mods)
    PROVE  ModuleCycle(mods, chosen) <=> ~Acyclic([n \in chosen |-> Named(mods, n).deps])
<1> DEFINE before == [n \in chosen |-> Named(mods, n).deps \cap chosen]
           less   == {e \in chosen \X chosen : ModuleLess(e[1], e[2])}
<1>1. chosen \in SUBSET Range(ModuleNames)
  BY DEF Names, WellFormed
<1>2. Orders(less, DOMAIN before)
  BY <1>1, ModulesHaveAnOrder
<1>3. IsFiniteSet(DOMAIN before)
  BY NamesAreUnique, FS_Subset DEF WellFormed
<1>4. \A x \in DOMAIN before : before[x] \subseteq DOMAIN before
  OBVIOUS
<1>5. DOMAIN before = chosen /\ \A n \in chosen : before[n] = Named(mods, n).deps \cap chosen
  OBVIOUS
<1>6. ModuleCycle(mods, chosen) <=> Len(StableOrder(before, less)) # Cardinality(chosen)
  BY DEF ModuleCycle
<1> HIDE DEF before, less
<1>7. Len(StableOrder(before, less)) = Cardinality(chosen)
        <=> \A T \in SUBSET chosen : T # {} => \E x \in T : \A y \in T : y \notin before[x]
  BY <1>2, <1>3, <1>4, <1>5, StableOrderIsSound
<1>8. Acyclic([n \in chosen |-> Named(mods, n).deps])
        <=> \A T \in SUBSET chosen : T # {} => \E x \in T : Named(mods, x).deps \cap T = {}
  BY DEF Acyclic
<1>9. ASSUME NEW T \in SUBSET chosen, NEW x \in T
      PROVE  Named(mods, x).deps \cap T = {} <=> \A y \in T : y \notin before[x]
  BY <1>5
<1> QED BY <1>6, <1>7, <1>8, <1>9

Before(mods, steps) == [t \in steps |-> {s \in steps : Precedes(mods, s, t)}]

PlansSteps(mods, chosen, only, plan) ==
    LET steps == AllSteps({m \in mods : m.name \in chosen})
    IN  /\ plan.ok <=>
              /\ \A s \in steps : s.deps \subseteq IDs(IF only THEN AllSteps(mods) ELSE steps)
              /\ Acyclic(Before(mods, steps))
        /\ plan.ok => /\ Ordered(Before(mods, steps), plan.steps)
                      /\ Range(plan.steps) = steps /\ Len(plan.steps) = Cardinality(steps)

\* Steps are planned in an order that respects what precedes what, if there is
\* one and each step they depend on is known.
LEMMA StepsAreOrdered ==
    ASSUME NEW mods, WellFormed(mods), NEW chosen, NEW only \in BOOLEAN,
           \A s, t \in AllSteps(mods) : s.id = t.id => s = t
    PROVE  PlansSteps(mods, chosen, only, OrderSteps(mods, chosen, only))
<1> DEFINE some   == {m \in mods : m.name \in chosen}
           steps  == AllSteps(some)
           before == Before(mods, steps)
           less   == {e \in steps \X steps : StepLess(e[1], e[2])}
           sorted == StableOrder(before, less)
           known  == IF only THEN IDs(AllSteps(mods)) ELSE IDs(steps)
<1>1. IsFiniteSet(steps)
  BY StepsAreFinite
<1>2. \A s \in steps : s \in AllSteps(mods) /\ s.id \in Range(StepIDs)
  BY DEF AllSteps, WellFormed
<1>3. OrderSteps(mods, chosen, only) =
        IF \E s \in steps : ~(s.deps \subseteq known) THEN Failure("missing step")
        ELSE IF Len(sorted) # Cardinality(steps) THEN Failure("step cycle")
        ELSE Success(sorted)
  BY DEF OrderSteps, Before, Precedes
<1>4. known = IDs(IF only THEN AllSteps(mods) ELSE steps)
  OBVIOUS
<1> HIDE DEF steps, known
<1>5. Orders(less, steps)
  BY <1>2, StepsHaveAnOrder
<1>6. DOMAIN before = steps /\ \A x \in steps : before[x] \subseteq steps
  BY DEF Before
<1> HIDE DEF less, before
<1>7. /\ Ordered(before, sorted)
      /\ Len(sorted) = Cardinality(steps) <=> Range(sorted) = steps
      /\ Range(sorted) = steps <=>
            \A T \in SUBSET steps : T # {} => \E x \in T : \A y \in T : y \notin before[x]
  BY <1>1, <1>5, <1>6, StableOrderIsSound
<1>8. Acyclic(before) <=>
        \A T \in SUBSET steps : T # {} => \E x \in T : \A y \in T : y \notin before[x]
  <2>1. \A T \in SUBSET steps : \A x \in T : before[x] \cap T = {} <=> \A y \in T : y \notin before[x]
    OBVIOUS
  <2> QED BY <1>6, <2>1 DEF Acyclic
<1> HIDE DEF sorted
<1>9. CASE \E s \in steps : ~(s.deps \subseteq known)
  <2>a. OrderSteps(mods, chosen, only) = Failure("missing step")
    BY <1>3, <1>9
  <2>1. OrderSteps(mods, chosen, only).ok = FALSE
    BY <2>a, Outcomes
  <2> QED BY <1>4, <1>9, <2>1 DEF steps, some, PlansSteps
<1>10. CASE (\A s \in steps : s.deps \subseteq known) /\ Len(sorted) # Cardinality(steps)
  <2>a. OrderSteps(mods, chosen, only) = Failure("step cycle")
    BY <1>3, <1>10
  <2>1. OrderSteps(mods, chosen, only).ok = FALSE
    BY <2>a, Outcomes
  <2>2. ~Acyclic(before)
    BY <1>7, <1>8, <1>10
  <2> QED BY <2>1, <2>2 DEF before, steps, some, PlansSteps
<1>11. CASE (\A s \in steps : s.deps \subseteq known) /\ Len(sorted) = Cardinality(steps)
  <2>a. OrderSteps(mods, chosen, only) = Success(sorted)
    BY <1>3, <1>11
  <2>1. OrderSteps(mods, chosen, only).ok = TRUE /\ OrderSteps(mods, chosen, only).steps = sorted
    BY <2>a, Outcomes
  <2>2. Acyclic(before) /\ Range(sorted) = steps
    BY <1>7, <1>8, <1>11
  <2> QED BY <1>4, <1>7, <1>11, <2>1, <2>2 DEF before, steps, some, PlansSteps
<1> QED BY <1>9, <1>10, <1>11

LEMMA SelectionIsKnown ==
    ASSUME NEW mods, WellFormed(mods), NEW sel, CopyDefinitions(mods), ValidateSelections(mods, sel)
    PROVE  /\ SelectModules(mods, sel) = Selected(mods, sel)
           /\ Selected(mods, sel) \subseteq Names(mods)
<1>1. SelectModules(mods, sel) = Selected(mods, sel)
  BY CopiedIsUnique, SelectionIsLeastClosed DEF WellFormed, ValidateSelections
<1>2. Selected(mods, sel) \subseteq Names(mods)
  BY DEF Selected, ValidateSelections
<1> QED BY <1>1, <1>2

\* The planner plans a selection exactly when it can be planned: names and IDs
\* are unique, what is named and depended on is there, and neither modules nor
\* steps form a cycle.
THEOREM PlansWhatIsPlannable ==
    ASSUME NEW mods, WellFormed(mods), NEW sel
    PROVE  BuildPlan(mods, sel).ok <=> Plannable(mods, sel)
<1> DEFINE chosen == SelectModules(mods, sel)
           steps == SelectedSteps(mods, sel)
<1>1. CASE ~CopyDefinitions(mods) \/ ~ValidateSelections(mods, sel)
  <2>1. BuildPlan(mods, sel) \in {Failure("duplicate"), Failure("unknown selection")}
    BY <1>1 DEF BuildPlan
  <2>2. BuildPlan(mods, sel).ok = FALSE
    BY <2>1, Outcomes
  <2>3. ~Plannable(mods, sel)
    BY <1>1, CopiedIsUnique DEF Plannable, ValidateSelections
  <2> QED BY <2>2, <2>3
<1>2. CASE CopyDefinitions(mods) /\ ValidateSelections(mods, sel)
  <2>1. chosen = Selected(mods, sel) /\ chosen \subseteq Names(mods)
    BY <1>2, SelectionIsKnown
  <2>2. /\ \A m, o \in mods : m.name = o.name => m = o
        /\ \A s, t \in AllSteps(mods) : s.id = t.id => s = t
        /\ sel.only \cup sel.with \cup sel.without \subseteq Names(mods)
    BY <1>2, CopiedIsUnique DEF ValidateSelections
  <2>3. DependenciesFit(mods, sel, chosen) <=>
          \A n \in chosen : \A d \in Named(mods, n).deps :
             d \in chosen \/ (sel.only # {} /\ d \in Names(mods) /\ Named(mods, d).enabled)
    BY <2>1 DEF DependenciesFit
  <2>4. ModuleCycle(mods, chosen) <=> ~Acyclic([n \in chosen |-> Named(mods, n).deps])
    BY <2>1, CycleOfModules
  <2>5. (sel.only # {}) \in BOOLEAN /\ steps = AllSteps({m \in mods : m.name \in chosen})
    BY <2>1 DEF SelectedSteps
  <2> DEFINE plan == OrderSteps(mods, chosen, sel.only # {})
  <2>6. plan.ok <=>
          /\ \A s \in steps : s.deps \subseteq IDs(IF sel.only # {} THEN AllSteps(mods) ELSE steps)
          /\ Acyclic(Before(mods, steps))
    <3> HIDE DEF chosen
    <3>1. PlansSteps(mods, chosen, sel.only # {}, plan)
      BY <2>2, <2>5, StepsAreOrdered
    <3> HIDE DEF plan, steps
    <3> QED BY <2>5, <3>1 DEF PlansSteps
  <2>7. Plannable(mods, sel) <=>
          DependenciesFit(mods, sel, chosen) /\ ~ModuleCycle(mods, chosen) /\ plan.ok
    <3> HIDE DEF plan
    <3> QED BY <2>1, <2>2, <2>3, <2>4, <2>6 DEF Plannable, Before
  <2>8. BuildPlan(mods, sel) =
          IF ~DependenciesFit(mods, sel, chosen) THEN Failure("missing module")
          ELSE IF ModuleCycle(mods, chosen) THEN Failure("module cycle") ELSE plan
    BY <1>2 DEF BuildPlan
  <2> HIDE DEF plan, chosen
  <2>9. CASE ~DependenciesFit(mods, sel, chosen) \/ ModuleCycle(mods, chosen)
    <3>1. BuildPlan(mods, sel) \in {Failure("missing module"), Failure("module cycle")}
      BY <2>8, <2>9
    <3>2. BuildPlan(mods, sel).ok = FALSE
      BY <3>1, Outcomes
    <3> QED BY <2>7, <2>9, <3>2
  <2>10. CASE DependenciesFit(mods, sel, chosen) /\ ~ModuleCycle(mods, chosen)
    <3>1. BuildPlan(mods, sel) = plan
      BY <2>8, <2>10
    <3> QED BY <2>7, <2>10, <3>1
  <2> QED BY <2>9, <2>10
<1> QED BY <1>1, <1>2

-------------------------------------------------------------------------------
(* The removal *)

\* Of the last n steps, some, in the opposite order.
Backwards(picked, steps, n) ==
    /\ picked \in Seq(Range(steps))
    /\ \A i \in 1..Len(picked) : \E a \in (Len(steps) - n + 1)..Len(steps) : picked[i] = steps[a]
    /\ \A i, j \in 1..Len(picked) : i < j =>
          \E a, b \in 1..Len(steps) : b < a /\ picked[i] = steps[a] /\ picked[j] = steps[b]

\* What is picked of one step more.
OneMore(old, new, steps, n) ==
    /\ steps \in Seq(Range(steps)) /\ n \in 1..Len(steps)
    /\ Backwards(old, steps, n - 1)
    /\ new \in {old, Append(old, steps[Len(steps) - n + 1])}

LEMMA OneMoreBackwards ==
    ASSUME NEW steps, NEW n, NEW old, NEW new, OneMore(old, new, steps, n)
    PROVE  Backwards(new, steps, n)
<1> DEFINE L == Len(steps)
           next == L - n + 1
<1>0. /\ steps \in Seq(Range(steps)) /\ n \in 1..L /\ Backwards(old, steps, n - 1)
      /\ new \in {old, Append(old, steps[next])}
  BY DEF OneMore
<1>1. L \in Nat /\ n \in 1..L /\ next \in 1..L /\ steps[next] \in Range(steps)
  BY <1>0 DEF Range
<1>2. /\ old \in Seq(Range(steps)) /\ Len(old) \in Nat
      /\ \A i \in 1..Len(old) : \E a \in (next + 1)..L : old[i] = steps[a]
      /\ \A i, j \in 1..Len(old) : i < j =>
            \E a, b \in 1..L : b < a /\ old[i] = steps[a] /\ old[j] = steps[b]
  <2>1. Len(steps) - (n - 1) + 1 = next + 1
    BY <1>1
  <2>2. Backwards(old, steps, n - 1)
    BY <1>0
  <2>3. /\ old \in Seq(Range(steps))
        /\ \A i \in 1..Len(old) : \E a \in (next + 1)..L : old[i] = steps[a]
    <3> HIDE DEF next
    <3> QED BY <2>1, <2>2 DEF Backwards
  <2>4. \A i, j \in 1..Len(old) : i < j =>
            \E a, b \in 1..L : b < a /\ old[i] = steps[a] /\ old[j] = steps[b]
    <3> HIDE DEF next
    <3> QED BY <2>2 DEF Backwards
  <2> HIDE DEF next
  <2> QED BY <2>3, <2>4
<1> HIDE DEF next
<1>3. (next + 1)..L \subseteq next..L /\ next..L \subseteq 1..L
  BY <1>1
<1>4. CASE new = old
  <2>1. \A i \in 1..Len(old) : \E a \in next..L : old[i] = steps[a]
    BY <1>2, <1>3
  <2> QED BY <1>2, <1>4, <2>1 DEF Backwards, next
<1>5. CASE new = Append(old, steps[next])
  <2>1. /\ new \in Seq(Range(steps)) /\ Len(new) = Len(old) + 1
        /\ new[Len(old) + 1] = steps[next] /\ \A i \in 1..Len(old) : new[i] = old[i]
    BY <1>1, <1>2, <1>5
  <2>2. ASSUME NEW i \in 1..Len(new) PROVE \E a \in next..L : new[i] = steps[a]
    <3>1. CASE i \in 1..Len(old)
      BY <1>2, <1>3, <2>1, <3>1
    <3>2. CASE i = Len(old) + 1
      <4>1. next \in next..L
        BY <1>1
      <4> QED BY <2>1, <3>2, <4>1
    <3> QED BY <1>2, <2>1, <3>1, <3>2
  <2>3. ASSUME NEW i \in 1..Len(new), NEW j \in 1..Len(new), i < j
        PROVE  \E a, b \in 1..L : b < a /\ new[i] = steps[a] /\ new[j] = steps[b]
    <3>1. i \in 1..Len(old)
      BY <1>2, <2>1, <2>3
    <3>2. CASE j \in 1..Len(old)
      <4>1. PICK a \in 1..L, b \in 1..L : b < a /\ old[i] = steps[a] /\ old[j] = steps[b]
        BY <1>2, <2>3, <3>1, <3>2
      <4> QED BY <2>1, <3>1, <3>2, <4>1
    <3>3. CASE j = Len(old) + 1
      <4>1. PICK a \in (next + 1)..L : old[i] = steps[a]
        BY <1>2, <3>1
      <4>2. a \in 1..L /\ next \in 1..L /\ next < a
        BY <1>1
      <4> QED BY <2>1, <3>1, <3>3, <4>1, <4>2
    <3> QED BY <1>2, <2>1, <3>2, <3>3
  <2> QED BY <2>1, <2>2, <2>3 DEF Backwards, next
<1> QED BY <1>0, <1>4, <1>5 DEF next

LEMMA LastAreBackwards ==
    ASSUME NEW steps, steps \in Seq(Range(steps)), NEW names
    PROVE  Backwards(LastOf(steps, names), steps, Len(steps))
<1> DEFINE c == Len(steps)
           S == Seq(Range(steps))
           Next(n, prefix) == LET s == steps[c - n + 1]
                              IN IF s.module \in names THEN Append(prefix, s) ELSE prefix
           Is(f) == f = [n \in 0..c |-> IF n = 0 THEN <<>> ELSE Next(n, f[n - 1])]
           next == [n \in Nat |-> [prefix \in S |-> IF n \in 1..c THEN Next(n, prefix) ELSE prefix]]
<1>1. c \in Nat
  OBVIOUS
<1> HIDE DEF c
<1>2. \E f : Is(f)
  <2>1. next \in [Nat -> [S -> S]]
    <3>1. ASSUME NEW n \in 1..c, NEW prefix \in S PROVE Next(n, prefix) \in S
      <4>1. c - n + 1 \in 1..Len(steps)
        BY <1>1 DEF c
      <4>2. steps[c - n + 1] \in Range(steps)
        BY <4>1 DEF Range
      <4> QED BY <4>2
    <3> HIDE DEF Next
    <3> QED BY <3>1
  <2>2. <<>> \in S
    OBVIOUS
  <2>3. PICK f \in [0..c -> S] : f[0] = <<>> /\ \A n \in 1..c : f[n] = next[n][f[n - 1]]
    <3> HIDE DEF next, S
    <3>1. Iterates(S, <<>>, next, c)
      BY <1>1, <2>1, <2>2, Iteration
    <3> QED BY <3>1 DEF Iterates
  <2> HIDE DEF S, Next
  <2>4. ASSUME NEW n \in 1..c PROVE f[n] = Next(n, f[n - 1])
    <3>1. f[n - 1] \in S /\ n \in Nat
      BY <1>1, <2>3
    <3> QED BY <2>3, <3>1
  <2>5. \A n \in 0..c : f[n] = IF n = 0 THEN <<>> ELSE Next(n, f[n - 1])
    BY <1>1, <2>3, <2>4
  <2>6. f = [n \in 0..c |-> IF n = 0 THEN <<>> ELSE Next(n, f[n - 1])]
    BY <2>3, <2>5
  <2> QED BY <2>6
<1> DEFINE last == CHOOSE f : Is(f)
<1>3. Is(last)
  BY <1>2
<1>4. LastOf(steps, names) = last[c]
  BY DEF LastOf, c
<1> HIDE DEF last
<1> DEFINE Good(n) == n <= c => Backwards(last[n], steps, n)
           holds == [n \in Nat |-> Good(n)]
<1>5. Good(0)
  <2>1. last[0] = <<>>
    BY <1>1, <1>3
  <2> QED BY <2>1 DEF Backwards
<1>6. ASSUME NEW n \in Nat, Good(n) PROVE Good(n + 1)
  <2> SUFFICES ASSUME n + 1 <= c PROVE Backwards(last[n + 1], steps, n + 1)
    OBVIOUS
  <2>1. n + 1 \in 0..c /\ n + 1 # 0 /\ n = (n + 1) - 1 /\ n <= c /\ n + 1 \in 1..Len(steps)
    BY <1>1 DEF c
  <2>2. last[n + 1] = Next(n + 1, last[n])
    BY <1>3, <2>1
  <2>3. last[n + 1] \in {last[n], Append(last[n], steps[Len(steps) - (n + 1) + 1])}
    BY <2>2 DEF c
  <2>4. Backwards(last[n], steps, (n + 1) - 1)
    BY <1>6, <2>1
  <2> DEFINE m == n + 1
             new == last[n + 1]
             old == last[n]
  <2>5. OneMore(old, new, steps, m)
    BY <2>1, <2>3, <2>4 DEF OneMore
  <2> HIDE DEF m, new, old
  <2>6. Backwards(new, steps, m)
    BY <2>5, OneMoreBackwards
  <2> QED BY <2>6 DEF m, new
<1> HIDE DEF Good
<1>7. \A n \in Nat : holds[n]
  <2>1. holds[0] /\ \A n \in Nat : holds[n] => holds[n + 1]
    BY <1>5, <1>6
  <2> HIDE DEF holds
  <2> QED BY <2>1, Induction
<1>8. Good(c)
  BY <1>1, <1>7
<1> QED BY <1>1, <1>4, <1>8 DEF Good, c

\* A plan that is made is the order of the steps of the selected modules.
LEMMA PlansAreOrderedSteps ==
    ASSUME NEW mods, WellFormed(mods), NEW sel, BuildPlan(mods, sel).ok
    PROVE  /\ \A s, t \in AllSteps(mods) : s.id = t.id => s = t
           /\ BuildPlan(mods, sel) = OrderSteps(mods, Selected(mods, sel), sel.only # {})
<1>1. CopyDefinitions(mods) /\ ValidateSelections(mods, sel)
  <2>1. BuildPlan(mods, sel) \notin {Failure("duplicate"), Failure("unknown selection")}
    BY Outcomes
  <2> QED BY <2>1 DEF BuildPlan
<1>2. SelectModules(mods, sel) = Selected(mods, sel)
  BY <1>1, SelectionIsKnown
<1>3. BuildPlan(mods, sel) = OrderSteps(mods, Selected(mods, sel), sel.only # {})
  <2>1. BuildPlan(mods, sel) \notin {Failure("missing module"), Failure("module cycle")}
    BY Outcomes
  <2> QED BY <1>1, <1>2, <2>1 DEF BuildPlan
<1>4. \A s, t \in AllSteps(mods) : s.id = t.id => s = t
  BY <1>1, CopiedIsUnique
<1> QED BY <1>3, <1>4

LEMMA PlansAreOrdered ==
    ASSUME NEW mods, WellFormed(mods), NEW sel, BuildPlan(mods, sel).ok
    PROVE  LET order == BuildPlan(mods, sel).steps
               steps == SelectedSteps(mods, sel)
           IN  /\ \A s, t \in AllSteps(mods) : s.id = t.id => s = t
               /\ Ordered(Before(mods, steps), order)
               /\ Range(order) = steps /\ Len(order) = Cardinality(steps)
<1> DEFINE order == BuildPlan(mods, sel).steps
           chosen == Selected(mods, sel)
           steps == SelectedSteps(mods, sel)
           before == Before(mods, steps)
<1>1. /\ \A s, t \in AllSteps(mods) : s.id = t.id => s = t
      /\ BuildPlan(mods, sel) = OrderSteps(mods, chosen, sel.only # {})
  BY PlansAreOrderedSteps
<1>2. Ordered(before, order) /\ Range(order) = steps /\ Len(order) = Cardinality(steps)
  <2>1. (sel.only # {}) \in BOOLEAN
    OBVIOUS
  <2>2. OrderSteps(mods, chosen, sel.only # {}).ok
    BY <1>1
  <2>3. PlansSteps(mods, chosen, sel.only # {}, OrderSteps(mods, chosen, sel.only # {}))
    <3> HIDE DEF chosen
    <3> QED BY <1>1, <2>1, StepsAreOrdered
  <2> QED BY <1>1, <2>2, <2>3 DEF SelectedSteps, PlansSteps
<1> QED BY <1>1, <1>2

\* It is the stable order of those steps.
LEMMA PlansAreStable ==
    ASSUME NEW mods, WellFormed(mods), NEW sel, BuildPlan(mods, sel).ok
    PROVE  LET steps == SelectedSteps(mods, sel)
           IN  BuildPlan(mods, sel).steps
                 = StableOrder(Before(mods, steps), {e \in steps \X steps : StepLess(e[1], e[2])})
<1> DEFINE chosen == Selected(mods, sel)
           steps == AllSteps({m \in mods : m.name \in chosen})
           less == {e \in steps \X steps : StepLess(e[1], e[2])}
           known == IF sel.only # {} THEN IDs(AllSteps(mods)) ELSE IDs(steps)
           sorted == StableOrder(Before(mods, steps), less)
<1>1. BuildPlan(mods, sel) = OrderSteps(mods, chosen, sel.only # {})
  BY PlansAreOrderedSteps
<1>2. OrderSteps(mods, chosen, sel.only # {}) =
        IF \E s \in steps : ~(s.deps \subseteq known) THEN Failure("missing step")
        ELSE IF Len(sorted) # Cardinality(steps) THEN Failure("step cycle")
        ELSE Success(sorted)
  BY DEF OrderSteps, Before, Precedes
<1> HIDE DEF steps, known, less, sorted
<1>3. BuildPlan(mods, sel) = Success(sorted)
  BY <1>1, <1>2, Outcomes
<1> QED BY <1>3, Outcomes DEF sorted, less, steps, SelectedSteps

\* The steps of a module that depend on nothing but one another come before
\* those of the modules of a higher rank.
LEMMA PlansFollowTheRanks ==
    ASSUME NEW mods, WellFormed(mods), NEW sel, BuildPlan(mods, sel).ok, NEW name,
           \A m \in mods : m.deps = {},
           \A s \in AllSteps(mods) : s.module # name => ModuleRank(name) < ModuleRank(s.module),
           \A s, t \in AllSteps(mods) : s.module = name /\ t.id \in s.deps => t.module = name
    PROVE  LET order == BuildPlan(mods, sel).steps
           IN  \A i, j \in DOMAIN order :
                   order[i].module = name /\ order[j].module # name => i < j
<1> DEFINE order == BuildPlan(mods, sel).steps
           steps == SelectedSteps(mods, sel)
           before == Before(mods, steps)
           less == {e \in steps \X steps : StepLess(e[1], e[2])}
           F == {s \in steps : s.module = name}
<1>1. /\ \A s, t \in AllSteps(mods) : s.id = t.id => s = t
      /\ Ordered(before, order) /\ Range(order) = steps
  BY PlansAreOrdered
<1>2. steps \subseteq AllSteps(mods)
  BY DEF SelectedSteps, AllSteps
<1>3. DOMAIN before = steps
  BY DEF Before
<1>4. \A x \in F : before[x] \subseteq F
  <2> SUFFICES ASSUME NEW x \in F, NEW y \in before[x] PROVE y \in F
    OBVIOUS
  <2>1. x \in steps /\ x.module = name /\ y \in steps /\ Precedes(mods, y, x)
    BY DEF Before
  <2>2. Named(mods, x.module).deps = {}
    <3>1. PICK m \in mods : x \in m.steps
      BY <1>2, <2>1 DEF AllSteps
    <3>2. m.name = x.module
      BY <3>1 DEF WellFormed
    <3>3. Named(mods, x.module) \in mods
      BY <3>2 DEF Named
    <3> QED BY <3>3
  <2>3. y.id \in x.deps
    BY <2>1, <2>2 DEF Precedes
  <2> QED BY <1>2, <2>1, <2>3
<1>5. \A x \in F, y \in steps : y \notin F => <<y, x>> \notin less
  <2> SUFFICES ASSUME NEW x \in F, NEW y \in steps, y \notin F PROVE ~StepLess(y, x)
    OBVIOUS
  <2>1. ModuleRank(x.module) < ModuleRank(y.module)
    BY <1>2
  <2> QED BY <2>1, RankIsNatural DEF StepLess
<1>6. Greedy(before, less, order)
  <2>1. \A s \in steps : s.id \in Range(StepIDs)
    BY <1>2 DEF AllSteps, WellFormed
  <2>2. IsFiniteSet(steps) /\ Orders(less, steps)
    <3>1. \A s, t \in steps : s.id = t.id => s = t
      BY <1>1, <1>2
    <3>2. IsFiniteSet(steps)
      <4>1. {m \in mods : m.name \in Selected(mods, sel)} \in SUBSET mods
        OBVIOUS
      <4> QED BY <4>1, StepsAreFinite DEF SelectedSteps
    <3> HIDE DEF steps
    <3> QED BY <2>1, <3>1, <3>2, StepsHaveAnOrder
  <2>3. order = StableOrder(before, less)
    BY PlansAreStable
  <2> HIDE DEF steps, before, less, order
  <2> QED BY <1>3, <2>2, <2>3, StableOrderIsGreedy
<1>7. DOMAIN order = 1..Len(order) /\ \A i \in DOMAIN order : order[i] \in steps
  BY <1>1, <1>3 DEF Ordered, Range
<1> HIDE DEF order, before, less
<1>8. F \in SUBSET DOMAIN before /\ Range(order) = DOMAIN before
  BY <1>1, <1>3
<1>9. \A i, j \in 1..Len(order) : order[i] \in F /\ order[j] \notin F => i < j
  <2>1. \A x \in F, y \in DOMAIN before : y \notin F => <<y, x>> \notin less
    BY <1>3, <1>5
  <2> HIDE DEF F
  <2> QED BY <1>1, <1>4, <1>6, <1>8, <2>1, FirstComeFirst
<1> QED BY <1>7, <1>9 DEF order

\* The planner's plans are sound: each selected step once, none before one it
\* depends on, and removed in an order that leaves what a step depends on in
\* place until the step is gone.
THEOREM PlansAreSound ==
    ASSUME NEW mods, WellFormed(mods), NEW sel, BuildPlan(mods, sel).ok
    PROVE  Sound(mods, sel, BuildPlan(mods, sel).steps)
<1> DEFINE order == BuildPlan(mods, sel).steps
           chosen == Selected(mods, sel)
           steps == SelectedSteps(mods, sel)
           before == Before(mods, steps)
<1>1. /\ \A s, t \in AllSteps(mods) : s.id = t.id => s = t
      /\ Ordered(before, order) /\ Range(order) = steps /\ Len(order) = Cardinality(steps)
  BY PlansAreOrdered
<1>2. \A s \in steps : s \in AllSteps(mods) /\ {"id", "module", "deps"} \subseteq DOMAIN s
  BY DEF SelectedSteps, AllSteps, WellFormed
<1>3. /\ DOMAIN before = steps
      /\ \A t \in steps : \A s \in steps : s \in before[t] <=> Precedes(mods, s, t)
  BY DEF Before
<1> HIDE DEF order, steps, before
<1>4. order \in Seq(steps) /\ Len(order) \in Nat /\ DOMAIN order = 1..Len(order)
      /\ \A i \in 1..Len(order) : order[i] \in steps
  BY <1>1, <1>3 DEF Ordered
<1>5. ASSUME NEW i \in 1..Len(order), NEW j \in 1..Len(order), i < j
      PROVE  ~Precedes(mods, order[j], order[i])
  <2> SUFFICES ASSUME Precedes(mods, order[j], order[i]) PROVE FALSE
    OBVIOUS
  <2>1. order[j] \in before[order[i]]
    BY <1>3, <1>4
  <2>2. PICK k \in 1..(i - 1) : order[j] = order[k]
    BY <1>1, <2>1 DEF Ordered
  <2>3. k \in 1..Len(order) /\ k # j
    BY <1>4, <1>5
  <2> QED BY <1>1, <2>2, <2>3 DEF Ordered
<1> DEFINE removal == BuildRemovalPlan(order, chosen)
           picked == LastOf(order, chosen)
<1>6. ASSUME removal.ok, NEW i \in DOMAIN removal.steps, NEW j \in DOMAIN removal.steps, i < j,
              NEW s \in steps, s.id = removal.steps[j].id
       PROVE  removal.steps[i].id \notin s.deps
  <2> DEFINE Undone(t) == [t EXCEPT !.disp = "remove", !.deps = {}, !.want = {}, !.gives = {},
                                     !.need = {}, !.loses = {}, !.drop = t.want]
  <2>1. removal = Success([k \in DOMAIN picked |-> Undone(picked[k])])
    <3>1. removal \notin {Failure("unknown selection"), Failure("missing inverse")}
      BY <1>6, Outcomes
    <3> QED BY <3>1 DEF BuildRemovalPlan
  <2>2. \A t \in steps : Undone(t).id = t.id
    BY <1>2
  <2> HIDE DEF Undone
  <2>3. removal.steps = [k \in DOMAIN picked |-> Undone(picked[k])]
    BY <2>1, Outcomes
  <2>4. Backwards(picked, order, Len(order))
    BY <1>1, <1>4, LastAreBackwards
  <2> HIDE DEF picked, removal
  <2>5. i \in 1..Len(picked) /\ j \in 1..Len(picked) /\ picked \in Seq(steps)
    BY <1>1, <1>6, <2>3, <2>4 DEF Backwards
  <2>6. PICK a \in 1..Len(order), b \in 1..Len(order) :
           b < a /\ picked[i] = order[a] /\ picked[j] = order[b]
    BY <1>6, <2>4, <2>5 DEF Backwards
  <2>7. removal.steps[i].id = order[a].id /\ removal.steps[j].id = order[b].id
    BY <1>4, <1>6, <2>2, <2>3, <2>6
  <2>8. s = order[b]
    BY <1>1, <1>2, <1>4, <1>6, <2>7
  <2>9. ~Precedes(mods, order[a], order[b])
    BY <1>5, <2>6
  <2> QED BY <2>7, <2>8, <2>9 DEF Precedes
<1> QED BY <1>1, <1>4, <1>5, <1>6 DEF Sound, order, steps

===============================================================================
