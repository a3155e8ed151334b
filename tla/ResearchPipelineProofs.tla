----------------------- MODULE ResearchPipelineProofs -----------------------
(***************************************************************************)
(* What a research run finds and keeps, proved for all queries, rows and   *)
(* answers, any sizes of batches and sets, and any faults and mutations.   *)
(* Three of the definitions the run computes with need lemmas of their     *)
(* own: the order of a set of positions (InOrder, Ranked), which is there  *)
(* because the number of members before one tells them apart; the first    *)
(* candidates of a list that share nothing (Selected), which exist and are *)
(* the same in a longer list; and the batches of a list, whose results put *)
(* together are the list again (FlattenSeq).                               *)
(***************************************************************************)
EXTENDS ResearchPipeline, FiniteSetTheorems, SequenceTheorems, WellFoundedInduction, TLAPS

-----------------------------------------------------------------------------
(* Numbers and orders. *)

LEMMA LeastNumber ==
    ASSUME NEW T \in SUBSET Nat, T # {}
    PROVE  \E n \in T : \A m \in T : n <= m
<1>1. PICK n \in T : \A m \in T : <<m, n>> \notin OpToRel(<, Nat)
    BY NatLessThanWellFounded, WFMin
<1>2. \A m \in T : m \in Nat /\ n \in Nat /\ ~(m < n)
    BY <1>1 DEF OpToRel
<1>3. QED
    BY <1>2

\* ahead is a strict total order of S: who is ahead of each.
TotalOrder(S, ahead) ==
    /\ ahead \in [S -> SUBSET S]
    /\ \A i \in S : i \notin ahead[i]
    /\ \A i, j \in S : j \in ahead[i] => ahead[j] \subseteq ahead[i]
    /\ \A i, j \in S : i # j => j \in ahead[i] \/ i \in ahead[j]

\* How many are ahead of a member tells it from the others, and every number less
\* than the size of the set is taken.
LEMMA Places ==
    ASSUME NEW S, IsFiniteSet(S), NEW ahead, TotalOrder(S, ahead)
    PROVE  /\ Cardinality(S) \in Nat
           /\ \A i \in S : Cardinality(ahead[i]) \in 0..(Cardinality(S) - 1)
           /\ \A i, j \in S : j \in ahead[i] => Cardinality(ahead[j]) < Cardinality(ahead[i])
           /\ \A i, j \in S : Cardinality(ahead[i]) = Cardinality(ahead[j]) => i = j
           /\ \A k \in 1..Cardinality(S) : \E i \in S : Cardinality(ahead[i]) = k - 1
<1>1. \A T \in SUBSET S : IsFiniteSet(T) /\ Cardinality(T) \in Nat
    BY FS_Subset, FS_CardinalityType
<1>2. \A i \in S : ahead[i] \in SUBSET S
    BY DEF TotalOrder
<1>3. ASSUME NEW i \in S PROVE Cardinality(ahead[i]) \in 0..(Cardinality(S) - 1)
    <2>1. S \ {i} \in SUBSET S /\ ahead[i] \in SUBSET (S \ {i})
        BY <1>2 DEF TotalOrder
    <2>2. Cardinality(S \ {i}) = Cardinality(S) - 1
        BY FS_RemoveElement
    <2>3. Cardinality(ahead[i]) <= Cardinality(S \ {i})
        BY <1>1, <2>1, FS_Subset
    <2>4. Cardinality(ahead[i]) \in Nat /\ Cardinality(S) \in Nat /\ S \in SUBSET S
        BY <1>1, <1>2
    <2>5. QED
        BY <2>2, <2>3, <2>4
<1>4. ASSUME NEW i \in S, NEW j \in S, j \in ahead[i]
      PROVE  Cardinality(ahead[j]) < Cardinality(ahead[i])
    <2>1. ahead[j] \in SUBSET ahead[i] /\ ahead[j] # ahead[i]
        BY <1>4 DEF TotalOrder
    <2>2. IsFiniteSet(ahead[i])
        BY <1>1, <1>2
    <2>3. /\ Cardinality(ahead[j]) <= Cardinality(ahead[i])
          /\ Cardinality(ahead[j]) # Cardinality(ahead[i])
        BY <2>1, <2>2, FS_Subset
    <2>4. Cardinality(ahead[i]) \in Nat /\ Cardinality(ahead[j]) \in Nat
        BY <1>1, <1>2
    <2>5. QED
        BY <2>3, <2>4
<1>5. ASSUME NEW i \in S, NEW j \in S, Cardinality(ahead[i]) = Cardinality(ahead[j]), i # j
      PROVE  FALSE
    <2>1. j \in ahead[i] \/ i \in ahead[j]
        BY <1>5 DEF TotalOrder
    <2>2. Cardinality(ahead[i]) < Cardinality(ahead[j]) \/ Cardinality(ahead[j]) < Cardinality(ahead[i])
        BY <1>4, <2>1
    <2>3. Cardinality(ahead[i]) \in Nat /\ Cardinality(ahead[j]) \in Nat
        BY <1>1, <1>2
    <2>4. QED
        BY <1>5, <2>2, <2>3
<1>6. \A k \in 1..Cardinality(S) : \E i \in S : Cardinality(ahead[i]) = k - 1
    <2> DEFINE N == 0..(Cardinality(S) - 1)
               place == [i \in S |-> Cardinality(ahead[i])]
    <2>1. Cardinality(S) \in Nat
        BY FS_CardinalityType
    <2>2. place \in Injection(S, N)
        BY <1>3, <1>5 DEF Injection, IsInjective
    <2>3. IsFiniteSet(N) /\ Cardinality(N) = Cardinality(S)
        BY <2>1, FS_Interval
    <2>4. place \in Surjection(S, N)
        BY <2>2, <2>3, FS_Injection
    <2>5. \A k \in 1..Cardinality(S) : k - 1 \in N
        BY <2>1
    <2>6. QED
        BY <2>4, <2>5 DEF Surjection
<1>7. QED
    BY <1>3, <1>4, <1>5, <1>6, FS_CardinalityType
\* The positions before each of some positions are ahead of it.
LEMMA BeforeOrder ==
    ASSUME NEW n \in Nat, NEW S \in SUBSET (1..n)
    PROVE  /\ IsFiniteSet(S)
           /\ TotalOrder(S, [i \in S |-> {m \in S : m < i}])
<1> DEFINE before == [i \in S |-> {m \in S : m < i}]
<1>1. IsFiniteSet(S)
    <2>1. IsFiniteSet(1..n)
        BY FS_Interval
    <2>2. QED
        BY <2>1, FS_Subset
<1>2. \A i, j \in S : i \in Nat /\ j \in Nat
    OBVIOUS
<1>3. before \in [S -> SUBSET S] /\ \A i, j \in S : j \in before[i] <=> j < i
    OBVIOUS
<1>4. ASSUME NEW i \in S, NEW j \in S, j \in before[i], NEW m \in before[j] PROVE m \in before[i]
    <2>1. m \in S /\ m < j /\ j < i
        BY <1>3, <1>4
    <2>2. QED
        BY <1>2, <1>3, <2>1
<1> HIDE DEF before
<1>5. \A i, j \in S : j \in before[i] => before[j] \subseteq before[i]
    BY <1>4
<1>6. \A i, j \in S : i # j => j \in before[i] \/ i \in before[j]
    BY <1>2, <1>3
<1>7. \A i \in S : i \notin before[i]
    BY <1>2, <1>3
<1>8. TotalOrder(S, before)
    BY <1>3, <1>5, <1>6, <1>7 DEF TotalOrder
<1>9. QED
    BY <1>1, <1>8 DEF before

\* How many of some positions are before one.
Place(S, i) == Cardinality({m \in S : m < i})

\* A set of positions in its order: each of its members once, from first to last.
LEMMA InOrderLemma ==
    ASSUME NEW n \in Nat, NEW S \in SUBSET (1..n)
    PROVE  /\ Cardinality(S) \in Nat
           /\ InOrder(S) \in [1..Cardinality(S) -> S]
           /\ \A k \in 1..Cardinality(S) : Place(S, InOrder(S)[k]) = k - 1
           /\ \A i \in S : \E k \in 1..Cardinality(S) : InOrder(S)[k] = i
           /\ \A k, l \in 1..Cardinality(S) : k # l => InOrder(S)[k] # InOrder(S)[l]
           /\ \A i, j \in S : Place(S, i) = Place(S, j) => i = j
<1> DEFINE before == [i \in S |-> {m \in S : m < i}]
           c == Cardinality(S)
<1>1. /\ c \in Nat
      /\ \A i \in S : Place(S, i) \in 0..(c - 1)
      /\ \A i, j \in S : Place(S, i) = Place(S, j) => i = j
      /\ \A k \in 1..c : \E i \in S : Place(S, i) = k - 1
    <2>1. TotalOrder(S, before) /\ IsFiniteSet(S)
        BY BeforeOrder
    <2>2. \A i \in S : Place(S, i) = Cardinality(before[i])
        BY DEF Place
    <2> HIDE DEF before
    <2>3. /\ c \in Nat
          /\ \A i \in S : Cardinality(before[i]) \in 0..(c - 1)
          /\ \A i, j \in S : Cardinality(before[i]) = Cardinality(before[j]) => i = j
          /\ \A k \in 1..c : \E i \in S : Cardinality(before[i]) = k - 1
        BY <2>1, Places
    <2>4. QED
        BY <2>2, <2>3
<1>2. InOrder(S) = [k \in 1..c |-> CHOOSE i \in S : Place(S, i) = k - 1]
    BY DEF InOrder, Place
<1>3. ASSUME NEW k \in 1..c PROVE InOrder(S)[k] \in S /\ Place(S, InOrder(S)[k]) = k - 1
    <2>1. \E i \in S : Place(S, i) = k - 1
        BY <1>1
    <2>2. InOrder(S)[k] = CHOOSE i \in S : Place(S, i) = k - 1
        BY <1>2
    <2>3. QED
        BY <2>1, <2>2
<1>4. ASSUME NEW i \in S PROVE \E k \in 1..c : InOrder(S)[k] = i
    <2>1. Place(S, i) + 1 \in 1..c /\ Place(S, i) \in Nat
        BY <1>1
    <2>2. Place(S, InOrder(S)[Place(S, i) + 1]) = Place(S, i)
        BY <1>3, <2>1
    <2>3. InOrder(S)[Place(S, i) + 1] = i
        BY <1>1, <1>3, <2>1, <2>2
    <2>4. QED
        BY <2>1, <2>3
<1>5. \A k, l \in 1..c : k # l => InOrder(S)[k] # InOrder(S)[l]
    <2> SUFFICES ASSUME NEW k \in 1..c, NEW l \in 1..c, InOrder(S)[k] = InOrder(S)[l] PROVE k = l
        OBVIOUS
    <2>1. Place(S, InOrder(S)[k]) = k - 1 /\ Place(S, InOrder(S)[l]) = l - 1
        BY <1>3
    <2>2. QED
        BY <2>1
<1>6. InOrder(S) \in [1..c -> S]
    BY <1>2, <1>3
<1>7. QED
    BY <1>1, <1>3, <1>4, <1>5, <1>6

\* More positions behind the others change nothing about their order.
LEMMA InOrderExtended ==
    ASSUME NEW n \in Nat, NEW S \in SUBSET (1..n),
           NEW l \in Nat, n <= l, NEW T \in SUBSET (1..l), T \cap (1..n) = S
    PROVE  /\ Cardinality(S) <= Cardinality(T)
           /\ \A k \in 1..Cardinality(S) : InOrder(T)[k] = InOrder(S)[k]
<1>1. S \in SUBSET T /\ IsFiniteSet(T)
    BY BeforeOrder
<1>2. Cardinality(S) <= Cardinality(T)
    BY <1>1, FS_Subset
<1>3. /\ Cardinality(S) \in Nat
      /\ InOrder(S) \in [1..Cardinality(S) -> S]
      /\ \A k \in 1..Cardinality(S) : Place(S, InOrder(S)[k]) = k - 1
    BY InOrderLemma, ZenonT(60)
<1>4. /\ Cardinality(T) \in Nat
      /\ InOrder(T) \in [1..Cardinality(T) -> T]
      /\ \A k \in 1..Cardinality(T) : Place(T, InOrder(T)[k]) = k - 1
      /\ \A i, j \in T : Place(T, i) = Place(T, j) => i = j
    BY InOrderLemma, ZenonT(60)
<1>5. ASSUME NEW k \in 1..Cardinality(S) PROVE InOrder(T)[k] = InOrder(S)[k]
    <2>1. k \in 1..Cardinality(T)
        BY <1>2, <1>3, <1>4
    <2>2. InOrder(S)[k] \in S /\ Place(S, InOrder(S)[k]) = k - 1
        BY <1>3
    <2>3. InOrder(T)[k] \in T /\ Place(T, InOrder(T)[k]) = k - 1
        BY <1>4, <2>1
    <2>4. ASSUME NEW i \in S PROVE {m \in S : m < i} = {m \in T : m < i}
        <3>1. i \in 1..n
            OBVIOUS
        <3>2. \A m \in T : m < i => m \in 1..n
            BY <3>1
        <3>3. QED
            BY <3>2
    <2>5. Place(T, InOrder(S)[k]) = Place(T, InOrder(T)[k]) /\ InOrder(S)[k] \in T
        BY <1>1, <2>2, <2>3, <2>4 DEF Place
    <2>6. QED
        BY <1>4, <2>3, <2>5
<1>6. QED
    BY <1>2, <1>5
-----------------------------------------------------------------------------
(* Lists. *)

LEMMA FirstOfLemma ==
    ASSUME NEW X, NEW list \in Seq(X), NEW n \in Nat
    PROVE  /\ FirstOf(list, n) \in Seq(X)
           /\ Len(FirstOf(list, n)) = IF Len(list) < n THEN Len(list) ELSE n
           /\ \A i \in 1..Len(FirstOf(list, n)) : i \in DOMAIN list /\ FirstOf(list, n)[i] = list[i]
BY DEF FirstOf

LEMMA KeptLemma ==
    ASSUME NEW X, NEW list \in Seq(X), NEW S \in SUBSET DOMAIN list
    PROVE  /\ Kept(list, S) \in Seq(X) /\ Len(Kept(list, S)) = Cardinality(S)
           /\ \A k \in 1..Cardinality(S) : Kept(list, S)[k] = list[InOrder(S)[k]]
           /\ \A i \in S : \E k \in 1..Cardinality(S) : Kept(list, S)[k] = list[i]
<1>1. DOMAIN list = 1..Len(list) /\ Len(list) \in Nat
    OBVIOUS
<1>2. /\ Cardinality(S) \in Nat
      /\ InOrder(S) \in [1..Cardinality(S) -> S]
      /\ \A i \in S : \E k \in 1..Cardinality(S) : InOrder(S)[k] = i
    BY <1>1, InOrderLemma
<1>3. Kept(list, S) = [k \in 1..Cardinality(S) |-> list[InOrder(S)[k]]]
    BY DEF Kept
<1>4. Kept(list, S) \in [1..Cardinality(S) -> X]
    <2>1. \A i \in S : list[i] \in X
        OBVIOUS
    <2>2. QED
        BY <1>2, <1>3, <2>1
<1>5. Kept(list, S) \in Seq(X) /\ Len(Kept(list, S)) = Cardinality(S)
    BY <1>2, <1>4
<1>6. QED
    BY <1>2, <1>3, <1>5

\* Any two results of the recursion of FlattenSeq are equal.
Joined(ss, f) == f = [i \in 1..Len(ss) |-> IF i = 1 THEN ss[i] ELSE f[i - 1] \o ss[i]]

LEMMA JoinedOnce ==
    ASSUME NEW X, NEW ss \in Seq(Seq(X)), NEW f, NEW g, Joined(ss, f), Joined(ss, g)
    PROVE  f = g
<1> DEFINE T == {i \in 1..Len(ss) : f[i] # g[i]}
<1>1. /\ f = [i \in 1..Len(ss) |-> IF i = 1 THEN ss[i] ELSE f[i - 1] \o ss[i]]
      /\ g = [i \in 1..Len(ss) |-> IF i = 1 THEN ss[i] ELSE g[i - 1] \o ss[i]]
    BY DEF Joined
<1>2. CASE T # {}
    <2>7. T \in SUBSET Nat
        OBVIOUS
    <2>1. PICK n \in T : \A m \in T : n <= m
        <3> HIDE DEF T
        <3>1. QED
            BY <1>2, <2>7, LeastNumber
    <2>2. n \in 1..Len(ss) /\ f[n] # g[n]
        OBVIOUS
    <2>3. n # 1
        BY <1>1, <2>2
    <2>4. n - 1 \in 1..Len(ss) /\ n - 1 \notin T
        BY <2>1, <2>2, <2>3
    <2>5. f[n - 1] = g[n - 1]
        BY <2>4
    <2>6. \A i \in 1..Len(ss) : i # 1 => f[i] = f[i - 1] \o ss[i] /\ g[i] = g[i - 1] \o ss[i]
        BY <1>1
    <2>8. QED
        BY <2>2, <2>3, <2>5, <2>6
<1>3. CASE T = {}
    <2>1. \A i \in 1..Len(ss) : f[i] = g[i]
        BY <1>3
    <2>2. DOMAIN f = 1..Len(ss) /\ DOMAIN g = 1..Len(ss) /\ f = [i \in DOMAIN f |-> f[i]] /\ g = [i \in DOMAIN g |-> g[i]]
        BY <1>1
    <2>3. QED
        BY <2>1, <2>2
<1>4. QED
    BY <1>2, <1>3

\* What FlattenSeq returns, if the recursion has a result.
LEMMA FlattenLemma ==
    ASSUME NEW X, NEW ss \in Seq(Seq(X)), ss # <<>>, NEW g, Joined(ss, g)
    PROVE  FlattenSeq(ss) = g[Len(ss)]
<1> DEFINE h == CHOOSE f : Joined(ss, f)
<1>1. Joined(ss, h)
    OBVIOUS
<1>2. h = g
    BY <1>1, JoinedOnce
<1>3. Len(ss) # 0
    OBVIOUS
<1>4. FlattenSeq(ss) = h[Len(ss)]
    BY <1>3 DEF FlattenSeq, Joined
<1>5. QED
    BY <1>2, <1>4
\* Sequences put together are a sequence of their members.
LEMMA FlattenType ==
    ASSUME NEW X, NEW ss \in Seq(Seq(X))
    PROVE  FlattenSeq(ss) \in Seq(X)
<1> DEFINE Upto(n) == SubSeq(ss, 1, n)
           Fine(n) == \E g \in [1..n -> Seq(X)] : Joined(Upto(n), g)
           T == {n \in 1..Len(ss) : ~Fine(n)}
<1>1. \A n \in 1..Len(ss) : Upto(n) \in Seq(Seq(X)) /\ Len(Upto(n)) = n
                          /\ \A i \in 1..n : Upto(n)[i] = ss[i] /\ ss[i] \in Seq(X)
    OBVIOUS
<1>2. CASE T # {}
    <2>1. T \in SUBSET Nat
        OBVIOUS
    <2>2. PICK n \in T : \A m \in T : n <= m
        <3> HIDE DEF T
        <3>1. QED
            BY <1>2, <2>1, LeastNumber
    <2>3. n \in 1..Len(ss) /\ ~Fine(n)
        OBVIOUS
    <2>4. CASE n = 1
        <3> DEFINE g == [i \in 1..1 |-> ss[i]]
        <3>1. g \in [1..n -> Seq(X)]
            BY <1>1, <2>3, <2>4
        <3>2. g = [i \in 1..Len(Upto(n)) |-> IF i = 1 THEN Upto(n)[i] ELSE g[i - 1] \o Upto(n)[i]]
            BY <1>1, <2>3, <2>4
        <3>3. QED
            BY <2>3, <3>1, <3>2 DEF Joined
    <2>5. CASE n # 1
        <3>1. n - 1 \in 1..Len(ss) /\ n - 1 \notin T
            <4>1. n - 1 \in 1..Len(ss) /\ ~(n <= n - 1)
                BY <2>3, <2>5
            <4> HIDE DEF T
            <4>2. QED
                BY <2>2, <4>1
        <3>2. PICK g \in [1..(n - 1) -> Seq(X)] : Joined(Upto(n - 1), g)
            BY <3>1
        <3>3. g = [i \in 1..(n - 1) |-> IF i = 1 THEN ss[i] ELSE g[i - 1] \o ss[i]]
            <4>1. Len(Upto(n - 1)) = n - 1 /\ \A i \in 1..(n - 1) : Upto(n - 1)[i] = ss[i]
                BY <1>1, <3>1
            <4> HIDE DEF Upto
            <4>2. QED
                BY <3>2, <4>1 DEF Joined
        <3> DEFINE h == [i \in 1..n |-> IF i = n THEN g[n - 1] \o ss[n] ELSE g[i]]
        <3>4. h \in [1..n -> Seq(X)]
            <4>1. g[n - 1] \in Seq(X) /\ ss[n] \in Seq(X)
                BY <1>1, <2>3, <3>1, <3>2
            <4>2. g[n - 1] \o ss[n] \in Seq(X)
                BY <4>1
            <4>3. \A i \in 1..n : i # n => g[i] \in Seq(X)
                BY <2>3, <3>2
            <4> HIDE DEF T, Fine, Upto
            <4>4. QED
                BY <4>2, <4>3
        <3>5. \A i \in 1..n : h[i] = IF i = 1 THEN ss[i] ELSE h[i - 1] \o ss[i]
            <4> SUFFICES ASSUME NEW i \in 1..n PROVE h[i] = IF i = 1 THEN ss[i] ELSE h[i - 1] \o ss[i]
                OBVIOUS
            <4>1. CASE i = n
                <5>1. i - 1 \in 1..n /\ i - 1 # n /\ i # 1
                    BY <2>3, <2>5, <4>1
                <5>2. h[i - 1] = g[n - 1] /\ h[i] = g[n - 1] \o ss[n]
                    BY <4>1, <5>1
                <5>3. QED
                    BY <4>1, <5>1, <5>2
            <4>2. CASE i # n
                <5>1. i \in 1..(n - 1) /\ h[i] = g[i]
                    BY <2>3, <4>2
                <5>2. i # 1 => i - 1 \in 1..n /\ i - 1 # n /\ h[i - 1] = g[i - 1]
                    BY <2>3, <5>1
                <5>3. g[i] = IF i = 1 THEN ss[i] ELSE g[i - 1] \o ss[i]
                    BY <3>3, <5>1
                <5> HIDE DEF h
                <5>4. QED
                    BY <5>1, <5>2, <5>3
            <4>3. QED
                BY <4>1, <4>2
        <3>6. Joined(Upto(n), h)
            <4>1. Len(Upto(n)) = n /\ \A i \in 1..n : Upto(n)[i] = ss[i]
                BY <1>1, <2>3
            <4>2. h = [i \in 1..n |-> h[i]]
                OBVIOUS
            <4> HIDE DEF Upto, h
            <4>3. h = [i \in 1..n |-> IF i = 1 THEN ss[i] ELSE h[i - 1] \o ss[i]]
                BY <3>5, <4>2
            <4>4. QED
                BY <3>5, <4>1, <4>3 DEF Joined
        <3>7. QED
            BY <2>3, <3>4, <3>6
    <2>6. QED
        BY <2>4, <2>5
<1>3. CASE T = {} /\ ss # <<>>
    <2>1. Len(ss) \in 1..Len(ss) /\ Upto(Len(ss)) = ss
        BY <1>3
    <2>2. PICK g \in [1..Len(ss) -> Seq(X)] : Joined(ss, g)
        BY <1>3, <2>1
    <2>3. FlattenSeq(ss) = g[Len(ss)]
        BY <1>3, <2>2, FlattenLemma, ZenonT(40)
    <2>4. g[Len(ss)] \in Seq(X)
        BY <2>1, <2>2
    <2>5. QED
        BY <2>3, <2>4
<1>4. CASE ss = <<>>
    BY <1>4 DEF FlattenSeq
<1>5. QED
    BY <1>2, <1>3, <1>4
\* The slices of a list, put together, are the list.
LEMMA SliceBounds ==
    ASSUME NEW l \in Nat \ {0}, NEW m, m = (l + BatchSize - 1) \div BatchSize
    PROVE  /\ m \in Nat \ {0}
           /\ l <= m * BatchSize
           /\ \A b \in 1..m : b * BatchSize \in Nat /\ (b - 1) * BatchSize \in Nat
           /\ \A b \in 1..m : (b - 1) * BatchSize < l /\ b * BatchSize = (b - 1) * BatchSize + BatchSize
<1>1. BatchSize \in Nat \ {0}
    BY ResearchAssumption
<1>2. PICK q \in Nat, r \in Nat : l + BatchSize - 1 = q * BatchSize + r /\ r < BatchSize /\ q = m
    BY <1>1
<1>3. QED
    BY <1>1, <1>2

LEMMA SliceLemma ==
    ASSUME NEW X, NEW list \in Seq(X), NEW a \in 0..Len(list), NEW b \in 0..Len(list), a <= b
    PROVE  /\ SubSeq(list, a + 1, b) \in Seq(X)
           /\ Len(SubSeq(list, a + 1, b)) = b - a
           /\ \A i \in 1..(b - a) : SubSeq(list, a + 1, b)[i] = list[a + i]
<1>1. \A i \in a + 1..b : list[i] \in X
    OBVIOUS
<1>2. a \in Int /\ b \in Int /\ a + 1 \in Int
    OBVIOUS
<1>3. /\ SubSeq(list, a + 1, b) \in Seq(X)
      /\ Len(SubSeq(list, a + 1, b)) = IF a + 1 <= b THEN b - (a + 1) + 1 ELSE 0
      /\ \A i \in 1..(b - (a + 1) + 1) : SubSeq(list, a + 1, b)[i] = list[a + 1 + i - 1]
    BY <1>1, <1>2, SubSeqProperties
<1>4. b - (a + 1) + 1 = b - a /\ \A i \in 1..(b - a) : a + 1 + i - 1 = a + i
    BY <1>2
<1>5. QED
    BY <1>2, <1>3, <1>4

\* Two slices of a list one after the other, and a slice of its end.
LEMMA SlicesJoin ==
    ASSUME NEW X, NEW list \in Seq(X), NEW a \in 0..Len(list), NEW b \in 0..Len(list), a <= b
    PROVE  /\ SubSeq(list, 1, a) \o SubSeq(list, a + 1, b) = SubSeq(list, 1, b)
           /\ \A n \in 0..(b - a) :
                  SubSeq(SubSeq(list, a + 1, b), 1, n) = SubSeq(list, a + 1, a + n)
<1>1. SubSeq(list, 1, a) \o SubSeq(list, a + 1, b) = SubSeq(list, 1, b)
    <2> DEFINE s == SubSeq(list, 1, a)
               t == SubSeq(list, a + 1, b)
               u == SubSeq(list, 1, b)
    <2>1. s \in Seq(X) /\ Len(s) = a /\ \A i \in 1..a : s[i] = list[i]
        OBVIOUS
    <2>2. u \in Seq(X) /\ Len(u) = b /\ \A i \in 1..b : u[i] = list[i]
        OBVIOUS
    <2>3. t \in Seq(X) /\ Len(t) = b - a /\ \A i \in 1..(b - a) : t[i] = list[a + i]
        BY SliceLemma
    <2> HIDE DEF s, t, u
    <2>4. s \o t \in Seq(X) /\ Len(s \o t) = b
        BY <2>1, <2>3
    <2>5. ASSUME NEW i \in 1..b PROVE (s \o t)[i] = u[i]
        <3>1. CASE i <= a
            BY <2>1, <2>2, <2>3, <3>1
        <3>2. CASE ~(i <= a)
            <4>1. i - a \in 1..(b - a) /\ a + (i - a) = i
                BY <3>2
            <4>2. (s \o t)[i] = t[i - a]
                BY <2>1, <2>3, <3>2
            <4>3. QED
                BY <2>2, <2>3, <4>1, <4>2
        <3>3. QED
            BY <3>1, <3>2
    <2>6. s \o t = u
        BY <2>2, <2>4, <2>5, SeqEqual
    <2>7. QED
        BY <2>6 DEF s, t, u
<1>2. ASSUME NEW n \in 0..(b - a)
      PROVE  SubSeq(SubSeq(list, a + 1, b), 1, n) = SubSeq(list, a + 1, a + n)
    <2> DEFINE t == SubSeq(list, a + 1, b)
               u == SubSeq(list, a + 1, a + n)
    <2>1. t \in Seq(X) /\ Len(t) = b - a /\ \A i \in 1..(b - a) : t[i] = list[a + i]
        BY SliceLemma
    <2>2. u \in Seq(X) /\ Len(u) = n /\ \A i \in 1..n : u[i] = list[a + i]
        <3>1. a + n \in 0..Len(list) /\ a <= a + n /\ a + n - a = n
            OBVIOUS
        <3>2. QED
            BY <3>1, SliceLemma
    <2> HIDE DEF t, u
    <2>3. SubSeq(t, 1, n) \in Seq(X) /\ Len(SubSeq(t, 1, n)) = n /\ \A i \in 1..n : SubSeq(t, 1, n)[i] = t[i]
        BY <2>1
    <2>4. SubSeq(t, 1, n) = u
        <3>1. \A i \in 1..n : i \in 1..(b - a)
            OBVIOUS
        <3>2. \A i \in 1..n : SubSeq(t, 1, n)[i] = u[i]
            BY <2>1, <2>2, <2>3, <3>1
        <3>3. QED
            BY <2>2, <2>3, <3>2, SeqEqual
    <2>5. QED
        BY <2>4 DEF t, u
<1>3. QED
    BY <1>1, <1>2

LEMMA BatchesLemma ==
    ASSUME NEW X, NEW list \in Seq(X)
    PROVE  /\ Batches(list) \in Seq(Seq(X))
           /\ FlattenSeq(Batches(list)) = list
<1>1. BatchSize \in Nat \ {0}
    BY ResearchAssumption
<1>2. CASE list = <<>>
    <2>1. Batches(list) = <<<<>>>> /\ <<>> \in Seq(X)
        BY <1>2 DEF Batches
    <2>2. <<<<>>>> \in Seq(Seq(X)) /\ <<<<>>>> # <<>> /\ Len(<<<<>>>>) = 1 /\ <<<<>>>>[1] = <<>>
        OBVIOUS
    <2> DEFINE g == [i \in 1..1 |-> <<>>]
    <2>3. g = [i \in 1..Len(<<<<>>>>) |-> IF i = 1 THEN <<<<>>>>[i] ELSE g[i - 1] \o <<<<>>>>[i]]
        BY <2>2
    <2>4. Joined(<<<<>>>>, g) /\ g[1] = <<>>
        BY <2>3 DEF Joined
    <2> HIDE DEF g
    <2>5. FlattenSeq(<<<<>>>>) = <<>>
        BY <2>2, <2>4, FlattenLemma
    <2>6. QED
        BY <1>2, <2>1, <2>2, <2>5
<1>3. CASE list # <<>>
    <2> DEFINE l == Len(list)
               m == (l + BatchSize - 1) \div BatchSize
               End(b) == IF b * BatchSize < l THEN b * BatchSize ELSE l
    <2>1. l \in Nat \ {0}
        BY <1>3
    <2>2. /\ m \in Nat \ {0} /\ l <= m * BatchSize
          /\ \A b \in 1..m : b * BatchSize \in Nat /\ (b - 1) * BatchSize \in Nat
          /\ \A b \in 1..m : (b - 1) * BatchSize < l /\ b * BatchSize = (b - 1) * BatchSize + BatchSize
        BY <2>1, SliceBounds
    <2>3. Batches(list) = [b \in 1..m |-> FirstOf(SubSeq(list, (b - 1) * BatchSize + 1, l), BatchSize)]
        BY <1>3 DEF Batches
    <2> HIDE DEF m
    <2>4. ASSUME NEW b \in 1..m
          PROVE  /\ Batches(list)[b] \in Seq(X)
                 /\ Batches(list)[b] = SubSeq(list, (b - 1) * BatchSize + 1, End(b))
                 /\ End(b) \in (b - 1) * BatchSize + 1..l
        <3>1. PICK from \in Nat, to \in Nat :
                  from = (b - 1) * BatchSize /\ to = b * BatchSize /\ to = from + BatchSize /\ from < l
            BY <2>2
        <3>2. Batches(list)[b] = FirstOf(SubSeq(list, from + 1, l), BatchSize)
            BY <2>3, <3>1
        <3>3. SubSeq(list, from + 1, l) \in Seq(X) /\ Len(SubSeq(list, from + 1, l)) = l - from
            BY <3>1
        <3>4. FirstOf(SubSeq(list, from + 1, l), BatchSize) = SubSeq(list, from + 1, IF to < l THEN to ELSE l)
            <4> DEFINE n == IF l - from < BatchSize THEN l - from ELSE BatchSize
            <4>1. n \in 0..(l - from) /\ from + n = IF to < l THEN to ELSE l
                <5>1. PICK size \in Nat, long \in Nat : size = BatchSize /\ long = l /\ to = from + size /\ from < long
                    BY <1>1, <2>1, <3>1
                <5>2. (IF long - from < size THEN long - from ELSE size) \in 0..(long - from)
                    BY <5>1
                <5>3. from + (IF long - from < size THEN long - from ELSE size) = IF to < long THEN to ELSE long
                    BY <5>1
                <5>4. QED
                    BY <5>1, <5>2, <5>3
            <4>2. FirstOf(SubSeq(list, from + 1, l), BatchSize) = SubSeq(SubSeq(list, from + 1, l), 1, n)
                BY <3>3 DEF FirstOf
            <4> HIDE DEF n
            <4>3. from \in 0..l /\ l \in 0..l /\ from <= l
                BY <2>1, <3>1
            <4>4. SubSeq(SubSeq(list, from + 1, l), 1, n) = SubSeq(list, from + 1, from + n)
                BY <4>1, <4>3, SlicesJoin
            <4>5. QED
                BY <4>1, <4>2, <4>4
        <3>5. SubSeq(list, from + 1, IF to < l THEN to ELSE l) \in Seq(X)
            BY <3>1
        <3>6. (IF to < l THEN to ELSE l) \in from + 1..l
            BY <1>1, <3>1
        <3>7. QED
            BY <3>1, <3>2, <3>4, <3>5, <3>6
    <2>5. Batches(list) \in Seq(Seq(X)) /\ Len(Batches(list)) = m /\ Batches(list) # <<>>
        <3>1. DOMAIN Batches(list) = 1..m /\ Batches(list) = [b \in 1..m |-> Batches(list)[b]]
            BY <2>3
        <3>2. Batches(list) \in [1..m -> Seq(X)]
            BY <2>4, <3>1
        <3>3. QED
            BY <2>2, <3>2
    <2> DEFINE g == [b \in 1..m |-> SubSeq(list, 1, End(b))]
    <2>6. \A b \in 1..m : g[b] = IF b = 1 THEN Batches(list)[b] ELSE g[b - 1] \o Batches(list)[b]
        <3> SUFFICES ASSUME NEW b \in 1..m
                     PROVE  g[b] = IF b = 1 THEN Batches(list)[b] ELSE g[b - 1] \o Batches(list)[b]
            OBVIOUS
        <3>1. CASE b = 1
            <4>1. (b - 1) * BatchSize + 1 = 1
                BY <1>1, <3>1
            <4>2. Batches(list)[b] = SubSeq(list, (b - 1) * BatchSize + 1, End(b))
                BY <2>4
            <4> HIDE DEF End
            <4>3. g[b] = SubSeq(list, 1, End(b))
                OBVIOUS
            <4>4. QED
                BY <3>1, <4>1, <4>2, <4>3
        <3>2. CASE b # 1
            <4>0. m \in Nat /\ b \in Nat /\ b >= 1 /\ b <= m
                BY <2>2
            <4>6. b - 1 \in 1..m
                BY <3>2, <4>0
            <4>1. b - 1 \in 1..m /\ (b - 1) * BatchSize < l
                BY <2>2, <4>6
            <4>2. End(b - 1) = (b - 1) * BatchSize /\ End(b - 1) \in Nat
                BY <2>2, <4>1
            <4>3. Batches(list)[b] = SubSeq(list, End(b - 1) + 1, End(b)) /\ End(b) \in End(b - 1) + 1..l
                BY <2>4, <4>2
            <4>7. End(b - 1) \in 0..l /\ End(b) \in 0..l /\ End(b - 1) <= End(b)
                BY <2>1, <4>2, <4>3
            <4> HIDE DEF End
            <4>4. SubSeq(list, 1, End(b - 1)) \o SubSeq(list, End(b - 1) + 1, End(b)) = SubSeq(list, 1, End(b))
                BY <4>7, SlicesJoin
            <4>5. QED
                BY <3>2, <4>1, <4>3, <4>4
        <3>3. QED
            BY <3>1, <3>2
    <2>7. Joined(Batches(list), g)
        <3>1. g = [b \in 1..m |-> g[b]]
            OBVIOUS
        <3> HIDE DEF g
        <3>2. QED
            BY <2>5, <2>6, <3>1 DEF Joined
    <2>8. g[m] = list
        <3>1. m \in 1..m /\ End(m) = l
            BY <2>2
        <3>2. QED
            BY <3>1
    <2> HIDE DEF g
    <2>9. QED
        BY <2>5, <2>7, <2>8, FlattenLemma
<1>4. QED
    BY <1>2, <1>3

-----------------------------------------------------------------------------
(* Candidates put in an order, and those that share nothing. *)

\* The best first: the ranked list has every candidate of the list, and none that
\* scores more comes after another.
LEMMA RankedLemma ==
    ASSUME NEW X \in SUBSET Candidate, NEW list \in Seq(X)
    PROVE  /\ Ranked(list) \in Seq(X) /\ Len(Ranked(list)) = Len(list)
           /\ \A i \in DOMAIN list : \E k \in DOMAIN list : Ranked(list)[k] = list[i]
           /\ \A k, l \in DOMAIN list : k < l => Score[Ranked(list)[k].row] >= Score[Ranked(list)[l].row]
<1> DEFINE D == DOMAIN list
           score(i) == Score[list[i].row]
           ahead == [i \in D |-> Ahead(list, i)]
<1>1. D = 1..Len(list) /\ Len(list) \in Nat
    OBVIOUS
<1>2. \A i \in D : list[i] \in X /\ score(i) \in Nat
    <2>1. \A c \in Candidate : c.row \in Row
        BY DEF Candidate
    <2>2. \A i \in D : list[i] \in X
        OBVIOUS
    <2>3. QED
        BY <2>1, <2>2, ResearchAssumption
<1> HIDE DEF score
<1>3. \A i, j \in D : j \in Ahead(list, i) <=> (score(j) > score(i) \/ (score(j) = score(i) /\ j < i))
    BY DEF Ahead, score
<1>4. IsFiniteSet(D) /\ Cardinality(D) = Len(list)
    BY <1>1, FS_Interval
<1>5. TotalOrder(D, ahead)
    <2>1. ahead \in [D -> SUBSET D]
        BY DEF Ahead
    <2>2. \A i \in D : i \notin ahead[i]
        BY <1>1, <1>2, <1>3
    <2>3. ASSUME NEW i \in D, NEW j \in D, j \in ahead[i], NEW k \in ahead[j] PROVE k \in ahead[i]
        <3>1. k \in D
            BY <2>1
        <3>2. score(i) \in Nat /\ score(j) \in Nat /\ score(k) \in Nat
            BY <1>2, <3>1
        <3>3. k \in Ahead(list, j) /\ j \in Ahead(list, i)
            BY <2>3
        <3>4. k \in Ahead(list, i)
            BY <1>1, <1>3, <3>1, <3>2, <3>3
        <3>5. QED
            BY <3>4
    <2>4. \A i, j \in D : i # j => j \in ahead[i] \/ i \in ahead[j]
        BY <1>1, <1>2, <1>3
    <2> HIDE DEF ahead
    <2>5. \A i, j \in D : j \in ahead[i] => ahead[j] \subseteq ahead[i]
        BY <2>3
    <2>6. QED
        BY <2>1, <2>2, <2>4, <2>5 DEF TotalOrder
<1> DEFINE place(i) == Cardinality(Ahead(list, i))
           at(k) == CHOOSE i \in D : place(i) = k - 1
<1>6. /\ \A i \in D : place(i) \in 0..(Len(list) - 1)
      /\ \A i, j \in D : j \in Ahead(list, i) => place(j) < place(i)
      /\ \A i, j \in D : place(i) = place(j) => i = j
      /\ \A k \in 1..Len(list) : \E i \in D : place(i) = k - 1
    <2>1. \A i \in D : ahead[i] = Ahead(list, i)
        OBVIOUS
    <2> HIDE DEF ahead
    <2>2. /\ \A i \in D : Cardinality(ahead[i]) \in 0..(Cardinality(D) - 1)
          /\ \A i, j \in D : j \in ahead[i] => Cardinality(ahead[j]) < Cardinality(ahead[i])
          /\ \A i, j \in D : Cardinality(ahead[i]) = Cardinality(ahead[j]) => i = j
          /\ \A k \in 1..Cardinality(D) : \E i \in D : Cardinality(ahead[i]) = k - 1
        BY <1>4, <1>5, Places
    <2>3. QED
        BY <1>4, <2>1, <2>2, ZenonT(40)
<1> HIDE DEF place
<1>7. \A k \in D : at(k) \in D /\ place(at(k)) = k - 1
    BY <1>1, <1>6
<1>8. Ranked(list) = [k \in D |-> list[at(k)]]
    BY DEF Ranked, place
<1> HIDE DEF at
<1>9. Ranked(list) \in Seq(X) /\ Len(Ranked(list)) = Len(list)
    <2>1. Ranked(list) \in [1..Len(list) -> X]
        BY <1>1, <1>2, <1>7, <1>8
    <2>2. QED
        BY <2>1
<1>10. ASSUME NEW i \in D PROVE \E k \in D : Ranked(list)[k] = list[i]
    <2>1. place(i) + 1 \in D /\ place(i) \in Nat
        BY <1>1, <1>6
    <2>2. place(at(place(i) + 1)) = place(i)
        BY <1>7, <2>1
    <2>3. at(place(i) + 1) = i
        BY <1>6, <1>7, <2>1, <2>2
    <2>4. QED
        BY <1>8, <2>1, <2>3
<1>11. ASSUME NEW k \in D, NEW l \in D, k < l
       PROVE  Score[Ranked(list)[k].row] >= Score[Ranked(list)[l].row]
    <2>1. at(k) \in D /\ at(l) \in D /\ place(at(k)) < place(at(l))
        BY <1>1, <1>7, <1>11
    <2>2. at(l) \notin Ahead(list, at(k))
        BY <1>6, <2>1
    <2>3. score(at(k)) >= score(at(l))
        BY <1>2, <1>3, <2>1, <2>2
    <2>4. QED
        BY <1>8, <2>3 DEF score
<1>12. QED
    BY <1>9, <1>10, <1>11
\* S are, of the first n of a list, those that share nothing with one before them.
Greedy(list, n, S) ==
    \A i \in 1..n : i \in S <=> ~\E j \in S : j < i /\ Common(list[i], list[j]) # {}

LEMMA GreedyExists ==
    ASSUME NEW list, NEW n \in Nat
    PROVE  \E S \in SUBSET (1..n) : Greedy(list, n, S)
<1> DEFINE T == {m \in Nat : ~\E S \in SUBSET (1..m) : Greedy(list, m, S)}
<1>1. CASE T # {}
    <2>1. PICK m \in T : \A l \in T : m <= l
        <3>1. T \in SUBSET Nat
            OBVIOUS
        <3> HIDE DEF T
        <3>2. QED
            BY <1>1, <3>1, LeastNumber
    <2>2. m \in Nat /\ ~\E S \in SUBSET (1..m) : Greedy(list, m, S)
        OBVIOUS
    <2>3. CASE m = 0
        <3>1. Greedy(list, 0, {})
            BY DEF Greedy
        <3>2. QED
            BY <2>2, <2>3, <3>1
    <2>4. CASE m # 0
        <3>1. m - 1 \in Nat /\ ~(m <= m - 1)
            BY <2>2, <2>4
        <3>2. m - 1 \notin T
            <4> HIDE DEF T
            <4>1. QED
                BY <2>1, <3>1
        <3>3. PICK S \in SUBSET (1..(m - 1)) : Greedy(list, m - 1, S)
            BY <3>1, <3>2
        <3> DEFINE R == IF \E j \in S : Common(list[m], list[j]) # {} THEN S ELSE S \cup {m}
        <3>4. R \in SUBSET (1..m)
            BY <2>2, <2>4
        <3>5. Greedy(list, m, R)
            <4> SUFFICES ASSUME NEW i \in 1..m
                         PROVE  i \in R <=> ~\E j \in R : j < i /\ Common(list[i], list[j]) # {}
                BY DEF Greedy
            <4>1. \A j \in S : j \in Nat /\ j < m
                BY <2>2
            <4>2. CASE i = m
                <5>1. i \in R <=> ~\E j \in S : Common(list[i], list[j]) # {}
                    <6>1. m \notin S
                        BY <2>2, <4>1
                    <6>2. m \in R <=> ~\E j \in S : Common(list[m], list[j]) # {}
                        BY <6>1
                    <6>3. QED
                        BY <4>2, <6>2
                <5>2. \A j \in R : j < i => j \in S
                    BY <4>2
                <5>3. S \subseteq R
                    OBVIOUS
                <5> HIDE DEF R
                <5>4. QED
                    BY <4>1, <4>2, <5>1, <5>2, <5>3
            <4>3. CASE i # m
                <5>1. i \in 1..(m - 1)
                    BY <2>2, <4>3
                <5>2. i \in S <=> ~\E j \in S : j < i /\ Common(list[i], list[j]) # {}
                    BY <3>3, <5>1 DEF Greedy
                <5>3. \A j \in R : j < i => j \in S
                    BY <2>2, <5>1
                <5>4. S \subseteq R /\ (i \in R <=> i \in S)
                    BY <4>3
                <5> HIDE DEF R
                <5>5. QED
                    BY <5>2, <5>3, <5>4
            <4>4. QED
                BY <4>2, <4>3
        <3>6. QED
            BY <2>2, <3>4, <3>5
    <2>5. QED
        BY <2>3, <2>4
<1>2. CASE T = {}
    BY <1>2
<1>3. QED
    BY <1>1, <1>2

\* There is one such set, and that of a longer list has the same of the first n.
LEMMA GreedyOnce ==
    ASSUME NEW list, NEW more, NEW n \in Nat, \A i \in 1..n : list[i] = more[i],
           NEW S, NEW R, S \subseteq Nat \ {0}, R \subseteq Nat \ {0},
           Greedy(list, n, S), Greedy(more, n, R)
    PROVE  \A i \in 1..n : i \in S <=> i \in R
<1> DEFINE T == {i \in 1..n : ~(i \in S <=> i \in R)}
<1>1. CASE T # {}
    <2>1. PICK i \in T : \A j \in T : i <= j
        <3>1. T \in SUBSET Nat
            OBVIOUS
        <3> HIDE DEF T
        <3>2. QED
            BY <1>1, <3>1, LeastNumber
    <2>2. i \in 1..n /\ ~(i \in S <=> i \in R)
        OBVIOUS
    <2>3. ASSUME NEW j \in Nat, j < i PROVE j \in S <=> j \in R
        <3>1. CASE j = 0
            BY <3>1
        <3>2. CASE j # 0
            <4>1. j \in 1..n /\ ~(i <= j)
                BY <2>2, <2>3, <3>2
            <4>2. j \notin T
                <5> HIDE DEF T
                <5>1. QED
                    BY <2>1, <4>1
            <4>3. QED
                BY <4>1, <4>2
        <3>3. QED
            BY <3>1, <3>2
    <2>4. \A j \in Nat : j < i /\ j \in S => list[j] = more[j]
        <3>1. \A j \in Nat : j < i /\ j \in S => j \in 1..n
            BY <2>2
        <3>2. QED
            BY <3>1
    <2>5. /\ i \in S <=> ~\E j \in S : j < i /\ Common(list[i], list[j]) # {}
          /\ i \in R <=> ~\E j \in R : j < i /\ Common(more[i], more[j]) # {}
          /\ list[i] = more[i]
        BY <2>2 DEF Greedy
    <2>6. (\E j \in S : j < i /\ Common(list[i], list[j]) # {})
          <=> (\E j \in R : j < i /\ Common(more[i], more[j]) # {})
        <3>1. \A j \in S : j < i => j \in R /\ Common(list[i], list[j]) = Common(more[i], more[j])
            BY <2>3, <2>4, <2>5
        <3>2. \A j \in R : j < i => j \in S /\ Common(list[i], list[j]) = Common(more[i], more[j])
            BY <2>3, <2>4, <2>5
        <3>3. QED
            BY <3>1, <3>2
    <2>7. QED
        BY <2>2, <2>5, <2>6
<1>2. CASE T = {}
    BY <1>2
<1>3. QED
    BY <1>1, <1>2

LEMMA SelectedLemma ==
    ASSUME NEW X, NEW list \in Seq(X)
    PROVE  Selected(list) \in SUBSET DOMAIN list /\ Greedy(list, Len(list), Selected(list))
<1>1. DOMAIN list = 1..Len(list) /\ Len(list) \in Nat
    OBVIOUS
<1>2. \E S \in SUBSET DOMAIN list : Greedy(list, Len(list), S)
    BY <1>1, GreedyExists
<1>3. Selected(list) = CHOOSE S \in SUBSET DOMAIN list : Greedy(list, Len(list), S)
    BY <1>1 DEF Selected, Greedy
<1>4. QED
    BY <1>2, <1>3

\* The raw set of the results of batches.
RawOf(list) == FirstOf(Kept(list, Selected(list)), MaxCandidates)

\* Two rows share nothing.
Apart(a, b) == \A k \in 1..3 : Keys[a][k] = Keys[b][k] => Keys[a][k] = NoKey

LEMMA MaxCandidatesType == MaxCandidates \in Nat
BY ResearchAssumption

\* The candidates of a raw set are of the list and share nothing; while the set is
\* not full, every selected candidate is in it.
LEMMA RawLemma ==
    ASSUME NEW X \in SUBSET Candidate, NEW list \in Seq(X)
    PROVE  /\ RawOf(list) \in Seq(X)
           /\ \A i, j \in DOMAIN RawOf(list) : i # j => Apart(RawOf(list)[i].row, RawOf(list)[j].row)
           /\ Len(RawOf(list)) < MaxCandidates =>
                  \A i \in Selected(list) : list[i] \in ToSet(RawOf(list))
<1> DEFINE S == Selected(list)
           kept == Kept(list, S)
           raw == RawOf(list)
<1>1. DOMAIN list = 1..Len(list) /\ Len(list) \in Nat /\ S \in SUBSET (1..Len(list))
    BY SelectedLemma
<1>2. Greedy(list, Len(list), S)
    BY SelectedLemma
<1>3. /\ Cardinality(S) \in Nat
      /\ InOrder(S) \in [1..Cardinality(S) -> S]
      /\ \A k, l \in 1..Cardinality(S) : k # l => InOrder(S)[k] # InOrder(S)[l]
    BY <1>1, InOrderLemma
<1>4. /\ kept \in Seq(X) /\ Len(kept) = Cardinality(S)
      /\ \A k \in 1..Cardinality(S) : kept[k] = list[InOrder(S)[k]]
      /\ \A i \in S : \E k \in 1..Cardinality(S) : kept[k] = list[i]
    BY <1>1, KeptLemma
<1> HIDE DEF S, kept
<1>5. /\ raw \in Seq(X)
      /\ Len(raw) = IF Len(kept) < MaxCandidates THEN Len(kept) ELSE MaxCandidates
      /\ \A k \in 1..Len(raw) : k \in DOMAIN kept /\ raw[k] = kept[k]
    <2>1. raw = FirstOf(kept, MaxCandidates)
        BY DEF RawOf, kept, S
    <2>2. QED
        BY <1>4, <2>1, FirstOfLemma, MaxCandidatesType
<1> HIDE DEF raw
<1>6. ASSUME NEW i \in S, NEW j \in S, j < i PROVE Apart(list[i].row, list[j].row) /\ Apart(list[j].row, list[i].row)
    <2>1. Common(list[i], list[j]) = {}
        BY <1>1, <1>2, <1>6 DEF Greedy
    <2>2. list[i] \in Candidate /\ list[j] \in Candidate
        BY <1>1
    <2>3. DOMAIN Keys[list[i].row] = 1..3
        BY <2>2, ResearchAssumption DEF Candidate
    <2>4. QED
        BY <2>1, <2>3 DEF Common, Apart
<1>7. ASSUME NEW i \in DOMAIN raw, NEW j \in DOMAIN raw, i # j PROVE Apart(raw[i].row, raw[j].row)
    <2>1. i \in 1..Len(raw) /\ j \in 1..Len(raw)
        BY <1>5
    <2>2. i \in 1..Cardinality(S) /\ j \in 1..Cardinality(S)
        BY <1>4, <1>5, <2>1
    <2>3. PICK m \in S, n \in S : m = InOrder(S)[i] /\ n = InOrder(S)[j] /\ m # n
        BY <1>3, <1>7, <2>2
    <2>4. raw[i] = list[m] /\ raw[j] = list[n]
        BY <1>4, <1>5, <2>1, <2>2, <2>3
    <2>5. m \in Nat /\ n \in Nat
        BY <1>1
    <2>6. QED
        BY <1>6, <2>3, <2>4, <2>5
<1>8. ASSUME Len(raw) < MaxCandidates, NEW i \in S PROVE list[i] \in ToSet(raw)
    <2>1. Len(raw) = Len(kept)
        BY <1>3, <1>4, <1>5, <1>8, MaxCandidatesType
    <2>2. PICK k \in 1..Cardinality(S) : kept[k] = list[i]
        BY <1>4
    <2>3. k \in DOMAIN raw /\ raw[k] = list[i]
        BY <1>4, <1>5, <2>1, <2>2
    <2>4. QED
        BY <2>3 DEF ToSet
<1>9. QED
    BY <1>5, <1>7, <1>8 DEF raw, S

\* The raw set of more results begins with the raw set of the first.
LEMMA RawExtended ==
    ASSUME NEW X \in SUBSET Candidate, NEW list \in Seq(X), NEW rest \in Seq(X)
    PROVE  IsPrefix(RawOf(list), RawOf(list \o rest))
<1> DEFINE more == list \o rest
           S == Selected(list)
           R == Selected(more)
           n == Len(list)
           l == Len(more)
<1>1. more \in Seq(X) /\ n \in Nat /\ l \in Nat /\ n <= l /\ \A i \in 1..n : list[i] = more[i]
    OBVIOUS
<1> HIDE DEF more
<1>2. /\ S \in SUBSET (1..n) /\ Greedy(list, n, S)
      /\ R \in SUBSET (1..l) /\ Greedy(more, l, R)
    <2>1. DOMAIN list = 1..n /\ DOMAIN more = 1..l
        BY <1>1
    <2>2. QED
        BY <1>1, <2>1, SelectedLemma
<1>3. R \cap (1..n) = S
    <2>1. Greedy(more, n, R)
        <3>1. \A i \in 1..n : i \in 1..l
            BY <1>1
        <3>2. QED
            BY <1>2, <3>1 DEF Greedy
    <2>2. S \subseteq Nat \ {0} /\ R \subseteq Nat \ {0}
        BY <1>2
    <2>5. n \in Nat /\ (\A i \in 1..n : list[i] = more[i]) /\ Greedy(list, n, S)
        BY <1>1, <1>2
    <2> HIDE DEF S, R, n
    <2>3. \A i \in 1..n : i \in S <=> i \in R
        BY <2>1, <2>2, <2>5, GreedyOnce, ZenonT(40)
    <2>4. QED
        BY <1>2, <2>3
<1> DEFINE c == Cardinality(S)
           d == Cardinality(R)
<1>4. c <= d /\ \A k \in 1..c : InOrder(R)[k] = InOrder(S)[k]
    BY <1>1, <1>2, <1>3, InOrderExtended, ZenonT(60)
<1>5. /\ c \in Nat /\ d \in Nat
      /\ InOrder(S) \in [1..c -> S]
    BY <1>1, <1>2, InOrderLemma
<1>6. /\ Kept(list, S) \in Seq(X) /\ Len(Kept(list, S)) = c
      /\ \A k \in 1..c : Kept(list, S)[k] = list[InOrder(S)[k]]
    BY <1>1, <1>2, KeptLemma
<1>7. /\ Kept(more, R) \in Seq(X) /\ Len(Kept(more, R)) = d
      /\ \A k \in 1..d : Kept(more, R)[k] = more[InOrder(R)[k]]
    BY <1>1, <1>2, KeptLemma
<1> HIDE DEF S, R
<1>8. \A k \in 1..c : Kept(more, R)[k] = Kept(list, S)[k]
    <2>1. ASSUME NEW k \in 1..c PROVE Kept(more, R)[k] = Kept(list, S)[k]
        <3>3. k \in 1..d
            BY <1>4, <1>5
        <3>4. InOrder(S)[k] \in S
            BY <1>5
        <3>1. k \in 1..d /\ InOrder(R)[k] = InOrder(S)[k] /\ InOrder(S)[k] \in 1..n
            BY <1>2, <1>4, <3>3, <3>4
        <3>2. QED
            BY <1>1, <1>6, <1>7, <3>1
    <2>2. QED
        BY <2>1
<1> DEFINE raw == RawOf(list)
           wider == RawOf(more)
<1>9. /\ raw \in Seq(X)
      /\ Len(raw) = IF c < MaxCandidates THEN c ELSE MaxCandidates
      /\ \A k \in 1..Len(raw) : raw[k] = Kept(list, S)[k]
    BY <1>6, FirstOfLemma, MaxCandidatesType DEF RawOf, S
<1>10. /\ wider \in Seq(X)
       /\ Len(wider) = IF d < MaxCandidates THEN d ELSE MaxCandidates
       /\ \A k \in 1..Len(wider) : wider[k] = Kept(more, R)[k]
    BY <1>7, FirstOfLemma, MaxCandidatesType DEF RawOf, R
<1> HIDE DEF raw, wider
<1>11. Len(raw) <= Len(wider) /\ Len(raw) <= c /\ Len(raw) \in Nat /\ Len(wider) \in Nat
    BY <1>4, <1>5, <1>9, <1>10, MaxCandidatesType
<1>12. \A k \in 1..Len(raw) : k \in 1..c /\ k \in 1..Len(wider)
    BY <1>5, <1>11
<1>13. \A k \in 1..Len(raw) : raw[k] = wider[k]
    BY <1>8, <1>9, <1>10, <1>12
<1>14. SubSeq(raw, 1, Len(raw)) = SubSeq(wider, 1, Len(raw))
    <2>1. SubSeq(raw, 1, Len(raw)) = [k \in 1..Len(raw) |-> raw[k]]
        BY <1>9
    <2>2. SubSeq(wider, 1, Len(raw)) = [k \in 1..Len(raw) |-> wider[k]]
        BY <1>10, <1>11
    <2>3. QED
        BY <1>13, <2>1, <2>2
<1>15. QED
    BY <1>11, <1>14 DEF IsPrefix, raw, wider, more

-----------------------------------------------------------------------------
(* The inductive invariant. *)

Found == DOMAIN candidates
SavedCandidate == [status : CandidateStatus, sources : SUBSET Row]
ToolRuns == [seen : SUBSET ToolStatus, stored : ToolStatus \cup {"NONE"}, answer : Seq(Row)]
Checkpoint == [node : Nodes, round : Rounds, refs : Seq(Found), raw : Seq(Found), cheap : Seq(Found),
               filtered : Seq(Found), researched : Seq(Found)]

Types ==
    /\ version \in 1..MaxVersion /\ planned \in 0..version
    /\ graph \in Checkpoint
    /\ Found \subseteq Candidate
    /\ \A c \in Found : candidates[c] \in SavedCandidate /\ c.row \in candidates[c].sources
    /\ calls \in [Query -> [Rounds -> ToolRuns]]
    /\ blocked \in BOOLEAN /\ faults \in 0..MaxFaults
    /\ status \in {"CREATED", "RUNNING", "FAILED", "COMPLETED", "PARTIAL"}

\* A task is about a query or about candidates, and has no result before it ends.
Input == IF graph.node = "run_discovery_batch" THEN {<<[query |-> q]>> : q \in Query} ELSE Seq(Found)
Task == [input : Input, left : Input \cup {<<>>}, at : {"ready", "running", "done"}, ref : Seq(Found)]
Tasks ==
    /\ tasks \in Seq(Task)
    /\ \A i \in DOMAIN tasks : tasks[i].at # "done" => tasks[i].ref = <<>>

\* Candidates carry the round they are of; those merged are of earlier ones.
FoundByRound ==
    /\ \A c \in Found : c.round <= graph.round
    /\ graph.node \in {"build_search_plan", "run_discovery_batch"} =>
          \A k \in DOMAIN graph.refs : graph.refs[k].round < graph.round

\* The raw set is that of the results, and has taken in their sources.
RawSet ==
    /\ graph.raw = RawOf(graph.refs)
    /\ Len(graph.raw) < MaxCandidates =>
          \A k \in DOMAIN graph.refs : \E d \in ToSet(graph.raw) : graph.refs[k].row \in candidates[d].sources

\* Deep research is about the best candidates, and gives them back unless the task
\* has moved on.
Wanted == IF CandidateTarget < TargetCount THEN TargetCount ELSE CandidateTarget
Best == FirstOf(Ranked(graph.filtered), Wanted)
DeepResearch ==
    /\ graph.node = "run_deep_research_batch" => [i \in DOMAIN tasks |-> tasks[i].input] = Batches(Best)
    /\ graph.node = "run_deep_research_batch" /\ ExecutionIsCurrent =>
          \A i \in DOMAIN tasks : tasks[i].at = "done" => tasks[i].ref = tasks[i].input

IInv == Types /\ Tasks /\ FoundByRound /\ RawSet /\ DeepResearch /\ PartialFailureKeepsResults

-----------------------------------------------------------------------------
(* What an action leaves of the invariant when it changes little. *)

LEMMA Sizes ==
    /\ MaxVersion \in Nat \ {0} /\ MaxFaults \in Nat /\ MaxExpansions \in Nat
    /\ TargetCount \in Nat /\ CandidateTarget \in Nat
BY ResearchAssumption

LEMMA SeqGrows ==
    ASSUME NEW X, NEW Y, X \subseteq Y, NEW list \in Seq(X)
    PROVE  list \in Seq(Y)
OBVIOUS

LEMMA ToSetType ==
    ASSUME NEW X, NEW list \in Seq(X)
    PROVE  ToSet(list) \subseteq X
BY DEF ToSet

LEMMA SentLemma ==
    ASSUME NEW X, NEW batches \in Seq(X)
    PROVE  /\ Sent(batches) \in Seq([input : X, left : X, at : {"ready"}, ref : {<<>>}])
           /\ [i \in DOMAIN Sent(batches) |-> Sent(batches)[i].input] = batches
<1> DEFINE New == [input : X, left : X, at : {"ready"}, ref : {<<>>}]
           sent == Sent(batches)
<1>1. /\ DOMAIN batches = 1..Len(batches) /\ Len(batches) \in Nat
      /\ batches = [i \in DOMAIN batches |-> batches[i]]
      /\ \A i \in DOMAIN batches : batches[i] \in X
    OBVIOUS
<1>2. sent = [i \in DOMAIN batches |-> [input |-> batches[i], left |-> batches[i], at |-> "ready", ref |-> <<>>]]
    BY DEF Sent
<1>3. DOMAIN sent = DOMAIN batches /\ \A i \in DOMAIN batches : sent[i] \in New /\ sent[i].input = batches[i]
    BY <1>1, <1>2
<1>4. sent \in [1..Len(batches) -> New]
    <2> HIDE DEF New
    <2>1. QED
        BY <1>1, <1>2, <1>3
<1>5. sent \in Seq(New)
    <2> HIDE DEF New, sent
    <2>1. QED
        BY <1>1, <1>4
<1>6. [i \in DOMAIN sent |-> sent[i].input] = batches
    BY <1>1, <1>3
<1>7. QED
    BY <1>5, <1>6

\* Tasks just sent have the type of tasks.
LEMMA SentTasks ==
    ASSUME NEW batches \in Seq(Input'), tasks' = Sent(batches)
    PROVE  Tasks'
<1> DEFINE New == [input : Input', left : Input', at : {"ready"}, ref : {<<>>}]
<1>1. tasks' \in Seq(New)
    BY SentLemma
<1>2. New \subseteq Task'
    <2>1. <<>> \in Seq(Found')
        OBVIOUS
    <2>2. \A t \in New : t \in Task'
        BY <2>1 DEF Task
    <2>3. QED
        BY <2>2
<1>3. tasks' \in Seq(Task')
    <2> HIDE DEF New
    <2>1. QED
        BY <1>1, <1>2, SeqGrows
<1>4. \A i \in DOMAIN tasks' : tasks'[i].ref = <<>>
    <2>1. \A i \in DOMAIN tasks' : tasks'[i] \in New
        <3> HIDE DEF New
        <3>1. QED
            BY <1>1
    <2>2. QED
        BY <2>1
<1>5. QED
    BY <1>3, <1>4 DEF Tasks

LEMMA NoTasks == tasks' = <<>> => Tasks'
BY DEF Tasks

\* Candidates and the node's kind of tasks stay, or candidates are added.
LEMMA TaskGrows ==
    ASSUME Found \subseteq Found',
           graph'.node = "run_discovery_batch" <=> graph.node = "run_discovery_batch"
    PROVE  Task \subseteq Task'
<1>1. Seq(Found) \subseteq Seq(Found')
    BY SeqGrows
<1>2. Input \subseteq Input'
    BY <1>1 DEF Input
<1>3. QED
    BY <1>1, <1>2 DEF Task

LEMMA CheckpointGrows ==
    ASSUME Found \subseteq Found'
    PROVE  Checkpoint \subseteq Checkpoint'
<1>1. Seq(Found) \subseteq Seq(Found')
    BY SeqGrows
<1>2. QED
    BY <1>1 DEF Checkpoint

LEMMA TasksStay ==
    ASSUME Tasks, tasks' = tasks, Found \subseteq Found',
           graph'.node = "run_discovery_batch" <=> graph.node = "run_discovery_batch"
    PROVE  Tasks'
<1>1. tasks' \in Seq(Task')
    BY TaskGrows, SeqGrows DEF Tasks
<1>2. QED
    BY <1>1 DEF Tasks

\* The sources of a candidate of the raw set only grow.
SourcesStay == \A d \in ToSet(graph.raw) : candidates[d].sources \subseteq candidates'[d].sources

LEMMA RawSetStays ==
    ASSUME RawSet, graph'.refs = graph.refs, graph'.raw = graph.raw, SourcesStay
    PROVE  RawSet'
<1>1. graph'.raw = RawOf(graph'.refs)
    BY DEF RawSet
<1>2. ASSUME Len(graph'.raw) < MaxCandidates, NEW k \in DOMAIN graph'.refs
      PROVE  \E d \in ToSet(graph'.raw) : graph'.refs[k].row \in candidates'[d].sources
    BY <1>2 DEF RawSet, SourcesStay
<1>3. QED
    BY <1>1, <1>2 DEF RawSet

LEMMA RawFound ==
    ASSUME Types
    PROVE  ToSet(graph.raw) \subseteq Found /\ graph.raw \in Seq(Found) /\ graph.refs \in Seq(Found)
BY ToSetType DEF Types, Checkpoint

\* Candidates that are saved stay, with their sources, and none is added.
OnlyStatus ==
    /\ Found' = Found
    /\ \A c \in Found : /\ candidates'[c] \in SavedCandidate
                        /\ candidates'[c].sources = candidates[c].sources

LEMMA FoundByRoundStays ==
    ASSUME FoundByRound, Found' = Found, graph'.round = graph.round, graph'.refs = graph.refs,
           graph'.node \in {"build_search_plan", "run_discovery_batch"} =>
               graph.node \in {"build_search_plan", "run_discovery_batch"}
    PROVE  FoundByRound'
BY DEF FoundByRound

-----------------------------------------------------------------------------
(* The initial state, and the actions one by one. *)

LEMMA EmptyRaw == RawOf(<<>>) = <<>>
<1>1. <<>> \in Seq({}) /\ {} \in SUBSET Candidate
    OBVIOUS
<1>2. RawOf(<<>>) \in Seq({})
    BY <1>1, RawLemma
<1>3. QED
    BY <1>2

LEMMA InitIInv == Init => IInv
<1> SUFFICES ASSUME Init PROVE IInv
    OBVIOUS
<1> USE DEF Init
<1>1. Found = {}
    BY DEF Found
<1>2. Types
    <2>1. graph \in Checkpoint
        BY Sizes DEF Checkpoint, Nodes, Rounds
    <2>2. calls \in [Query -> [Rounds -> ToolRuns]]
        BY DEF NoCalls, ToolRuns
    <2>3. version \in 1..MaxVersion /\ planned \in 0..version /\ faults \in 0..MaxFaults
        BY Sizes
    <2>4. QED
        BY <1>1, <2>1, <2>2, <2>3 DEF Types
<1>3. Tasks
    BY DEF Tasks
<1>4. FoundByRound
    BY <1>1 DEF FoundByRound
<1>5. RawSet
    BY EmptyRaw DEF RawSet
<1>6. DeepResearch /\ PartialFailureKeepsResults
    BY DEF DeepResearch, PartialFailureKeepsResults
<1>7. QED
    BY <1>2, <1>3, <1>4, <1>5, <1>6 DEF IInv

\* The batches of the plan's queries are tasks of discovery.
LEMMA QueryBatchesType == QueryBatches \in Seq({<<[query |-> q]>> : q \in Query})
<1>1. Queries \in Seq(STRING)
    BY ResearchAssumption
<1>2. \A i \in DOMAIN Queries : Queries[i] \in Query
    BY DEF Query, ToSet
<1>3. QueryBatches = [i \in 1..Len(Queries) |-> <<[query |-> Queries[i]]>>]
    BY <1>1 DEF QueryBatches
<1>4. QED
    BY <1>1, <1>2, <1>3

LEMMA BuildSearchPlanKeepsIInv ==
    ASSUME IInv, BuildSearchPlan
    PROVE  IInv'
<1> USE DEF IInv
<1>1. /\ graph' = [graph EXCEPT !.node = "run_discovery_batch"] /\ tasks' = Sent(QueryBatches)
      /\ UNCHANGED <<version, candidates, calls, blocked, faults>>
      /\ graph.node = "build_search_plan" /\ status' = "RUNNING" /\ planned' \in {1, version}
    BY DEF BuildSearchPlan
<1>2. Found' = Found
    BY <1>1 DEF Found
<1>3. graph \in Checkpoint /\ graph' \in Checkpoint'
    <2>1. graph' \in Checkpoint
        BY <1>1 DEF Types, Checkpoint, Nodes
    <2>2. QED
        BY <1>2, <2>1, CheckpointGrows DEF Types
<1>4. /\ graph'.node = "run_discovery_batch" /\ graph'.round = graph.round
      /\ graph'.refs = graph.refs /\ graph'.raw = graph.raw
    BY <1>1, <1>3 DEF Checkpoint
<1>5. Types'
    <2>1. version' \in 1..MaxVersion /\ planned' \in 0..version'
        BY <1>1, Sizes DEF Types
    <2>2. \A c \in Found' : candidates'[c] \in SavedCandidate /\ c.row \in candidates'[c].sources
        BY <1>1, <1>2 DEF Types
    <2>3. QED
        BY <1>1, <1>2, <1>3, <2>1, <2>2 DEF Types
<1>6. Tasks'
    <2>1. QueryBatches \in Seq(Input')
        BY <1>4, QueryBatchesType DEF Input
    <2>2. QED
        BY <1>1, <2>1, SentTasks
<1>7. FoundByRound'
    BY <1>1, <1>2, <1>4, FoundByRoundStays
<1>8. RawSet'
    <2>1. SourcesStay
        BY <1>1 DEF SourcesStay
    <2>2. QED
        BY <1>4, <2>1, RawSetStays
<1>9. DeepResearch' /\ PartialFailureKeepsResults'
    BY <1>4 DEF DeepResearch, PartialFailureKeepsResults
<1>10. QED
    BY <1>5, <1>6, <1>7, <1>8, <1>9

\* When only the tasks change, and only in what they have left, their place and
\* their results, that is what has to be shown of them.
OnlyTasks ==
    /\ UNCHANGED <<version, planned, graph>>
    /\ tasks' \in Seq(Task')
    /\ \A i \in DOMAIN tasks' : tasks'[i].at # "done" => tasks'[i].ref = <<>>
    /\ DOMAIN tasks' = DOMAIN tasks
    /\ \A i \in DOMAIN tasks : tasks'[i].input = tasks[i].input

LEMMA OnlyTasksKeepsDeepResearch ==
    ASSUME DeepResearch, PartialFailureKeepsResults, OnlyTasks,
           graph.node = "run_deep_research_batch" /\ ExecutionIsCurrent =>
               \A i \in DOMAIN tasks : tasks'[i].at = "done" => tasks'[i].ref = tasks'[i].input
    PROVE  Tasks' /\ DeepResearch' /\ PartialFailureKeepsResults'
<1>1. [i \in DOMAIN tasks' |-> tasks'[i].input] = [i \in DOMAIN tasks |-> tasks[i].input]
    BY DEF OnlyTasks
<1>2. DeepResearch'
    BY <1>1 DEF DeepResearch, OnlyTasks, ExecutionIsCurrent, Best
<1>3. QED
    BY <1>2 DEF Tasks, PartialFailureKeepsResults, OnlyTasks, ExecutionIsCurrent

LEMMA StartBatchKeepsIInv ==
    ASSUME IInv, NEW i \in DOMAIN tasks, StartBatch(i)
    PROVE  IInv'
<1> USE DEF IInv
<1>1. /\ UNCHANGED <<version, planned, graph, candidates, calls, blocked, status, faults>>
      /\ tasks[i].at = "ready"
      /\ tasks' = [tasks EXCEPT ![i] =
             IF ExecutionIsCurrent /\ tasks[i].input # <<>>
             THEN [@ EXCEPT !.at = "running"]
             ELSE [@ EXCEPT !.at = "done", !.left = <<>>]]
    BY DEF StartBatch
<1>2. Types' /\ FoundByRound' /\ RawSet'
    <2>1. Types'
        BY <1>1 DEF Types, Checkpoint, Found
    <2>2. FoundByRound'
        BY <1>1 DEF FoundByRound, Found
    <2>3. RawSet'
        BY <1>1 DEF RawSet
    <2>4. QED
        BY <2>1, <2>2, <2>3
<1>3. Task' = Task
    BY <1>1 DEF Task, Input, Found
<1>4. tasks \in Seq(Task) /\ tasks[i] \in Task /\ tasks[i].ref = <<>>
    BY <1>1 DEF Tasks
<1> DEFINE t == IF ExecutionIsCurrent /\ tasks[i].input # <<>>
                THEN [tasks[i] EXCEPT !.at = "running"]
                ELSE [tasks[i] EXCEPT !.at = "done", !.left = <<>>]
<1>5. /\ t \in Task /\ t.input = tasks[i].input /\ t.ref = <<>>
      /\ ExecutionIsCurrent /\ t.at = "done" => t.input = <<>>
    BY <1>4 DEF Task
<1>6. tasks' = [tasks EXCEPT ![i] = t]
    BY <1>1
<1> HIDE DEF t
<1>7. OnlyTasks
    BY <1>1, <1>3, <1>4, <1>5, <1>6 DEF OnlyTasks, Tasks
<1>8. \A j \in DOMAIN tasks : tasks'[j] = IF j = i THEN t ELSE tasks[j]
    BY <1>4, <1>6
<1>9. graph.node = "run_deep_research_batch" /\ ExecutionIsCurrent =>
          \A j \in DOMAIN tasks : tasks'[j].at = "done" => tasks'[j].ref = tasks'[j].input
    BY <1>5, <1>8 DEF DeepResearch
<1>10. QED
    BY <1>2, <1>7, <1>9, OnlyTasksKeepsDeepResearch

\* The candidates made of an answer are of the query, the round and the attempt.
LEMMA FoundNow ==
    ASSUME NEW q \in Query, NEW r \in Rounds, NEW try \in 0..MaxFaults, NEW answer \in Seq(Row),
           NEW list, list = [k \in DOMAIN answer |->
               [query |-> q, round |-> r, try |-> try, row |-> answer[k]]]
    PROVE  /\ list \in Seq(ToSet(list))
           /\ \A c \in ToSet(list) : c \in Candidate /\ c.round = r
<1>1. DOMAIN answer = 1..Len(answer) /\ Len(answer) \in Nat /\ \A k \in DOMAIN answer : answer[k] \in Row
    OBVIOUS
<1>2. DOMAIN list = 1..Len(answer) /\ \A k \in DOMAIN list : list[k] \in ToSet(list)
    BY <1>1 DEF ToSet
<1>3. list \in Seq(ToSet(list))
    <2>1. list = [k \in 1..Len(answer) |-> list[k]]
        BY <1>1
    <2>2. QED
        BY <1>1, <1>2, <2>1
<1>4. \A k \in DOMAIN list : list[k] \in Candidate /\ list[k].round = r
    BY <1>1 DEF Candidate
<1>5. QED
    BY <1>3, <1>4 DEF ToSet

\* The raw set is of the rounds before, while a round is being discovered.
LEMMA RawBefore ==
    ASSUME Types, RawSet, FoundByRound, graph.node \in {"build_search_plan", "run_discovery_batch"}
    PROVE  \A d \in ToSet(graph.raw) : d.round < graph.round
<1> DEFINE X == {c \in Found : c.round < graph.round}
<1>1. X \in SUBSET Candidate
    BY DEF Types
<1>2. graph.refs \in Seq(X)
    <2>1. graph.refs \in Seq(Found)
        BY RawFound
    <2>2. \A k \in DOMAIN graph.refs : graph.refs[k] \in X
        BY <2>1 DEF FoundByRound
    <2>3. QED
        BY <2>1, <2>2
<1>3. graph.raw \in Seq(X)
    <2> HIDE DEF X
    <2>1. QED
        BY <1>1, <1>2, RawLemma DEF RawSet
<1>4. ToSet(graph.raw) \subseteq X
    BY <1>3, ToSetType
<1>5. QED
    BY <1>4

LEMMA RunDiscoveryBatchKeepsIInv ==
    ASSUME IInv, NEW i \in DOMAIN tasks, RunDiscoveryBatch(i)
    PROVE  IInv'
<1> USE DEF IInv
<1> DEFINE q == tasks[i].input[1].query
           r == graph.round
<1>1. /\ UNCHANGED <<version, planned, graph, blocked, status, faults>>
      /\ graph.node = "run_discovery_batch" /\ tasks[i].at = "running"
    BY DEF RunDiscoveryBatch, Running
<1>2. tasks \in Seq(Task) /\ tasks[i] \in Task
    BY DEF Tasks
<1>3. q \in Query /\ r \in Rounds
    <2>1. tasks[i].input \in {<<[query |-> p]>> : p \in Query}
        BY <1>1, <1>2 DEF Task, Input
    <2>2. QED
        BY <2>1 DEF Types, Checkpoint
<1> HIDE DEF q
<1>4. PICK s \in ToolStatus, answer \in Answers[q][r] \cup {<<>>} :
          LET list == [k \in DOMAIN answer |->
                  [query |-> q, round |-> r, try |-> faults, row |-> answer[k]]] IN
          /\ calls' = [calls EXCEPT ![q][r] = Recorded(calls[q][r], s, answer)]
          /\ candidates' = [c \in DOMAIN candidates \cup ToSet(list) |->
                IF c \in ToSet(list) THEN [status |-> "DISCOVERED", sources |-> {c.row}]
                ELSE candidates[c]]
          /\ tasks' = [tasks EXCEPT ![i] = [@ EXCEPT !.left = <<>>, !.at = "done", !.ref = list]]
    BY DEF RunDiscoveryBatch, q
<1> DEFINE list == [k \in DOMAIN answer |->
               [query |-> q, round |-> r, try |-> faults, row |-> answer[k]]]
<1>5. answer \in Seq(Row)
    <2>1. Answers[q][r] \in SUBSET Seq(Row)
        BY <1>3, ResearchAssumption DEF Query, Rounds
    <2>2. <<>> \in Seq(Row)
        OBVIOUS
    <2>3. QED
        BY <2>1, <2>2
<1>6. /\ list \in Seq(ToSet(list))
      /\ \A c \in ToSet(list) : c \in Candidate /\ c.round = r
    <2>1. faults \in 0..MaxFaults
        BY DEF Types
    <2>2. QED
        BY <1>3, <1>5, <2>1, FoundNow
<1>7. /\ calls' = [calls EXCEPT ![q][r] = Recorded(calls[q][r], s, answer)]
      /\ candidates' = [c \in DOMAIN candidates \cup ToSet(list) |->
            IF c \in ToSet(list) THEN [status |-> "DISCOVERED", sources |-> {c.row}]
            ELSE candidates[c]]
      /\ tasks' = [tasks EXCEPT ![i] = [@ EXCEPT !.left = <<>>, !.at = "done", !.ref = list]]
    BY <1>4
<1> HIDE DEF list
<1>8. Found' = Found \cup ToSet(list)
    BY <1>7 DEF Found
<1>9. Types'
    <2>1. graph' \in Checkpoint'
        BY <1>1, <1>8, CheckpointGrows DEF Types
    <2>2. Found' \subseteq Candidate
        BY <1>6, <1>8 DEF Types
    <2>3. ASSUME NEW c \in Found' PROVE candidates'[c] \in SavedCandidate /\ c.row \in candidates'[c].sources
        <3>1. CASE c \in ToSet(list)
            <4>1. candidates'[c] = [status |-> "DISCOVERED", sources |-> {c.row}]
                BY <1>7, <3>1
            <4>2. c.row \in Row
                BY <1>6, <3>1 DEF Candidate
            <4>3. QED
                BY <4>1, <4>2 DEF SavedCandidate, CandidateStatus
        <3>2. CASE c \notin ToSet(list)
            <4>1. c \in Found /\ candidates'[c] = candidates[c]
                BY <1>7, <1>8, <3>2 DEF Found
            <4>2. QED
                BY <4>1 DEF Types
        <3>3. QED
            BY <3>1, <3>2
    <2>4. calls' \in [Query -> [Rounds -> ToolRuns]]
        <3>1. calls \in [Query -> [Rounds -> ToolRuns]]
            BY DEF Types
        <3>2. Recorded(calls[q][r], s, answer) \in ToolRuns
            BY <1>3, <1>5, <3>1 DEF Recorded, ToolRuns
        <3>3. QED
            BY <1>3, <1>7, <3>1, <3>2
    <2>5. QED
        BY <1>1, <2>1, <2>2, <2>3, <2>4 DEF Types
<1> DEFINE t == [tasks[i] EXCEPT !.left = <<>>, !.at = "done", !.ref = list]
<1>10. t \in Task' /\ t.at = "done" /\ t.input = tasks[i].input
    <2>1. list \in Seq(Found')
        BY <1>6, <1>8, SeqGrows
    <2>2. tasks[i] \in Task'
        BY <1>1, <1>2, <1>8, TaskGrows
    <2>3. QED
        BY <2>1, <2>2 DEF Task
<1>11. tasks' = [tasks EXCEPT ![i] = t]
    BY <1>7
<1> HIDE DEF t
<1>12. tasks \in Seq(Task')
    BY <1>1, <1>2, <1>8, TaskGrows, SeqGrows
<1>13. OnlyTasks
    BY <1>1, <1>10, <1>11, <1>12 DEF OnlyTasks, Tasks
<1>14. Tasks' /\ DeepResearch' /\ PartialFailureKeepsResults'
    BY <1>1, <1>13, OnlyTasksKeepsDeepResearch
<1>15. FoundByRound'
    <2>1. r \in Nat
        BY <1>3 DEF Rounds
    <2>2. \A c \in Found' : c.round <= graph'.round
        BY <1>1, <1>6, <1>8, <2>1 DEF FoundByRound
    <2>3. QED
        BY <1>1, <2>2 DEF FoundByRound
<1>16. RawSet'
    <2>1. r \in Nat
        BY <1>3 DEF Rounds
    <2>2. \A d \in ToSet(graph.raw) : d \in Found /\ d \notin ToSet(list)
        BY <1>1, <1>6, <2>1, RawBefore, RawFound
    <2>3. SourcesStay
        BY <1>7, <2>2 DEF SourcesStay, Found
    <2>4. QED
        BY <1>1, <2>3, RawSetStays
<1>17. QED
    BY <1>9, <1>14, <1>15, <1>16

\* The candidate that stands for one that was not selected is a selected one.
LEMMA StandInLemma ==
    ASSUME NEW X \in SUBSET Candidate, NEW list \in Seq(X), NEW i \in DOMAIN list,
           i \notin Selected(list)
    PROVE  StandIn(list, i, Selected(list)) \in Selected(list)
<1> DEFINE S == Selected(list)
           J == {l \in S : l < i /\ Common(list[i], list[l]) # {}}
           K == UNION {Common(list[i], list[l]) : l \in J}
<1>1. S \in SUBSET DOMAIN list /\ Greedy(list, Len(list), S) /\ i \in 1..Len(list)
    BY SelectedLemma
<1>2. J # {}
    BY <1>1 DEF Greedy
<1>3. K \in SUBSET Nat /\ K # {}
    <2>1. list[i] \in Candidate
        OBVIOUS
    <2>2. DOMAIN Keys[list[i].row] = 1..3
        BY <2>1, ResearchAssumption DEF Candidate
    <2>3. QED
        BY <1>2, <2>2 DEF Common
<1>4. PICK first \in K : \A k \in K : first <= k
    <2> HIDE DEF K
    <2>1. QED
        BY <1>3, LeastNumber
<1>5. PICK j \in J : first \in Common(list[i], list[j])
    OBVIOUS
<1>6. \A l \in S : l < i => \A k \in Common(list[i], list[l]) :
          \E f \in Common(list[i], list[j]) : f <= k
    <2>1. ASSUME NEW l \in S, l < i, NEW k \in Common(list[i], list[l]) PROVE first <= k
        <3>1. l \in J /\ k \in K
            BY <2>1
        <3> HIDE DEF K
        <3>2. QED
            BY <1>4, <3>1
    <2>2. QED
        BY <1>5, <2>1
<1>7. StandIn(list, i, S) \in J
    BY <1>5, <1>6 DEF StandIn
<1>8. QED
    BY <1>7

\* The results of the tasks are of found candidates.
LEMMA ResultsType ==
    ASSUME Tasks
    PROVE  Results \in Seq(Found)
<1> DEFINE refs == [i \in DOMAIN tasks |-> tasks[i].ref]
<1>1. tasks \in Seq(Task) /\ \A i \in DOMAIN tasks : tasks[i].ref \in Seq(Found)
    <2>1. \A t \in Task : t.ref \in Seq(Found)
        BY DEF Task
    <2>2. tasks \in Seq(Task) /\ \A i \in DOMAIN tasks : tasks[i] \in Task
        BY DEF Tasks
    <2>3. QED
        BY <2>1, <2>2
<1>2. refs \in Seq(Seq(Found))
    BY <1>1
<1>3. QED
    BY <1>2, FlattenType DEF Results

LEMMA MergeDiscoveryKeepsIInv ==
    ASSUME IInv, MergeDiscovery
    PROVE  IInv'
<1> USE DEF IInv
<1> DEFINE list == Refs
           S == Selected(list)
           raw == FirstOf(Kept(list, S), MaxCandidates)
           more == More(raw)
<1>1. /\ candidates' = WithMergedSources(list, S)
      /\ graph' = [graph EXCEPT !.refs = list, !.raw = raw, !.round = IF more THEN @ + 1 ELSE @,
                                !.node = IF more THEN @ ELSE "run_cheap_enrichment_batch"]
      /\ tasks' = Sent(IF more THEN QueryBatches ELSE Batches(raw))
      /\ UNCHANGED <<version, planned, calls, blocked, status, faults>>
      /\ graph.node = "run_discovery_batch"
    BY DEF MergeDiscovery
<1>2. Found' = Found
    BY <1>1 DEF Found, WithMergedSources
<1>3. /\ Found \in SUBSET Candidate
      /\ list \in Seq(Found)
      /\ graph \in Checkpoint /\ graph.round \in Rounds
    <2>1. graph.refs \in Seq(Found) /\ Results \in Seq(Found)
        BY RawFound, ResultsType
    <2>2. QED
        BY <2>1 DEF Types, Checkpoint, Refs
<1>4. raw = RawOf(list) /\ raw \in Seq(Found)
    <2>1. raw = RawOf(list)
        BY DEF RawOf
    <2>2. QED
        BY <1>3, <2>1, RawLemma
<1>5. S \in SUBSET DOMAIN list
    BY <1>3, SelectedLemma
<1> HIDE DEF list, S, raw
<1>6. more => graph.round + 1 \in Rounds
    BY <1>3, Sizes DEF More, Rounds
<1>7. /\ graph'.refs = list /\ graph'.raw = raw
      /\ graph'.round = IF more THEN graph.round + 1 ELSE graph.round
      /\ graph'.node = IF more THEN "run_discovery_batch" ELSE "run_cheap_enrichment_batch"
      /\ graph' \in Checkpoint
    BY <1>1, <1>3, <1>4, <1>6 DEF Checkpoint, Nodes
<1> HIDE DEF more
<1>8. ASSUME NEW c \in Found
      PROVE  /\ candidates'[c] \in SavedCandidate
             /\ candidates'[c].sources = candidates[c].sources \cup UNION {candidates[list[n]].sources :
                    n \in {m \in DOMAIN list \ S : list[StandIn(list, m, S)] = c}}
    <2>1. candidates'[c] = [candidates[c] EXCEPT !.sources = @ \cup UNION {candidates[list[n]].sources :
              n \in {m \in DOMAIN list \ S : list[StandIn(list, m, S)] = c}}]
        BY <1>1 DEF WithMergedSources, Found
    <2>2. candidates[c] \in SavedCandidate
        BY DEF Types
    <2>3. \A n \in DOMAIN list : candidates[list[n]].sources \subseteq Row
        <3>1. \A n \in DOMAIN list : list[n] \in Found
            BY <1>3
        <3>2. QED
            BY <3>1 DEF Types, SavedCandidate
    <2>4. QED
        BY <2>1, <2>2, <2>3 DEF SavedCandidate
<1>9. Types'
    <2>1. graph' \in Checkpoint'
        BY <1>2, <1>7, CheckpointGrows
    <2>2. \A c \in Found' : candidates'[c] \in SavedCandidate /\ c.row \in candidates'[c].sources
        BY <1>2, <1>8 DEF Types
    <2>3. QED
        BY <1>1, <1>2, <2>1, <2>2 DEF Types
<1>10. Tasks'
    <2>1. CASE more
        <3>1. QueryBatches \in Seq(Input')
            BY <1>7, <2>1, QueryBatchesType DEF Input
        <3>2. QED
            BY <1>1, <2>1, <3>1, SentTasks
    <2>2. CASE ~more
        <3>1. Batches(raw) \in Seq(Input')
            BY <1>2, <1>4, <1>7, <2>2, BatchesLemma DEF Input
        <3>2. QED
            BY <1>1, <2>2, <3>1, SentTasks
    <2>3. QED
        BY <2>1, <2>2
<1>11. FoundByRound'
    <2>1. graph.round \in Nat /\ \A c \in Found : c.round \in Nat /\ c.round <= graph.round
        BY <1>3 DEF FoundByRound, Rounds, Candidate
    <2>2. \A c \in Found' : c.round <= graph'.round
        BY <1>2, <1>7, <2>1
    <2>3. ASSUME more, NEW k \in DOMAIN list PROVE list[k].round < graph'.round
        <3>1. list[k] \in Found
            BY <1>3
        <3>2. QED
            BY <1>7, <2>1, <2>3, <3>1
    <2>4. QED
        BY <1>7, <2>2, <2>3 DEF FoundByRound
<1>12. RawSet'
    <2>1. ASSUME Len(raw) < MaxCandidates, NEW k \in DOMAIN list
          PROVE  \E d \in ToSet(raw) : list[k].row \in candidates'[d].sources
        <3>1. \A n \in S : list[n] \in ToSet(raw)
            BY <1>3, <1>4, <2>1, RawLemma DEF S
        <3>2. list[k] \in Found /\ list[k].row \in candidates[list[k]].sources
            <4>1. list[k] \in Found
                BY <1>3
            <4>2. QED
                BY <4>1 DEF Types
        <3>3. CASE k \in S
            BY <1>8, <3>1, <3>2, <3>3
        <3>4. CASE k \notin S
            <4> DEFINE j == StandIn(list, k, S)
            <4>1. j \in S
                BY <1>3, <3>4, StandInLemma DEF S
            <4>2. list[j] \in Found /\ list[j] \in ToSet(raw)
                BY <1>3, <1>5, <3>1, <4>1
            <4>3. candidates[list[k]].sources \subseteq candidates'[list[j]].sources
                <5>1. k \in {m \in DOMAIN list \ S : list[StandIn(list, m, S)] = list[j]}
                    BY <3>4
                <5>2. QED
                    BY <1>8, <4>2, <5>1
            <4>4. QED
                BY <3>2, <4>2, <4>3
        <3>5. QED
            BY <3>3, <3>4
    <2>2. QED
        BY <1>4, <1>7, <2>1 DEF RawSet
<1>13. DeepResearch' /\ PartialFailureKeepsResults'
    BY <1>7 DEF DeepResearch, PartialFailureKeepsResults
<1>14. QED
    BY <1>9, <1>10, <1>11, <1>12, <1>13

LEMMA DiscoveryUnavailableKeepsIInv ==
    ASSUME IInv, DiscoveryUnavailable
    PROVE  IInv'
<1> USE DEF IInv
<1>1. status' = "FAILED" /\ UNCHANGED <<version, planned, graph, tasks, candidates, calls, blocked, faults>>
    BY DEF DiscoveryUnavailable
<1>2. Types'
    BY <1>1 DEF Types, Checkpoint, Found
<1>3. Tasks'
    BY <1>1 DEF Tasks, Task, Input, Found
<1>4. FoundByRound' /\ RawSet'
    BY <1>1 DEF FoundByRound, Found, RawSet
<1>5. DeepResearch'
    BY <1>1 DEF DeepResearch, Best, ExecutionIsCurrent
<1>6. PartialFailureKeepsResults'
    BY <1>1 DEF PartialFailureKeepsResults, ExecutionIsCurrent
<1>7. QED
    BY <1>2, <1>3, <1>4, <1>5, <1>6

\* Candidates of whom only the status changes.
LEMMA OnlyStatusKeeps ==
    ASSUME IInv, OnlyStatus, UNCHANGED <<version, planned, faults>>, graph' \in Checkpoint,
           calls' \in [Query -> [Rounds -> ToolRuns]], blocked' \in BOOLEAN,
           status' \in {"CREATED", "RUNNING", "FAILED", "COMPLETED", "PARTIAL"},
           graph'.refs = graph.refs, graph'.raw = graph.raw, graph'.round = graph.round,
           graph'.node \in {"build_search_plan", "run_discovery_batch"} =>
               graph.node \in {"build_search_plan", "run_discovery_batch"}
    PROVE  Types' /\ FoundByRound' /\ RawSet'
<1> USE DEF IInv
<1>1. Found' = Found /\ graph' \in Checkpoint'
    BY CheckpointGrows DEF OnlyStatus
<1>2. Types'
    <2>1. \A c \in Found' : candidates'[c] \in SavedCandidate /\ c.row \in candidates'[c].sources
        BY <1>1 DEF OnlyStatus, Types
    <2>2. QED
        BY <1>1, <2>1 DEF Types
<1>3. SourcesStay
    BY RawFound DEF SourcesStay, OnlyStatus
<1>4. QED
    BY <1>1, <1>2, <1>3, FoundByRoundStays, RawSetStays

LEMMA NextCandidateKeepsIInv ==
    ASSUME IInv, NEW i \in DOMAIN tasks, NEW node, NEW statuses \in SUBSET CandidateStatus,
           node # "run_discovery_batch", NextCandidate(i, node, statuses)
    PROVE  IInv'
<1> USE DEF IInv
<1> DEFINE c == tasks[i].left[1]
           t == IF Len(tasks[i].left) > 1 THEN [tasks[i] EXCEPT !.left = Tail(tasks[i].left)]
                ELSE [tasks[i] EXCEPT !.left = <<>>, !.at = "done", !.ref = tasks[i].input]
<1>1. /\ UNCHANGED <<version, planned, graph, calls, status, faults>>
      /\ graph.node # "run_discovery_batch" /\ tasks[i].at = "running"
      /\ tasks' = [tasks EXCEPT ![i] = t]
    BY DEF NextCandidate, Running
<1>2. PICK s \in statuses \cup {candidates[c].status}, refused \in BOOLEAN :
          /\ candidates' = [candidates EXCEPT ![c].status = s]
          /\ blocked' = (blocked \/ refused)
    BY DEF NextCandidate
<1>3. tasks \in Seq(Task) /\ tasks[i] \in Task /\ tasks[i].ref = <<>>
    BY <1>1 DEF Tasks
<1>4. t \in Task /\ t.input = tasks[i].input /\ (t.at = "done" => t.ref = t.input) /\ (t.at # "done" => t.ref = <<>>)
    <2>1. tasks[i].left \in Seq(Found) /\ tasks[i].input \in Seq(Found) /\ Input = Seq(Found)
        <3>1. Input = Seq(Found)
            BY <1>1 DEF Input
        <3>2. <<>> \in Seq(Found)
            OBVIOUS
        <3>3. QED
            BY <1>3, <3>1, <3>2 DEF Task
    <2>2. CASE Len(tasks[i].left) > 1
        <3>1. Tail(tasks[i].left) \in Seq(Found)
            BY <2>1, <2>2
        <3>2. t = [tasks[i] EXCEPT !.left = Tail(tasks[i].left)]
            BY <2>2
        <3> HIDE DEF t
        <3>3. QED
            BY <1>1, <1>3, <2>1, <3>1, <3>2 DEF Task
    <2>3. CASE ~(Len(tasks[i].left) > 1)
        BY <1>3, <2>1, <2>3 DEF Task
    <2>4. QED
        BY <2>2, <2>3
<1> HIDE DEF t
<1>5. OnlyStatus
    <2>1. Found' = Found
        BY <1>2 DEF Found
    <2>2. ASSUME NEW d \in Found
          PROVE  candidates'[d] \in SavedCandidate /\ candidates'[d].sources = candidates[d].sources
        <3>1. candidates[d] \in SavedCandidate
            BY DEF Types
        <3>2. CASE d = c
            <4>1. s \in CandidateStatus
                BY <3>1, <3>2 DEF SavedCandidate
            <4>2. candidates'[d] = [candidates[d] EXCEPT !.status = s]
                BY <1>2, <3>2 DEF Found
            <4>3. QED
                BY <3>1, <4>1, <4>2 DEF SavedCandidate
        <3>3. CASE d # c
            BY <1>2, <3>1, <3>3 DEF Found
        <3>4. QED
            BY <3>2, <3>3
    <2>3. QED
        BY <2>1, <2>2 DEF OnlyStatus
<1>6. Types' /\ FoundByRound' /\ RawSet'
    <2>1. blocked' \in BOOLEAN /\ graph' \in Checkpoint
        BY <1>1, <1>2 DEF Types
    <2>2. QED
        BY <1>1, <1>5, <2>1, OnlyStatusKeeps DEF Types
<1>7. tasks' \in Seq(Task')
    <2>1. tasks' \in Seq(Task)
        BY <1>1, <1>3, <1>4
    <2>2. QED
        BY <1>1, <1>5, <2>1, TaskGrows, SeqGrows DEF OnlyStatus
<1>8. \A j \in DOMAIN tasks : tasks'[j] = IF j = i THEN t ELSE tasks[j]
    BY <1>1, <1>3
<1>9. OnlyTasks
    BY <1>1, <1>4, <1>7, <1>8 DEF OnlyTasks, Tasks
<1>10. graph.node = "run_deep_research_batch" /\ ExecutionIsCurrent =>
          \A j \in DOMAIN tasks : tasks'[j].at = "done" => tasks'[j].ref = tasks'[j].input
    BY <1>4, <1>8 DEF DeepResearch
<1>11. QED
    BY <1>6, <1>9, <1>10, OnlyTasksKeepsDeepResearch

LEMMA PersistCheapEnrichedSetKeepsIInv ==
    ASSUME IInv, PersistCheapEnrichedSet
    PROVE  IInv'
<1> USE DEF IInv
<1>1. /\ graph' = [graph EXCEPT !.cheap = graph.raw, !.node = "apply_hard_filters"]
      /\ tasks' = <<>>
      /\ UNCHANGED <<version, planned, candidates, calls, blocked, status, faults>>
    BY DEF PersistCheapEnrichedSet
<1>2. /\ graph' \in Checkpoint /\ graph'.node = "apply_hard_filters"
      /\ graph'.refs = graph.refs /\ graph'.raw = graph.raw /\ graph'.round = graph.round
    BY <1>1 DEF Types, Checkpoint, Nodes
<1>3. OnlyStatus
    BY <1>1 DEF OnlyStatus, Found, Types
<1>4. Types' /\ FoundByRound' /\ RawSet'
    BY <1>1, <1>2, <1>3, OnlyStatusKeeps DEF Types
<1>5. DeepResearch' /\ PartialFailureKeepsResults'
    BY <1>2 DEF DeepResearch, PartialFailureKeepsResults
<1>6. QED
    BY <1>1, <1>4, <1>5, NoTasks

LEMMA ApplyHardFiltersKeepsIInv ==
    ASSUME IInv, ApplyHardFilters
    PROVE  IInv'
<1> USE DEF IInv
<1>1. PICK out \in SUBSET ToSet(graph.cheap) :
          /\ graph' = [graph EXCEPT !.node = "select_deep_research",
                !.filtered = Kept(graph.cheap, {k \in DOMAIN graph.cheap : graph.cheap[k] \notin out})]
          /\ candidates' = [c \in DOMAIN candidates |->
                IF c \in out THEN [candidates[c] EXCEPT !.status = "FILTERED_OUT"] ELSE candidates[c]]
    BY DEF ApplyHardFilters
<1>2. /\ UNCHANGED <<version, planned, tasks, calls, blocked, status, faults>>
      /\ graph.node = "apply_hard_filters"
    BY DEF ApplyHardFilters
<1>3. /\ graph' \in Checkpoint /\ graph'.node = "select_deep_research"
      /\ graph'.refs = graph.refs /\ graph'.raw = graph.raw /\ graph'.round = graph.round
    <2> DEFINE kept == Kept(graph.cheap, {k \in DOMAIN graph.cheap : graph.cheap[k] \notin out})
    <2>1. kept \in Seq(Found)
        <3>1. graph.cheap \in Seq(Found)
            BY DEF Types, Checkpoint
        <3>2. QED
            BY <3>1, KeptLemma
    <2>2. graph' = [graph EXCEPT !.node = "select_deep_research", !.filtered = kept]
        BY <1>1
    <2> HIDE DEF kept
    <2>3. QED
        BY <2>1, <2>2 DEF Types, Checkpoint, Nodes
<1>4. OnlyStatus
    BY <1>1 DEF OnlyStatus, Found, Types, SavedCandidate, CandidateStatus
<1>5. Types' /\ FoundByRound' /\ RawSet'
    BY <1>2, <1>3, <1>4, OnlyStatusKeeps DEF Types
<1>6. Tasks'
    BY <1>2, <1>3, <1>4, TasksStay DEF OnlyStatus
<1>7. DeepResearch' /\ PartialFailureKeepsResults'
    BY <1>3 DEF DeepResearch, PartialFailureKeepsResults
<1>8. QED
    BY <1>5, <1>6, <1>7

LEMMA BestLemma ==
    ASSUME Types
    PROVE  Best \in Seq(Found) /\ FirstOf(Best, TargetCount) = FirstOf(Ranked(graph.filtered), TargetCount)
<1> DEFINE ranked == Ranked(graph.filtered)
<1>1. ranked \in Seq(Found)
    <2>1. graph.filtered \in Seq(Found) /\ Found \in SUBSET Candidate
        BY DEF Types, Checkpoint
    <2>2. QED
        BY <2>1, RankedLemma
<1>2. Wanted \in Nat /\ TargetCount \in Nat /\ TargetCount <= Wanted
    BY Sizes DEF Wanted
<1>3. Best = FirstOf(ranked, Wanted)
    BY DEF Best
<1> HIDE DEF ranked
<1>4. /\ Best \in Seq(Found)
      /\ Len(Best) = IF Len(ranked) < Wanted THEN Len(ranked) ELSE Wanted
      /\ \A k \in 1..Len(Best) : Best[k] = ranked[k]
    BY <1>1, <1>2, <1>3, FirstOfLemma
<1> DEFINE a == FirstOf(Best, TargetCount)
           b == FirstOf(ranked, TargetCount)
<1>5. /\ a \in Seq(Found) /\ Len(a) = IF Len(Best) < TargetCount THEN Len(Best) ELSE TargetCount
      /\ \A k \in 1..Len(a) : a[k] = Best[k]
    BY <1>2, <1>4, FirstOfLemma
<1>6. /\ b \in Seq(Found) /\ Len(b) = IF Len(ranked) < TargetCount THEN Len(ranked) ELSE TargetCount
      /\ \A k \in 1..Len(b) : b[k] = ranked[k]
    BY <1>1, <1>2, FirstOfLemma
<1> HIDE DEF a, b
<1>7. Len(a) = Len(b)
    BY <1>1, <1>2, <1>4, <1>5, <1>6
<1>8. \A k \in 1..Len(a) : k \in 1..Len(Best)
    BY <1>2, <1>4, <1>5
<1>9. \A k \in 1..Len(a) : a[k] = b[k]
    BY <1>4, <1>5, <1>6, <1>7, <1>8
<1>10. a = b
    BY <1>5, <1>6, <1>7, <1>9
<1>11. QED
    BY <1>4, <1>10 DEF a, b, ranked

LEMMA SelectDeepResearchKeepsIInv ==
    ASSUME IInv, SelectDeepResearch
    PROVE  IInv'
<1> USE DEF IInv
<1>1. /\ graph' = [graph EXCEPT !.node = "run_deep_research_batch"]
      /\ tasks' = Sent(Batches(Best))
      /\ candidates' = [c \in DOMAIN candidates |->
            IF c \in ToSet(Best) THEN [candidates[c] EXCEPT !.status = "SELECTED_FOR_RESEARCH"]
            ELSE candidates[c]]
      /\ UNCHANGED <<version, planned, calls, blocked, status, faults>>
    BY DEF SelectDeepResearch, Best, Wanted
<1>2. /\ graph' \in Checkpoint /\ graph'.node = "run_deep_research_batch"
      /\ graph'.refs = graph.refs /\ graph'.raw = graph.raw /\ graph'.round = graph.round
      /\ graph'.filtered = graph.filtered
    BY <1>1 DEF Types, Checkpoint, Nodes
<1>3. OnlyStatus
    BY <1>1 DEF OnlyStatus, Found, Types, SavedCandidate, CandidateStatus
<1>4. Types' /\ FoundByRound' /\ RawSet'
    BY <1>1, <1>2, <1>3, OnlyStatusKeeps DEF Types
<1>5. Batches(Best) \in Seq(Seq(Found))
    BY BestLemma, BatchesLemma
<1>6. Tasks'
    <2>1. Batches(Best) \in Seq(Input')
        BY <1>2, <1>3, <1>5 DEF Input, OnlyStatus
    <2>2. QED
        BY <1>1, <2>1, SentTasks
<1>7. DeepResearch'
    <2>1. Best' = Best
        BY <1>2 DEF Best
    <2>2. [i \in DOMAIN tasks' |-> tasks'[i].input] = Batches(Best)
        BY <1>1, <1>5, SentLemma
    <2>3. \A i \in DOMAIN tasks' : tasks'[i].at # "done"
        <3>1. tasks' \in Seq([input : Seq(Found), left : Seq(Found), at : {"ready"}, ref : {<<>>}])
            BY <1>1, <1>5, SentLemma
        <3>2. \A t \in [input : Seq(Found), left : Seq(Found), at : {"ready"}, ref : {<<>>}] : t.at # "done"
            OBVIOUS
        <3>3. \A X : tasks' \in Seq(X) => \A i \in DOMAIN tasks' : tasks'[i] \in X
            OBVIOUS
        <3>4. QED
            BY <3>1, <3>2, <3>3
    <2>4. QED
        BY <2>1, <2>2, <2>3 DEF DeepResearch
<1>8. PartialFailureKeepsResults'
    BY <1>2 DEF PartialFailureKeepsResults
<1>9. QED
    BY <1>4, <1>6, <1>7, <1>8

LEMMA PersistResearchedSetKeepsIInv ==
    ASSUME IInv, PersistResearchedSet
    PROVE  IInv'
<1> USE DEF IInv
<1> DEFINE set == FirstOf(Results, TargetCount)
<1>1. /\ graph' = [graph EXCEPT !.researched = set, !.node = "end"]
      /\ status' = IF Len(set) >= TargetCount /\ ~Exhausted THEN "COMPLETED" ELSE "PARTIAL"
      /\ tasks' = <<>>
      /\ UNCHANGED <<version, planned, candidates, calls, blocked, faults>>
      /\ graph.node = "run_deep_research_batch" /\ AllDone
    BY DEF PersistResearchedSet
<1>2. set \in Seq(Found)
    BY ResultsType, FirstOfLemma, Sizes
<1> HIDE DEF set
<1>3. /\ graph' \in Checkpoint /\ graph'.node = "end" /\ graph'.researched = set
      /\ graph'.refs = graph.refs /\ graph'.raw = graph.raw /\ graph'.round = graph.round
      /\ graph'.filtered = graph.filtered
    BY <1>1, <1>2 DEF Types, Checkpoint, Nodes
<1>4. OnlyStatus
    BY <1>1 DEF OnlyStatus, Found, Types
<1>5. Types' /\ FoundByRound' /\ RawSet'
    BY <1>1, <1>3, <1>4, OnlyStatusKeeps DEF Types
<1>6. DeepResearch'
    BY <1>3 DEF DeepResearch
<1>7. PartialFailureKeepsResults'
    <2>1. ASSUME ExecutionIsCurrent PROVE set = FirstOf(Ranked(graph.filtered), TargetCount)
        <3>1. \A i \in DOMAIN tasks : tasks[i].ref = tasks[i].input
            BY <1>1, <2>1 DEF AllDone, DeepResearch
        <3>2. [i \in DOMAIN tasks |-> tasks[i].ref] = Batches(Best)
            BY <1>1, <3>1 DEF DeepResearch
        <3>3. Results = Best
            BY <3>2, BestLemma, BatchesLemma DEF Results
        <3>4. QED
            BY <3>3, BestLemma DEF set
    <2>2. QED
        BY <1>1, <1>3, <2>1 DEF PartialFailureKeepsResults, ExecutionIsCurrent
<1>8. QED
    BY <1>1, <1>5, <1>6, <1>7, NoTasks

LEMMA MutateKeepsIInv ==
    ASSUME IInv, Mutate
    PROVE  IInv'
<1> USE DEF IInv
<1>1. /\ version < MaxVersion /\ version' = version + 1
      /\ UNCHANGED <<planned, graph, tasks, candidates, calls, blocked, status, faults>>
    BY DEF Mutate
<1>2. version \in Nat /\ planned \in Nat /\ planned <= version
    BY Sizes DEF Types
<1>3. Types'
    <2>1. version' \in 1..MaxVersion /\ planned' \in 0..version'
        BY <1>1, <1>2, Sizes DEF Types
    <2>2. QED
        BY <1>1, <2>1 DEF Types, Checkpoint, Found
<1>4. Tasks' /\ FoundByRound' /\ RawSet'
    BY <1>1 DEF Tasks, Task, Input, Found, FoundByRound, RawSet
<1>5. ~ExecutionIsCurrent'
    BY <1>1, <1>2 DEF ExecutionIsCurrent
<1>6. DeepResearch'
    BY <1>1, <1>5 DEF DeepResearch, Best
<1>7. PartialFailureKeepsResults'
    BY <1>5 DEF PartialFailureKeepsResults
<1>8. QED
    BY <1>3, <1>4, <1>6, <1>7

\* Tasks that start again when they were not done.
LEMMA UndoneKeeps ==
    ASSUME IInv, UNCHANGED <<version, planned, graph, candidates, blocked>>,
           tasks' = [i \in DOMAIN tasks |-> Undone(tasks[i])]
    PROVE  Tasks' /\ DeepResearch' /\ PartialFailureKeepsResults' /\ FoundByRound' /\ RawSet'
<1> USE DEF IInv
<1>1. Task' = Task
    BY DEF Task, Input, Found
<1>2. tasks \in Seq(Task) /\ \A i \in DOMAIN tasks : tasks[i] \in Task
    BY DEF Tasks
<1>3. \A t \in Task : /\ Undone(t) \in Task /\ Undone(t).input = t.input /\ Undone(t).ref = t.ref
                      /\ Undone(t).at = "done" <=> t.at = "done"
    BY DEF Task, Undone
<1>4. DOMAIN tasks' = DOMAIN tasks /\ \A i \in DOMAIN tasks : tasks'[i] = Undone(tasks[i])
    OBVIOUS
<1>5. tasks' \in Seq(Task')
    BY <1>1, <1>2, <1>3
<1>6. OnlyTasks
    BY <1>2, <1>3, <1>4, <1>5 DEF OnlyTasks, Tasks
<1>7. graph.node = "run_deep_research_batch" /\ ExecutionIsCurrent =>
          \A i \in DOMAIN tasks : tasks'[i].at = "done" => tasks'[i].ref = tasks'[i].input
    BY <1>2, <1>3, <1>4 DEF DeepResearch
<1>8. FoundByRound' /\ RawSet'
    BY DEF FoundByRound, Found, RawSet
<1>9. QED
    BY <1>6, <1>7, <1>8, OnlyTasksKeepsDeepResearch

LEMMA RaiseKeepsIInv ==
    ASSUME IInv, Raise
    PROVE  IInv'
<1>1. /\ faults < MaxFaults /\ faults' = faults + 1
      /\ tasks' = [i \in DOMAIN tasks |-> Undone(tasks[i])]
      /\ UNCHANGED <<version, planned, graph, candidates, calls, blocked, status>>
    BY DEF Raise
<1>2. Types'
    <2>1. faults' \in 0..MaxFaults
        BY <1>1, Sizes DEF IInv, Types
    <2>2. QED
        BY <1>1, <2>1 DEF IInv, Types, Checkpoint, Found
<1>3. QED
    BY <1>1, <1>2, UndoneKeeps DEF IInv

LEMMA RestartKeepsIInv ==
    ASSUME IInv, Restart
    PROVE  IInv'
<1>1. /\ faults < MaxFaults /\ faults' = faults + 1
      /\ tasks' = [i \in DOMAIN tasks |-> Undone(tasks[i])]
      /\ calls' = [q \in Query |-> [r \in Rounds |->
            [calls[q][r] EXCEPT !.seen = {calls[q][r].stored} \ {"NONE"},
                                !.answer = IF calls[q][r].stored = "SUCCESS" THEN calls[q][r].answer ELSE <<>>]]]
      /\ status' = IF status = "FAILED" THEN "RUNNING" ELSE status
      /\ UNCHANGED <<version, planned, graph, candidates, blocked>>
    BY DEF Restart
<1>2. Types'
    <2>1. faults' \in 0..MaxFaults
        <3>1. faults \in 0..MaxFaults /\ faults < MaxFaults /\ faults' = faults + 1
            BY <1>1 DEF IInv, Types
        <3>2. QED
            BY <3>1, Sizes
    <2>2. calls' \in [Query -> [Rounds -> ToolRuns]]
        <3>1. ASSUME NEW q \in Query, NEW r \in Rounds
              PROVE  [calls[q][r] EXCEPT !.seen = {calls[q][r].stored} \ {"NONE"},
                          !.answer = IF calls[q][r].stored = "SUCCESS" THEN calls[q][r].answer ELSE <<>>] \in ToolRuns
            <4>1. calls[q][r] \in ToolRuns
                BY DEF IInv, Types
            <4>2. <<>> \in Seq(Row)
                OBVIOUS
            <4>3. QED
                BY <4>1, <4>2 DEF ToolRuns
        <3>2. QED
            BY <1>1, <3>1
    <2>3. status' \in {"CREATED", "RUNNING", "FAILED", "COMPLETED", "PARTIAL"}
        BY <1>1 DEF IInv, Types
    <2>4. QED
        BY <1>1, <2>1, <2>2, <2>3 DEF IInv, Types, Checkpoint, Found
<1>3. QED
    BY <1>1, <1>2, UndoneKeeps DEF IInv

-----------------------------------------------------------------------------
(* The theorems. *)

LEMMA StepIInv == IInv /\ [Next]_vars => IInv'
<1> SUFFICES ASSUME IInv, [Next]_vars PROVE IInv'
    OBVIOUS
<1>1. CASE BuildSearchPlan
    BY <1>1, BuildSearchPlanKeepsIInv
<1>2. CASE MergeDiscovery
    BY <1>2, MergeDiscoveryKeepsIInv
<1>3. CASE DiscoveryUnavailable
    BY <1>3, DiscoveryUnavailableKeepsIInv
<1>4. CASE PersistCheapEnrichedSet
    BY <1>4, PersistCheapEnrichedSetKeepsIInv
<1>5. CASE ApplyHardFilters
    BY <1>5, ApplyHardFiltersKeepsIInv
<1>6. CASE SelectDeepResearch
    BY <1>6, SelectDeepResearchKeepsIInv
<1>7. CASE PersistResearchedSet
    BY <1>7, PersistResearchedSetKeepsIInv
<1>8. ASSUME NEW i \in DOMAIN tasks, Batch(i) PROVE IInv'
    <2>1. CASE StartBatch(i)
        BY <2>1, StartBatchKeepsIInv
    <2>2. CASE RunDiscoveryBatch(i)
        BY <2>2, RunDiscoveryBatchKeepsIInv
    <2>3. CASE EnrichBatch(i)
        <3>1. NextCandidate(i, "run_cheap_enrichment_batch", {"ENRICHED"})
            BY <2>3 DEF EnrichBatch
        <3>2. {"ENRICHED"} \in SUBSET CandidateStatus
            BY DEF CandidateStatus
        <3>3. QED
            BY <3>1, <3>2, NextCandidateKeepsIInv
    <2>4. CASE DeepResearchBatch(i)
        <3>1. NextCandidate(i, "run_deep_research_batch", {"RESEARCHED", "PARTIAL"})
            BY <2>4 DEF DeepResearchBatch
        <3>2. {"RESEARCHED", "PARTIAL"} \in SUBSET CandidateStatus
            BY DEF CandidateStatus
        <3>3. QED
            BY <3>1, <3>2, NextCandidateKeepsIInv
    <2>5. QED
        BY <1>8, <2>1, <2>2, <2>3, <2>4 DEF Batch
<1>9. CASE Mutate
    BY <1>9, MutateKeepsIInv
<1>10. CASE Raise
    BY <1>10, RaiseKeepsIInv
<1>11. CASE Restart
    BY <1>11, RestartKeepsIInv
<1>12. CASE UNCHANGED vars
    <2>1. UNCHANGED <<version, planned, graph, tasks, candidates, calls, blocked, status, faults>>
        BY <1>12 DEF vars
    <2>2. Types'
        BY <2>1 DEF IInv, Types, Checkpoint, Found
    <2>3. Tasks' /\ FoundByRound' /\ RawSet'
        BY <2>1 DEF IInv, Tasks, Task, Input, Found, FoundByRound, RawSet
    <2>4. DeepResearch' /\ PartialFailureKeepsResults'
        BY <2>1 DEF IInv, DeepResearch, Best, ExecutionIsCurrent, PartialFailureKeepsResults
    <2>5. QED
        BY <2>2, <2>3, <2>4 DEF IInv
<1>13. QED
    BY <1>1, <1>2, <1>3, <1>4, <1>5, <1>6, <1>7, <1>8, <1>9, <1>10, <1>11, <1>12 DEF Next, Step

\* Every state a run reaches satisfies the inductive invariant: whatever its providers
\* answer, and however often its batches fail, its process dies or its task is mutated,
\* what research_service.py saved is of the candidates it found, the raw set is what
\* merging the results of all rounds makes it, and deep research has the best.
THEOREM Invariance == Spec => []IInv
<1>1. IInv /\ [Next]_vars => IInv'
    BY StepIInv
<1>2. QED
    BY InitIInv, <1>1, PTL DEF Spec

\* The variables have their types: no set of the checkpoint names a candidate that was
\* not saved, and a saved candidate keeps the row it was made of among its sources.
THEOREM TypeCorrect == Spec => []TypeOK
<1>1. IInv => TypeOK
    <2> SUFFICES ASSUME IInv PROVE TypeOK
        OBVIOUS
    <2>1. \A list \in {graph.refs, graph.raw, graph.cheap, graph.filtered, graph.researched} :
              ToSet(list) \subseteq DOMAIN candidates
        <3>1. \A list \in {graph.refs, graph.raw, graph.cheap, graph.filtered, graph.researched} :
                  list \in Seq(Found)
            BY DEF IInv, Types, Checkpoint
        <3>2. QED
            BY <3>1, ToSetType DEF Found
    <2>2. \A i \in DOMAIN tasks : tasks[i].at \in {"ready", "running", "done"}
        <3>1. \A i \in DOMAIN tasks : tasks[i] \in Task
            BY DEF IInv, Tasks
        <3>2. QED
            BY <3>1 DEF Task
    <2>3. \A q \in Query, r \in Rounds : /\ calls[q][r].seen \subseteq ToolStatus
                                         /\ calls[q][r].stored \in ToolStatus \cup {"NONE"}
        <3>1. \A q \in Query, r \in Rounds : calls[q][r] \in ToolRuns
            BY DEF IInv, Types
        <3>2. QED
            BY <3>1 DEF ToolRuns
    <2>4. graph.node \in Nodes /\ graph.round \in Rounds
        BY DEF IInv, Types, Checkpoint
    <2>5. \A c \in DOMAIN candidates : /\ candidates[c].status \in CandidateStatus
                                       /\ c.row \in candidates[c].sources
        BY DEF IInv, Types, SavedCandidate, Found
    <2>6. QED
        BY <2>1, <2>2, <2>3, <2>4, <2>5 DEF IInv, Types, TypeOK, Found
<1>2. QED
    BY Invariance, <1>1, PTL

\* Duplicates are merged, none is lost: after any number of rounds no two candidates of
\* the raw set have an identity in common, and, while the set is not full, every result
\* of every round is among the sources of a candidate of the set (merge_discovery).
THEOREM DuplicatesAreMerged == Spec => []DuplicatesMerged
<1>1. IInv => DuplicatesMerged
    <2> SUFFICES ASSUME IInv PROVE DuplicatesMerged
        OBVIOUS
    <2>1. graph.refs \in Seq(Found) /\ Found \in SUBSET Candidate /\ graph.raw = RawOf(graph.refs)
        BY RawFound DEF IInv, Types, RawSet
    <2>2. \A i, j \in DOMAIN graph.raw : i # j => Apart(graph.raw[i].row, graph.raw[j].row)
        BY <2>1, RawLemma
    <2>3. Len(graph.raw) < MaxCandidates =>
              \A c \in ToSet(graph.refs) : \E d \in ToSet(graph.raw) : Stands(d, c)
        BY DEF IInv, RawSet, Stands, ToSet
    <2>4. QED
        BY <2>2, <2>3 DEF DuplicatesMerged, Apart
<1>2. QED
    BY Invariance, <1>1, PTL

\* Failed and refused calls, batches begun again and restarts cost no candidate its
\* place: a run whose task did not move on ends with the best of the filtered set,
\* although its results come from batches (persist_researched_set).
THEOREM ResultsAreBest == Spec => []PartialFailureKeepsResults
<1>1. IInv => PartialFailureKeepsResults
    BY DEF IInv
<1>2. QED
    BY Invariance, <1>1, PTL

\* A wider search only adds to the raw set: a later merge, which starts again from the
\* results of every round, chooses the same candidates as before and then more.
THEOREM ExpansionOnlyAdds == Spec => ExpansionKeepsCandidates
<1>1. IInv /\ [Next]_vars => [graph.raw # graph'.raw => IsPrefix(graph.raw, graph'.raw)]_vars
    <2> SUFFICES ASSUME IInv, [Next]_vars, graph.raw # graph'.raw
                 PROVE  IsPrefix(graph.raw, graph'.raw)
        OBVIOUS
    <2>1. graph \in Checkpoint
        BY DEF IInv, Types
    <2>2. CASE MergeDiscovery
        <3>1. /\ graph' = [graph EXCEPT !.refs = Refs,
                     !.raw = FirstOf(Kept(Refs, Selected(Refs)), MaxCandidates),
                     !.round = graph'.round, !.node = graph'.node]
            BY <2>1, <2>2 DEF MergeDiscovery, Checkpoint
        <3>2. graph'.raw = RawOf(Refs)
            BY <2>1, <3>1 DEF Checkpoint, RawOf
        <3>3. graph.refs \in Seq(Found) /\ Results \in Seq(Found) /\ Found \in SUBSET Candidate
            BY RawFound, ResultsType DEF IInv, Types
        <3>4. IsPrefix(RawOf(graph.refs), RawOf(graph.refs \o Results))
            BY <3>3, RawExtended
        <3>5. QED
            BY <3>2, <3>4 DEF IInv, RawSet, Refs
    <2>3. CASE ~MergeDiscovery
        <3>1. BuildSearchPlan \/ PersistCheapEnrichedSet \/ ApplyHardFilters
              \/ SelectDeepResearch \/ PersistResearchedSet => graph'.raw = graph.raw
            BY <2>1 DEF Checkpoint, BuildSearchPlan, PersistCheapEnrichedSet, ApplyHardFilters,
                        SelectDeepResearch, PersistResearchedSet
        <3>2. DiscoveryUnavailable \/ Mutate \/ Raise \/ Restart \/ UNCHANGED vars => graph' = graph
            BY DEF DiscoveryUnavailable, Mutate, Raise, Restart, vars
        <3>3. ASSUME NEW i \in DOMAIN tasks, Batch(i) PROVE graph' = graph
            BY <3>3 DEF Batch, StartBatch, RunDiscoveryBatch, EnrichBatch, DeepResearchBatch, NextCandidate
        <3>4. QED
            BY <2>3, <3>1, <3>2, <3>3 DEF Next, Step
    <2>4. QED
        BY <2>2, <2>3
<1>2. QED
    BY Invariance, <1>1, PTL DEF Spec, ExpansionKeepsCandidates
=============================================================================
