----------------------------- MODULE History_proofs -----------------------------
(***************************************************************************)
(* The history of a chat, from what lands in it to what is read of it:     *)
(* what the updates of Telegram leave behind, for any batch of updates,    *)
(* any number of deliveries and any answers and writes that are lost; the  *)
(* window a command takes out of it, for any history in any order; the     *)
(* list of its summaries, for any table, page size and age of the caches.  *)
(***************************************************************************)
EXTENDS TelegramUpdates, WindowScan, SummaryHistory,
        TLAPS, FiniteSetTheorems, SequenceTheorems

-----------------------------------------------------------------------------
(***************************************************************************)
(* Order.                                                                  *)
(***************************************************************************)
(* Precedence as a set of pairs, for lemmas about every order.             *)
Strict(R, S) ==
    /\ \A x \in S : <<x, x>> \notin R
    /\ \A x, y \in S : x = y \/ <<x, y>> \in R \/ <<y, x>> \in R
    /\ \A x, y, z \in S : <<x, y>> \in R /\ <<y, z>> \in R => <<x, z>> \in R

Ahead(R, S, x) == {y \in S : <<y, x>> \in R}
Rank(R, S, x) == Cardinality(Ahead(R, S, x))

\* Ranks are below the size of the set, and follow the order.
LEMMA RanksGrow ==
    ASSUME NEW S, IsFiniteSet(S), NEW R, Strict(R, S)
    PROVE  /\ \A x \in S : Rank(R, S, x) \in 0..(Cardinality(S) - 1)
           /\ \A x, y \in S : <<x, y>> \in R => Rank(R, S, x) < Rank(R, S, y)
<1>1. ASSUME NEW x \in S
      PROVE  /\ IsFiniteSet(Ahead(R, S, x)) /\ Rank(R, S, x) \in Nat
             /\ Rank(R, S, x) < Cardinality(S) /\ Cardinality(S) \in Nat
      <2>1. Ahead(R, S, x) \in SUBSET S /\ x \notin Ahead(R, S, x)
            BY <1>1 DEF Ahead, Strict
      <2>2. /\ IsFiniteSet(Ahead(R, S, x)) /\ Cardinality(Ahead(R, S, x)) <= Cardinality(S)
            /\ Cardinality(Ahead(R, S, x)) # Cardinality(S)
            BY <2>1, FS_Subset
      <2>3. Cardinality(Ahead(R, S, x)) \in Nat /\ Cardinality(S) \in Nat
            BY <2>2, FS_CardinalityType
      <2> QED BY <2>2, <2>3 DEF Rank
<1>2. ASSUME NEW x \in S, NEW y \in S, <<x, y>> \in R
      PROVE  Rank(R, S, x) < Rank(R, S, y)
      <2>1. Ahead(R, S, x) \in SUBSET Ahead(R, S, y)
            BY <1>2 DEF Ahead, Strict
      <2>2. x \in Ahead(R, S, y) /\ x \notin Ahead(R, S, x)
            BY <1>2 DEF Ahead, Strict
      <2>3. /\ Cardinality(Ahead(R, S, x)) <= Cardinality(Ahead(R, S, y))
            /\ Cardinality(Ahead(R, S, x)) # Cardinality(Ahead(R, S, y))
            BY <1>1, <2>1, <2>2, FS_Subset
      <2> QED BY <1>1, <2>3 DEF Rank
<1> QED BY <1>1, <1>2

\* Every rank below the size of the set is taken.
LEMMA RanksFill ==
    ASSUME NEW S, IsFiniteSet(S), NEW R, Strict(R, S), NEW i \in 1..Cardinality(S)
    PROVE  \E x \in S : Rank(R, S, x) = i - 1
<1> DEFINE n == Cardinality(S)
           f == [x \in S |-> Rank(R, S, x)]
<1>1. n \in Nat
      BY FS_CardinalityType
<1>2. f \in [S -> 0..(n - 1)]
      BY RanksGrow
<1>3. \A x, y \in S : f[x] = f[y] => x = y
      <2> SUFFICES ASSUME NEW x \in S, NEW y \in S, f[x] = f[y], x # y PROVE FALSE
          OBVIOUS
      <2>1. <<x, y>> \in R \/ <<y, x>> \in R
            BY DEF Strict
      <2>2. Rank(R, S, x) < Rank(R, S, y) \/ Rank(R, S, y) < Rank(R, S, x)
            BY <2>1, RanksGrow
      <2>3. Rank(R, S, x) \in Int /\ Rank(R, S, y) \in Int /\ Rank(R, S, x) = Rank(R, S, y)
            BY <1>2
      <2> QED BY <2>2, <2>3
<1>4. f \in Injection(S, 0..(n - 1))
      BY <1>2, <1>3 DEF Injection, IsInjective
<1>5. IsFiniteSet(0..(n - 1)) /\ Cardinality(0..(n - 1)) = n
      <2>1. 0 \in Int /\ n - 1 \in Int
            BY <1>1
      <2> HIDE DEF n
      <2>2. /\ IsFiniteSet(0..(n - 1))
            /\ Cardinality(0..(n - 1)) = IF 0 > n - 1 THEN 0 ELSE (n - 1) - 0 + 1
            BY ONLY <2>1, FS_Interval
      <2> QED BY <1>1, <2>2
<1>6. f \in Surjection(S, 0..(n - 1))
      BY <1>4, <1>5, FS_Injection
<1>7. i - 1 \in 0..(n - 1)
      BY <1>1
<1>8. \E x \in S : f[x] = i - 1
      BY <1>6, <1>7 DEF Surjection
<1> QED BY <1>8

(* What sorting yields: the elements, each once, in their order.           *)
Sorts(s, S, R) ==
    /\ DOMAIN s = 1..Cardinality(S) /\ Cardinality(S) \in Nat
    /\ \A i \in DOMAIN s : s[i] \in S
    /\ \A x \in S : \E i \in DOMAIN s : s[i] = x
    /\ \A i, j \in DOMAIN s : i < j => <<s[i], s[j]>> \in R

\* Taking the elements by their ranks sorts them.
LEMMA RanksSort ==
    ASSUME NEW S, IsFiniteSet(S), NEW R, Strict(R, S), NEW s,
           s = [i \in 1..Cardinality(S) |-> CHOOSE x \in S : Rank(R, S, x) = i - 1]
    PROVE  Sorts(s, S, R)
<1>1. Cardinality(S) \in Nat
      BY FS_CardinalityType
<1>2. \A i \in 1..Cardinality(S) : s[i] \in S /\ Rank(R, S, s[i]) = i - 1
      BY RanksFill
<1>3. DOMAIN s = 1..Cardinality(S)
      OBVIOUS
<1>4. ASSUME NEW x \in S, NEW y \in S, Rank(R, S, x) < Rank(R, S, y)
      PROVE  <<x, y>> \in R
      <2>1. Rank(R, S, x) \in 0..(Cardinality(S) - 1) /\ Rank(R, S, y) \in 0..(Cardinality(S) - 1)
            BY RanksGrow
      <2>2. ~(Rank(R, S, y) < Rank(R, S, x)) /\ ~(Rank(R, S, x) < Rank(R, S, x))
            BY <1>1, <1>4, <2>1
      <2>3. x # y /\ <<y, x>> \notin R
            BY <1>4, <2>2, RanksGrow
      <2> QED BY <2>3 DEF Strict
<1>5. \A i, j \in DOMAIN s : i < j => <<s[i], s[j]>> \in R
      <2> SUFFICES ASSUME NEW i \in 1..Cardinality(S), NEW j \in 1..Cardinality(S), i < j
                   PROVE  <<s[i], s[j]>> \in R
          BY <1>3
      <2>1. /\ s[i] \in S /\ s[j] \in S
            /\ Rank(R, S, s[i]) = i - 1 /\ Rank(R, S, s[j]) = j - 1
            BY <1>2
      <2>2. i - 1 < j - 1
            BY <1>1
      <2> QED BY <1>4, <2>1, <2>2
<1>6. \A x \in S : \E i \in DOMAIN s : s[i] = x
      <2> SUFFICES ASSUME NEW x \in S
                   PROVE  \E i \in 1..Cardinality(S) : s[i] = x
          BY <1>3
      <2> DEFINE i == Rank(R, S, x) + 1
      <2>1. Rank(R, S, x) \in 0..(Cardinality(S) - 1)
            BY RanksGrow
      <2>2. i \in 1..Cardinality(S) /\ i - 1 = Rank(R, S, x)
            BY <1>1, <2>1
      <2>3. s[i] \in S /\ Rank(R, S, s[i]) = Rank(R, S, x)
            BY <1>2, <2>2
      <2>4. ~(<<s[i], x>> \in R) /\ ~(<<x, s[i]>> \in R)
            <3>1. ~(Rank(R, S, x) < Rank(R, S, x))
                  BY <2>1
            <3> HIDE DEF i
            <3> QED BY <2>3, <3>1, RanksGrow
      <2> HIDE DEF i
      <2>5. s[i] = x
            BY <2>3, <2>4 DEF Strict
      <2> QED BY <2>2, <2>5
<1> QED BY <1>1, <1>2, <1>3, <1>5, <1>6 DEF Sorts

\* A set of numbers that is not empty has a least one.
LEMMA LeastNumber ==
    ASSUME NEW T \in SUBSET Nat, T # {}
    PROVE  \E x \in T : \A y \in T : x <= y
<1>1. \E x \in T : \A y \in T : <<y, x>> \notin OpToRel(<, Nat)
      BY NatLessThanWellFounded, WFMin
<1>2. PICK x \in T : \A y \in T : <<y, x>> \notin OpToRel(<, Nat)
      BY <1>1
<1>3. \A y \in T : ~(y < x)
      BY <1>2 DEF OpToRel
<1> QED BY <1>3

-----------------------------------------------------------------------------
(***************************************************************************)
(* The window of a command.                                                *)
(***************************************************************************)
Visited == {all[i] : i \in 1..ordinal}
SoFar == Candidates(Visited, command, checkpoint)
Chosen == Eligible(Range(all), command, checkpoint)

(* The array holds candidates, as many as it may, and each that is not in it *)
(* is to be thrown away before each that is.                                 *)
Kept ==
    /\ selected \in Seq(Messages) /\ IsInjective(selected)
    /\ Len(selected) <= Limit(command)
    /\ Range(selected) \subseteq SoFar
    /\ Len(selected) < Limit(command) => SoFar \subseteq Range(selected)
    /\ \A x \in SoFar \ Range(selected), y \in Range(selected) : BoundaryPrecedes(x, y)

(* The nodes from r on are heaps, were it not for the node i.               *)
HeapBut(nodes, r, i) ==
    /\ \A p, c \in DOMAIN nodes :
         p >= r /\ p # i /\ c \in {2 * p, 2 * p + 1} => ~BoundaryPrecedes(nodes[c], nodes[p])
    /\ \A p, c \in DOMAIN nodes :
         p >= r /\ i \in {2 * p, 2 * p + 1} /\ c \in {2 * i, 2 * i + 1}
           => ~BoundaryPrecedes(nodes[c], nodes[p])

Sifted ==
    /\ heapified => Len(selected) = Limit(command)
    /\ pc = "scan" /\ heapified => HeapBut(selected, 1, 0)
    /\ pc = "sift" =>
         /\ Len(selected) = Limit(command)
         /\ root \in Nat /\ index \in Nat
         /\ root = 0 => index = 0
         /\ root > 0 => index \in DOMAIN selected /\ index >= root
         /\ HeapBut(selected, root, index)

(* What is merged lies before what is not.                                   *)
Merging ==
    /\ contextIndex \in 0..Len(context) /\ eligibleIndex \in 0..Len(selected)
    /\ merged \in Seq(Messages)
    /\ Range(merged) = {context[i] : i \in 1..contextIndex} \union {selected[i] : i \in 1..eligibleIndex}
    /\ \A i, j \in DOMAIN merged : i < j => Before(merged[i], merged[j])
    /\ \A m \in Range(merged) :
         /\ \A k \in (contextIndex + 1)..Len(context) : Before(m, context[k])
         /\ \A k \in (eligibleIndex + 1)..Len(selected) : Before(m, selected[k])

ScanTypeOK ==
    /\ all \in Histories /\ command \in Commands /\ checkpoint \in Checkpoints
    /\ pc \in {"scan", "sift", "parents", "merge", "done"}
    /\ ordinal \in 0..Len(all) /\ heapified \in BOOLEAN

WindowInv ==
    /\ ScanTypeOK
    /\ pc \in {"scan", "sift"} => Kept /\ Sifted
    /\ pc \in {"scan", "sift", "parents"} => merged = <<>> /\ contextIndex = 0 /\ eligibleIndex = 0
    /\ pc \in {"parents", "merge", "done"} => selected = Chronological(Chosen)
    /\ pc \in {"parents", "merge"} => Chosen # {}
    /\ pc = "merge" \/ (pc = "done" /\ Chosen # {}) =>
         context = Chronological(Context(Range(all), Chosen)) /\ Merging
    /\ pc = "done" =>
         IF Chosen = {} THEN merged = <<>>
         ELSE contextIndex = Len(context) /\ eligibleIndex = Len(selected)

\* Messages are in a strict order.
LEMMA BeforeOrder ==
    /\ \A a \in Messages : ~Before(a, a)
    /\ \A a, b \in Messages : a = b \/ Before(a, b) \/ Before(b, a)
    /\ \A a, b, c \in Messages : Before(a, b) /\ Before(b, c) => Before(a, c)
    /\ \A a, b \in Messages : Before(a, b) => Sent[a] <= Sent[b] /\ ~Before(b, a)
<1>1. \A a \in Messages : a \in Nat /\ Sent[a] \in Nat
      BY WindowAssumption
<1> QED BY <1>1 DEF Before

\* So they are in the heap.
LEMMA BoundaryOrder ==
    /\ \A a \in Messages : ~BoundaryPrecedes(a, a)
    /\ \A a, b \in Messages : a = b \/ BoundaryPrecedes(a, b) \/ BoundaryPrecedes(b, a)
    /\ \A a, b, c \in Messages :
         BoundaryPrecedes(a, b) /\ BoundaryPrecedes(b, c) => BoundaryPrecedes(a, c)
BY BeforeOrder DEF BoundaryPrecedes

\* The elements of an array without repetitions are as many as it is long.
LEMMA RangeCounts ==
    ASSUME NEW T, NEW s \in Seq(T)
    PROVE  /\ Range(s) \subseteq T /\ IsFiniteSet(Range(s)) /\ Cardinality(Range(s)) \in Nat
           /\ IsInjective(s) => Cardinality(Range(s)) = Len(s)
<1>1. DOMAIN s = 1..Len(s) /\ Len(s) \in Nat /\ \A i \in 1..Len(s) : s[i] \in T
      OBVIOUS
<1>2. IsFiniteSet(1..Len(s)) /\ Cardinality(1..Len(s)) = Len(s)
      <2> DEFINE n == Len(s)
      <2>1. 1 \in Int /\ n \in Int
            OBVIOUS
      <2> HIDE DEF n
      <2>2. IsFiniteSet(1..n) /\ Cardinality(1..n) = IF 1 > n THEN 0 ELSE n - 1 + 1
            BY ONLY <2>1, FS_Interval
      <2> QED BY <1>1, <2>2 DEF n
<1>3. s \in Surjection(1..Len(s), Range(s))
      BY <1>1 DEF Surjection, Range
<1>4. /\ IsFiniteSet(Range(s))
      /\ Cardinality(Range(s)) = Cardinality(1..Len(s)) <=> s \in Injection(1..Len(s), Range(s))
      BY <1>2, <1>3, FS_Surjection
<1>5. IsInjective(s) => s \in Injection(1..Len(s), Range(s))
      BY <1>3 DEF Injection, Surjection
<1>6. Range(s) \subseteq T
      BY <1>1 DEF Range
<1> QED BY <1>2, <1>4, <1>5, <1>6, FS_CardinalityType

\* What is kept while the others lie behind it are the first of all.
LEMMA FirstKept ==
    ASSUME NEW S, IsFiniteSet(S), NEW R, Strict(R, S), NEW K \in SUBSET S, NEW k \in Nat,
           Cardinality(K) <= k, Cardinality(K) < k => K = S,
           \A x \in S \ K, y \in K : <<y, x>> \in R
    PROVE  K = {m \in S : Rank(R, S, m) < k}
<1>1. IsFiniteSet(K) /\ Cardinality(K) \in Nat
      BY FS_Subset, FS_CardinalityType
<1>2. ASSUME NEW y \in K PROVE Rank(R, S, y) < k
      <2>1. Ahead(R, S, y) \in SUBSET K /\ y \notin Ahead(R, S, y)
            BY DEF Strict, Ahead
      <2>2. /\ Cardinality(Ahead(R, S, y)) <= Cardinality(K)
            /\ Cardinality(Ahead(R, S, y)) # Cardinality(K)
            /\ IsFiniteSet(Ahead(R, S, y))
            BY <1>1, <2>1, FS_Subset
      <2>3. Cardinality(Ahead(R, S, y)) \in Nat
            BY <2>2, FS_CardinalityType
      <2> QED BY <1>1, <2>2, <2>3 DEF Rank
<1>3. ASSUME NEW x \in S \ K PROVE ~(Rank(R, S, x) < k)
      <2>1. Cardinality(K) = k
            BY <1>1, <1>3
      <2>2. K \in SUBSET Ahead(R, S, x) /\ Ahead(R, S, x) \in SUBSET S
            BY DEF Ahead
      <2>3. IsFiniteSet(Ahead(R, S, x))
            BY <2>2, FS_Subset
      <2>4. Cardinality(K) <= Cardinality(Ahead(R, S, x)) /\ Cardinality(Ahead(R, S, x)) \in Nat
            BY <2>2, <2>3, FS_Subset, FS_CardinalityType
      <2> QED BY <2>1, <2>4 DEF Rank
<1> QED BY <1>2, <1>3

\* Array.sort yields the elements, each once, in their order.
LEMMA ChronologicalSorts ==
    ASSUME NEW S \in SUBSET Messages, IsFiniteSet(S)
    PROVE  /\ Chronological(S) \in Seq(S) /\ Range(Chronological(S)) = S
           /\ Len(Chronological(S)) = Cardinality(S)
           /\ \A i, j \in DOMAIN Chronological(S) :
                i < j => Before(Chronological(S)[i], Chronological(S)[j])
<1> DEFINE R == {p \in Messages \X Messages : Before(p[1], p[2])}
           s == Chronological(S)
           n == Cardinality(S)
           At(i) == CHOOSE x \in S : Cardinality({y \in S : Before(y, x)}) = i - 1
           Of(i) == CHOOSE x \in S : Rank(R, S, x) = i - 1
<1>1. \A a, b \in Messages : <<a, b>> \in R <=> Before(a, b)
      OBVIOUS
<1>2. s = [i \in 1..n |-> At(i)]
      BY DEF Chronological, InOrder
<1>3. n \in Nat
      BY FS_CardinalityType
<1> HIDE DEF R, s
<1>4. Strict(R, S)
      BY <1>1, BeforeOrder DEF Strict
<1>5. \A x \in S : {y \in S : Before(y, x)} = Ahead(R, S, x)
      BY <1>1 DEF Ahead
<1>6. \A x \in S : Cardinality({y \in S : Before(y, x)}) = Rank(R, S, x)
      BY <1>5 DEF Rank
<1>7. \A i : At(i) = Of(i)
      BY <1>6
<1> HIDE DEF At, Of
<1>8. s = [i \in 1..n |-> Of(i)]
      BY <1>2, <1>7
<1>9. Sorts(s, S, R)
      BY <1>4, <1>8, RanksSort DEF Of
<1> HIDE DEF n
<1>10. /\ DOMAIN s = 1..n /\ \A i \in 1..n : s[i] \in S
       /\ \A x \in S : \E i \in 1..n : s[i] = x
       /\ \A i, j \in 1..n : i < j => <<s[i], s[j]>> \in R
       BY <1>9 DEF Sorts, n
<1>11. s \in [1..n -> S]
       BY <1>8, <1>10
<1>12. s \in Seq(S) /\ Len(s) = n
       BY <1>3, <1>10, <1>11
<1>13. Range(s) = S
       BY <1>10 DEF Range
<1>14. \A i, j \in DOMAIN s : i < j => Before(s[i], s[j])
       BY <1>1, <1>10
<1> QED BY <1>12, <1>13, <1>14 DEF s, n

\* A limit is at least one.
LEMMA LimitType == command \in Commands => Limit(command) \in Nat \ {0}
BY ScanAssumption, WindowAssumption DEF Command, Limit

\* In a heap nothing is thrown away before the root.
LEMMA RootIsBoundary ==
    ASSUME NEW nodes \in Seq(Messages), HeapBut(nodes, 1, 0)
    PROVE  \A i \in DOMAIN nodes : ~BoundaryPrecedes(nodes[i], nodes[1])
<1> DEFINE Worse == {i \in DOMAIN nodes : BoundaryPrecedes(nodes[i], nodes[1])}
<1> SUFFICES ASSUME Worse # {} PROVE FALSE
    OBVIOUS
<1>1. DOMAIN nodes = 1..Len(nodes) /\ Len(nodes) \in Nat
      OBVIOUS
<1>2. \A i \in 1..Len(nodes) : nodes[i] \in Messages
      OBVIOUS
<1>3. Worse \in SUBSET Nat
      BY <1>1
<1>4. PICK i \in Worse : \A j \in Worse : i <= j
      BY <1>3, LeastNumber
<1>5. i \in 1..Len(nodes) /\ BoundaryPrecedes(nodes[i], nodes[1])
      BY <1>1, <1>4
<1>6. i # 1 /\ 1 \in 1..Len(nodes)
      BY <1>1, <1>2, <1>5, BoundaryOrder
<1> DEFINE p == i \div 2
<1>7. p \in 1..Len(nodes) /\ p < i /\ (i = 2 * p \/ i = 2 * p + 1)
      BY <1>1, <1>5, <1>6
<1>8. ~BoundaryPrecedes(nodes[p], nodes[1])
      BY <1>1, <1>3, <1>4, <1>7
<1>9. ~BoundaryPrecedes(nodes[i], nodes[p])
      <2> HIDE DEF p
      <2>1. p >= 1 /\ p # 0 /\ i \in {2 * p, 2 * p + 1}
            BY <1>7
      <2> QED BY <1>1, <1>5, <1>7, <2>1 DEF HeapBut
<1> HIDE DEF p
<1> QED BY <1>2, <1>5, <1>6, <1>7, <1>8, <1>9, BoundaryOrder

\* The messages of a history.
LEMMA HistoryType ==
    ASSUME ScanTypeOK
    PROVE  /\ all \in Seq(Messages) /\ IsInjective(all)
           /\ Len(all) \in Nat /\ ordinal \in Nat /\ ordinal <= Len(all)
           /\ Visited \subseteq Range(all) /\ IsFiniteSet(Visited)
           /\ ordinal = Len(all) => Visited = Range(all)
           /\ SoFar \in SUBSET Visited /\ SoFar \in SUBSET Messages /\ IsFiniteSet(SoFar)
           /\ Range(all) \in SUBSET Messages /\ IsFiniteSet(Range(all))
           /\ Limit(command) \in Nat \ {0}
<1>1. all \in Seq(Messages) /\ IsInjective(all)
      BY ScanAssumption DEF ScanTypeOK
<1>2. Len(all) \in Nat /\ ordinal \in Nat /\ ordinal <= Len(all) /\ DOMAIN all = 1..Len(all)
      BY <1>1 DEF ScanTypeOK
<1>3. Range(all) \in SUBSET Messages /\ IsFiniteSet(Range(all))
      BY <1>1, RangeCounts
<1>4. Visited \in SUBSET Range(all)
      BY <1>2 DEF Visited, Range
<1>5. IsFiniteSet(Visited)
      BY <1>3, <1>4, FS_Subset
<1>6. ordinal = Len(all) => Visited = Range(all)
      BY <1>2 DEF Visited, Range
<1>7. SoFar \in SUBSET Visited
      BY DEF SoFar, Candidates
<1>8. IsFiniteSet(SoFar)
      BY <1>5, <1>7, FS_Subset
<1>9. Limit(command) \in Nat \ {0}
      BY LimitType DEF ScanTypeOK
<1> QED BY <1>1, <1>2, <1>3, <1>4, <1>5, <1>6, <1>7, <1>8, <1>9

\* The array holds what is eligible among the messages visited so far.
LEMMA KeptIsEligible ==
    ASSUME ScanTypeOK, Kept
    PROVE  Range(selected) = Eligible(Visited, command, checkpoint)
<1> DEFINE K == Range(selected)
           S == SoFar
           k == Limit(command)
           R == {p \in Messages \X Messages : BoundaryPrecedes(p[2], p[1])}
<1>1. \A a, b \in Messages : <<a, b>> \in R <=> BoundaryPrecedes(b, a)
      OBVIOUS
<1>2. /\ S \in SUBSET Messages /\ IsFiniteSet(S) /\ k \in Nat /\ K \in SUBSET S
      BY HistoryType DEF Kept
<1>3. /\ Cardinality(K) <= k
      /\ Cardinality(K) < k => K = S
      <2>1. Cardinality(K) = Len(selected)
            BY RangeCounts DEF Kept
      <2> QED BY <1>2, <2>1 DEF Kept
<1> HIDE DEF R
<1>4. Strict(R, S)
      BY <1>1, <1>2, BoundaryOrder DEF Strict
<1>5. \A x \in S \ K, y \in K : <<y, x>> \in R
      BY <1>1, <1>2 DEF Kept
<1> HIDE DEF K, S, k
<1>6. K = {m \in S : Rank(R, S, m) < k}
      BY <1>2, <1>3, <1>4, <1>5, FirstKept
<1>7. CASE Consumption(command) = "checkpoint"
      <2>1. \A a, b \in Messages : BoundaryPrecedes(b, a) <=> Before(a, b)
            BY <1>7 DEF BoundaryPrecedes, Direction
      <2>2. \A m \in S : {n \in S : Before(n, m)} = Ahead(R, S, m)
            BY <1>1, <1>2, <2>1 DEF Ahead
      <2>3. \A m \in S : Cardinality({n \in S : Before(n, m)}) = Rank(R, S, m)
            BY <2>2 DEF Rank
      <2>4. K = EarliestOf(S, k)
            BY <1>6, <2>3 DEF EarliestOf
      <2> QED BY <1>7, <2>4 DEF Eligible, K, S, k, SoFar
<1>8. CASE Consumption(command) # "checkpoint"
      <2>1. \A a, b \in Messages : BoundaryPrecedes(b, a) <=> Before(b, a)
            BY <1>8 DEF BoundaryPrecedes, Direction
      <2>2. \A m \in S : {n \in S : Before(m, n)} = Ahead(R, S, m)
            BY <1>1, <1>2, <2>1 DEF Ahead
      <2>3. \A m \in S : Cardinality({n \in S : Before(m, n)}) = Rank(R, S, m)
            BY <2>2 DEF Rank
      <2>4. K = LatestOf(S, k)
            BY <1>6, <2>3 DEF LatestOf
      <2> QED BY <1>8, <2>4 DEF Eligible, K, S, k, SoFar
<1> QED BY <1>7, <1>8

\* Between two iterations the loop is where it should be.
LEMMA BestIsKept == WindowInv => BestSoFar
<1> SUFFICES ASSUME WindowInv, pc = "scan" PROVE BestSoFar
    BY DEF BestSoFar
<1>1. ScanTypeOK /\ Kept /\ Sifted
      BY DEF WindowInv
<1>2. Range(selected) = Eligible(Visited, command, checkpoint)
      BY <1>1, KeptIsEligible
<1>3. heapified => \A i \in DOMAIN selected : ~BoundaryPrecedes(selected[i], selected[1])
      BY <1>1, RootIsBoundary DEF Kept, Sifted
<1> QED BY <1>2, <1>3 DEF BestSoFar, Visited

\* Nothing that the command fixes changes.
LEMMA InputsStay ==
    ASSUME UNCHANGED inputs
    PROVE  /\ UNCHANGED <<all, command, checkpoint, Chosen, Limit(command), Range(all)>>
           /\ \A x, y : BoundaryPrecedes(x, y)' <=> BoundaryPrecedes(x, y)
BY DEF inputs, Chosen, BoundaryPrecedes, Direction

\* The next message joins those that were visited, and the candidates if it
\* passes the tests.
LEMMA VisitOne ==
    ASSUME ScanTypeOK, Visit
    PROVE  /\ Message \in Messages /\ Message \notin Visited
           /\ SoFar' = IF Passes(Message) THEN SoFar \union {Message} ELSE SoFar
           /\ pc = "scan"
           /\ pc' \in {"scan", "sift", "parents", "merge", "done"} => ScanTypeOK'
           /\ UNCHANGED inputs
           /\ UNCHANGED <<heapified, merged, contextIndex, eligibleIndex>>
<1>1. /\ all \in Seq(Messages) /\ IsInjective(all)
      /\ Len(all) \in Nat /\ ordinal \in Nat /\ ordinal < Len(all)
      /\ ordinal' = ordinal + 1 /\ UNCHANGED <<all, command, checkpoint, heapified>>
      BY HistoryType DEF Visit, inputs
<1>2. ordinal + 1 \in 1..Len(all) /\ DOMAIN all = 1..Len(all)
      BY <1>1
<1>3. Message \in Messages
      BY <1>1, <1>2 DEF Message
<1>4. Message \notin Visited
      <2> SUFFICES ASSUME NEW i \in 1..ordinal, all[i] = all[ordinal + 1] PROVE FALSE
          BY DEF Message, Visited
      <2>1. i \in DOMAIN all /\ ordinal + 1 \in DOMAIN all /\ i # ordinal + 1
            BY <1>1, <1>2
      <2> QED BY <1>1, <2>1 DEF IsInjective
<1>5. Visited' = Visited \union {Message}
      <2>1. Visited' = {all[i] : i \in 1..(ordinal + 1)}
            BY <1>1 DEF Visited
      <2>2. 1..(ordinal + 1) = 1..ordinal \union {ordinal + 1}
            BY <1>1
      <2> QED BY <2>1, <2>2 DEF Visited, Message
<1>6. Message \in Range(all)
      BY <1>2 DEF Message, Range
<1>7. SoFar' = Candidates(Visited \union {Message}, command, checkpoint)
      BY <1>1, <1>5 DEF SoFar
<1>8. SoFar' = IF Passes(Message) THEN SoFar \union {Message} ELSE SoFar
      BY <1>6, <1>7 DEF SoFar, Passes, Candidates
<1>9. ordinal' \in 0..Len(all')
      BY <1>1
<1> QED BY <1>1, <1>3, <1>4, <1>8, <1>9 DEF Visit, inputs, merging, ScanTypeOK

\* Steps of the loop keep what does not concern the array.
LEMMA LoopStep ==
    ASSUME WindowInv, pc \in {"scan", "sift"}, pc' \in {"scan", "sift"},
           UNCHANGED <<merged, contextIndex, eligibleIndex>>,
           ScanTypeOK', Kept', Sifted'
    PROVE  WindowInv'
BY DEF WindowInv

\* A message that is not for the command changes nothing.
LEMMA SkipKeeps == ASSUME WindowInv, SkipMessage PROVE WindowInv'
<1>1. Visit /\ ~Passes(Message) /\ UNCHANGED <<pc, selected, root, index>>
      BY DEF SkipMessage
<1>2. ScanTypeOK /\ pc = "scan" /\ Kept /\ Sifted
      BY <1>1 DEF WindowInv, Visit
<1>3. /\ SoFar' = SoFar /\ ScanTypeOK' /\ UNCHANGED <<heapified, merged, contextIndex, eligibleIndex>>
      /\ UNCHANGED Limit(command)
      /\ \A x, y : BoundaryPrecedes(x, y)' <=> BoundaryPrecedes(x, y)
      BY <1>1, <1>2, VisitOne, InputsStay
<1>4. Kept'
      BY <1>1, <1>2, <1>3 DEF Kept
<1>5. Sifted'
      BY <1>1, <1>2, <1>3 DEF Sifted, HeapBut
<1> QED BY <1>1, <1>2, <1>3, <1>4, <1>5, LoopStep

\* While there is room, every candidate is kept.
LEMMA PushKeeps == ASSUME WindowInv, PushMessage PROVE WindowInv'
<1> DEFINE m == Message
<1>1. Visit /\ Passes(m) /\ ~Full /\ selected' = Append(selected, m) /\ UNCHANGED <<pc, root, index>>
      BY DEF PushMessage
<1>2. ScanTypeOK /\ pc = "scan" /\ Kept /\ Sifted
      BY <1>1 DEF WindowInv, Visit
<1>3. /\ SoFar' = SoFar \union {m} /\ m \in Messages /\ m \notin Visited
      /\ ScanTypeOK' /\ UNCHANGED <<heapified, merged, contextIndex, eligibleIndex>>
      /\ UNCHANGED Limit(command)
      BY <1>1, <1>2, VisitOne, InputsStay
<1>4. /\ selected \in Seq(Messages) /\ Len(selected) \in Nat /\ Limit(command) \in Nat
      /\ Len(selected) < Limit(command)
      BY <1>1, <1>2, HistoryType DEF Kept, Full
<1>5. Range(selected) = SoFar /\ m \notin Range(selected)
      BY <1>2, <1>3, <1>4, HistoryType DEF Kept
<1> HIDE DEF m
<1>6. /\ selected' \in Seq(Messages) /\ Len(selected') = Len(selected) + 1
      /\ selected'[Len(selected) + 1] = m
      /\ \A i \in 1..Len(selected) : selected'[i] = selected[i]
      /\ DOMAIN selected' = 1..(Len(selected) + 1) /\ DOMAIN selected = 1..Len(selected)
      BY <1>1, <1>3, <1>4
<1>7. IsInjective(selected')
      <2> SUFFICES ASSUME NEW i \in 1..(Len(selected) + 1), NEW j \in 1..(Len(selected) + 1),
                          selected'[i] = selected'[j], i < j
                   PROVE  FALSE
          BY <1>4, <1>6 DEF IsInjective
      <2>1. i \in 1..Len(selected)
            BY <1>4
      <2>2. CASE j = Len(selected) + 1
            <3>1. selected[i] = m
                  BY <1>6, <2>1, <2>2
            <3> QED BY <1>5, <1>6, <2>1, <3>1 DEF Range
      <2>3. CASE j # Len(selected) + 1
            <3>1. j \in 1..Len(selected) /\ selected[i] = selected[j] /\ i # j
                  BY <1>4, <1>6, <2>1, <2>3
            <3> QED BY <1>2, <1>6, <2>1, <3>1 DEF Kept, IsInjective
      <2> QED BY <2>2, <2>3
<1>8. Range(selected') = Range(selected) \union {m}
      <2>1. 1..(Len(selected) + 1) = 1..Len(selected) \union {Len(selected) + 1}
            BY <1>4
      <2> QED BY <1>6, <2>1 DEF Range
<1>9. Kept'
      <2>1. Len(selected') <= Limit(command)
            BY <1>4, <1>6
      <2> QED BY <1>3, <1>5, <1>6, <1>7, <1>8, <2>1 DEF Kept
<1>10. Sifted'
       BY <1>1, <1>2, <1>3, <1>4 DEF Sifted
<1> QED BY <1>1, <1>2, <1>3, <1>9, <1>10, LoopStep

\* No node behind the last parent has a child.
LEMMA StartKeeps == ASSUME WindowInv, StartHeapify PROVE WindowInv'
<1>1. /\ pc = "scan" /\ Full /\ ~heapified /\ pc' = "sift"
      /\ root' = LastParent(Len(selected)) /\ index' = root'
      /\ UNCHANGED <<inputs, ordinal, selected, heapified, merged, contextIndex, eligibleIndex>>
      BY DEF StartHeapify, merging
<1>2. ScanTypeOK /\ Kept /\ Sifted
      BY <1>1 DEF WindowInv
<1>3. /\ UNCHANGED <<all, command, checkpoint, ordinal, selected, heapified>>
      /\ UNCHANGED <<Limit(command), SoFar>>
      /\ \A x, y : BoundaryPrecedes(x, y)' <=> BoundaryPrecedes(x, y)
      BY <1>1, InputsStay DEF SoFar, Visited
<1>4. ScanTypeOK' /\ Kept'
      BY <1>1, <1>2, <1>3 DEF ScanTypeOK, Kept
<1>5. /\ Len(selected) = Limit(command) /\ Len(selected) \in Nat
      /\ DOMAIN selected = 1..Len(selected)
      BY <1>1, <1>2, HistoryType DEF Kept, Full
<1>6. /\ root' \in Nat /\ 2 * root' <= Len(selected) /\ Len(selected) <= 2 * root' + 1
      BY <1>1, <1>5 DEF LastParent
<1>7. HeapBut(selected, root', index')
      <2>1. \A p, c \in 1..Len(selected) : p >= root' /\ p # root' => c # 2 * p /\ c # 2 * p + 1
            BY <1>5, <1>6
      <2>2. \A p \in 1..Len(selected) : p >= root' => root' # 2 * p /\ root' # 2 * p + 1
            BY <1>5, <1>6
      <2> QED BY <1>1, <1>5, <2>1, <2>2 DEF HeapBut
<1>8. HeapBut(selected, root, index)'
      BY <1>3, <1>7 DEF HeapBut
<1>9. root' > 0 => index' \in DOMAIN selected /\ index' >= root'
      BY <1>1, <1>5, <1>6
<1>10. Sifted'
       BY <1>1, <1>3, <1>5, <1>6, <1>8, <1>9 DEF Sifted
<1> QED BY <1>1, <1>4, <1>10, LoopStep

\* The root gives way to a message that precedes it.
LEMMA ReplaceKeeps == ASSUME WindowInv, ReplaceBoundary PROVE WindowInv'
<1> DEFINE m == Message
           n == Len(selected)
<1>1. /\ Visit /\ Passes(m) /\ Full /\ heapified
      /\ BoundaryPrecedes(selected[1], m)
      /\ selected' = [selected EXCEPT ![1] = m]
      /\ root' = 1 /\ index' = 1 /\ pc' = "sift"
      BY DEF ReplaceBoundary, ShouldReplaceBoundary
<1>2. ScanTypeOK /\ pc = "scan" /\ Kept /\ Sifted
      BY <1>1 DEF WindowInv, Visit
<1>3. /\ SoFar' = SoFar \union {m} /\ m \in Messages /\ m \notin Visited
      /\ ScanTypeOK' /\ UNCHANGED <<heapified, merged, contextIndex, eligibleIndex>>
      /\ UNCHANGED Limit(command)
      /\ \A x, y : BoundaryPrecedes(x, y)' <=> BoundaryPrecedes(x, y)
      BY <1>1, <1>2, VisitOne, InputsStay
<1>4. /\ selected \in Seq(Messages) /\ n \in Nat \ {0} /\ n = Limit(command)
      /\ DOMAIN selected = 1..n /\ 1 \in 1..n
      BY <1>1, <1>2, HistoryType DEF Kept, Full
<1>5. SoFar \in SUBSET Messages /\ m \notin SoFar
      BY <1>2, <1>3, HistoryType
<1>6. \A i \in 1..n : ~BoundaryPrecedes(selected[i], selected[1])
      BY <1>1, <1>2, <1>4, RootIsBoundary DEF Sifted
<1> HIDE DEF m, n
<1>7. /\ selected' \in Seq(Messages) /\ Len(selected') = n /\ DOMAIN selected' = 1..n
      /\ selected'[1] = m
      /\ \A i \in 1..n : i # 1 => selected'[i] = selected[i]
      BY <1>1, <1>3, <1>4 DEF n
<1>8. \A i \in 1..n : selected[i] \in SoFar /\ selected[i] \in Messages /\ selected[i] # m
      BY <1>2, <1>4, <1>5 DEF Kept, Range
<1>9. \A i, j \in 1..n : selected[i] = selected[j] => i = j
      BY <1>2, <1>4 DEF Kept, IsInjective
<1>10. IsInjective(selected')
       BY <1>7, <1>8, <1>9 DEF IsInjective
<1>11. Range(selected') = (Range(selected) \ {selected[1]}) \union {m}
       BY <1>4, <1>7, <1>9 DEF Range
<1>12. ASSUME NEW x \in SoFar' \ Range(selected'), NEW y \in Range(selected')
       PROVE  BoundaryPrecedes(x, y)
       <2>1. selected[1] \in Messages /\ selected[1] \in Range(selected)
             BY <1>4, <1>8 DEF Range
       <2>2. x \in SoFar /\ (x = selected[1] \/ x \notin Range(selected)) /\ x \in Messages
             BY <1>3, <1>5, <1>11
       <2>3. y = m \/ (y \in Range(selected) /\ y # selected[1] /\ y \in Messages)
             BY <1>2, <1>5, <1>11 DEF Kept
       <2>4. x # selected[1] => BoundaryPrecedes(x, selected[1])
             BY <1>2, <2>1, <2>2 DEF Kept
       <2>5. y # m => BoundaryPrecedes(selected[1], y)
             <3> SUFFICES ASSUME y # m PROVE BoundaryPrecedes(selected[1], y)
                 OBVIOUS
             <3>1. ~BoundaryPrecedes(y, selected[1])
                   BY <1>4, <1>6, <2>3 DEF Range
             <3> QED BY <2>1, <2>3, <3>1, BoundaryOrder
       <2> QED BY <1>1, <1>3, <2>1, <2>2, <2>3, <2>4, <2>5, BoundaryOrder
<1>13. Kept'
       <2>1. Range(selected') \subseteq SoFar'
             BY <1>2, <1>3, <1>11 DEF Kept
       <2>2. Len(selected') <= Limit(command) /\ ~(Len(selected') < Limit(command))
             BY <1>4, <1>7
       <2> QED BY <1>3, <1>7, <1>10, <1>12, <2>1, <2>2 DEF Kept
<1>14. HeapBut(selected', 1, 1)
       <2>1. HeapBut(selected, 1, 0)
             BY <1>1, <1>2 DEF Sifted
       <2>2. ASSUME NEW p \in 1..n, NEW c \in 1..n, p # 1, c \in {2 * p, 2 * p + 1}
             PROVE  ~BoundaryPrecedes(selected'[c], selected'[p])
             <3>1. c # 1 /\ p >= 1 /\ p # 0
                   BY <1>4, <2>2
             <3> QED BY <1>4, <1>7, <2>1, <2>2, <3>1 DEF HeapBut
       <2>3. \A p \in 1..n : 1 # 2 * p /\ 1 # 2 * p + 1
             BY <1>4
       <2> QED BY <1>7, <2>2, <2>3 DEF HeapBut
<1>15. HeapBut(selected, root, index)'
       BY <1>1, <1>3, <1>14 DEF HeapBut
<1>16. Sifted'
       BY <1>1, <1>3, <1>4, <1>7, <1>15 DEF Sifted
<1> QED BY <1>1, <1>2, <1>3, <1>13, <1>16, LoopStep

\* What does not precede the root goes behind everything that is kept.
LEMMA DropKeeps == ASSUME WindowInv, DropMessage PROVE WindowInv'
<1> DEFINE m == Message
           n == Len(selected)
<1>1. /\ Visit /\ Passes(m) /\ Full /\ heapified
      /\ ~BoundaryPrecedes(selected[1], m)
      /\ UNCHANGED <<pc, selected, root, index>>
      BY DEF DropMessage, ShouldReplaceBoundary
<1>2. ScanTypeOK /\ pc = "scan" /\ Kept /\ Sifted
      BY <1>1 DEF WindowInv, Visit
<1>3. /\ SoFar' = SoFar \union {m} /\ m \in Messages /\ m \notin Visited
      /\ ScanTypeOK' /\ UNCHANGED <<heapified, merged, contextIndex, eligibleIndex>>
      /\ UNCHANGED Limit(command)
      /\ \A x, y : BoundaryPrecedes(x, y)' <=> BoundaryPrecedes(x, y)
      BY <1>1, <1>2, VisitOne, InputsStay
<1>4. /\ selected \in Seq(Messages) /\ n \in Nat \ {0} /\ n = Limit(command)
      /\ DOMAIN selected = 1..n /\ 1 \in 1..n
      BY <1>1, <1>2, HistoryType DEF Kept, Full
<1>5. SoFar \in SUBSET Messages /\ m \notin SoFar
      BY <1>2, <1>3, HistoryType
<1>6. \A i \in 1..n : ~BoundaryPrecedes(selected[i], selected[1])
      BY <1>1, <1>2, <1>4, RootIsBoundary DEF Sifted
<1> HIDE DEF m, n
<1>7. \A i \in 1..n : selected[i] \in SoFar /\ selected[i] \in Messages /\ selected[i] # m
      BY <1>2, <1>4, <1>5 DEF Kept, Range
<1>8. \A y \in Range(selected) : BoundaryPrecedes(m, y)
      <2>1. BoundaryPrecedes(m, selected[1])
            BY <1>1, <1>3, <1>4, <1>7, BoundaryOrder
      <2> QED BY <1>3, <1>4, <1>6, <1>7, <2>1, BoundaryOrder DEF Range
<1>9. Kept'
      <2>1. ~(Len(selected) < Limit(command))
            BY <1>4 DEF n
      <2> QED BY <1>1, <1>2, <1>3, <1>8, <2>1 DEF Kept
<1>10. Sifted'
       BY <1>1, <1>2, <1>3 DEF Sifted, HeapBut
<1> QED BY <1>1, <1>2, <1>3, <1>9, <1>10, LoopStep

\* While the heap is made, what is in it stays, as a whole.
LEMMA SiftStep ==
    ASSUME WindowInv, pc = "sift", pc' \in {"scan", "sift"},
           UNCHANGED <<inputs, ordinal, merging>>, heapified' \in BOOLEAN,
           selected' \in Seq(Messages), Len(selected') = Len(selected),
           IsInjective(selected'), Range(selected') = Range(selected), Sifted'
    PROVE  WindowInv'
<1>1. ScanTypeOK /\ Kept
      BY DEF WindowInv
<1>2. /\ UNCHANGED <<all, command, checkpoint, ordinal>>
      /\ UNCHANGED <<Limit(command), SoFar, merged, contextIndex, eligibleIndex>>
      /\ \A x, y : BoundaryPrecedes(x, y)' <=> BoundaryPrecedes(x, y)
      BY InputsStay DEF SoFar, Visited, inputs, merging
<1>3. ScanTypeOK' /\ Kept'
      BY <1>1, <1>2 DEF ScanTypeOK, Kept
<1> QED BY <1>2, <1>3, LoopStep

\* No child is to be thrown away before the boundary child.
LEMMA BoundaryChildFirst ==
    ASSUME selected \in Seq(Messages), index \in Nat, 2 * index \in DOMAIN selected
    PROVE  /\ BoundaryChild \in DOMAIN selected /\ BoundaryChild \in {2 * index, 2 * index + 1}
           /\ BoundaryChild # index
           /\ \A c \in DOMAIN selected :
                c \in {2 * index, 2 * index + 1} =>
                  ~BoundaryPrecedes(selected[c], selected[BoundaryChild])
<1> DEFINE b == BoundaryChild
<1>1. DOMAIN selected = 1..Len(selected) /\ Len(selected) \in Nat /\ index >= 1
      OBVIOUS
<1>2. \A c \in DOMAIN selected : selected[c] \in Messages
      OBVIOUS
<1>3. CASE /\ 2 * index + 1 \in DOMAIN selected
           /\ BoundaryPrecedes(selected[2 * index + 1], selected[2 * index])
      <2>1. b = 2 * index + 1
            BY <1>3 DEF BoundaryChild
      <2>2. ~BoundaryPrecedes(selected[2 * index], selected[2 * index + 1])
            /\ ~BoundaryPrecedes(selected[2 * index + 1], selected[2 * index + 1])
            BY <1>2, <1>3, BoundaryOrder
      <2>3. b # index
            BY <1>1, <2>1
      <2> QED BY <1>3, <2>1, <2>2, <2>3
<1>4. CASE ~(/\ 2 * index + 1 \in DOMAIN selected
             /\ BoundaryPrecedes(selected[2 * index + 1], selected[2 * index]))
      <2>1. b = 2 * index
            BY <1>4 DEF BoundaryChild
      <2>2. ~BoundaryPrecedes(selected[2 * index], selected[2 * index])
            BY <1>2, BoundaryOrder
      <2>3. b # index
            BY <1>1, <2>1
      <2> QED BY <1>4, <2>1, <2>2, <2>3
<1> QED BY <1>3, <1>4

\* A message sinks below the child that is to be thrown away before it.
LEMMA SinkKeeps == ASSUME WindowInv, Sink PROVE WindowInv'
<1> DEFINE b == BoundaryChild
           n == Len(selected)
<1>1. /\ pc = "sift" /\ root >= 1 /\ 2 * index \in DOMAIN selected
      /\ BoundaryPrecedes(selected[b], selected[index])
      /\ selected' = [selected EXCEPT ![index] = selected[b], ![b] = selected[index]]
      /\ index' = b
      /\ UNCHANGED <<inputs, pc, ordinal, heapified, root, merging>>
      BY DEF Sink, Sinks
<1>2. ScanTypeOK /\ Kept /\ Sifted
      BY <1>1 DEF WindowInv
<1>3. /\ selected \in Seq(Messages) /\ n \in Nat /\ DOMAIN selected = 1..n
      /\ n = Limit(command)
      /\ root \in Nat /\ index \in Nat /\ index \in 1..n /\ index >= root
      /\ HeapBut(selected, root, index)
      BY <1>1, <1>2 DEF Kept, Sifted
<1>4. /\ b \in 1..n /\ b \in {2 * index, 2 * index + 1} /\ b # index
      /\ \A c \in 1..n : c \in {2 * index, 2 * index + 1} => ~BoundaryPrecedes(selected[c], selected[b])
      BY <1>1, <1>3, BoundaryChildFirst
<1> HIDE DEF b, n
<1>5. /\ selected' \in Seq(Messages) /\ Len(selected') = n /\ DOMAIN selected' = 1..n
      /\ selected'[index] = selected[b] /\ selected'[b] = selected[index]
      /\ \A i \in 1..n : i # index /\ i # b => selected'[i] = selected[i]
      <2>1. selected[b] \in Messages /\ selected[index] \in Messages
            BY <1>3, <1>4
      <2> QED BY <1>1, <1>3, <1>4, <2>1 DEF n
<1>6. IsInjective(selected')
      <2>1. \A i, j \in 1..n : selected[i] = selected[j] => i = j
            BY <1>2, <1>3 DEF Kept, IsInjective
      <2> QED BY <1>3, <1>4, <1>5, <2>1 DEF IsInjective
<1>7. Range(selected') = Range(selected)
      BY <1>3, <1>4, <1>5 DEF Range
<1>8. ASSUME NEW p \in 1..n, NEW c \in 1..n, p >= root, p # b, c \in {2 * p, 2 * p + 1}
      PROVE  ~BoundaryPrecedes(selected'[c], selected'[p])
      <2>1. c # p
            BY <1>3, <1>8
      <2>2. CASE p = index
            <3>1. CASE c = b
                  <4>1. selected[b] \in Messages /\ selected[index] \in Messages
                        BY <1>3, <1>4
                  <4> QED BY <1>1, <1>5, <2>2, <3>1, <4>1, BoundaryOrder
            <3>2. CASE c # b
                  BY <1>4, <1>5, <1>8, <2>1, <2>2, <3>2
            <3> QED BY <3>1, <3>2
      <2>3. CASE p # index
            <3>1. c # b
                  BY <1>3, <1>4, <1>8, <2>3
            <3>2. selected'[p] = selected[p]
                  BY <1>5, <1>8, <2>3
            <3>3. CASE c = index
                  BY <1>3, <1>4, <1>5, <1>8, <3>2, <3>3 DEF HeapBut
            <3>4. CASE c # index
                  BY <1>3, <1>5, <1>8, <2>3, <3>1, <3>2, <3>4 DEF HeapBut
            <3> QED BY <3>3, <3>4
      <2> QED BY <2>2, <2>3
<1>9. ASSUME NEW p \in 1..n, NEW c \in 1..n, p >= root,
             b \in {2 * p, 2 * p + 1}, c \in {2 * b, 2 * b + 1}
      PROVE  ~BoundaryPrecedes(selected'[c], selected'[p])
      <2>1. p = index
            BY <1>3, <1>4, <1>9
      <2>2. c # b /\ c # index /\ b >= root
            BY <1>3, <1>4, <1>9
      <2>3. selected'[c] = selected[c] /\ selected'[p] = selected[b]
            BY <1>5, <2>1, <2>2
      <2> QED BY <1>3, <1>4, <1>9, <2>2, <2>3 DEF HeapBut
<1>10. HeapBut(selected', root, b)
       BY <1>5, <1>8, <1>9 DEF HeapBut
<1>11. HeapBut(selected, root, index)'
       <2>1. \A x, y : BoundaryPrecedes(x, y)' <=> BoundaryPrecedes(x, y)
             BY <1>1, InputsStay
       <2> QED BY <1>1, <1>10, <2>1 DEF HeapBut
<1>12. Sifted'
       <2>1. UNCHANGED Limit(command)
             BY <1>1, InputsStay
       <2>2. b \in Nat /\ b >= root /\ b \in DOMAIN selected'
             BY <1>3, <1>4, <1>5
       <2>3. root # 0 /\ root \in Nat
             BY <1>1, <1>3
       <2> QED BY <1>1, <1>2, <1>3, <1>5, <1>11, <2>1, <2>2, <2>3 DEF Sifted
<1>13. heapified' \in BOOLEAN /\ Len(selected') = Len(selected)
       BY <1>1, <1>2, <1>5 DEF ScanTypeOK, n
<1> QED BY <1>1, <1>5, <1>6, <1>7, <1>12, <1>13, SiftStep

\* Where nothing sinks any more there is a heap, and the node before is next.
LEMMA SettleKeeps == ASSUME WindowInv, Settle PROVE WindowInv'
<1> DEFINE b == BoundaryChild
           n == Len(selected)
<1>1. /\ pc = "sift" /\ root >= 1
      /\ ~(2 * index \in DOMAIN selected /\ BoundaryPrecedes(selected[b], selected[index]))
      /\ root' = root - 1 /\ index' = root - 1
      /\ UNCHANGED <<inputs, pc, ordinal, selected, heapified, merging>>
      BY DEF Settle, Sinks
<1>2. ScanTypeOK /\ Kept /\ Sifted
      BY <1>1 DEF WindowInv
<1>3. /\ selected \in Seq(Messages) /\ n \in Nat /\ DOMAIN selected = 1..n
      /\ n = Limit(command)
      /\ root \in Nat /\ index \in Nat /\ index \in 1..n /\ index >= root
      /\ HeapBut(selected, root, index)
      BY <1>1, <1>2 DEF Kept, Sifted
<1>4. 2 * index \in DOMAIN selected =>
        /\ b \in 1..n
        /\ \A c \in 1..n : c \in {2 * index, 2 * index + 1} => ~BoundaryPrecedes(selected[c], selected[b])
      BY <1>3, BoundaryChildFirst
<1>5. \A c \in 1..n : selected[c] \in Messages
      BY <1>3
<1> HIDE DEF b, n
<1>6. ASSUME NEW c \in 1..n, c \in {2 * index, 2 * index + 1}
      PROVE  ~BoundaryPrecedes(selected[c], selected[index])
      <2>1. 2 * index \in 1..n
            BY <1>3, <1>6
      <2>2. ~BoundaryPrecedes(selected[b], selected[index]) /\ ~BoundaryPrecedes(selected[c], selected[b])
            /\ b \in 1..n
            BY <1>1, <1>3, <1>4, <1>6, <2>1
      <2> QED BY <1>3, <1>5, <2>2, BoundaryOrder
<1>7. ASSUME NEW p \in 1..n, NEW c \in 1..n, p >= root - 1, p # root - 1, c \in {2 * p, 2 * p + 1}
      PROVE  ~BoundaryPrecedes(selected[c], selected[p])
      <2>1. p >= root
            BY <1>3, <1>7
      <2> QED BY <1>3, <1>6, <1>7, <2>1 DEF HeapBut
<1>8. \A p \in 1..n : p >= root - 1 => root - 1 # 2 * p /\ root - 1 # 2 * p + 1
      BY <1>3
<1>9. HeapBut(selected, root - 1, root - 1)
      BY <1>3, <1>7, <1>8 DEF HeapBut
<1>10. HeapBut(selected, root, index)'
       <2>1. \A x, y : BoundaryPrecedes(x, y)' <=> BoundaryPrecedes(x, y)
             BY <1>1, InputsStay
       <2> QED BY <1>1, <1>9, <2>1 DEF HeapBut
<1>11. Sifted'
       <2>1. UNCHANGED Limit(command)
             BY <1>1, InputsStay
       <2>2. /\ root' \in Nat /\ index' \in Nat /\ index' = root'
             /\ root' > 0 => index' \in DOMAIN selected
             BY <1>1, <1>3
       <2> QED BY <1>1, <1>2, <1>3, <1>10, <2>1, <2>2 DEF Sifted, n
<1> QED BY <1>1, <1>2, <1>3, <1>11, SiftStep DEF ScanTypeOK, Kept

\* When the root is sifted too, all nodes are a heap.
LEMMA SiftDoneKeeps == ASSUME WindowInv, SiftDone PROVE WindowInv'
<1>1. /\ pc = "sift" /\ root < 1 /\ pc' = "scan" /\ heapified' = TRUE
      /\ UNCHANGED <<inputs, ordinal, selected, root, index, merging>>
      BY DEF SiftDone
<1>2. ScanTypeOK /\ Kept /\ Sifted
      BY <1>1 DEF WindowInv
<1>3. root = 0 /\ index = 0 /\ HeapBut(selected, 0, 0) /\ Len(selected) = Limit(command)
      BY <1>1, <1>2 DEF Sifted
<1>4. HeapBut(selected, 1, 0)
      <2>1. DOMAIN selected = 1..Len(selected)
            BY <1>2 DEF Kept
      <2>2. \A p \in 1..Len(selected) : p >= 0
            BY <1>2 DEF Kept
      <2> QED BY <1>3, <2>1, <2>2 DEF HeapBut
<1>5. HeapBut(selected, 1, 0)'
      <2>1. \A x, y : BoundaryPrecedes(x, y)' <=> BoundaryPrecedes(x, y)
            BY <1>1, InputsStay
      <2> QED BY <1>1, <1>4, <2>1 DEF HeapBut
<1>6. Sifted'
      <2>1. UNCHANGED Limit(command)
            BY <1>1, InputsStay
      <2> QED BY <1>1, <1>3, <1>5, <2>1 DEF Sifted
<1> QED BY <1>1, <1>2, <1>6, SiftStep DEF Kept

\* The parts of a window are finite sets of messages, which have no common one.
LEMMA ChosenType ==
    ASSUME ScanTypeOK
    PROVE  /\ Chosen \in SUBSET Messages /\ IsFiniteSet(Chosen)
           /\ Context(Range(all), Chosen) \in SUBSET Messages
           /\ IsFiniteSet(Context(Range(all), Chosen))
           /\ Context(Range(all), Chosen) \intersect Chosen = {}
<1>1. Chosen \in SUBSET Range(all)
      BY DEF Chosen, Eligible, EarliestOf, LatestOf, Candidates
<1>2. Context(Range(all), Chosen) \in SUBSET (Range(all) \ Chosen)
      BY DEF Context
<1>3. Range(all) \in SUBSET Messages /\ IsFiniteSet(Range(all))
      BY HistoryType
<1>4. IsFiniteSet(Chosen) /\ IsFiniteSet(Context(Range(all), Chosen))
      BY <1>1, <1>2, <1>3, FS_Subset
<1> QED BY <1>1, <1>2, <1>3, <1>4

\* After the loop the array holds what is eligible, sorted.
LEMMA SortKeeps == ASSUME WindowInv, SortSelected PROVE WindowInv'
<1>1. /\ pc = "scan" /\ ordinal = Len(all)
      /\ selected' = Chronological(Range(selected))
      /\ pc' = IF selected = <<>> THEN "done" ELSE "parents"
      /\ UNCHANGED <<inputs, ordinal, heapified, merged, contextIndex, eligibleIndex>>
      BY DEF SortSelected, heap, merging
<1>2. ScanTypeOK /\ Kept /\ merged = <<>> /\ contextIndex = 0 /\ eligibleIndex = 0
      BY <1>1 DEF WindowInv
<1>3. Range(selected) = Chosen
      BY <1>1, <1>2, KeptIsEligible, HistoryType DEF Chosen
<1>4. selected = <<>> <=> Chosen = {}
      <2>1. selected = <<>> => Range(selected) = {}
            BY DEF Range
      <2>2. selected # <<>> => 1 \in DOMAIN selected
            BY <1>2 DEF Kept
      <2> QED BY <1>3, <2>1, <2>2 DEF Range
<1>5. UNCHANGED <<Chosen, all, command, checkpoint>>
      BY <1>1, InputsStay
<1>6. \A S : Chronological(S)' = Chronological(S)
      BY DEF Chronological
<1>7. selected' = Chronological(Chosen)'
      BY <1>1, <1>3, <1>5, <1>6
<1>8. ScanTypeOK'
      BY <1>1, <1>2, <1>5 DEF ScanTypeOK
<1> QED BY <1>1, <1>2, <1>4, <1>5, <1>7, <1>8 DEF WindowInv

\* The second pass finds the reply parents that SummaryWindow defines.
LEMMA ParentsAreContext ==
    ASSUME ScanTypeOK, Range(selected) = Chosen
    PROVE  /\ Range(all) \intersect NeededParentIds = Context(Range(all), Chosen)
           /\ \A m \in Chosen : m \notin NeededParentIds
<1>1. Range(all) \in SUBSET Messages /\ Null \notin Messages
      BY HistoryType, WindowAssumption
<1> QED BY <1>1 DEF NeededParentIds, Context

\* The reply parents are the context, and nothing is merged yet.
LEMMA ContextKeeps == ASSUME WindowInv, SelectContext PROVE WindowInv'
<1>1. /\ pc = "parents" /\ pc' = "merge"
      /\ context' = Chronological(Range(all) \intersect NeededParentIds)
      /\ UNCHANGED <<inputs, ordinal, selected, heapified, merged, contextIndex, eligibleIndex>>
      BY DEF SelectContext, heap, merging
<1>2. /\ ScanTypeOK /\ merged = <<>> /\ contextIndex = 0 /\ eligibleIndex = 0
      /\ selected = Chronological(Chosen) /\ Chosen # {}
      BY <1>1 DEF WindowInv
<1>3. UNCHANGED <<Chosen, all, command, checkpoint, Range(all)>>
      BY <1>1, InputsStay
<1> DEFINE C == Context(Range(all), Chosen)
<1>4. Range(selected) = Chosen
      BY <1>2, ChosenType, ChronologicalSorts
<1>5. context' = Chronological(C)
      BY <1>1, <1>2, <1>4, ParentsAreContext
<1>6. context' \in Seq(Messages) /\ selected \in Seq(Messages)
      <2>1. context' \in Seq(C) /\ selected \in Seq(Chosen)
            BY <1>2, <1>5, ChosenType, ChronologicalSorts
      <2> QED BY <1>2, <2>1, ChosenType
<1>7. Merging'
      <2>1. Len(context') \in Nat /\ Len(selected') \in Nat
            BY <1>1, <1>6
      <2>2. /\ contextIndex' = 0 /\ eligibleIndex' = 0 /\ merged' = <<>>
            BY <1>1, <1>2
      <2>3. Range(<<>>) = {} /\ DOMAIN <<>> = {} /\ <<>> \in Seq(Messages)
            BY DEF Range
      <2>4. 1..0 = {}
            OBVIOUS
      <2> QED BY <2>1, <2>2, <2>3, <2>4 DEF Merging
<1>8. \A S : Chronological(S)' = Chronological(S)
      BY DEF Chronological
<1>9. C' = C
      BY <1>3 DEF Context
<1>10. context' = Chronological(C)' /\ selected' = Chronological(Chosen)'
       BY <1>1, <1>2, <1>3, <1>5, <1>8, <1>9
<1>11. ScanTypeOK'
       BY <1>1, <1>2, <1>3 DEF ScanTypeOK
<1> QED BY <1>1, <1>2, <1>3, <1>7, <1>10, <1>11 DEF WindowInv

\* A merge goes on with what lies before all that is left.
LEMMA AppendMerges ==
    ASSUME NEW old \in Seq(Messages), NEW m \in Messages,
           \A i, j \in DOMAIN old : i < j => Before(old[i], old[j]),
           \A x \in Range(old) : Before(x, m)
    PROVE  LET new == Append(old, m) IN
           /\ new \in Seq(Messages) /\ Range(new) = Range(old) \union {m}
           /\ \A i, j \in DOMAIN new : i < j => Before(new[i], new[j])
<1> DEFINE n == Len(old)
           new == Append(old, m)
<1>1. n \in Nat /\ DOMAIN old = 1..n
      OBVIOUS
<1>2. /\ new \in Seq(Messages) /\ DOMAIN new = 1..(n + 1)
      /\ \A i \in 1..n : new[i] = old[i]
      /\ new[n + 1] = m
      OBVIOUS
<1> HIDE DEF n, new
<1>3. 1..(n + 1) = 1..n \union {n + 1}
      BY <1>1
<1>4. Range(new) = Range(old) \union {m}
      BY <1>1, <1>2, <1>3 DEF Range
<1>5. ASSUME NEW i \in 1..(n + 1), NEW j \in 1..(n + 1), i < j
      PROVE  Before(new[i], new[j])
      <2>1. i \in 1..n
            BY <1>1, <1>5
      <2>2. CASE j \in 1..n
            BY <1>1, <1>2, <1>5, <2>1, <2>2
      <2>3. CASE j = n + 1
            BY <1>1, <1>2, <2>1, <2>3 DEF Range
      <2> QED BY <1>3, <2>2, <2>3
<1> QED BY <1>2, <1>4, <1>5 DEF new

\* The two arrays, and that all they hold differs.
LEMMA PartsSorted ==
    ASSUME ScanTypeOK, selected = Chronological(Chosen),
           context = Chronological(Context(Range(all), Chosen))
    PROVE  /\ context \in Seq(Messages) /\ selected \in Seq(Messages)
           /\ Range(context) = Context(Range(all), Chosen) /\ Range(selected) = Chosen
           /\ \A i, j \in 1..Len(context) : i < j => Before(context[i], context[j])
           /\ \A i, j \in 1..Len(selected) : i < j => Before(selected[i], selected[j])
           /\ \A i \in 1..Len(context), j \in 1..Len(selected) : context[i] # selected[j]
<1> DEFINE C == Context(Range(all), Chosen)
<1>1. /\ C \in SUBSET Messages /\ IsFiniteSet(C)
      /\ Chosen \in SUBSET Messages /\ IsFiniteSet(Chosen)
      /\ C \intersect Chosen = {}
      BY ChosenType
<1> HIDE DEF C
<1>2. /\ context \in Seq(C) /\ Range(context) = C
      /\ \A i, j \in DOMAIN context : i < j => Before(context[i], context[j])
      BY <1>1, ChronologicalSorts DEF C
<1>3. /\ selected \in Seq(Chosen) /\ Range(selected) = Chosen
      /\ \A i, j \in DOMAIN selected : i < j => Before(selected[i], selected[j])
      BY <1>1, ChronologicalSorts
<1>4. DOMAIN context = 1..Len(context) /\ DOMAIN selected = 1..Len(selected)
      BY <1>2, <1>3
<1>5. context \in Seq(Messages) /\ selected \in Seq(Messages)
      BY <1>1, <1>2, <1>3
<1>6. \A i \in 1..Len(context), j \in 1..Len(selected) : context[i] # selected[j]
      BY <1>1, <1>2, <1>3, <1>4 DEF Range
<1> QED BY <1>2, <1>3, <1>4, <1>5, <1>6 DEF C

\* What was sorted stays while it is merged.
LEMMA MergeStep ==
    ASSUME WindowInv, pc = "merge", pc' \in {"merge", "done"},
           UNCHANGED <<inputs, ordinal, selected, heapified, context>>, Merging',
           pc' = "done" => contextIndex' = Len(context') /\ eligibleIndex' = Len(selected')
    PROVE  WindowInv'
<1> DEFINE C == Context(Range(all), Chosen)
<1>1. /\ ScanTypeOK /\ Chosen # {}
      /\ selected = Chronological(Chosen) /\ context = Chronological(C)
      BY DEF WindowInv
<1>2. UNCHANGED <<Chosen, all, command, checkpoint, Range(all)>>
      BY InputsStay
<1>3. C' = C
      BY <1>2 DEF Context
<1>4. \A S : Chronological(S)' = Chronological(S)
      BY DEF Chronological
<1>5. selected' = Chronological(Chosen)' /\ context' = Chronological(C)'
      BY <1>1, <1>2, <1>3, <1>4
<1>6. ScanTypeOK'
      BY <1>1, <1>2 DEF ScanTypeOK
<1> QED BY <1>1, <1>2, <1>5, <1>6 DEF WindowInv

\* The earlier of the two next messages lies behind all that is merged and
\* before all that is left.
LEMMA MergeOneKeeps == ASSUME WindowInv, MergeOne PROVE WindowInv'
<1>1. /\ pc = "merge"
      /\ contextIndex < Len(context) \/ eligibleIndex < Len(selected)
      /\ UNCHANGED <<inputs, pc, ordinal, selected, heapified, context>>
      BY DEF MergeOne, heap
<1>2. /\ ScanTypeOK /\ Merging /\ Chosen # {}
      /\ selected = Chronological(Chosen)
      /\ context = Chronological(Context(Range(all), Chosen))
      BY <1>1 DEF WindowInv
<1> DEFINE p == Len(context)
           q == Len(selected)
<1>3. /\ context \in Seq(Messages) /\ selected \in Seq(Messages)
      /\ p \in Nat /\ q \in Nat
      /\ \A i \in 1..p : context[i] \in Messages
      /\ \A j \in 1..q : selected[j] \in Messages
      /\ \A i, j \in 1..p : i < j => Before(context[i], context[j])
      /\ \A i, j \in 1..q : i < j => Before(selected[i], selected[j])
      /\ \A i \in 1..p, j \in 1..q : context[i] # selected[j]
      BY <1>2, PartsSorted
<1>4. /\ contextIndex \in 0..p /\ eligibleIndex \in 0..q
      /\ merged \in Seq(Messages)
      /\ Range(merged) = {context[i] : i \in 1..contextIndex} \union {selected[i] : i \in 1..eligibleIndex}
      /\ \A i, j \in DOMAIN merged : i < j => Before(merged[i], merged[j])
      /\ \A m \in Range(merged) :
           /\ \A k \in (contextIndex + 1)..p : Before(m, context[k])
           /\ \A k \in (eligibleIndex + 1)..q : Before(m, selected[k])
      BY <1>2 DEF Merging
<1> HIDE DEF p, q
<1>5. ASSUME ContextIsNext PROVE Merging'
      <2> DEFINE i == contextIndex + 1
                 m == context[i]
      <2>1. /\ merged' = Append(merged, m) /\ contextIndex' = i /\ eligibleIndex' = eligibleIndex
            BY <1>5 DEF MergeOne
      <2>2. /\ i \in 1..p /\ m \in Messages
            /\ 1..i = 1..contextIndex \union {i} /\ i \in (contextIndex + 1)..p
            BY <1>3, <1>4, <1>5 DEF ContextIsNext, p
      <2>3. \A k \in (i + 1)..p : k \in 1..p /\ i < k /\ k \in (contextIndex + 1)..p
            BY <1>3, <1>4
      <2>4. \A k \in (i + 1)..p : Before(m, context[k])
            BY <1>3, <2>2, <2>3
      <2>5. ASSUME NEW k \in (eligibleIndex + 1)..q PROVE Before(m, selected[k])
            <3>1. eligibleIndex + 1 \in 1..q /\ k \in 1..q /\ eligibleIndex < q
                  /\ (k = eligibleIndex + 1 \/ eligibleIndex + 1 < k)
                  BY <1>3, <1>4
            <3>2. ~Before(selected[eligibleIndex + 1], m)
                  BY <1>5, <3>1 DEF ContextIsNext, q
            <3>3. /\ m # selected[eligibleIndex + 1]
                  /\ selected[eligibleIndex + 1] \in Messages /\ selected[k] \in Messages
                  BY <1>3, <2>2, <3>1
            <3>4. Before(m, selected[eligibleIndex + 1])
                  BY <2>2, <3>2, <3>3, BeforeOrder
            <3>5. k = eligibleIndex + 1 \/ Before(selected[eligibleIndex + 1], selected[k])
                  BY <1>3, <3>1
            <3> QED BY <2>2, <3>3, <3>4, <3>5, BeforeOrder
      <2>6. \A x \in Range(merged) : Before(x, m)
            BY <1>4, <2>2
      <2> HIDE DEF m
      <2>7. /\ merged' \in Seq(Messages) /\ Range(merged') = Range(merged) \union {m}
            /\ \A a, c \in DOMAIN merged' : a < c => Before(merged'[a], merged'[c])
            BY <1>4, <2>1, <2>2, <2>6, AppendMerges
      <2>8. Range(merged') = {context[k] : k \in 1..i} \union {selected[k] : k \in 1..eligibleIndex}
            BY <1>4, <2>2, <2>7 DEF m
      <2>9. i \in 0..p
            BY <2>2
      <2>10. \A x \in Range(merged') : /\ \A k \in (i + 1)..p : Before(x, context[k])
                                       /\ \A k \in (eligibleIndex + 1)..q : Before(x, selected[k])
             BY <1>4, <2>3, <2>4, <2>5, <2>7
      <2> HIDE DEF i
      <2> QED BY <1>1, <1>4, <2>1, <2>7, <2>8, <2>9, <2>10 DEF Merging, p, q
<1>6. ASSUME ~ContextIsNext PROVE Merging'
      <2> DEFINE j == eligibleIndex + 1
                 m == selected[j]
      <2>1. /\ merged' = Append(merged, m) /\ eligibleIndex' = j /\ contextIndex' = contextIndex
            BY <1>6 DEF MergeOne
      <2>2. /\ j \in 1..q /\ m \in Messages
            /\ 1..j = 1..eligibleIndex \union {j} /\ j \in (eligibleIndex + 1)..q
            <3>1. eligibleIndex < q
                  BY <1>1, <1>3, <1>4, <1>6 DEF ContextIsNext, p, q
            <3> QED BY <1>3, <1>4, <3>1
      <2>3. \A k \in (j + 1)..q : k \in 1..q /\ j < k /\ k \in (eligibleIndex + 1)..q
            BY <1>3, <1>4
      <2>4. \A k \in (j + 1)..q : Before(m, selected[k])
            BY <1>3, <2>2, <2>3
      <2>5. ASSUME NEW k \in (contextIndex + 1)..p PROVE Before(m, context[k])
            <3>1. contextIndex + 1 \in 1..p /\ k \in 1..p /\ contextIndex < p
                  /\ (k = contextIndex + 1 \/ contextIndex + 1 < k)
                  BY <1>3, <1>4
            <3>2. Before(m, context[contextIndex + 1])
                  BY <1>6, <3>1 DEF ContextIsNext, p
            <3>3. context[contextIndex + 1] \in Messages /\ context[k] \in Messages
                  BY <1>3, <3>1
            <3>4. k = contextIndex + 1 \/ Before(context[contextIndex + 1], context[k])
                  BY <1>3, <3>1
            <3> QED BY <2>2, <3>2, <3>3, <3>4, BeforeOrder
      <2>6. \A x \in Range(merged) : Before(x, m)
            BY <1>4, <2>2
      <2> HIDE DEF m
      <2>7. /\ merged' \in Seq(Messages) /\ Range(merged') = Range(merged) \union {m}
            /\ \A a, c \in DOMAIN merged' : a < c => Before(merged'[a], merged'[c])
            BY <1>4, <2>1, <2>2, <2>6, AppendMerges
      <2>8. Range(merged') = {context[k] : k \in 1..contextIndex} \union {selected[k] : k \in 1..j}
            BY <1>4, <2>2, <2>7 DEF m
      <2>9. j \in 0..q
            BY <2>2
      <2>10. \A x \in Range(merged') : /\ \A k \in (contextIndex + 1)..p : Before(x, context[k])
                                       /\ \A k \in (j + 1)..q : Before(x, selected[k])
             BY <1>4, <2>3, <2>4, <2>5, <2>7
      <2> HIDE DEF j
      <2> QED BY <1>1, <1>4, <2>1, <2>7, <2>8, <2>9, <2>10 DEF Merging, p, q
<1>7. Merging'
      BY <1>5, <1>6
<1> QED BY <1>1, <1>2, <1>7, MergeStep

\* Where nothing is left the merge is complete.
LEMMA MergeDoneKeeps == ASSUME WindowInv, MergeDone PROVE WindowInv'
<1>1. /\ pc = "merge" /\ pc' = "done"
      /\ contextIndex = Len(context) /\ eligibleIndex = Len(selected)
      /\ UNCHANGED <<inputs, ordinal, selected, heapified, context, merged, contextIndex, eligibleIndex>>
      BY DEF MergeDone, heap, merging
<1>2. WindowInv /\ pc = "merge" => Merging
      BY DEF WindowInv
<1>3. Merging'
      BY <1>1, <1>2 DEF Merging
<1>4. contextIndex' = Len(context') /\ eligibleIndex' = Len(selected')
      BY <1>1
<1> QED BY <1>1, <1>3, <1>4, MergeStep

\* Before the loop nothing was visited and nothing is kept.
LEMMA WindowStart == ScanInit => WindowInv
<1> SUFFICES ASSUME ScanInit PROVE WindowInv
    OBVIOUS
<1>1. /\ all \in Histories /\ command \in Commands /\ checkpoint \in Checkpoints
      /\ pc = "scan" /\ ordinal = 0 /\ selected = <<>> /\ heapified = FALSE
      /\ merged = <<>> /\ contextIndex = 0 /\ eligibleIndex = 0
      BY DEF ScanInit
<1>2. ScanTypeOK
      <2>1. Len(all) \in Nat
            BY <1>1, ScanAssumption
      <2>2. ordinal \in 0..Len(all)
            BY <1>1, <2>1
      <2>3. heapified \in BOOLEAN
            BY <1>1
      <2> QED BY <1>1, <2>2, <2>3 DEF ScanTypeOK
<1>3. SoFar = {}
      <2>1. 1..0 = {}
            OBVIOUS
      <2>2. Visited = {}
            BY <1>1, <2>1 DEF Visited
      <2> QED BY <2>2, HistoryType, <1>2
<1>4. Kept
      <2>1. Limit(command) \in Nat
            BY <1>1, LimitType
      <2>2. /\ selected \in Seq(Messages) /\ Len(selected) = 0
            /\ DOMAIN selected = {} /\ Range(selected) = {}
            BY <1>1 DEF Range
      <2> QED BY <1>3, <2>1, <2>2 DEF Kept, IsInjective
<1>5. Sifted
      BY <1>1 DEF Sifted
<1> QED BY <1>1, <1>2, <1>4, <1>5 DEF WindowInv

\* Every step keeps the invariant of the window.
LEMMA WindowStep == WindowInv /\ [ScanNext]_scanVars => WindowInv'
<1> SUFFICES ASSUME WindowInv, [ScanNext]_scanVars PROVE WindowInv'
    OBVIOUS
<1>1. CASE SkipMessage
      BY <1>1, SkipKeeps
<1>2. CASE PushMessage
      BY <1>2, PushKeeps
<1>3. CASE StartHeapify
      BY <1>3, StartKeeps
<1>4. CASE ReplaceBoundary
      BY <1>4, ReplaceKeeps
<1>5. CASE DropMessage
      BY <1>5, DropKeeps
<1>6. CASE Sink
      BY <1>6, SinkKeeps
<1>7. CASE Settle
      BY <1>7, SettleKeeps
<1>8. CASE SiftDone
      BY <1>8, SiftDoneKeeps
<1>9. CASE SortSelected
      BY <1>9, SortKeeps
<1>10. CASE SelectContext
       BY <1>10, ContextKeeps
<1>11. CASE MergeOne
       BY <1>11, MergeOneKeeps
<1>12. CASE MergeDone
       BY <1>12, MergeDoneKeeps
<1>13. CASE UNCHANGED scanVars
       <2>1. /\ UNCHANGED inputs
             /\ UNCHANGED <<pc, ordinal, selected, heapified, root, index, context,
                            merged, contextIndex, eligibleIndex>>
             BY <1>13 DEF scanVars, heap, merging
       <2>2. /\ UNCHANGED <<all, command, checkpoint, Chosen, Limit(command), Range(all)>>
             /\ \A x, y : BoundaryPrecedes(x, y)' <=> BoundaryPrecedes(x, y)
             BY <2>1, InputsStay
       <2>3. UNCHANGED SoFar
             BY <2>1, <2>2 DEF SoFar, Visited
       <2>4. ScanTypeOK => ScanTypeOK'
             BY <2>1, <2>2 DEF ScanTypeOK
       <2>5. Kept => Kept'
             BY <2>1, <2>2, <2>3 DEF Kept
       <2>6. Sifted => Sifted'
             BY <2>1, <2>2 DEF Sifted, HeapBut
       <2>7. Merging => Merging'
             BY <2>1 DEF Merging
       <2>8. Chronological(Chosen)' = Chronological(Chosen)
             BY <2>2 DEF Chronological
       <2>9. Chronological(Context(Range(all), Chosen))' = Chronological(Context(Range(all), Chosen))
             BY <2>2 DEF Chronological, Context
       <2> QED BY <2>1, <2>2, <2>4, <2>5, <2>6, <2>7, <2>8, <2>9 DEF WindowInv
<1> QED BY <1>1, <1>2, <1>3, <1>4, <1>5, <1>6, <1>7, <1>8, <1>9, <1>10, <1>11, <1>12, <1>13 DEF ScanNext

\* What comes out of the merge is the window of SummaryWindow.
LEMMA MergedIsWindow == WindowInv => WindowAsDefined
<1> SUFFICES ASSUME WindowInv, pc = "done" PROVE WindowAsDefined
    BY DEF WindowAsDefined
<1> DEFINE C == Context(Range(all), Chosen)
           window == SelectSummaryWindow(Range(all), command, checkpoint)
<1>1. ScanTypeOK /\ selected = Chronological(Chosen)
      BY DEF WindowInv
<1>2. CASE Chosen = {}
      BY <1>2 DEF WindowInv, WindowAsDefined, Chosen
<1>3. CASE Chosen # {}
      <2>1. /\ context = Chronological(C) /\ Merging
            /\ contextIndex = Len(context) /\ eligibleIndex = Len(selected)
            BY <1>3 DEF WindowInv
      <2>2. /\ context \in Seq(Messages) /\ selected \in Seq(Messages)
            /\ Range(context) = C /\ Range(selected) = Chosen
            BY <1>1, <2>1, PartsSorted
      <2>3. /\ merged \in Seq(Messages) /\ Range(merged) = C \union Chosen
            /\ \A i, j \in DOMAIN merged : i < j => Before(merged[i], merged[j])
            <3>1. DOMAIN context = 1..Len(context) /\ DOMAIN selected = 1..Len(selected)
                  BY <2>2
            <3> QED BY <2>1, <2>2, <3>1 DEF Merging, Range
      <2>4. ValidWindow(merged)
            <3>1. merged # <<>>
                  <4>1. Range(<<>>) = {}
                        BY DEF Range
                  <4> QED BY <1>3, <2>3, <4>1
            <3>2. \A i \in DOMAIN merged : merged[i] \in Messages
                  BY <2>3
            <3> QED BY <2>3, <3>1, <3>2, BeforeOrder DEF ValidWindow
      <2>5. /\ \A m \in C : m \in NeededParentIds
            /\ \A m \in Chosen : m \notin NeededParentIds
            BY <1>1, <2>2, ParentsAreContext
      <2> HIDE DEF C
      <2>6. /\ DOMAIN Roles = C \union Chosen
            /\ \A m \in C : Roles[m] = "context"
            /\ \A m \in Chosen : Roles[m] = "eligible"
            BY <2>3, <2>5 DEF Roles
      <2>7. {m \in DOMAIN Roles : Roles[m] = "eligible"} = Chosen
            BY <2>6
      <2>8. {m \in DOMAIN Roles : Roles[m] = "context"} = C
            BY <2>6
      <2>9. window.eligible = Chosen /\ window.context = C
            BY <1>3 DEF SelectSummaryWindow, Chosen, C
      <2> HIDE DEF window
      <2>10. Eligible(Range(all), command, checkpoint) # {}
             BY <1>3 DEF Chosen
      <2> QED BY <2>4, <2>7, <2>8, <2>9, <2>10 DEF WindowAsDefined, window
<1> QED BY <1>2, <1>3

\* The loops select the window that is defined by sets, for a history in any
\* order, and the array holds the best candidates after each iteration.
THEOREM ScanSafe == ScanSpec => []ScanInv
<1>1. ScanInit => WindowInv
      BY WindowStart
<1>2. WindowInv /\ [ScanNext]_scanVars => WindowInv'
      BY WindowStep
<1>3. WindowInv => ScanInv
      BY BestIsKept, MergedIsWindow DEF ScanInv
<1> QED BY <1>1, <1>2, <1>3, PTL DEF ScanSpec

-----------------------------------------------------------------------------
(***************************************************************************)
(* The summaries of a chat, page by page.                                  *)
(***************************************************************************)
\* Summaries are in a strict order, in which Below is the other way round.
LEMMA NewerOrder ==
    /\ \A a \in Ids : Newer(a, a) = FALSE
    /\ \A a, b \in Ids : a = b \/ Newer(a, b) \/ Newer(b, a)
    /\ \A a, b, c \in Ids : Newer(a, b) /\ Newer(b, c) => Newer(a, c)
    /\ \A a, b \in Ids : b # First /\ (Below(a, b) <=> Newer(b, a))
    /\ \A a \in Ids : a # First /\ a \in Nat /\ Times[a] \in Nat
<1>1. \A a \in Ids : a # First /\ a \in Nat /\ Times[a] \in Nat
      BY PagingAssumption DEF Ids, First
<1> QED BY <1>1 DEF Newer, Below

\* The query returns the rows, the newest first.
LEMMA NewestSorts ==
    ASSUME NEW ids \in SUBSET Ids
    PROVE  /\ DOMAIN Newest(ids) = 1..Cardinality(ids) /\ Cardinality(ids) \in Nat
           /\ \A i \in DOMAIN Newest(ids) : Newest(ids)[i] \in ids
           /\ \A id \in ids : \E i \in DOMAIN Newest(ids) : Newest(ids)[i] = id
           /\ \A i, j \in DOMAIN Newest(ids) : i < j => Newer(Newest(ids)[i], Newest(ids)[j])
           /\ Newest(ids) \in Seq(ids)
<1> DEFINE R == {p \in Ids \X Ids : Newer(p[1], p[2])}
<1>1. \A a, b \in Ids : <<a, b>> \in R <=> Newer(a, b)
      OBVIOUS
<1>2. IsFiniteSet(ids)
      BY PagingAssumption, FS_Subset DEF Ids
<1>3. Strict(R, ids)
      BY <1>1, NewerOrder DEF Strict
<1>4. \A x \in ids : {y \in ids : Newer(y, x)} = Ahead(R, ids, x)
      BY <1>1 DEF Ahead
<1>5. \A x \in ids : Cardinality({y \in ids : Newer(y, x)}) = Rank(R, ids, x)
      BY <1>4 DEF Rank
<1>6. Newest(ids) = [i \in 1..Cardinality(ids) |->
                       CHOOSE x \in ids : Cardinality({y \in ids : Newer(y, x)}) = i - 1]
      BY DEF Newest, InOrder
<1> HIDE DEF R
<1>7. \A i : (CHOOSE x \in ids : Cardinality({y \in ids : Newer(y, x)}) = i - 1)
               = (CHOOSE x \in ids : Rank(R, ids, x) = i - 1)
      BY <1>5
<1>8. Newest(ids) = [i \in 1..Cardinality(ids) |-> CHOOSE x \in ids : Rank(R, ids, x) = i - 1]
      BY <1>6, <1>7
<1>9. Sorts(Newest(ids), ids, R)
      BY <1>2, <1>3, <1>8, RanksSort
<1>10. Newest(ids) \in Seq(ids)
      <2>1. /\ Newest(ids) = [i \in 1..Cardinality(ids) |-> Newest(ids)[i]]
            /\ \A i \in 1..Cardinality(ids) : Newest(ids)[i] \in ids
            /\ Cardinality(ids) \in Nat
            BY <1>6, <1>9 DEF Sorts
      <2> HIDE DEF Newest
      <2>2. Newest(ids) \in [1..Cardinality(ids) -> ids]
            BY <2>1
      <2> QED BY <2>1, <2>2
<1> QED BY <1>1, <1>9, <1>10 DEF Sorts

\* What is appended is made of rows of the page.
LEMMA UnlistedType ==
    ASSUME NEW rows \in Seq(Ids), NEW list
    PROVE  Unlisted(rows, list) \in Seq(Ids)
<1> DEFINE K == {i \in DOMAIN rows : rows[i] \notin Range(list)}
           R == {p \in Nat \X Nat : p[1] < p[2]}
           new == InOrder(K, LAMBDA i, j : i < j)
<1>1. DOMAIN rows = 1..Len(rows) /\ Len(rows) \in Nat
      OBVIOUS
<1>2. K \in SUBSET (1..Len(rows)) /\ K \in SUBSET Nat
      BY <1>1
<1>3. IsFiniteSet(1..Len(rows))
      BY <1>1, FS_Interval
<1>4. IsFiniteSet(K)
      BY <1>2, <1>3, FS_Subset
<1>5. \A i, j \in Nat : <<i, j>> \in R <=> i < j
      OBVIOUS
<1>6. \A x \in K : {y \in K : y < x} = Ahead(R, K, x)
      <2> HIDE DEF K, R
      <2> QED BY <1>2, <1>5 DEF Ahead
<1>7. new = [i \in 1..Cardinality(K) |-> CHOOSE x \in K : Rank(R, K, x) = i - 1]
      <2> DEFINE At(i) == CHOOSE x \in K : Cardinality({y \in K : y < x}) = i - 1
                 Of(i) == CHOOSE x \in K : Rank(R, K, x) = i - 1
      <2>1. new = [i \in 1..Cardinality(K) |-> At(i)]
            BY DEF InOrder
      <2> HIDE DEF K, R, new
      <2>2. \A x \in K : Cardinality({y \in K : y < x}) = Rank(R, K, x)
            BY <1>6 DEF Rank
      <2>3. \A i : At(i) = Of(i)
            BY <2>2
      <2> HIDE DEF At, Of
      <2>4. new = [i \in 1..Cardinality(K) |-> Of(i)]
            BY <2>1, <2>3
      <2> QED BY <2>4 DEF Of
<1>8. Strict(R, K)
      <2> HIDE DEF K, R
      <2> QED BY <1>2, <1>5 DEF Strict
<1>9. Unlisted(rows, list) = [k \in DOMAIN new |-> rows[new[k]]]
      BY DEF Unlisted
<1> HIDE DEF K, R, new
<1>10. Sorts(new, K, R)
      BY <1>4, <1>7, <1>8, RanksSort
<1>11. /\ DOMAIN new = 1..Cardinality(K) /\ Cardinality(K) \in Nat
       /\ \A k \in DOMAIN new : new[k] \in 1..Len(rows)
      BY <1>2, <1>10 DEF Sorts
<1>12. \A k \in 1..Cardinality(K) : rows[new[k]] \in Ids
      BY <1>11, ElementOfSeq
<1>13. Unlisted(rows, list) \in [1..Cardinality(K) -> Ids]
      BY <1>9, <1>11, <1>12
<1> QED BY <1>11, <1>13

\* A page of which nothing is listed is appended as it is.
LEMMA UnlistedAll ==
    ASSUME NEW rows \in Seq(Ids), NEW list,
           \A i \in DOMAIN rows : rows[i] \notin Range(list)
    PROVE  Unlisted(rows, list) = rows
<1> DEFINE n == Len(rows)
           new == InOrder(1..n, LAMBDA i, j : i < j)
<1>1. DOMAIN rows = 1..n /\ n \in Nat
      OBVIOUS
<1>2. {i \in DOMAIN rows : rows[i] \notin Range(list)} = 1..n
      BY <1>1
<1>3. Unlisted(rows, list) = [k \in DOMAIN new |-> rows[new[k]]]
      BY <1>2 DEF Unlisted
<1>4. new = [i \in 1..Cardinality(1..n) |->
               CHOOSE x \in 1..n : Cardinality({y \in 1..n : y < x}) = i - 1]
      BY DEF InOrder
<1> HIDE DEF n, new
<1>5. \A k \in Nat : Cardinality(1..k) = k
      <2> SUFFICES ASSUME NEW k \in Nat PROVE Cardinality(1..k) = k
          OBVIOUS
      <2>1. 1 \in Int /\ k \in Int
            OBVIOUS
      <2>2. Cardinality(1..k) = IF 1 > k THEN 0 ELSE k - 1 + 1
            BY ONLY <2>1, FS_Interval
      <2> QED BY <2>2
<1>6. ASSUME NEW i \in 1..n
      PROVE  (CHOOSE x \in 1..n : Cardinality({y \in 1..n : y < x}) = i - 1) = i
      <2>1. ASSUME NEW x \in 1..n PROVE Cardinality({y \in 1..n : y < x}) = x - 1
            <3>1. {y \in 1..n : y < x} = 1..(x - 1) /\ x - 1 \in Nat
                  BY <1>1
            <3> QED BY <1>5, <3>1
      <2>2. \A x \in 1..n : x - 1 = i - 1 <=> x = i
            BY <1>1
      <2> QED BY <2>1, <2>2
<1>7. Cardinality(1..n) = n
      BY <1>1, <1>5
<1>8. DOMAIN new = 1..n /\ \A i \in 1..n : new[i] = i
      BY <1>4, <1>6, <1>7
<1>9. Unlisted(rows, list) = [k \in 1..n |-> rows[k]]
      BY <1>3, <1>8
<1>10. rows = [k \in 1..n |-> rows[k]]
      BY <1>1
<1> QED BY <1>9, <1>10

(* What a page or a list must be.  It is newest first and leaves no row of   *)
(* the table out between its ends; the next page starts at its last row, if  *)
(* anything is left.                                                         *)
Upto(id, end) == id = end \/ Newer(end, id)

Whole(table, rows, next) ==
    /\ \A i \in DOMAIN rows : rows[i] \in table
    /\ \A i, j \in DOMAIN rows : i < j => Newer(rows[i], rows[j])
    /\ rows = <<>> => next = First
    /\ rows # <<>> =>
         /\ next = rows[Len(rows)] \/ next = First
         /\ next = First <=> ~\E id \in table : Newer(rows[Len(rows)], id)
         /\ \A id \in table :
              Upto(id, rows[1]) /\ Upto(rows[Len(rows)], id) => id \in Range(rows)

(* A page starts right behind its cursor.                                    *)
Continues(table, rows, cursor) ==
    cursor # First =>
      /\ \A i \in DOMAIN rows : Newer(cursor, rows[i])
      /\ \A id \in table : Newer(cursor, id) => rows # <<>> /\ Upto(id, rows[1])

Cursors(table) == table \union {First}

Pages == [rows : Seq(Ids), next : Ids \union {First}]

Answers(table, page, cursor) ==
    /\ page \in Pages /\ cursor \in Cursors(table)
    /\ Whole(table, page.rows, page.next)
    /\ Continues(table, page.rows, cursor)

(* The requests and the component, by their types.                           *)
PageRequests == [owner : {"overview", "more", "nobody"}, cursor : Cursors(recorded),
            page : Pages \union {Unanswered}]

Chats(table) == [open : BOOLEAN, ready : BOOLEAN, list : Seq(Ids), next : Cursors(table),
                 loading : BOOLEAN, error : BOOLEAN, failed : BOOLEAN,
                 crossed : BOOLEAN, visits : Nat]

(* Wherever a page is kept or on its way, it answers its cursor, however long *)
(* ago it was read: rows are added at the top only.                           *)
PagesKept ==
    /\ \A c \in DOMAIN edge : Answers(recorded, edge[c], c)
    /\ \A put \in puts : Answers(recorded, put[2], put[1])
    /\ \A c \in DOMAIN sessionCache : Answers(recorded, sessionCache[c], c)
    /\ \A r \in requests :
         /\ r \in PageRequests
         /\ r.page # Unanswered => Answers(recorded, r.page, r.cursor)

(* At most one further page is asked for, the one behind the list unless the *)
(* list was replaced meanwhile.                                              *)
MoreAsked ==
    /\ \A r \in requests :
         r.owner = "more" =>
           /\ history.loading
           /\ r.cursor # First
           /\ history.crossed \/ r.cursor = history.next
    /\ \A r \in requests : r.owner = "overview" => r.cursor = First
    /\ \A r, s \in requests : r.owner = "more" /\ s.owner = "more" => r = s
    /\ history.open \/ ~history.loading

ChatType ==
    history \in Chats(recorded)

ListWhole == history.crossed \/ Whole(recorded, history.list, history.next)

PagingInv ==
    /\ recorded \in SUBSET Ids
    /\ ChatType
    /\ PagesKept
    /\ MoreAsked
    /\ ListWhole

\* What the query returns answers its cursor.
LEMMA OverviewAnswers ==
    ASSUME recorded \in SUBSET Ids, NEW c \in Cursors(recorded)
    PROVE  Answers(recorded, ChatOverview(c), c)
<1> DEFINE ids == {id \in recorded : Below(id, c)}
           rows == Newest(ids)
           n == Cardinality(ids)
           k == IF n > PageSize THEN PageSize ELSE n
           page == SubSeq(rows, 1, k)
           next == IF n > PageSize THEN page[PageSize] ELSE First
<1>1. /\ ids \in SUBSET Ids /\ ids \subseteq recorded
      /\ \A id \in recorded : id \in ids <=> (c # First => Newer(c, id))
      BY NewerOrder DEF Cursors, Below
<1>2. PageSize \in Nat \ {0}
      BY PagingAssumption
<1> HIDE DEF ids
<1>3. /\ DOMAIN rows = 1..n /\ n \in Nat /\ rows \in Seq(Ids) /\ Len(rows) = n
      /\ \A i \in 1..n : rows[i] \in ids
      /\ \A id \in ids : \E i \in 1..n : rows[i] = id
      /\ \A i, j \in 1..n : i < j => Newer(rows[i], rows[j])
      <2>1. /\ DOMAIN rows = 1..n /\ n \in Nat /\ rows \in Seq(ids)
            /\ \A i \in 1..n : rows[i] \in ids
            /\ \A id \in ids : \E i \in 1..n : rows[i] = id
            /\ \A i, j \in 1..n : i < j => Newer(rows[i], rows[j])
            BY <1>1, NewestSorts
      <2> HIDE DEF rows, n
      <2>2. rows \in Seq(Ids) /\ Len(rows) = n
            BY <1>1, <2>1
      <2> QED BY <2>1, <2>2
<1>4. k \in 0..n /\ (n > 0 => k > 0) /\ (n > PageSize => k = PageSize /\ k < n)
      /\ (~(n > PageSize) => k = n)
      BY <1>2, <1>3
<1>5. ChatOverview(c) = [rows |-> page, next |-> next]
      BY <1>3 DEF ChatOverview, ids
<1> HIDE DEF rows, n, k
<1>6. /\ page \in Seq(Ids) /\ Len(page) = k /\ DOMAIN page = 1..k
      /\ \A i \in 1..k : page[i] = rows[i]
      BY <1>3, <1>4
<1>7. next = IF n > PageSize THEN page[k] ELSE First
      BY <1>4
<1> HIDE DEF page, next
<1>8. \A i \in 1..k : i \in 1..n /\ page[i] \in ids /\ page[i] \in Ids
      BY <1>1, <1>3, <1>4, <1>6
<1>9. \A i, j \in 1..k : i < j => Newer(page[i], page[j])
      BY <1>3, <1>6, <1>8
<1>10. page = <<>> <=> k = 0
       BY <1>6
<1>11. page = <<>> => n = 0 /\ next = First
       BY <1>3, <1>4, <1>7, <1>10
(* What lies behind the page lies behind its last row, in the table or in ids. *)
<1>12. ASSUME page # <<>>, NEW id \in recorded, Newer(page[k], id)
       PROVE  id \in ids
       <2>1. k \in 1..k /\ page[k] \in ids
             BY <1>4, <1>8, <1>10, <1>12
       <2>2. id \in Ids /\ page[k] \in Ids /\ page[k] \in recorded
             BY <1>1, <2>1
       <2>3. c # First => Newer(c, page[k]) /\ c \in Ids
             BY <1>1, <2>1, <2>2 DEF Cursors
       <2> QED BY <1>1, <1>12, <2>2, <2>3, NewerOrder
<1>13. page # <<>> => (next = page[k] \/ next = First)
                      /\ (next = First <=> ~(n > PageSize))
       BY <1>4, <1>7, <1>8, <1>10, NewerOrder
<1>14. ASSUME page # <<>>
       PROVE  n > PageSize <=> \E id \in recorded : Newer(page[k], id)
       <2>1. ASSUME n > PageSize PROVE \E id \in recorded : Newer(page[k], id)
             <3>1. k + 1 \in 1..n /\ k \in 1..n /\ k \in 1..k
                   BY <1>3, <1>4, <1>10, <1>14, <2>1
             <3>2. Newer(rows[k], rows[k + 1]) /\ rows[k + 1] \in ids
                   BY <1>3, <3>1
             <3> QED BY <1>1, <1>6, <3>1, <3>2
       <2>2. ASSUME NEW id \in recorded, Newer(page[k], id), ~(n > PageSize)
             PROVE  FALSE
             <3>1. id \in ids /\ k = n
                   BY <1>4, <1>12, <1>14, <2>2
             <3>2. PICK i \in 1..n : rows[i] = id
                   BY <1>3, <3>1
             <3>3. i \in 1..k /\ k \in 1..k /\ page[i] = id
                   BY <1>3, <1>6, <3>1, <3>2
             <3>4. i = k \/ i < k
                   BY <1>4, <3>3
             <3>5. Newer(id, page[k]) \/ id = page[k]
                   BY <1>9, <3>3, <3>4
             <3>6. id \in Ids /\ page[k] \in Ids
                   BY <1>8, <3>3
             <3> QED BY <2>2, <3>5, <3>6, NewerOrder
       <2> QED BY <2>1, <2>2
<1>15. ASSUME page # <<>>, NEW id \in recorded, Upto(page[k], id)
       PROVE  id \in ids => id \in Range(page)
       <2> SUFFICES ASSUME id \in ids PROVE id \in Range(page)
           OBVIOUS
       <2>1. PICK i \in 1..n : rows[i] = id
             BY <1>3
       <2>2. k \in 1..k /\ k \in 1..n
             BY <1>4, <1>8, <1>10, <1>15
       <2>3. ~(k < i)
             <3>1. ASSUME k < i PROVE Newer(page[k], id)
                   BY <1>3, <1>6, <2>1, <2>2, <3>1
             <3>2. id \in Ids /\ page[k] \in Ids
                   BY <1>1, <1>8, <2>2
             <3> QED BY <1>15, <3>1, <3>2, NewerOrder DEF Upto
       <2>4. i \in 1..k /\ page[i] = id
             BY <1>4, <1>6, <2>1, <2>3
       <2> QED BY <1>6, <2>4 DEF Range
<1>16. ASSUME page # <<>>, NEW id \in recorded, Upto(id, page[1])
       PROVE  id \in ids
       <2>1. 1 \in 1..k
             BY <1>4, <1>10, <1>16
       <2>2. page[1] \in ids /\ page[1] \in Ids /\ page[1] \in recorded /\ id \in Ids
             BY <1>1, <1>8, <2>1
       <2>3. c # First => Newer(c, page[1]) /\ c \in Ids
             BY <1>1, <2>2 DEF Cursors
       <2> QED BY <1>1, <1>16, <2>2, <2>3, NewerOrder DEF Upto
<1>17. ASSUME NEW id \in ids PROVE page # <<>> /\ Upto(id, page[1])
       <2>1. PICK i \in 1..n : rows[i] = id
             BY <1>3
       <2>2. n > 0 /\ 1 \in 1..n /\ 1 \in 1..k
             BY <1>3, <1>4, <2>1
       <2>3. i = 1 \/ 1 < i
             BY <1>3, <2>1
       <2>4. page[1] = rows[1] /\ page # <<>>
             BY <1>6, <1>10, <2>2
       <2> QED BY <1>3, <2>1, <2>2, <2>3, <2>4 DEF Upto
<1>18. Whole(recorded, page, next)
       BY <1>1, <1>6, <1>8, <1>9, <1>11, <1>13, <1>14, <1>15, <1>16 DEF Whole
<1>19. Continues(recorded, page, c)
       BY <1>1, <1>6, <1>8, <1>17 DEF Continues
<1>20. next \in Ids \union {First}
       BY <1>4, <1>7, <1>8, <1>10, <1>11, <1>13
<1> QED BY <1>5, <1>6, <1>18, <1>19, <1>20 DEF Answers, Pages

\* A list keeps its meaning when a younger summary is recorded.
LEMMA WholeStays ==
    ASSUME NEW table \in SUBSET Ids, NEW new \in Ids,
           \A id \in table : Times[id] < Times[new],
           NEW rows \in Seq(Ids), NEW next, Whole(table, rows, next)
    PROVE  Whole(table \union {new}, rows, next)
<1>1. \A id \in table : Newer(new, id) /\ ~Newer(id, new) /\ id # new
      BY NewerOrder DEF Newer
<1>2. CASE rows = <<>>
      BY <1>2 DEF Whole
<1>3. CASE rows # <<>>
      <2>1. 1 \in DOMAIN rows /\ Len(rows) \in DOMAIN rows
            BY <1>3
      <2>2. rows[1] \in table /\ rows[Len(rows)] \in table
            BY <2>1 DEF Whole
      <2>3. ~Upto(new, rows[1]) /\ ~Newer(rows[Len(rows)], new)
            BY <1>1, <2>2 DEF Upto
      <2> QED BY <1>3, <2>3 DEF Whole
<1> QED BY <1>2, <1>3

\* So does a page.
LEMMA AnswersStay ==
    ASSUME NEW table \in SUBSET Ids, NEW new \in Ids,
           \A id \in table : Times[id] < Times[new],
           NEW page, NEW c, Answers(table, page, c)
    PROVE  Answers(table \union {new}, page, c)
<1>1. page.rows \in Seq(Ids) /\ c \in Cursors(table)
      BY DEF Answers, Pages
<1>2. Whole(table \union {new}, page.rows, page.next)
      BY <1>1, WholeStays DEF Answers
<1>3. Continues(table \union {new}, page.rows, c)
      <2>1. \A id \in table : ~Newer(id, new)
            BY NewerOrder DEF Newer
      <2>2. c # First => ~Newer(c, new)
            BY <1>1, <2>1 DEF Cursors
      <2> QED BY <2>2 DEF Answers, Continues
<1> QED BY <1>1, <1>2, <1>3 DEF Answers, Cursors

\* What follows a list is determined by its rows.
LEMMA NextOfRows ==
    ASSUME NEW table \in SUBSET Ids, NEW rows \in Seq(Ids), NEW a, NEW b,
           Whole(table, rows, a), Whole(table, rows, b)
    PROVE  a = b
BY DEF Whole

\* A page behind a list makes a longer one.
LEMMA ListExtends ==
    ASSUME NEW table \in SUBSET Ids, NEW list \in Seq(Ids), NEW c, c # First,
           Whole(table, list, c), NEW page, Answers(table, page, c)
    PROVE  Whole(table, list \o Unlisted(page.rows, list), page.next)
<1> DEFINE rows == page.rows
           n == Len(list)
           m == Len(rows)
           longer == list \o rows
<1>1. rows \in Seq(Ids) /\ Whole(table, rows, page.next) /\ Continues(table, rows, c)
      BY DEF Answers, Pages
<1>2. list # <<>> /\ c = list[n]
      BY DEF Whole
<1>3. /\ n \in Nat \ {0} /\ m \in Nat /\ DOMAIN list = 1..n /\ DOMAIN rows = 1..m
      BY <1>1, <1>2
<1> HIDE DEF rows
<1>4. /\ \A i \in 1..n : list[i] \in table /\ list[i] \in Ids
      /\ \A i \in 1..m : rows[i] \in table /\ rows[i] \in Ids
      /\ \A i, j \in 1..n : i < j => Newer(list[i], list[j])
      /\ \A i, j \in 1..m : i < j => Newer(rows[i], rows[j])
      /\ \A i \in 1..m : Newer(c, rows[i])
      BY <1>1, <1>3 DEF Whole, Continues
<1>5. \A i \in 1..n : list[i] = c \/ Newer(list[i], c)
      <2> SUFFICES ASSUME NEW i \in 1..n PROVE list[i] = c \/ Newer(list[i], c)
          OBVIOUS
      <2>1. n \in Nat \ {0} /\ list[n] = c
            BY <1>2, <1>3
      <2> HIDE DEF n
      <2>2. (i = n \/ i < n) /\ n \in 1..n
            BY <2>1
      <2> QED BY <1>4, <2>1, <2>2
<1>6. c \in Ids
      BY <1>2, <1>3, <1>4
<1>7. \A i \in 1..n, j \in 1..m : Newer(list[i], rows[j])
      BY <1>4, <1>5, <1>6, NewerOrder
<1>8. Unlisted(rows, list) = rows
      <2>1. \A j \in DOMAIN rows : rows[j] \notin Range(list)
            BY <1>3, <1>4, <1>7, NewerOrder DEF Range
      <2> QED BY <1>1, <2>1, UnlistedAll
<1>9. /\ longer \in Seq(Ids) /\ Len(longer) = n + m /\ DOMAIN longer = 1..(n + m)
      /\ \A i \in 1..n : longer[i] = list[i]
      /\ \A j \in 1..m : longer[n + j] = rows[j]
      BY <1>1, <1>3
<1> HIDE DEF longer, n, m
<1>10. \A k \in 1..(n + m) : k \in 1..n \/ \E j \in 1..m : k = n + j
       <2> SUFFICES ASSUME NEW k \in 1..(n + m), k \notin 1..n PROVE k - n \in 1..m /\ k = n + (k - n)
           OBVIOUS
       <2> QED BY <1>3
<1>11. \A k \in DOMAIN longer : longer[k] \in table
       BY <1>4, <1>9, <1>10
<1>12. \A i, j \in DOMAIN longer : i < j => Newer(longer[i], longer[j])
       <2> SUFFICES ASSUME NEW i \in 1..(n + m), NEW j \in 1..(n + m), i < j
                    PROVE  Newer(longer[i], longer[j])
           BY <1>9
       <2>1. CASE j \in 1..n
             <3>1. i \in 1..n
                   BY <1>3, <2>1
             <3> QED BY <1>4, <1>9, <2>1, <3>1
       <2>2. ASSUME NEW b \in 1..m, j = n + b PROVE Newer(longer[i], longer[j])
             <3>1. CASE i \in 1..n
                   BY <1>7, <1>9, <2>2, <3>1
             <3>2. ASSUME NEW a \in 1..m, i = n + a PROVE Newer(longer[i], longer[j])
                   <4>1. a < b
                         BY <1>3, <2>2, <3>2
                   <4> QED BY <1>4, <1>9, <2>2, <3>2, <4>1
             <3> QED BY <1>10, <3>1, <3>2
       <2> QED BY <1>10, <2>1, <2>2
<1>13. longer # <<>> /\ longer[1] = list[1]
       BY <1>3, <1>9
<1>14. \A id \in Range(list) \union Range(rows) : id \in Range(longer)
       <2>1. \A i \in 1..n : i \in DOMAIN longer /\ longer[i] = list[i]
             BY <1>3, <1>9
       <2>2. \A j \in 1..m : n + j \in DOMAIN longer /\ longer[n + j] = rows[j]
             BY <1>3, <1>9
       <2> QED BY <1>3, <2>1, <2>2 DEF Range
<1>15. \A id \in table : Upto(id, list[1]) /\ Upto(c, id) => id \in Range(list)
       BY <1>2 DEF Whole, n
<1>16. \A id \in table : Newer(c, id) => rows # <<>> /\ Upto(id, rows[1])
       BY <1>1 DEF Continues
<1>17. \A id \in table : id \in Ids /\ (Upto(c, id) \/ Newer(c, id))
       BY <1>6, NewerOrder DEF Upto
<1>18. CASE rows = <<>>
       <2>1. longer = list /\ page.next = First
             BY <1>1, <1>18 DEF Whole, longer
       <2>2. ~\E id \in table : Newer(list[n], id)
             BY <1>2, <1>16, <1>18
       <2>3. Whole(table, list, First)
             BY <1>2, <2>2 DEF Whole, n
       <2> QED BY <1>8, <1>18, <2>1, <2>3 DEF longer, rows
<1>19. CASE rows # <<>>
       <2>1. /\ m \in 1..m /\ Len(longer) = n + m /\ longer[n + m] = rows[m]
             BY <1>1, <1>3, <1>9, <1>19 DEF m
       <2>2. /\ page.next = rows[m] \/ page.next = First
             /\ page.next = First <=> ~\E id \in table : Newer(rows[m], id)
             /\ \A id \in table : Upto(id, rows[1]) /\ Upto(rows[m], id) => id \in Range(rows)
             BY <1>1, <1>19 DEF Whole, m
       <2>3. \A id \in table : Upto(id, longer[1]) /\ Upto(longer[n + m], id) => id \in Range(longer)
             BY <1>13, <1>14, <1>15, <1>16, <1>17, <2>1, <2>2
       <2>4. Whole(table, longer, page.next)
             BY <1>11, <1>12, <1>13, <2>1, <2>2, <2>3 DEF Whole
       <2> QED BY <1>8, <2>4 DEF longer, rows
<1> QED BY <1>18, <1>19

\* What is put into a cache, and what stays there, answers its cursor.
LEMMA CachesAnswer ==
    ASSUME NEW table, NEW cache, \A c \in DOMAIN cache : Answers(table, cache[c], c),
           NEW cursor, NEW page
    PROVE  /\ \A c \in DOMAIN Without(cache, cursor) : Answers(table, Without(cache, cursor)[c], c)
           /\ Answers(table, page, cursor) =>
                \A c \in DOMAIN With(cache, cursor, page) :
                  Answers(table, With(cache, cursor, page)[c], c)
BY DEF With, Without

\* A page names a row of the table as the next cursor, or none.
LEMMA AnswerType ==
    ASSUME NEW table \in SUBSET Ids, NEW page, NEW c, Answers(table, page, c)
    PROVE  /\ page.rows \in Seq(Ids) /\ page.next \in Cursors(table)
           /\ page # Unanswered
<1>1. page \in Pages /\ Whole(table, page.rows, page.next)
      BY DEF Answers
<1>2. page.rows \in Seq(Ids)
      BY <1>1 DEF Pages
<1>3. page.next \in Cursors(table)
      <2>1. CASE page.rows = <<>>
            BY <1>1, <2>1 DEF Whole, Cursors
      <2>2. CASE page.rows # <<>>
            <3>1. Len(page.rows) \in DOMAIN page.rows
                  BY <1>2, <2>2
            <3> QED BY <1>1, <2>2, <3>1 DEF Whole, Cursors
      <2> QED BY <2>1, <2>2
<1>4. page # Unanswered
      <2> SUFFICES ASSUME page = Unanswered PROVE FALSE
          OBVIOUS
      <2>1. page.rows = <<First>>
            BY DEF Unanswered
      <2>2. page.rows[1] \in Ids /\ page.rows[1] = First
            BY <1>2, <2>1
      <2> QED BY <2>2, NewerOrder
<1> QED BY <1>2, <1>3, <1>4

\* The overview takes the place of the list.
LEMMA ResetWhole ==
    ASSUME PagingInv, NEW page, Answers(recorded, page, First)
    PROVE  LET h == Reset(history, page) IN
           /\ h \in Chats(recorded)
           /\ h.open = history.open /\ h.loading = history.loading
           /\ Whole(recorded, h.list, h.next)
           /\ history.crossed => h.crossed
           /\ history.loading => h.crossed \/ h.next = history.next
<1> DEFINE h == Reset(history, page)
           lost == history.crossed \/ (history.loading /\ page.rows # history.list)
<1>1. page.rows \in Seq(Ids) /\ page.next \in Cursors(recorded)
      BY AnswerType DEF PagingInv
<1>2. lost \in BOOLEAN
      OBVIOUS
<1>3. h = [history EXCEPT !.ready = TRUE, !.list = page.rows, !.next = page.next,
                          !.error = FALSE, !.crossed = lost]
      BY DEF Reset
<1>4. Whole(recorded, page.rows, page.next)
      BY DEF Answers
<1>5. ASSUME history.loading, ~lost PROVE page.next = history.next
      <2>1. /\ page.rows = history.list
            /\ Whole(recorded, history.list, history.next)
            BY <1>5 DEF PagingInv, ListWhole
      <2> QED BY <1>1, <1>4, <2>1, NextOfRows DEF PagingInv
<1> HIDE DEF lost
<1>6. /\ h \in Chats(recorded)
      /\ h.open = history.open /\ h.loading = history.loading
      /\ h.list = page.rows /\ h.next = page.next /\ h.crossed = lost
      BY <1>1, <1>2, <1>3 DEF PagingInv, ChatType, Chats
<1> HIDE DEF h
<1>7. /\ history.loading => h.crossed \/ h.next = history.next
      /\ history.crossed => h.crossed
      BY <1>5, <1>6 DEF lost
<1> QED BY <1>4, <1>6, <1>7 DEF h

\* A page goes to the end of the list.
LEMMA AppendWhole ==
    ASSUME recorded \in SUBSET Ids,
           NEW g \in Chats(recorded),
           g.crossed \/ Whole(recorded, g.list, g.next),
           NEW c, c # First, g.crossed \/ c = g.next,
           NEW page, Answers(recorded, page, c)
    PROVE  LET h == AppendPage(g, page) IN
           /\ h \in Chats(recorded)
           /\ h.open = g.open /\ ~h.loading
           /\ h.crossed \/ Whole(recorded, h.list, h.next)
<1> DEFINE longer == g.list \o Unlisted(page.rows, g.list)
           h == AppendPage(g, page)
<1>1. page.rows \in Seq(Ids) /\ page.next \in Cursors(recorded)
      BY AnswerType
<1>2. g.list \in Seq(Ids) /\ longer \in Seq(Ids)
      BY <1>1, UnlistedType DEF Chats
<1>3. g.crossed \/ Whole(recorded, longer, page.next)
      BY <1>2, ListExtends
<1>4. h = [g EXCEPT !.list = longer, !.next = page.next, !.loading = FALSE]
      BY DEF AppendPage
<1> HIDE DEF longer
<1>5. /\ h \in Chats(recorded)
      /\ h.open = g.open /\ h.loading = FALSE
      /\ h.list = longer /\ h.next = page.next /\ h.crossed = g.crossed
      BY <1>1, <1>2, <1>4 DEF Chats
<1> HIDE DEF h
<1>6. h.crossed \/ Whole(recorded, h.list, h.next)
      BY <1>3, <1>5
<1>7. ~h.loading
      BY <1>5
<1> QED BY <1>5, <1>6, <1>7 DEF h

\* A request that is sent awaits its answer.
LEMMA AskType ==
    ASSUME NEW owner \in {"overview", "more", "nobody"}, NEW c \in Cursors(recorded)
    PROVE  /\ Ask(owner, c) \in PageRequests
           /\ Ask(owner, c).page = Unanswered
           /\ Ask(owner, c).owner = owner /\ Ask(owner, c).cursor = c
BY DEF Ask, PageRequests

\* An empty list is whole.
LEMMA PagingStart == HistoryInit => PagingInv
<1> SUFFICES ASSUME HistoryInit PROVE PagingInv
    OBVIOUS
<1>1. /\ recorded \in SUBSET Ids
      /\ DOMAIN edge = {} /\ DOMAIN sessionCache = {} /\ puts = {} /\ requests = {}
      BY DEF HistoryInit
<1>2. /\ ChatType
      /\ history.list = <<>> /\ history.next = First /\ ~history.loading
      BY DEF HistoryInit, ClosedChat, ChatType, Cursors, Chats
<1>3. PagesKept /\ MoreAsked
      BY <1>1, <1>2 DEF PagesKept, MoreAsked, PageRequests
<1>4. ListWhole
      BY <1>2 DEF ListWhole, Whole
<1> QED BY <1>1, <1>2, <1>3, <1>4 DEF PagingInv

\* The table grows at the top.
LEMMA RecordKeeps == ASSUME PagingInv, RecordSummary PROVE PagingInv'
<1>1. PICK id \in Ids \ recorded :
         /\ \A other \in recorded : Times[other] < Times[id]
         /\ recorded' = recorded \cup {id}
      BY DEF RecordSummary
<1>2. UNCHANGED <<edge, puts, sessionCache, requests, history>>
      BY DEF RecordSummary
<1>3. recorded' \in SUBSET Ids /\ Cursors(recorded) \subseteq Cursors(recorded')
      BY <1>1 DEF PagingInv, Cursors
<1>4. ChatType'
      BY <1>2, <1>3 DEF PagingInv, ChatType, Chats
<1>5. \A page, c : Answers(recorded, page, c) => Answers(recorded', page, c)
      BY <1>1, AnswersStay DEF PagingInv
<1>6. PagesKept'
      BY <1>2, <1>3, <1>5 DEF PagingInv, PagesKept, PageRequests
<1>7. MoreAsked'
      BY <1>2 DEF PagingInv, MoreAsked
<1>8. ListWhole'
      <2>1. history.list \in Seq(Ids)
            BY DEF PagingInv, ChatType, Chats
      <2> QED BY <1>1, <1>2, <2>1, WholeStays DEF PagingInv, ListWhole
<1> QED BY <1>3, <1>4, <1>6, <1>7, <1>8 DEF PagingInv

\* What the worker answers, it has from the edge or from the database.
LEMMA FetchKeeps == ASSUME PagingInv, NEW r \in requests, Fetch(r) PROVE PagingInv'
<1> DEFINE page == IF r.cursor \in DOMAIN edge THEN edge[r.cursor] ELSE ChatOverview(r.cursor)
           a == [r EXCEPT !.page = page]
<1>1. /\ requests' = (requests \ {r}) \cup {a}
      /\ puts' \subseteq puts \cup {<<r.cursor, page>>}
      /\ UNCHANGED <<recorded, edge, sessionCache, history>>
      BY DEF Fetch
<1>2. r \in PageRequests
      BY DEF PagingInv, PagesKept, PageRequests
<1>3. Answers(recorded, page, r.cursor)
      <2>1. r.cursor \in Cursors(recorded)
            BY <1>2 DEF PageRequests
      <2> QED BY <2>1, OverviewAnswers DEF PagingInv, PagesKept, PageRequests
<1> HIDE DEF page
<1>4. page \in Pages
      BY <1>3 DEF Answers
<1>5. /\ a \in PageRequests /\ a.owner = r.owner /\ a.cursor = r.cursor /\ a.page = page
      BY <1>2, <1>4 DEF PageRequests
<1> HIDE DEF a
<1>6. PagesKept'
      BY <1>1, <1>3, <1>5 DEF PagingInv, PagesKept, PageRequests
<1>7. MoreAsked'
      BY <1>1, <1>5 DEF PagingInv, MoreAsked
<1> QED BY <1>1, <1>6, <1>7 DEF PagingInv, ChatType, ListWhole, Chats

\* The answer that goes into the edge cache is the one that was given.
LEMMA PutKeeps == ASSUME PagingInv, PutDone PROVE PagingInv'
<1>1. PICK put \in puts : edge' = With(edge, put[1], put[2]) /\ puts' = puts \ {put}
      BY DEF PutDone
<1>2. UNCHANGED <<recorded, sessionCache, requests, history>>
      BY DEF PutDone
<1>3. \A c \in DOMAIN edge' : Answers(recorded, edge'[c], c)
      BY <1>1, CachesAnswer DEF PagingInv, PagesKept, PageRequests
<1>4. PagesKept'
      BY <1>1, <1>2, <1>3 DEF PagingInv, PagesKept, PageRequests
<1> QED BY <1>2, <1>4 DEF PagingInv, ChatType, MoreAsked, ListWhole, Chats

\* A cache that forgets keeps the rest.
LEMMA ExpiryKeeps == ASSUME PagingInv, EdgeExpires \/ SessionExpires PROVE PagingInv'
<1>1. UNCHANGED <<recorded, puts, requests, history>>
      BY DEF EdgeExpires, SessionExpires
<1>2. /\ \A c \in DOMAIN edge' : Answers(recorded, edge'[c], c)
      /\ \A c \in DOMAIN sessionCache' : Answers(recorded, sessionCache'[c], c)
      BY CachesAnswer DEF PagingInv, PagesKept, EdgeExpires, SessionExpires, PageRequests
<1>3. PagesKept'
      BY <1>1, <1>2 DEF PagingInv, PagesKept, PageRequests
<1> QED BY <1>1, <1>3 DEF PagingInv, ChatType, MoreAsked, ListWhole, Chats

\* A closed page awaits nothing.
LEMMA OpenKeeps == ASSUME PagingInv, OpenChat PROVE PagingInv'
<1> DEFINE h == [ClosedChat EXCEPT !.open = TRUE, !.visits = history.visits + 1]
<1>1. /\ ~history.open /\ history.visits \in Nat
      /\ UNCHANGED <<recorded, edge, puts>>
      BY DEF OpenChat, PagingInv, ChatType, Chats
<1>2. /\ h \in Chats(recorded) /\ h.open = TRUE /\ h.loading = FALSE
      /\ h.list = <<>> /\ h.next = First /\ h.crossed = FALSE
      <2>1. /\ ClosedChat \in Chats(recorded) /\ ClosedChat.loading = FALSE
            /\ ClosedChat.list = <<>> /\ ClosedChat.next = First /\ ClosedChat.crossed = FALSE
            BY DEF ClosedChat, Chats, Cursors
      <2>2. history.visits + 1 \in Nat
            BY <1>1
      <2> HIDE DEF ClosedChat
      <2> QED BY <2>1, <2>2 DEF Chats
<1>3. \A r \in requests : r.owner # "more"
      BY <1>1 DEF PagingInv, MoreAsked
<1>4. /\ requests' \in {requests, requests \cup {Ask("overview", First)}}
      /\ \/ history' = h
         \/ First \in DOMAIN sessionCache /\ history' = Reset(h, sessionCache[First])
      /\ sessionCache' \in {sessionCache, Without(sessionCache, First)}
      BY DEF OpenChat
<1>5. Ask("overview", First) \in PageRequests /\ Ask("overview", First).page = Unanswered
      /\ Ask("overview", First).owner = "overview" /\ Ask("overview", First).cursor = First
      BY AskType DEF Cursors
<1>6. PagesKept'
      <2>1. \A c \in DOMAIN sessionCache' : Answers(recorded, sessionCache'[c], c)
            BY <1>4, CachesAnswer DEF PagingInv, PagesKept, PageRequests
      <2> QED BY <1>1, <1>4, <1>5, <2>1 DEF PagingInv, PagesKept, PageRequests
<1>7. \A r \in requests' : r.owner # "more" /\ (r.owner = "overview" => r.cursor = First)
      BY <1>3, <1>4, <1>5 DEF PagingInv, MoreAsked
<1> HIDE DEF h
<1>8. /\ history' \in Chats(recorded) /\ history'.open
      /\ Whole(recorded, history'.list, history'.next)
      <2>1. CASE history' = h
            BY <1>2, <2>1 DEF Whole
      <2>2. ASSUME First \in DOMAIN sessionCache, history' = Reset(h, sessionCache[First])
            PROVE  history' \in Chats(recorded) /\ history'.open
                   /\ Whole(recorded, history'.list, history'.next)
            <3> DEFINE page == sessionCache[First]
            <3>1. Answers(recorded, page, First)
                  BY <2>2 DEF PagingInv, PagesKept, PageRequests
            <3>2. page.rows \in Seq(Ids) /\ page.next \in Cursors(recorded)
                  BY <3>1, AnswerType DEF PagingInv
            <3>3. history' = [h EXCEPT !.ready = TRUE, !.list = page.rows, !.next = page.next,
                                !.error = FALSE, !.crossed = h.crossed \/ (h.loading /\ page.rows # h.list)]
                  BY <2>2 DEF Reset
            <3> HIDE DEF page
            <3>4. (h.crossed \/ (h.loading /\ page.rows # h.list)) \in BOOLEAN
                  OBVIOUS
            <3>5. history' \in Chats(recorded) /\ history'.open = TRUE
                  /\ history'.list = page.rows /\ history'.next = page.next
                  BY <1>2, <3>2, <3>3, <3>4 DEF Chats
            <3> QED BY <3>1, <3>5 DEF Answers
      <2> QED BY <1>4, <2>1, <2>2
<1>9. ChatType' /\ ListWhole'
      BY <1>1, <1>8 DEF ChatType, ListWhole, Chats
<1>10. MoreAsked'
      BY <1>7, <1>8 DEF MoreAsked
<1> QED BY <1>1, <1>6, <1>9, <1>10 DEF PagingInv

\* The page behind the list is appended from the cache, or asked for.
LEMMA LoadMoreKeeps == ASSUME PagingInv, LoadMore PROVE PagingInv'
<1>1. /\ history.open /\ history.next # First /\ ~history.loading
      /\ UNCHANGED <<recorded, edge, puts, sessionCache>>
      BY DEF LoadMore, MayLoadMore
<1>2. history \in Chats(recorded) /\ history.next \in Cursors(recorded)
      BY DEF PagingInv, ChatType, Chats
<1>3. \A r \in requests : r.owner # "more"
      BY <1>1 DEF PagingInv, MoreAsked
<1>4. CASE history.next \in DOMAIN sessionCache
      <2> DEFINE g == [history EXCEPT !.error = FALSE]
      <2>1. /\ g \in Chats(recorded) /\ g.open = history.open /\ g.crossed = history.crossed
            /\ g.list = history.list /\ g.next = history.next
            BY <1>2 DEF Chats
      <2>2. history' = AppendPage(g, sessionCache[history.next]) /\ UNCHANGED requests
            BY <1>4 DEF LoadMore
      <2>3. Answers(recorded, sessionCache[history.next], history.next)
            BY <1>4 DEF PagingInv, PagesKept, PageRequests
      <2> HIDE DEF g
      <2>4. /\ g \in Chats(recorded)
            /\ g.crossed \/ Whole(recorded, g.list, g.next)
            /\ g.crossed \/ history.next = g.next
            /\ recorded \in SUBSET Ids
            BY <2>1 DEF PagingInv, ListWhole, Chats
      <2>5. /\ history' \in Chats(recorded) /\ history'.open
            /\ history'.crossed \/ Whole(recorded, history'.list, history'.next)
            BY <1>1, <2>1, <2>2, <2>3, <2>4, AppendWhole DEF Chats
      <2>6. MoreAsked'
            BY <1>3, <2>2, <2>5 DEF PagingInv, MoreAsked
      <2> QED BY <1>1, <2>2, <2>5, <2>6 DEF PagingInv, PagesKept, ChatType, ListWhole, Chats, PageRequests
<1>5. CASE history.next \notin DOMAIN sessionCache
      <2> DEFINE a == Ask("more", history.next)
      <2>1. /\ history' = [history EXCEPT !.loading = TRUE, !.error = FALSE]
            /\ requests' = requests \cup {a}
            BY <1>5 DEF LoadMore
      <2>2. a \in PageRequests /\ a.page = Unanswered /\ a.owner = "more" /\ a.cursor = history.next
            BY <1>2, AskType
      <2> HIDE DEF a
      <2>3. /\ history' \in Chats(recorded) /\ history'.open = history.open /\ history'.loading = TRUE
            /\ history'.list = history.list /\ history'.next = history.next
            /\ history'.crossed = history.crossed
            BY <1>2, <2>1 DEF Chats
      <2>4. PagesKept'
            BY <1>1, <2>1, <2>2 DEF PagingInv, PagesKept, PageRequests
      <2>5. \A r \in requests' : r.owner = "more" => r = a
            BY <1>3, <2>1
      <2>6. history'.loading /\ history'.open
            BY <1>1, <2>3
      <2>7. \A r \in requests' : r.owner = "overview" => r.cursor = First
            BY <2>1, <2>2 DEF PagingInv, MoreAsked
      <2>8. MoreAsked'
            BY <1>1, <2>2, <2>3, <2>5, <2>6, <2>7 DEF MoreAsked
      <2> QED BY <1>1, <2>3, <2>4, <2>8 DEF PagingInv, ChatType, ListWhole, Chats
<1> QED BY <1>4, <1>5

\* A response is kept; it resets the list, extends it, or is of no interest.
LEMMA ResponseKeeps ==
    ASSUME PagingInv, NEW r \in requests, ResponseArrives(r)
    PROVE  PagingInv'
<1>1. /\ r.page # Unanswered
      /\ requests' = requests \ {r}
      /\ sessionCache' = With(sessionCache, r.cursor, r.page)
      /\ UNCHANGED <<recorded, edge, puts>>
      BY DEF ResponseArrives
<1>2. r \in PageRequests /\ Answers(recorded, r.page, r.cursor)
      BY <1>1 DEF PagingInv, PagesKept, PageRequests
<1>3. PagesKept'
      <2>1. \A c \in DOMAIN sessionCache' : Answers(recorded, sessionCache'[c], c)
            BY <1>1, <1>2, CachesAnswer DEF PagingInv, PagesKept, PageRequests
      <2> QED BY <1>1, <2>1 DEF PagingInv, PagesKept, PageRequests
<1>4. r.owner \in {"overview", "more", "nobody"}
      BY <1>2 DEF PageRequests
<1>5. CASE r.owner = "overview"
      <2>1. history' = Reset(history, r.page)
            BY <1>5 DEF ResponseArrives
      <2>2. r.cursor = First
            BY <1>5 DEF PagingInv, MoreAsked
      <2>3. /\ history' \in Chats(recorded)
            /\ history'.open = history.open /\ history'.loading = history.loading
            /\ Whole(recorded, history'.list, history'.next)
            /\ history.crossed => history'.crossed
            /\ history.loading => history'.crossed \/ history'.next = history.next
            BY <1>2, <2>1, <2>2, ResetWhole DEF Chats
      <2>4. MoreAsked'
            BY <1>1, <2>3 DEF PagingInv, MoreAsked
      <2> QED BY <1>1, <1>3, <2>3, <2>4 DEF PagingInv, ChatType, ListWhole, Chats
<1>6. CASE r.owner = "more"
      <2>1. history' = AppendPage(history, r.page)
            BY <1>6 DEF ResponseArrives
      <2>2. r.cursor # First /\ (history.crossed \/ r.cursor = history.next)
            BY <1>6 DEF PagingInv, MoreAsked
      <2>3. /\ history' \in Chats(recorded)
            /\ history'.open = history.open
            /\ history'.crossed \/ Whole(recorded, history'.list, history'.next)
            BY <1>2, <2>1, <2>2, AppendWhole DEF Chats, PagingInv, ChatType, ListWhole
      <2>4. /\ \A s \in requests' : s.owner # "more" /\ (s.owner = "overview" => s.cursor = First)
            /\ history.loading /\ history.open
            BY <1>1, <1>6 DEF PagingInv, MoreAsked
      <2>5. MoreAsked'
            BY <2>3, <2>4 DEF MoreAsked
      <2> QED BY <1>1, <1>3, <2>3, <2>5 DEF PagingInv, ChatType, ListWhole, Chats
<1>7. CASE r.owner = "nobody"
      <2>1. history' = history
            BY <1>7 DEF ResponseArrives
      <2>2. MoreAsked'
            BY <1>1, <2>1 DEF PagingInv, MoreAsked
      <2> QED BY <1>1, <1>3, <2>1, <2>2 DEF PagingInv, ChatType, ListWhole, Chats
<1> QED BY <1>4, <1>5, <1>6, <1>7

\* A request that fails leaves the list and its cursor.
LEMMA FailureKeeps ==
    ASSUME PagingInv, NEW r \in requests, RequestFailed(r)
    PROVE  PagingInv'
<1>1. requests' = requests \ {r} /\ UNCHANGED <<recorded, edge, puts, sessionCache>>
      BY DEF RequestFailed
<1>2. history \in Chats(recorded) /\ (~history.ready) \in BOOLEAN
      BY DEF PagingInv, ChatType, Chats
<1>3. r.owner \in {"overview", "more", "nobody"}
      BY DEF PagingInv, PagesKept, PageRequests
<1>4. PagesKept'
      BY <1>1 DEF PagingInv, PagesKept, PageRequests
<1>5. /\ history' \in Chats(recorded) /\ history'.open = history.open
      /\ history'.list = history.list /\ history'.next = history.next
      /\ history'.crossed = history.crossed
      /\ history'.loading = history.loading \/ (r.owner = "more" /\ history'.loading = FALSE)
      <2>1. CASE r.owner = "overview"
            <3>1. history' = [history EXCEPT !.failed = ~history.ready]
                  BY <2>1 DEF RequestFailed
            <3> QED BY <1>2, <3>1 DEF Chats
      <2>2. CASE r.owner = "more"
            <3>1. history' = [history EXCEPT !.error = TRUE, !.loading = FALSE]
                  BY <2>2 DEF RequestFailed
            <3> QED BY <1>2, <2>2, <3>1 DEF Chats
      <2>3. CASE r.owner = "nobody"
            BY <1>2, <2>3 DEF RequestFailed
      <2> QED BY <1>3, <2>1, <2>2, <2>3
<1>6. MoreAsked'
      <2>1. CASE history'.loading = history.loading
            BY <1>1, <1>5, <2>1 DEF PagingInv, MoreAsked
      <2>2. CASE r.owner = "more" /\ history'.loading = FALSE
            <3>1. \A s \in requests' : s.owner # "more"
                  BY <1>1, <2>2 DEF PagingInv, MoreAsked
            <3>2. ~history'.loading
                  BY <2>2
            <3> QED BY <1>1, <3>1, <3>2 DEF PagingInv, MoreAsked
      <2> QED BY <1>5, <2>1, <2>2
<1> QED BY <1>1, <1>4, <1>5, <1>6 DEF PagingInv, ChatType, ListWhole, Chats

\* Another try asks for the overview only.
LEMMA ReloadKeeps == ASSUME PagingInv, ReloadOverview PROVE PagingInv'
<1> DEFINE a == Ask("overview", First)
<1>1. /\ history' = [history EXCEPT !.failed = FALSE]
      /\ requests' = requests \cup {a}
      /\ UNCHANGED <<recorded, edge, puts, sessionCache>>
      BY DEF ReloadOverview
<1>2. a \in PageRequests /\ a.page = Unanswered /\ a.owner = "overview" /\ a.cursor = First
      BY AskType DEF Cursors
<1> HIDE DEF a
<1>3. /\ history' \in Chats(recorded) /\ history'.open = history.open
      /\ history'.loading = history.loading
      /\ history'.list = history.list /\ history'.next = history.next
      /\ history'.crossed = history.crossed
      BY <1>1 DEF PagingInv, ChatType, Chats
<1>4. PagesKept'
      BY <1>1, <1>2 DEF PagingInv, PagesKept, PageRequests
<1>5. MoreAsked'
      BY <1>1, <1>2, <1>3 DEF PagingInv, MoreAsked
<1> QED BY <1>1, <1>3, <1>4, <1>5 DEF PagingInv, ChatType, ListWhole, Chats

\* What is under way when the page is closed is nobody's.
LEMMA CloseKeeps == ASSUME PagingInv, CloseChat PROVE PagingInv'
<1>1. /\ history' = [ClosedChat EXCEPT !.visits = history.visits]
      /\ requests' = {[r EXCEPT !.owner = "nobody"] : r \in requests}
      /\ UNCHANGED <<recorded, edge, puts, sessionCache>>
      BY DEF CloseChat
<1>2. \A s \in requests' :
        \E r \in requests : /\ r \in PageRequests /\ s \in PageRequests
                            /\ s.owner = "nobody" /\ s.cursor = r.cursor /\ s.page = r.page
      BY <1>1 DEF PagingInv, PagesKept, PageRequests
<1>3. PagesKept'
      BY <1>1, <1>2 DEF PagingInv, PagesKept, PageRequests
<1>4. /\ history' \in Chats(recorded) /\ history'.loading = FALSE
      /\ history'.list = <<>> /\ history'.next = First
      <2>1. /\ ClosedChat \in Chats(recorded) /\ ClosedChat.loading = FALSE
            /\ ClosedChat.list = <<>> /\ ClosedChat.next = First
            BY DEF ClosedChat, Chats, Cursors
      <2>2. history.visits \in Nat
            BY DEF PagingInv, ChatType, Chats
      <2> HIDE DEF ClosedChat
      <2> QED BY <1>1, <2>1, <2>2 DEF Chats
<1>5. MoreAsked'
      <2>1. ~history'.loading
            BY <1>4
      <2> QED BY <1>2, <2>1 DEF MoreAsked
<1>6. ListWhole'
      BY <1>4 DEF ListWhole, Whole
<1> QED BY <1>1, <1>3, <1>4, <1>5, <1>6 DEF PagingInv, ChatType, Chats

\* Every step keeps the invariant of the list.
LEMMA PagingStep == PagingInv /\ [HistoryNext]_pagingVars => PagingInv'
<1> SUFFICES ASSUME PagingInv, [HistoryNext]_pagingVars PROVE PagingInv'
    OBVIOUS
<1>1. CASE RecordSummary
      BY <1>1, RecordKeeps
<1>2. CASE PutDone
      BY <1>2, PutKeeps
<1>3. CASE EdgeExpires \/ SessionExpires
      BY <1>3, ExpiryKeeps
<1>4. CASE OpenChat
      BY <1>4, OpenKeeps
<1>5. CASE LoadMore
      BY <1>5, LoadMoreKeeps
<1>6. CASE ReloadOverview
      BY <1>6, ReloadKeeps
<1>7. CASE CloseChat
      BY <1>7, CloseKeeps
<1>8. ASSUME NEW r \in requests, Fetch(r) PROVE PagingInv'
      BY <1>8, FetchKeeps
<1>9. ASSUME NEW r \in requests, ResponseArrives(r) PROVE PagingInv'
      BY <1>9, ResponseKeeps
<1>10. ASSUME NEW r \in requests, RequestFailed(r) PROVE PagingInv'
       BY <1>10, FailureKeeps
<1>11. CASE UNCHANGED pagingVars
       BY <1>11 DEF pagingVars, PagingInv, ChatType, PagesKept, MoreAsked, ListWhole, Chats, PageRequests
<1> QED BY <1>1, <1>2, <1>3, <1>4, <1>5, <1>6, <1>7, <1>8, <1>9, <1>10, <1>11 DEF HistoryNext

\* A list that is whole is what the reader should see.
LEMMA WholeIsListed == PagingInv => ListStaysWhole
<1> SUFFICES ASSUME PagingInv, ~history.crossed, history.list # <<>>
             PROVE  ListStaysWhole
    BY DEF ListStaysWhole
<1> DEFINE list == history.list
           last == list[Len(list)]
<1>1. Whole(recorded, list, history.next) /\ list \in Seq(Ids) /\ recorded \in SUBSET Ids
      BY DEF PagingInv, ListWhole, ChatType, Chats
<1>2. \A i, j \in DOMAIN list : i < j => Newer(list[i], list[j])
      BY <1>1 DEF Whole
<1>3. last \in Ids
      BY <1>1
<1>4. ASSUME NEW id \in recorded, Upto(id, list[1]),
             history.next = First \/ Upto(last, id) \/ id = last
      PROVE  id \in Range(list)
      <2>1. Upto(last, id)
            <3>1. history.next = First => ~Newer(last, id)
                  BY <1>1 DEF Whole
            <3> QED BY <1>1, <1>3, <1>4, <3>1, NewerOrder DEF Upto
      <2> QED BY <1>1, <1>4, <2>1 DEF Whole
<1> HIDE DEF list, last
<1>5. \A id \in recorded :
         /\ id = list[1] \/ Newer(list[1], id)
         /\ history.next = First \/ id = last \/ Newer(id, last)
         => id \in Range(list)
      BY <1>4 DEF Upto
<1> QED BY <1>2, <1>5 DEF ListStaysWhole, list, last

\* Pages read at any time, from the database, the edge or the session,
\* make a list without a gap or a repetition, unless an overview replaced
\* the list while an older cursor's page was under way.
THEOREM ListSafe == HistorySpec => []ListStaysWhole
<1>1. HistoryInit => PagingInv
      BY PagingStart
<1>2. PagingInv /\ [HistoryNext]_pagingVars => PagingInv'
      BY PagingStep
<1>3. PagingInv => ListStaysWhole
      BY WholeIsListed
<1> QED BY <1>1, <1>2, <1>3, PTL DEF HistorySpec

-----------------------------------------------------------------------------
(***************************************************************************)
(* The updates of Telegram.                                                *)
(***************************************************************************)
(* Every row is what some update says, handlers wait only for updates that *)
(* are stored, and what was accepted has been stored.                      *)
RowsAreSaid ==
  \A row \in messages : \E u \in posted :
     ~IsSummaryCommand(u) /\ IsChatMessage(u) /\ row = ChatMessage(u)

CreatedWereOrdered ==
  \A c \in created : \E u \in posted : IsSummaryCommand(u) /\ c = SummaryCommandOf(u)

LaunchersWereAsked ==
  \A l \in launchers : \E u \in posted : IsAppCommand(u) /\ l = Launcher(u)

AwaitingIsStored ==
  \A u \in posted : awaiting[u] > 0 => IsSummaryCommand(u) \/ IsChatMessage(u)

AnsweredIsStored ==
  \A u \in answered :
     /\ IsSummaryCommand(u) => \E c \in created : SameCommand(c, u)
     /\ ~IsSummaryCommand(u) /\ IsChatMessage(u) => \E row \in messages : SameMessage(row, u)

UpdatesTypeOK ==
  /\ posted \in Batches
  /\ awaiting \in [posted -> Nat]
  /\ answered \subseteq posted

UpdatesInv ==
  /\ UpdatesTypeOK
  /\ RowsAreSaid /\ CreatedWereOrdered /\ LaunchersWereAsked
  /\ AwaitingIsStored /\ AnsweredIsStored

-----------------------------------------------------------------------------
(* The adapters exclude one another.                                       *)
LEMMA OneAdapter ==
  ASSUME NEW u
  PROVE  /\ ~(IsAppCommand(u) /\ IsSummaryCommand(u))
         /\ ~(IsAppCommand(u) /\ IsChatMessage(u))
         /\ ~(IsSummaryCommand(u) /\ IsChatMessage(u))
  BY DEF IsAppCommand, IsSummaryCommand, IsChatMessage, IsCommand

(* A row and a run carry the id of their update.                           *)
LEMMA Keys ==
  ASSUME NEW u
  PROVE  /\ SameMessage(ChatMessage(u), u)
         /\ SameCommand(SummaryCommandOf(u), u)
         /\ \A v : SameMessage(ChatMessage(v), u) <=> SameId(u, v)
         /\ \A v : SameCommand(SummaryCommandOf(v), u) <=> SameId(u, v)
  BY DEF SameMessage, SameCommand, ChatMessage, SummaryCommandOf, SameId

(* What an adapter of the history or of /summary takes has an id that no   *)
(* other update of the batch has.                                          *)
LEMMA IdsAreUnique ==
  ASSUME UpdatesTypeOK, NEW u \in posted, NEW v \in posted, SameId(u, v),
         IsSummaryCommand(u) \/ IsChatMessage(u), IsSummaryCommand(v) \/ IsChatMessage(v)
  PROVE  u = v
  BY BatchesAreSent DEF UpdatesTypeOK, IsSummaryCommand, IsChatMessage, IsCommand, IsMessage

LEMMA UpdatesStart == UpdatesInit => UpdatesInv
  BY DEF UpdatesInit, UpdatesInv, UpdatesTypeOK, RowsAreSaid, CreatedWereOrdered,
         LaunchersWereAsked, AwaitingIsStored, AnsweredIsStored

LEMMA UpdatesStep == UpdatesInv /\ [UpdatesNext]_updatesVars => UpdatesInv'
<1>. SUFFICES ASSUME UpdatesInv, [UpdatesNext]_updatesVars PROVE UpdatesInv'
  OBVIOUS
<1>0. CASE UNCHANGED updatesVars
  BY <1>0 DEF updatesVars, UpdatesInv, UpdatesTypeOK, RowsAreSaid, CreatedWereOrdered,
              LaunchersWereAsked, AwaitingIsStored, AnsweredIsStored
<1>1. ASSUME NEW u \in posted, HandleTelegramWebhook(u) PROVE UpdatesInv'
  <2>1. UpdatesTypeOK'
    BY <1>1 DEF HandleTelegramWebhook, Accepted, UpdatesInv, UpdatesTypeOK
  <2>2. RowsAreSaid' /\ CreatedWereOrdered'
    BY <1>1 DEF HandleTelegramWebhook, UpdatesInv, RowsAreSaid, CreatedWereOrdered
  <2>3. LaunchersWereAsked'
    BY <1>1 DEF HandleTelegramWebhook, UpdatesInv, LaunchersWereAsked
  <2>4. AwaitingIsStored'
    BY <1>1 DEF HandleTelegramWebhook, UpdatesInv, UpdatesTypeOK, AwaitingIsStored
  <2>5. AnsweredIsStored'
    BY <1>1, OneAdapter DEF HandleTelegramWebhook, Accepted, UpdatesInv, AnsweredIsStored
  <2>. QED
    BY <2>1, <2>2, <2>3, <2>4, <2>5 DEF UpdatesInv
<1>2. ASSUME NEW u \in posted, AcceptSummaryCommand(u) PROVE UpdatesInv'
  <2>1. UpdatesTypeOK'
    BY <1>2 DEF AcceptSummaryCommand, Accepted, UpdatesInv, UpdatesTypeOK
  <2>2. RowsAreSaid' /\ LaunchersWereAsked'
    BY <1>2 DEF AcceptSummaryCommand, UpdatesInv, RowsAreSaid, LaunchersWereAsked
  <2>3. CreatedWereOrdered'
    BY <1>2 DEF AcceptSummaryCommand, UpdatesInv, CreatedWereOrdered
  <2>4. AwaitingIsStored'
    BY <1>2 DEF AcceptSummaryCommand, UpdatesInv, UpdatesTypeOK, AwaitingIsStored
  <2>5. \E c \in created' : SameCommand(c, u)
    BY <1>2, Keys DEF AcceptSummaryCommand
  <2>6. AnsweredIsStored'
    BY <1>2, <2>5 DEF AcceptSummaryCommand, Accepted, UpdatesInv, AnsweredIsStored
  <2>. QED
    BY <2>1, <2>2, <2>3, <2>4, <2>6 DEF UpdatesInv
<1>3. ASSUME NEW u \in posted, PersistTelegramMessage(u) PROVE UpdatesInv'
  <2>1. UpdatesTypeOK'
    BY <1>3 DEF PersistTelegramMessage, Accepted, UpdatesInv, UpdatesTypeOK
  <2>2. IsChatMessage(u) /\ ~IsSummaryCommand(u)
    BY <1>3 DEF PersistTelegramMessage, UpdatesInv, AwaitingIsStored
  <2>3. RowsAreSaid'
    BY <1>3, <2>2 DEF PersistTelegramMessage, UpdatesInv, RowsAreSaid
  <2>4. CreatedWereOrdered' /\ LaunchersWereAsked'
    BY <1>3 DEF PersistTelegramMessage, UpdatesInv, CreatedWereOrdered, LaunchersWereAsked
  <2>5. AwaitingIsStored'
    BY <1>3 DEF PersistTelegramMessage, UpdatesInv, UpdatesTypeOK, AwaitingIsStored
  <2>6. \E row \in messages' : SameMessage(row, u)
    BY <1>3, Keys DEF PersistTelegramMessage
  <2>7. ASSUME NEW v, \E row \in messages : SameMessage(row, v)
        PROVE  \E row \in messages' : SameMessage(row, v)
    BY <1>3, <2>6, <2>7 DEF PersistTelegramMessage, SameMessage
  <2>8. AnsweredIsStored'
    <3>. SUFFICES ASSUME NEW v \in answered',
                         IsSummaryCommand(v) \/ IsChatMessage(v)
                  PROVE  /\ IsSummaryCommand(v) => \E c \in created' : SameCommand(c, v)
                         /\ ~IsSummaryCommand(v) => \E row \in messages' : SameMessage(row, v)
      BY DEF AnsweredIsStored
    <3>1. CASE v = u
      BY <3>1, <2>2, <2>6
    <3>2. CASE v \in answered
      BY <1>3, <3>2, <2>7 DEF PersistTelegramMessage, UpdatesInv, AnsweredIsStored
    <3>. QED
      BY <1>3, <3>1, <3>2 DEF PersistTelegramMessage, Accepted
  <2>. QED
    BY <2>1, <2>3, <2>4, <2>5, <2>8 DEF UpdatesInv
<1>4. ASSUME NEW u \in posted, StorageFails(u) PROVE UpdatesInv'
  BY <1>4 DEF StorageFails, UpdatesInv, UpdatesTypeOK, RowsAreSaid, CreatedWereOrdered,
              LaunchersWereAsked, AwaitingIsStored, AnsweredIsStored
<1>. QED
  BY <1>0, <1>1, <1>2, <1>3, <1>4 DEF UpdatesNext

-----------------------------------------------------------------------------
(* What is stored is what members meant.                                   *)
LEMMA UpdatesMeaning == UpdatesInv => UpdatesLandOnce
<1>. SUFFICES ASSUME UpdatesInv PROVE UpdatesLandOnce
  OBVIOUS
<1>. USE DEF UpdatesInv
<1>0. \A u \in posted : SentByTelegram(u)
  BY BatchesAreSent DEF UpdatesTypeOK
<1>1. ASSUME NEW row \in messages
      PROVE  /\ \E u \in posted : row = ChatMessage(u) /\ SaysSomething(u)
             /\ \A other \in messages : other.chatId = row.chatId /\ other.id = row.id => other = row
             /\ \A c \in created : ~(c.chatId = row.chatId /\ c.commandMessageId = row.id)
  <2>1. PICK u \in posted : ~IsSummaryCommand(u) /\ IsChatMessage(u) /\ row = ChatMessage(u)
    BY DEF RowsAreSaid
  <2>2. SaysSomething(u)
    BY <2>1 DEF IsChatMessage, SaysSomething, SpokenText
  <2>3. ASSUME NEW other \in messages, other.chatId = row.chatId, other.id = row.id
        PROVE  other = row
    <3>1. PICK v \in posted : IsChatMessage(v) /\ other = ChatMessage(v)
      BY DEF RowsAreSaid
    <3>2. SameId(u, v)
      BY <2>1, <2>3, <3>1 DEF ChatMessage, SameId
    <3>. QED
      BY <2>1, <3>1, <3>2, IdsAreUnique
  <2>4. ASSUME NEW c \in created, c.chatId = row.chatId, c.commandMessageId = row.id
        PROVE  FALSE
    <3>1. PICK v \in posted : IsSummaryCommand(v) /\ c = SummaryCommandOf(v)
      BY DEF CreatedWereOrdered
    <3>2. SameId(u, v)
      BY <2>1, <2>4, <3>1 DEF ChatMessage, SummaryCommandOf, SameId
    <3>. QED
      BY <2>1, <3>1, <3>2, IdsAreUnique
  <2>. QED
    BY <2>1, <2>2, <2>3, <2>4
<1>2. ASSUME NEW c \in created
      PROVE  /\ \E u \in posted : c = SummaryCommandOf(u) /\ OrdersSummary(u)
             /\ c.mode = "count" => c.count \in 1 .. MAX_REQUESTED_COUNT
             /\ \A other \in created :
                   other.chatId = c.chatId /\ other.commandMessageId = c.commandMessageId => other = c
  <2>1. PICK u \in posted : IsSummaryCommand(u) /\ c = SummaryCommandOf(u)
    BY DEF CreatedWereOrdered
  <2>2. OrdersSummary(u)
    BY <2>1, <1>0 DEF IsSummaryCommand, IsCommand, CommandEntity, ForUs, OrdersSummary, Orders, SentByTelegram
  <2>3. c.mode = "count" => c.count \in 1 .. MAX_REQUESTED_COUNT
    BY <2>1 DEF IsSummaryCommand, SummaryArgs, SummaryCommandOf
  <2>4. ASSUME NEW other \in created, other.chatId = c.chatId,
               other.commandMessageId = c.commandMessageId
        PROVE  other = c
    <3>1. PICK v \in posted : IsSummaryCommand(v) /\ other = SummaryCommandOf(v)
      BY DEF CreatedWereOrdered
    <3>2. SameId(u, v)
      BY <2>1, <2>4, <3>1 DEF SummaryCommandOf, SameId
    <3>. QED
      BY <2>1, <3>1, <3>2, IdsAreUnique
  <2>. QED
    BY <2>1, <2>2, <2>3, <2>4
<1>3. ASSUME NEW l \in launchers
      PROVE  \E u \in posted : /\ OrdersApp(u) /\ u.chatId = l.chatId
                               /\ u.chatType = "private" \/ l.to = u.from
  <2>1. PICK u \in posted : IsAppCommand(u) /\ l = Launcher(u)
    BY DEF LaunchersWereAsked
  <2>2. OrdersApp(u)
    BY <2>1, <1>0 DEF IsAppCommand, IsCommand, CommandEntity, ForUs, OrdersApp, Orders, SentByTelegram
  <2>. QED
    BY <2>1, <2>2 DEF IsAppCommand, Launcher
<1>4. ASSUME NEW u \in answered, IsMessage(u), u.messageId > 0
      PROVE  /\ SaysSomething(u) => \E row \in messages : SameMessage(row, u)
             /\ OrdersSummary(u) /\ SummaryArgs(u.text.args) => \E c \in created : SameCommand(c, u)
  <2>1. PositiveInteger(u.messageId) /\ SentByTelegram(u)
    BY <1>4, <1>0 DEF IsMessage, NonNegativeInteger, PositiveInteger, UpdatesTypeOK
  <2>2. ASSUME SaysSomething(u) PROVE IsChatMessage(u)
    <3>1. PICK said \in {u.text, u.caption} \ {Absent} : ~said.blank /\ ~said.slash
      BY <2>2 DEF SaysSomething
    <3>2. said = SpokenText(u)
      BY <2>1, <3>1 DEF SpokenText, SentByTelegram
    <3>3. ~CommandEntity(u)
      BY <2>1, <3>1, <3>2 DEF SpokenText, SentByTelegram, CommandEntity
    <3>. QED
      BY <1>4, <2>1, <3>1, <3>2, <3>3 DEF IsChatMessage
  <2>3. ASSUME OrdersSummary(u), SummaryArgs(u.text.args) PROVE IsSummaryCommand(u)
    BY <1>4, <2>1, <2>3 DEF OrdersSummary, Orders, IsSummaryCommand, IsCommand, CommandEntity, ForUs, SentByTelegram
  <2>. QED
    BY <2>2, <2>3, OneAdapter DEF AnsweredIsStored
<1>. QED
  BY <1>1, <1>2, <1>3, <1>4 DEF UpdatesLandOnce

(* The history and the runs are what members meant, each once, for any     *)
(* updates and however often they are delivered.                           *)
THEOREM UpdatesLand == UpdatesSpec => []UpdatesLandOnce
<1>1. UpdatesSpec => []UpdatesInv
  BY UpdatesStart, UpdatesStep, PTL DEF UpdatesSpec
<1>. QED
  BY <1>1, UpdatesMeaning, PTL
=============================================================================
