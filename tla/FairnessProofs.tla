--------------------------- MODULE FairnessProofs ---------------------------
(***************************************************************************)
(* Proofs about Fairness, for every value of its constants: how long a     *)
(* batch may pass over an item it could serve, and that fan-out takes      *)
(* what the others leave.                                                  *)
(*                                                                         *)
(* A batch is defined by folds.  What they compute is established by       *)
(* induction, and every induction is an appeal to a smallest               *)
(* counterexample: NatMinimum, or WFMin of the library.                    *)
(***************************************************************************)
EXTENDS Fairness, FiniteSetTheorems, TLAPS

-----------------------------------------------------------------------------
(* Induction.                                                              *)

\* A set of naturals has a least member.
LEMMA NatMinimum ==
    ASSUME NEW T \in SUBSET Nat, T # {}
    PROVE  \E m \in T : \A k \in T : m <= k
<1> DEFINE R == {p \in Nat \X Nat : p[1] < p[2]}
<1>1. IsWellFoundedOn(R, Nat)
  BY NatLessThanWellFounded DEF OpToRel
<1>2. PICK m \in T : \A k \in T : <<k, m>> \notin R
  BY <1>1, WFMin
<1>3. \A k \in T : ~(k < m)
  <2>1. \A k \in T : k < m => <<k, m>> \in R
    OBVIOUS
  <2> QED
    BY <1>2, <2>1
<1> QED
  BY <1>3

\* What holds of 0, and of n + 1 if of n, holds up to the bound.
LEMMA UpTo ==
    ASSUME NEW n \in Nat, NEW T, 0 \in T,
           \A k \in 0..(n - 1) : k \in T => k + 1 \in T
    PROVE  \A k \in 0..n : k \in T
<1>1. SUFFICES ASSUME (0..n) \ T # {}
               PROVE  FALSE
  OBVIOUS
<1>2. PICK m \in (0..n) \ T : \A k \in (0..n) \ T : m <= k
  <2>1. (0..n) \ T \in SUBSET Nat
    OBVIOUS
  <2> QED
    BY <1>1, <2>1, NatMinimum
<1>3. m # 0 /\ m - 1 \in 0..(n - 1) /\ m - 1 \in T
  BY <1>2
<1> QED
  BY <1>2, <1>3

\* What holds of the empty set, and of a set if of the set without any one
\* member, holds of the subsets of a finite set.
LEMMA SubsetInduction ==
    ASSUME NEW S, IsFiniteSet(S), NEW T, {} \in T,
           \A s \in SUBSET S : s # {} /\ (\A x \in s : s \ {x} \in T) => s \in T
    PROVE  \A s \in SUBSET S : s \in T
<1>1. SUFFICES ASSUME (SUBSET S) \ T # {}
               PROVE  FALSE
  OBVIOUS
<1>2. (SUBSET S) \ T \subseteq FiniteSubsetsOf(S)
  BY FS_FiniteSubsetsOfFinite
<1>3. PICK U \in (SUBSET S) \ T :
         \A V \in (SUBSET S) \ T : <<V, U>> \notin StrictSubsetOrdering(S)
  BY <1>1, <1>2, FS_StrictSubsetOrderingWellFounded, WFMin
<1>4. ASSUME NEW x \in U
      PROVE  U \ {x} \in T
  <2>1. <<U \ {x}, U>> \in StrictSubsetOrdering(S)
    BY <1>3 DEF StrictSubsetOrdering
  <2> QED
    BY <1>3, <2>1
<1> QED
  BY <1>3, <1>4

\* A finite set of integers has a greatest member, which Max picks.
LEMMA MaxPicks ==
    ASSUME NEW S \in SUBSET Int, IsFiniteSet(S), S # {}
    PROVE  /\ Max(S) \in S
           /\ \A y \in S : Max(S) >= y
<1> DEFINE T == {U \in SUBSET S : U # {} => \E x \in U : \A y \in U : x >= y}
<1>1. {} \in T
  OBVIOUS
<1>2. ASSUME NEW U \in SUBSET S, U # {}, \A x \in U : U \ {x} \in T
      PROVE  U \in T
  <2>1. PICK x \in U : TRUE
    BY <1>2
  <2>2. CASE U \ {x} = {}
    BY <2>1, <2>2
  <2>3. CASE U \ {x} # {}
    <3>1. PICK z \in U \ {x} : \A y \in U \ {x} : z >= y
      BY <1>2, <2>1, <2>3
    <3>2. x \in Int /\ z \in Int /\ U \subseteq Int
      BY <2>1, <3>1
    <3>3. CASE x >= z
      BY <2>1, <3>1, <3>2, <3>3
    <3>4. CASE ~(x >= z)
      BY <2>1, <3>1, <3>2, <3>4
    <3> QED
      BY <3>3, <3>4
  <2> QED
    BY <2>2, <2>3
<1>3. \A U \in SUBSET S : U \in T
  <2> HIDE DEF T
  <2> QED
    BY <1>1, <1>2, SubsetInduction
<1>4. \E x \in S : \A y \in S : x >= y
  BY <1>3
<1> QED
  BY <1>4 DEF Max

LEMMA MaxOfTwo ==
    ASSUME NEW a \in Int, NEW b \in Int
    PROVE  Max({a, b}) = IF a >= b THEN a ELSE b
  BY DEF Max

LEMMA MinOfTwo ==
    ASSUME NEW a \in Int, NEW b \in Int
    PROVE  Min({a, b}) = IF a =< b THEN a ELSE b
  BY DEF Min

-----------------------------------------------------------------------------
(* Folds and sorted sequences exist.                                       *)

\* g folds the subsets of D: ch picks the members, F applies them.
IsFold(g, D, ch, base, F) ==
    \A s \in SUBSET D : g[s] = IF s = {} THEN base ELSE F[ch[s]][g[s \ {ch[s]}]]

\* The equations of a fold over a finite set have a solution.
LEMMA FoldDefined ==
    ASSUME NEW D, IsFiniteSet(D),
           NEW ch, \A s \in SUBSET D : s # {} => ch[s] \in s,
           NEW V, NEW base \in V,
           NEW F, \A x \in D, v \in V : F[x][v] \in V
    PROVE  \E g \in [SUBSET D -> V] : IsFold(g, D, ch, base, F)
<1> DEFINE Small(n) == {s \in SUBSET D : Cardinality(s) <= n}
           Solves(g, n) == /\ g \in [Small(n) -> V]
                           /\ \A s \in Small(n) :
                                g[s] = IF s = {} THEN base ELSE F[ch[s]][g[s \ {ch[s]}]]
           T == {n \in Nat : \E g : Solves(g, n)}
<1>1. \A s \in SUBSET D : IsFiniteSet(s) /\ Cardinality(s) \in Nat
  BY FS_Subset, FS_CardinalityType
<1>2. 0 \in T
  <2>1. Small(0) = {{}}
    BY <1>1, FS_EmptySet
  <2>2. Solves([s \in Small(0) |-> base], 0)
    BY <2>1
  <2> QED
    BY <2>2
<1>3. ASSUME NEW k \in Nat, k \in T
      PROVE  k + 1 \in T
  <2>1. PICK g : Solves(g, k)
    BY <1>3
  <2> DEFINE h == [s \in Small(k + 1) |->
                      IF s = {} THEN base ELSE F[ch[s]][g[s \ {ch[s]}]]]
  <2>2. \A s \in Small(k + 1) : s # {} =>
           /\ ch[s] \in s /\ ch[s] \in D
           /\ s \ {ch[s]} \in Small(k)
    <3> SUFFICES ASSUME NEW s \in Small(k + 1), s # {}
                 PROVE  /\ ch[s] \in s /\ ch[s] \in D
                        /\ s \ {ch[s]} \in Small(k)
      OBVIOUS
    <3>1. ch[s] \in s
      OBVIOUS
    <3>2. Cardinality(s \ {ch[s]}) = Cardinality(s) - 1
      BY <1>1, <3>1, FS_RemoveElement
    <3> QED
      BY <1>1, <3>1, <3>2
  <2>3. \A s \in Small(k) : s \in Small(k + 1) /\ h[s] = g[s]
    <3>1. \A s \in Small(k) : s \in Small(k + 1)
      BY <1>1
    <3>2. \A s \in Small(k) :
             g[s] = IF s = {} THEN base ELSE F[ch[s]][g[s \ {ch[s]}]]
      BY <2>1
    <3> QED
      BY <3>1, <3>2
  <2>4. h \in [Small(k + 1) -> V]
    BY <2>1, <2>2
  <2>5. \A s \in Small(k + 1) :
           h[s] = IF s = {} THEN base ELSE F[ch[s]][h[s \ {ch[s]}]]
    BY <2>2, <2>3
  <2>6. \E f : Solves(f, k + 1)
    BY <2>4, <2>5
  <2> HIDE DEF Solves
  <2> QED
    BY <2>6
<1>4. Cardinality(D) \in T
  <2>1. Cardinality(D) \in Nat
    BY FS_CardinalityType
  <2> HIDE DEF T
  <2>2. \A k \in 0..(Cardinality(D) - 1) : k \in T => k + 1 \in T
    BY <1>3, <2>1
  <2> QED
    BY <1>2, <2>1, <2>2, UpTo
<1>5. PICK g : Solves(g, Cardinality(D))
  BY <1>4
<1>6. Small(Cardinality(D)) = SUBSET D
  BY FS_Subset
<1> QED
  BY <1>5, <1>6 DEF IsFold

\* A strict total order on a finite set sorts it: rank is by how many go before.
LEMMA SortedSequence ==
    ASSUME NEW S, IsFiniteSet(S), NEW R,
           \A i \in S : <<i, i>> \notin R,
           \A i, j, k \in S : <<i, j>> \in R /\ <<j, k>> \in R => <<i, k>> \in R,
           \A i, j \in S : i # j => <<i, j>> \in R \/ <<j, i>> \in R
    PROVE  \E s \in SetToSeqs(S) :
              \A x, y \in DOMAIN s : x < y => <<s[x], s[y]>> \in R
<1> DEFINE n == Cardinality(S)
           Before(i) == {j \in S : <<j, i>> \in R}
           rank == [i \in S |-> Cardinality(Before(i)) + 1]
<1>1. n \in Nat
  BY FS_CardinalityType
<1>2. \A i \in S : IsFiniteSet(Before(i)) /\ Cardinality(Before(i)) \in Nat
  BY FS_Subset, FS_CardinalityType
<1>3. \A i \in S : rank[i] \in 1..n
  <2>1. ASSUME NEW i \in S
        PROVE  Cardinality(Before(i)) + 1 \in 1..n
    <3>1. Before(i) \in SUBSET S /\ Before(i) # S
      OBVIOUS
    <3>2. Cardinality(Before(i)) <= n /\ Cardinality(Before(i)) # n
      BY <3>1, FS_Subset
    <3> QED
      BY <1>1, <1>2, <3>2
  <2> QED
    BY <2>1
<1>4. \A i, j \in S : <<i, j>> \in R => rank[i] < rank[j]
  <2>1. ASSUME NEW i \in S, NEW j \in S, <<i, j>> \in R
        PROVE  Cardinality(Before(i)) + 1 < Cardinality(Before(j)) + 1
    <3>1. Before(i) \in SUBSET Before(j) /\ Before(i) # Before(j)
      BY <2>1
    <3>2. /\ Cardinality(Before(i)) <= Cardinality(Before(j))
          /\ Cardinality(Before(i)) # Cardinality(Before(j))
      BY <1>2, <3>1, FS_Subset
    <3> QED
      BY <1>2, <3>2
  <2> QED
    BY <2>1
<1> HIDE DEF rank
<1>5. rank \in Injection(S, 1..n)
  <2>1. \A i \in S : ~(rank[i] < rank[i])
    BY <1>1, <1>3
  <2>3. \A i, j \in S : rank[i] = rank[j] => i = j
    BY <1>4, <2>1
  <2>2. rank \in [S -> 1..n]
    BY <1>3 DEF rank
  <2> QED
    BY <2>2, <2>3 DEF Injection, IsInjective
<1>6. rank \in Surjection(S, 1..n)
  <2>1. IsFiniteSet(1..n) /\ Cardinality(1..n) = n
    BY <1>1, FS_Interval
  <2> QED
    BY <1>5, <2>1, FS_Injection
<1> DEFINE s == [k \in 1..n |-> CHOOSE i \in S : rank[i] = k]
<1>7. \A k \in 1..n : s[k] \in S /\ rank[s[k]] = k
  BY <1>6 DEF Surjection
<1>8. s \in SetToSeqs(S)
  BY <1>7 DEF SetToSeqs
<1>9. ASSUME NEW x \in 1..n, NEW y \in 1..n, x < y
      PROVE  <<s[x], s[y]>> \in R
  <2>1. s[x] \in S /\ s[y] \in S /\ rank[s[x]] < rank[s[y]]
    BY <1>7, <1>9
  <2>2. rank[s[x]] \in 1..n /\ rank[s[y]] \in 1..n
    BY <1>3, <2>1
  <2> HIDE DEF s
  <2>3. s[x] # s[y] /\ ~(rank[s[y]] < rank[s[x]])
    BY <1>1, <2>1, <2>2
  <2> QED
    BY <1>4, <2>1, <2>3
<1> QED
  BY <1>8, <1>9

-----------------------------------------------------------------------------
(* A batch so far, and what reaching one item makes of it.                 *)

BatchState ==
    [running : [Item -> Nat], passed : [Item -> 0..CounterMax], assigned : Nat]

\* Every outcome of reaching an item is one of three.
LEMMA ReachedCases ==
    ASSUME NEW b \in BatchState, NEW i \in Item,
           NEW request, NEW answers, NEW first
    PROVE  Reached(b, i, request, answers, first) \in {b, Charged(b, i), Served(b, i)}
  BY DEF Reached

\* The counter of the charged item, and nothing else, goes up.
LEMMA ChargedItem ==
    ASSUME NEW b \in BatchState, NEW i \in Item
    PROVE  /\ Charged(b, i) \in BatchState
           /\ Charged(b, i).running = b.running
           /\ Charged(b, i).assigned = b.assigned
           /\ \A j \in Item \ {i} : Charged(b, i).passed[j] = b.passed[j]
           /\ Charged(b, i).passed[i] <= b.passed[i] + 1
           /\ b.passed[i] < CounterMax => Charged(b, i).passed[i] = b.passed[i] + 1
<1>1. b.passed[i] + 1 \in Int /\ CounterMax \in Int /\ b.passed[i] \in 0..CounterMax
  BY Inputs DEF BatchState
<1>2. Min({b.passed[i] + 1, CounterMax}) =
          IF b.passed[i] + 1 <= CounterMax THEN b.passed[i] + 1 ELSE CounterMax
  BY <1>1, MinOfTwo
<1> DEFINE m == Min({b.passed[i] + 1, CounterMax})
<1>3. /\ m \in 0..CounterMax /\ m <= b.passed[i] + 1
      /\ b.passed[i] < CounterMax => m = b.passed[i] + 1
  BY <1>1, <1>2
<1>4. Charged(b, i) = [b EXCEPT !.passed = [b.passed EXCEPT ![i] = m]]
  BY DEF Charged, BatchState
<1> HIDE DEF m
<1> QED
  BY <1>3, <1>4 DEF BatchState

\* A served item has one more assignment and starts over.
LEMMA ServedItem ==
    ASSUME NEW b \in BatchState, NEW i \in Item
    PROVE  /\ Served(b, i) \in BatchState
           /\ Served(b, i).running = [b.running EXCEPT ![i] = @ + 1]
           /\ Served(b, i).assigned = b.assigned + 1
           /\ Served(b, i).passed = [b.passed EXCEPT ![i] = 0]
<1>1. Served(b, i) = [b EXCEPT !.running = [b.running EXCEPT ![i] = @ + 1],
                               !.passed = [b.passed EXCEPT ![i] = 0],
                               !.assigned = b.assigned + 1]
  BY DEF Served, BatchState
<1>2. [b.running EXCEPT ![i] = @ + 1] \in [Item -> Nat]
  BY DEF BatchState
<1>3. [b.passed EXCEPT ![i] = 0] \in [Item -> 0..CounterMax]
  BY Inputs DEF BatchState
<1>4. b.assigned + 1 \in Nat
  BY DEF BatchState
<1> DEFINE r == [b.running EXCEPT ![i] = @ + 1]
           p == [b.passed EXCEPT ![i] = 0]
<1> HIDE DEF r, p
<1>5. Served(b, i) = [b EXCEPT !.running = r, !.passed = p, !.assigned = b.assigned + 1]
  BY <1>1 DEF r, p
<1>6. /\ Served(b, i) \in BatchState
      /\ Served(b, i).running = r
      /\ Served(b, i).passed = p
      /\ Served(b, i).assigned = b.assigned + 1
  BY <1>2, <1>3, <1>4, <1>5 DEF BatchState, r, p
<1> QED
  BY <1>6 DEF r, p

LEMMA ReachedTyped ==
    ASSUME NEW b \in BatchState, NEW i \in Item,
           NEW request, NEW answers, NEW first
    PROVE  Reached(b, i, request, answers, first) \in BatchState
<1>1. Reached(b, i, request, answers, first) \in {b, Charged(b, i), Served(b, i)}
  BY ReachedCases
<1> QED
  BY <1>1, ChargedItem, ServedItem

\* One pass, in the given order.
PassInOrder(b, order, request, answers, first) ==
    FoldLeft(LAMBDA acc, i : Reached(acc, i, request, answers, first), b, order)

\* run: the states that a pass goes through, one for each item it has reached.
IsRun(run, n, b, order, request, answers, first) ==
    /\ run[0] = b
    /\ \A k \in 1..n : run[k] = Reached(run[k - 1], order[k], request, answers, first)
    /\ run[n] = PassInOrder(b, order, request, answers, first)

LEMMA PassRuns ==
    ASSUME NEW b \in BatchState, NEW n \in Nat, NEW order \in [1..n -> Item],
           NEW request, NEW answers, NEW first
    PROVE  \E run \in [0..n -> BatchState] :
              IsRun(run, n, b, order, request, answers, first)
<1> DEFINE D == 1..n
           Step(v, x) == Reached(v, order[x], request, answers, first)
           Solves(f) == f = [s \in SUBSET D |->
                               IF s = {} THEN b ELSE Step(f[s \ {Max(s)}], Max(s))]
           it == CHOOSE f : Solves(f)
<1>1. \A x \in D, v \in BatchState : Step(v, x) \in BatchState
  BY ReachedTyped
<1>2. \A s \in SUBSET D : s # {} => Max(s) \in s /\ \A y \in s : Max(s) >= y
  <2> SUFFICES ASSUME NEW s \in SUBSET D, s # {}
               PROVE  Max(s) \in s /\ \A y \in s : Max(s) >= y
    OBVIOUS
  <2>1. IsFiniteSet(1..n)
    BY FS_Interval
  <2>2. s \in SUBSET Int /\ s \in SUBSET (1..n)
    OBVIOUS
  <2>3. IsFiniteSet(s)
    BY <2>1, <2>2, FS_Subset
  <2> QED
    BY <2>2, <2>3, MaxPicks
<1>3. PassInOrder(b, order, request, answers, first) = it[D]
  BY DEF PassInOrder, FoldLeft, MapThenFoldSet
<1> HIDE DEF Step
<1>4. Solves(it)
  <2> DEFINE ch == [s \in SUBSET D |-> Max(s)]
             F == [x \in D |-> [v \in BatchState |-> Step(v, x)]]
  <2>1. \A s \in SUBSET D : s # {} => ch[s] \in s
    BY <1>2
  <2>2. \A x \in D, v \in BatchState : F[x][v] \in BatchState
    BY <1>1
  <2>3. IsFiniteSet(D)
    BY FS_Interval
  <2>4. PICK g \in [SUBSET D -> BatchState] : IsFold(g, D, ch, b, F)
    <3> HIDE DEF ch, F, D, Solves, it
    <3> QED
      BY <2>1, <2>2, <2>3, FoldDefined
  <2>5. ASSUME NEW s \in SUBSET D, s # {}
        PROVE  g[s] = Step(g[s \ {Max(s)}], Max(s))
    <3>1. Max(s) \in D /\ g[s \ {Max(s)}] \in BatchState
      BY <1>2, <2>4, <2>5
    <3> QED
      BY <2>4, <2>5, <3>1 DEF IsFold
  <2>6. Solves(g)
    <3>1. g[{}] = b
      BY <2>4 DEF IsFold
    <3> QED
      BY <2>4, <2>5, <3>1
  <2> HIDE DEF Solves
  <2> QED
    BY <2>6
<1> HIDE DEF it
<1> DEFINE run == [k \in 0..n |-> it[1..k]]
<1>5. \A s \in SUBSET D :
         it[s] = IF s = {} THEN b ELSE Step(it[s \ {Max(s)}], Max(s))
  BY <1>4
<1>6. run[0] = b
  <2>1. 1..0 = {} /\ 0 \in 0..n
    OBVIOUS
  <2> QED
    BY <1>5, <2>1
<1>7. ASSUME NEW k \in 1..n
      PROVE  run[k] = Step(run[k - 1], k)
  <2>1. 1..k \in SUBSET D /\ 1..k # {} /\ k \in 1..k /\ (1..k) \ {k} = 1..(k - 1)
    OBVIOUS
  <2>2. Max(1..k) \in 1..k /\ Max(1..k) >= k
    BY <1>2, <2>1
  <2>3. it[1..k] = Step(it[1..(k - 1)], k)
    <3>1. Max(1..k) = k
      BY <2>2
    <3> QED
      BY <1>5, <2>1, <3>1
  <2>4. k \in 0..n /\ k - 1 \in 0..n
    OBVIOUS
  <2> QED
    BY <2>3, <2>4
<1>8. \A k \in 0..n : run[k] \in BatchState
  <2> DEFINE T == {k \in 0..n : run[k] \in BatchState}
  <2> HIDE DEF run
  <2>1. 0 \in T
    BY <1>6
  <2>2. \A k \in 0..(n - 1) : k \in T => k + 1 \in T
    <3> SUFFICES ASSUME NEW k \in 0..(n - 1), k \in T
                 PROVE  k + 1 \in T
      OBVIOUS
    <3>1. k + 1 \in 1..n /\ (k + 1) - 1 = k
      OBVIOUS
    <3>2. run[k + 1] = Step(run[k], k + 1)
      BY <1>7, <3>1
    <3> QED
      BY <1>1, <3>1, <3>2
  <2>3. \A k \in 0..n : k \in T
    <3> HIDE DEF T
    <3> QED
      BY <2>1, <2>2, UpTo
  <2> QED
    BY <2>3
<1>9. run \in [0..n -> BatchState] /\ run[n] = it[D]
  BY <1>8
<1> HIDE DEF run
<1>10. \A k \in 1..n : run[k] = Reached(run[k - 1], order[k], request, answers, first)
  BY <1>7 DEF Step
<1> QED
  BY <1>3, <1>6, <1>9, <1>10 DEF IsRun

-----------------------------------------------------------------------------
(* The order of a batch.                                                   *)

LEMMA CeilingPositive ==
    ASSUME NEW i \in Item
    PROVE  bypass_ceiling(i) \in Nat \ {0}
<1>1. CASE Unbounded
  BY <1>1, Inputs DEF bypass_ceiling
<1>2. CASE ~Unbounded
  <2> DEFINE w == fairness_class_weight(Class[i])
  <2>1. w \in Nat \ {0}
    BY PolicyAssumption DEF PolicyValid, fairness_class_weight
  <2> HIDE DEF w
  <2>2. MaxPriorityBypass \div w \in Nat
    BY <2>1, PolicyAssumption DEF PolicyValid
  <2>3. Max({1, MaxPriorityBypass \div w}) \in Nat \ {0}
    BY <2>2, MaxOfTwo
  <2> QED
    BY <1>2, <2>3 DEF bypass_ceiling, w
<1> QED
  BY <1>1, <1>2

LEMMA KeysTyped ==
    ASSUME NEW i \in Item, NEW passed \in [Item -> 0..CounterMax]
    PROVE  /\ pressure(i, passed) \in Nat
           /\ effective_priority(i, passed) \in Int
<1>1. passed[i] \in Nat
  OBVIOUS
<1>2. pressure(i, passed) \in Nat
  <2>1. bypass_ceiling(i) \in Nat \ {0} /\ passed[i] * 1024 \in Nat
    BY <1>1, CeilingPositive
  <2> QED
    BY <2>1 DEF pressure
<1>3. passed[i] \div AgingStep \in Nat /\ MaxPriorityBypass \in Nat
  <2>1. AgingStep \in Nat \ {0} /\ MaxPriorityBypass \in Nat
    BY PolicyAssumption DEF PolicyValid
  <2> QED
    BY <1>1, <2>1
<1>4. Max({1, MaxPriorityBypass}) \in Nat
  BY <1>3, MaxOfTwo
<1>5. Min({passed[i] \div AgingStep, Max({1, MaxPriorityBypass})}) \in Nat
  <2> DEFINE steps == passed[i] \div AgingStep
             most == Max({1, MaxPriorityBypass})
  <2>1. steps \in Nat /\ most \in Nat
    BY <1>3, <1>4
  <2> HIDE DEF steps, most
  <2>2. Min({steps, most}) \in Nat
    BY <2>1, MinOfTwo
  <2> QED
    BY <2>2 DEF steps, most
<1>6. Priority[i] \in Int
  BY Inputs
<1> QED
  BY <1>2, <1>5, <1>6 DEF effective_priority

\* The order of a batch lists every item once, each before those it precedes.
LEMMA FairOrder ==
    ASSUME AgesOrdered, NEW items \in SUBSET admitted,
           NEW passed \in [Item -> 0..CounterMax]
    PROVE  /\ InOrder(items, passed) \in SetToSeqs(items)
           /\ \A x, y \in DOMAIN InOrder(items, passed) : x < y =>
                 fairness_before(InOrder(items, passed)[x], InOrder(items, passed)[y], passed)
<1> DEFINE before == {p \in items \X items : fairness_before(p[1], p[2], passed)}
           must == [i \in Item |-> must_run(i, passed)]
           key == [i \in Item |-> IF must_run(i, passed) THEN pressure(i, passed)
                                  ELSE effective_priority(i, passed)]
<1>1. key \in [Item -> Int]
  BY KeysTyped
<1>2. \A i, j \in items : <<i, j>> \in before <=>
         IF must[i] # must[j] THEN must[i]
         ELSE key[i] > key[j] \/ (key[i] = key[j] /\ <<i, j>> \in older)
  BY DEF fairness_before, AgesOrdered
<1>3. must \in [Item -> BOOLEAN]
  <2>1. \A i \in Item : must_run(i, passed) \in BOOLEAN
    BY DEF must_run
  <2> QED
    BY <2>1
<1>4. IsFiniteSet(items) /\ items \subseteq Item
  BY Inputs, FS_Subset DEF AgesOrdered
<1> HIDE DEF before, must, key
<1>5. ASSUME NEW i \in items
      PROVE  <<i, i>> \notin before
  <2>1. key[i] \in Int /\ <<i, i>> \notin older
    BY <1>1, <1>4 DEF AgesOrdered
  <2>2. <<i, i>> \in before => key[i] > key[i] \/ (key[i] = key[i] /\ <<i, i>> \in older)
    BY <1>2
  <2> QED
    BY <2>1, <2>2
<1>6. ASSUME NEW i \in items, NEW j \in items, NEW k \in items,
             <<i, j>> \in before, <<j, k>> \in before
      PROVE  <<i, k>> \in before
  <2>1. key[i] \in Int /\ key[j] \in Int /\ key[k] \in Int
    BY <1>1, <1>4
  <2>2. must[i] \in BOOLEAN /\ must[j] \in BOOLEAN /\ must[k] \in BOOLEAN
    BY <1>3, <1>4
  <2>3. CASE must[i] # must[k]
    BY <1>2, <1>6, <2>2, <2>3
  <2>4. CASE must[i] = must[k]
    <3>1. must[i] = must[j]
      BY <1>2, <1>6, <2>2, <2>4
    <3>2. <<i, j>> \in older /\ <<j, k>> \in older => <<i, k>> \in older
      BY DEF AgesOrdered
    <3> QED
      BY <1>2, <1>6, <2>1, <2>4, <3>1, <3>2
  <2> QED
    BY <2>3, <2>4
<1>7. ASSUME NEW i \in items, NEW j \in items, i # j
      PROVE  <<i, j>> \in before \/ <<j, i>> \in before
  <2>1. key[i] \in Int /\ key[j] \in Int
    BY <1>1, <1>4
  <2>2. must[i] \in BOOLEAN /\ must[j] \in BOOLEAN
    BY <1>3, <1>4
  <2>3. <<i, j>> \in older \/ <<j, i>> \in older
    BY <1>7 DEF AgesOrdered
  <2> QED
    BY <1>2, <2>1, <2>2, <2>3
<1>8. \E s \in SetToSeqs(items) : \A x, y \in DOMAIN s : x < y => <<s[x], s[y]>> \in before
  BY <1>4, <1>5, <1>6, <1>7, SortedSequence
<1>9. InOrder(items, passed) =
         CHOOSE s \in SetToSeqs(items) :
            \A x, y \in DOMAIN s : x < y => <<s[x], s[y]>> \in before
  BY DEF InOrder, before
<1>10. /\ InOrder(items, passed) \in SetToSeqs(items)
       /\ \A x, y \in DOMAIN InOrder(items, passed) : x < y =>
             <<InOrder(items, passed)[x], InOrder(items, passed)[y]>> \in before
  BY <1>8, <1>9
<1> QED
  BY <1>10 DEF before


-----------------------------------------------------------------------------
(* One pass.                                                               *)

\* order lists the items of a pass from b, and run the states it goes through.
IsPass(n, order, run, b, items, request, answers, first) ==
    /\ \A x, y \in 1..n : order[x] = order[y] => x = y
    /\ \A i \in items : \E y \in 1..n : order[y] = i
    /\ \A x, y \in 1..n : x < y => fairness_before(order[x], order[y], b.passed)
    /\ run[0] = b
    /\ \A k \in 1..n : run[k] = Reached(run[k - 1], order[k], request, answers, first)
    /\ run[n] = Pass(b, items, request, answers, first)

LEMMA PassGoesThrough ==
    ASSUME AgesOrdered, NEW items \in SUBSET admitted, NEW b \in BatchState,
           NEW request, NEW answers, NEW first
    PROVE  \E n \in Nat : \E order \in [1..n -> items], run \in [0..n -> BatchState] :
              IsPass(n, order, run, b, items, request, answers, first)
<1> DEFINE n == Cardinality(items)
           order == InOrder(items, b.passed)
<1>1. n \in Nat
  <2>1. IsFiniteSet(items)
    BY Inputs, FS_Subset DEF AgesOrdered
  <2> QED
    BY <2>1, FS_CardinalityType
<1>2. /\ order \in SetToSeqs(items)
      /\ \A x, y \in DOMAIN order : x < y => fairness_before(order[x], order[y], b.passed)
  <2>1. b.passed \in [Item -> 0..CounterMax]
    BY DEF BatchState
  <2> QED
    BY <2>1, FairOrder
<1>3. /\ order \in [1..n -> items]
      /\ \A x, y \in 1..n : order[x] = order[y] => x = y
  BY <1>2 DEF SetToSeqs
<1>4. order \in [1..n -> Item]
  BY <1>3 DEF AgesOrdered
<1>5. Pass(b, items, request, answers, first) =
         PassInOrder(b, order, request, answers, first)
  BY DEF Pass, PassInOrder
<1> HIDE DEF order
<1>6. \A i \in items : \E y \in 1..n : order[y] = i
  <2>1. IsFiniteSet(1..n) /\ Cardinality(1..n) = n
    BY <1>1, FS_Interval
  <2>2. IsFiniteSet(items)
    BY Inputs, FS_Subset DEF AgesOrdered
  <2>3. order \in Injection(1..n, items)
    BY <1>3 DEF Injection, IsInjective
  <2>4. order \in Surjection(1..n, items)
    BY <2>1, <2>2, <2>3, FS_Injection
  <2> QED
    BY <2>4 DEF Surjection
<1> HIDE DEF n
<1>7. PICK run \in [0..n -> BatchState] :
         IsRun(run, n, b, order, request, answers, first)
  BY <1>1, <1>4, PassRuns
<1>8. run[n] = Pass(b, items, request, answers, first)
  BY <1>5, <1>7 DEF IsRun
<1>9. \A x, y \in 1..n : x < y => fairness_before(order[x], order[y], b.passed)
  BY <1>2, <1>3
<1>10. IsPass(n, order, run, b, items, request, answers, first)
  BY <1>3, <1>6, <1>7, <1>8, <1>9 DEF IsPass, IsRun
<1> QED
  BY <1>1, <1>3, <1>10

\* Nothing more can be assigned.
Exhausted(b, request) == b.assigned >= request.max \/ ~(FreeSlots(b.running) > 0)

\* What the later passes may do from b to s.
Continues(b, s, request) ==
    /\ \A i \in Item :
          /\ s.running[i] >= b.running[i]
          /\ s.passed[i] \in {b.passed[i], 0}
          /\ s.running[i] = b.running[i] => s.passed[i] = b.passed[i]
    /\ Exhausted(b, request) => s = b

LEMMA ContinuesOn ==
    ASSUME NEW request, NEW b \in BatchState, NEW s \in BatchState, NEW t \in BatchState,
           Continues(b, s, request), Continues(s, t, request)
    PROVE  Continues(b, t, request)
<1>1. ASSUME NEW i \in Item
      PROVE  /\ t.running[i] >= b.running[i]
             /\ t.passed[i] \in {b.passed[i], 0}
             /\ t.running[i] = b.running[i] => t.passed[i] = b.passed[i]
  <2>1. b.running[i] \in Nat /\ s.running[i] \in Nat /\ t.running[i] \in Nat
    BY DEF BatchState
  <2> QED
    BY <2>1 DEF Continues
<1> QED
  BY <1>1 DEF Continues

LEMMA LaterReach ==
    ASSUME NEW b \in BatchState, NEW i \in Item, NEW request, NEW answers
    PROVE  Continues(b, Reached(b, i, request, answers, FALSE), request)
<1>1. Continues(b, b, request)
  BY DEF Continues, BatchState
<1>2. CASE Reached(b, i, request, answers, FALSE) = b
  BY <1>1, <1>2
<1>3. CASE Reached(b, i, request, answers, FALSE) # b
  <2>1. ~Exhausted(b, request) /\ Reached(b, i, request, answers, FALSE) = Served(b, i)
    BY <1>3 DEF Reached, Exhausted
  <2>2. /\ Served(b, i).running = [b.running EXCEPT ![i] = @ + 1]
        /\ Served(b, i).passed = [b.passed EXCEPT ![i] = 0]
    BY ServedItem
  <2>3. b.running \in [Item -> Nat] /\ b.passed \in [Item -> 0..CounterMax]
    BY DEF BatchState
  <2>4. ASSUME NEW j \in Item
        PROVE  /\ Served(b, i).running[j] >= b.running[j]
               /\ Served(b, i).passed[j] \in {b.passed[j], 0}
               /\ Served(b, i).running[j] = b.running[j] =>
                     Served(b, i).passed[j] = b.passed[j]
    BY <2>2, <2>3
  <2> QED
    BY <2>1, <2>4 DEF Continues
<1> QED
  BY <1>2, <1>3

LEMMA LaterPass ==
    ASSUME AgesOrdered, NEW items \in SUBSET admitted, NEW b \in BatchState,
           NEW request, NEW answers
    PROVE  /\ Pass(b, items, request, answers, FALSE) \in BatchState
           /\ Continues(b, Pass(b, items, request, answers, FALSE), request)
<1>0. PICK n \in Nat : \E order \in [1..n -> items], run \in [0..n -> BatchState] :
         IsPass(n, order, run, b, items, request, answers, FALSE)
  BY PassGoesThrough
<1>1. PICK order \in [1..n -> items], run \in [0..n -> BatchState] :
         IsPass(n, order, run, b, items, request, answers, FALSE)
  BY <1>0
<1> DEFINE T == {k \in 0..n : Continues(b, run[k], request)}
<1>2. 0 \in T
  BY <1>1 DEF IsPass, Continues, BatchState
<1>3. ASSUME NEW k \in 0..(n - 1), k \in T
      PROVE  k + 1 \in T
  <2>1. k + 1 \in 1..n /\ (k + 1) - 1 = k /\ k \in 0..n /\ k + 1 \in 0..n
    BY <1>1
  <2>2. run[k + 1] = Reached(run[k], order[k + 1], request, answers, FALSE)
    BY <1>1, <2>1 DEF IsPass
  <2>3. run[k] \in BatchState /\ run[k + 1] \in BatchState /\ order[k + 1] \in Item
    BY <1>1, <2>1 DEF AgesOrdered
  <2>4. Continues(run[k], run[k + 1], request)
    BY <2>2, <2>3, LaterReach
  <2>5. Continues(b, run[k + 1], request)
    BY <1>3, <2>3, <2>4, ContinuesOn
  <2> QED
    BY <2>1, <2>5
<1>4. \A k \in 0..n : k \in T
  <2> HIDE DEF T
  <2> QED
    BY <1>1, <1>2, <1>3, UpTo
<1>5. run[n] \in BatchState /\ Continues(b, run[n], request)
  BY <1>1, <1>4
<1> QED
  BY <1>1, <1>5 DEF IsPass


\* The batch could place the item, and would.
Wanted(i, request, answers) == answers[i] = "fits" /\ ~request.dry

\* The first pass serves the item it reaches, or leaves what is running alone; a
\* wanted item it does not serve is charged, and nothing is left.
FirstStep(b, s, i, request, answers) ==
    /\ \A j \in Item \ {i} : s.running[j] = b.running[j] /\ s.passed[j] = b.passed[j]
    /\ \/ /\ s.running = b.running /\ s.assigned = b.assigned
          /\ s.passed[i] <= b.passed[i] + 1
          /\ Wanted(i, request, answers) =>
                /\ Exhausted(b, request)
                /\ b.passed[i] < CounterMax => s.passed[i] = b.passed[i] + 1
       \/ /\ ~Exhausted(b, request)
          /\ s.running[i] = b.running[i] + 1 /\ s.passed[i] = 0

LEMMA FirstReach ==
    ASSUME NEW b \in BatchState, NEW i \in Item, NEW request, NEW answers
    PROVE  FirstStep(b, Reached(b, i, request, answers, TRUE), i, request, answers)
<1> DEFINE s == Reached(b, i, request, answers, TRUE)
<1>1. /\ b.running \in [Item -> Nat] /\ b.passed \in [Item -> 0..CounterMax]
      /\ b.passed[i] \in Nat
  BY DEF BatchState
<1>2. \/ s = Charged(b, i) /\ Exhausted(b, request)
      \/ ~Wanted(i, request, answers) /\ s \in {b, Charged(b, i)}
      \/ s = Served(b, i) /\ ~Exhausted(b, request)
  BY DEF Reached, Exhausted, Wanted
<1> HIDE DEF s
<1>3. CASE s = b /\ ~Wanted(i, request, answers)
  <2>1. FirstStep(b, s, i, request, answers)
    BY <1>1, <1>3 DEF FirstStep
  <2> QED
    BY <2>1 DEF s
<1>4. CASE s = Charged(b, i) /\ (Exhausted(b, request) \/ ~Wanted(i, request, answers))
  <2>1. FirstStep(b, s, i, request, answers)
    BY <1>4, ChargedItem DEF FirstStep
  <2> QED
    BY <2>1 DEF s
<1>5. CASE s = Served(b, i) /\ ~Exhausted(b, request)
  <2>1. /\ s.running = [b.running EXCEPT ![i] = @ + 1]
        /\ s.passed = [b.passed EXCEPT ![i] = 0]
    BY <1>5, ServedItem
  <2>2. FirstStep(b, s, i, request, answers)
    BY <1>1, <1>5, <2>1 DEF FirstStep
  <2> QED
    BY <2>2 DEF s
<1> QED
  BY <1>2, <1>3, <1>4, <1>5

\* What the first pass from b has done when it has reached the first k items.
FirstSoFar(k, s, b, n, order, request, answers) ==
    /\ \A y \in (k + 1)..n : /\ s.running[order[y]] = b.running[order[y]]
                             /\ s.passed[order[y]] = b.passed[order[y]]
    /\ \A i \in Item : /\ s.running[i] \in {b.running[i], b.running[i] + 1}
                       /\ s.running[i] # b.running[i] => s.passed[i] = 0
                       /\ s.passed[i] <= b.passed[i] + 1
    /\ \A y \in 1..k :
          Wanted(order[y], request, answers) /\ s.running[order[y]] = b.running[order[y]] =>
             /\ Exhausted(s, request)
             /\ b.passed[order[y]] < CounterMax => s.passed[order[y]] = b.passed[order[y]] + 1
             /\ ~Exhausted(b, request) => \E z \in 1..(y - 1) : s.passed[order[z]] = 0
    /\ Exhausted(s, request) /\ ~Exhausted(b, request) =>
          \E z \in 1..k : s.passed[order[z]] = 0

LEMMA FirstOneMore ==
    ASSUME NEW n \in Nat, NEW k \in 0..(n - 1), NEW order \in [1..n -> Item],
           \A x, y \in 1..n : order[x] = order[y] => x = y,
           NEW request, NEW answers,
           NEW b \in BatchState, NEW s \in BatchState, NEW t \in BatchState,
           FirstSoFar(k, s, b, n, order, request, answers),
           FirstStep(s, t, order[k + 1], request, answers)
    PROVE  FirstSoFar(k + 1, t, b, n, order, request, answers)
<1> DEFINE x == order[k + 1]
<1>1. k + 1 \in 1..n /\ x \in Item
  OBVIOUS
<1>2. \A y \in 1..n : y # k + 1 =>
         /\ order[y] \in Item \ {x}
         /\ t.running[order[y]] = s.running[order[y]]
         /\ t.passed[order[y]] = s.passed[order[y]]
  BY <1>1 DEF FirstStep
<1>3. s.running[x] = b.running[x] /\ s.passed[x] = b.passed[x]
  BY <1>1 DEF FirstSoFar
<1>4. \A i \in Item : /\ b.running[i] \in Nat /\ s.running[i] \in Nat /\ t.running[i] \in Nat
                      /\ b.passed[i] \in Nat /\ s.passed[i] \in Nat /\ t.passed[i] \in Nat
  BY DEF BatchState
<1>5. Exhausted(s, request) => Exhausted(t, request) /\ t.running = s.running
  BY DEF FirstStep, Exhausted
<1>6. ASSUME NEW y \in (k + 2)..n
      PROVE  /\ t.running[order[y]] = b.running[order[y]]
             /\ t.passed[order[y]] = b.passed[order[y]]
  <2>1. y \in (k + 1)..n /\ y \in 1..n /\ y # k + 1
    OBVIOUS
  <2> QED
    BY <1>2, <2>1 DEF FirstSoFar
<1>7. ASSUME NEW i \in Item
      PROVE  /\ t.running[i] \in {b.running[i], b.running[i] + 1}
             /\ t.running[i] # b.running[i] => t.passed[i] = 0
             /\ t.passed[i] <= b.passed[i] + 1
  <2>1. CASE i = x
    BY <1>1, <1>3, <1>4, <2>1 DEF FirstStep
  <2>2. CASE i # x
    <3>1. t.running[i] = s.running[i] /\ t.passed[i] = s.passed[i]
      BY <2>2 DEF FirstStep
    <3> QED
      BY <3>1 DEF FirstSoFar
  <2> QED
    BY <2>1, <2>2
<1>8. Exhausted(s, request) /\ ~Exhausted(b, request) =>
         \E z \in 1..k : t.passed[order[z]] = 0
  <2> SUFFICES ASSUME Exhausted(s, request), ~Exhausted(b, request)
               PROVE  \E z \in 1..k : t.passed[order[z]] = 0
    OBVIOUS
  <2>1. PICK z \in 1..k : s.passed[order[z]] = 0
    BY DEF FirstSoFar
  <2>2. z \in 1..n /\ z # k + 1
    OBVIOUS
  <2> QED
    BY <1>2, <2>1, <2>2
<1>9. ASSUME NEW y \in 1..(k + 1), Wanted(order[y], request, answers),
             t.running[order[y]] = b.running[order[y]]
      PROVE  /\ Exhausted(t, request)
             /\ b.passed[order[y]] < CounterMax => t.passed[order[y]] = b.passed[order[y]] + 1
             /\ ~Exhausted(b, request) => \E z \in 1..(y - 1) : t.passed[order[z]] = 0
  <2>1. CASE y = k + 1
    <3>1. ~(t.running[x] = s.running[x] + 1)
      BY <1>1, <1>3, <1>4, <1>9, <2>1
    <3>2. /\ Exhausted(s, request)
          /\ s.passed[x] < CounterMax => t.passed[x] = s.passed[x] + 1
      BY <1>9, <2>1, <3>1 DEF FirstStep
    <3>3. y - 1 = k
      BY <2>1
    <3> QED
      BY <1>3, <1>5, <1>8, <2>1, <3>2, <3>3
  <2>2. CASE y # k + 1
    <3>1. y \in 1..k /\ y \in 1..n
      BY <2>2
    <3>2. s.running[order[y]] = b.running[order[y]] /\ t.passed[order[y]] = s.passed[order[y]]
      BY <1>2, <1>9, <2>2, <3>1
    <3>3. /\ Exhausted(s, request)
          /\ b.passed[order[y]] < CounterMax => s.passed[order[y]] = b.passed[order[y]] + 1
          /\ ~Exhausted(b, request) => \E z \in 1..(y - 1) : s.passed[order[z]] = 0
      BY <1>9, <3>1, <3>2 DEF FirstSoFar
    <3>4. \A z \in 1..(y - 1) : t.passed[order[z]] = s.passed[order[z]]
      <4>1. \A z \in 1..(y - 1) : z \in 1..n /\ z # k + 1
        BY <3>1
      <4> QED
        BY <1>2, <4>1
    <3> QED
      BY <1>5, <3>2, <3>3, <3>4
  <2> QED
    BY <2>1, <2>2
<1>10. Exhausted(t, request) /\ ~Exhausted(b, request) =>
          \E z \in 1..(k + 1) : t.passed[order[z]] = 0
  <2>1. CASE Exhausted(s, request)
    <3>1. \A z \in 1..k : z \in 1..(k + 1)
      OBVIOUS
    <3> QED
      BY <1>8, <2>1, <3>1
  <2>2. CASE ~Exhausted(s, request)
    <3>1. Exhausted(t, request) => t.passed[x] = 0
      BY <2>2 DEF FirstStep, Exhausted
    <3>2. k + 1 \in 1..(k + 1)
      OBVIOUS
    <3> QED
      BY <3>1, <3>2
  <2> QED
    BY <2>1, <2>2
<1>11. (k + 1) + 1 = k + 2
  OBVIOUS
<1> QED
  BY <1>6, <1>7, <1>9, <1>10, <1>11 DEF FirstSoFar


\* What the first pass over the items makes of b.
FirstOutcome(b, s, items, request, answers) ==
    /\ \A i \in Item : /\ s.running[i] \in {b.running[i], b.running[i] + 1}
                       /\ s.passed[i] <= b.passed[i] + 1
    /\ \A i \in items : Wanted(i, request, answers) /\ s.running[i] = b.running[i] =>
          /\ Exhausted(s, request)
          /\ b.passed[i] < CounterMax => s.passed[i] = b.passed[i] + 1
          /\ ~Exhausted(b, request) =>
                \E j \in items : fairness_before(j, i, b.passed) /\ s.passed[j] = 0

LEMMA FirstPass ==
    ASSUME AgesOrdered, NEW items \in SUBSET admitted, NEW b \in BatchState,
           NEW request, NEW answers
    PROVE  /\ Pass(b, items, request, answers, TRUE) \in BatchState
           /\ FirstOutcome(b, Pass(b, items, request, answers, TRUE), items, request, answers)
<1>0. PICK n \in Nat : \E order \in [1..n -> items], run \in [0..n -> BatchState] :
         IsPass(n, order, run, b, items, request, answers, TRUE)
  BY PassGoesThrough
<1>1. PICK order \in [1..n -> items], run \in [0..n -> BatchState] :
         IsPass(n, order, run, b, items, request, answers, TRUE)
  BY <1>0
<1>2. order \in [1..n -> Item]
  BY DEF AgesOrdered
<1> DEFINE T == {k \in 0..n : FirstSoFar(k, run[k], b, n, order, request, answers)}
<1>3. 0 \in T
  <2>1. run[0] = b
    BY <1>1 DEF IsPass
  <2>2. \A i \in Item : b.running[i] \in Nat /\ b.passed[i] \in Nat
    BY DEF BatchState
  <2>3. FirstSoFar(0, b, b, n, order, request, answers)
    BY <2>2 DEF FirstSoFar
  <2> QED
    BY <2>1, <2>3
<1>4. ASSUME NEW k \in 0..(n - 1), k \in T
      PROVE  k + 1 \in T
  <2>1. k + 1 \in 1..n /\ (k + 1) - 1 = k /\ k \in 0..n /\ k + 1 \in 0..n
    OBVIOUS
  <2>2. run[k + 1] = Reached(run[k], order[k + 1], request, answers, TRUE)
    BY <1>1, <2>1 DEF IsPass
  <2>3. run[k] \in BatchState /\ run[k + 1] \in BatchState /\ order[k + 1] \in Item
    BY <1>1, <1>2, <2>1
  <2>4. FirstStep(run[k], run[k + 1], order[k + 1], request, answers)
    BY <2>2, <2>3, FirstReach
  <2>5. \A x, y \in 1..n : order[x] = order[y] => x = y
    BY <1>1 DEF IsPass
  <2>6. FirstSoFar(k, run[k], b, n, order, request, answers)
    BY <1>4
  <2>7. FirstSoFar(k + 1, run[k + 1], b, n, order, request, answers)
    BY <1>2, <2>3, <2>4, <2>5, <2>6, FirstOneMore
  <2> QED
    BY <2>1, <2>7
<1>5. \A k \in 0..n : k \in T
  <2> HIDE DEF T
  <2> QED
    BY <1>3, <1>4, UpTo
<1> DEFINE s == run[n]
<1>6. s \in BatchState /\ FirstSoFar(n, s, b, n, order, request, answers)
  BY <1>5
<1>7. ASSUME NEW i \in items, Wanted(i, request, answers), s.running[i] = b.running[i]
      PROVE  /\ Exhausted(s, request)
             /\ b.passed[i] < CounterMax => s.passed[i] = b.passed[i] + 1
             /\ ~Exhausted(b, request) =>
                   \E j \in items : fairness_before(j, i, b.passed) /\ s.passed[j] = 0
  <2> HIDE DEF s
  <2>1. PICK y \in 1..n : order[y] = i
    BY <1>1 DEF IsPass
  <2>2. /\ Exhausted(s, request)
        /\ b.passed[i] < CounterMax => s.passed[i] = b.passed[i] + 1
        /\ ~Exhausted(b, request) => \E z \in 1..(y - 1) : s.passed[order[z]] = 0
    BY <1>6, <1>7, <2>1 DEF FirstSoFar
  <2>3. \A z \in 1..(y - 1) :
           order[z] \in items /\ fairness_before(order[z], i, b.passed)
    <3>1. \A z \in 1..(y - 1) : z \in 1..n /\ z < y
      OBVIOUS
    <3> QED
      BY <1>1, <2>1, <3>1 DEF IsPass
  <2> QED
    BY <2>2, <2>3
<1>8. FirstOutcome(b, s, items, request, answers)
  <2> HIDE DEF s
  <2>1. \A i \in Item : /\ s.running[i] \in {b.running[i], b.running[i] + 1}
                        /\ s.passed[i] <= b.passed[i] + 1
    BY <1>6 DEF FirstSoFar
  <2> QED
    BY <1>7, <2>1 DEF FirstOutcome
<1>9. s = Pass(b, items, request, answers, TRUE)
  BY <1>1 DEF IsPass
<1> HIDE DEF s
<1> QED
  BY <1>6, <1>8, <1>9

-----------------------------------------------------------------------------
(* One batch.                                                              *)

LEMMA ContinuedTyped ==
    ASSUME AgesOrdered, NEW items \in SUBSET admitted, NEW b \in BatchState,
           NEW request, NEW answers
    PROVE  /\ Continued(b, items, request, answers) \in BatchState
           /\ Continues(b, Continued(b, items, request, answers), request)
<1>1. CASE b.assigned >= request.max
  BY <1>1 DEF Continued, Continues, BatchState
<1>2. CASE ~(b.assigned >= request.max)
  <2> DEFINE open == {i \in items : FanoutOpen(i, b.running)}
  <2>1. Continued(b, items, request, answers) = Pass(b, open, request, answers, FALSE)
    BY <1>2 DEF Continued
  <2>2. open \in SUBSET admitted
    OBVIOUS
  <2> HIDE DEF open
  <2> QED
    BY <2>1, <2>2, LaterPass
<1> QED
  BY <1>1, <1>2

\* m later passes.
LaterInTurn(b, m, items, request, answers) ==
    FoldLeft(LAMBDA acc, n : Continued(acc, items, request, answers),
             b, [n \in 1..m |-> n])

\* As many later passes as it may be, the batch continues what the first has made.
LEMMA LaterPasses ==
    ASSUME AgesOrdered, NEW items \in SUBSET admitted, NEW b \in BatchState,
           NEW request, NEW answers, NEW m \in Nat
    PROVE  /\ LaterInTurn(b, m, items, request, answers) \in BatchState
           /\ Continues(b, LaterInTurn(b, m, items, request, answers), request)
<1> DEFINE D == 1..m
           L == {s \in BatchState : Continues(b, s, request)}
           Step(v) == Continued(v, items, request, answers)
           Solves(f) == f = [s \in SUBSET (1..m) |->
                               IF s = {} THEN b ELSE Step(f[s \ {Max(s)}])]
           it == CHOOSE f : Solves(f)
<1>1. \A v \in L : Step(v) \in L
  <2> SUFFICES ASSUME NEW v \in L
               PROVE  Step(v) \in L
    OBVIOUS
  <2> DEFINE w == Step(v)
  <2>1. w \in BatchState /\ Continues(v, w, request)
    BY ContinuedTyped
  <2> HIDE DEF w
  <2>2. Continues(b, w, request)
    BY <2>1, ContinuesOn
  <2>3. w \in L
    BY <2>1, <2>2
  <2> QED
    BY <2>3 DEF w
<1>2. b \in L
  BY DEF Continues, BatchState
<1>3. LaterInTurn(b, m, items, request, answers) = it[D]
  BY DEF LaterInTurn, FoldLeft, MapThenFoldSet
<1>4. IsFiniteSet(D)
  BY FS_Interval
<1>5. \A s \in SUBSET D : s # {} => Max(s) \in s
  <2> SUFFICES ASSUME NEW s \in SUBSET D, s # {}
               PROVE  Max(s) \in s
    OBVIOUS
  <2>1. s \in SUBSET Int
    OBVIOUS
  <2>2. IsFiniteSet(s)
    <3> HIDE DEF D
    <3> QED
      BY <1>4, FS_Subset
  <2> QED
    BY <2>1, <2>2, MaxPicks
<1> HIDE DEF Step, L
<1>6. Solves(it)
  <2> DEFINE ch == [s \in SUBSET D |-> Max(s)]
             F == [x \in D |-> [v \in L |-> Step(v)]]
  <2>1. \A s \in SUBSET D : s # {} => ch[s] \in s
    BY <1>5
  <2>2. \A x \in D, v \in L : F[x][v] \in L
    BY <1>1
  <2>3. PICK g \in [SUBSET D -> L] : IsFold(g, D, ch, b, F)
    <3> HIDE DEF ch, F, D, Solves, it
    <3> QED
      BY <1>2, <1>4, <2>1, <2>2, FoldDefined
  <2>4. ASSUME NEW s \in SUBSET D, s # {}
        PROVE  g[s] = Step(g[s \ {Max(s)}])
    <3>1. Max(s) \in D /\ g[s \ {Max(s)}] \in L
      BY <1>5, <2>3, <2>4
    <3> QED
      BY <2>3, <2>4, <3>1 DEF IsFold
  <2>5. Solves(g)
    <3>1. g[{}] = b
      BY <2>3 DEF IsFold
    <3> QED
      BY <2>3, <2>4, <3>1
  <2> HIDE DEF Solves
  <2> QED
    BY <2>5
<1> HIDE DEF it
<1>7. \A s \in SUBSET D : it[s] = IF s = {} THEN b ELSE Step(it[s \ {Max(s)}])
  BY <1>6
<1> DEFINE T == {s \in SUBSET D : it[s] \in L}
<1>8. {} \in T
  <2>1. it[{}] = b
    BY <1>7
  <2> QED
    BY <1>2, <2>1
<1>9. ASSUME NEW s \in SUBSET D, s # {}, \A x \in s : s \ {x} \in T
      PROVE  s \in T
  <2>1. it[s] = Step(it[s \ {Max(s)}]) /\ it[s \ {Max(s)}] \in L
    BY <1>5, <1>7, <1>9
  <2> QED
    BY <1>1, <2>1
<1>10. D \in T
  <2>1. D \in SUBSET D
    OBVIOUS
  <2> HIDE DEF T, D
  <2> QED
    BY <1>4, <1>8, <1>9, <2>1, SubsetInduction
<1> QED
  BY <1>3, <1>10 DEF L


\* What a batch makes of the items, as far as waiting and fan-out go: start is
\* what it begins with, b what it ends with.
BatchOutcome(start, b, items, request, answers) ==
    /\ \A i \in Item : /\ b.running[i] >= start.running[i]
                       /\ b.passed[i] <= start.passed[i] + 1
    /\ \A i \in items : Wanted(i, request, answers) /\ b.running[i] = start.running[i] =>
          /\ start.passed[i] < CounterMax => b.passed[i] = start.passed[i] + 1
          /\ ~Exhausted(start, request) =>
                \E j \in items : fairness_before(j, i, start.passed) /\ b.passed[j] = 0
          /\ \A j \in Item : b.running[j] <= start.running[j] + 1

Start == [running |-> active, passed |-> bypass, assigned |-> 0]

LEMMA BatchDoes ==
    ASSUME AgesOrdered, active \in [Item -> Nat], bypass \in [Item -> 0..CounterMax],
           NEW items \in SUBSET admitted, NEW request, NEW answers
    PROVE  /\ Batch(items, request, answers) \in BatchState
           /\ BatchOutcome(Start, Batch(items, request, answers), items, request, answers)
<1> DEFINE first == Pass(Start, items, request, answers, TRUE)
           widths == {1} \cup {Width[i] : i \in items}
           widest == Max(widths)
           b == Batch(items, request, answers)
<1>1. Start \in BatchState
  BY DEF Start, BatchState
<1>2. first \in BatchState /\ FirstOutcome(Start, first, items, request, answers)
  BY <1>1, FirstPass
<1>3. widest - 1 \in Nat
  <2>1. \A i \in items : Width[i] \in Nat \ {0}
    BY Inputs DEF AgesOrdered
  <2>2. IsFiniteSet(items)
    BY Inputs, FS_Subset DEF AgesOrdered
  <2> DEFINE all == {Width[i] : i \in items}
  <2>3. IsFiniteSet(all)
    <3> DEFINE w == [i \in items |-> Width[i]]
    <3>1. w \in Surjection(items, all)
      BY DEF Surjection
    <3> HIDE DEF w, all
    <3> QED
      BY <2>2, <3>1, FS_Surjection
  <2>4. IsFiniteSet(widths)
    <3> HIDE DEF all
    <3>1. IsFiniteSet(all \cup {1})
      BY <2>3, FS_AddElement
    <3>2. all \cup {1} = {1} \cup all
      OBVIOUS
    <3>3. IsFiniteSet({1} \cup all)
      BY <3>1, <3>2
    <3> QED
      BY <3>3 DEF all
  <2>5. widths \in SUBSET Int /\ widths # {} /\ 1 \in widths
    BY <2>1
  <2> HIDE DEF widths
  <2>6. Max(widths) \in Int /\ Max(widths) >= 1
    BY <2>4, <2>5, MaxPicks
  <2> QED
    BY <2>6
<1>4. b \in BatchState /\ Continues(first, b, request)
  <2> DEFINE folded == LaterInTurn(first, widest - 1, items, request, answers)
  <2>1. b = folded
    BY DEF Batch, Start, LaterInTurn
  <2>2. folded \in BatchState /\ Continues(first, folded, request)
    <3> HIDE DEF first, widest
    <3> QED
      BY <1>2, <1>3, LaterPasses
  <2> HIDE DEF folded, first, b
  <2> QED
    BY <2>1, <2>2
<1> HIDE DEF first, b
<1>5. \A i \in Item :
         /\ Start.running[i] \in Nat /\ first.running[i] \in Nat /\ b.running[i] \in Nat
         /\ Start.passed[i] \in Nat /\ first.passed[i] \in Nat /\ b.passed[i] \in Nat
  BY <1>1, <1>2, <1>4 DEF BatchState
<1>6. ASSUME NEW i \in Item
      PROVE  /\ b.running[i] >= Start.running[i]
             /\ b.passed[i] <= Start.passed[i] + 1
  BY <1>2, <1>4, <1>5 DEF FirstOutcome, Continues
<1>7. ASSUME NEW i \in items, Wanted(i, request, answers), b.running[i] = Start.running[i]
      PROVE  /\ Start.passed[i] < CounterMax => b.passed[i] = Start.passed[i] + 1
             /\ ~Exhausted(Start, request) =>
                   \E j \in items : fairness_before(j, i, Start.passed) /\ b.passed[j] = 0
             /\ \A j \in Item : b.running[j] <= Start.running[j] + 1
  <2>1. i \in Item
    BY DEF AgesOrdered
  <2>2. first.running[i] = Start.running[i]
    <3>1. b.running[i] >= first.running[i]
      BY <1>4, <2>1 DEF Continues
    <3>2. first.running[i] \in {Start.running[i], Start.running[i] + 1}
      BY <1>2, <2>1 DEF FirstOutcome
    <3> QED
      BY <1>5, <1>7, <2>1, <3>1, <3>2
  <2>3. /\ Exhausted(first, request)
        /\ Start.passed[i] < CounterMax => first.passed[i] = Start.passed[i] + 1
        /\ ~Exhausted(Start, request) =>
              \E j \in items : fairness_before(j, i, Start.passed) /\ first.passed[j] = 0
    BY <1>2, <1>7, <2>2 DEF FirstOutcome
  <2>4. b = first
    BY <1>4, <2>3 DEF Continues
  <2>5. \A j \in Item : b.running[j] <= Start.running[j] + 1
    BY <1>2, <1>5, <2>4 DEF FirstOutcome
  <2> QED
    BY <2>3, <2>4, <2>5
<1>8. BatchOutcome(Start, b, items, request, answers)
  BY <1>6, <1>7 DEF BatchOutcome
<1> QED
  BY <1>4, <1>8 DEF b


-----------------------------------------------------------------------------
(* Types.                                                                  *)

LEMMA AdmitOrders ==
    ASSUME AgesOrdered, NEW i \in Item, Admit(i)
    PROVE  AgesOrdered'
<1>1. /\ admitted' = admitted \cup {i}
      /\ \A p : p \in older' <=> \/ p \in older /\ i # p[1] /\ i # p[2]
                                 \/ p \in (admitted \ {i}) \X {i}
  BY DEF Admit, OlderWithout
<1>2. \A j, k \in admitted' : <<j, k>> \in older' <=>
         j # i /\ (k = i \/ <<j, k>> \in older)
  <2> SUFFICES ASSUME NEW j \in admitted', NEW k \in admitted'
               PROVE  <<j, k>> \in older' <=> j # i /\ (k = i \/ <<j, k>> \in older)
    OBVIOUS
  <2>1. <<j, k>> \in older' <=> \/ <<j, k>> \in older /\ i # j /\ i # k
                                \/ j \in admitted \ {i} /\ k = i
    BY <1>1
  <2>2. j = i \/ j \in admitted \ {i}
    BY <1>1
  <2> QED
    BY <2>1, <2>2
<1>3. older' \subseteq admitted' \X admitted'
  BY <1>1 DEF AgesOrdered
<1> QED
  BY <1>1, <1>2, <1>3 DEF AgesOrdered

LEMMA WithdrawOrders ==
    ASSUME AgesOrdered, NEW i \in Item, Withdraw(i)
    PROVE  AgesOrdered'
<1>1. /\ admitted' = admitted \ {i}
      /\ \A p : p \in older' <=> p \in older /\ i # p[1] /\ i # p[2]
  BY DEF Withdraw, OlderWithout
<1>2. \A j, k \in admitted' : <<j, k>> \in older' <=> <<j, k>> \in older
  BY <1>1
<1>3. older' \subseteq admitted' \X admitted'
  BY <1>1 DEF AgesOrdered
<1> QED
  BY <1>1, <1>2, <1>3 DEF AgesOrdered

\* A batch, with what it does spelled out.
BatchMade(items, request, answers) ==
    /\ request.max \in Nat \ {0}
    /\ BatchOutcome(Start, [running |-> active', passed |-> bypass'],
                    items, request, answers)
    /\ missed' = MissedAfter(items, request, answers, active')
    /\ active' \in [Item -> Nat] /\ bypass' \in [Item -> 0..CounterMax]
    /\ UNCHANGED <<admitted, older>>

LEMMA BatchStep ==
    ASSUME TypeOK, schedule_batch
    PROVE  \E items \in SUBSET admitted : \E request, answers :
              BatchMade(items, request, answers)
<1>1. PICK max \in MaxAssignments, dry \in DryRuns, selected \in Selections :
         LET items == Candidates(selected)
             request == [max |-> max, dry |-> dry]
         IN  \E answers \in [items -> {"fits", "deferred", "rejected", "withdrawn"}] :
               LET b == Batch(items, request, answers)
               IN  /\ active' = b.running
                   /\ bypass' = b.passed
                   /\ missed' = MissedAfter(items, request, answers, b.running)
                   /\ UNCHANGED <<admitted, older>>
  BY DEF schedule_batch
<1> DEFINE items == Candidates(selected)
           request == [max |-> max, dry |-> dry]
<1>2. PICK answers : LET b == Batch(items, request, answers)
                     IN  /\ active' = b.running
                         /\ bypass' = b.passed
                         /\ missed' = MissedAfter(items, request, answers, b.running)
                         /\ UNCHANGED <<admitted, older>>
  BY <1>1
<1>3. items \in SUBSET admitted
  BY DEF Candidates
<1>4. request.max \in Nat \ {0}
  BY Inputs
<1> HIDE DEF items, request
<1> DEFINE b == Batch(items, request, answers)
<1>5. b \in BatchState /\ BatchOutcome(Start, b, items, request, answers)
  BY <1>3, BatchDoes DEF TypeOK
<1>6. active' = b.running /\ bypass' = b.passed
  BY <1>2
<1>7. missed' = MissedAfter(items, request, answers, active') /\ UNCHANGED <<admitted, older>>
  BY <1>2
<1> HIDE DEF b
<1>8. BatchOutcome(Start, [running |-> active', passed |-> bypass'], items, request, answers)
  BY <1>5, <1>6 DEF BatchOutcome
<1>9. active' \in [Item -> Nat] /\ bypass' \in [Item -> 0..CounterMax]
  BY <1>5, <1>6 DEF BatchState
<1>10. BatchMade(items, request, answers)
  BY <1>4, <1>7, <1>8, <1>9 DEF BatchMade
<1> QED
  BY <1>3, <1>10

LEMMA TypeStep ==
    ASSUME TypeOK, [Next]_vars
    PROVE  TypeOK'
<1>1. CASE schedule_batch
  <2>1. PICK items \in SUBSET admitted : \E request, answers :
           BatchMade(items, request, answers)
    BY <1>1, BatchStep
  <2>2. PICK request, answers : BatchMade(items, request, answers)
    BY <2>1
  <2>3. missed' \in [Item -> Nat]
    BY <2>2 DEF BatchMade, TypeOK, MissedAfter
  <2> QED
    BY <2>2, <2>3 DEF BatchMade, TypeOK, AgesOrdered
<1>2. ASSUME NEW i \in Item, Admit(i)
      PROVE  TypeOK'
  <2>1. AgesOrdered'
    BY <1>2, AdmitOrders DEF TypeOK
  <2>2. 0 \in 0..CounterMax
    BY Inputs
  <2> QED
    BY <1>2, <2>1, <2>2 DEF TypeOK, Admit
<1>3. ASSUME NEW i \in Item, Withdraw(i)
      PROVE  TypeOK'
  <2>1. AgesOrdered'
    BY <1>3, WithdrawOrders DEF TypeOK
  <2> QED
    BY <1>3, <2>1 DEF TypeOK, Withdraw
<1>4. ASSUME NEW i \in Item, Return(i)
      PROVE  TypeOK'
  BY <1>4 DEF TypeOK, AgesOrdered, Return
<1>5. CASE UNCHANGED vars
  BY <1>5 DEF TypeOK, AgesOrdered, vars
<1> QED
  BY <1>1, <1>2, <1>3, <1>4, <1>5 DEF Next

\* The counters keep their width, and the ages of the live items order them.
THEOREM Typed == Spec => []TypeOK
<1>1. Init => TypeOK
  BY Inputs DEF Init, TypeOK, AgesOrdered
<1>2. TypeOK /\ [Next]_vars => TypeOK'
  BY TypeStep
<1> QED
  BY <1>1, <1>2, PTL DEF Spec


-----------------------------------------------------------------------------
(* Waiting.                                                                *)

LEMMA Quotient ==
    ASSUME NEW x \in Nat, NEW d \in Nat \ {0}
    PROVE  /\ x \div d \in Nat
           /\ d * (x \div d) <= x
           /\ x < d * (x \div d) + d
  OBVIOUS

\* A bypass count that lags a whole ceiling behind is less pressure, if the item's
\* own ceiling is no lower.
LEMMA LessPressure ==
    ASSUME NEW a \in Nat, NEW b \in Nat, NEW c \in Nat \ {0}, NEW d \in Nat \ {0},
           c <= d, a + c <= b
    PROVE  (a * 1024) \div d < (b * 1024) \div c
<1> DEFINE q == (a * 1024) \div d
           r == (b * 1024) \div c
<1>1. q \in Nat /\ r \in Nat /\ d * q <= a * 1024 /\ b * 1024 < c * r + c
  BY Quotient
<1> HIDE DEF q, r
<1>2. SUFFICES ASSUME r <= q PROVE FALSE
  BY <1>1 DEF q, r
<1>3. c * q <= d * q
  BY <1>1
<1>4. c * r <= c * q
  BY <1>1, <1>2
<1> DEFINE u == c * q
           v == d * q
           w == c * r
<1>5. u \in Nat /\ v \in Nat /\ w \in Nat /\ u <= v /\ w <= u /\ v <= a * 1024 /\ b * 1024 < w + c
  BY <1>1, <1>3, <1>4
<1> HIDE DEF u, v, w
<1> QED
  BY <1>5

\* No class has a lower ceiling than that of i.
LeastCeiling(i) == \A j \in Item : bypass_ceiling(i) <= bypass_ceiling(j)

\* The items that lag c behind i.
Behind(i, c) == {j \in Item \ {i} : bypass[j] + c <= bypass[i]}

\* From the ceiling c on, every further miss of i put another item behind i: an
\* item that goes first is reset, and must lag less than c to go first again.
WaitCovered(i, c) ==
    /\ missed[i] <= bypass[i]
    /\ missed[i] >= c => missed[i] <= c - 1 + Cardinality(Behind(i, c))

LEMMA BehindCounts ==
    ASSUME NEW S \in SUBSET Item, NEW T \in SUBSET S
    PROVE  /\ Cardinality(T) \in Nat /\ Cardinality(S) \in Nat
           /\ Cardinality(T) <= Cardinality(S)
           /\ T # S => Cardinality(T) + 1 <= Cardinality(S)
<1>1. IsFiniteSet(S)
  BY Inputs, FS_Subset
<1>2. IsFiniteSet(T)
  BY <1>1, FS_Subset
<1>3. Cardinality(T) \in Nat /\ Cardinality(S) \in Nat
  BY <1>1, <1>2, FS_CardinalityType
<1>4. Cardinality(T) <= Cardinality(S) /\ (Cardinality(T) = Cardinality(S) => T = S)
  BY <1>1, FS_Subset
<1> QED
  BY <1>3, <1>4

\* A miss of an item that must run: who goes first did not lag c behind.
LEMMA FirstDoesNotLag ==
    ASSUME TypeOK, NEW i \in Item, NEW j \in Item, LeastCeiling(i), ~Unbounded,
           bypass[i] >= bypass_ceiling(i), fairness_before(j, i, bypass)
    PROVE  ~(bypass[j] + bypass_ceiling(i) <= bypass[i])
<1> DEFINE c == bypass_ceiling(i)
           d == bypass_ceiling(j)
<1>1. /\ bypass[i] \in Nat /\ bypass[j] \in Nat
      /\ c \in Nat \ {0} /\ d \in Nat \ {0} /\ c <= d
  BY CeilingPositive DEF TypeOK, LeastCeiling
<1>2. must_run(i, bypass)
  BY DEF must_run
<1>3. must_run(j, bypass) /\ pressure(j, bypass) >= pressure(i, bypass)
  <2>1. must_run(j, bypass)
    BY <1>2 DEF fairness_before, must_run
  <2>2. pressure(j, bypass) \in Nat /\ pressure(i, bypass) \in Nat
    BY KeysTyped DEF TypeOK
  <2> QED
    BY <1>2, <2>1, <2>2 DEF fairness_before
<1>4. (bypass[j] * 1024) \div d >= (bypass[i] * 1024) \div c
  BY <1>3 DEF pressure
<1> HIDE DEF c, d
<1>5. SUFFICES ASSUME bypass[j] + c <= bypass[i]
               PROVE  FALSE
  BY DEF c
<1>6. (bypass[j] * 1024) \div d < (bypass[i] * 1024) \div c
  BY <1>1, <1>5, LessPressure
<1>7. (bypass[j] * 1024) \div d \in Nat /\ (bypass[i] * 1024) \div c \in Nat
  BY <1>1, Quotient
<1> QED
  BY <1>4, <1>6, <1>7


\* A wanted item that a batch passes over is charged, the others gain no more than
\* it does, and if there was a slot somebody went first and starts over.
LEMMA PassedOver ==
    ASSUME TypeOK, NotSaturated, NEW items \in SUBSET admitted, NEW request, NEW answers,
           request.max \in Nat \ {0},
           BatchOutcome(Start, [running |-> active', passed |-> bypass'],
                        items, request, answers),
           NEW i \in items, Wanted(i, request, answers), active'[i] = active[i]
    PROVE  /\ bypass'[i] = bypass[i] + 1
           /\ \A k \in Item : bypass'[k] <= bypass[k] + 1
           /\ FreeSlots(active) > 0 =>
                 \E j \in Item : fairness_before(j, i, bypass) /\ bypass'[j] = 0
           /\ \A k \in Item : active'[k] <= active[k] + 1
<1> DEFINE b == [running |-> active', passed |-> bypass']
<1>1. /\ b.running = active' /\ b.passed = bypass'
      /\ Start.running = active /\ Start.passed = bypass /\ Start.assigned = 0
  BY DEF Start
<1> HIDE DEF b
<1>2. BatchOutcome(Start, b, items, request, answers)
  BY DEF b
<1>3. FreeSlots(active) > 0 => ~Exhausted(Start, request)
  BY <1>1 DEF Exhausted
<1>4. i \in Item /\ items \subseteq Item /\ bypass[i] < CounterMax
  BY DEF TypeOK, AgesOrdered, NotSaturated
<1> QED
  BY <1>1, <1>2, <1>3, <1>4 DEF BatchOutcome

LEMMA WaitStep ==
    ASSUME TypeOK, TypeOK', NotSaturated, [Next]_vars, NEW i \in Item, LeastCeiling(i),
           NEW c, c = bypass_ceiling(i), WaitCovered(i, c)
    PROVE  WaitCovered(i, c)'
<1>1. /\ \A k \in Item : bypass[k] \in Nat /\ bypass'[k] \in Nat
      /\ missed[i] \in Nat /\ missed'[i] \in Nat /\ c \in Nat \ {0}
  BY CeilingPositive DEF TypeOK
<1>2. /\ Cardinality(Behind(i, c)) \in Nat /\ Cardinality(Behind(i, c)') \in Nat
      /\ Behind(i, c) \subseteq Behind(i, c)' =>
            /\ Cardinality(Behind(i, c)) <= Cardinality(Behind(i, c)')
            /\ Behind(i, c) # Behind(i, c)' =>
                  Cardinality(Behind(i, c)) + 1 <= Cardinality(Behind(i, c)')
  <2> DEFINE S == Behind(i, c)
             T == Behind(i, c)'
  <2>1. S \in SUBSET Item /\ T \in SUBSET Item /\ {} \in SUBSET S /\ {} \in SUBSET T
    BY DEF Behind
  <2> HIDE DEF S, T
  <2>2. Cardinality(S) \in Nat /\ Cardinality(T) \in Nat
    BY <2>1, BehindCounts
  <2>3. S \subseteq T => /\ Cardinality(S) <= Cardinality(T)
                         /\ S # T => Cardinality(S) + 1 <= Cardinality(T)
    BY <2>1, BehindCounts
  <2> QED
    BY <2>2, <2>3 DEF S, T
<1>3. CASE missed'[i] = 0
  BY <1>1, <1>3 DEF WaitCovered
<1>4. CASE /\ missed'[i] = missed[i] /\ bypass'[i] >= bypass[i]
           /\ Behind(i, c) \subseteq Behind(i, c)'
  <2>1. bypass[i] \in Nat /\ bypass'[i] \in Nat
    BY <1>1
  <2> QED
    BY <1>1, <1>2, <1>4, <2>1 DEF WaitCovered
<1>5. ASSUME NEW items \in SUBSET admitted, NEW request, NEW answers,
             request.max \in Nat \ {0},
             BatchOutcome(Start, [running |-> active', passed |-> bypass'],
                          items, request, answers),
             i \in items, Wanted(i, request, answers), active'[i] = active[i],
             missed'[i] = IF FreeSlots(active) > 0 THEN missed[i] + 1 ELSE missed[i]
      PROVE  WaitCovered(i, c)'
  <2>1. /\ bypass'[i] = bypass[i] + 1
        /\ \A k \in Item : bypass'[k] <= bypass[k] + 1
        /\ FreeSlots(active) > 0 =>
              \E j \in Item : fairness_before(j, i, bypass) /\ bypass'[j] = 0
    BY <1>5, PassedOver
  <2>2. Behind(i, c) \subseteq Behind(i, c)'
    BY <1>1, <2>1 DEF Behind
  <2>3. CASE ~(FreeSlots(active) > 0)
    BY <1>1, <1>4, <1>5, <2>1, <2>2, <2>3
  <2>4. CASE FreeSlots(active) > 0
    <3>1. PICK j \in Item : fairness_before(j, i, bypass) /\ bypass'[j] = 0
      BY <2>1, <2>4
    <3>2. missed'[i] = missed[i] + 1 /\ missed[i] <= bypass[i]
      BY <1>5, <2>4 DEF WaitCovered
    <3>3. bypass[i] \in Nat /\ bypass[j] \in Nat /\ bypass'[i] \in Nat /\ j # i
      BY <1>1, <2>1, <3>1
    <3>4. missed'[i] >= c => j \in Behind(i, c)'
      BY <1>1, <2>1, <3>1, <3>2, <3>3 DEF Behind
    <3>5. CASE missed'[i] < c
      BY <1>1, <2>1, <3>2, <3>3, <3>5 DEF WaitCovered
    <3>6. CASE missed'[i] = c
      <4> DEFINE T == Behind(i, c)'
      <4>1. j \in T /\ {} \in SUBSET T /\ T \in SUBSET Item
        BY <3>4, <3>6, <1>1 DEF Behind
      <4> HIDE DEF T
      <4>2. Cardinality({}) + 1 <= Cardinality(T)
        BY <4>1, BehindCounts
      <4>3. Cardinality(Behind(i, c)') >= 1
        BY <4>2, FS_EmptySet DEF T
      <4> QED
        BY <1>1, <1>2, <2>1, <3>2, <3>3, <3>6, <4>3 DEF WaitCovered
    <3>7. CASE missed'[i] > c
      <4>1. missed[i] >= c
        BY <1>1, <3>2, <3>7
      <4>2. ~Unbounded
        <5>1. bypass[i] < CounterMax /\ CounterMax \in Nat
          BY Inputs DEF NotSaturated
        <5>2. Unbounded => c = CounterMax
          BY DEF bypass_ceiling
        <5> QED
          BY <1>1, <3>2, <3>3, <4>1, <5>1, <5>2
      <4>3. bypass[i] >= c
        BY <1>1, <3>2, <3>3, <4>1
      <4>4. ~(bypass[j] + c <= bypass[i])
        BY <3>1, <4>2, <4>3, FirstDoesNotLag
      <4>5. j \notin Behind(i, c) /\ j \in Behind(i, c)'
        BY <1>1, <3>4, <3>7, <4>4 DEF Behind
      <4>6. Cardinality(Behind(i, c)) + 1 <= Cardinality(Behind(i, c)')
        BY <1>2, <2>2, <4>5
      <4>7. missed[i] <= c - 1 + Cardinality(Behind(i, c))
        BY <4>1 DEF WaitCovered
      <4> QED
        BY <1>1, <1>2, <2>1, <3>2, <3>3, <4>6, <4>7 DEF WaitCovered
    <3> QED
      BY <1>1, <3>5, <3>6, <3>7
  <2> QED
    BY <2>3, <2>4
<1>6. CASE schedule_batch
  <2>1. PICK items \in SUBSET admitted : \E request, answers :
           BatchMade(items, request, answers)
    BY <1>6, BatchStep
  <2>2. PICK request, answers : BatchMade(items, request, answers)
    BY <2>1
  <2>3. \/ missed'[i] = 0
        \/ /\ i \in items /\ Wanted(i, request, answers) /\ active'[i] = active[i]
           /\ missed'[i] = IF FreeSlots(active) > 0 THEN missed[i] + 1 ELSE missed[i]
    BY <2>2 DEF BatchMade, MissedAfter, Wanted
  <2>4. /\ request.max \in Nat \ {0}
        /\ BatchOutcome(Start, [running |-> active', passed |-> bypass'],
                        items, request, answers)
    BY <2>2 DEF BatchMade
  <2> QED
    BY <1>3, <1>5, <2>3, <2>4
<1>7. ASSUME NEW j \in Item, Admit(j)
      PROVE  WaitCovered(i, c)'
  <2>1. CASE j = i
    BY <1>3, <1>7, <2>1 DEF Admit, TypeOK
  <2>2. CASE j # i
    <3>1. /\ missed'[i] = missed[i] /\ bypass'[i] = bypass[i]
          /\ \A k \in Item : bypass'[k] = bypass[k] \/ bypass'[k] = 0
      BY <1>7, <2>2 DEF Admit, TypeOK
    <3>2. Behind(i, c) \subseteq Behind(i, c)'
      BY <1>1, <3>1 DEF Behind
    <3> QED
      BY <1>1, <1>4, <3>1, <3>2
  <2> QED
    BY <2>1, <2>2
<1>8. CASE UNCHANGED bypass /\ (missed'[i] = missed[i] \/ missed'[i] = 0)
  <2>1. Behind(i, c)' = Behind(i, c)
    BY <1>8 DEF Behind
  <2> QED
    BY <1>1, <1>3, <1>4, <1>8, <2>1
<1>9. ASSUME NEW j \in Item, Withdraw(j)
      PROVE  WaitCovered(i, c)'
  BY <1>8, <1>9 DEF Withdraw, TypeOK
<1>10. ASSUME NEW j \in Item, Return(j)
       PROVE  WaitCovered(i, c)'
  BY <1>8, <1>10 DEF Return
<1>11. CASE UNCHANGED vars
  BY <1>8, <1>11 DEF vars
<1> QED
  BY <1>6, <1>7, <1>9, <1>10, <1>11 DEF Next


\* Of every item whose class has the least ceiling.
WaitInvariant ==
    \A i \in Item : LeastCeiling(i) => WaitCovered(i, bypass_ceiling(i))

\* What a batch may still pass over such an item, however the others arrive.
LeastCeilingBounded ==
    \A i \in admitted : LeastCeiling(i) =>
        missed[i] + 1 <= bypass_ceiling(i) + Cardinality(Item) - 1

LEMMA WaitInvariantStep ==
    ASSUME TypeOK, TypeOK', NotSaturated, [Next]_vars, WaitInvariant
    PROVE  WaitInvariant'
<1> SUFFICES ASSUME NEW i \in Item, LeastCeiling(i)
             PROVE  WaitCovered(i, bypass_ceiling(i))'
  BY DEF WaitInvariant
<1> DEFINE c == bypass_ceiling(i)
<1>1. WaitCovered(i, c)
  BY DEF WaitInvariant
<1> HIDE DEF c
<1>2. WaitCovered(i, c)'
  BY <1>1, WaitStep DEF c
<1> QED
  BY <1>2 DEF c

LEMMA WaitBounds ==
    ASSUME TypeOK, WaitInvariant
    PROVE  LeastCeilingBounded
<1> SUFFICES ASSUME NEW i \in admitted, LeastCeiling(i)
             PROVE  missed[i] + 1 <= bypass_ceiling(i) + Cardinality(Item) - 1
  BY DEF LeastCeilingBounded
<1> DEFINE c == bypass_ceiling(i)
           S == Behind(i, c)
<1>1. i \in Item
  BY DEF TypeOK, AgesOrdered
<1>2. c \in Nat \ {0} /\ missed[i] \in Nat
  BY <1>1, CeilingPositive DEF TypeOK
<1>3. S \in SUBSET Item /\ S # Item /\ {} \in SUBSET Item /\ Item \in SUBSET Item
  BY <1>1 DEF Behind
<1>4. WaitCovered(i, c)
  BY <1>1 DEF WaitInvariant
<1> HIDE DEF c, S
<1>5. /\ Cardinality(S) \in Nat /\ Cardinality(Item) \in Nat
      /\ Cardinality(S) + 1 <= Cardinality(Item)
  BY <1>3, BehindCounts
<1>6. missed[i] >= c => missed[i] <= c - 1 + Cardinality(S)
  BY <1>4 DEF WaitCovered, S
<1>7. missed[i] + 1 <= c + Cardinality(Item) - 1
  BY <1>2, <1>5, <1>6
<1> QED
  BY <1>7 DEF c

\* An item whose class has the least ceiling is passed over fewer than that many
\* batches and one for every other item.
THEOREM LeastCeilingWaits == Spec /\ []NotSaturated => []LeastCeilingBounded
<1>1. Init => WaitInvariant
  <2> SUFFICES ASSUME Init, NEW i \in Item, LeastCeiling(i)
               PROVE  WaitCovered(i, bypass_ceiling(i))
    BY DEF WaitInvariant
  <2>1. bypass_ceiling(i) \in Nat \ {0}
    BY CeilingPositive
  <2> QED
    BY <2>1 DEF Init, WaitCovered
<1>2. TypeOK /\ TypeOK' /\ NotSaturated /\ [Next]_vars /\ WaitInvariant => WaitInvariant'
  BY WaitInvariantStep
<1>3. TypeOK /\ WaitInvariant => LeastCeilingBounded
  BY WaitBounds
<1>4. Spec => []TypeOK
  BY Typed
<1> QED
  BY <1>1, <1>2, <1>3, <1>4, PTL DEF Spec

\* The documented bound on waiting, where all classes have one ceiling.
OneCeiling == \A i, j \in Item : bypass_ceiling(i) = bypass_ceiling(j)

THEOREM WaitingBounded ==
    ASSUME OneCeiling
    PROVE  Spec /\ []NotSaturated => []StarvationBounded
<1>1. TypeOK /\ LeastCeilingBounded => StarvationBounded
  <2>1. \A i \in Item : LeastCeiling(i)
    <3>1. \A i \in Item : bypass_ceiling(i) \in Nat
      BY CeilingPositive
    <3> QED
      BY <3>1 DEF OneCeiling, LeastCeiling
  <2> QED
    BY <2>1 DEF TypeOK, AgesOrdered, LeastCeilingBounded, StarvationBounded
<1>2. Spec /\ []NotSaturated => []LeastCeilingBounded
  BY LeastCeilingWaits
<1>3. Spec => []TypeOK
  BY Typed
<1> QED
  BY <1>1, <1>2, <1>3, PTL

-----------------------------------------------------------------------------
(* Fan-out.                                                                *)

LEMMA FanoutStep ==
    ASSUME TypeOK, TypeOK', [Next]_vars, NEW i \in Item, active'[i] >= active[i] + 2,
           NEW j \in Item
    PROVE  missed'[j] <= missed[j]
<1>1. active[i] \in Nat /\ active'[i] \in Nat /\ missed[j] \in Nat
  BY DEF TypeOK
<1>2. CASE schedule_batch
  <2>0. PICK items \in SUBSET admitted : \E request, answers :
           BatchMade(items, request, answers)
    BY <1>2, BatchStep
  <2>1. PICK request, answers : BatchMade(items, request, answers)
    BY <2>0
  <2>2. CASE missed'[j] = 0
    BY <1>1, <2>2
  <2>3. CASE j \in items /\ Wanted(j, request, answers) /\ active'[j] = active[j]
    <3> DEFINE b == [running |-> active', passed |-> bypass']
    <3>1. b.running = active' /\ Start.running = active
      BY DEF Start
    <3> HIDE DEF b
    <3>2. BatchOutcome(Start, b, items, request, answers)
      BY <2>1 DEF BatchMade, b
    <3>3. active'[i] <= active[i] + 1
      BY <2>3, <3>1, <3>2 DEF BatchOutcome
    <3> QED
      BY <1>1, <3>3
  <2>4. missed'[j] = 0 \/ (j \in items /\ Wanted(j, request, answers) /\ active'[j] = active[j])
    BY <2>1 DEF BatchMade, MissedAfter, Wanted
  <2> QED
    BY <2>2, <2>3, <2>4
<1>3. ASSUME NEW k \in Item, Admit(k) \/ Withdraw(k)
      PROVE  FALSE
  BY <1>1, <1>3 DEF Admit, Withdraw, TypeOK
<1>4. ASSUME NEW k \in Item, Return(k)
      PROVE  FALSE
  BY <1>1, <1>4 DEF Return, TypeOK
<1>5. CASE UNCHANGED vars
  BY <1>1, <1>5 DEF vars
<1> QED
  BY <1>2, <1>3, <1>4, <1>5 DEF Next

\* No item gets a second replica in a batch that passes over a wanted one.
THEOREM FanoutLast == Spec => FanoutTakesLeftovers
<1>1. TypeOK /\ TypeOK' /\ [Next]_vars =>
         [(\E i \in Item : active'[i] >= active[i] + 2) =>
            \A j \in Item : missed'[j] <= missed[j]]_vars
  BY FanoutStep
<1> QED
  BY <1>1, Typed, PTL DEF Spec, FanoutTakesLeftovers


=============================================================================
