------------------------- MODULE ArbitrationProofs -------------------------
(***************************************************************************)
(* What the resolvers promise for every list of source decisions, whatever *)
(* its length, and for every order list.                                   *)
(***************************************************************************)
EXTENDS Arbitration, FiniteSetTheorems, FunctionTheorems, SequenceTheorems, TLAPS

(***************************************************************************)
(* A non-empty set of natural numbers has a least element.  Otherwise its  *)
(* lower bounds would be closed under successor; they are finite in        *)
(* number, and adding one would inject them into themselves without zero.  *)
(***************************************************************************)
LEMMA LeastElement ==
    ASSUME NEW T \in SUBSET Nat, T # {}
    PROVE  \E m \in T : \A n \in T : m <= n
<1> SUFFICES ASSUME \A m \in T : \E n \in T : n < m
             PROVE  FALSE
  OBVIOUS
<1> DEFINE L == {n \in Nat : \A t \in T : n <= t}
           up == [n \in L |-> n + 1]
<1>1. PICK x \in T : TRUE
  OBVIOUS
<1>2. IsFiniteSet(L)
  <2>1. L \in SUBSET (0..x)
    BY <1>1
  <2>2. IsFiniteSet(0..x)
    BY FS_Interval
  <2> HIDE DEF L
  <2> QED
    BY <2>1, <2>2, FS_Subset
<1>3. 0 \in L
  OBVIOUS
<1>4. \A n \in L : n + 1 \in L \ {0}
  <2> SUFFICES ASSUME NEW n \in L, NEW t \in T
               PROVE  n + 1 <= t
    OBVIOUS
  <2>1. t # n
    OBVIOUS
  <2> QED
    BY <2>1
<1>5. up \in Injection(L, L \ {0})
  <2>1. up \in [L -> L \ {0}]
    BY <1>4
  <2>2. \A a, b \in L : up[a] = up[b] => a = b
    OBVIOUS
  <2> QED
    BY <2>1, <2>2 DEF Injection, IsInjective
<1>6. IsFiniteSet(L \ {0}) /\ Cardinality(L \ {0}) = Cardinality(L) - 1
  BY <1>2, <1>3, FS_RemoveElement
<1>7. Cardinality(L) <= Cardinality(L \ {0})
  BY <1>5, <1>6, FS_Injection
<1>8. Cardinality(L) \in Nat
  BY <1>2, FS_CardinalityType
<1> HIDE DEF L, up
<1> QED
  BY <1>6, <1>7, <1>8

LEMMA RankType ==
    ASSUME NEW O, NEW order \in Seq(O), NEW source
    PROVE  /\ rank(order, source) \in 1 .. (Len(order) + 1)
           /\ \A i \in Positions(order, source) : rank(order, source) <= i
<1>1. CASE Positions(order, source) = {}
  BY <1>1 DEF rank
<1>2. CASE Positions(order, source) # {}
  <2>1. Positions(order, source) \in SUBSET Nat
    BY DEF Positions
  <2>2. \E i \in Positions(order, source) : \A j \in Positions(order, source) : i <= j
    BY <1>2, <2>1, LeastElement
  <2>3. /\ rank(order, source) \in Positions(order, source)
        /\ \A j \in Positions(order, source) : rank(order, source) <= j
    BY <1>2, <2>2 DEF rank
  <2> QED
    BY <2>3 DEF Positions
<1> QED
  BY <1>1, <1>2

(***************************************************************************)
(* The fold of resolvers.ts:50 and :53 always has a winner: whatever the   *)
(* sources answer and in whatever order they are listed, exactly one entry *)
(* is beaten by nobody and beats everybody listed before it.               *)
(***************************************************************************)
THEOREM WinnerExists ==
    ASSUME NEW S, NEW ds \in Seq(SourceDecision(S)), ds # << >>,
           NEW resolver, NEW O, NEW order \in Seq(O)
    PROVE  \E w \in 1..Len(ds) : IsWinner(w, ds, resolver, order)
<1> DEFINE key(i) == IF resolver = "priority" THEN rank(order, ds[i].source)
                     ELSE 3 - RESTRICTIVENESS[ds[i].effect]
           keys == {key(i) : i \in 1..Len(ds)}
<1>1. Len(ds) \in Nat \ {0}
  BY EmptySeq
<1>2. \A i \in 1..Len(ds) : ds[i] \in SourceDecision(S)
  BY ElementOfSeq
<1>3. \A i \in 1..Len(ds) : key(i) \in Nat
  <2> TAKE i \in 1..Len(ds)
  <2>1. CASE resolver = "priority"
    BY <2>1, RankType
  <2>2. CASE resolver # "priority"
    BY <1>2, <2>2 DEF SourceDecision, Effects, RESTRICTIVENESS
  <2> QED
    BY <2>1, <2>2
<1>4. \A i, j \in 1..Len(ds) : Beats(ds[i], ds[j], resolver, order) <=> key(i) < key(j)
  <2> TAKE i, j \in 1..Len(ds)
  <2>1. CASE resolver = "priority"
    BY <2>1 DEF Beats
  <2>2. CASE resolver # "priority"
    BY <1>2, <2>2 DEF Beats, SourceDecision, Effects, RESTRICTIVENESS
  <2> QED
    BY <2>1, <2>2
<1> HIDE DEF key
<1>5. PICK m \in keys : \A k \in keys : m <= k
  <2>1. keys \in SUBSET Nat
    BY <1>3
  <2>2. keys # {}
    BY <1>1
  <2> HIDE DEF keys
  <2> QED
    BY <2>1, <2>2, LeastElement
<1> DEFINE best == {i \in 1..Len(ds) : key(i) = m}
<1>6. PICK w \in best : \A i \in best : w <= i
  <2>1. best \in SUBSET Nat
    OBVIOUS
  <2>2. best # {}
    BY <1>5
  <2> HIDE DEF best
  <2> QED
    BY <2>1, <2>2, LeastElement
<1>7. ASSUME NEW i \in 1..Len(ds)
      PROVE  /\ ~ Beats(ds[i], ds[w], resolver, order)
             /\ i < w => Beats(ds[w], ds[i], resolver, order)
  <2>1. key(w) = m /\ m <= key(i) /\ key(i) \in Nat /\ m \in Nat
    BY <1>3, <1>5, <1>6
  <2>2. i < w => key(i) # m
    BY <1>6
  <2> QED
    BY <1>4, <1>6, <2>1, <2>2
<1> QED
  BY <1>6, <1>7 DEF IsWinner

LEMMA WinnerIsListed ==
    ASSUME NEW S, NEW ds \in Seq(SourceDecision(S)), ds # << >>,
           NEW resolver, NEW O, NEW order \in Seq(O)
    PROVE  \E w \in 1..Len(ds) : /\ Winner(ds, resolver, order) = ds[w]
                                 /\ IsWinner(w, ds, resolver, order)
BY WinnerExists DEF Winner

LEMMA WinnerType ==
    ASSUME NEW S, NEW ds \in Seq(SourceDecision(S)), ds # << >>,
           NEW resolver, NEW O, NEW order \in Seq(O)
    PROVE  Winner(ds, resolver, order) \in SourceDecision(S)
BY WinnerIsListed, ElementOfSeq

(***************************************************************************)
(* Deny beats escalate beats allow (resolvers.ts:4): under any resolver    *)
(* that is not the priority one, no source is stricter than the outcome.   *)
(***************************************************************************)
THEOREM MostRestrictiveOutcome ==
    ASSUME NEW S, NEW ds \in Seq(SourceDecision(S)), ds # << >>,
           NEW resolver, resolver # "priority", NEW O, NEW order \in Seq(O)
    PROVE  \A i \in 1..Len(ds) :
               RESTRICTIVENESS[ds[i].effect]
                 <= RESTRICTIVENESS[Winner(ds, resolver, order).effect]
<1> TAKE i \in 1..Len(ds)
<1>1. PICK w \in 1..Len(ds) : /\ Winner(ds, resolver, order) = ds[w]
                             /\ IsWinner(w, ds, resolver, order)
  BY WinnerIsListed
<1>2. ~ (RESTRICTIVENESS[ds[i].effect] > RESTRICTIVENESS[ds[w].effect])
  BY <1>1 DEF IsWinner, Beats
<1>3. ds[i] \in SourceDecision(S) /\ ds[w] \in SourceDecision(S)
  BY ElementOfSeq
<1> QED
  BY <1>1, <1>2, <1>3 DEF SourceDecision, Effects, RESTRICTIVENESS

(***************************************************************************)
(* An explicit order wins regardless of strictness (resolvers.ts:5): no    *)
(* source that took part stands earlier in the order than the winner.      *)
(***************************************************************************)
THEOREM PriorityOutcome ==
    ASSUME NEW S, NEW ds \in Seq(SourceDecision(S)), ds # << >>,
           NEW O, NEW order \in Seq(O)
    PROVE  \A i \in 1..Len(ds) :
               rank(order, Winner(ds, "priority", order).source)
                 <= rank(order, ds[i].source)
<1> TAKE i \in 1..Len(ds)
<1>1. PICK w \in 1..Len(ds) : /\ Winner(ds, "priority", order) = ds[w]
                             /\ IsWinner(w, ds, "priority", order)
  BY WinnerIsListed
<1>2. ~ (rank(order, ds[i].source) < rank(order, ds[w].source))
  BY <1>1 DEF IsWinner, Beats
<1>3. rank(order, ds[i].source) \in Nat /\ rank(order, ds[w].source) \in Nat
  BY RankType
<1> QED
  BY <1>1, <1>2, <1>3

-----------------------------------------------------------------------------
(***************************************************************************)
(* The fold.  After n entries it holds the winner of the first n: that is  *)
(* so of any function that obeys the recursion, and some function does.    *)
(***************************************************************************)
LEMMA BeatsOrders ==
    ASSUME NEW S, NEW d \in SourceDecision(S), NEW e \in SourceDecision(S),
           NEW best \in SourceDecision(S), NEW resolver, NEW O, NEW order \in Seq(O)
    PROVE  /\ ~ Beats(d, d, resolver, order)
           /\ Beats(d, e, resolver, order) => ~ Beats(e, d, resolver, order)
           /\ Beats(d, best, resolver, order) /\ ~ Beats(e, best, resolver, order)
                 => Beats(d, e, resolver, order)
<1>1. CASE resolver = "priority"
  <2>1. /\ rank(order, d.source) \in Nat /\ rank(order, e.source) \in Nat
        /\ rank(order, best.source) \in Nat
    BY RankType
  <2> QED
    BY <1>1, <2>1 DEF Beats
<1>2. CASE resolver # "priority"
  BY <1>2 DEF Beats, SourceDecision, Effects, RESTRICTIVENESS
<1> QED
  BY <1>1, <1>2

(* w wins among the first n entries. *)
Leads(w, n, ds, resolver, order) ==
    /\ w \in 1..n
    /\ \A i \in 1..n : /\ ~ Beats(ds[i], ds[w], resolver, order)
                       /\ i < w => Beats(ds[w], ds[i], resolver, order)

LEMMA OneLeads ==
    ASSUME NEW S, NEW ds \in Seq(SourceDecision(S)), NEW resolver, NEW O, NEW order \in Seq(O),
           NEW n \in 1..Len(ds), NEW v, NEW w,
           Leads(v, n, ds, resolver, order), Leads(w, n, ds, resolver, order)
    PROVE  v = w
<1>1. v \in 1..n /\ w \in 1..n /\ n \in Nat
  BY DEF Leads
<1>2. ~ (v < w) /\ ~ (w < v)
  BY <1>1 DEF Leads
<1> QED
  BY <1>1, <1>2

LEMMA LeadMoves ==
    ASSUME NEW S, NEW ds \in Seq(SourceDecision(S)), NEW resolver, NEW O, NEW order \in Seq(O),
           NEW n \in 1..Len(ds), n > 1, NEW w, Leads(w, n - 1, ds, resolver, order)
    PROVE  IF Beats(ds[n], ds[w], resolver, order)
           THEN Leads(n, n, ds, resolver, order)
           ELSE Leads(w, n, ds, resolver, order)
<1>1. n \in Nat /\ Len(ds) \in Nat /\ w \in 1..(n - 1)
  BY DEF Leads
<1>2. \A i \in 1..n : ds[i] \in SourceDecision(S)
  BY <1>1, ElementOfSeq
<1>3. \A i \in 1..(n - 1) : /\ ~ Beats(ds[i], ds[w], resolver, order)
                            /\ i < w => Beats(ds[w], ds[i], resolver, order)
  BY DEF Leads
<1>4. CASE Beats(ds[n], ds[w], resolver, order)
  <2>1. ASSUME NEW i \in 1..(n - 1)
        PROVE  /\ Beats(ds[n], ds[i], resolver, order)
               /\ ~ Beats(ds[i], ds[n], resolver, order)
    <3>1. /\ ds[n] \in SourceDecision(S) /\ ds[i] \in SourceDecision(S)
          /\ ds[w] \in SourceDecision(S)
      BY <1>1, <1>2
    <3>2. ~ Beats(ds[i], ds[w], resolver, order)
      BY <1>3
    <3> QED
      BY <1>4, <3>1, <3>2, BeatsOrders
  <2>2. \A i \in 1..n : ~ Beats(ds[i], ds[n], resolver, order)
    <3> TAKE i \in 1..n
    <3>1. CASE i = n
      BY <1>2, <3>1, BeatsOrders
    <3>2. CASE i \in 1..(n - 1)
      BY <2>1, <3>2
    <3> QED
      BY <1>1, <3>1, <3>2
  <2> QED
    BY <1>1, <1>4, <2>1, <2>2 DEF Leads
<1>5. CASE ~ Beats(ds[n], ds[w], resolver, order)
  BY <1>1, <1>3, <1>5 DEF Leads
<1> QED
  BY <1>4, <1>5

LEMMA SomeLeads ==
    ASSUME NEW S, NEW ds \in Seq(SourceDecision(S)), NEW resolver, NEW O, NEW order \in Seq(O),
           NEW n \in 1..Len(ds)
    PROVE  \E w : Leads(w, n, ds, resolver, order)
<1> DEFINE Late == {k \in 1..Len(ds) : ~ \E w : Leads(w, k, ds, resolver, order)}
<1> SUFFICES ASSUME Late # {} PROVE FALSE
  OBVIOUS
<1>1. Late \in SUBSET Nat
  OBVIOUS
<1> HIDE DEF Late
<1>2. PICK m \in Late : \A k \in Late : m <= k
  BY <1>1, LeastElement
<1>3. m \in 1..Len(ds) /\ ~ \E w : Leads(w, m, ds, resolver, order)
  BY DEF Late
<1>4. m # 1
  <2>1. ds[1] \in SourceDecision(S)
    BY <1>3, ElementOfSeq
  <2>2. Leads(1, 1, ds, resolver, order)
    BY <2>1, BeatsOrders DEF Leads
  <2> QED
    BY <1>3, <2>2
<1>5. m - 1 \in 1..Len(ds) /\ m - 1 \notin Late
  BY <1>2, <1>3, <1>4
<1>6. PICK w : Leads(w, m - 1, ds, resolver, order)
  BY <1>5 DEF Late
<1> QED
  BY <1>3, <1>4, <1>6, LeadMoves

(* The left fold of resolvers.ts:50-55 returns the winner, for every list  *)
(* of source decisions, both resolvers and every order list.               *)
THEOREM ReduceIsWinner ==
    ASSUME NEW S, NEW ds \in Seq(SourceDecision(S)), ds # << >>,
           NEW resolver, NEW O, NEW order \in Seq(O)
    PROVE  Reduce(ds, resolver, order) = Winner(ds, resolver, order)
<1> DEFINE L(w, n) == Leads(w, n, ds, resolver, order)
           B(i, d) == Beats(ds[i], d, resolver, order)
           Obeys(f) == f = [i \in 1..Len(ds) |->
                               IF i > 1 /\ ~ Beats(ds[i], f[i - 1], resolver, order)
                               THEN f[i - 1] ELSE ds[i]]
           best[i \in 1..Len(ds)] ==
               IF i > 1 /\ ~ Beats(ds[i], best[i - 1], resolver, order)
               THEN best[i - 1] ELSE ds[i]
           g == [i \in 1..Len(ds) |-> ds[CHOOSE w : L(w, i)]]
<1>1. Reduce(ds, resolver, order) = best[Len(ds)]
  BY DEF Reduce
<1>2. best = CHOOSE f : Obeys(f)
  BY DEF best
<1> HIDE DEF best
<1>3. Len(ds) \in Nat \ {0}
  BY EmptySeq
<1>4. \A n \in 1..Len(ds) : \E w : L(w, n)
  BY SomeLeads
<1>5. \A n \in 1..Len(ds) : \A v, w : L(v, n) /\ L(w, n) => v = w
  BY OneLeads
<1>6. \A n \in 1..Len(ds) : \A w : n > 1 /\ L(w, n - 1) =>
          IF B(n, ds[w]) THEN L(n, n) ELSE L(w, n)
  BY LeadMoves
<1>7. \A w : L(w, 1) => w = 1
  BY DEF Leads
<1> HIDE DEF L
<1>8. \A n \in 1..Len(ds) : \A w : L(w, n) => g[n] = ds[w]
  BY <1>5
<1> HIDE DEF g
<1>9. Obeys(g)
  <2>1. ASSUME NEW i \in 1..Len(ds)
        PROVE  g[i] = IF i > 1 /\ ~ B(i, g[i - 1]) THEN g[i - 1] ELSE ds[i]
    <3>1. PICK w : L(w, i)
      BY <1>4
    <3>2. CASE i = 1
      BY <1>3, <1>7, <1>8, <3>1, <3>2
    <3>3. CASE i > 1
      <4>1. i - 1 \in 1..Len(ds)
        BY <1>3, <3>3
      <4>2. PICK v : L(v, i - 1)
        BY <1>4, <4>1
      <4>3. g[i - 1] = ds[v]
        BY <1>8, <4>1, <4>2
      <4>4. IF B(i, ds[v]) THEN L(i, i) ELSE L(v, i)
        BY <1>6, <3>3, <4>2
      <4>5. g[i] = IF B(i, ds[v]) THEN ds[i] ELSE ds[v]
        BY <1>8, <4>4
      <4> QED
        BY <3>3, <4>3, <4>5
    <3> QED
      BY <3>2, <3>3
  <2>2. g = [i \in 1..Len(ds) |-> g[i]]
    BY DEF g
  <2> QED
    BY <2>1, <2>2
<1>10. Obeys(best)
  BY <1>2, <1>9
<1>11. \A i \in 1..Len(ds) : best[i] = IF i > 1 /\ ~ B(i, best[i - 1]) THEN best[i - 1] ELSE ds[i]
  BY <1>10
<1> HIDE DEF Obeys
<1>12. \A n \in 1..Len(ds) : best[n] = g[n]
  <2> DEFINE Late == {k \in 1..Len(ds) : best[k] # g[k]}
  <2> SUFFICES ASSUME Late # {} PROVE FALSE
    OBVIOUS
  <2>1. Late \in SUBSET Nat
    OBVIOUS
  <2> HIDE DEF Late
  <2>2. PICK m \in Late : \A k \in Late : m <= k
    BY <2>1, LeastElement
  <2>3. m \in 1..Len(ds) /\ best[m] # g[m]
    BY DEF Late
  <2>4. g[m] = IF m > 1 /\ ~ B(m, g[m - 1]) THEN g[m - 1] ELSE ds[m]
    BY <1>9, <2>3 DEF Obeys
  <2>5. CASE m > 1
    <3>1. m - 1 \in 1..Len(ds) /\ m - 1 \notin Late
      BY <1>3, <2>2, <2>3, <2>5
    <3>2. best[m - 1] = g[m - 1]
      BY <3>1 DEF Late
    <3> QED
      BY <1>11, <2>3, <2>4, <3>2
  <2>6. CASE ~ (m > 1)
    BY <1>11, <2>3, <2>4, <2>6
  <2> QED
    BY <2>5, <2>6
<1>13. PICK w \in 1..Len(ds) : /\ Winner(ds, resolver, order) = ds[w]
                               /\ IsWinner(w, ds, resolver, order)
  BY WinnerIsListed
<1>14. L(w, Len(ds))
  BY <1>13 DEF L, Leads, IsWinner
<1> QED
  BY <1>1, <1>3, <1>8, <1>12, <1>13, <1>14

=============================================================================
