-------------------------- MODULE EvaluationProofs --------------------------
(***************************************************************************)
(* The pure parts of a decision: how the resolvers combine what the        *)
(* sources answered, for any list of sources and any order list, and what  *)
(* the Cedar adapter makes of a bundle, for bundles of any length; and the *)
(* demo policy in both engines, for any principals.                        *)
(***************************************************************************)
EXTENDS MCArbitration, MCEngines, ArbitrationProofs

(***************************************************************************)
(* The inputs of the resolvers.                                            *)
(***************************************************************************)
InputInv == /\ decisions \in Seq(SourceDecision(SourceNames))
            /\ decisions # << >>
            /\ resolver \in Resolvers
            /\ order \in Seq(SourceNames)
            /\ order \in BoundedSeq(SourceNames, MaxOrder)

LEMMA InputInvariant == Spec => []InputInv
<1>1. Init => InputInv
  <2> SUFFICES ASSUME Init PROVE InputInv
    OBVIOUS
  <2>1. order \in Seq(SourceNames)
    BY DEF Init, BoundedSeq, SeqOf
  <2> QED
    BY <2>1 DEF Init, InputInv
<1>2. InputInv /\ [AddSource]_vars => InputInv'
  BY DEF InputInv, AddSource, vars
<1> QED
  BY <1>1, <1>2, PTL DEF Spec

(* The left fold of resolvers.ts:50-55 returns the entry that Winner       *)
(* describes.                                                              *)
THEOREM FoldCorrect == Spec => []ReduceReturnsWinner
<1>1. InputInv => ReduceReturnsWinner
  BY ReduceIsWinner DEF InputInv, ReduceReturnsWinner, outcome
<1> QED
  BY <1>1, InputInvariant, PTL

LEMMA OutcomeTells ==
    ASSUME InputInv
    PROVE  \E w \in 1..Len(decisions) :
               /\ outcome = decisions[w]
               /\ IsWinner(w, decisions, resolver, order)
               /\ \A i \in 1..Len(decisions) : decisions[i] \in SourceDecision(SourceNames)
BY WinnerIsListed, ElementOfSeq DEF InputInv, outcome

(* Under the most-restrictive resolver the outcome denies if any source    *)
(* denies, and allows only if all of them allow (resolvers.ts:4).          *)
THEOREM MostRestrictiveCorrect == Spec => []DenyBeatsEscalateBeatsAllow
<1>1. InputInv => DenyBeatsEscalateBeatsAllow
  <2> SUFFICES ASSUME InputInv, resolver = "most-restrictive"
               PROVE  LET effs == {decisions[i].effect : i \in 1..Len(decisions)}
                      IN  outcome.effect = IF "deny" \in effs THEN "deny"
                                           ELSE IF "escalate" \in effs THEN "escalate"
                                           ELSE "allow"
    BY DEF DenyBeatsEscalateBeatsAllow
  <2>1. PICK w \in 1..Len(decisions) :
            /\ outcome = decisions[w]
            /\ IsWinner(w, decisions, resolver, order)
            /\ \A i \in 1..Len(decisions) : decisions[i] \in SourceDecision(SourceNames)
    BY OutcomeTells
  <2>2. \A i \in 1..Len(decisions) :
            ~ (RESTRICTIVENESS[decisions[i].effect] > RESTRICTIVENESS[decisions[w].effect])
    BY <2>1 DEF IsWinner, Beats
  <2>3. \A i \in 1..Len(decisions) : decisions[i].effect \in {"allow", "escalate", "deny"}
    BY <2>1 DEF SourceDecision, Effects
  <2>4. \A i \in 1..Len(decisions) :
            /\ decisions[i].effect = "deny" => outcome.effect = "deny"
            /\ decisions[i].effect = "escalate" => outcome.effect # "allow"
    BY <2>1, <2>2, <2>3 DEF RESTRICTIVENESS
  <2> QED
    BY <2>1, <2>3, <2>4
<1> QED
  BY <1>1, InputInvariant, PTL

(***************************************************************************)
(* The least element of a set of positions.                                *)
(***************************************************************************)
LEMMA MinIsLeast ==
    ASSUME NEW T \in SUBSET Nat, T # {}
    PROVE  Min(T) \in T /\ \A n \in T : Min(T) <= n
BY LeastElement DEF Min

LEMMA MinIs ==
    ASSUME NEW T \in SUBSET Nat, NEW m \in T, \A n \in T : m <= n
    PROVE  Min(T) = m
<1>1. Min(T) \in T /\ Min(T) <= m /\ m <= Min(T)
  BY MinIsLeast
<1>2. Min(T) \in Nat /\ m \in Nat
  BY <1>1
<1> QED
  BY <1>1, <1>2

LEMMA RankIsPlace ==
    ASSUME NEW O, NEW ord \in Seq(O), NEW s
    PROVE  /\ Positions(ord, s) = {} => rank(ord, s) = Len(ord) + 1
           /\ Positions(ord, s) # {} =>
                 /\ rank(ord, s) \in 1..Len(ord)
                 /\ ord[rank(ord, s)] = s
           /\ \A k \in 1..Len(ord) : ord[k] = s => rank(ord, s) <= k
<1>1. Positions(ord, s) # {} => rank(ord, s) \in Positions(ord, s)
  <2>1. Positions(ord, s) \in SUBSET Nat
    BY DEF Positions
  <2> QED
    BY <2>1, LeastElement DEF rank
<1>2. \A k \in Positions(ord, s) : rank(ord, s) <= k
  BY RankType
<1> QED
  BY <1>1, <1>2 DEF Positions, rank

(* Under the priority resolver the first source of the order list that     *)
(* took part decides, and its own first entry; if the list names none of   *)
(* them, the first source of the request does (resolvers.ts:45).           *)
THEOREM OrderCorrect == Spec => []OrderDecides
<1>1. InputInv => OrderDecides
  <2> DEFINE named == {k \in 1..Len(order) :
                         \E i \in 1..Len(decisions) : decisions[i].source = order[k]}
             entries(s) == {i \in 1..Len(decisions) : decisions[i].source = s}
  <2> SUFFICES ASSUME InputInv, resolver = "priority"
               PROVE  outcome = IF named = {} THEN decisions[1]
                                ELSE decisions[Min(entries(order[Min(named)]))]
    BY DEF OrderDecides
  <2>1. PICK w \in 1..Len(decisions) :
            /\ outcome = decisions[w]
            /\ IsWinner(w, decisions, resolver, order)
            /\ \A i \in 1..Len(decisions) : decisions[i] \in SourceDecision(SourceNames)
    BY OutcomeTells
  <2> DEFINE place(i) == rank(order, decisions[i].source)
  <2>2. \A i \in 1..Len(decisions) : ~ (place(i) < place(w)) /\ (i < w => place(w) < place(i))
    BY <2>1 DEF IsWinner, Beats
  <2>3. /\ Len(order) \in Nat /\ Len(decisions) \in Nat \ {0}
        /\ order \in Seq(SourceNames)
    BY EmptySeq DEF InputInv
  <2>4. \A i \in 1..Len(decisions) : place(i) \in 1..(Len(order) + 1)
    BY <2>3, RankType
  <2>5. CASE named = {}
    <3>1. \A i \in 1..Len(decisions) : place(i) = Len(order) + 1
      <4> TAKE i \in 1..Len(decisions)
      <4>1. Positions(order, decisions[i].source) = {}
        BY <2>5 DEF Positions
      <4> QED
        BY <2>3, <4>1, RankIsPlace
    <3>2. w = 1
      <4>1. 1 \in 1..Len(decisions)
        BY <2>3
      <4> HIDE DEF place
      <4>2. ~ (1 < w)
        BY <2>2, <2>3, <3>1, <4>1
      <4> QED
        BY <2>3, <4>2
    <3> QED
      BY <2>1, <2>5, <3>2
  <2>6. CASE named # {}
    <3> DEFINE m == Min(named)
               s == order[m]
    <3>1. m \in named /\ \A k \in named : m <= k
      <4>1. named \in SUBSET Nat
        OBVIOUS
      <4> HIDE DEF named
      <4> QED
        BY <2>6, <4>1, MinIsLeast
    <3>2. PICK e \in 1..Len(decisions) : decisions[e].source = s
      BY <3>1
    <3>3. place(e) <= m
      BY <2>3, <3>1, <3>2, RankIsPlace
    <3>4. m \in 1..Len(order)
      BY <3>1
    <3>5. place(w) <= m /\ place(w) \in 1..Len(order)
      <4> HIDE DEF place, m, s
      <4>1. place(w) <= place(e)
        BY <2>2, <2>4
      <4> QED
        BY <2>3, <2>4, <3>3, <3>4, <4>1
    <3>6. Positions(order, decisions[w].source) # {}
      BY <2>3, <3>5, RankIsPlace
    <3>7. order[place(w)] = decisions[w].source
      BY <2>3, <3>6, RankIsPlace
    <3>8. place(w) \in named
      BY <3>5, <3>7
    <3>9. place(w) = m
      <4>1. m <= place(w)
        BY <3>1, <3>8
      <4> HIDE DEF place, m
      <4> QED
        BY <2>3, <3>4, <3>5, <4>1
    <3>10. decisions[w].source = s
      BY <3>7, <3>9
    <3>11. \A i \in entries(s) : i \in 1..Len(decisions) /\ place(i) = place(w)
      BY <3>10
    <3>12. w \in entries(s) /\ \A i \in entries(s) : w <= i
      <4>1. w \in entries(s)
        BY <3>10
      <4>2. \A i \in entries(s) : i \in Nat /\ w \in Nat /\ ~ (i < w)
        <5> HIDE DEF place, s
        <5> QED
          BY <2>2, <2>4, <3>11
      <4> QED
        BY <4>1, <4>2
    <3>13. entries(s) \in SUBSET Nat
      OBVIOUS
    <3> HIDE DEF entries, s
    <3>14. Min(entries(s)) = w
      BY <3>12, <3>13, MinIs
    <3> QED
      BY <2>1, <2>6, <3>14 DEF s
  <2> QED
    BY <2>5, <2>6
<1> QED
  BY <1>1, InputInvariant, PTL

(* Put before all others, a source that takes part decides.                *)
LEMMA FirstOfTheOrderDecides ==
    ASSUME NEW ds \in Seq(SourceDecision(SourceNames)), ds # << >>, NEW k \in 1..Len(ds)
    PROVE  \E w \in 1..Len(ds) : /\ Winner(ds, "priority", <<ds[k].source>>) = ds[w]
                                 /\ ds[w].source = ds[k].source
<1> DEFINE o == <<ds[k].source>>
<1>1. ds[k] \in SourceDecision(SourceNames)
  BY ElementOfSeq
<1>2. o \in Seq(SourceNames) /\ Len(o) = 1 /\ o[1] = ds[k].source
  BY <1>1 DEF SourceDecision
<1> HIDE DEF o
<1>3. rank(o, ds[k].source) <= 1
  BY <1>2, RankIsPlace
<1>4. PICK w \in 1..Len(ds) : /\ Winner(ds, "priority", o) = ds[w]
                              /\ IsWinner(w, ds, "priority", o)
  BY <1>2, WinnerIsListed DEF Resolvers
<1>5. ~ (rank(o, ds[k].source) < rank(o, ds[w].source))
  BY <1>4 DEF IsWinner, Beats
<1>6. /\ rank(o, ds[k].source) \in 1..(Len(o) + 1)
      /\ rank(o, ds[w].source) \in 1..(Len(o) + 1)
  BY <1>2, RankType
<1>7. rank(o, ds[w].source) = 1
  BY <1>2, <1>3, <1>5, <1>6
<1>8. ds[w].source = ds[k].source
  BY <1>2, <1>7, RankIsPlace
<1> QED
  BY <1>4, <1>8 DEF o

(* A conflict is reported exactly when the caller's choice of a resolver   *)
(* and an order decides the effect, for any list of sources and for order  *)
(* lists of any positive length (resolvers.ts:41, 44-55).                  *)
THEOREM ConflictCorrect == Spec => []ConflictIffResolverMatters
<1>1. InputInv => ConflictIffResolverMatters
  <2> DEFINE choices == {Winner(decisions, res, o).effect :
                            res \in Resolvers, o \in BoundedSeq(SourceNames, MaxOrder)}
  <2> SUFFICES ASSUME InputInv, OneAnswerEach
               PROVE  disagreed(decisions) <=> choices # {outcome.effect}
    BY DEF ConflictIffResolverMatters
  <2>1. outcome.effect \in choices
    BY DEF InputInv, outcome
  <2>2. ASSUME ~ disagreed(decisions), NEW effect \in choices
        PROVE  effect = outcome.effect
    <3>1. PICK res \in Resolvers, o \in BoundedSeq(SourceNames, MaxOrder) :
              effect = Winner(decisions, res, o).effect
      OBVIOUS
    <3>2. o \in Seq(SourceNames)
      BY DEF BoundedSeq, SeqOf
    <3>3. PICK v \in 1..Len(decisions) : Winner(decisions, res, o) = decisions[v]
      BY <3>2, WinnerIsListed DEF InputInv
    <3>4. PICK w \in 1..Len(decisions) : outcome = decisions[w]
      BY OutcomeTells
    <3> QED
      BY <2>2, <3>1, <3>3, <3>4 DEF disagreed
  <2>3. ASSUME disagreed(decisions)
        PROVE  \E effect \in choices : effect # outcome.effect
    <3>1. PICK k \in 1..Len(decisions) : decisions[k].effect # outcome.effect
      BY <2>3 DEF disagreed
    <3>2. PICK w \in 1..Len(decisions) :
              /\ Winner(decisions, "priority", <<decisions[k].source>>) = decisions[w]
              /\ decisions[w].source = decisions[k].source
      BY FirstOfTheOrderDecides DEF InputInv
    <3>3. decisions[w].effect = decisions[k].effect
      BY <3>2 DEF OneAnswerEach
    <3>4. <<decisions[k].source>> \in BoundedSeq(SourceNames, MaxOrder)
      <4>1. decisions[k].source \in SourceNames
        <5>1. decisions[k] \in SourceDecision(SourceNames)
          BY ElementOfSeq DEF InputInv
        <5> QED
          BY <5>1 DEF SourceDecision
      <4>2. <<decisions[k].source>> \in [1..1 -> SourceNames] /\ 1 \in 0..MaxOrder
        BY <4>1, OrderAssumption
      <4> QED
        BY <4>2 DEF BoundedSeq, SeqOf
    <3>5. decisions[k].effect \in choices
      BY <3>2, <3>3, <3>4 DEF Resolvers
    <3> QED
      BY <3>1, <3>5
  <2> HIDE DEF choices
  <2> QED
    BY <2>1, <2>2, <2>3
<1> QED
  BY <1>1, InputInvariant, PTL

(* Consulting one more source never relaxes the most-restrictive outcome   *)
(* (resolvers.ts:4).                                                       *)
THEOREM MoreSourcesCorrect == Spec => MoreSourcesNeverRelax
<1> DEFINE Keeps == resolver = "most-restrictive" =>
                (outcome.effect \in {"escalate", "deny"} => outcome'.effect # "allow")
                /\ (outcome.effect = "deny" => outcome'.effect = "deny")
<1>1. ASSUME InputInv, InputInv', [AddSource]_vars
      PROVE  [Keeps]_vars
  <2> SUFFICES ASSUME AddSource, resolver = "most-restrictive"
               PROVE  /\ outcome.effect \in {"escalate", "deny"} => outcome'.effect # "allow"
                      /\ outcome.effect = "deny" => outcome'.effect = "deny"
    BY <1>1
  <2>1. PICK w \in 1..Len(decisions) : outcome = decisions[w]
    BY <1>1, OutcomeTells
  <2>2. PICK d : decisions' = Append(decisions, d) /\ d \in SourceDecision(SourceNames)
    BY DEF AddSource
  <2>3. w \in 1..Len(decisions') /\ decisions'[w] = decisions[w]
    BY <1>1, <2>2 DEF InputInv
  <2>4. /\ \A i \in 1..Len(decisions') :
               ~ (RESTRICTIVENESS[decisions'[i].effect] > RESTRICTIVENESS[outcome'.effect])
        /\ outcome'.effect \in Effects /\ decisions'[w].effect \in Effects
    <3>1. resolver' = resolver
      BY DEF AddSource
    <3>2. \E v \in 1..Len(decisions') :
              /\ outcome' = decisions'[v]
              /\ IsWinner(v, decisions', resolver', order')
              /\ \A i \in 1..Len(decisions') : decisions'[i] \in SourceDecision(SourceNames)
      BY <1>1, WinnerIsListed, ElementOfSeq DEF InputInv, outcome
    <3> QED
      BY <2>3, <3>1, <3>2 DEF IsWinner, Beats, SourceDecision
  <2> QED
    BY <2>1, <2>3, <2>4 DEF Effects, RESTRICTIVENESS
<1> QED
  BY <1>1, InputInvariant, PTL DEF Spec, MoreSourcesNeverRelax

-----------------------------------------------------------------------------
(***************************************************************************)
(* Cedar bundles.  Only for distinct ids is anything assumed of the        *)
(* strings that identifiers are, and nothing of what a scope covers.       *)
(***************************************************************************)
Texts == Writable \cup {Unreadable} \cup {DemoCedar[i] : i \in DOMAIN DemoCedar}

BundleInv == source \in Seq(Texts)

LEMMA BundleInvariant == EnginesSpec => []BundleInv
<1>1. EnginesInit => BundleInv
  <2>1. DOMAIN DemoCedar = 1..9 /\ DemoCedar = [i \in 1..9 |-> DemoCedar[i]]
    BY DEF DemoCedar
  <2>2. DemoCedar \in Seq(Texts)
    BY <2>1 DEF Texts
  <2>3. << >> \in Seq(Texts)
    OBVIOUS
  <2> QED
    BY <2>2, <2>3, Zenon DEF EnginesInit, BundleInv
<1>2. BundleInv /\ [EnginesNext]_enginesVars => BundleInv'
  BY DEF BundleInv, Texts, EnginesNext, AddPolicy, CarryRead, AddPayload, enginesVars
<1> QED
  BY <1>1, <1>2, PTL DEF EnginesSpec

LEMMA MaxIsGreatest ==
    ASSUME NEW n \in Nat, NEW T \in SUBSET (1..n), T # {}
    PROVE  Max(T) \in T
<1> DEFINE gaps == {n - i : i \in T}
<1>1. PICK g \in gaps : \A h \in gaps : g <= h
  <2>1. gaps \in SUBSET Nat
    OBVIOUS
  <2>2. gaps # {}
    OBVIOUS
  <2> HIDE DEF gaps
  <2> QED
    BY <2>1, <2>2, LeastElement
<1>2. PICK m \in T : g = n - m
  OBVIOUS
<1>3. \A i \in T : m >= i
  <2> TAKE i \in T
  <2>1. n - m <= n - i
    BY <1>1, <1>2
  <2> QED
    BY <2>1
<1> QED
  BY <1>3 DEF Max

(* What the adapter keeps under an identifier is one of the policies.      *)
LEMMA KeptIsWritten ==
    ASSUME NEW S, NEW src \in Seq(S), NEW p \in Range(splitById(src))
    PROVE  \E i \in DOMAIN src : src[i] = p
<1>1. PICK id \in DOMAIN splitById(src) : splitById(src)[id] = p
  BY DEF Range
<1> DEFINE T == {i \in DOMAIN src : PolicyId(src, i) = id}
<1>2. Len(src) \in Nat /\ DOMAIN src = 1..Len(src)
  OBVIOUS
<1>3. T \in SUBSET (1..Len(src)) /\ T # {}
  BY <1>1, <1>2 DEF splitById
<1>4. Max(T) \in T
  <2> HIDE DEF T
  <2> QED
    BY <1>2, <1>3, MaxIsGreatest
<1>5. p = src[Max(T)]
  BY <1>1 DEF splitById
<1> QED
  BY <1>4, <1>5

(* A forbid that matches denies, whatever else the bundle holds.           *)
LEMMA ForbidDenies ==
    ASSUME NEW byId, NEW effectById, NEW r, ~ Fails(r), Matching(byId, "forbid", r) # {}
    PROVE  {d.effect : d \in evaluate(byId, effectById, r)} = {"deny"}
<1>1. evaluate(byId, effectById, r) = {EngineDecision("deny", id) : id \in Matching(byId, "forbid", r)}
  BY DEF evaluate
<1>2. \A id : EngineDecision("deny", id).effect = "deny"
  BY DEF EngineDecision
<1> QED
  BY <1>1, <1>2

LEMMA FailThrows ==
    ASSUME NEW byId, NEW effectById, NEW r, Fails(r)
    PROVE  {d.effect : d \in evaluate(byId, effectById, r)} = {"throws"}
<1>1. evaluate(byId, effectById, r) = {Throws}
  BY DEF evaluate
<1>2. Throws.effect = "throws"
  BY DEF Throws, EngineDecision
<1> QED
  BY <1>1, <1>2

(* A bundle refused as contradictory deserves it: one of its permits can   *)
(* never allow, whatever is asked (cedar.ts:63-69).                        *)
THEOREM RefusalCorrect == EnginesSpec => []RefusedPermitIsDead
<1>1. BundleInv => RefusedPermitIsDead
  <2> SUFFICES ASSUME BundleInv, Parses(source), ~ Loads(source)
               PROVE  \E i \in Permits(source) :
                          \A r \in Request :
                              Covers(source[i].scope, r) =>
                                  EffectsOf(r) \cap {"allow", "escalate"} = {}
    BY DEF RefusedPermitIsDead
  <2> DEFINE byId == splitById(source)
  <2>1. PICK p \in Range(byId), f \in Range(byId) :
            p.effect = "permit" /\ f.effect = "forbid" /\ p.scope = f.scope
    BY DEF Loads, Contradictory, scopeKey
  <2>2. PICK i \in DOMAIN source : source[i] = p
    BY KeptIsWritten DEF BundleInv
  <2>3. PICK id \in DOMAIN byId : byId[id] = f
    BY DEF Range
  <2>4. ASSUME NEW r \in Request, Covers(source[i].scope, r)
        PROVE  EffectsOf(r) \cap {"allow", "escalate"} = {}
    <3>1. id \in Matching(byId, "forbid", r)
      BY <2>1, <2>2, <2>3, <2>4 DEF Matching
    <3>2. ~ Fails(r) => EffectsOf(r) = {"deny"}
      BY <3>1, ForbidDenies DEF EffectsOf, Decisions
    <3>3. Fails(r) => EffectsOf(r) = {"throws"}
      BY FailThrows DEF EffectsOf, Decisions
    <3> QED
      BY <3>2, <3>3
  <2>5. i \in Permits(source)
    BY <2>1, <2>2 DEF Permits
  <2> QED
    BY <2>4, <2>5
<1> QED
  BY <1>1, BundleInvariant, PTL

(***************************************************************************)
(* A policy written under an identifier not used before is added to what   *)
(* the adapter kept.                                                       *)
(***************************************************************************)
Added(src, policy, new) ==
    /\ DOMAIN splitById(new) = DOMAIN splitById(src) \cup {PolicyId(new, Len(new))}
    /\ splitById(new)[PolicyId(new, Len(new))] = policy
    /\ \A id \in DOMAIN splitById(src) : splitById(new)[id] = splitById(src)[id]

LEMMA FreshIsAdded ==
    ASSUME NEW src \in Seq(Texts), NEW policy \in Texts, NEW new, new = Append(src, policy),
           PolicyId(new, Len(new)) \notin DOMAIN splitById(src)
    PROVE  Added(src, policy, new)
<1> DEFINE n == Len(src)
           fresh == PolicyId(new, n + 1)
           At(id) == {i \in DOMAIN src : PolicyId(src, i) = id}
           NewAt(id) == {i \in DOMAIN new : PolicyId(new, i) = id}
<1>1. /\ n \in Nat /\ Len(new) = n + 1 /\ DOMAIN src = 1..n /\ DOMAIN new = 1..(n + 1)
      /\ new[n + 1] = policy
      /\ \A i \in 1..n : new[i] = src[i]
  OBVIOUS
<1>2. ASSUME NEW i \in 1..n
      PROVE  PolicyId(new, i) = PolicyId(src, i)
  <2>1. {j \in 1..(i - 1) : new[j].id = None} = {j \in 1..(i - 1) : src[j].id = None}
    BY <1>1
  <2> QED
    BY <1>1, <2>1 DEF PolicyId, anon
<1>3. DOMAIN splitById(src) = {PolicyId(src, i) : i \in 1..n}
  BY <1>1 DEF splitById
<1>4. DOMAIN splitById(new) = {PolicyId(new, i) : i \in 1..(n + 1)}
  BY <1>1 DEF splitById
<1>5. DOMAIN splitById(new) = DOMAIN splitById(src) \cup {fresh}
  BY <1>1, <1>2, <1>3, <1>4
<1>6. fresh \notin DOMAIN splitById(src)
  BY <1>1
<1>7. NewAt(fresh) = {n + 1}
  BY <1>1, <1>2, <1>3, <1>6
<1>8. \A id \in DOMAIN splitById(src) : NewAt(id) = At(id)
  BY <1>1, <1>2, <1>6
<1>9. splitById(new)[fresh] = policy
  <2>1. Max({n + 1}) = n + 1
    BY <1>1 DEF Max
  <2>2. splitById(new)[fresh] = new[Max(NewAt(fresh))]
    BY <1>5 DEF splitById
  <2> QED
    BY <1>1, <1>7, <2>1, <2>2
<1>10. ASSUME NEW id \in DOMAIN splitById(src)
       PROVE  splitById(new)[id] = splitById(src)[id]
  <2>1. /\ splitById(new)[id] = new[Max(NewAt(id))]
        /\ splitById(src)[id] = src[Max(At(id))]
    BY <1>5 DEF splitById
  <2>2. At(id) \in SUBSET (1..n) /\ At(id) # {}
    BY <1>1, <1>3
  <2>3. Max(At(id)) \in 1..n
    <3> HIDE DEF At
    <3> QED
      BY <1>1, <2>2, MaxIsGreatest
  <2> QED
    BY <1>1, <1>8, <2>1, <2>3
<1> QED
  BY <1>1, <1>5, <1>9, <1>10 DEF Added

(* A forbid added under an id not used before never lifts a deny, whatever *)
(* the manifest says of the id (cedar.ts:164-174).                         *)
THEOREM ForbidsCorrect == EnginesSpec => ForbidsNeverRelax
<1> DEFINE Keeps ==
        source' # source /\ Forbids(source') # Forbids(source)
          /\ Loads(source) /\ Loads(source')
          /\ PolicyId(source', Len(source')) \notin DOMAIN splitById(source)
          /\ effects = {"deny"}
        => effects' = {"deny"}
<1>1. ASSUME BundleInv, [EnginesNext]_enginesVars
      PROVE  [Keeps]_enginesVars
  <2> SUFFICES ASSUME AddPolicy, Forbids(source') # Forbids(source),
                      PolicyId(source', Len(source')) \notin DOMAIN splitById(source),
                      effects = {"deny"}
               PROVE  effects' = {"deny"}
    BY <1>1 DEF EnginesNext, CarryRead, AddPayload, enginesVars
  <2>1. PICK policy \in Texts : source' = Append(source, policy) /\ request' = request
    BY DEF AddPolicy, Texts
  <2>2. PICK new : new = source'
    OBVIOUS
  <2> DEFINE byId == splitById(source)
             byId2 == splitById(new)
             fresh == PolicyId(new, Len(new))
  <2>3. /\ DOMAIN byId2 = DOMAIN byId \cup {fresh}
        /\ byId2[fresh] = policy
        /\ \A id \in DOMAIN byId : byId2[id] = byId[id]
    <3>1. source \in Seq(Texts) /\ new = Append(source, policy)
      BY <1>1, <2>1, <2>2 DEF BundleInv
    <3>2. PolicyId(new, Len(new)) \notin DOMAIN splitById(source)
      BY <2>2
    <3> QED
      <4> HIDE DEF byId, byId2, fresh
      <4>1. Added(source, policy, new)
        BY <3>1, <3>2, FreshIsAdded
      <4> QED
        BY <4>1 DEF Added, byId, byId2, fresh
  <2>4. policy.effect = "forbid"
    <3>1. /\ Len(source) \in Nat /\ DOMAIN source = 1..Len(source)
          /\ DOMAIN source' = 1..(Len(source) + 1)
          /\ source'[Len(source) + 1] = policy
          /\ \A i \in 1..Len(source) : source'[i] = source[i]
      BY <1>1, <2>1 DEF BundleInv
    <3> QED
      BY <3>1 DEF Forbids
  <2> HIDE DEF byId, byId2, fresh
  <2>5. /\ Matching(byId, "forbid", request) \subseteq Matching(byId2, "forbid", request)
        /\ Matching(byId2, "permit", request) = Matching(byId, "permit", request)
    BY <2>3, <2>4 DEF Matching
  <2> DEFINE rules == IF IsDemo THEN DemoEffects ELSE CustomEffects
             rules2 == IF new = DemoCedar THEN DemoEffects ELSE CustomEffects
  <2>6. effects = {d.effect : d \in evaluate(byId, rules, request)}
    BY DEF effects, EffectsOf, Decisions, byId
  <2>7. effects' = {d.effect : d \in evaluate(byId2, rules2, request)}
    BY <2>1, <2>2 DEF effects, EffectsOf, Decisions, IsDemo, byId2
  <2> HIDE DEF rules, rules2
  <2>8. ~ Fails(request)
    BY <2>6, FailThrows
  <2>9. CASE Matching(byId2, "forbid", request) # {}
    BY <2>7, <2>8, <2>9, ForbidDenies
  <2>10. CASE Matching(byId2, "forbid", request) = {}
    <3>1. Matching(byId, "forbid", request) = {}
      BY <2>5, <2>10
    <3>2. Matching(byId, "permit", request) = {}
      <4> SUFFICES ASSUME NEW id \in Matching(byId, "permit", request)
                   PROVE  FALSE
        OBVIOUS
      <4> DEFINE Escalates(i) == i \in DOMAIN rules /\ rules[i] = "escalate"
      <4>1. EngineDecision(IF Escalates(id) THEN "escalate" ELSE "allow", id)
                \in evaluate(byId, rules, request)
        BY <2>8, <3>1 DEF evaluate
      <4>2. "escalate" \in effects \/ "allow" \in effects
        BY <2>6, <4>1 DEF EngineDecision
      <4> QED
        BY <4>2
    <3>3. evaluate(byId2, rules2, request) = {EngineDecision("deny", None)}
      BY <2>5, <2>8, <2>10, <3>2 DEF evaluate
    <3> QED
      BY <2>7, <3>3 DEF EngineDecision
  <2> QED
    BY <2>9, <2>10
<1> QED
  BY <1>1, BundleInvariant, PTL DEF EnginesSpec, ForbidsNeverRelax

-----------------------------------------------------------------------------
(***************************************************************************)
(* Identifiers.  A generated one counts the anonymous policies before it,  *)
(* so no two of a bundle are alike.                                        *)
(***************************************************************************)
WrittenInv ==
    \/ IsDemo
    \/ source \in Seq(Writable \cup {Unreadable}) /\ Len(source) <= MaxPolicies

LEMMA WrittenInvariant == EnginesSpec => []WrittenInv
<1>1. EnginesInit => WrittenInv
  <2>1. << >> \in Seq(Writable \cup {Unreadable}) /\ Len(<< >>) <= MaxPolicies
    BY EnginesAssumption
  <2> QED
    BY <2>1 DEF EnginesInit, WrittenInv, IsDemo
<1>2. WrittenInv /\ [EnginesNext]_enginesVars => WrittenInv'
  <2> SUFFICES ASSUME WrittenInv, [EnginesNext]_enginesVars, ~ IsDemo'
               PROVE  WrittenInv'
    BY DEF WrittenInv
  <2>1. CASE AddPolicy
    <3>1. PICK p \in Writable \cup {Unreadable} : source' = Append(source, p)
      BY <2>1 DEF AddPolicy
    <3>2. source \in Seq(Writable \cup {Unreadable}) /\ Len(source) < MaxPolicies
      BY <2>1 DEF AddPolicy, WrittenInv
    <3> QED
      BY <3>1, <3>2, EnginesAssumption DEF WrittenInv
  <2>2. CASE source' = source
    BY <2>2 DEF WrittenInv, IsDemo
  <2> QED
    BY <2>1, <2>2 DEF EnginesNext, CarryRead, AddPayload, enginesVars
<1> QED
  BY <1>1, <1>2, PTL DEF EnginesSpec

LEMMA AnonymousAreCounted ==
    ASSUME NEW src, NEW i \in Nat, 1 <= i
    PROVE  anon(src, i) \in 0..i
<1> DEFINE Before == {m \in 1..(i - 1) : src[m].id = None}
<1>1. IsFiniteSet(1..(i - 1)) /\ Cardinality(1..(i - 1)) = i - 1
  BY FS_Interval
<1>2. IsFiniteSet(Before) /\ Cardinality(Before) <= i - 1
  BY <1>1, FS_Subset
<1>3. Cardinality(Before) \in Nat
  BY <1>2, FS_CardinalityType
<1> QED
  BY <1>2, <1>3 DEF anon

LEMMA LaterCountMore ==
    ASSUME NEW src, NEW i \in Nat, NEW j \in Nat, 1 <= i, i < j, src[i].id = None
    PROVE  anon(src, i) < anon(src, j)
<1> DEFINE Before(k) == {m \in 1..(k - 1) : src[m].id = None}
<1>1. IsFiniteSet(1..(j - 1)) /\ IsFiniteSet(1..(i - 1))
  BY FS_Interval
<1>2. IsFiniteSet(Before(j)) /\ IsFiniteSet(Before(i))
  BY <1>1, FS_Subset
<1>3. Before(i) \subseteq Before(j) /\ i \in Before(j) \ Before(i)
  OBVIOUS
<1> HIDE DEF Before
<1>4. Cardinality(Before(i)) \in Nat /\ Cardinality(Before(j)) \in Nat
  BY <1>2, FS_CardinalityType
<1>5. /\ Cardinality(Before(i)) <= Cardinality(Before(j))
      /\ Cardinality(Before(i)) # Cardinality(Before(j))
  BY <1>2, <1>3, FS_Subset
<1>6. \A k : anon(src, k) = Cardinality(Before(k))
  BY DEF anon, Before
<1> QED
  BY <1>4, <1>5, <1>6

WrittenIdsDiffer ==
    LET named == {i \in DOMAIN source : source[i].id # None}
    IN  /\ \A i, j \in named : source[i].id = source[j].id => i = j
        /\ \A i \in named : source[i].id # LikeGenerated

LEMMA WrittenApart ==
    ASSUME BundleInv, WrittenInv, WrittenIdsDiffer,
           NEW i \in DOMAIN source, NEW j \in DOMAIN source,
           PolicyId(source, i) = PolicyId(source, j)
    PROVE  i = j
<1> SUFFICES ASSUME NEW m \in DOMAIN source, NEW n \in DOMAIN source, m < n
             PROVE  PolicyId(source, m) # PolicyId(source, n)
  BY DEF BundleInv
<1>1. DOMAIN source = 1..Len(source) /\ Len(source) \in Nat
  BY DEF BundleInv
<1>2. CASE source[m].id # None /\ source[n].id # None
  BY <1>1, <1>2 DEF WrittenIdsDiffer, PolicyId
<1>3. CASE source[m].id = None \/ source[n].id = None
  <2>1. ~ IsDemo
    BY <1>3, EnginesAssumption DEF IsDemo, DemoRules
  <2>2. /\ \A k \in DOMAIN source : source[k] \in Writable \cup {Unreadable}
        /\ Len(source) <= MaxPolicies
    BY <2>1 DEF WrittenInv
  <2>3. \A k \in DOMAIN source : source[k].id \in {"a", "b", LikeGenerated, None}
    BY <2>2 DEF Writable, Unreadable
  <2>4. \A k \in DOMAIN source : source[k].id # None => source[k].id \in {"a", "b"}
    BY <2>3 DEF WrittenIdsDiffer
  <2>5. \A k \in 1..Len(source) : anon(source, k) \in 0..MaxPolicies
    <3> TAKE k \in 1..Len(source)
    <3>1. k \in Nat /\ 1 <= k /\ k <= Len(source)
      BY <1>1
    <3>2. anon(source, k) \in 0..k
      BY <3>1, AnonymousAreCounted
    <3> QED
      BY <1>1, <2>2, <3>2, EnginesAssumption
  <2>6. CASE source[m].id = None /\ source[n].id = None
    <3>1. anon(source, m) < anon(source, n)
      BY <1>1, <2>6, LaterCountMore
    <3> QED
      BY <1>1, <2>5, <2>6, <3>1, EnginesAssumption DEF PolicyId
  <2>7. CASE ~ (source[m].id = None /\ source[n].id = None)
    BY <1>1, <1>3, <2>4, <2>5, <2>7, EnginesAssumption DEF PolicyId
  <2> QED
    BY <2>6, <2>7
<1> QED
  BY <1>2, <1>3

(* In a bundle that loads, whose written ids are distinct and do not read  *)
(* like generated ones, a forbid that applies always surfaces as deny, in  *)
(* bundles of any length, unless the call fails (cedar.ts:3-4, 38-43,      *)
(* 155-158, 164).                                                          *)
THEOREM DistinctCorrect == EnginesSpec => []DistinctForbidsDeny
<1>1. BundleInv /\ WrittenInv => DistinctForbidsDeny
  <2> SUFFICES ASSUME BundleInv, WrittenInv, WrittenIdsDiffer,
                      NEW i \in Forbids(source), Covers(source[i].scope, request)
               PROVE  effects = {IF Fails(request) THEN "throws" ELSE "deny"}
    BY DEF DistinctForbidsDeny, WrittenIdsDiffer
  <2> DEFINE id == PolicyId(source, i)
             T == {k \in DOMAIN source : PolicyId(source, k) = id}
  <2>1. i \in DOMAIN source /\ source[i].effect = "forbid"
    BY DEF Forbids
  <2>2. Len(source) \in Nat /\ T \in SUBSET (1..Len(source)) /\ T = {i}
    BY <2>1, WrittenApart DEF BundleInv
  <2>3. Max(T) = i
    <3> HIDE DEF T
    <3> QED
      BY <2>2, MaxIsGreatest
  <2>4. id \in DOMAIN splitById(source) /\ splitById(source)[id] = source[i]
    BY <2>1, <2>3 DEF splitById
  <2>5. id \in Matching(splitById(source), "forbid", request)
    BY <2>1, <2>4 DEF Matching
  <2> QED
    BY <2>5, ForbidDenies, FailThrows DEF effects, EffectsOf, Decisions
<1> QED
  BY <1>1, BundleInvariant, WrittenInvariant, PTL

-----------------------------------------------------------------------------
(***************************************************************************)
(* The demo policy under the Cedar adapter, for any principals: what it    *)
(* keeps, which policies match, and the one effect that follows.           *)
(***************************************************************************)
RequestInv == request \in Request

LEMMA RequestInvariant == EnginesSpec => []RequestInv
<1>1. EnginesInit => RequestInv
  BY DEF EnginesInit, RequestInv, Probes
<1>2. RequestInv /\ [EnginesNext]_enginesVars => RequestInv'
  BY DEF RequestInv, EnginesNext, AddPolicy, CarryRead, AddPayload, enginesVars, Request, Payloads
<1> QED
  BY <1>1, <1>2, PTL DEF EnginesSpec

LEMMA DemoNames ==
    /\ DemoCedar[1].id = "sandbox-read-allow" /\ DemoCedar[2].id = "crm-read-allow"
    /\ DemoCedar[3].id = "artefact-read-allow" /\ DemoCedar[4].id = "write-escalate"
    /\ DemoCedar[5].id = "artefact-write-allow" /\ DemoCedar[6].id = "send-escalate"
    /\ DemoCedar[7].id = "composite-deny" /\ DemoCedar[8].id = "egress-allowlist"
    /\ DemoCedar[9].id = "egress-capability-deny"
BY DEF DemoCedar, Permit, Forbid

LEMMA DemoIdsDiffer ==
    /\ DOMAIN DemoCedar = 1..9
    /\ \A i, j \in 1..9 : DemoCedar[i].id = DemoCedar[j].id => i = j
    /\ \A i \in 1..9 : DemoCedar[i].id # None
<1>1. DOMAIN DemoCedar = 1..9
  BY DEF DemoCedar
<1>2. \A i \in 1..9 : i \in {1, 2, 3, 4, 5, 6, 7, 8, 9}
  OBVIOUS
<1> QED
  BY <1>1, <1>2, DemoNames, EnginesAssumption DEF DemoRules

LEMMA DemoKept ==
    /\ DOMAIN splitById(DemoCedar) = DemoRules
    /\ \A i \in 1..9 : splitById(DemoCedar)[DemoCedar[i].id] = DemoCedar[i]
<1>1. \A i \in 1..9 : PolicyId(DemoCedar, i) = DemoCedar[i].id
  BY DemoIdsDiffer DEF PolicyId
<1>2. DOMAIN splitById(DemoCedar) = DemoRules
  BY <1>1, DemoIdsDiffer DEF splitById, DemoRules
<1>3. ASSUME NEW i \in 1..9
      PROVE  splitById(DemoCedar)[DemoCedar[i].id] = DemoCedar[i]
  <2> DEFINE T == {k \in DOMAIN DemoCedar : PolicyId(DemoCedar, k) = DemoCedar[i].id}
  <2>1. T = {i} /\ T \in SUBSET (1..9)
    BY <1>1, DemoIdsDiffer
  <2>2. Max(T) = i
    <3> HIDE DEF T
    <3> QED
      BY <2>1, MaxIsGreatest
  <2>3. DemoCedar[i].id \in {PolicyId(DemoCedar, k) : k \in DOMAIN DemoCedar}
    BY <1>1, DemoIdsDiffer
  <2> QED
    BY <2>2, <2>3 DEF splitById
<1> QED
  BY <1>2, <1>3

(* A demo policy matches a request under its own identifier. *)
Applies(i, effect, r) ==
    DemoCedar[i].effect = effect /\ DemoCovers(DemoCedar[i].scope, r)

LEMMA DemoMatching ==
    ASSUME NEW r \in Request, NEW effect
    PROVE  Matching(splitById(DemoCedar), effect, r)
               = {DemoCedar[i].id : i \in {i \in 1..9 : Applies(i, effect, r)}}
<1>1. DemoRules = {DemoCedar[i].id : i \in 1..9}
  BY DemoIdsDiffer DEF DemoRules
<1>2. \A i \in 1..9 : Covers(DemoCedar[i].scope, r) <=> DemoCovers(DemoCedar[i].scope, r)
  BY DemoIdsDiffer, EnginesAssumption
<1> DEFINE byId == splitById(DemoCedar)
<1>3. \A i \in 1..9 : DemoCedar[i].id \in Matching(byId, effect, r) <=> Applies(i, effect, r)
  BY <1>1, <1>2, DemoKept DEF Matching, Applies
<1>4. Matching(byId, effect, r) \subseteq DemoRules
  BY DemoKept DEF Matching
<1> QED
  BY <1>1, <1>3, <1>4

LEMMA HoldsTells ==
    ASSUME NEW r
    PROVE  /\ Holds("always", r)
           /\ Holds("sandbox", r) <=> r.inSandbox
           /\ Holds("crm", r) <=> r.kind = "crm"
           /\ Holds("artefact", r) <=> r.kind = "artefact"
           /\ Holds("not artefact", r) <=> r.kind # "artefact"
           /\ Holds("priorRead", r) <=> r.priorRead
           /\ Holds("allowedDomain", r) <=> r.allowedDomain
           /\ Holds("payload", r) <=> payloadPresent(r.payload)
BY DEF Holds

LEMMA DemoApplies ==
    ASSUME NEW r \in Request
    PROVE  /\ \A i \in {1, 2, 3, 4, 5, 6, 8} : ~ Applies(i, "forbid", r)
           /\ \A i \in {7, 9} : ~ Applies(i, "permit", r)
           /\ Applies(1, "permit", r) <=> r.declaredAction = "read" /\ r.inSandbox
           /\ Applies(2, "permit", r) <=> r.declaredAction = "read" /\ r.kind = "crm"
           /\ Applies(3, "permit", r) <=> r.declaredAction = "read" /\ r.kind = "artefact"
           /\ Applies(4, "permit", r) <=> r.declaredAction \in Mutations /\ r.kind # "artefact"
           /\ Applies(5, "permit", r) <=> r.declaredAction \in Mutations /\ r.kind = "artefact"
           /\ Applies(6, "permit", r) <=> r.declaredAction = "send"
           /\ Applies(7, "forbid", r) <=> r.declaredAction = "send" /\ r.priorRead
           /\ Applies(8, "permit", r) <=> r.declaredAction = "egress" /\ r.allowedDomain
           /\ Applies(9, "forbid", r) <=> r.declaredAction = "egress" /\ payloadPresent(r.payload)
<1>1. /\ DemoCovers(DemoCedar[1].scope, r) <=> r.declaredAction = "read" /\ Holds("sandbox", r)
      /\ DemoCovers(DemoCedar[2].scope, r) <=> r.declaredAction = "read" /\ Holds("crm", r)
      /\ DemoCovers(DemoCedar[3].scope, r) <=> r.declaredAction = "read" /\ Holds("artefact", r)
      /\ DemoCovers(DemoCedar[4].scope, r) <=> r.declaredAction \in Mutations /\ Holds("not artefact", r)
      /\ DemoCovers(DemoCedar[5].scope, r) <=> r.declaredAction \in Mutations /\ Holds("artefact", r)
      /\ DemoCovers(DemoCedar[6].scope, r) <=> r.declaredAction = "send" /\ Holds("always", r)
      /\ DemoCovers(DemoCedar[7].scope, r) <=> r.declaredAction = "send" /\ Holds("priorRead", r)
      /\ DemoCovers(DemoCedar[8].scope, r) <=> r.declaredAction = "egress" /\ Holds("allowedDomain", r)
      /\ DemoCovers(DemoCedar[9].scope, r) <=> r.declaredAction = "egress" /\ Holds("payload", r)
  <2>1. \A actions, when : /\ Scope(actions, when).actions = actions
                           /\ Scope(actions, when).when = when
    BY DEF Scope
  <2>2. \A actions, when : DemoCovers(Scope(actions, when), r)
                              <=> r.declaredAction \in actions /\ Holds(when, r)
    BY <2>1 DEF DemoCovers
  <2>3. \A a, b : a \in {b} <=> a = b
    OBVIOUS
  <2>4. DemoCovers(DemoCedar[1].scope, r) <=> r.declaredAction \in {"read"} /\ Holds("sandbox", r)
    BY <2>2 DEF DemoCedar, Permit, Forbid
  <2>5. DemoCovers(DemoCedar[2].scope, r) <=> r.declaredAction \in {"read"} /\ Holds("crm", r)
    BY <2>2 DEF DemoCedar, Permit, Forbid
  <2>6. DemoCovers(DemoCedar[3].scope, r) <=> r.declaredAction \in {"read"} /\ Holds("artefact", r)
    BY <2>2 DEF DemoCedar, Permit, Forbid
  <2>7. DemoCovers(DemoCedar[4].scope, r) <=> r.declaredAction \in Mutations /\ Holds("not artefact", r)
    BY <2>2 DEF DemoCedar, Permit, Forbid
  <2>8. DemoCovers(DemoCedar[5].scope, r) <=> r.declaredAction \in Mutations /\ Holds("artefact", r)
    BY <2>2 DEF DemoCedar, Permit, Forbid
  <2>9. DemoCovers(DemoCedar[6].scope, r) <=> r.declaredAction \in {"send"} /\ Holds("always", r)
    BY <2>2 DEF DemoCedar, Permit, Forbid
  <2>10. DemoCovers(DemoCedar[7].scope, r) <=> r.declaredAction \in {"send"} /\ Holds("priorRead", r)
    BY <2>2 DEF DemoCedar, Permit, Forbid
  <2>11. DemoCovers(DemoCedar[8].scope, r) <=> r.declaredAction \in {"egress"} /\ Holds("allowedDomain", r)
    BY <2>2 DEF DemoCedar, Permit, Forbid
  <2>12. DemoCovers(DemoCedar[9].scope, r) <=> r.declaredAction \in {"egress"} /\ Holds("payload", r)
    BY <2>2 DEF DemoCedar, Permit, Forbid
  <2> QED
    BY <2>3, <2>4, <2>5, <2>6, <2>7, <2>8, <2>9, <2>10, <2>11, <2>12
<1>2. /\ DemoCedar[1].effect = "permit" /\ DemoCedar[2].effect = "permit" /\ DemoCedar[3].effect = "permit"
      /\ DemoCedar[4].effect = "permit" /\ DemoCedar[5].effect = "permit" /\ DemoCedar[6].effect = "permit"
      /\ DemoCedar[7].effect = "forbid" /\ DemoCedar[8].effect = "permit" /\ DemoCedar[9].effect = "forbid"
  BY DEF DemoCedar, Permit, Forbid
<1>3. /\ \A i \in {1, 2, 3, 4, 5, 6, 8} :
              Applies(i, "permit", r) <=> DemoCovers(DemoCedar[i].scope, r)
      /\ \A i \in {7, 9} : Applies(i, "forbid", r) <=> DemoCovers(DemoCedar[i].scope, r)
      /\ \A i \in {1, 2, 3, 4, 5, 6, 8} : ~ Applies(i, "forbid", r)
      /\ \A i \in {7, 9} : ~ Applies(i, "permit", r)
  BY <1>2 DEF Applies
<1>4. /\ Applies(1, "permit", r) <=> r.declaredAction = "read" /\ r.inSandbox
      /\ Applies(2, "permit", r) <=> r.declaredAction = "read" /\ r.kind = "crm"
      /\ Applies(3, "permit", r) <=> r.declaredAction = "read" /\ r.kind = "artefact"
  BY <1>1, <1>3, HoldsTells
<1>5. /\ Applies(4, "permit", r) <=> r.declaredAction \in Mutations /\ r.kind # "artefact"
      /\ Applies(5, "permit", r) <=> r.declaredAction \in Mutations /\ r.kind = "artefact"
      /\ Applies(6, "permit", r) <=> r.declaredAction = "send"
  BY <1>1, <1>3, HoldsTells
<1>6. /\ Applies(7, "forbid", r) <=> r.declaredAction = "send" /\ r.priorRead
      /\ Applies(8, "permit", r) <=> r.declaredAction = "egress" /\ r.allowedDomain
      /\ Applies(9, "forbid", r) <=> r.declaredAction = "egress" /\ payloadPresent(r.payload)
  BY <1>1, <1>3, HoldsTells
<1> QED
  BY <1>3, <1>4, <1>5, <1>6

(* The one effect that the demo policy means a request to have, its        *)
(* payload read as the Cedar adapter reads it.                             *)
Intent(r) ==
    CASE r.declaredAction = "read" ->
             IF r.inSandbox \/ r.kind \in {"crm", "artefact"} THEN "allow" ELSE "deny"
      [] r.declaredAction \in Mutations -> IF r.kind = "artefact" THEN "allow" ELSE "escalate"
      [] r.declaredAction = "send" -> IF r.priorRead THEN "deny" ELSE "escalate"
      [] r.declaredAction = "egress" ->
             IF r.allowedDomain /\ ~ payloadPresent(r.payload) THEN "allow" ELSE "deny"
      [] r.declaredAction = "execute" -> "deny"

(* What Cedar makes of it. *)
CedarIntent(r) == IF NoCedarValue(r) THEN "throws" ELSE Intent(r)

CedarAnswers(r) == evaluate(splitById(DemoCedar), DemoEffects, r)

LEMMA CedarGivesIntent ==
    ASSUME NEW r \in Request
    PROVE  {d.effect : d \in CedarAnswers(r)} = {CedarIntent(r)}
<1> DEFINE forbids == Matching(splitById(DemoCedar), "forbid", r)
           permits == Matching(splitById(DemoCedar), "permit", r)
           Tagged(id) == id \in DOMAIN DemoEffects /\ DemoEffects[id] = "escalate"
<1>1. \A i \in 1..9 : i \in {1, 2, 3, 4, 5, 6, 7, 8, 9}
  OBVIOUS
<1>2. /\ forbids = {DemoCedar[i].id : i \in {i \in 1..9 : Applies(i, "forbid", r)}}
      /\ permits = {DemoCedar[i].id : i \in {i \in 1..9 : Applies(i, "permit", r)}}
  BY DemoMatching
<1>3. \A i \in 1..9 : Tagged(DemoCedar[i].id) <=> i \in {4, 6}
  <2>1. \A i \in 1..9 : DemoCedar[i].id \in DemoRules
    BY DemoIdsDiffer DEF DemoRules
  <2>2. \A id \in DemoRules : Tagged(id) <=> id \in {"write-escalate", "send-escalate"}
    BY DEF DemoEffects
  <2> QED
    BY <1>1, <2>1, <2>2, DemoNames
<1>4. CedarIntent(r) = IF Fails(r) THEN "throws" ELSE Intent(r)
  BY EnginesAssumption DEF CedarIntent
<1> HIDE DEF forbids, permits, Tagged
<1>5. CASE ~ Fails(r) /\ \E i \in 1..9 : Applies(i, "forbid", r)
  <2>1. forbids # {}
    BY <1>2, <1>5
  <2>2. Intent(r) = "deny"
    BY <1>1, <1>5, DemoApplies DEF Intent, Mutations
  <2> QED
    BY <1>5, <1>4, <2>1, <2>2, ForbidDenies DEF CedarAnswers, forbids
<1>6. CASE ~ Fails(r) /\ ~ \E i \in 1..9 : Applies(i, "forbid", r) \/ Applies(i, "permit", r)
  <2>1. forbids = {} /\ permits = {}
    BY <1>2, <1>6
  <2>2. CedarAnswers(r) = {EngineDecision("deny", None)}
    BY <1>6, <2>1 DEF CedarAnswers, evaluate, forbids, permits
  <2>3. Intent(r) = "deny"
    BY <1>6, DemoApplies DEF Intent, Mutations, Actions, Request
  <2> QED
    BY <1>6, <1>4, <2>2, <2>3 DEF EngineDecision
<1>7. CASE /\ ~ Fails(r)
           /\ ~ \E i \in 1..9 : Applies(i, "forbid", r)
           /\ \E i \in 1..9 : Applies(i, "permit", r)
  <2>1. forbids = {} /\ permits # {}
    BY <1>2, <1>7
  <2>2. CedarAnswers(r) = {EngineDecision(IF Tagged(id) THEN "escalate" ELSE "allow", id) :
                              id \in permits}
    BY <1>7, <2>1 DEF CedarAnswers, evaluate, forbids, permits, Tagged
  <2>3. {d.effect : d \in CedarAnswers(r)}
            = {IF Tagged(id) THEN "escalate" ELSE "allow" : id \in permits}
    <3>1. \A effect, rule : EngineDecision(effect, rule).effect = effect
      BY DEF EngineDecision
    <3> QED
      BY <2>2, <3>1
  <2>4. \A i \in 1..9 : Applies(i, "permit", r) =>
            Intent(r) = IF i \in {4, 6} THEN "escalate" ELSE "allow"
    BY <1>1, <1>7, DemoApplies DEF Intent, Mutations
  <2> QED
    BY <1>2, <1>3, <1>7, <1>4, <2>3, <2>4
<1>8. CASE Fails(r)
  BY <1>4, <1>8, FailThrows DEF CedarAnswers
<1> QED
  BY <1>5, <1>6, <1>7, <1>8

LEMMA CedarNamesRules ==
    ASSUME NEW r \in Request, NEW d \in CedarAnswers(r)
    PROVE  d.matchedRuleId \in DemoRules \cup {None}
<1>1. \A effect : Matching(splitById(DemoCedar), effect, r) \subseteq DemoRules
  BY DemoKept DEF Matching
<1>2. \E effect : \E rule \in DemoRules \cup {None} : d = EngineDecision(effect, rule)
  BY <1>1 DEF CedarAnswers, evaluate, Throws
<1> QED
  BY <1>2 DEF EngineDecision

(* A read inside the sandbox may be decided by the rule about such reads,  *)
(* and nothing else is.                                                    *)
SandboxRead(r) == r.declaredAction = "read" /\ r.inSandbox

LEMMA CedarNamesSandboxReads ==
    ASSUME NEW r \in Request
    PROVE  (\E d \in CedarAnswers(r) : d.matchedRuleId = "sandbox-read-allow")
               <=> SandboxRead(r) /\ ~ NoCedarValue(r)
<1> DEFINE forbids == Matching(splitById(DemoCedar), "forbid", r)
           permits == Matching(splitById(DemoCedar), "permit", r)
<1>1. \A effect, rule : EngineDecision(effect, rule).matchedRuleId = rule
  BY DEF EngineDecision
<1>2. /\ \A i \in 1..9 : i \in {1, 2, 3, 4, 5, 6, 7, 8, 9}
      /\ 1 \in 1..9
  OBVIOUS
<1>3. None # "sandbox-read-allow"
  BY <1>2, DemoNames, DemoIdsDiffer
<1>4. \A effect : "sandbox-read-allow" \in Matching(splitById(DemoCedar), effect, r)
                     <=> Applies(1, effect, r)
  BY <1>2, DemoMatching, DemoIdsDiffer, DemoNames
<1>5. /\ "sandbox-read-allow" \notin forbids
      /\ "sandbox-read-allow" \in permits <=> SandboxRead(r)
  BY <1>4, DemoApplies DEF SandboxRead
<1>6. SandboxRead(r) => forbids = {}
  <2>1. SandboxRead(r) => ~ \E i \in 1..9 : Applies(i, "forbid", r)
    BY <1>2, DemoApplies DEF SandboxRead
  <2> QED
    BY <2>1, DemoMatching
<1>7. Fails(r) <=> NoCedarValue(r)
  BY EnginesAssumption
<1> HIDE DEF forbids, permits
<1>8. CASE Fails(r)
  <2>1. CedarAnswers(r) = {Throws}
    BY <1>8 DEF CedarAnswers, evaluate
  <2> QED
    BY <1>1, <1>3, <1>7, <1>8, <2>1 DEF Throws
<1>9. CASE ~ Fails(r) /\ forbids # {}
  <2>1. CedarAnswers(r) = {EngineDecision("deny", id) : id \in forbids}
    BY <1>9 DEF CedarAnswers, evaluate, forbids
  <2> QED
    BY <1>1, <1>5, <1>6, <1>9, <2>1
<1>10. CASE ~ Fails(r) /\ forbids = {} /\ permits = {}
  <2>1. CedarAnswers(r) = {EngineDecision("deny", None)}
    BY <1>10 DEF CedarAnswers, evaluate, forbids, permits
  <2> QED
    BY <1>1, <1>3, <1>5, <1>10, <2>1
<1>11. CASE ~ Fails(r) /\ forbids = {} /\ permits # {}
  <2> DEFINE Tagged(id) == id \in DOMAIN DemoEffects /\ DemoEffects[id] = "escalate"
  <2>1. CedarAnswers(r) = {EngineDecision(IF Tagged(id) THEN "escalate" ELSE "allow", id) :
                              id \in permits}
    BY <1>11 DEF CedarAnswers, evaluate, forbids, permits
  <2> HIDE DEF Tagged
  <2> QED
    BY <1>1, <1>5, <1>7, <1>11, <2>1
<1> QED
  BY <1>8, <1>9, <1>10, <1>11

-----------------------------------------------------------------------------
(***************************************************************************)
(* The demo policy under Rego.                                             *)
(***************************************************************************)
LEMMA RegoTells ==
    ASSUME NEW r \in Request, NEW d
    PROVE  d \in RegoDecisions(r) <=>
        \/ d = EngineDecision("allow", "sandbox-read-allow")
               /\ r.declaredAction = "read" /\ r.inSandbox
        \/ d = EngineDecision("allow", "crm-read-allow")
               /\ r.declaredAction = "read" /\ r.kind = "crm"
        \/ d = EngineDecision("allow", "artefact-read-allow")
               /\ r.declaredAction = "read" /\ r.kind = "artefact"
        \/ d = EngineDecision("escalate", "write-escalate")
               /\ r.declaredAction \in Mutations /\ r.kind # "artefact"
        \/ d = EngineDecision("allow", "artefact-write-allow")
               /\ r.declaredAction \in Mutations /\ r.kind = "artefact"
        \/ d = EngineDecision("deny", "composite-deny")
               /\ r.declaredAction = "send" /\ r.priorRead
        \/ d = EngineDecision("escalate", "send-escalate")
               /\ r.declaredAction = "send" /\ ~ r.priorRead
        \/ d = EngineDecision("deny", "egress-capability-deny")
               /\ r.declaredAction = "egress" /\ hasPayload(r)
        \/ d = EngineDecision("allow", "egress-allowlist")
               /\ r.declaredAction = "egress" /\ r.allowedDomain /\ ~ hasPayload(r)
<1> DEFINE Rule(rule, effect, actions, body) ==
        {EngineDecision(effect, rule) : holds \in {r.declaredAction \in actions /\ body} \ {FALSE}}
<1>1. \A rule, effect, actions : \A body \in BOOLEAN :
          d \in Rule(rule, effect, actions, body)
              <=> d = EngineDecision(effect, rule) /\ r.declaredAction \in actions /\ body
  OBVIOUS
<1>2. /\ r.inSandbox \in BOOLEAN /\ (r.kind = "crm") \in BOOLEAN
      /\ (r.kind = "artefact") \in BOOLEAN /\ (r.kind # "artefact") \in BOOLEAN
      /\ r.priorRead \in BOOLEAN /\ (~ r.priorRead) \in BOOLEAN
      /\ hasPayload(r) \in BOOLEAN /\ (r.allowedDomain /\ ~ hasPayload(r)) \in BOOLEAN
  BY DEF Request, hasPayload
<1> HIDE DEF Rule
<1>3. d \in RegoDecisions(r) <=>
        \/ d \in Rule("sandbox-read-allow", "allow", {"read"}, r.inSandbox)
        \/ d \in Rule("crm-read-allow", "allow", {"read"}, r.kind = "crm")
        \/ d \in Rule("artefact-read-allow", "allow", {"read"}, r.kind = "artefact")
        \/ d \in Rule("write-escalate", "escalate", Mutations, r.kind # "artefact")
        \/ d \in Rule("artefact-write-allow", "allow", Mutations, r.kind = "artefact")
        \/ d \in Rule("composite-deny", "deny", {"send"}, r.priorRead)
        \/ d \in Rule("send-escalate", "escalate", {"send"}, ~ r.priorRead)
        \/ d \in Rule("egress-capability-deny", "deny", {"egress"}, hasPayload(r))
        \/ d \in Rule("egress-allowlist", "allow", {"egress"}, r.allowedDomain /\ ~ hasPayload(r))
  BY DEF RegoDecisions, Rule
<1>4. d \in Rule("sandbox-read-allow", "allow", {"read"}, r.inSandbox)
          <=> d = EngineDecision("allow", "sandbox-read-allow")
                  /\ r.declaredAction \in {"read"} /\ r.inSandbox
  BY <1>1, <1>2
<1>5. d \in Rule("crm-read-allow", "allow", {"read"}, r.kind = "crm")
          <=> d = EngineDecision("allow", "crm-read-allow")
                  /\ r.declaredAction \in {"read"} /\ r.kind = "crm"
  BY <1>1, <1>2
<1>6. d \in Rule("artefact-read-allow", "allow", {"read"}, r.kind = "artefact")
          <=> d = EngineDecision("allow", "artefact-read-allow")
                  /\ r.declaredAction \in {"read"} /\ r.kind = "artefact"
  BY <1>1, <1>2
<1>7. d \in Rule("write-escalate", "escalate", Mutations, r.kind # "artefact")
          <=> d = EngineDecision("escalate", "write-escalate")
                  /\ r.declaredAction \in Mutations /\ r.kind # "artefact"
  BY <1>1, <1>2
<1>8. d \in Rule("artefact-write-allow", "allow", Mutations, r.kind = "artefact")
          <=> d = EngineDecision("allow", "artefact-write-allow")
                  /\ r.declaredAction \in Mutations /\ r.kind = "artefact"
  BY <1>1, <1>2
<1>9. d \in Rule("composite-deny", "deny", {"send"}, r.priorRead)
          <=> d = EngineDecision("deny", "composite-deny")
                  /\ r.declaredAction \in {"send"} /\ r.priorRead
  BY <1>1, <1>2
<1>10. d \in Rule("send-escalate", "escalate", {"send"}, ~ r.priorRead)
          <=> d = EngineDecision("escalate", "send-escalate")
                  /\ r.declaredAction \in {"send"} /\ ~ r.priorRead
  BY <1>1, <1>2
<1>11. d \in Rule("egress-capability-deny", "deny", {"egress"}, hasPayload(r))
          <=> d = EngineDecision("deny", "egress-capability-deny")
                  /\ r.declaredAction \in {"egress"} /\ hasPayload(r)
  BY <1>1, <1>2
<1>12. d \in Rule("egress-allowlist", "allow", {"egress"}, r.allowedDomain /\ ~ hasPayload(r))
          <=> d = EngineDecision("allow", "egress-allowlist")
                  /\ r.declaredAction \in {"egress"} /\ r.allowedDomain /\ ~ hasPayload(r)
  BY <1>1, <1>2
<1> QED
  BY <1>3, <1>4, <1>5, <1>6, <1>7, <1>8, <1>9, <1>10, <1>11, <1>12

LEMMA OneRuleDecides ==
    ASSUME NEW r, NEW d, RegoDecisions(r) = {d}
    PROVE  opaEvaluate(r) = d
BY FS_Singleton DEF opaEvaluate

LEMMA NoRuleDenies ==
    ASSUME NEW r, RegoDecisions(r) = {}
    PROVE  opaEvaluate(r) = EngineDecision("deny", None)
BY FS_EmptySet DEF opaEvaluate

LEMMA TwoRulesThrow ==
    ASSUME NEW r, NEW d, NEW e, d # e, RegoDecisions(r) = {d, e}
    PROVE  opaEvaluate(r) = Throws
<1>1. IsFiniteSet({d}) /\ Cardinality({d}) = 1
  BY FS_Singleton
<1>2. Cardinality({d} \cup {e}) = 2
  BY <1>1, FS_AddElement
<1>3. {d} \cup {e} = {d, e}
  OBVIOUS
<1> QED
  BY <1>2, <1>3 DEF opaEvaluate

(* Two rules allow one read. *)
TwoReads(r) == /\ r.declaredAction = "read"
               /\ r.inSandbox /\ r.kind \in {"crm", "artefact"}

(* The one effect of the demo policy under Rego. *)
RegoIntent(r) ==
    IF TwoReads(r) THEN "throws"
    ELSE IF r.declaredAction = "egress"
         THEN IF r.allowedDomain /\ ~ hasPayload(r) THEN "allow" ELSE "deny"
         ELSE Intent(r)

LEMMA RegoGivesIntent ==
    ASSUME NEW r \in Request
    PROVE  /\ opaEvaluate(r).effect = RegoIntent(r)
           /\ opaEvaluate(r).matchedRuleId \in DemoRules \cup {None}
<1>1. \A effect, rule : /\ EngineDecision(effect, rule).effect = effect
                        /\ EngineDecision(effect, rule).matchedRuleId = rule
  BY DEF EngineDecision
<1>2. \A rule \in {"sandbox-read-allow", "crm-read-allow", "artefact-read-allow",
                   "write-escalate", "artefact-write-allow", "send-escalate",
                   "composite-deny", "egress-allowlist", "egress-capability-deny"} :
          rule \in DemoRules
  BY DemoNames, DemoIdsDiffer DEF DemoRules
<1>3. r.kind \in {"crm", "artefact", "file", "null"} /\ r.declaredAction \in Actions
  BY DEF Request
<1>4. CASE TwoReads(r)
  <2> DEFINE d == EngineDecision("allow", "sandbox-read-allow")
             e == EngineDecision("allow", IF r.kind = "crm" THEN "crm-read-allow"
                                          ELSE "artefact-read-allow")
  <2>1. d # e
    BY <1>1
  <2>2. \A x : x \in RegoDecisions(r) <=> x = d \/ x = e
    BY <1>3, <1>4, RegoTells DEF TwoReads, Mutations
  <2> HIDE DEF d, e
  <2>3. opaEvaluate(r) = Throws
    BY <2>1, <2>2, TwoRulesThrow
  <2> QED
    BY <1>1, <1>4, <2>3 DEF Throws, RegoIntent
<1>5. ASSUME ~ TwoReads(r), NEW d \in RegoDecisions(r)
      PROVE  /\ RegoDecisions(r) = {d}
             /\ d.effect = RegoIntent(r)
             /\ d.matchedRuleId \in DemoRules
  <2>1. CASE r.declaredAction = "read"
    <3>1. d.effect = "allow" /\ d.matchedRuleId \in DemoRules
      BY <1>1, <1>2, <2>1, RegoTells DEF Mutations
    <3>2. \A x \in RegoDecisions(r) : x = d
      BY <1>5, <2>1, RegoTells DEF TwoReads, Mutations
    <3>3. RegoIntent(r) = "allow"
      BY <1>5, <2>1, RegoTells DEF RegoIntent, Intent, Mutations
    <3> QED
      BY <3>1, <3>2, <3>3
  <2>2. CASE r.declaredAction \in Mutations
    <3>1. \A x : x \in RegoDecisions(r)
              <=> x = IF r.kind = "artefact" THEN EngineDecision("allow", "artefact-write-allow")
                      ELSE EngineDecision("escalate", "write-escalate")
      BY <2>2, RegoTells DEF Mutations
    <3>2. RegoIntent(r) = IF r.kind = "artefact" THEN "allow" ELSE "escalate"
      BY <2>2 DEF RegoIntent, Intent, Mutations, TwoReads
    <3> QED
      BY <1>1, <1>2, <3>1, <3>2
  <2>3. CASE r.declaredAction = "send"
    <3>1. \A x : x \in RegoDecisions(r)
              <=> x = IF r.priorRead THEN EngineDecision("deny", "composite-deny")
                      ELSE EngineDecision("escalate", "send-escalate")
      BY <2>3, RegoTells DEF Mutations
    <3>2. RegoIntent(r) = IF r.priorRead THEN "deny" ELSE "escalate"
      BY <2>3 DEF RegoIntent, Intent, Mutations, TwoReads
    <3> QED
      BY <1>1, <1>2, <3>1, <3>2
  <2>4. CASE r.declaredAction = "egress"
    <3>1. \A x \in RegoDecisions(r) :
              x = IF hasPayload(r) THEN EngineDecision("deny", "egress-capability-deny")
                  ELSE EngineDecision("allow", "egress-allowlist")
      BY <2>4, RegoTells DEF Mutations
    <3>2. ~ hasPayload(r) => r.allowedDomain
      BY <2>4, RegoTells DEF Mutations
    <3>3. RegoIntent(r) = IF hasPayload(r) THEN "deny" ELSE "allow"
      BY <2>4, <3>2 DEF RegoIntent, TwoReads
    <3> QED
      BY <1>1, <1>2, <3>1, <3>3
  <2>5. CASE r.declaredAction = "execute"
    BY <2>5, RegoTells DEF Mutations
  <2> QED
    BY <1>3, <2>1, <2>2, <2>3, <2>4, <2>5 DEF Actions
<1>6. CASE RegoDecisions(r) = {}
  <2>1. RegoIntent(r) = "deny"
    <3>1. ~ TwoReads(r)
      BY <1>6, RegoTells DEF TwoReads
    <3>2. CASE r.declaredAction = "read"
      BY <1>6, <3>1, <3>2, RegoTells DEF RegoIntent, Intent
    <3>3. CASE r.declaredAction = "egress"
      BY <1>6, <3>1, <3>3, RegoTells DEF RegoIntent
    <3>4. CASE r.declaredAction = "execute"
      BY <3>1, <3>4 DEF RegoIntent, Intent, Mutations
    <3>5. r.declaredAction \notin Mutations \cup {"send"}
      BY <1>6, RegoTells DEF Request
    <3> QED
      BY <1>3, <3>2, <3>3, <3>4, <3>5 DEF Actions
  <2> QED
    BY <1>1, <1>6, <2>1, NoRuleDenies
<1> QED
  BY <1>4, <1>5, <1>6, OneRuleDecides

LEMMA RegoNamesSandboxReads ==
    ASSUME NEW r \in Request
    PROVE  opaEvaluate(r).matchedRuleId = "sandbox-read-allow"
               <=> SandboxRead(r) /\ r.kind \notin {"crm", "artefact"}
<1> DEFINE sandbox == EngineDecision("allow", "sandbox-read-allow")
<1>1. \A effect, rule : EngineDecision(effect, rule).matchedRuleId = rule
  BY DEF EngineDecision
<1>2. None # "sandbox-read-allow"
  BY DemoNames, DemoIdsDiffer
<1>3. CASE SandboxRead(r) /\ r.kind \notin {"crm", "artefact"}
  <2>1. RegoDecisions(r) = {sandbox}
    BY <1>3, RegoTells DEF SandboxRead, Mutations
  <2> QED
    BY <1>1, <1>3, <2>1, OneRuleDecides
<1>4. CASE SandboxRead(r) /\ r.kind \in {"crm", "artefact"}
  <2>1. opaEvaluate(r) = Throws
    <3> DEFINE e == EngineDecision("allow", IF r.kind = "crm" THEN "crm-read-allow"
                                            ELSE "artefact-read-allow")
    <3>1. sandbox # e
      BY <1>1
    <3>2. \A x : x \in RegoDecisions(r) <=> x = sandbox \/ x = e
      BY <1>4, RegoTells DEF SandboxRead, Mutations
    <3> HIDE DEF sandbox, e
    <3> QED
      BY <3>1, <3>2, TwoRulesThrow
  <2> QED
    BY <1>1, <1>2, <1>4, <2>1 DEF Throws
<1>5. CASE ~ SandboxRead(r)
  <2>1. \A d \in RegoDecisions(r) : d.matchedRuleId # "sandbox-read-allow"
    BY <1>1, <1>5, RegoTells DEF SandboxRead
  <2>2. opaEvaluate(r) \in RegoDecisions(r) \cup {Throws, EngineDecision("deny", None)}
    BY DEF opaEvaluate
  <2> QED
    BY <1>1, <1>2, <1>5, <2>1, <2>2 DEF Throws
<1> QED
  BY <1>3, <1>4, <1>5

-----------------------------------------------------------------------------
LEMMA DemoEffectsAre ==
    ASSUME RequestInv, IsDemo
    PROVE  effects = {CedarIntent(request)} /\ Decisions(request) = CedarAnswers(request)
BY CedarGivesIntent DEF RequestInv, IsDemo, effects, EffectsOf, Decisions, CedarAnswers

(* For any principals the two engines give the demo policy's effect alike, *)
(* exactly but for four edges: a read that two Rego rules allow, a null    *)
(* payload, a false one, and a null kind (policy.rego:112-115,             *)
(* cedar.ts:135, 155, opa.ts:50).                                          *)
THEOREM EnginesCorrect == EnginesSpec => []EnginesDifferOnlyAtTheEdges
<1>1. RequestInv => EnginesDifferOnlyAtTheEdges
  <2> SUFFICES ASSUME RequestInv, IsDemo
               PROVE  EnginesDifferOnlyAtTheEdges
    BY DEF EnginesDifferOnlyAtTheEdges
  <2>1. effects = {opaEvaluate(request).effect} <=> CedarIntent(request) = RegoIntent(request)
    BY DemoEffectsAre, RegoGivesIntent DEF RequestInv
  <2>2. /\ request.payload \in Payloads /\ request.declaredAction \in Actions
        /\ request.kind \in {"crm", "artefact", "file", "null"} /\ request.inSandbox \in BOOLEAN
        /\ request.allowedDomain \in BOOLEAN
    BY DEF RequestInv, Request
  <2>3. payloadPresent(request.payload) # hasPayload(request)
            <=> request.payload \in {"null", "false"}
    BY <2>2 DEF payloadPresent, hasPayload, Payloads
  <2>4. TwoReads(request) => Intent(request) = "allow"
    BY DEF TwoReads, Intent, Mutations
  <2>5. request.declaredAction = "egress" =>
            Intent(request) = IF request.allowedDomain /\ ~ payloadPresent(request.payload)
                              THEN "allow" ELSE "deny"
    BY DEF Intent, Mutations
  <2>6. Intent(request) = RegoIntent(request)
            <=> /\ ~ TwoReads(request)
                /\ ~ (/\ request.declaredAction = "egress" /\ request.allowedDomain
                      /\ request.payload \in {"null", "false"})
    <3>1. CASE TwoReads(request)
      BY <2>4, <3>1 DEF RegoIntent
    <3>2. CASE ~ TwoReads(request) /\ request.declaredAction = "egress"
      <4>1. payloadPresent(request.payload) \in BOOLEAN /\ hasPayload(request) \in BOOLEAN
        BY DEF payloadPresent, hasPayload
      <4> QED
        BY <2>2, <2>3, <2>5, <3>2, <4>1 DEF RegoIntent
    <3>3. CASE ~ TwoReads(request) /\ request.declaredAction # "egress"
      BY <3>3 DEF RegoIntent
    <3> QED
      BY <3>1, <3>2, <3>3
  <2>7. NoCedarValue(request) => RegoIntent(request) # "throws"
    BY <2>2 DEF NoCedarValue, RegoIntent, TwoReads, Intent, Mutations, Actions
  <2> QED
    BY <2>1, <2>2, <2>6, <2>7
       DEF EnginesDifferOnlyAtTheEdges, TwoReads, CedarIntent, NoCedarValue
<1> QED
  BY <1>1, RequestInvariant, PTL

(* Whichever determining policy Cedar names first, the demo policy has one *)
(* effect for every request of every principal (cedar.ts:161).             *)
THEOREM DeterminedCorrect == EnginesSpec => []DemoEffectIsDetermined
<1>1. RequestInv => DemoEffectIsDetermined
  BY DemoEffectsAre, FS_Singleton DEF DemoEffectIsDetermined
<1> QED
  BY <1>1, RequestInvariant, PTL

(* For any principals and any agents among them, the readback of the       *)
(* policy in force misses a rule that decides exactly when somebody who is *)
(* no agent reads inside the sandbox (gateway.ts:161-166, 365-377).        *)
THEOREM ReadbackOfPolicyCorrect == EnginesSpec => []ReadbackMissesOnlySandboxReads
<1>1. RequestInv => ReadbackMissesOnlySandboxReads
  <2> DEFINE listed == effectivePolicy(request.principal)
             missed == request.principal \notin Agents /\ SandboxRead(request)
  <2> SUFFICES ASSUME RequestInv, IsDemo
               PROVE  RulesNamed \subseteq listed <=> ~ missed
    BY DEF ReadbackMissesOnlySandboxReads, SandboxRead
  <2>1. RulesNamed \subseteq DemoRules
    BY DemoEffectsAre, CedarNamesRules, RegoGivesIntent DEF RequestInv, RulesNamed
  <2>2. None # "sandbox-read-allow" /\ "sandbox-read-allow" \in DemoRules
    BY DemoNames, DemoIdsDiffer DEF DemoRules
  <2>3. "sandbox-read-allow" \in RulesNamed <=> SandboxRead(request)
    <3>1. "sandbox-read-allow" \in RulesNamed
              <=> \/ \E d \in CedarAnswers(request) : d.matchedRuleId = "sandbox-read-allow"
                  \/ opaEvaluate(request).matchedRuleId = "sandbox-read-allow"
      BY <2>2, DemoEffectsAre DEF RulesNamed
    <3> QED
      BY <3>1, CedarNamesSandboxReads, RegoNamesSandboxReads DEF RequestInv, NoCedarValue
  <2>4. \A id \in DemoRules : id \in listed <=>
            id # "sandbox-read-allow" \/ request.principal \in Agents
    BY DEF effectivePolicy, principalMatches, DemoPrincipals
  <2> HIDE DEF listed
  <2> QED
    BY <2>1, <2>2, <2>3, <2>4
<1> QED
  BY <1>1, RequestInvariant, PTL

LEMMA StrictnessOf ==
    /\ Strictness("allow") = RESTRICTIVENESS["allow"]
    /\ Strictness("escalate") = RESTRICTIVENESS["escalate"]
    /\ Strictness("deny") = RESTRICTIVENESS["deny"]
    /\ Strictness("throws") = 4
    /\ \A effect \in Effects : Strictness(effect) \in 0..4
BY DEF Strictness, RESTRICTIVENESS, Effects

DemoStrictness ==
    IsDemo => /\ Cedars = Strictness(CedarIntent(request))
              /\ Opas = Strictness(RegoIntent(request))

LEMMA StrictnessOfDemo == RequestInv => DemoStrictness
<1> SUFFICES ASSUME RequestInv, IsDemo
             PROVE  Cedars = Strictness(CedarIntent(request)) /\ Opas = Strictness(RegoIntent(request))
  BY DEF DemoStrictness
<1>1. CedarIntent(request) \in Effects \cup {"throws"}
  BY DEF RequestInv, Request, Actions, Mutations, CedarIntent, Intent, Effects
<1>2. {Strictness(effect) : effect \in effects} = {Strictness(CedarIntent(request))}
  BY DemoEffectsAre
<1>3. Strictness(CedarIntent(request)) \in Nat
  BY <1>1, StrictnessOf
<1>4. Min({Strictness(CedarIntent(request))}) = Strictness(CedarIntent(request))
  BY <1>3, MinIsLeast
<1> QED
  BY <1>2, <1>4, RegoGivesIntent DEF Cedars, Opas, RequestInv

(* One more attribute of either kind, request by request. *)
LEMMA StricterWithMore ==
    ASSUME NEW r \in Request, NEW s \in Request,
           \/ s = [r EXCEPT !.priorRead = TRUE]
           \/ r.payload = "absent" /\ \E p \in Payloads : s = [r EXCEPT !.payload = p]
    PROVE  /\ Strictness(CedarIntent(s)) >= Strictness(CedarIntent(r))
           /\ Strictness(RegoIntent(s)) >= Strictness(RegoIntent(r))
<1>1. /\ s.declaredAction = r.declaredAction /\ s.kind = r.kind
      /\ s.inSandbox = r.inSandbox /\ s.allowedDomain = r.allowedDomain
      /\ r.priorRead => s.priorRead
      /\ payloadPresent(r.payload) => payloadPresent(s.payload)
      /\ hasPayload(r) => hasPayload(s)
  BY DEF Request, payloadPresent, hasPayload
<1>2. (TwoReads(s) <=> TwoReads(r)) /\ (NoCedarValue(s) <=> NoCedarValue(r))
  BY <1>1 DEF TwoReads, NoCedarValue
<1>3. r.declaredAction \in Actions
  BY DEF Request
<1>4. \/ Intent(s) = Intent(r)
      \/ Intent(r) = "escalate" /\ Intent(s) = "deny"
      \/ Intent(r) = "allow" /\ Intent(s) = "deny"
  BY <1>1, <1>3 DEF Intent, Actions, Mutations
<1>5. \/ RegoIntent(s) = RegoIntent(r)
      \/ RegoIntent(r) = "escalate" /\ RegoIntent(s) = "deny"
      \/ RegoIntent(r) = "allow" /\ RegoIntent(s) = "deny"
  BY <1>1, <1>2, <1>4 DEF RegoIntent
<1>6. /\ CedarIntent(r) \in Effects \cup {"throws"}
      /\ RegoIntent(r) \in Effects \cup {"throws"}
  BY <1>3 DEF CedarIntent, RegoIntent, Intent, Actions, Mutations, Effects
<1>7. /\ Strictness("deny") = 3 /\ Strictness("escalate") = 2 /\ Strictness("allow") = 1
      /\ \A effect \in Effects \cup {"throws"} : Strictness(effect) \in 0..4
  BY StrictnessOf DEF RESTRICTIVENESS
<1> HIDE DEF Effects, Strictness
<1>8. Strictness(CedarIntent(s)) >= Strictness(CedarIntent(r))
  <2>1. Strictness(CedarIntent(r)) \in 0..4
    BY <1>6, <1>7
  <2>2. CASE CedarIntent(s) = CedarIntent(r)
    BY <2>1, <2>2
  <2>3. CASE CedarIntent(r) \in {"escalate", "allow"} /\ CedarIntent(s) = "deny"
    BY <1>7, <2>3
  <2> QED
    BY <1>2, <1>4, <2>2, <2>3 DEF CedarIntent
<1>9. Strictness(RegoIntent(s)) >= Strictness(RegoIntent(r))
  <2>1. Strictness(RegoIntent(r)) \in 0..4
    BY <1>6, <1>7
  <2>2. CASE RegoIntent(s) = RegoIntent(r)
    BY <2>1, <2>2
  <2>3. CASE RegoIntent(r) \in {"escalate", "allow"} /\ RegoIntent(s) = "deny"
    BY <1>7, <2>3
  <2> QED
    BY <1>5, <2>2, <2>3
<1> QED
  BY <1>8, <1>9

(* Carrying a trusted read or a payload never makes either engine more     *)
(* lenient under the demo policy, for any principals (policy.cedar:67-95). *)
THEOREM CarryingCorrect == EnginesSpec => CarryingMoreNeverRelaxes
<1> DEFINE Keeps == IsDemo => Cedars' >= Cedars /\ Opas' >= Opas
<1>1. ASSUME RequestInv, RequestInv', DemoStrictness, DemoStrictness',
             [EnginesNext]_enginesVars
      PROVE  [Keeps]_enginesVars
  <2> SUFFICES ASSUME IsDemo, CarryRead \/ AddPayload
               PROVE  Cedars' >= Cedars /\ Opas' >= Opas
    BY <1>1 DEF EnginesNext, AddPolicy, IsDemo
  <2>1. IsDemo'
    BY DEF CarryRead, AddPayload, IsDemo
  <2>2. \/ request' = [request EXCEPT !.priorRead = TRUE]
        \/ /\ request.payload = "absent"
           /\ \E p \in Payloads : request' = [request EXCEPT !.payload = p]
    BY DEF CarryRead, AddPayload, Payloads
  <2>3. /\ Strictness(CedarIntent(request')) >= Strictness(CedarIntent(request))
        /\ Strictness(RegoIntent(request')) >= Strictness(RegoIntent(request))
    BY <1>1, <2>2, StricterWithMore DEF RequestInv
  <2> QED
    BY <1>1, <2>1, <2>3 DEF DemoStrictness
<1> QED
  BY <1>1, RequestInvariant, StrictnessOfDemo, PTL DEF EnginesSpec, CarryingMoreNeverRelaxes

=============================================================================
