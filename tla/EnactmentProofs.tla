-------------------------- MODULE EnactmentProofs --------------------------
(***************************************************************************)
(* The receipt chain, the records, the escalation queue and the downstream *)
(* calls tell one story, for any number of calls, and it is a story that   *)
(* Enactment allows.                                                       *)
(*                                                                         *)
(* None of the properties is inductive alone.  That a new receipt is not   *)
(* chained already follows from where its handler stands; that an          *)
(* escalation is resolved once needs the queue to agree with the chain;    *)
(* that an action executes once needs both.                                *)
(***************************************************************************)
EXTENDS GatewayProofs, GatewayImplementsEnactment

Past == {"answered", "enacting", "failed"}

(* The handler that minted a receipt has passed the segment that appends it. *)
MintersArePast ==
    \A i \in 1..Len(receipts) : pc[receipts[i].receiptId] \in Past

(* A decision's own receipt says what its handler rendered. *)
OwnReceiptsTell ==
    \A i \in 1..Len(receipts) : IsOwn(receipts[i]) =>
        LET made == job[receipts[i].decisionId]
        IN  /\ made \in Job
            /\ receipts[i].decision = made.effect
            /\ receipts[i].simulated = made.simulated

(* No place among the records is skipped. *)
EachHasItsReceipt ==
    \A k \in 1..OwnUpTo(Len(receipts)) :
        \E i \in 1..Len(receipts) : IsOwn(receipts[i]) /\ OwnUpTo(i) = k

EnactInv == /\ TypeInv
            /\ MintersArePast
            /\ OwnReceiptsTell
            /\ ChainIntact
            /\ RecordsAgree
            /\ EachHasItsReceipt
            /\ QueueMatchesChain
            /\ ExecutionMatchesReceipts
            /\ ExecutedAtMostOnce

USE DEF Past

(***************************************************************************)
(* A step that touches neither the chain, the queue nor the calls, moves   *)
(* no handler back and changes no locals after the decision was rendered.  *)
(***************************************************************************)
Quiet ==
    /\ UNCHANGED <<receipts, decisions, history, escalations, calls>>
    /\ \A r \in Requests : pc[r] \in Past => pc'[r] \in Past
    /\ \A r \in Requests : pc[r] \in Past => job'[r] = job[r]

LEMMA FailIsQuiet ==
    ASSUME TypeInv, NEW r \in Requests, Fail(r)
    PROVE  Quiet
BY DEF TypeInv, TypeOK, Fail, Goto, storeVars, Quiet

LEMMA QuietSteps ==
    ASSUME TypeInv, [Next]_vars
    PROVE  \/ Quiet
           \/ \E r \in Requests : Commit(r)
           \/ \E q, d \in Requests, approved \in BOOLEAN : ResolveEscalation(q, d, approved)
<1> USE DEF TypeInv, TypeOK
<1>1. ASSUME NEW r \in Requests, Propose(r)
      PROVE  Quiet
  <2>1. /\ UNCHANGED <<storeVars, calls>> /\ pc[r] = "idle"
        /\ pc' = [pc EXCEPT ![r] = "awaitPolicy"] \/ pc' = [pc EXCEPT ![r] = "awaitSources"]
        /\ \E new : job' = [job EXCEPT ![r] = new]
    BY <1>1 DEF Propose, Decide, DecideArbitrated, Arrive, At, Goto
  <2> QED
    BY <2>1 DEF Quiet, storeVars
<1>2. ASSUME NEW r \in Requests, Reject(r)
      PROVE  Quiet
  BY <1>2, RejectTells DEF RejectAtOnce, Goto, Quiet, storeVars
<1>3. ASSUME NEW r \in Requests, Resume(r)
      PROVE  Quiet \/ Commit(r)
  <2>1. CASE Evaluate(r) \/ Arbitrate(r)
    <3>1. /\ pc[r] \in {"awaitPolicy", "awaitSources"}
          /\ pc' = [pc EXCEPT ![r] = "rendered"]
          /\ UNCHANGED <<receipts, decisions, history, escalations, calls>>
          /\ \E new : job' = [job EXCEPT ![r] = new]
      BY <2>1 DEF Evaluate, Arbitrate, Render, At, Goto, storeVars
    <3> QED
      BY <3>1 DEF Quiet
  <2>2. CASE InstallPolicy(r)
    BY <2>2 DEF InstallPolicy, At, Goto, storeVars, Quiet
  <2>3. CASE EvaluateFails(r) \/ ArbitrateFails(r) \/ CommitThrows(r) \/ RefusePolicy(r)
    <3> HIDE DEF TypeInv
    <3> QED
      BY <2>3, FailIsQuiet DEF EvaluateFails, ArbitrateFails, CommitThrows, RefusePolicy
  <2> QED
    BY <1>3, <2>1, <2>2, <2>3 DEF Resume
<1>4. ASSUME NEW r \in Requests, Return(r)
      PROVE  Quiet
  BY <1>4 DEF Return, DownstreamReturns, DownstreamRejects, Fail, Goto, storeVars, Quiet
<1>5. ASSUME NEW q \in Requests, NEW d \in Requests, RefuseResolution(q, d)
      PROVE  Quiet
  BY <1>5 DEF RefuseResolution, Fail, Goto, storeVars, Quiet
<1>6. ASSUME NEW q \in Requests, NEW bundle \in Bundles, LoadPolicy(q, bundle)
      PROVE  Quiet
  BY <1>6 DEF LoadPolicy, At, Goto, storeVars, Quiet
<1>7. CASE Settle
  BY <1>7 DEF Settle, storeVars, handlerVars, Quiet
<1>8. CASE UNCHANGED vars
  BY <1>8 DEF vars, storeVars, handlerVars, Quiet
<1> HIDE DEF TypeInv, TypeOK
<1> QED
  BY <1>1, <1>2, <1>3, <1>4, <1>5, <1>6, <1>7, <1>8 DEF Next, Quiescent, Resolve

-----------------------------------------------------------------------------
(***************************************************************************)
(* A receipt appended to the chain.                                        *)
(***************************************************************************)
LEMMA Appended ==
    ASSUME TypeInv, NEW x \in Receipt, receipts' = Append(receipts, x)
    PROVE  /\ Len(receipts) \in Nat
           /\ Len(receipts') = Len(receipts) + 1
           /\ receipts'[Len(receipts) + 1] = x
           /\ \A i \in 1..Len(receipts) : receipts'[i] = receipts[i]
BY DEF TypeInv, TypeOK

LEMMA OwnAppended ==
    ASSUME TypeInv, NEW x \in Receipt, receipts' = Append(receipts, x), IsOwn(x),
           NEW d \in Requests
    PROVE  /\ Resolutions(d)' = Resolutions(d)
           /\ OwnReceipts(d)' = OwnReceipts(d) \cup
                  {i \in {Len(receipts) + 1} : x.receiptId = d}
BY Appended DEF Resolutions, OwnReceipts, IsOwn

LEMMA ResolutionAppended ==
    ASSUME TypeInv, NEW x \in Receipt, receipts' = Append(receipts, x), ~ IsOwn(x),
           NEW d \in Requests
    PROVE  /\ OwnReceipts(d)' = OwnReceipts(d)
           /\ Resolutions(d)' = Resolutions(d) \cup
                  {i \in {Len(receipts) + 1} : x.decisionId = d}
BY Appended DEF Resolutions, OwnReceipts, IsOwn

(* What either kind of append does to the chain and to who minted it. *)
LEMMA ChainGrows ==
    ASSUME TypeInv, MintersArePast, ChainIntact, NEW x \in Receipt,
           receipts' = Append(receipts, x), x.prevHash = lastReceiptHash,
           pc[x.receiptId] \notin Past, pc'[x.receiptId] \in Past,
           \A r \in Requests \ {x.receiptId} : pc'[r] = pc[r]
    PROVE  MintersArePast' /\ ChainIntact'
<1> DEFINE n == Len(receipts)
<1>1. /\ n \in Nat
      /\ Len(receipts') = n + 1
      /\ receipts'[n + 1] = x
      /\ \A i \in 1..n : receipts'[i] = receipts[i]
  BY Appended
<1>2. \A i \in 1..n : receipts[i].receiptId \in Requests
  <2>1. \A i \in 1..n : receipts[i] \in Receipt
    BY ElementOfSeq DEF TypeInv, TypeOK
  <2> QED
    BY <2>1 DEF Receipt
<1>3. \A i \in 1..n : receipts[i].receiptId # x.receiptId
  BY DEF MintersArePast
<1>4. MintersArePast'
  BY <1>1, <1>2, <1>3 DEF MintersArePast
<1>5. x.prevHash = IF n + 1 = 1 THEN GENESIS ELSE hashReceiptBody(receipts[n])
  <2>1. receipts = << >> <=> n = 0
    BY EmptySeq DEF TypeInv, TypeOK
  <2> QED
    BY <1>1, <2>1 DEF lastReceiptHash
<1>6. ASSUME NEW i \in 1..(n + 1)
      PROVE  receipts'[i].prevHash =
                 IF i = 1 THEN GENESIS ELSE hashReceiptBody(receipts'[i - 1])
  <2>1. CASE i = n + 1
    BY <1>1, <1>5, <2>1 DEF hashReceiptBody
  <2>2. CASE i \in 1..n
    BY <1>1, <2>2 DEF ChainIntact, hashReceiptBody
  <2> QED
    BY <1>1, <2>1, <2>2
<1>7. ASSUME NEW i \in 1..(n + 1), NEW j \in 1..(n + 1),
             receipts'[i].receiptId = receipts'[j].receiptId
      PROVE  i = j
  <2>1. CASE i \in 1..n /\ j \in 1..n
    BY <1>1, <1>7, <2>1 DEF ChainIntact
  <2>2. CASE i = n + 1 \/ j = n + 1
    BY <1>1, <1>3, <1>7, <2>2
  <2> QED
    BY <1>1, <2>1, <2>2
<1>8. ChainIntact'
  BY <1>1, <1>6, <1>7 DEF ChainIntact, hashReceiptBody
<1> QED
  BY <1>4, <1>8

(***************************************************************************)
(* Counting the decisions among the receipts.                              *)
(***************************************************************************)
LEMMA CountIsFinite ==
    ASSUME NEW n \in Nat
    PROVE  IsFiniteSet({j \in 1..n : IsOwn(receipts[j])})
<1>1. {j \in 1..n : IsOwn(receipts[j])} \subseteq 1..n
  OBVIOUS
<1>2. IsFiniteSet(1..n)
  BY FS_Interval
<1> QED
  BY <1>1, <1>2, FS_Subset

LEMMA CountType ==
    ASSUME NEW n \in Nat
    PROVE  OwnUpTo(n) \in 0..n
<1>1. IsFiniteSet(1..n) /\ Cardinality(1..n) = n
  BY FS_Interval
<1>2. {j \in 1..n : IsOwn(receipts[j])} \subseteq 1..n
  OBVIOUS
<1> QED
  BY <1>1, <1>2, FS_Subset, FS_CardinalityType DEF OwnUpTo

(* Later receipts have no smaller place, and later own ones a larger one. *)
LEMMA CountGrows ==
    ASSUME NEW n \in Nat, NEW m \in Nat, m < n
    PROVE  /\ OwnUpTo(m) <= OwnUpTo(n)
           /\ IsOwn(receipts[n]) => OwnUpTo(m) < OwnUpTo(n)
<1> DEFINE own(k) == {j \in 1..k : IsOwn(receipts[j])}
<1>1. IsFiniteSet(own(n)) /\ own(m) \subseteq own(n)
  BY CountIsFinite
<1>2. OwnUpTo(m) \in Nat /\ OwnUpTo(n) \in Nat
  BY CountType
<1>3. OwnUpTo(m) <= OwnUpTo(n)
  BY <1>1, FS_Subset DEF OwnUpTo
<1>4. ASSUME IsOwn(receipts[n])
      PROVE  OwnUpTo(m) # OwnUpTo(n)
  <2>1. n \in own(n) \ own(m)
    BY <1>4
  <2> QED
    BY <1>1, <2>1, FS_Subset DEF OwnUpTo
<1> QED
  BY <1>2, <1>3, <1>4

LEMMA PlaceInRange ==
    ASSUME TypeInv, NEW i \in 1..Len(receipts), IsOwn(receipts[i])
    PROVE  OwnUpTo(i) \in 1..OwnUpTo(Len(receipts))
<1>1. PICK n \in Nat : Len(receipts) = n /\ i \in 1..n
  BY DEF TypeInv, TypeOK
<1>2. OwnUpTo(0) \in Nat /\ OwnUpTo(i) \in Nat /\ OwnUpTo(n) \in Nat
  BY <1>1, CountType
<1>3. OwnUpTo(0) < OwnUpTo(i)
  BY <1>1, CountGrows
<1>4. i < n => OwnUpTo(i) <= OwnUpTo(n)
  BY <1>1, CountGrows
<1> QED
  BY <1>1, <1>2, <1>3, <1>4

(* An own receipt has the place after that of the receipt before it. *)
LEMMA CountStep ==
    ASSUME NEW n \in Nat \ {0}, IsOwn(receipts[n])
    PROVE  OwnUpTo(n) = OwnUpTo(n - 1) + 1
<1> DEFINE own(k) == {j \in 1..k : IsOwn(receipts[j])}
<1>1. IsFiniteSet(own(n - 1)) /\ n \notin own(n - 1)
  BY CountIsFinite
<1>2. own(n) = own(n - 1) \cup {n}
  OBVIOUS
<1> QED
  BY <1>1, <1>2, FS_AddElement DEF OwnUpTo

(* An append leaves the places before it alone. *)
LEMMA CountKept ==
    ASSUME TypeInv, NEW x \in Receipt, receipts' = Append(receipts, x)
    PROVE  /\ \A i \in 0..Len(receipts) : OwnUpTo(i)' = OwnUpTo(i)
           /\ OwnUpTo(Len(receipts))' =
                  OwnUpTo(Len(receipts)) + (IF IsOwn(x) THEN 1 ELSE 0)
           /\ OwnUpTo(Len(receipts)) \in Nat
<1> DEFINE n == Len(receipts)
           own == {j \in 1..n : IsOwn(receipts[j])}
<1>1. /\ n \in Nat
      /\ Len(receipts') = n + 1
      /\ receipts'[n + 1] = x
      /\ \A i \in 1..n : receipts'[i] = receipts[i]
  BY Appended
<1>2. ASSUME NEW i \in 0..n
      PROVE  OwnUpTo(i)' = OwnUpTo(i)
  <2>1. {j \in 1..i : IsOwn(receipts'[j])} = {j \in 1..i : IsOwn(receipts[j])}
    BY <1>1
  <2> QED
    BY <2>1 DEF OwnUpTo, IsOwn
<1>3. IsFiniteSet(own) /\ Cardinality(own) \in Nat /\ n + 1 \notin own
  BY <1>1, CountIsFinite, FS_CardinalityType
<1>4. {j \in 1..Len(receipts') : IsOwn(receipts'[j])} =
          IF IsOwn(x) THEN own \cup {n + 1} ELSE own
  BY <1>1
<1>5. Cardinality(own \cup {n + 1}) = Cardinality(own) + 1
  BY <1>3, FS_AddElement
<1>6. OwnUpTo(Len(receipts))' = Cardinality({j \in 1..Len(receipts') : IsOwn(receipts'[j])})
  BY DEF OwnUpTo, IsOwn
<1> HIDE DEF own
<1>7. OwnUpTo(Len(receipts)) = Cardinality(own)
  BY DEF OwnUpTo, own
<1>8. OwnUpTo(Len(receipts))' = Cardinality(own) + (IF IsOwn(x) THEN 1 ELSE 0)
  <2>1. CASE IsOwn(x)
    BY <1>4, <1>5, <1>6, <2>1
  <2>2. CASE ~ IsOwn(x)
    <3>1. {j \in 1..Len(receipts') : IsOwn(receipts'[j])} = own
      BY <1>4, <2>2, Zenon
    <3>2. OwnUpTo(Len(receipts))' = Cardinality(own)
      BY <1>6, <3>1
    <3> QED
      BY <1>3, <2>2, <3>2
  <2> QED
    BY <2>1, <2>2
<1> QED
  BY <1>2, <1>3, <1>7, <1>8

(* A call that has not reached its commit has left nothing in the chain or *)
(* in the queue.                                                           *)
LEMMA Undecided ==
    ASSUME TypeInv, MintersArePast, QueueMatchesChain,
           NEW d \in Requests, pc[d] \notin Past
    PROVE  /\ escalations[d] = "none"
           /\ OwnReceipts(d) = {} /\ Resolutions(d) = {}
           /\ ~ Allowed(d)
<1>1. OwnReceipts(d) = {}
  BY DEF MintersArePast, OwnReceipts
<1>2. escalations[d] = "none"
  BY <1>1 DEF QueueMatchesChain
<1>3. Resolutions(d) = {}
  BY <1>2 DEF QueueMatchesChain
<1>4. ~ Allowed(d)
  BY <1>1, <1>3 DEF Allowed, OwnReceipts, Resolutions, IsOwn
<1> QED
  BY <1>1, <1>2, <1>3, <1>4

LEMMA OwnArePast ==
    ASSUME TypeInv, MintersArePast, NEW i \in 1..Len(receipts), IsOwn(receipts[i])
    PROVE  receipts[i].decisionId \in Requests /\ pc[receipts[i].decisionId] \in Past
<1>1. receipts[i] \in Receipt
  BY ElementOfSeq DEF TypeInv, TypeOK
<1> QED
  BY <1>1 DEF Receipt, IsOwn, MintersArePast

(***************************************************************************)
(* What the records say of the chain.                                      *)
(***************************************************************************)
LEMMA OwnAreDecided ==
    ASSUME TypeInv, RecordsAgree, NEW i \in 1..Len(receipts), IsOwn(receipts[i])
    PROVE  receipts[i].decisionId \in Decided
BY PlaceInRange DEF RecordsAgree, Decided

LEMMA DecidedAreChained ==
    ASSUME RecordsAgree, EachHasItsReceipt, NEW k \in 1..Len(decisions)
    PROVE  \E i \in 1..Len(receipts) :
               /\ IsOwn(receipts[i]) /\ OwnUpTo(i) = k
               /\ receipts[i].decisionId = decisions[k].decisionId
BY DEF RecordsAgree, EachHasItsReceipt

LEMMA DecidedArePast ==
    ASSUME TypeInv, MintersArePast, RecordsAgree, EachHasItsReceipt, NEW d \in Decided
    PROVE  d \in Requests /\ pc[d] \in Past
<1>1. PICK k \in 1..Len(decisions) : decisions[k].decisionId = d
  BY DEF Decided
<1>2. PICK i \in 1..Len(receipts) : IsOwn(receipts[i]) /\ receipts[i].decisionId = d
  BY <1>1, DecidedAreChained
<1> QED
  BY <1>2, OwnArePast

(* The history has one entry of each decision. *)
LEMMA EntriesAreDistinct ==
    ASSUME EnactInv, NEW i \in 1..Len(history), NEW k \in 1..Len(history),
           history[i].decisionId = history[k].decisionId
    PROVE  i = k
<1>1. i \in 1..OwnUpTo(Len(receipts)) /\ k \in 1..OwnUpTo(Len(receipts))
  BY DEF EnactInv, RecordsAgree
<1>2. PICK m \in 1..Len(receipts) : IsOwn(receipts[m]) /\ OwnUpTo(m) = i
  BY <1>1 DEF EnactInv, EachHasItsReceipt
<1>3. PICK n \in 1..Len(receipts) : IsOwn(receipts[n]) /\ OwnUpTo(n) = k
  BY <1>1 DEF EnactInv, EachHasItsReceipt
<1>4. receipts[m].receiptId = history[i].decisionId /\ receipts[n].receiptId = history[k].decisionId
  BY <1>2, <1>3 DEF EnactInv, RecordsAgree, IsOwn
<1>5. m = n
  BY <1>4 DEF EnactInv, ChainIntact
<1> QED
  BY <1>2, <1>3, <1>5

(***************************************************************************)
(* The records grow with the chain: an own receipt brings a record and an  *)
(* entry in its place, any other receipt brings neither.                   *)
(***************************************************************************)
LEMMA RecordsGrow ==
    ASSUME EnactInv, NEW x \in Receipt, receipts' = Append(receipts, x), IsOwn(x),
           NEW y, NEW z, decisions' = Append(decisions, y), history' = Append(history, z),
           y.decisionId = x.decisionId, y.receiptRef = x.receiptId,
           y.decision = x.decision, y.policyVersion = x.policyVersion,
           z.decisionId = x.decisionId, z.decision = x.decision
    PROVE  RecordsAgree' /\ EachHasItsReceipt'
<1>1. PICK n \in Nat :
          /\ Len(receipts) = n /\ Len(receipts') = n + 1
          /\ receipts'[n + 1] = x
          /\ \A i \in 1..n : receipts'[i] = receipts[i]
  BY Appended DEF EnactInv
<1>2. PICK m \in Nat :
          /\ OwnUpTo(n) = m /\ Len(decisions) = m /\ Len(history) = m
          /\ OwnUpTo(n + 1)' = m + 1
          /\ \A i \in 1..n : OwnUpTo(i)' = OwnUpTo(i)
  <2>1. /\ OwnUpTo(n) \in Nat /\ OwnUpTo(n + 1)' = OwnUpTo(n) + 1
        /\ \A i \in 0..n : OwnUpTo(i)' = OwnUpTo(i)
    BY <1>1, CountKept DEF EnactInv
  <2> QED
    BY <1>1, <2>1 DEF EnactInv, RecordsAgree
<1>3. /\ Len(decisions') = m + 1 /\ decisions'[m + 1] = y
      /\ \A k \in 1..m : decisions'[k] = decisions[k]
      /\ Len(history') = m + 1 /\ history'[m + 1] = z
      /\ \A k \in 1..m : history'[k] = history[k]
  BY <1>2 DEF EnactInv, TypeInv, TypeOK
<1>4. \A i \in 1..n : IsOwn(receipts[i]) => OwnUpTo(i) \in 1..m
  BY <1>1, <1>2, PlaceInRange DEF EnactInv
<1>5. ASSUME NEW i \in 1..(n + 1), IsOwn(receipts'[i])
      PROVE  /\ decisions'[OwnUpTo(i)'].decisionId = receipts'[i].decisionId
             /\ decisions'[OwnUpTo(i)'].receiptRef = receipts'[i].receiptId
             /\ decisions'[OwnUpTo(i)'].decision = receipts'[i].decision
             /\ decisions'[OwnUpTo(i)'].policyVersion = receipts'[i].policyVersion
             /\ history'[OwnUpTo(i)'].decisionId = receipts'[i].decisionId
             /\ history'[OwnUpTo(i)'].decision = receipts'[i].decision
  <2>1. CASE i = n + 1
    BY <1>1, <1>2, <1>3, <2>1
  <2>2. CASE i \in 1..n
    <3>1. receipts'[i] = receipts[i] /\ IsOwn(receipts[i])
      BY <1>1, <1>5, <2>2
    <3>2. PICK k \in 1..m : k = OwnUpTo(i) /\ k = OwnUpTo(i)'
      BY <1>2, <1>4, <2>2, <3>1
    <3>3. decisions'[k] = decisions[k] /\ history'[k] = history[k]
      BY <1>3, <3>2
    <3>4. /\ decisions[k].decisionId = receipts[i].decisionId
          /\ decisions[k].receiptRef = receipts[i].receiptId
          /\ decisions[k].decision = receipts[i].decision
          /\ decisions[k].policyVersion = receipts[i].policyVersion
          /\ history[k].decisionId = receipts[i].decisionId
          /\ history[k].decision = receipts[i].decision
      BY <1>1, <2>2, <3>1, <3>2 DEF EnactInv, RecordsAgree
    <3> QED
      BY <3>1, <3>2, <3>3, <3>4
  <2>3. i = n + 1 \/ i \in 1..n
    OBVIOUS
  <2> QED
    BY <2>1, <2>2, <2>3, Zenon
<1>6. RecordsAgree'
  BY <1>1, <1>2, <1>3, <1>5 DEF RecordsAgree, IsOwn
<1>7. ASSUME NEW k \in 1..(m + 1)
      PROVE  \E i \in 1..(n + 1) : IsOwn(receipts'[i]) /\ OwnUpTo(i)' = k
  <2>1. CASE k = m + 1
    BY <1>1, <1>2, <2>1
  <2>2. CASE k \in 1..m
    <3>1. PICK i \in 1..n : IsOwn(receipts[i]) /\ OwnUpTo(i) = k
      BY <1>1, <1>2, <2>2 DEF EnactInv, EachHasItsReceipt
    <3> QED
      BY <1>1, <1>2, <3>1
  <2>3. k = m + 1 \/ k \in 1..m
    OBVIOUS
  <2> QED
    BY <2>1, <2>2, <2>3, Zenon
<1>8. EachHasItsReceipt'
  BY <1>1, <1>2, <1>7 DEF EachHasItsReceipt, IsOwn
<1> QED
  BY <1>6, <1>8

LEMMA RecordsKept ==
    ASSUME EnactInv, NEW x \in Receipt, receipts' = Append(receipts, x), ~ IsOwn(x),
           UNCHANGED <<decisions, history>>
    PROVE  RecordsAgree' /\ EachHasItsReceipt'
<1>1. PICK n \in Nat :
          /\ Len(receipts) = n /\ Len(receipts') = n + 1
          /\ receipts'[n + 1] = x
          /\ \A i \in 1..n : receipts'[i] = receipts[i]
  BY Appended DEF EnactInv
<1>2. /\ OwnUpTo(n) \in Nat
      /\ OwnUpTo(n + 1)' = OwnUpTo(n)
      /\ \A i \in 1..n : OwnUpTo(i)' = OwnUpTo(i)
  BY <1>1, CountKept DEF EnactInv
<1>3. \A i \in 1..(n + 1) : IsOwn(receipts'[i]) =>
          i \in 1..n /\ receipts'[i] = receipts[i] /\ OwnUpTo(i)' = OwnUpTo(i)
  BY <1>1, <1>2
<1>4. RecordsAgree'
  BY <1>1, <1>2, <1>3 DEF EnactInv, RecordsAgree, IsOwn
<1>5. EachHasItsReceipt'
  BY <1>1, <1>2 DEF EnactInv, EachHasItsReceipt, IsOwn
<1> QED
  BY <1>4, <1>5

-----------------------------------------------------------------------------
(***************************************************************************)
(* Each kind of step keeps the invariant.                                  *)
(***************************************************************************)
LEMMA InitEnact == Init => EnactInv
<1> SUFFICES ASSUME Init PROVE EnactInv
  OBVIOUS
<1>1. TypeInv
  BY InitTypes
<1> USE DEF Init, StoreInit
<1>2. MintersArePast /\ ChainIntact
  BY DEF MintersArePast, ChainIntact
<1>3. QueueMatchesChain
  BY DEF QueueMatchesChain, Resolutions, OwnReceipts
<1>4. ExecutionMatchesReceipts /\ ExecutedAtMostOnce
  BY DEF ExecutionMatchesReceipts, ExecutedAtMostOnce, Allowed, Forwarded
<1>5. OwnUpTo(Len(receipts)) = 0
  BY CountType
<1>6. OwnReceiptsTell /\ RecordsAgree /\ EachHasItsReceipt
  BY <1>5 DEF OwnReceiptsTell, RecordsAgree, EachHasItsReceipt
<1> QED
  BY <1>1, <1>2, <1>3, <1>4, <1>6 DEF EnactInv

LEMMA QuietKeeps ==
    ASSUME EnactInv, TypeInv', Quiet
    PROVE  EnactInv'
<1> USE DEF EnactInv
<1>1. MintersArePast'
  <2>1. \A i \in 1..Len(receipts) : receipts[i] \in Receipt
    BY ElementOfSeq DEF TypeInv, TypeOK
  <2> QED
    BY <2>1 DEF Quiet, MintersArePast, Receipt
<1>2. ChainIntact'
  BY DEF Quiet, ChainIntact, hashReceiptBody
<1>3. QueueMatchesChain'
  BY DEF Quiet, QueueMatchesChain, Resolutions, OwnReceipts, IsOwn
<1>4. ExecutionMatchesReceipts'
  <2> SUFFICES ASSUME NEW d \in Requests
               PROVE  Forwarded(d)' <=> /\ Allowed(d)'
                                        /\ job'[d].proposal \in Routed
                                        /\ d \notin Untraced
    BY DEF ExecutionMatchesReceipts
  <2>1. /\ Allowed(d)' <=> Allowed(d)
        /\ Forwarded(d) <=> /\ Allowed(d)
                            /\ job[d].proposal \in Routed
                            /\ d \notin Untraced
        /\ Forwarded(d)' <=> Forwarded(d)
    BY DEF Quiet, Allowed, Forwarded, ExecutionMatchesReceipts
  <2>2. CASE pc[d] \in Past
    BY <2>1, <2>2 DEF Quiet
  <2>3. CASE pc[d] \notin Past
    BY <2>1, <2>3, Undecided
  <2> QED
    BY <2>2, <2>3
<1>5. ExecutedAtMostOnce'
  BY DEF Quiet, ExecutedAtMostOnce
<1>6. OwnReceiptsTell'
  BY OwnArePast DEF Quiet, OwnReceiptsTell, IsOwn
<1>7. RecordsAgree' /\ EachHasItsReceipt'
  <2>1. \A n : OwnUpTo(n)' = OwnUpTo(n)
    BY DEF Quiet, OwnUpTo, IsOwn
  <2> QED
    BY <2>1 DEF Quiet, RecordsAgree, EachHasItsReceipt, IsOwn
<1> QED
  BY <1>1, <1>2, <1>3, <1>4, <1>5, <1>6, <1>7

(* A call is appended for a decision that becomes allowed and was not.     *)
LEMMA CallsGrow ==
    ASSUME EnactInv, NEW d \in Requests, ~ Allowed(d),
           UNCHANGED job,
           \A e \in Requests \ {d} : Allowed(e)' <=> Allowed(e),
           IF Allowed(d)' /\ job[d].proposal \in Routed /\ d \notin Untraced
           THEN calls' = Append(calls, d) ELSE UNCHANGED calls
    PROVE  ExecutionMatchesReceipts' /\ ExecutedAtMostOnce'
<1> USE DEF EnactInv
<1> DEFINE forwards == Allowed(d)' /\ job[d].proposal \in Routed /\ d \notin Untraced
<1>1. calls \in Seq(Requests)
  BY DEF TypeInv, TypeOK
<1>2. \A i \in 1..Len(calls) : calls[i] # d
  BY DEF ExecutionMatchesReceipts, Forwarded
<1>3. ASSUME NEW e \in Requests \ {d}, Forwarded(e)' <=> Forwarded(e)
      PROVE  Forwarded(e)' <=> Allowed(e)' /\ job'[e].proposal \in Routed /\ e \notin Untraced
  <2>1. Forwarded(e) <=> Allowed(e) /\ job[e].proposal \in Routed /\ e \notin Untraced
    BY DEF ExecutionMatchesReceipts
  <2> QED
    BY <1>3, <2>1, Zenon
<1>4. CASE forwards
  <2>1. /\ Len(calls) \in Nat
        /\ Len(calls') = Len(calls) + 1
        /\ calls'[Len(calls) + 1] = d
        /\ \A i \in 1..Len(calls) : calls'[i] = calls[i]
    BY <1>1, <1>4
  <2>2. ExecutedAtMostOnce'
    BY <1>2, <2>1 DEF ExecutedAtMostOnce
  <2>3. Forwarded(d)'
    BY <2>1 DEF Forwarded
  <2>4. \A e \in Requests \ {d} : Forwarded(e)' <=> Forwarded(e)
    BY <2>1 DEF Forwarded
  <2> QED
    BY <1>3, <1>4, <2>2, <2>3, <2>4 DEF ExecutionMatchesReceipts
<1>5. CASE ~ forwards
  <2>1. calls' = calls
    BY <1>5
  <2>2. ExecutedAtMostOnce'
    BY <2>1 DEF ExecutedAtMostOnce
  <2>3. ~ Forwarded(d)'
    BY <1>2, <2>1 DEF Forwarded
  <2>4. \A e \in Requests \ {d} : Forwarded(e)' <=> Forwarded(e)
    BY <2>1 DEF Forwarded
  <2> QED
    BY <1>3, <1>5, <2>2, <2>3, <2>4 DEF ExecutionMatchesReceipts
<1> QED
  BY <1>4, <1>5

LEMMA CommitKeeps ==
    ASSUME EnactInv, TypeInv', NEW r \in Requests, Commit(r)
    PROVE  EnactInv'
<1> USE DEF EnactInv
<1> DEFINE x == DecisionReceipt(r)
           n == Len(receipts)
<1>1. /\ job[r] \in Job /\ job[r].effect \in Effects
      /\ pc[r] = "rendered"
  BY DEF Commit, At, TypeInv, JobsFitLabels
<1>2. /\ receipts' = Append(receipts, x)
      /\ decisions' = Append(decisions, DecisionRecord(r))
      /\ history' = Append(history, HistoryEntry(r))
      /\ UNCHANGED job
      /\ IF Holds(r) THEN escalations' = [escalations EXCEPT ![r] = "pending"]
         ELSE UNCHANGED escalations
      /\ IF Enacts(r) THEN Enact(r, r) ELSE UNCHANGED calls
  BY Zenon DEF Commit, putReceipt, putDecision, recordHistory, enqueueEscalation
<1>3. /\ x \in Receipt /\ IsOwn(x)
      /\ x.receiptId = r /\ x.decisionId = r /\ x.prevHash = lastReceiptHash
      /\ x.decision = job[r].effect /\ x.simulated = job[r].simulated
      /\ x.policyVersion = PinnedVersion(r)
  BY <1>1, LastHashType
     DEF DecisionReceipt, Receipt, PinnedVersion, Job, TypeInv, TypeOK, IsOwn
<1>4. /\ escalations[r] = "none" /\ ~ Allowed(r)
      /\ OwnReceipts(r) = {} /\ Resolutions(r) = {}
  BY <1>1, Undecided
<1>5. /\ pc'[r] \in {"answered", "enacting", "failed"}
      /\ \A q \in Requests \ {r} : pc'[q] = pc[q]
  BY CommitMoves
<1> HIDE DEF x
<1>6. MintersArePast' /\ ChainIntact'
  BY <1>1, <1>2, <1>3, <1>5, ChainGrows
<1>7. /\ n \in Nat
      /\ Len(receipts') = n + 1
      /\ receipts'[n + 1] = x
      /\ \A i \in 1..n : receipts'[i] = receipts[i]
  BY <1>2, <1>3, Appended
<1>8. RecordsAgree' /\ EachHasItsReceipt'
  <2> HIDE DEF EnactInv
  <2> QED
    BY <1>2, <1>3, RecordsGrow DEF DecisionRecord, HistoryEntry
<1>9. OwnReceiptsTell'
  <2> SUFFICES ASSUME NEW i \in 1..(n + 1), IsOwn(receipts'[i])
               PROVE  /\ job[receipts'[i].decisionId] \in Job
                      /\ receipts'[i].decision = job[receipts'[i].decisionId].effect
                      /\ receipts'[i].simulated = job[receipts'[i].decisionId].simulated
    BY <1>2, <1>7 DEF OwnReceiptsTell, IsOwn
  <2> QED
    BY <1>1, <1>3, <1>7 DEF OwnReceiptsTell
<1>10. QueueMatchesChain'
  <2> SUFFICES ASSUME NEW d \in Requests
      PROVE  /\ escalations'[d] \in {"none", "pending"} => Resolutions(d)' = {}
             /\ escalations'[d] = "none" /\ d \notin Untraced =>
                   \A i \in OwnReceipts(d)' :
                       receipts'[i].decision = "escalate" => receipts'[i].simulated
             /\ escalations'[d] # "none" => d \notin Untraced
             /\ escalations'[d] # "none" =>
                   \E i \in OwnReceipts(d)' :
                       /\ receipts'[i].decision = "escalate"
                       /\ ~ receipts'[i].simulated
                       /\ escalations'[d] # "pending" =>
                             \E k \in Resolutions(d)' :
                                 /\ i < k
                                 /\ Resolutions(d)' = {k}
                                 /\ receipts'[k].decision =
                                       IF escalations'[d] = "approved"
                                       THEN "allow" ELSE "deny"
    BY DEF QueueMatchesChain
  <2>1. /\ Resolutions(d)' = Resolutions(d)
        /\ OwnReceipts(d)' = OwnReceipts(d) \cup {i \in {n + 1} : x.receiptId = d}
    BY <1>2, <1>3, OwnAppended
  <2>2. CASE d = r
    <3>1. CASE Holds(r)
      <4>1. escalations'[r] = "pending"
        BY <1>2, <3>1 DEF TypeInv, TypeOK
      <4>2. n + 1 \in OwnReceipts(d)'
        BY <1>3, <2>1, <2>2
      <4>3. receipts'[n + 1].decision = "escalate" /\ ~ receipts'[n + 1].simulated
        BY <1>3, <1>7, <3>1 DEF Holds
      <4>4. r \notin Untraced
        BY <3>1 DEF Holds, Emitted
      <4> QED
        BY <1>4, <2>1, <2>2, <4>1, <4>2, <4>3, <4>4
    <3>2. CASE ~ Holds(r)
      <4>1. escalations'[r] = "none" /\ Resolutions(r)' = {}
        BY <1>2, <1>4, <2>1, <2>2, <3>2
      <4>2. OwnReceipts(r)' = {n + 1}
        BY <1>3, <1>4, <2>1, <2>2
      <4> QED
        BY <1>3, <1>7, <2>2, <3>2, <4>1, <4>2 DEF Holds, Emitted
    <3> QED
      BY <3>1, <3>2
  <2>3. CASE d # r
    <3>1. escalations'[d] = escalations[d]
      BY <1>2, <2>3 DEF TypeInv, TypeOK
    <3>2. OwnReceipts(d)' = OwnReceipts(d)
      BY <1>3, <2>1, <2>3
    <3>3. OwnReceipts(d) \subseteq 1..n /\ Resolutions(d) \subseteq 1..n
      BY DEF OwnReceipts, Resolutions
    <3> QED
      BY <1>7, <2>1, <3>1, <3>2, <3>3, SMTT(30) DEF QueueMatchesChain
  <2> QED
    BY <2>2, <2>3
<1>11. Enacts(r) <=> Allowed(r)' /\ r \notin Untraced
  <2>1. Allowed(r)' <=> x.decision = "allow" /\ ~ x.simulated
    BY <1>3, <1>4, <1>7 DEF Allowed
  <2> QED
    BY <1>3, <2>1, Zenon DEF Enacts, Emitted
<1>12. \A e \in Requests \ {r} : Allowed(e)' <=> Allowed(e)
  BY <1>3, <1>7 DEF Allowed
<1>13. IF Enacts(r) /\ job[r].proposal \in Routed
       THEN calls' = Append(calls, r) ELSE UNCHANGED calls
  BY <1>2, Zenon DEF Enact
<1>14. ExecutionMatchesReceipts' /\ ExecutedAtMostOnce'
  <2>1. IF Allowed(r)' /\ job[r].proposal \in Routed /\ r \notin Untraced
        THEN calls' = Append(calls, r) ELSE UNCHANGED calls
    BY <1>11, <1>13, Zenon
  <2> HIDE DEF EnactInv
  <2> QED
    BY <1>2, <1>4, <1>12, <2>1, CallsGrow
<1> QED
  BY <1>6, <1>8, <1>9, <1>10, <1>14

(* A pending decision has one receipt in the chain, its own, and that says *)
(* escalate.                                                               *)
LEMMA PendingIsUnresolved ==
    ASSUME EnactInv, NEW d \in Requests, escalations[d] = "pending"
    PROVE  /\ Resolutions(d) = {} /\ ~ Allowed(d)
           /\ \E i \in OwnReceipts(d) : /\ receipts[i].decision = "escalate"
                                        /\ ~ receipts[i].simulated
<1> USE DEF EnactInv
<1>1. /\ Resolutions(d) = {}
      /\ \E i \in OwnReceipts(d) : /\ receipts[i].decision = "escalate"
                                   /\ ~ receipts[i].simulated
  BY DEF QueueMatchesChain
<1>2. PICK i \in OwnReceipts(d) : receipts[i].decision = "escalate"
  BY <1>1
<1>3. ASSUME NEW j \in 1..Len(receipts), receipts[j].decisionId = d
      PROVE  receipts[j].decision # "allow"
  <2>1. receipts[j].receiptId = d
    BY <1>1, <1>3 DEF Resolutions, IsOwn
  <2>2. i \in 1..Len(receipts) /\ receipts[i].receiptId = d
    BY <1>2 DEF OwnReceipts
  <2>3. j = i
    BY <2>1, <2>2 DEF ChainIntact
  <2> QED
    BY <1>2, <2>3
<1> QED
  BY <1>1, <1>3 DEF Allowed

LEMMA ResolveKeeps ==
    ASSUME EnactInv, TypeInv', NEW q \in Requests, NEW d \in Requests,
           NEW approved \in BOOLEAN, ResolveEscalation(q, d, approved)
    PROVE  EnactInv'
<1> USE DEF EnactInv
<1> DEFINE x == ResolutionReceipt(q, d, approved)
           n == Len(receipts)
           status == IF approved THEN "approved" ELSE "denied"
<1>1. /\ pc[q] = "idle" /\ escalations[d] = "pending"
      /\ receipts' = Append(receipts, x)
      /\ UNCHANGED job
      /\ escalations' = [escalations EXCEPT ![d] = status]
      /\ IF approved THEN Enact(q, d) ELSE UNCHANGED calls /\ Goto(q, "answered")
  BY DEF ResolveEscalation, At, Resolvable, listEscalations, putReceipt
<1>2. /\ Resolutions(d) = {} /\ ~ Allowed(d)
      /\ \E i \in OwnReceipts(d) : /\ receipts[i].decision = "escalate"
                                   /\ ~ receipts[i].simulated
  BY <1>1, PendingIsUnresolved
<1>3. q # d
  <2>1. pc[d] \in Past
    BY <1>2 DEF MintersArePast, OwnReceipts
  <2> QED
    BY <1>1, <2>1
<1>4. /\ x \in Receipt /\ ~ IsOwn(x)
      /\ x.receiptId = q /\ x.decisionId = d /\ x.prevHash = lastReceiptHash
      /\ x.decision = (IF approved THEN "allow" ELSE "deny") /\ ~ x.simulated
  <2>1. policyVersion \in Versions
    BY DEF policyVersion, Versions, TypeInv, TypeOK
  <2> QED
    BY <1>3, <2>1, LastHashType
       DEF ResolutionReceipt, Receipt, Effects, TypeInv, TypeOK, IsOwn
<1>5. /\ pc'[q] \in {"answered", "enacting", "failed"}
      /\ \A r \in Requests \ {q} : pc'[r] = pc[r]
  BY ResolveMoves
<1> HIDE DEF x
<1>6. MintersArePast' /\ ChainIntact'
  BY <1>1, <1>4, <1>5, ChainGrows
<1>7. /\ n \in Nat
      /\ Len(receipts') = n + 1
      /\ receipts'[n + 1] = x
      /\ \A i \in 1..n : receipts'[i] = receipts[i]
  BY <1>1, <1>4, Appended
<1>8. RecordsAgree' /\ EachHasItsReceipt'
  <2>1. UNCHANGED <<decisions, history>>
    BY DEF ResolveEscalation
  <2> HIDE DEF EnactInv
  <2> QED
    BY <1>1, <1>4, <2>1, RecordsKept
<1>9. OwnReceiptsTell'
  BY <1>1, <1>4, <1>7 DEF OwnReceiptsTell, IsOwn
<1>10. d \notin Untraced
  BY <1>1 DEF QueueMatchesChain
<1>11. QueueMatchesChain'
  <2> SUFFICES ASSUME NEW e \in Requests
      PROVE  /\ escalations'[e] \in {"none", "pending"} => Resolutions(e)' = {}
             /\ escalations'[e] = "none" /\ e \notin Untraced =>
                   \A i \in OwnReceipts(e)' :
                       receipts'[i].decision = "escalate" => receipts'[i].simulated
             /\ escalations'[e] # "none" => e \notin Untraced
             /\ escalations'[e] # "none" =>
                   \E i \in OwnReceipts(e)' :
                       /\ receipts'[i].decision = "escalate"
                       /\ ~ receipts'[i].simulated
                       /\ escalations'[e] # "pending" =>
                             \E k \in Resolutions(e)' :
                                 /\ i < k
                                 /\ Resolutions(e)' = {k}
                                 /\ receipts'[k].decision =
                                       IF escalations'[e] = "approved"
                                       THEN "allow" ELSE "deny"
    BY DEF QueueMatchesChain
  <2>1. /\ OwnReceipts(e)' = OwnReceipts(e)
        /\ Resolutions(e)' = Resolutions(e) \cup {i \in {n + 1} : x.decisionId = e}
    BY <1>1, <1>4, ResolutionAppended
  <2>2. OwnReceipts(e) \subseteq 1..n /\ Resolutions(e) \subseteq 1..n
    BY DEF OwnReceipts, Resolutions
  <2>3. CASE e = d
    <3>1. escalations'[e] = status
      BY <1>1, <2>3 DEF TypeInv, TypeOK
    <3>2. Resolutions(e)' = {n + 1}
      BY <1>2, <1>4, <2>1, <2>3
    <3>3. receipts'[n + 1].decision = IF status = "approved" THEN "allow" ELSE "deny"
      BY <1>4, <1>7
    <3>4. PICK i \in OwnReceipts(e) : /\ receipts[i].decision = "escalate"
                                      /\ ~ receipts[i].simulated
      BY <1>2, <2>3
    <3>5. /\ i \in OwnReceipts(e)' /\ i < n + 1
          /\ receipts'[i].decision = "escalate" /\ ~ receipts'[i].simulated
      BY <1>7, <2>1, <2>2, <3>4
    <3>6. status \notin {"none", "pending"}
      OBVIOUS
    <3>7. e \notin Untraced
      BY <1>10, <2>3
    <3> HIDE DEF status
    <3> QED
      BY <3>1, <3>2, <3>3, <3>5, <3>6, <3>7
  <2>4. CASE e # d
    <3>1. escalations'[e] = escalations[e] /\ Resolutions(e)' = Resolutions(e)
      BY <1>1, <1>4, <2>1, <2>4 DEF TypeInv, TypeOK
    <3> QED
      BY <1>7, <2>1, <2>2, <3>1, SMTT(30) DEF QueueMatchesChain
  <2> QED
    BY <2>3, <2>4
<1>12. Allowed(d)' <=> approved
  <2>1. Allowed(d)' <=> x.decision = "allow" /\ ~ x.simulated
    BY <1>2, <1>4, <1>7 DEF Allowed
  <2> QED
    BY <1>4, <2>1
<1>13. \A e \in Requests \ {d} : Allowed(e)' <=> Allowed(e)
  BY <1>4, <1>7 DEF Allowed
<1>14. IF approved /\ job[d].proposal \in Routed
       THEN calls' = Append(calls, d) ELSE UNCHANGED calls
  BY <1>1, Zenon DEF Enact
<1>15. ExecutionMatchesReceipts' /\ ExecutedAtMostOnce'
  <2>1. IF Allowed(d)' /\ job[d].proposal \in Routed /\ d \notin Untraced
        THEN calls' = Append(calls, d) ELSE UNCHANGED calls
    BY <1>12, <1>10, <1>14, Zenon
  <2> HIDE DEF EnactInv
  <2> QED
    BY <1>1, <1>2, <1>13, <2>1, CallsGrow
<1> QED
  BY <1>6, <1>8, <1>9, <1>11, <1>15

LEMMA NextKeeps ==
    ASSUME EnactInv, [Next]_vars
    PROVE  EnactInv'
<1>1. TypeInv /\ TypeInv'
  BY NextTypes DEF EnactInv
<1>2. \/ Quiet
      \/ \E r \in Requests : Commit(r)
      \/ \E q, d \in Requests, approved \in BOOLEAN : ResolveEscalation(q, d, approved)
  BY <1>1, QuietSteps
<1>3. CASE \E q, d \in Requests, approved \in BOOLEAN : ResolveEscalation(q, d, approved)
  <2>1. PICK q \in Requests, d \in Requests, approved \in BOOLEAN :
            ResolveEscalation(q, d, approved)
    BY <1>3, Zenon
  <2> QED
    BY <1>1, <2>1, ResolveKeeps
<1> QED
  BY <1>1, <1>2, <1>3, QuietKeeps, CommitKeeps

LEMMA EnactInvariant == Spec => []EnactInv
BY InitEnact, NextKeeps, PTL DEF Spec

-----------------------------------------------------------------------------
(* Two handlers never chain a receipt to the same predecessor and none     *)
(* chains twice, however many calls interleave (decide.ts:207-210,         *)
(* gateway.ts:333-335).                                                    *)
THEOREM ChainCorrect == Spec => []ChainIntact
BY EnactInvariant, PTL DEF EnactInv

(* The queue and the chain tell one story: an escalation is pending        *)
(* exactly until one receipt resolves it (gateway.ts:300-342).             *)
THEOREM QueueCorrect == Spec => []QueueMatchesChain
BY EnactInvariant, PTL DEF EnactInv

(* Whatever executes has an unsimulated allow in the chain, and whatever   *)
(* has one and a downstream to go to executes (decide.ts:221-232,          *)
(* gateway.ts:338).                                                        *)
THEOREM ExecutionCorrect == Spec => []ExecutionMatchesReceipts
BY EnactInvariant, PTL DEF EnactInv

(* Receipts, decision records and history agree entry by entry, in one     *)
(* order, however many calls interleave (decide.ts:210-214).               *)
THEOREM RecordsCorrect == Spec => []RecordsAgree
BY EnactInvariant, PTL DEF EnactInv

(* Nothing is forwarded twice, however its resolutions race                *)
(* (gateway.ts:300-342).                                                   *)
THEOREM AtMostOnceCorrect == Spec => []ExecutedAtMostOnce
BY EnactInvariant, PTL DEF EnactInv

-----------------------------------------------------------------------------
(***************************************************************************)
(* The record only grows.                                                  *)
(***************************************************************************)
LEMMA AppendExtends ==
    ASSUME NEW S, NEW s \in Seq(S), NEW t, NEW e, t = s \/ t = Append(s, e)
    PROVE  Extends(t, s)
<1> DEFINE n == Len(s)
           T == S \cup {e}
<1>1. s \in Seq(T) /\ t \in Seq(T)
  <2>1. s \in Seq(T)
    BY SeqMonotonic
  <2> QED
    BY <2>1, AppendProperties
<1>2. n \in Nat /\ Len(t) \in Nat /\ n <= Len(t)
  BY <1>1
<1>3. \A i \in 1..n : t[i] = s[i]
  BY <1>1
<1>4. SubSeq(s, 1, n) = s
  BY SMT
<1>5. SubSeq(t, 1, n) = s
  <2>1. SubSeq(t, 1, n) \in Seq(T) /\ Len(SubSeq(t, 1, n)) = n
    BY <1>1, <1>2
  <2>2. \A i \in 1..n : SubSeq(t, 1, n)[i] = s[i]
    BY <1>1, <1>2, <1>3
  <2> QED
    BY <1>1, <2>1, <2>2, SeqEqual
<1> QED
  BY <1>2, <1>4, <1>5 DEF Extends, IsPrefix

LEMMA ConflictSteps ==
    ASSUME [Next]_vars
    PROVE  \E e : conflicts' = conflicts \/ conflicts' = Append(conflicts, e)
<1> USE DEF storeVars
<1>1. ASSUME NEW r \in Requests, Propose(r)
      PROVE  UNCHANGED conflicts
  BY <1>1 DEF Propose, Decide, DecideArbitrated, Arrive
<1>2. ASSUME NEW r \in Requests, Resume(r)
      PROVE  \E e : conflicts' = conflicts \/ conflicts' = Append(conflicts, e)
  BY <1>2, Zenon DEF Resume, Evaluate, EvaluateFails, Arbitrate, ArbitrateFails, Commit,
            CommitThrows, InstallPolicy, RefusePolicy, Fail, recordConflict
<1>3. ASSUME NEW r \in Requests, Return(r) \/ Resolve(r)
      PROVE  UNCHANGED conflicts
  BY <1>3, Zenon DEF Return, DownstreamReturns, DownstreamRejects, Fail, Resolve,
              ResolveEscalation, RefuseResolution
<1>4. ASSUME NEW r \in Requests, Reject(r)
      PROVE  UNCHANGED conflicts
  BY <1>4, RejectTells DEF RejectAtOnce
<1>5. ASSUME NEW r \in Requests, NEW bundle \in Bundles, LoadPolicy(r, bundle)
      PROVE  UNCHANGED conflicts
  BY <1>5 DEF LoadPolicy
<1>6. CASE Settle \/ UNCHANGED vars
  BY <1>6 DEF Settle, vars
<1> QED
  BY <1>1, <1>2, <1>3, <1>4, <1>5, <1>6 DEF Next, Quiescent

Growth ==
    /\ Extends(receipts', receipts)
    /\ Extends(decisions', decisions)
    /\ Extends(history', history)
    /\ Extends(conflicts', conflicts)
    /\ \A d \in Requests :
          \/ escalations[d]' = escalations[d]
          \/ escalations[d] = "none" /\ escalations[d]' = "pending"
          \/ escalations[d] = "pending" /\ escalations[d]' \in {"approved", "denied"}

LEMMA GrowthStep ==
    ASSUME EnactInv, [Next]_vars
    PROVE  Growth
<1> USE DEF Growth
<1>1. /\ receipts \in Seq(Receipt) /\ decisions \in Seq(Decision)
      /\ history \in Seq(Entry) /\ conflicts \in Seq(Conflict)
      /\ escalations \in [Requests -> EscalationStatus]
  BY DEF EnactInv, TypeInv, TypeOK
<1>2. Extends(conflicts', conflicts)
  BY <1>1, ConflictSteps, AppendExtends
<1>3. CASE Quiet
  BY <1>1, <1>2, <1>3, AppendExtends DEF Quiet
<1>4. ASSUME NEW r \in Requests, Commit(r)
      PROVE  Growth
  <2>1. /\ receipts' = Append(receipts, DecisionReceipt(r))
        /\ decisions' = Append(decisions, DecisionRecord(r))
        /\ history' = Append(history, HistoryEntry(r))
        /\ escalations' = [escalations EXCEPT ![r] = "pending"] \/ UNCHANGED escalations
    BY <1>4 DEF Commit, putReceipt, putDecision, recordHistory, enqueueEscalation
  <2>2. escalations[r] = "none"
    BY <1>4, Undecided DEF Commit, At, EnactInv
  <2>3. /\ Extends(receipts', receipts) /\ Extends(decisions', decisions)
        /\ Extends(history', history)
    BY <1>1, <2>1, AppendExtends
  <2> QED
    BY <1>1, <1>2, <2>1, <2>2, <2>3
<1>5. ASSUME NEW q \in Requests, NEW d \in Requests, NEW approved \in BOOLEAN,
             ResolveEscalation(q, d, approved)
      PROVE  Growth
  <2>1. /\ receipts' = Append(receipts, ResolutionReceipt(q, d, approved))
        /\ UNCHANGED <<decisions, history>>
        /\ escalations[d] = "pending"
        /\ escalations' = [escalations EXCEPT ![d] = IF approved THEN "approved" ELSE "denied"]
    BY <1>5 DEF ResolveEscalation, putReceipt, Resolvable, listEscalations
  <2>2. /\ Extends(receipts', receipts) /\ Extends(decisions', decisions)
        /\ Extends(history', history)
    BY <1>1, <2>1, AppendExtends
  <2> QED
    BY <1>1, <1>2, <2>1, <2>2
<1>6. TypeInv
  BY DEF EnactInv
<1>7. CASE \E q, d \in Requests, approved \in BOOLEAN : ResolveEscalation(q, d, approved)
  <2>1. PICK q \in Requests, d \in Requests, approved \in BOOLEAN :
            ResolveEscalation(q, d, approved)
    BY <1>7, Zenon
  <2> QED
    BY <1>5, <2>1
<1> QED
  BY <1>3, <1>4, <1>6, <1>7, QuietSteps

(* No step rewrites or drops what was recorded, and a resolved escalation  *)
(* is never reopened (store.ts:73-122, gateway.ts:302).                    *)
THEOREM GrowthCorrect == Spec => RecordOnlyGrows
<1>1. EnactInv /\ [Next]_vars => [Growth]_vars
  BY GrowthStep
<1> QED
  BY <1>1, EnactInvariant, PTL DEF Spec, RecordOnlyGrows, Growth

-----------------------------------------------------------------------------
(***************************************************************************)
(* Refinement: under the mapping of GatewayImplementsEnactment every step  *)
(* of every handler renders one permitted verdict, or none.                *)
(***************************************************************************)
Executions(d) == Cardinality({i \in 1..Len(calls) : calls[i] = d})

LEMMA DecidedHasDecision ==
    ASSUME NEW d
    PROVE  d \in Decided <=> getDecision(d) # {}
BY DEF Decided, getDecision

LEMMA DecisionAppended ==
    ASSUME EnactInv, NEW r \in Requests, Commit(r)
    PROVE  /\ Decided' = Decided \cup {r}
           /\ r \notin Decided
<1>1. decisions \in Seq(Decision) /\ pc[r] = "rendered"
  BY DEF EnactInv, TypeInv, TypeOK, Commit, At
<1>2. decisions' = Append(decisions, DecisionRecord(r)) /\ DecisionRecord(r).decisionId = r
  BY DEF Commit, putDecision, DecisionRecord
<1>3. /\ Len(decisions) \in Nat /\ Len(decisions') = Len(decisions) + 1
      /\ decisions'[Len(decisions) + 1].decisionId = r
      /\ \A k \in 1..Len(decisions) : decisions'[k] = decisions[k]
  BY <1>1, <1>2
<1>4. Decided' = Decided \cup {r}
  BY <1>3 DEF Decided
<1>5. r \notin Decided
  BY <1>1, DecidedArePast DEF EnactInv
<1> QED
  BY <1>4, <1>5

(* Whatever was ever held is a recorded, unsimulated escalate. *)
LEMMA HeldAreDecided ==
    ASSUME EnactInv, NEW d \in Requests, escalations[d] # "none"
    PROVE  d \in Decided /\ Holds(d)
<1>1. PICK i \in OwnReceipts(d) :
          receipts[i].decision = "escalate" /\ ~ receipts[i].simulated
  BY DEF EnactInv, QueueMatchesChain
<1>2. i \in 1..Len(receipts) /\ IsOwn(receipts[i]) /\ receipts[i].decisionId = d
  BY DEF OwnReceipts, IsOwn
<1>3. d \in Decided
  BY <1>2, OwnAreDecided DEF EnactInv
<1>4. Holds(d)
  <2>1. d \notin Untraced
    BY DEF EnactInv, QueueMatchesChain
  <2> QED
    BY <1>1, <1>2, <2>1 DEF EnactInv, OwnReceiptsTell, Holds, Emitted
<1> QED
  BY <1>3, <1>4

-----------------------------------------------------------------------------
(* One verdict on one action is a step of the abstract specification. *)
LEMMA OneVerdict ==
    ASSUME NEW d \in Requests, NEW v, NEW n \in 0..1,
           \/ Verdict(d) = "none" /\ v \in {"allowed", "denied", "simulated", "held"}
           \/ Verdict(d) = "held" /\ v \in {"approved", "refused"},
           n = 1 => v \in {"allowed", "approved"},
           Verdict(d)' = v, Executions(d)' = n,
           \A e \in Requests \ {d} : Verdict(e)' = Verdict(e) /\ Executions(e)' = Executions(e)
    PROVE  Enactments!Next
<1>1. n \in 0..(IF Enactments!Executable(v) THEN 1 ELSE 0)
  BY DEF Enactments!Executable
<1>2. [e \in Requests |-> Verdict(e)]' = [[e \in Requests |-> Verdict(e)] EXCEPT ![d] = v]
  OBVIOUS
<1>3. [e \in Requests |-> Executions(e)]' = [[e \in Requests |-> Executions(e)] EXCEPT ![d] = n]
  OBVIOUS
<1>4. v \in Enactments!Verdicts
  BY DEF Enactments!Verdicts
<1>5. Enactments!Render(d, v, n)
  BY <1>1, <1>2, <1>3 DEF Enactments!Render, Executions
<1> QED
  BY <1>4, <1>5 DEF Enactments!Next

LEMMA NoVerdict ==
    ASSUME \A e \in Requests : Verdict(e)' = Verdict(e) /\ Executions(e)' = Executions(e)
    PROVE  UNCHANGED Enactments!vars
BY DEF Enactments!vars, Executions

(* How the calls count grows: by one for d, or not at all. *)
LEMMA CallsCounted ==
    ASSUME EnactInv, NEW d \in Requests, \A i \in 1..Len(calls) : calls[i] # d,
           calls' = calls \/ calls' = Append(calls, d)
    PROVE  /\ Executions(d)' = IF calls' = calls THEN 0 ELSE 1
           /\ \A e \in Requests \ {d} : Executions(e)' = Executions(e)
<1>1. calls \in Seq(Requests)
  BY DEF EnactInv, TypeInv, TypeOK
<1>2. CASE calls' = calls
  <2>1. {i \in 1..Len(calls') : calls'[i] = d} = {}
    BY <1>2
  <2> QED
    BY <1>2, <2>1, FS_EmptySet DEF Executions
<1>3. CASE calls' # calls
  <2>1. /\ Len(calls) \in Nat /\ Len(calls') = Len(calls) + 1
        /\ calls'[Len(calls) + 1] = d
        /\ \A i \in 1..Len(calls) : calls'[i] = calls[i]
    BY <1>1, <1>3
  <2>2. {i \in 1..Len(calls') : calls'[i] = d} = {Len(calls) + 1}
    BY <2>1
  <2>3. \A e \in Requests \ {d} :
            {i \in 1..Len(calls') : calls'[i] = e} = {i \in 1..Len(calls) : calls[i] = e}
    BY <2>1
  <2> QED
    BY <1>3, <2>2, <2>3, FS_Singleton DEF Executions
<1> QED
  BY <1>2, <1>3

LEMMA VerdictKept ==
    ASSUME NEW e, (e \in Decided)' <=> e \in Decided,
           e \in Decided => job'[e] = job[e], escalations'[e] = escalations[e]
    PROVE  Verdict(e)' = Verdict(e)
<1>1. /\ e \in Decided <=> getDecision(e) # {}
      /\ (e \in Decided)' <=> getDecision(e)' # {}
  BY DEF Decided, getDecision
<1>2. CASE e \in Decided
  BY <1>1, <1>2 DEF Verdict
<1>3. CASE e \notin Decided
  BY <1>1, <1>3 DEF Verdict
<1> QED
  BY <1>2, <1>3

-----------------------------------------------------------------------------
LEMMA InitRefines == Init => Enactments!Init
<1> SUFFICES ASSUME Init PROVE Enactments!Init
  OBVIOUS
<1>1. decisions = << >> /\ calls = << >>
  BY DEF Init, StoreInit
<1>2. \A d \in Requests : Verdict(d) = "none"
  BY <1>1 DEF Verdict, getDecision
<1>3. \A d \in Requests : Cardinality({i \in 1..Len(calls) : calls[i] = d}) = 0
  <2>1. \A d \in Requests : {i \in 1..Len(calls) : calls[i] = d} = {}
    BY <1>1
  <2> QED
    BY <2>1, FS_EmptySet
<1> QED
  BY <1>2, <1>3 DEF Enactments!Init

LEMMA QuietRefines ==
    ASSUME EnactInv, Quiet
    PROVE  UNCHANGED Enactments!vars
<1>1. Decided' = Decided /\ \A e \in Decided : job'[e] = job[e]
  <2>1. Decided' = Decided
    BY DEF Quiet, Decided
  <2> QED
    BY <2>1, DecidedArePast DEF EnactInv, Quiet
<1>2. \A e \in Requests : Verdict(e)' = Verdict(e)
  BY <1>1, VerdictKept DEF Quiet
<1>3. \A e \in Requests : Executions(e)' = Executions(e)
  BY DEF Quiet, Executions
<1> QED
  BY <1>2, <1>3, NoVerdict

LEMMA CommitRefines ==
    ASSUME EnactInv, NEW r \in Requests, Commit(r)
    PROVE  Enactments!Next
<1> DEFINE v == IF job[r].simulated THEN "simulated"
                ELSE IF Holds(r) THEN "held"
                ELSE IF job[r].effect = "allow" THEN "allowed" ELSE "denied"
           n == IF calls' = calls THEN 0 ELSE 1
<1>1. Decided' = Decided \cup {r} /\ r \notin Decided
  BY DecisionAppended
<1>2. /\ pc[r] = "rendered" /\ UNCHANGED job
      /\ IF Holds(r) THEN escalations' = [escalations EXCEPT ![r] = "pending"]
         ELSE UNCHANGED escalations
      /\ calls' = calls \/ calls' = Append(calls, r)
      /\ ~ Enacts(r) => calls' = calls
  <2>1. \/ Enacts(r) /\ Enact(r, r)
        \/ ~ Enacts(r) /\ calls' = calls
    BY Zenon DEF Commit
  <2>2. calls' = calls \/ calls' = Append(calls, r)
    BY <2>1, Zenon DEF Enact
  <2> QED
    BY <2>1, <2>2 DEF Commit, At, enqueueEscalation
<1>3. escalations[r] = "none" /\ ~ Allowed(r)
  BY <1>2, Undecided DEF EnactInv
<1>4. /\ Executions(r)' = n
      /\ \A e \in Requests \ {r} : Executions(e)' = Executions(e)
  <2>1. \A i \in 1..Len(calls) : calls[i] # r
    BY <1>3 DEF EnactInv, ExecutionMatchesReceipts, Forwarded
  <2> QED
    BY <1>2, <2>1, CallsCounted DEF EnactInv
<1>5. Verdict(r) = "none"
  BY <1>1, DecidedHasDecision DEF Verdict
<1>6. Verdict(r)' = v
  <2>1. getDecision(r)' # {}
    BY <1>1 DEF Decided, getDecision
  <2>2. escalations'[r] = IF Holds(r) THEN "pending" ELSE "none"
    BY <1>2, <1>3 DEF EnactInv, TypeInv, TypeOK
  <2> QED
    BY <1>2, <2>1, <2>2 DEF Verdict, Holds
<1>7. \A e \in Requests \ {r} : Verdict(e)' = Verdict(e)
  <2> SUFFICES ASSUME NEW e \in Requests \ {r} PROVE Verdict(e)' = Verdict(e)
    OBVIOUS
  <2>1. escalations'[e] = escalations[e]
    BY <1>2 DEF EnactInv, TypeInv, TypeOK
  <2> QED
    BY <1>1, <1>2, <2>1, VerdictKept
<1>8. /\ n \in 0..1
      /\ n = 1 => v \in {"allowed", "approved"}
      /\ v \in {"allowed", "denied", "simulated", "held"}
  <2>1. Enacts(r) => ~ job[r].simulated /\ ~ Holds(r) /\ job[r].effect = "allow"
    BY DEF Enacts, Holds
  <2> QED
    BY <1>2, <2>1
<1> HIDE DEF v, n
<1> QED
  BY <1>4, <1>5, <1>6, <1>7, <1>8, OneVerdict

LEMMA ResolveRefines ==
    ASSUME EnactInv, NEW q \in Requests, NEW d \in Requests,
           NEW approved \in BOOLEAN, ResolveEscalation(q, d, approved)
    PROVE  Enactments!Next
<1> DEFINE v == IF approved THEN "approved" ELSE "refused"
           n == IF calls' = calls THEN 0 ELSE 1
<1>1. /\ UNCHANGED <<decisions, job>> /\ escalations[d] = "pending"
      /\ escalations' = [escalations EXCEPT ![d] = IF approved THEN "approved" ELSE "denied"]
      /\ calls' = calls \/ calls' = Append(calls, d)
      /\ ~ approved => calls' = calls
  <2>1. \/ approved /\ Enact(q, d)
        \/ ~ approved /\ calls' = calls
    BY Zenon DEF ResolveEscalation
  <2>2. calls' = calls \/ calls' = Append(calls, d)
    BY <2>1, Zenon DEF Enact
  <2> QED
    BY <2>1, <2>2 DEF ResolveEscalation, Resolvable, listEscalations
<1>2. Decided' = Decided /\ d \in Decided /\ Holds(d)
  BY <1>1, HeldAreDecided DEF Decided
<1>3. /\ Executions(d)' = n
      /\ \A e \in Requests \ {d} : Executions(e)' = Executions(e)
  <2>1. ~ Allowed(d)
    BY <1>1, PendingIsUnresolved DEF EnactInv
  <2>2. \A i \in 1..Len(calls) : calls[i] # d
    BY <2>1 DEF EnactInv, ExecutionMatchesReceipts, Forwarded
  <2> QED
    BY <1>1, <2>2, CallsCounted DEF EnactInv
<1>4. Verdict(d) = "held"
  <2>1. getDecision(d) # {}
    BY <1>2, DecidedHasDecision
  <2> QED
    BY <1>1, <1>2, <2>1 DEF Verdict, Holds
<1>5. Verdict(d)' = v
  <2>1. getDecision(d)' # {} /\ job'[d] = job[d]
    BY <1>1, <1>2, DecidedHasDecision DEF getDecision
  <2>2. escalations'[d] = IF approved THEN "approved" ELSE "denied"
    BY <1>1 DEF EnactInv, TypeInv, TypeOK
  <2> QED
    BY <1>2, <2>1, <2>2 DEF Verdict, Holds
<1>6. \A e \in Requests \ {d} : Verdict(e)' = Verdict(e)
  <2> SUFFICES ASSUME NEW e \in Requests \ {d} PROVE Verdict(e)' = Verdict(e)
    OBVIOUS
  <2>1. escalations'[e] = escalations[e]
    BY <1>1 DEF EnactInv, TypeInv, TypeOK
  <2> QED
    BY <1>1, <1>2, <2>1, VerdictKept
<1>7. /\ n \in 0..1
      /\ n = 1 => v \in {"allowed", "approved"}
      /\ v \in {"approved", "refused"}
  BY <1>1
<1> HIDE DEF v, n
<1> QED
  BY <1>3, <1>4, <1>5, <1>6, <1>7, OneVerdict

LEMMA StepRefines ==
    ASSUME EnactInv, [Next]_vars
    PROVE  [Enactments!Next]_Enactments!vars
<1>1. TypeInv
  BY DEF EnactInv
<1>2. CASE \E q, d \in Requests, approved \in BOOLEAN : ResolveEscalation(q, d, approved)
  <2>1. PICK q \in Requests, d \in Requests, approved \in BOOLEAN :
            ResolveEscalation(q, d, approved)
    BY <1>2, Zenon
  <2> QED
    BY <2>1, ResolveRefines
<1> QED
  BY <1>1, <1>2, QuietSteps, QuietRefines, CommitRefines

(* The gateway never does to an action what Enactment does not allow: a    *)
(* verdict first, then at most one call of a downstream, none for what was *)
(* denied or simulated, and one for what was held only after its approval  *)
(* (decide.ts:210-232, gateway.ts:300-342).                                *)
THEOREM Refinement == Spec => ImplementsEnactment
<1>1. EnactInv /\ [Next]_vars => [Enactments!Next]_Enactments!vars
  BY StepRefines
<1> QED
  BY <1>1, InitRefines, EnactInvariant, PTL
     DEF Spec, ImplementsEnactment, Enactments!Spec

=============================================================================
