--------------------------- MODULE GatewayProofs ---------------------------
(***************************************************************************)
(* The gateway's invariants, for any number of calls, proposals, bundles   *)
(* and sources, and any engine.                                            *)
(***************************************************************************)
EXTENDS GatewayProperties, ArbitrationProofs

(***************************************************************************)
(* What the program counter of a call says about its locals.               *)
(***************************************************************************)
JobsFitLabels ==
    \A r \in Requests :
        /\ pc[r] \in {"awaitPolicy", "awaitSources", "rendered"} => job[r] \in Job
        /\ pc[r] = "awaitPolicy" => job[r].load \in Loads
        /\ pc[r] = "awaitSources" => /\ job[r].arbitration \in Arbitrations
                                     /\ Arbitrable(job[r].arbitration)
        /\ pc[r] = "rendered" => job[r].effect \in Effects

(* A load that has been started has a bundle. *)
LoadsHaveBundles ==
    \A l \in Loads : loads[l].status # "none" => loads[l].bundle \in Bundles

TypeInv == TypeOK /\ JobsFitLabels /\ LoadsHaveBundles

USE NoneIsNoRequest DEF Waiting, Settled, Labels

-----------------------------------------------------------------------------
LEMMA InitTypes == Init => TypeInv
<1> SUFFICES ASSUME Init PROVE TypeInv
  OBVIOUS
<1> USE DEF Init, StoreInit, PolicyInit
<1>1. TypeOK
  BY EmptySeq DEF TypeOK, EscalationStatus, PromiseState, Loads
<1>2. JobsFitLabels /\ LoadsHaveBundles
  BY DEF JobsFitLabels, LoadsHaveBundles
<1> QED
  BY <1>1, <1>2 DEF TypeInv

LEMMA LastHashType ==
    ASSUME receipts \in Seq(Receipt)
    PROVE  lastReceiptHash \in Requests \cup {GENESIS}
<1>1. CASE receipts = << >>
  BY <1>1 DEF lastReceiptHash
<1>2. CASE receipts # << >>
  <2>1. Len(receipts) \in 1..Len(receipts)
    BY <1>2, EmptySeq
  <2>2. receipts[Len(receipts)] \in Receipt
    BY <2>1, ElementOfSeq
  <2> QED
    BY <1>2, <2>2 DEF lastReceiptHash, hashReceiptBody, Receipt
<1> QED
  BY <1>1, <1>2

(* A single evaluation answers with an effect or throws. *)
LEMMA AnswerType ==
    ASSUME TypeOK, NEW r \in Requests, job[r] \in Job, NEW b \in Bundles
    PROVE  Answer(r, b) \in Effects \cup {Throws}
<1>1. PriorRead(r) \in BOOLEAN
  BY DEF PriorRead
<1>2. job[r].proposal \in Proposals
  BY DEF Job
<1> QED
  BY <1>1, <1>2, ProposalAssumption DEF Answer

(* The resolver is given a source decision of every named source, and      *)
(* returns one of them.                                                    *)
LEMMA OutcomeType ==
    ASSUME TypeOK, NEW r \in Requests, job[r] \in Job,
           job[r].arbitration \in Arbitrations, Arbitrable(job[r].arbitration),
           \A s \in SourcesOf(job[r].arbitration) :
               loadedSources[s] = "loaded" /\ ~ SourceThrows(r, s)
    PROVE  /\ SourceDecisions(r) \in Seq(SourceDecision(DOMAIN SourceRegistry))
           /\ SourceDecisions(r) # << >>
           /\ OutcomeOf(r) \in SourceDecision(DOMAIN SourceRegistry)
<1> DEFINE a == job[r].arbitration
           ds == SourceDecisions(r)
<1>1. /\ a.sources \in Seq(STRING) /\ a.sources # << >>
      /\ a.order \in Seq(STRING)
  BY ProposalAssumption DEF ArbitrationRequest
<1>2. Len(a.sources) \in Nat \ {0}
  BY <1>1, EmptySeq
<1>3. ASSUME NEW i \in 1..Len(a.sources)
      PROVE  [source |-> a.sources[i], effect |-> Answer(r, SourceRegistry[a.sources[i]])]
                 \in SourceDecision(DOMAIN SourceRegistry)
  <2>1. a.sources[i] \in SourcesOf(a)
    BY DEF SourcesOf
  <2>2. a.sources[i] \in DOMAIN SourceRegistry
    BY <2>1 DEF Arbitrable
  <2>3. Answer(r, SourceRegistry[a.sources[i]]) \in Effects \cup {Throws}
    BY <2>2, AnswerType, PolicyAssumption
  <2>4. Answer(r, SourceRegistry[a.sources[i]]) # Throws
    BY <2>1 DEF SourceThrows
  <2> QED
    BY <2>2, <2>3, <2>4 DEF SourceDecision
<1>4. ds \in Seq(SourceDecision(DOMAIN SourceRegistry))
  <2>1. ds \in [1..Len(a.sources) -> SourceDecision(DOMAIN SourceRegistry)]
    BY <1>3 DEF SourceDecisions
  <2> QED
    BY <1>2, <2>1, SeqDef
<1>5. ds # << >>
  <2>1. DOMAIN ds = 1..Len(a.sources)
    BY DEF SourceDecisions
  <2> QED
    BY <1>2, <2>1
<1>6. OutcomeOf(r) \in SourceDecision(DOMAIN SourceRegistry)
  <2> HIDE DEF ds
  <2> QED
    BY <1>1, <1>4, <1>5, WinnerType DEF OutcomeOf, ds
<1> QED
  BY <1>4, <1>5, <1>6

-----------------------------------------------------------------------------
(***************************************************************************)
(* Every step keeps the types.                                             *)
(***************************************************************************)
LEMMA FailTypes ==
    ASSUME TypeInv, NEW r \in Requests, Fail(r)
    PROVE  TypeInv'
BY DEF TypeInv, TypeOK, JobsFitLabels, LoadsHaveBundles, Fail, Goto, storeVars, policyVars

LEMMA ArriveTypes ==
    ASSUME TypeInv, NEW r \in Requests, NEW proposal \in Proposals,
           NEW token \in Tokens, NEW simulated \in BOOLEAN,
           NEW arbitration \in Arbitrations \cup {None}, NEW load \in Loads \cup {None},
           Arrive(r, proposal, token, simulated, arbitration, load)
    PROVE  /\ job' \in [Requests -> Job \cup {None}]
           /\ job'[r] \in Job
           /\ job'[r].load = load /\ job'[r].arbitration = arbitration
           /\ \A q \in Requests \ {r} : job'[q] = job[q]
           /\ clock' \in Nat
<1> USE DEF TypeInv, TypeOK
<1>1. policyVersion \in Versions
  BY DEF policyVersion, Versions
<1>2. AdmittedContext(token) \in Requests \cup {None}
  <2>1. Decided \subseteq Requests
    <3>1. \A i \in 1..Len(decisions) : decisions[i] \in Decision
      BY ElementOfSeq
    <3> QED
      BY <3>1 DEF Decided, Decision
  <2> QED
    BY <2>1 DEF AdmittedContext
<1>3. ContextTrusted(token) \in {"absent", "trusted", "untrusted"}
  BY DEF ContextTrusted
<1> DEFINE new == [proposal |-> proposal, simulated |-> simulated,
                   arbitration |-> arbitration, policyVersion |-> policyVersion,
                   load |-> load, ts |-> clock,
                   priorContext |-> AdmittedContext(token),
                   contextTrusted |-> ContextTrusted(token),
                   effect |-> None, winner |-> None]
<1>4. new \in Job
  BY <1>1, <1>2, <1>3 DEF Job
<1>5. job' = [job EXCEPT ![r] = new] /\ clock' = clock + 1
  BY DEF Arrive
<1>6. new.load = load /\ new.arbitration = arbitration
  OBVIOUS
<1> HIDE DEF new
<1> QED
  BY <1>4, <1>5, <1>6

LEMMA DecideTypes ==
    ASSUME TypeInv, NEW r \in Requests, NEW proposal \in Proposals,
           NEW token \in Tokens, NEW simulated \in BOOLEAN,
           Decide(r, proposal, token, simulated)
    PROVE  TypeInv'
<1> USE DEF TypeInv
<1>1. HandedOut \in Loads
  BY DEF HandedOut, TypeOK, Loads
<1>2. /\ Arrive(r, proposal, token, simulated, None, HandedOut)
      /\ loadedPolicy /\ pc' = [pc EXCEPT ![r] = "awaitPolicy"]
  BY DEF Decide, Goto
<1>3. /\ job' \in [Requests -> Job \cup {None}]
      /\ job'[r] \in Job
      /\ job'[r].load = HandedOut /\ job'[r].arbitration = None
      /\ \A q \in Requests \ {r} : job'[q] = job[q]
      /\ clock' \in Nat
  BY <1>1, <1>2, ArriveTypes
<1>4. /\ UNCHANGED <<storeVars, calls, activeBundle, loadedSources>>
      /\ loaded' = HandedOut
      /\ loads' \in [Loads -> [bundle : Bundles \cup {None}, status : PromiseState]]
  BY <1>2 DEF Arrive, loadedPolicy, StartLoad, TypeOK, Loads, PromiseState
<1>5. TypeOK'
  BY <1>1, <1>2, <1>3, <1>4 DEF TypeOK, storeVars
<1>6. JobsFitLabels'
  BY <1>1, <1>2, <1>3 DEF JobsFitLabels, TypeOK
<1>7. LoadsHaveBundles'
  BY <1>2 DEF loadedPolicy, StartLoad, LoadsHaveBundles, TypeOK, Loads
<1> QED
  BY <1>5, <1>6, <1>7

LEMMA DecideArbitratedTypes ==
    ASSUME TypeInv, NEW r \in Requests, NEW proposal \in Proposals,
           NEW token \in Tokens, NEW a \in Arbitrations,
           DecideArbitrated(r, proposal, token, a)
    PROVE  TypeInv'
<1> USE DEF TypeInv
<1>1. /\ Arrive(r, proposal, token, FALSE, a, None) /\ Arbitrable(a)
      /\ loadSources(SourcesOf(a)) /\ pc' = [pc EXCEPT ![r] = "awaitSources"]
  BY DEF DecideArbitrated, Goto
<1>2. /\ job' \in [Requests -> Job \cup {None}]
      /\ job'[r] \in Job
      /\ job'[r].arbitration = a
      /\ \A q \in Requests \ {r} : job'[q] = job[q]
      /\ clock' \in Nat
  <2>1. PICK simulated \in BOOLEAN : Arrive(r, proposal, token, simulated, a, None)
    BY <1>1, Zenon
  <2>2. a \in Arbitrations \cup {None} /\ None \in Loads \cup {None}
    OBVIOUS
  <2> HIDE DEF TypeInv
  <2> QED
    BY <2>1, <2>2, ArriveTypes
<1>3. /\ UNCHANGED <<storeVars, calls, activeBundle, loaded, loads>>
      /\ loadedSources' \in [DOMAIN SourceRegistry -> PromiseState]
  BY <1>1 DEF Arrive, loadSources, TypeOK, PromiseState
<1>4. TypeOK'
  BY <1>1, <1>2, <1>3 DEF TypeOK, storeVars
<1>5. JobsFitLabels' /\ LoadsHaveBundles'
  BY <1>1, <1>2, <1>3 DEF JobsFitLabels, LoadsHaveBundles, TypeOK
<1> QED
  BY <1>4, <1>5

LEMMA RenderTypes ==
    ASSUME TypeInv, NEW r \in Requests, job[r] \in Job, NEW effect \in Effects,
           NEW winner \in DOMAIN SourceRegistry \cup {None},
           Render(r, effect, winner), UNCHANGED <<receipts, decisions, escalations, history>>,
           conflicts' \in Seq(Conflict)
    PROVE  TypeInv'
<1> USE DEF TypeInv
<1>1. /\ job' = [job EXCEPT ![r] = [job[r] EXCEPT !.effect = effect, !.winner = winner]]
      /\ pc' = [pc EXCEPT ![r] = "rendered"]
      /\ UNCHANGED <<policyVars, calls, clock>>
  BY DEF Render, Goto, TypeOK
<1>2. [job[r] EXCEPT !.effect = effect, !.winner = winner] \in Job
  BY DEF Job
<1>3. [job[r] EXCEPT !.effect = effect, !.winner = winner].effect = effect
  BY DEF Job
<1>4. TypeOK'
  BY <1>1, <1>2 DEF TypeOK, policyVars
<1>5. JobsFitLabels' /\ LoadsHaveBundles'
  BY <1>1, <1>2, <1>3 DEF JobsFitLabels, LoadsHaveBundles, TypeOK, policyVars
<1> QED
  BY <1>4, <1>5

LEMMA EvaluateTypes ==
    ASSUME TypeInv, NEW r \in Requests, Evaluate(r)
    PROVE  TypeInv'
<1> DEFINE effect == Answer(r, EvaluatedBundle(r))
<1>1. job[r] \in Job /\ job[r].load \in Loads
  BY DEF Evaluate, At, TypeInv, JobsFitLabels
<1>2. EvaluatedBundle(r) \in Bundles \cup {None}
  BY <1>1 DEF EvaluatedBundle, TypeInv, TypeOK
<1>3. EvaluatedBundle(r) \in Bundles
  BY <1>1, <1>2 DEF Evaluate, TypeInv, LoadsHaveBundles, EvaluatedBundle
<1>4. effect \in Effects
  BY <1>1, <1>3, AnswerType DEF Evaluate, TypeInv
<1>5. /\ Render(r, effect, None)
      /\ UNCHANGED <<receipts, decisions, escalations, history, conflicts>>
  BY DEF Evaluate, storeVars
<1>6. conflicts' \in Seq(Conflict)
  BY <1>5 DEF TypeInv, TypeOK
<1> HIDE DEF effect
<1> QED
  BY <1>1, <1>4, <1>5, <1>6, RenderTypes

LEMMA ArbitrateTypes ==
    ASSUME TypeInv, NEW r \in Requests, Arbitrate(r)
    PROVE  TypeInv'
<1> DEFINE outcome == OutcomeOf(r)
<1>1. /\ job[r] \in Job /\ job[r].arbitration \in Arbitrations
      /\ Arbitrable(job[r].arbitration)
  BY DEF Arbitrate, At, TypeInv, JobsFitLabels
<1>2. /\ outcome \in SourceDecision(DOMAIN SourceRegistry)
      /\ SourceDecisions(r) \in Seq(SourceDecision(DOMAIN SourceRegistry))
  BY <1>1, OutcomeType DEF Arbitrate, TypeInv
<1>3. /\ Render(r, outcome.effect, outcome.source)
      /\ UNCHANGED <<receipts, decisions, escalations, history>>
      /\ conflicts' = conflicts \/ conflicts' = Append(conflicts, ConflictRecord(r))
  BY DEF Arbitrate, recordConflict
<1>4. outcome.effect \in Effects /\ outcome.source \in DOMAIN SourceRegistry
  BY <1>2 DEF SourceDecision
<1>5. ConflictRecord(r) \in Conflict
  BY <1>1, <1>2, <1>4 DEF ConflictRecord, Conflict, Job
<1>6. conflicts' \in Seq(Conflict)
  <2>1. conflicts \in Seq(Conflict)
    BY DEF TypeInv, TypeOK
  <2> QED
    BY <1>3, <1>5, <2>1, AppendProperties
<1> HIDE DEF outcome
<1> QED
  BY <1>1, <1>3, <1>4, <1>6, RenderTypes

LEMMA RejectTells ==
    ASSUME NEW r \in Requests, Reject(r)
    PROVE  RejectAtOnce(r)
BY DEF Reject, RejectContext, RejectArbitration

LEMMA EnactTypes ==
    ASSUME TypeInv, NEW q \in Requests, NEW d \in Requests,
           \/ Enact(q, d)
           \/ UNCHANGED calls /\ (Goto(q, "answered") \/ Goto(q, "failed"))
    PROVE  /\ calls' \in Seq(Requests)
           /\ pc' \in [Requests -> Labels]
           /\ pc'[q] \in {"answered", "enacting", "failed"}
           /\ \A r \in Requests \ {q} : pc'[r] = pc[r]
<1>1. calls \in Seq(Requests) /\ pc \in [Requests -> Labels]
  BY DEF TypeInv, TypeOK
<1>2. \/ calls' = Append(calls, d) /\ pc' = [pc EXCEPT ![q] = "enacting"]
      \/ calls' = calls /\ pc' = [pc EXCEPT ![q] = "answered"]
      \/ calls' = calls /\ pc' = [pc EXCEPT ![q] = "failed"]
  <2>1. CASE Enact(q, d)
    BY <2>1, Zenon DEF Enact, Goto
  <2>2. CASE UNCHANGED calls /\ (Goto(q, "answered") \/ Goto(q, "failed"))
    BY <2>2 DEF Goto
  <2> QED
    BY <2>1, <2>2
<1> QED
  BY <1>1, <1>2

(* Where the handlers stand after a commit and after a resolution.         *)
LEMMA CommitMoves ==
    ASSUME TypeInv, NEW r \in Requests, Commit(r)
    PROVE  /\ calls' \in Seq(Requests)
           /\ pc' \in [Requests -> Labels]
           /\ pc'[r] \in {"answered", "enacting", "failed"}
           /\ \A q \in Requests \ {r} : pc'[q] = pc[q]
<1>1. \/ Enact(r, r)
      \/ UNCHANGED calls /\ (Goto(r, "answered") \/ Goto(r, "failed"))
  BY Zenon DEF Commit
<1> QED
  BY <1>1, EnactTypes

LEMMA ResolveMoves ==
    ASSUME TypeInv, NEW q \in Requests, NEW d \in Requests, NEW approved \in BOOLEAN,
           ResolveEscalation(q, d, approved)
    PROVE  /\ calls' \in Seq(Requests)
           /\ pc' \in [Requests -> Labels]
           /\ pc'[q] \in {"answered", "enacting", "failed"}
           /\ \A r \in Requests \ {q} : pc'[r] = pc[r]
<1>1. \/ Enact(q, d)
      \/ UNCHANGED calls /\ Goto(q, "answered")
  BY Zenon DEF ResolveEscalation
<1> QED
  BY <1>1, EnactTypes

LEMMA CommitReceiptType ==
    ASSUME TypeInv, NEW r \in Requests, pc[r] = "rendered"
    PROVE  DecisionReceipt(r) \in Receipt /\ IsOwn(DecisionReceipt(r))
<1>1. job[r] \in Job /\ job[r].effect \in Effects
  BY DEF TypeInv, JobsFitLabels
<1> QED
  BY <1>1, LastHashType DEF DecisionReceipt, Receipt, PinnedVersion, Job, IsOwn, TypeInv, TypeOK

LEMMA ResolutionReceiptType ==
    ASSUME TypeInv, NEW q \in Requests, NEW d \in Requests, NEW approved \in BOOLEAN
    PROVE  ResolutionReceipt(q, d, approved) \in Receipt
<1>1. policyVersion \in Versions
  BY DEF policyVersion, Versions, TypeInv, TypeOK
<1> QED
  BY <1>1, LastHashType DEF ResolutionReceipt, Receipt, Effects, TypeInv, TypeOK

LEMMA CommitTypes ==
    ASSUME TypeInv, NEW r \in Requests, Commit(r)
    PROVE  TypeInv'
<1> USE DEF TypeInv
<1>1. job[r] \in Job /\ job[r].effect \in Effects
  BY DEF Commit, At, JobsFitLabels
<1>2. /\ receipts' = Append(receipts, DecisionReceipt(r))
      /\ decisions' = Append(decisions, DecisionRecord(r))
      /\ history' = Append(history, HistoryEntry(r))
  BY DEF Commit, putReceipt, putDecision, recordHistory
<1>3. DecisionReceipt(r) \in Receipt
  BY CommitReceiptType DEF Commit, At
<1>4. DecisionRecord(r) \in Decision
  BY <1>1 DEF DecisionRecord, Decision, PinnedVersion, Job
<1>5. HistoryEntry(r) \in Entry
  BY <1>1 DEF HistoryEntry, Entry, Job
<1>6. escalations' \in [Requests -> EscalationStatus]
  BY DEF Commit, enqueueEscalation, TypeOK, EscalationStatus
<1>7. /\ calls' \in Seq(Requests)
      /\ pc' \in [Requests -> Labels]
      /\ pc'[r] \in {"answered", "enacting", "failed"}
      /\ \A q \in Requests \ {r} : pc'[q] = pc[q]
  <2> HIDE DEF TypeInv
  <2> QED
    BY CommitMoves
<1>8. UNCHANGED <<conflicts, activeBundle, loaded, loads, loadedSources, job, clock>>
  BY DEF Commit, policyVars
<1>9. /\ receipts' \in Seq(Receipt)
      /\ decisions' \in Seq(Decision)
      /\ history' \in Seq(Entry)
  BY <1>2, <1>3, <1>4, <1>5 DEF TypeOK
<1>10. TypeOK'
  BY <1>6, <1>7, <1>8, <1>9 DEF TypeOK
<1>11. JobsFitLabels' /\ LoadsHaveBundles'
  BY <1>7, <1>8 DEF JobsFitLabels, LoadsHaveBundles
<1> QED
  BY <1>10, <1>11

LEMMA ReturnTypes ==
    ASSUME TypeInv, NEW r \in Requests, Return(r)
    PROVE  TypeInv'
<1>1. CASE DownstreamReturns(r)
  BY <1>1 DEF DownstreamReturns, TypeInv, TypeOK, JobsFitLabels, LoadsHaveBundles,
              Goto, storeVars, policyVars
<1>2. CASE DownstreamRejects(r)
  BY <1>2, FailTypes DEF DownstreamRejects
<1> QED
  BY <1>1, <1>2 DEF Return

LEMMA ResolveTypes ==
    ASSUME TypeInv, NEW q \in Requests, NEW d \in Requests, NEW approved \in BOOLEAN,
           ResolveEscalation(q, d, approved)
    PROVE  TypeInv'
<1> USE DEF TypeInv
<1>1. receipts' = Append(receipts, ResolutionReceipt(q, d, approved))
  BY DEF ResolveEscalation, putReceipt
<1>2. ResolutionReceipt(q, d, approved) \in Receipt
  BY ResolutionReceiptType
<1>3. escalations' \in [Requests -> EscalationStatus]
  BY DEF ResolveEscalation, TypeOK, EscalationStatus
<1>4. /\ calls' \in Seq(Requests)
      /\ pc' \in [Requests -> Labels]
      /\ pc'[q] \in {"answered", "enacting", "failed"}
      /\ \A r \in Requests \ {q} : pc'[r] = pc[r]
  <2> HIDE DEF TypeInv
  <2> QED
    BY ResolveMoves
<1>5. /\ UNCHANGED <<decisions, history, conflicts, activeBundle, loaded, loads,
                     loadedSources, job>>
      /\ clock' = clock + 1
  BY DEF ResolveEscalation, policyVars
<1>6. receipts' \in Seq(Receipt)
  BY <1>1, <1>2 DEF TypeOK
<1>7. TypeOK'
  BY <1>3, <1>4, <1>5, <1>6 DEF TypeOK
<1>8. JobsFitLabels' /\ LoadsHaveBundles'
  BY <1>4, <1>5 DEF JobsFitLabels, LoadsHaveBundles
<1> QED
  BY <1>7, <1>8

LEMMA PolicyStepTypes ==
    ASSUME TypeInv, NEW q \in Requests,
           \/ \E bundle \in Bundles : LoadPolicy(q, bundle)
           \/ InstallPolicy(q)
    PROVE  TypeInv'
<1> USE DEF TypeInv, TypeOK, LoadsHaveBundles, Loads, PromiseState
<1>1. ASSUME NEW bundle \in Bundles, LoadPolicy(q, bundle)
      PROVE  TypeInv'
  <2>1. /\ loads' = [loads EXCEPT ![q] = [bundle |-> bundle, status |-> "pending"]]
        /\ pc' = [pc EXCEPT ![q] = "loading"]
        /\ UNCHANGED <<storeVars, activeBundle, loaded, loadedSources, job, calls, clock>>
    BY <1>1 DEF LoadPolicy, BeginReplacement, StartLoad, Goto
  <2> QED
    BY <2>1 DEF JobsFitLabels, storeVars
<1>2. CASE InstallPolicy(q)
  <2>1. /\ activeBundle' = loads[q].bundle /\ loaded' = q
        /\ pc' = [pc EXCEPT ![q] = "answered"]
        /\ UNCHANGED <<storeVars, loads, loadedSources, job, calls, clock>>
    BY <1>2 DEF InstallPolicy, SwapPolicy, Goto
  <2>2. loads[q].bundle \in Bundles
    BY <1>2 DEF InstallPolicy
  <2> QED
    BY <2>1, <2>2 DEF JobsFitLabels, storeVars
<1> QED
  BY <1>1, <1>2

LEMMA SettleTypes ==
    ASSUME TypeInv, Settle
    PROVE  TypeInv'
<1> USE DEF TypeInv, TypeOK, LoadsHaveBundles, PromiseState, Outcome
<1>1. UNCHANGED <<storeVars, activeBundle, loaded, pc, job, calls, clock>>
  BY DEF Settle, SettleLoad, SettleSource, handlerVars
<1>2. /\ loads' \in [Loads -> [bundle : Bundles \cup {None}, status : PromiseState]]
      /\ loadedSources' \in [DOMAIN SourceRegistry -> PromiseState]
      /\ LoadsHaveBundles'
  <2>1. ASSUME NEW l \in Loads, SettleLoad(l)
        PROVE  <1>2!:
    BY <2>1 DEF SettleLoad
  <2>2. ASSUME NEW s \in DOMAIN SourceRegistry, SettleSource(s)
        PROVE  <1>2!:
    BY <2>2 DEF SettleSource
  <2> QED
    BY <2>1, <2>2 DEF Settle
<1> QED
  BY <1>1, <1>2 DEF JobsFitLabels, storeVars

LEMMA NextTypes ==
    ASSUME TypeInv, [Next]_vars
    PROVE  TypeInv'
<1>1. ASSUME NEW r \in Requests, Propose(r)
      PROVE  TypeInv'
  BY <1>1, DecideTypes, DecideArbitratedTypes DEF Propose
<1>2. ASSUME NEW r \in Requests, Reject(r)
      PROVE  TypeInv'
  BY <1>2, RejectTells DEF RejectAtOnce, TypeInv, TypeOK, JobsFitLabels, LoadsHaveBundles,
              Goto, storeVars, policyVars
<1>3. ASSUME NEW r \in Requests, Resume(r)
      PROVE  TypeInv'
  <2>1. CASE Evaluate(r)
    BY <2>1, EvaluateTypes
  <2>2. CASE Arbitrate(r)
    BY <2>2, ArbitrateTypes
  <2>3. CASE Commit(r)
    BY <2>3, CommitTypes
  <2>4. CASE InstallPolicy(r)
    BY <2>4, PolicyStepTypes
  <2>5. CASE EvaluateFails(r) \/ ArbitrateFails(r) \/ CommitThrows(r) \/ RefusePolicy(r)
    BY <2>5, FailTypes DEF EvaluateFails, ArbitrateFails, CommitThrows, RefusePolicy
  <2> QED
    BY <1>3, <2>1, <2>2, <2>3, <2>4, <2>5 DEF Resume
<1>4. ASSUME NEW r \in Requests, Return(r)
      PROVE  TypeInv'
  BY <1>4, ReturnTypes
<1>5. ASSUME NEW q \in Requests, Resolve(q)
      PROVE  TypeInv'
  BY <1>5, ResolveTypes, FailTypes DEF Resolve, RefuseResolution
<1>6. ASSUME NEW q \in Requests, NEW bundle \in Bundles, LoadPolicy(q, bundle)
      PROVE  TypeInv'
  BY <1>6, PolicyStepTypes
<1>7. CASE Settle
  BY <1>7, SettleTypes
<1>8. CASE UNCHANGED vars
  BY <1>8 DEF vars, storeVars, policyVars, handlerVars, TypeInv, TypeOK,
              JobsFitLabels, LoadsHaveBundles
<1> QED
  BY <1>1, <1>2, <1>3, <1>4, <1>5, <1>6, <1>7, <1>8 DEF Next, Quiescent

LEMMA TypeInvariant == Spec => []TypeInv
<1>1. TypeInv /\ [Next]_vars => TypeInv'
  BY NextTypes
<1> QED
  BY <1>1, InitTypes, PTL DEF Spec

(***************************************************************************)
(* Every variable keeps its type, whatever calls overlap: in particular    *)
(* what decide records is always one of the three effects and pins the     *)
(* version of some bundle (decide.ts:169-208).                             *)
(***************************************************************************)
THEOREM TypeCorrect == Spec => []TypeOK
BY TypeInvariant, PTL DEF TypeInv

=============================================================================
