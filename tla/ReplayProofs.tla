---------------------------- MODULE ReplayProofs ----------------------------
(***************************************************************************)
(* The policy in force is one policy, every receipt can be replayed, and   *)
(* the context it assumed was recorded before it, for any number of calls  *)
(* and replacements of the policy.                                         *)
(*                                                                         *)
(* The effect is fixed while the handler waits and recorded later, so the  *)
(* invariant must carry the answer from the evaluation to the receipt; and *)
(* the answer depends on another call's proposal, so that call must be     *)
(* past the point where its locals change.                                 *)
(***************************************************************************)
EXTENDS EnactmentProofs

(***************************************************************************)
(* The policy in force: what readback reports, what the next decide will   *)
(* await and what waiting calls pinned agree, in whatever order loads      *)
(* settle.                                                                 *)
(***************************************************************************)
(* A call waits for a load that was begun, of a bundle of the version it   *)
(* captured when it arrived.                                               *)
WaitersKeepVersions ==
    \A r \in Requests : pc[r] = "awaitPolicy" =>
        /\ loads[job[r].load].status # "none"
        /\ VersionOf[loads[job[r].load].bundle] = job[r].policyVersion

(* Nobody has begun the load of a call not made, nor the boot load while   *)
(* no promise was handed out: neither can be waited for.                   *)
UnbegunLoads ==
    /\ \A q \in Requests : pc[q] = "idle" => loads[q].status = "none"
    /\ loaded = None => loads[BootLoad].status = "none"
    /\ loaded # None => loads[loaded].status # "none"

LoadedAreLoadable ==
    \A l \in Loads : loads[l].status = "loaded" => loads[l].bundle \in Loadable

LoadInv == /\ TypeInv
           /\ PolicyInForce
           /\ WaitersKeepVersions
           /\ UnbegunLoads
           /\ LoadedAreLoadable

(***************************************************************************)
(* A step that leaves the loads and the policy alone and makes no call     *)
(* idle or wait for a policy.                                              *)
(***************************************************************************)
PolicyQuiet ==
    /\ UNCHANGED <<activeBundle, loaded, loads>>
    /\ \A r \in Requests : pc'[r] = "idle" => pc[r] = "idle"
    /\ \A r \in Requests : pc'[r] = "awaitPolicy" =>
          pc[r] = "awaitPolicy" /\ job'[r] = job[r]

LEMMA FailIsPolicyQuiet ==
    ASSUME TypeInv, NEW r \in Requests, Fail(r)
    PROVE  PolicyQuiet
BY DEF TypeInv, TypeOK, Fail, Goto, policyVars, PolicyQuiet

LEMMA PolicySteps ==
    ASSUME TypeInv, [Next]_vars
    PROVE  \/ PolicyQuiet
           \/ \E r \in Requests, proposal \in Proposals, token \in Tokens,
                 simulated \in BOOLEAN : Decide(r, proposal, token, simulated)
           \/ \E q \in Requests, bundle \in Bundles : LoadPolicy(q, bundle)
           \/ \E q \in Requests : InstallPolicy(q)
           \/ \E l \in Loads : SettleLoad(l) /\ UNCHANGED <<storeVars, handlerVars>>
<1> USE DEF TypeInv, TypeOK
<1>1. ASSUME NEW r \in Requests, NEW proposal \in Proposals, NEW token \in Tokens,
             NEW a \in Arbitrations, DecideArbitrated(r, proposal, token, a)
      PROVE  PolicyQuiet
  <2>1. /\ UNCHANGED <<activeBundle, loaded, loads>>
        /\ pc' = [pc EXCEPT ![r] = "awaitSources"]
        /\ \E new : job' = [job EXCEPT ![r] = new]
    BY <1>1 DEF DecideArbitrated, Arrive, loadSources, Goto
  <2> QED
    BY <2>1 DEF PolicyQuiet
<1>2. ASSUME NEW r \in Requests, Reject(r)
      PROVE  PolicyQuiet
  BY <1>2, RejectTells DEF RejectAtOnce, Goto, PolicyQuiet, policyVars
<1>3. ASSUME NEW r \in Requests, Resume(r)
      PROVE  PolicyQuiet \/ InstallPolicy(r)
  <2>1. CASE Evaluate(r) \/ Arbitrate(r)
    <3>1. /\ pc' = [pc EXCEPT ![r] = "rendered"]
          /\ UNCHANGED <<activeBundle, loaded, loads>>
          /\ \E new : job' = [job EXCEPT ![r] = new]
      BY <2>1 DEF Evaluate, Arbitrate, Render, Goto, policyVars
    <3> QED
      BY <3>1 DEF PolicyQuiet
  <2>2. CASE Commit(r)
    <3>1. /\ pc'[r] \in {"answered", "enacting", "failed"}
          /\ \A q \in Requests \ {r} : pc'[q] = pc[q]
      <4> HIDE DEF TypeInv, TypeOK
      <4> QED
        BY <2>2, CommitMoves
    <3> QED
      BY <2>2, <3>1 DEF Commit, policyVars, PolicyQuiet
  <2>3. CASE EvaluateFails(r) \/ ArbitrateFails(r) \/ CommitThrows(r) \/ RefusePolicy(r)
    <3> HIDE DEF TypeInv
    <3> QED
      BY <2>3, FailIsPolicyQuiet DEF EvaluateFails, ArbitrateFails, CommitThrows, RefusePolicy
  <2> QED
    BY <1>3, <2>1, <2>2, <2>3 DEF Resume
<1>4. ASSUME NEW r \in Requests, Return(r)
      PROVE  PolicyQuiet
  BY <1>4 DEF Return, DownstreamReturns, DownstreamRejects, Fail, Goto, policyVars, PolicyQuiet
<1>5. ASSUME NEW q \in Requests, NEW d \in Requests, NEW approved \in BOOLEAN,
             ResolveEscalation(q, d, approved)
      PROVE  PolicyQuiet
  <2>1. /\ pc'[q] \in {"answered", "enacting", "failed"}
        /\ \A r \in Requests \ {q} : pc'[r] = pc[r]
    <3> HIDE DEF TypeInv, TypeOK
    <3> QED
      BY <1>5, ResolveMoves
  <2> QED
    BY <1>5, <2>1 DEF ResolveEscalation, policyVars, PolicyQuiet
<1>6. ASSUME NEW q \in Requests, NEW d \in Requests, RefuseResolution(q, d)
      PROVE  PolicyQuiet
  BY <1>6 DEF RefuseResolution, Fail, Goto, policyVars, PolicyQuiet
<1>7. ASSUME Settle
      PROVE  \/ PolicyQuiet
             \/ \E l \in Loads : SettleLoad(l) /\ UNCHANGED <<storeVars, handlerVars>>
  BY <1>7 DEF Settle, SettleSource, handlerVars, PolicyQuiet
<1>8. CASE UNCHANGED vars
  BY <1>8 DEF vars, policyVars, handlerVars, PolicyQuiet
<1> HIDE DEF TypeInv, TypeOK
<1>9. ASSUME NEW r \in Requests, Propose(r)
      PROVE  \/ PolicyQuiet
             \/ \E proposal \in Proposals, token \in Tokens, simulated \in BOOLEAN :
                   Decide(r, proposal, token, simulated)
  BY <1>1, <1>9, Zenon DEF Propose
<1>10. ASSUME NEW q \in Requests, Resolve(q)
       PROVE  PolicyQuiet
  BY <1>5, <1>6, <1>10, Zenon DEF Resolve
<1> QED
  BY <1>2, <1>3, <1>4, <1>7, <1>8, <1>9, <1>10, Zenon DEF Next, Quiescent

-----------------------------------------------------------------------------
LEMMA InitPolicy == Init => LoadInv
<1> SUFFICES ASSUME Init PROVE LoadInv
  OBVIOUS
<1>1. TypeInv
  BY InitTypes
<1> USE PolicyAssumption DEF Init, PolicyInit, Loads
<1>2. PolicyInForce /\ WaitersKeepVersions /\ UnbegunLoads /\ LoadedAreLoadable
  BY DEF PolicyInForce, WaitersKeepVersions, UnbegunLoads, LoadedAreLoadable
<1> QED
  BY <1>1, <1>2 DEF LoadInv

LEMMA PolicyQuietKeeps ==
    ASSUME LoadInv, TypeInv', PolicyQuiet
    PROVE  LoadInv'
BY DEF LoadInv, PolicyQuiet, PolicyInForce, WaitersKeepVersions, UnbegunLoads,
       LoadedAreLoadable

LEMMA DecideKeepsPolicy ==
    ASSUME LoadInv, TypeInv', NEW r \in Requests, NEW proposal \in Proposals,
           NEW token \in Tokens, NEW simulated \in BOOLEAN,
           Decide(r, proposal, token, simulated)
    PROVE  LoadInv'
<1> USE PolicyAssumption DEF LoadInv, TypeInv, TypeOK, Loads
<1>1. /\ UNCHANGED activeBundle
      /\ loaded' = HandedOut
      /\ IF loaded = None
         THEN loads' = [loads EXCEPT ![BootLoad] =
                           [bundle |-> activeBundle, status |-> "pending"]]
         ELSE UNCHANGED loads
      /\ pc' = [pc EXCEPT ![r] = "awaitPolicy"]
  BY DEF Decide, loadedPolicy, StartLoad, Goto
<1>2. /\ job'[r].load = HandedOut /\ job'[r].policyVersion = policyVersion
      /\ \A q \in Requests \ {r} : job'[q] = job[q]
  BY DEF Decide, Arrive
<1>3. /\ HandedOut \in Loads /\ HandedOut # None
      /\ loads'[HandedOut].bundle = activeBundle
      /\ loads'[HandedOut].status # "none"
      /\ HandedOut # BootLoad => loads'[HandedOut].status = "loaded"
  BY <1>1 DEF HandedOut, PolicyInForce, UnbegunLoads
<1>4. \A l \in Loads : \/ loads'[l] = loads[l]
                       \/ l = BootLoad /\ loads[l].status = "none"
                             /\ loads'[l].status = "pending"
  BY <1>1 DEF UnbegunLoads
<1>5. PolicyInForce'
  BY <1>1, <1>3 DEF PolicyInForce
<1>6. WaitersKeepVersions'
  <2> SUFFICES ASSUME NEW q \in Requests, pc'[q] = "awaitPolicy"
               PROVE  /\ loads'[job'[q].load].status # "none"
                      /\ VersionOf[loads'[job'[q].load].bundle] = job'[q].policyVersion
    BY DEF WaitersKeepVersions
  <2>1. CASE q = r
    BY <1>2, <1>3, <2>1 DEF policyVersion
  <2>2. CASE q # r
    <3>1. pc[q] = "awaitPolicy" /\ job'[q] = job[q]
      BY <1>1, <1>2, <2>2
    <3>2. /\ job[q].load \in Loads
          /\ loads[job[q].load].status # "none"
          /\ VersionOf[loads[job[q].load].bundle] = job[q].policyVersion
      BY <3>1 DEF WaitersKeepVersions, JobsFitLabels
    <3> QED
      BY <1>4, <3>1, <3>2
  <2> QED
    BY <2>1, <2>2
<1>7. UnbegunLoads'
  BY <1>1, <1>3, <1>4 DEF UnbegunLoads
<1>8. LoadedAreLoadable'
  BY <1>4 DEF LoadedAreLoadable
<1> QED
  BY <1>5, <1>6, <1>7, <1>8

LEMMA LoadKeepsPolicy ==
    ASSUME LoadInv, TypeInv', NEW q \in Requests, NEW bundle \in Bundles,
           LoadPolicy(q, bundle)
    PROVE  LoadInv'
<1> USE PolicyAssumption DEF LoadInv, TypeInv, TypeOK, Loads
<1>1. /\ pc[q] = "idle" /\ loads[q].status = "none"
      /\ UNCHANGED <<activeBundle, loaded, job>>
      /\ loads' = [loads EXCEPT ![q] = [bundle |-> bundle, status |-> "pending"]]
      /\ pc' = [pc EXCEPT ![q] = "loading"]
  BY DEF LoadPolicy, At, BeginReplacement, StartLoad, Goto, UnbegunLoads
<1>2. \A l \in Loads \ {q} : loads'[l] = loads[l]
  BY <1>1
<1>3. loads'[q].status = "pending"
  BY <1>1
<1>4. loaded # q
  BY <1>1, NoneIsNoRequest DEF UnbegunLoads
<1>5. PolicyInForce'
  BY <1>1, <1>2, <1>4 DEF PolicyInForce
<1>6. WaitersKeepVersions'
  <2> SUFFICES ASSUME NEW r \in Requests, pc[r] = "awaitPolicy"
               PROVE  /\ loads'[job[r].load].status # "none"
                      /\ VersionOf[loads'[job[r].load].bundle] = job[r].policyVersion
    BY <1>1 DEF WaitersKeepVersions
  <2>1. /\ job[r].load \in Loads
        /\ loads[job[r].load].status # "none"
        /\ VersionOf[loads[job[r].load].bundle] = job[r].policyVersion
    BY DEF WaitersKeepVersions, JobsFitLabels
  <2> QED
    BY <1>1, <1>2, <2>1
<1>7. UnbegunLoads'
  BY <1>1, <1>2, <1>4 DEF UnbegunLoads
<1>8. LoadedAreLoadable'
  BY <1>2, <1>3 DEF LoadedAreLoadable
<1> QED
  BY <1>5, <1>6, <1>7, <1>8

LEMMA InstallKeepsPolicy ==
    ASSUME LoadInv, TypeInv', NEW q \in Requests, InstallPolicy(q)
    PROVE  LoadInv'
<1> USE DEF LoadInv, TypeInv, TypeOK, Loads
<1>1. /\ activeBundle' = loads[q].bundle /\ loaded' = q
      /\ loads[q].status = "loaded"
      /\ pc' = [pc EXCEPT ![q] = "answered"]
      /\ UNCHANGED <<loads, job>>
  BY DEF InstallPolicy, SwapPolicy, Goto
<1>2. PolicyInForce' /\ LoadedAreLoadable'
  BY <1>1 DEF PolicyInForce, LoadedAreLoadable
<1>3. WaitersKeepVersions'
  BY <1>1 DEF WaitersKeepVersions
<1>4. UnbegunLoads'
  BY <1>1, NoneIsNoRequest DEF UnbegunLoads
<1> QED
  BY <1>2, <1>3, <1>4

LEMMA SettleKeepsPolicy ==
    ASSUME LoadInv, TypeInv', NEW l \in Loads, SettleLoad(l),
           UNCHANGED <<storeVars, handlerVars>>
    PROVE  LoadInv'
<1> USE DEF LoadInv, TypeInv, TypeOK
<1>1. /\ UNCHANGED <<activeBundle, loaded, pc, job>>
      /\ loads[l].status = "pending"
      /\ loads' = [loads EXCEPT ![l].status = Outcome(loads[l].bundle)]
  BY DEF SettleLoad, handlerVars
<1>2. /\ \A k \in Loads : loads'[k].bundle = loads[k].bundle
      /\ \A k \in Loads \ {l} : loads'[k] = loads[k]
      /\ loads'[l].status = Outcome(loads[l].bundle)
  BY <1>1
<1>3. /\ Outcome(loads[l].bundle) \in {"loaded", "failed"}
      /\ Outcome(loads[l].bundle) = "loaded" => loads[l].bundle \in Loadable
  BY DEF Outcome
<1>4. PolicyInForce'
  BY <1>1, <1>2 DEF PolicyInForce
<1>5. WaitersKeepVersions'
  BY <1>1, <1>2, <1>3 DEF WaitersKeepVersions, JobsFitLabels
<1>6. UnbegunLoads'
  BY <1>1, <1>2, <1>3, PolicyAssumption DEF UnbegunLoads, Loads
<1>7. LoadedAreLoadable'
  BY <1>2, <1>3 DEF LoadedAreLoadable
<1> QED
  BY <1>4, <1>5, <1>6, <1>7

LEMMA NextKeepsPolicy ==
    ASSUME LoadInv, [Next]_vars
    PROVE  LoadInv'
<1>1. TypeInv /\ TypeInv'
  BY NextTypes DEF LoadInv
<1>2. CASE \E r \in Requests, proposal \in Proposals, token \in Tokens,
              simulated \in BOOLEAN : Decide(r, proposal, token, simulated)
  <2>1. PICK r \in Requests, proposal \in Proposals, token \in Tokens,
             simulated \in BOOLEAN : Decide(r, proposal, token, simulated)
    BY <1>2, Zenon
  <2> QED
    BY <1>1, <2>1, DecideKeepsPolicy
<1> QED
  BY <1>1, <1>2, PolicySteps, PolicyQuietKeeps, LoadKeepsPolicy, InstallKeepsPolicy,
     SettleKeepsPolicy

LEMMA PolicyInvariant == Spec => []LoadInv
BY InitPolicy, NextKeepsPolicy, PTL DEF Spec

-----------------------------------------------------------------------------
(* Readback and the next decide never disagree about the policy in force,  *)
(* and a replacement in force has loaded, however loads overlap            *)
(* (gateway.ts:194-197, 378-386).                                          *)
THEOREM PolicyInForceCorrect == Spec => []PolicyInForce
BY PolicyInvariant, PTL DEF LoadInv

(* Only the call that loaded a bundle makes it active, and only if it      *)
(* loads (gateway.ts:378-386).                                             *)
THEOREM PolicyMovesCorrect == Spec => PolicyMovesByLoading
<1>1. ASSUME LoadInv, [Next]_vars
      PROVE  [activeBundle' # activeBundle =>
                \E q \in Requests : /\ pc[q] = "loading" /\ pc'[q] = "answered"
                                    /\ loads[q].bundle = activeBundle'
                                    /\ activeBundle' \in Loadable]_vars
  <2>1. CASE \E q \in Requests : InstallPolicy(q)
    <3>1. PICK q \in Requests : InstallPolicy(q)
      BY <2>1
    <3>2. /\ pc[q] = "loading" /\ pc'[q] = "answered"
          /\ loads[q].bundle = activeBundle' /\ loads[q].status = "loaded"
      BY <1>1, <3>1 DEF InstallPolicy, At, Goto, SwapPolicy, LoadInv, TypeInv, TypeOK
    <3>3. activeBundle' \in Loadable
      BY <1>1, <3>2 DEF LoadInv, LoadedAreLoadable, Loads
    <3> QED
      BY <3>2, <3>3
  <2>2. CASE UNCHANGED activeBundle
    BY <2>2
  <2>3. \/ UNCHANGED activeBundle
        \/ \E q \in Requests : InstallPolicy(q)
    <3>1. \/ PolicyQuiet
          \/ \E r \in Requests, proposal \in Proposals, token \in Tokens,
                simulated \in BOOLEAN : Decide(r, proposal, token, simulated)
          \/ \E q \in Requests, bundle \in Bundles : LoadPolicy(q, bundle)
          \/ \E q \in Requests : InstallPolicy(q)
          \/ \E l \in Loads : SettleLoad(l) /\ UNCHANGED <<storeVars, handlerVars>>
      BY <1>1, PolicySteps DEF LoadInv
    <3> QED
      BY <3>1, Zenon DEF PolicyQuiet, Decide, loadedPolicy, LoadPolicy, BeginReplacement,
                         SettleLoad
  <2> QED
    BY <2>1, <2>2, <2>3
<1> QED
  BY <1>1, PolicyInvariant, PTL DEF Spec, PolicyMovesByLoading

-----------------------------------------------------------------------------
(***************************************************************************)
(* Replay.                                                                 *)
(***************************************************************************)
Deciding == {"awaitPolicy", "awaitSources", "rendered"}

(* A call carries a decision already recorded, or reports no trust. *)
JobsKnowContext ==
    \A r \in Requests : pc[r] \in Deciding =>
        /\ job[r].priorContext # None => job[r].priorContext \in Decided
        /\ job[r].contextTrusted = "trusted" <=> job[r].priorContext # None

(* What an unarbitrated call is about to record is the engine's answer     *)
(* under a bundle of the version it captured.                              *)
RenderedAnswers ==
    \A r \in Requests : pc[r] = "rendered" /\ job[r].arbitration = None =>
        \E b \in BundlesNamed(job[r].policyVersion) : job[r].effect = Answer(r, b)

ReplayInv == /\ EnactInv
             /\ LoadInv
             /\ JobsKnowContext
             /\ ContextComesEarlier
             /\ RenderedAnswers
             /\ ReplayFaithful

USE NoneIsNoRequest DEF Deciding, Past

-----------------------------------------------------------------------------
LEMMA PriorsArePast ==
    ASSUME EnactInv, ContextComesEarlier, NEW i \in 1..Len(receipts),
           IsOwn(receipts[i]), receipts[i].priorContext # None
    PROVE  receipts[i].priorContext \in Requests /\ pc[receipts[i].priorContext] \in Past
<1>1. Len(receipts) \in Nat
  BY DEF EnactInv, TypeInv, TypeOK
<1>2. PICK j \in 1..(i - 1) :
          IsOwn(receipts[j]) /\ receipts[j].decisionId = receipts[i].priorContext
  BY DEF ContextComesEarlier
<1>3. j \in 1..Len(receipts)
  BY <1>1
<1> QED
  BY <1>2, <1>3, OwnArePast DEF EnactInv

(* While the chain stands still, and so do the locals of settled calls,    *)
(* every receipt stays replayable.                                         *)
LEMMA ReplayKept ==
    ASSUME EnactInv, ContextComesEarlier, ReplayFaithful, UNCHANGED receipts,
           \A r \in Requests : pc[r] \in Past => job'[r] = job[r]
    PROVE  ReplayFaithful'
<1> SUFFICES ASSUME NEW i \in 1..Len(receipts), IsOwn(receipts[i]),
                    job'[receipts[i].decisionId].arbitration = None
             PROVE  \E b \in BundlesNamed(receipts[i].policyVersion) :
                        receipts[i].decision =
                            EngineEffect(b, job'[receipts[i].decisionId].proposal,
                                /\ receipts[i].priorContext # None
                                /\ job'[receipts[i].priorContext].proposal \in Reads)
  BY Zenon DEF ReplayFaithful, IsOwn
<1>1. job'[receipts[i].decisionId] = job[receipts[i].decisionId]
  BY OwnArePast DEF EnactInv
<1>2. receipts[i].priorContext # None =>
          job'[receipts[i].priorContext] = job[receipts[i].priorContext]
  BY PriorsArePast
<1>3. (receipts[i].priorContext # None /\ job'[receipts[i].priorContext].proposal \in Reads)
       = (receipts[i].priorContext # None /\ job[receipts[i].priorContext].proposal \in Reads)
  BY <1>2
<1>4. \E b \in BundlesNamed(receipts[i].policyVersion) :
          receipts[i].decision =
              EngineEffect(b, job[receipts[i].decisionId].proposal,
                  /\ receipts[i].priorContext # None
                  /\ job[receipts[i].priorContext].proposal \in Reads)
  BY <1>1, Zenon DEF ReplayFaithful
<1> QED
  BY <1>1, <1>3, <1>4, Zenon

(* What a call was answered stays its answer. *)
LEMMA AnswerKept ==
    ASSUME EnactInv, JobsKnowContext,
           NEW r \in Requests, pc[r] \in Deciding, job'[r] = job[r],
           \A q \in Requests : pc[q] \in Past => job'[q] = job[q],
           NEW b
    PROVE  Answer(r, b)' = Answer(r, b)
<1>1. job[r].priorContext # None =>
          job'[job[r].priorContext] = job[job[r].priorContext]
  BY DecidedArePast DEF JobsKnowContext, EnactInv
<1>2. PriorRead(r)' = PriorRead(r)
  BY <1>1 DEF PriorRead
<1> QED
  BY <1>2, Zenon DEF Answer

-----------------------------------------------------------------------------
(***************************************************************************)
(* A step that neither records nor renders, and lets no call arrive.       *)
(***************************************************************************)
RecordQuiet ==
    /\ UNCHANGED <<receipts, decisions>>
    /\ \A r \in Requests : pc'[r] \in Deciding => pc'[r] = pc[r] /\ job'[r] = job[r]
    /\ \A r \in Requests : pc[r] \in Past => job'[r] = job[r]

Arrives ==
    \E r \in Requests, proposal \in Proposals, token \in Tokens, simulated \in BOOLEAN,
       arbitration \in Arbitrations \cup {None}, load \in Loads \cup {None} :
        /\ pc[r] = "idle"
        /\ Arrive(r, proposal, token, simulated, arbitration, load)
        /\ \/ arbitration = None /\ Goto(r, "awaitPolicy")
           \/ Goto(r, "awaitSources")

LEMMA FailIsRecordQuiet ==
    ASSUME TypeInv, NEW r \in Requests, Fail(r)
    PROVE  RecordQuiet
BY DEF TypeInv, TypeOK, Fail, Goto, storeVars, RecordQuiet

LEMMA ArrivalSteps ==
    ASSUME TypeInv, NEW r \in Requests, Propose(r)
    PROVE  Arrives
<1>1. ASSUME NEW proposal \in Proposals, NEW token \in Tokens, NEW simulated \in BOOLEAN,
             Decide(r, proposal, token, simulated)
      PROVE  Arrives
  <2>1. HandedOut \in Loads \cup {None} /\ None \in Arbitrations \cup {None}
    BY DEF HandedOut, Loads, TypeInv, TypeOK
  <2>2. /\ pc[r] = "idle" /\ Goto(r, "awaitPolicy")
        /\ Arrive(r, proposal, token, simulated, None, HandedOut)
    BY <1>1 DEF Decide, At
  <2> QED
    BY <2>1, <2>2, Zenon DEF Arrives
<1>2. ASSUME NEW proposal \in Proposals, NEW token \in Tokens, NEW a \in Arbitrations,
             DecideArbitrated(r, proposal, token, a)
      PROVE  Arrives
  <2>1. FALSE \in BOOLEAN /\ a \in Arbitrations \cup {None} /\ None \in Loads \cup {None}
    OBVIOUS
  <2>2. /\ pc[r] = "idle" /\ Goto(r, "awaitSources")
        /\ Arrive(r, proposal, token, FALSE, a, None)
    BY <1>2 DEF DecideArbitrated, At
  <2> QED
    BY <2>1, <2>2, Zenon DEF Arrives
<1> QED
  BY <1>1, <1>2, Zenon DEF Propose

LEMMA RecordSteps ==
    ASSUME TypeInv, [Next]_vars
    PROVE  \/ RecordQuiet
           \/ Arrives
           \/ \E r \in Requests : Evaluate(r) \/ Arbitrate(r) \/ Commit(r)
           \/ \E q, d \in Requests, approved \in BOOLEAN : ResolveEscalation(q, d, approved)
<1> USE DEF TypeInv, TypeOK
<1>1. ASSUME NEW r \in Requests, Reject(r)
      PROVE  RecordQuiet
  BY <1>1, RejectTells DEF RejectAtOnce, Goto, RecordQuiet, storeVars
<1>2. ASSUME NEW r \in Requests, Resume(r)
      PROVE  RecordQuiet \/ Evaluate(r) \/ Arbitrate(r) \/ Commit(r)
  <2>1. CASE InstallPolicy(r)
    BY <2>1 DEF InstallPolicy, Goto, storeVars, RecordQuiet
  <2>2. CASE EvaluateFails(r) \/ ArbitrateFails(r) \/ CommitThrows(r) \/ RefusePolicy(r)
    <3> HIDE DEF TypeInv
    <3> QED
      BY <2>2, FailIsRecordQuiet DEF EvaluateFails, ArbitrateFails, CommitThrows, RefusePolicy
  <2> QED
    BY <1>2, <2>1, <2>2 DEF Resume
<1>3. ASSUME NEW r \in Requests, Return(r)
      PROVE  RecordQuiet
  BY <1>3 DEF Return, DownstreamReturns, DownstreamRejects, Fail, Goto, storeVars, RecordQuiet
<1>4. ASSUME NEW q \in Requests, NEW d \in Requests, RefuseResolution(q, d)
      PROVE  RecordQuiet
  BY <1>4 DEF RefuseResolution, Fail, Goto, storeVars, RecordQuiet
<1>5. ASSUME NEW q \in Requests, NEW bundle \in Bundles, LoadPolicy(q, bundle)
      PROVE  RecordQuiet
  BY <1>5 DEF LoadPolicy, Goto, storeVars, RecordQuiet
<1>6. CASE Settle
  BY <1>6 DEF Settle, storeVars, handlerVars, RecordQuiet
<1>7. CASE UNCHANGED vars
  BY <1>7 DEF vars, storeVars, handlerVars, RecordQuiet
<1> HIDE DEF TypeInv, TypeOK
<1>8. ASSUME NEW q \in Requests, Resolve(q)
      PROVE  \/ RecordQuiet
             \/ \E d \in Requests, approved \in BOOLEAN : ResolveEscalation(q, d, approved)
  BY <1>4, <1>8, Zenon DEF Resolve
<1>9. ASSUME NEW r \in Requests, Propose(r)
      PROVE  Arrives
  BY <1>9, ArrivalSteps
<1> QED
  BY <1>1, <1>2, <1>3, <1>5, <1>6, <1>7, <1>8, <1>9, Zenon DEF Next, Quiescent

-----------------------------------------------------------------------------
(***************************************************************************)
(* The invariant's own parts, EnactInv and LoadInv being kept already.     *)
(***************************************************************************)
ReplayParts == /\ JobsKnowContext
               /\ ContextComesEarlier
               /\ RenderedAnswers
               /\ ReplayFaithful

(* What leaves the chain and the decisions alone leaves these two alone.   *)
LEMMA ContextKept ==
    ASSUME ContextComesEarlier, UNCHANGED <<receipts, decisions>>
    PROVE  ContextComesEarlier' /\ Decided' = Decided
BY DEF ContextComesEarlier, getDecision, IsOwn, Decided

LEMMA RecordQuietKeeps ==
    ASSUME ReplayInv, RecordQuiet
    PROVE  ReplayParts'
<1> USE DEF ReplayInv
<1>1. /\ UNCHANGED <<receipts, decisions>>
      /\ \A r \in Requests : pc'[r] \in Deciding => pc'[r] = pc[r] /\ job'[r] = job[r]
      /\ \A r \in Requests : pc[r] \in Past => job'[r] = job[r]
  BY DEF RecordQuiet
<1>2. ContextComesEarlier' /\ Decided' = Decided
  BY <1>1, ContextKept
<1>3. JobsKnowContext'
  BY <1>1, <1>2 DEF JobsKnowContext
<1>4. RenderedAnswers'
  <2> SUFFICES ASSUME NEW r \in Requests, pc'[r] = "rendered",
                      job'[r].arbitration = None
               PROVE  \E b \in BundlesNamed(job'[r].policyVersion) :
                          job'[r].effect = Answer(r, b)'
    BY Zenon DEF RenderedAnswers, BundlesNamed
  <2>1. pc[r] = "rendered" /\ job'[r] = job[r]
    BY <1>1
  <2>2. PICK b \in BundlesNamed(job[r].policyVersion) : job[r].effect = Answer(r, b)
    BY <2>1 DEF RenderedAnswers
  <2>3. Answer(r, b)' = Answer(r, b)
    BY <1>1, <2>1, AnswerKept
  <2> QED
    BY <2>1, <2>2, <2>3
<1>5. ReplayFaithful'
  BY <1>1, ReplayKept
<1> QED
  BY <1>2, <1>3, <1>4, <1>5 DEF ReplayParts

LEMMA ArrivesKeeps ==
    ASSUME ReplayInv, Arrives
    PROVE  ReplayParts'
<1> USE DEF ReplayInv
<1>1. PICK r \in Requests, proposal \in Proposals, token \in Tokens,
           simulated \in BOOLEAN, arbitration \in Arbitrations \cup {None},
           load \in Loads \cup {None} :
               /\ pc[r] = "idle"
               /\ Arrive(r, proposal, token, simulated, arbitration, load)
               /\ \/ arbitration = None /\ Goto(r, "awaitPolicy")
                  \/ Goto(r, "awaitSources")
  BY Zenon DEF Arrives
<1>2. /\ UNCHANGED <<receipts, decisions>>
      /\ job'[r].priorContext = AdmittedContext(token)
      /\ job'[r].contextTrusted = ContextTrusted(token)
      /\ \A q \in Requests \ {r} : job'[q] = job[q]
  BY <1>1 DEF Arrive, storeVars, EnactInv, TypeInv, TypeOK
<1>3. /\ pc'[r] \in {"awaitPolicy", "awaitSources"}
      /\ \A q \in Requests \ {r} : pc'[q] = pc[q]
  BY <1>1 DEF Goto, EnactInv, TypeInv, TypeOK
<1>4. ContextComesEarlier' /\ Decided' = Decided
  BY <1>2, ContextKept
<1>5. \A q \in Requests : pc[q] \in Past => job'[q] = job[q]
  BY <1>1, <1>2
<1>6. JobsKnowContext'
  <2>1. None \notin Decided
    BY DecidedArePast DEF EnactInv
  <2>2. /\ AdmittedContext(token) # None => AdmittedContext(token) \in Decided
        /\ ContextTrusted(token) = "trusted" <=> AdmittedContext(token) # None
    BY <2>1 DEF AdmittedContext, ContextTrusted
  <2> QED
    BY <1>2, <1>3, <1>4, <2>2 DEF JobsKnowContext
<1>7. RenderedAnswers'
  <2> SUFFICES ASSUME NEW q \in Requests, pc'[q] = "rendered",
                      job'[q].arbitration = None
               PROVE  \E b \in BundlesNamed(job'[q].policyVersion) :
                          job'[q].effect = Answer(q, b)'
    BY Zenon DEF RenderedAnswers, BundlesNamed
  <2>1. pc[q] = "rendered" /\ job'[q] = job[q]
    BY <1>2, <1>3
  <2>2. PICK b \in BundlesNamed(job[q].policyVersion) : job[q].effect = Answer(q, b)
    BY <2>1 DEF RenderedAnswers
  <2>3. Answer(q, b)' = Answer(q, b)
    BY <1>5, <2>1, AnswerKept
  <2> QED
    BY <2>1, <2>2, <2>3
<1>8. ReplayFaithful'
  BY <1>2, <1>5, ReplayKept
<1> QED
  BY <1>4, <1>6, <1>7, <1>8 DEF ReplayParts

LEMMA RenderKeeps ==
    ASSUME ReplayInv, NEW r \in Requests, pc[r] \in {"awaitPolicy", "awaitSources"},
           NEW effect, NEW winner, Render(r, effect, winner),
           UNCHANGED <<receipts, decisions>>,
           job[r].arbitration = None =>
               \E b \in BundlesNamed(job[r].policyVersion) : effect = Answer(r, b)
    PROVE  ReplayParts'
<1> USE DEF ReplayInv
<1>1. job[r] \in Job
  BY DEF EnactInv, TypeInv, JobsFitLabels
<1>2. /\ job' = [job EXCEPT ![r] = [job[r] EXCEPT !.effect = effect, !.winner = winner]]
      /\ pc' = [pc EXCEPT ![r] = "rendered"]
  BY DEF Render, Goto, EnactInv, TypeInv, TypeOK
<1>3. /\ job'[r].effect = effect
      /\ job'[r].proposal = job[r].proposal
      /\ job'[r].arbitration = job[r].arbitration
      /\ job'[r].policyVersion = job[r].policyVersion
      /\ job'[r].priorContext = job[r].priorContext
      /\ job'[r].contextTrusted = job[r].contextTrusted
      /\ \A q \in Requests \ {r} : job'[q] = job[q]
  BY <1>1, <1>2 DEF Job, EnactInv, TypeInv, TypeOK
<1>4. /\ pc'[r] = "rendered"
      /\ \A q \in Requests \ {r} : pc'[q] = pc[q]
  BY <1>2 DEF EnactInv, TypeInv, TypeOK
<1>5. ContextComesEarlier' /\ Decided' = Decided
  BY ContextKept
<1>6. \A q \in Requests : pc[q] \in Past => job'[q] = job[q]
  BY <1>3
<1>7. JobsKnowContext'
  BY <1>3, <1>4, <1>5 DEF JobsKnowContext
<1>8. ASSUME NEW b
      PROVE  Answer(r, b)' = Answer(r, b)
  <2>1. job[r].priorContext # None =>
            job'[job[r].priorContext] = job[job[r].priorContext]
    BY <1>6, DecidedArePast DEF JobsKnowContext, EnactInv
  <2>2. PriorRead(r)' = PriorRead(r)
    BY <1>3, <2>1 DEF PriorRead
  <2> QED
    BY <1>3, <2>2, Zenon DEF Answer
<1>9. RenderedAnswers'
  <2> SUFFICES ASSUME NEW q \in Requests, pc'[q] = "rendered",
                      job'[q].arbitration = None
               PROVE  \E b \in BundlesNamed(job'[q].policyVersion) :
                          job'[q].effect = Answer(q, b)'
    BY Zenon DEF RenderedAnswers, BundlesNamed
  <2>1. CASE q = r
    <3>1. PICK b \in BundlesNamed(job[r].policyVersion) : effect = Answer(r, b)
      BY <1>3, <2>1
    <3>2. Answer(r, b)' = Answer(r, b)
      BY <1>8
    <3> QED
      BY <1>3, <2>1, <3>1, <3>2
  <2>2. CASE q # r
    <3>1. pc[q] = "rendered" /\ job'[q] = job[q]
      BY <1>3, <1>4, <2>2
    <3>2. PICK b \in BundlesNamed(job[q].policyVersion) : job[q].effect = Answer(q, b)
      BY <3>1 DEF RenderedAnswers
    <3>3. Answer(q, b)' = Answer(q, b)
      BY <1>6, <3>1, AnswerKept
    <3> QED
      BY <3>1, <3>2, <3>3
  <2> QED
    BY <2>1, <2>2
<1>10. ReplayFaithful'
  BY <1>6, ReplayKept
<1> QED
  BY <1>5, <1>7, <1>9, <1>10 DEF ReplayParts

LEMMA EvaluateKeeps ==
    ASSUME ReplayInv, NEW r \in Requests, Evaluate(r)
    PROVE  ReplayParts'
<1> DEFINE b == EvaluatedBundle(r)
<1>1. /\ pc[r] = "awaitPolicy" /\ loads[job[r].load].status = "loaded"
      /\ Render(r, Answer(r, b), None)
      /\ UNCHANGED <<receipts, decisions>>
  BY DEF Evaluate, At, storeVars
<1>2. job[r].load \in Loads
  BY <1>1 DEF ReplayInv, EnactInv, TypeInv, JobsFitLabels
<1>3. b \in BundlesNamed(job[r].policyVersion)
  <2>1. b \in Bundles
    BY <1>1, <1>2 DEF EvaluatedBundle, ReplayInv, EnactInv, TypeInv, LoadsHaveBundles
  <2>2. VersionOf[b] = job[r].policyVersion
    BY <1>1 DEF EvaluatedBundle, ReplayInv, LoadInv, WaitersKeepVersions
  <2> QED
    BY <2>1, <2>2 DEF BundlesNamed
<1> HIDE DEF b
<1> QED
  BY <1>1, <1>3, RenderKeeps

LEMMA ArbitrateKeeps ==
    ASSUME ReplayInv, NEW r \in Requests, Arbitrate(r)
    PROVE  ReplayParts'
<1>1. /\ pc[r] = "awaitSources"
      /\ Render(r, OutcomeOf(r).effect, OutcomeOf(r).source)
      /\ UNCHANGED <<receipts, decisions>>
  BY DEF Arbitrate, At
<1>2. job[r].arbitration # None
  BY <1>1, ProposalAssumption DEF ReplayInv, EnactInv, TypeInv, JobsFitLabels
<1> QED
  BY <1>1, <1>2, RenderKeeps

LEMMA CommitKeepsReplay ==
    ASSUME ReplayInv, NEW r \in Requests, Commit(r)
    PROVE  ReplayParts'
<1> USE DEF ReplayInv
<1> DEFINE x == DecisionReceipt(r)
           y == DecisionRecord(r)
           n == Len(receipts)
           m == Len(decisions)
<1>1. /\ pc[r] = "rendered"
      /\ receipts' = Append(receipts, x)
      /\ decisions' = Append(decisions, y)
      /\ UNCHANGED job
  BY DEF Commit, At, putReceipt, putDecision
<1>2. /\ IsOwn(x) /\ x.decisionId = r
      /\ x.decision = job[r].effect /\ x.policyVersion = job[r].policyVersion
      /\ x.priorContext = job[r].priorContext
      /\ y.decisionId = r /\ y.contextTrusted = job[r].contextTrusted
  BY DEF DecisionReceipt, DecisionRecord, PinnedVersion, IsOwn
<1>3. /\ pc'[r] \in Past
      /\ \A q \in Requests \ {r} : pc'[q] = pc[q]
  <2>1. TypeInv
    BY DEF EnactInv
  <2> QED
    BY <2>1, CommitMoves
<1> HIDE DEF x, y
<1>4. /\ n \in Nat /\ Len(receipts') = n + 1
      /\ receipts'[n + 1] = x
      /\ \A i \in 1..n : receipts'[i] = receipts[i]
  BY <1>1 DEF EnactInv, TypeInv, TypeOK
<1>5. /\ m \in Nat /\ Len(decisions') = m + 1
      /\ decisions'[m + 1] = y
      /\ \A k \in 1..m : decisions'[k] = decisions[k]
  BY <1>1 DEF EnactInv, TypeInv, TypeOK
<1>6. \A k \in 1..m : decisions[k].decisionId # r
  BY <1>1, DecidedArePast DEF Decided, EnactInv
<1>7. \A i \in 1..n : IsOwn(receipts[i]) => receipts[i].decisionId # r
  BY <1>1, OwnArePast DEF EnactInv
<1>8. Decided \subseteq Decided'
  BY <1>5 DEF Decided
<1> HIDE DEF n, m
<1>9. JobsKnowContext'
  BY <1>1, <1>3, <1>8 DEF JobsKnowContext
<1>10. ContextComesEarlier'
  <2> SUFFICES ASSUME NEW i \in 1..(n + 1), IsOwn(receipts'[i])
      PROVE  /\ receipts'[i].priorContext # None =>
                    \E j \in 1..(i - 1) :
                        /\ IsOwn(receipts'[j])
                        /\ receipts'[j].decisionId = receipts'[i].priorContext
             /\ \A k \in 1..(m + 1) :
                    decisions'[k].decisionId = receipts'[i].decisionId =>
                        (decisions'[k].contextTrusted = "trusted"
                             <=> receipts'[i].priorContext # None)
    BY <1>4, <1>5 DEF ContextComesEarlier, getDecision, IsOwn
  <2>1. CASE i \in 1..n
    <3>1. receipts'[i] = receipts[i] /\ i \in 1..Len(receipts)
      BY <1>4, <2>1 DEF n
    <3>2. receipts[i].priorContext # None =>
              \E j \in 1..(i - 1) :
                  IsOwn(receipts[j]) /\ receipts[j].decisionId = receipts[i].priorContext
      BY <3>1 DEF ContextComesEarlier
    <3>3. \A k \in 1..m : decisions[k].decisionId = receipts[i].decisionId =>
              (decisions[k].contextTrusted = "trusted" <=> receipts[i].priorContext # None)
      BY <3>1 DEF ContextComesEarlier, getDecision, m
    <3>4. decisions'[m + 1].decisionId # receipts[i].decisionId
      BY <1>2, <1>5, <1>7, <2>1, <3>1
    <3>5. \A j \in 1..(i - 1) : receipts'[j] = receipts[j]
      BY <1>4, <2>1
    <3>6. \A k \in 1..(m + 1) : k # m + 1 => k \in 1..m
      BY <1>5
    <3> QED
      BY <1>5, <3>1, <3>2, <3>3, <3>4, <3>5, <3>6
  <2>2. CASE i = n + 1
    <3>1. /\ job[r].priorContext # None => job[r].priorContext \in Decided
          /\ job[r].contextTrusted = "trusted" <=> job[r].priorContext # None
      BY <1>1 DEF JobsKnowContext
    <3>2. ASSUME job[r].priorContext # None
          PROVE  \E j \in 1..n : IsOwn(receipts[j]) /\ receipts[j].decisionId = job[r].priorContext
      <4>1. PICK k \in 1..Len(decisions) : decisions[k].decisionId = job[r].priorContext
        BY <3>1, <3>2 DEF Decided
      <4> QED
        BY <4>1, DecidedAreChained DEF EnactInv, n
    <3>3. \A k \in 1..(m + 1) : decisions'[k].decisionId = r => k = m + 1
      BY <1>5, <1>6
    <3> QED
      BY <1>2, <1>4, <1>5, <2>2, <3>1, <3>2, <3>3
  <2> QED
    BY <1>4, <2>1, <2>2
<1>11. RenderedAnswers'
  <2> SUFFICES ASSUME NEW q \in Requests, pc'[q] = "rendered",
                      job'[q].arbitration = None
               PROVE  \E b \in BundlesNamed(job'[q].policyVersion) :
                          job'[q].effect = Answer(q, b)'
    BY Zenon DEF RenderedAnswers, BundlesNamed
  <2>1. pc[q] = "rendered" /\ job'[q] = job[q]
    BY <1>1, <1>3
  <2>2. PICK b \in BundlesNamed(job[q].policyVersion) : job[q].effect = Answer(q, b)
    BY <1>1, <2>1 DEF RenderedAnswers
  <2>3. Answer(q, b)' = Answer(q, b)
    BY <1>1, <2>1, AnswerKept
  <2> QED
    BY <2>1, <2>2, <2>3
<1>12. ReplayFaithful'
  <2> SUFFICES ASSUME NEW i \in 1..(n + 1), IsOwn(receipts'[i]),
                      job[receipts'[i].decisionId].arbitration = None
      PROVE  \E b \in BundlesNamed(receipts'[i].policyVersion) :
                 receipts'[i].decision =
                     EngineEffect(b, job[receipts'[i].decisionId].proposal,
                         /\ receipts'[i].priorContext # None
                         /\ job[receipts'[i].priorContext].proposal \in Reads)
    BY <1>1, <1>4, ZenonT(60) DEF ReplayFaithful, BundlesNamed, IsOwn
  <2>1. CASE i \in 1..n
    <3>1. receipts'[i] = receipts[i] /\ i \in 1..Len(receipts)
      BY <1>4, <2>1 DEF n
    <3> QED
      BY <3>1, Zenon DEF ReplayFaithful
  <2>2. CASE i = n + 1
    <3>1. receipts'[i] = x
      BY <1>4, <2>2
    <3>2. PICK b \in BundlesNamed(job[r].policyVersion) : job[r].effect = Answer(r, b)
      BY <1>1, <1>2, <3>1 DEF RenderedAnswers
    <3>3. job[r].effect =
              EngineEffect(b, job[r].proposal,
                  job[r].priorContext # None /\ job[job[r].priorContext].proposal \in Reads)
      BY <3>2, Zenon DEF Answer, PriorRead
    <3>4. /\ receipts'[i].decisionId = r
          /\ receipts'[i].decision = job[r].effect
          /\ receipts'[i].policyVersion = job[r].policyVersion
          /\ receipts'[i].priorContext = job[r].priorContext
      BY <1>2, <3>1
    <3> QED
      BY <3>2, <3>3, <3>4, Zenon
  <2>3. i \in 1..n \/ i = n + 1
    BY <1>4
  <2> QED
    BY <2>1, <2>2, <2>3, Zenon
<1> QED
  BY <1>9, <1>10, <1>11, <1>12 DEF ReplayParts

LEMMA ResolveKeepsReplay ==
    ASSUME ReplayInv, NEW q \in Requests, NEW d \in Requests, NEW approved \in BOOLEAN,
           ResolveEscalation(q, d, approved)
    PROVE  ReplayParts'
<1> USE DEF ReplayInv
<1> DEFINE x == ResolutionReceipt(q, d, approved)
           n == Len(receipts)
<1>1. /\ pc[q] = "idle" /\ escalations[d] = "pending"
      /\ receipts' = Append(receipts, x)
      /\ UNCHANGED <<decisions, job>>
  BY DEF ResolveEscalation, At, Resolvable, listEscalations, putReceipt
<1>2. ~ IsOwn(x)
  <2>1. pc[d] \in Past
    BY <1>1, PendingIsUnresolved DEF OwnReceipts, EnactInv, MintersArePast
  <2> QED
    BY <1>1, <2>1 DEF ResolutionReceipt, IsOwn
<1>3. /\ pc'[q] \in Past
      /\ \A r \in Requests \ {q} : pc'[r] = pc[r]
  <2>1. TypeInv
    BY DEF EnactInv
  <2> QED
    BY <2>1, ResolveMoves
<1> HIDE DEF x
<1>4. /\ n \in Nat /\ Len(receipts') = n + 1
      /\ receipts'[n + 1] = x
      /\ \A i \in 1..n : receipts'[i] = receipts[i]
  BY <1>1 DEF EnactInv, TypeInv, TypeOK
<1>5. \A i \in 1..(n + 1) : IsOwn(receipts'[i]) =>
          i \in 1..n /\ IsOwn(receipts[i]) /\ receipts'[i] = receipts[i]
  BY <1>2, <1>4
<1>6. Decided' = Decided
  BY <1>1 DEF Decided
<1>7. JobsKnowContext'
  BY <1>1, <1>3, <1>6 DEF JobsKnowContext
<1>8. ContextComesEarlier'
  <2> SUFFICES ASSUME NEW i \in 1..n, IsOwn(receipts[i]), receipts'[i] = receipts[i]
      PROVE  /\ receipts[i].priorContext # None =>
                    \E j \in 1..(i - 1) :
                        /\ IsOwn(receipts'[j])
                        /\ receipts'[j].decisionId = receipts[i].priorContext
             /\ \A k \in getDecision(receipts[i].decisionId) :
                    decisions[k].contextTrusted = "trusted"
                        <=> receipts[i].priorContext # None
    BY <1>1, <1>4, <1>5 DEF ContextComesEarlier, getDecision, IsOwn
  <2>1. \A j \in 1..(i - 1) : receipts'[j] = receipts[j]
    BY <1>4
  <2> QED
    BY <2>1 DEF ContextComesEarlier
<1>9. RenderedAnswers'
  <2> SUFFICES ASSUME NEW r \in Requests, pc'[r] = "rendered",
                      job'[r].arbitration = None
               PROVE  \E b \in BundlesNamed(job'[r].policyVersion) :
                          job'[r].effect = Answer(r, b)'
    BY Zenon DEF RenderedAnswers, BundlesNamed
  <2>1. pc[r] = "rendered" /\ job'[r] = job[r]
    BY <1>1, <1>3
  <2>2. PICK b \in BundlesNamed(job[r].policyVersion) : job[r].effect = Answer(r, b)
    BY <1>1, <2>1 DEF RenderedAnswers
  <2>3. Answer(r, b)' = Answer(r, b)
    BY <1>1, <2>1, AnswerKept
  <2> QED
    BY <2>1, <2>2, <2>3
<1>10. ReplayFaithful'
  <2> SUFFICES ASSUME NEW i \in 1..(n + 1), IsOwn(receipts'[i]),
                      job[receipts'[i].decisionId].arbitration = None
      PROVE  \E b \in BundlesNamed(receipts'[i].policyVersion) :
                 receipts'[i].decision =
                     EngineEffect(b, job[receipts'[i].decisionId].proposal,
                         /\ receipts'[i].priorContext # None
                         /\ job[receipts'[i].priorContext].proposal \in Reads)
    BY <1>1, <1>4, ZenonT(60) DEF ReplayFaithful, BundlesNamed, IsOwn
  <2>1. receipts'[i] = receipts[i] /\ IsOwn(receipts[i]) /\ i \in 1..Len(receipts)
    BY <1>5 DEF n
  <2> QED
    BY <2>1, Zenon DEF ReplayFaithful
<1> QED
  BY <1>7, <1>8, <1>9, <1>10 DEF ReplayParts

LEMMA InitReplay == Init => ReplayInv
<1> SUFFICES ASSUME Init PROVE ReplayInv
  OBVIOUS
<1>1. EnactInv /\ LoadInv
  BY InitEnact, InitPolicy
<1> USE DEF Init, StoreInit
<1>2. JobsKnowContext /\ ContextComesEarlier /\ RenderedAnswers
  BY DEF JobsKnowContext, ContextComesEarlier, RenderedAnswers
<1>3. ReplayFaithful
  BY DEF ReplayFaithful
<1> QED
  BY <1>1, <1>2, <1>3 DEF ReplayInv

LEMMA NextKeepsReplay ==
    ASSUME ReplayInv, [Next]_vars
    PROVE  ReplayInv'
<1>1. EnactInv' /\ LoadInv'
  BY NextKeeps, NextKeepsPolicy DEF ReplayInv
<1>2. ReplayParts'
  <2>1. TypeInv
    BY DEF ReplayInv, EnactInv
  <2>2. CASE \E q, d \in Requests, approved \in BOOLEAN : ResolveEscalation(q, d, approved)
    <3>1. PICK q \in Requests, d \in Requests, approved \in BOOLEAN :
              ResolveEscalation(q, d, approved)
      BY <2>2, Zenon
    <3> QED
      BY <3>1, ResolveKeepsReplay
  <2> QED
    BY <2>1, <2>2, RecordSteps, RecordQuietKeeps, ArrivesKeeps, EvaluateKeeps,
       ArbitrateKeeps, CommitKeepsReplay
<1> QED
  BY <1>1, <1>2 DEF ReplayInv, ReplayParts

LEMMA ReplayInvariant == Spec => []ReplayInv
BY InitReplay, NextKeepsReplay, PTL DEF Spec

-----------------------------------------------------------------------------
(* Every receipt of an unarbitrated decision can be replayed under the     *)
(* version it pins, whatever replacements overtook the call                *)
(* (decide.ts:123, 205, 251).                                              *)
THEOREM ReplayCorrect == Spec => []ReplayFaithful
BY ReplayInvariant, PTL DEF ReplayInv

(* The context a receipt assumed is a decision chained before it, and the  *)
(* decision reports it as trusted exactly then (decide.ts:133-146).        *)
THEOREM ContextCorrect == Spec => []ContextComesEarlier
BY ReplayInvariant, PTL DEF ReplayInv

=============================================================================
