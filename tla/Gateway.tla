------------------------------ MODULE Gateway ------------------------------
(***************************************************************************)
(* The gateway core: the decide pipeline (src/pipeline/decide.ts), the     *)
(* operations of createGatewayCore that change state (src/gateway.ts), and *)
(* what they leave in the store, the policy state and the downstreams.     *)
(*                                                                         *)
(* JavaScript runs one handler at a time and switches only at an await.    *)
(* Each action is one such segment: everything a handler does between two  *)
(* awaits.  Handlers of different calls interleave at segment boundaries.  *)
(*                                                                         *)
(*   idle --Decide--> awaitPolicy --Evaluate--> rendered --Commit--> ...   *)
(*   idle --DecideArbitrated--> awaitSources --Arbitrate--> rendered       *)
(*   ... --> answered, or enacting --DownstreamReturns--> answered         *)
(*   idle --ResolveEscalation--> answered, or enacting                     *)
(*   idle --LoadPolicy--> loading --InstallPolicy--> answered              *)
(*                                                                         *)
(* Any of them may end in failed: the promise the caller holds rejects     *)
(* (an HTTP 400).                                                          *)
(***************************************************************************)
EXTENDS Arbitration, DecisionStore, PolicyLoading

CONSTANTS Proposals,
          Reads,          \* proposals that declare the action "read"
          Routed,         \* proposals whose tool some downstream handles
          Malformed,      \* proposals without a principal or a resource
          Untraced,       \* calls on whose event the configured tracer throws
          Arbitrations,   \* the arbitration requests callers make
          EngineEffect(_, _, _),  \* what an engine answers: bundle, proposal,
                                  \* whether a trusted prior read is carried
          Forged          \* a context token that does not verify

Throws == "throws"

ArbitrationRequest(a) ==
    /\ a.sources \in Seq(STRING) /\ a.sources # << >>
    /\ a.order \in Seq(STRING)
    /\ a.resolver \in Resolvers

ASSUME ProposalAssumption ==
    /\ Reads \subseteq Proposals
    /\ Routed \subseteq Proposals
    /\ Malformed \subseteq Proposals
    /\ Untraced \subseteq Requests
    /\ None \notin Arbitrations
    /\ \A a \in Arbitrations : ArbitrationRequest(a)
    /\ Forged \notin Requests \cup {None}
    /\ \A b \in Bundles, p \in Proposals, c \in BOOLEAN :
           EngineEffect(b, p, c) \in Effects \cup {Throws}

ASSUME NoneIsNoEffect == None \notin Effects

VARIABLES pc,      \* where the handler of each call stands
          job,     \* the locals of each decide call
          calls,   \* the held or allowed decisions downstreams were called for
          clock    \* now(), ticking between any two calls

handlerVars == <<pc, job, calls, clock>>

vars == <<storeVars, policyVars, handlerVars>>

Settled == {"answered", "failed"}

Waiting == {"awaitPolicy", "awaitSources", "rendered", "loading"}

Init == /\ StoreInit
        /\ PolicyInit
        /\ pc = [r \in Requests |-> "idle"]
        /\ job = [r \in Requests |-> None]
        /\ calls = << >>
        /\ clock = 0

At(r, label) == pc[r] = label

Goto(r, label) == pc' = [pc EXCEPT ![r] = label]

Fail(r) == /\ Goto(r, "failed")
           /\ UNCHANGED <<storeVars, policyVars, job, calls, clock>>

(***************************************************************************)
(* Context carriage.  A token is minted for every recorded decision; a     *)
(* token that does not verify is dropped from policy input.                *)
(***************************************************************************)
Tokens == Decided \cup {Forged, None}

\* A slip: a token is admitted before it is verified.
AdmitsAnything(token) == token

AdmittedContext(token) == IF token \in Decided THEN token ELSE None

\* A slip: any carried token is reported as trusted.
TrustsAnyToken(token) == IF token = None THEN "absent" ELSE "trusted"

ContextTrusted(token) == IF token = None THEN "absent"
                         ELSE IF token \in Decided THEN "trusted" ELSE "untrusted"

PriorRead(r) == /\ job[r].priorContext # None
                /\ job[job[r].priorContext].proposal \in Reads

Answer(r, bundle) == EngineEffect(bundle, job[r].proposal, PriorRead(r))

-----------------------------------------------------------------------------
(***************************************************************************)
(* decide, up to its first await.  The version and the promise of the      *)
(* policy are taken in the same segment.                                   *)
(***************************************************************************)
Arrive(r, proposal, token, simulated, arbitration, load) ==
    /\ job' = [job EXCEPT ![r] =
                  [proposal |-> proposal, simulated |-> simulated,
                   arbitration |-> arbitration, policyVersion |-> policyVersion,
                   load |-> load, ts |-> clock,
                   priorContext |-> AdmittedContext(token),
                   contextTrusted |-> ContextTrusted(token),
                   effect |-> None, winner |-> None]]
    /\ clock' = clock + 1
    /\ UNCHANGED <<storeVars, calls>>

Decide(r, proposal, token, simulated) ==
    /\ At(r, "idle")
    /\ Arrive(r, proposal, token, simulated, None, HandedOut)
    /\ loadedPolicy
    /\ Goto(r, "awaitPolicy")

SourcesOf(a) == {a.sources[i] : i \in 1..Len(a.sources)}

Arbitrable(a) ==
    /\ SourcesOf(a) \subseteq DOMAIN SourceRegistry
    /\ \A s, t \in SourcesOf(a) :
           VocabularyOf[SourceRegistry[s]] = VocabularyOf[SourceRegistry[t]]

DecideArbitrated(r, proposal, token, a) ==
    /\ At(r, "idle")
    /\ Arbitrable(a)
    /\ Arrive(r, proposal, token, FALSE, a, None)
    /\ loadSources(SourcesOf(a))
    /\ Goto(r, "awaitSources")

(* decide throws before its first await, with nothing recorded. *)
RejectAtOnce(r) ==
    /\ At(r, "idle")
    /\ Goto(r, "failed")
    /\ clock' = clock + 1
    /\ UNCHANGED <<storeVars, policyVars, job, calls>>

(* An unknown source, no registry, or sources of differing vocabularies. *)
RejectArbitration(r, a) == ~ Arbitrable(a) /\ RejectAtOnce(r)

(* A carried prior context that is no string has no parts to split. *)
RejectContext(r) == RejectAtOnce(r)

Reject(r) == RejectContext(r) \/ \E a \in Arbitrations : RejectArbitration(r, a)

-----------------------------------------------------------------------------
(***************************************************************************)
(* renderEngineDecision, after its awaits.                                 *)
(***************************************************************************)
Render(r, effect, winner) ==
    /\ job' = [job EXCEPT ![r].effect = effect, ![r].winner = winner]
    /\ Goto(r, "rendered")
    /\ UNCHANGED <<policyVars, calls, clock>>

EvaluatedBundle(r) == loads[job[r].load].bundle

Evaluate(r) ==
    /\ At(r, "awaitPolicy")
    /\ loads[job[r].load].status = "loaded"
    /\ Answer(r, EvaluatedBundle(r)) # Throws
    /\ Render(r, Answer(r, EvaluatedBundle(r)), None)
    /\ UNCHANGED storeVars

EvaluateFails(r) ==
    /\ At(r, "awaitPolicy")
    /\ \/ loads[job[r].load].status = "failed"
       \/ /\ loads[job[r].load].status = "loaded"
          /\ Answer(r, EvaluatedBundle(r)) = Throws
    /\ Fail(r)

SourceThrows(r, s) ==
    \/ loadedSources[s] = "failed"
    \/ loadedSources[s] = "loaded" /\ Answer(r, SourceRegistry[s]) = Throws

SourceDecisions(r) ==
    [i \in 1..Len(job[r].arbitration.sources) |->
        [source |-> job[r].arbitration.sources[i],
         effect |-> Answer(r, SourceRegistry[job[r].arbitration.sources[i]])]]

OutcomeOf(r) ==
    Winner(SourceDecisions(r), job[r].arbitration.resolver, job[r].arbitration.order)

\* A slip: the conflict names the first source.
ConflictNamesFirst(r) ==
    [decisionId |-> r, ts |-> job[r].ts, sources |-> SourceDecisions(r),
     winner |-> SourceDecisions(r)[1].source]

ConflictRecord(r) ==
    [decisionId |-> r, ts |-> job[r].ts, sources |-> SourceDecisions(r),
     winner |-> OutcomeOf(r).source]

(* All the sources have answered: a disagreement is recorded here, before  *)
(* the receipt is.                                                         *)
Arbitrate(r) ==
    /\ At(r, "awaitSources")
    /\ \A s \in SourcesOf(job[r].arbitration) :
           loadedSources[s] = "loaded" /\ ~ SourceThrows(r, s)
    /\ Render(r, OutcomeOf(r).effect, OutcomeOf(r).source)
    /\ IF disagreed(SourceDecisions(r))
       THEN recordConflict(ConflictRecord(r)) ELSE UNCHANGED conflicts
    /\ UNCHANGED <<receipts, decisions, escalations, history>>

(* Promise.all rejects with the first source that fails. *)
ArbitrateFails(r) ==
    /\ At(r, "awaitSources")
    /\ \E s \in SourcesOf(job[r].arbitration) : SourceThrows(r, s)
    /\ Fail(r)

-----------------------------------------------------------------------------
(***************************************************************************)
(* The last synchronous stretch of decide: the receipt, the decision, the  *)
(* history entry, the telemetry event, and then the effect, in one         *)
(* segment.  A tracer that throws on the event leaves the record without   *)
(* the effect.                                                             *)
(***************************************************************************)
\* A slip: the version is read after the awaits.
VersionAtCommit(r) == policyVersion

PinnedVersion(r) == job[r].policyVersion

DecisionReceipt(r) ==
    [receiptId |-> r, decisionId |-> r, ts |-> job[r].ts,
     decision |-> job[r].effect, policyVersion |-> PinnedVersion(r),
     priorContext |-> job[r].priorContext, simulated |-> job[r].simulated,
     prevHash |-> lastReceiptHash]

DecisionRecord(r) ==
    [decisionId |-> r, receiptRef |-> r, ts |-> job[r].ts,
     decision |-> job[r].effect, policyVersion |-> PinnedVersion(r),
     contextTrusted |-> job[r].contextTrusted, winner |-> job[r].winner]

HistoryEntry(r) == [decisionId |-> r, proposal |-> job[r].proposal,
                    decision |-> job[r].effect, ts |-> job[r].ts]

Emitted(r) == r \notin Untraced

\* A slip: a simulated escalate is queued.
HoldsSimulated(r) == Emitted(r) /\ job[r].effect = "escalate"

Holds(r) == Emitted(r) /\ ~ job[r].simulated /\ job[r].effect = "escalate"

\* A slip: a simulated allow is forwarded.
EnactsSimulated(r) == Emitted(r) /\ job[r].effect = "allow"

\* A slip: an escalated action is forwarded while it is held.
EnactsHeld(r) == /\ Emitted(r) /\ ~ job[r].simulated
                 /\ job[r].effect \in {"allow", "escalate"}

Enacts(r) == Emitted(r) /\ ~ job[r].simulated /\ job[r].effect = "allow"

(* enact: no downstream handles the tool, so there is nothing to forward. *)
Enact(r, d) ==
    IF job[d].proposal \in Routed
    THEN calls' = Append(calls, d) /\ Goto(r, "enacting")
    ELSE UNCHANGED calls /\ Goto(r, "answered")

Commit(r) ==
    /\ At(r, "rendered")
    /\ job[r].proposal \notin Malformed
    /\ putReceipt(DecisionReceipt(r))
    /\ putDecision(DecisionRecord(r))
    /\ recordHistory(HistoryEntry(r))
    /\ IF Holds(r) THEN enqueueEscalation(r) ELSE UNCHANGED escalations
    /\ IF Enacts(r) THEN Enact(r, r)
       ELSE UNCHANGED calls /\ Goto(r, IF Emitted(r) THEN "answered" ELSE "failed")
    /\ UNCHANGED <<conflicts, policyVars, job, clock>>

(* The decision and the receipt read fields the proposal does not have. *)
CommitThrows(r) ==
    /\ At(r, "rendered")
    /\ job[r].proposal \in Malformed
    /\ Fail(r)

DownstreamReturns(r) ==
    /\ At(r, "enacting")
    /\ Goto(r, "answered")
    /\ UNCHANGED <<storeVars, policyVars, job, calls, clock>>

DownstreamRejects(r) ==
    /\ At(r, "enacting")
    /\ Fail(r)

-----------------------------------------------------------------------------
(***************************************************************************)
(* resolveEscalation: the check, the receipt and the new status, and the   *)
(* downstream call of an approval, in one segment.                         *)
(***************************************************************************)
ResolutionReceipt(q, d, approved) ==
    [receiptId |-> q, decisionId |-> d, ts |-> clock,
     decision |-> IF approved THEN "allow" ELSE "deny",
     policyVersion |-> policyVersion, priorContext |-> None,
     simulated |-> FALSE, prevHash |-> lastReceiptHash]

\* A slip: an escalation is resolved whatever its status.
ResolvableAgain(d) == escalations[d] # "none"

Resolvable(d) == d \in listEscalations

ResolveEscalation(q, d, approved) ==
    /\ At(q, "idle")
    /\ Resolvable(d)
    /\ putReceipt(ResolutionReceipt(q, d, approved))
    /\ escalations' = [escalations EXCEPT ![d] =
                          IF approved THEN "approved" ELSE "denied"]
    /\ IF approved THEN Enact(q, d) ELSE UNCHANGED calls /\ Goto(q, "answered")
    /\ clock' = clock + 1
    /\ UNCHANGED <<decisions, history, conflicts, policyVars, job>>

RefuseResolution(q, d) ==
    /\ At(q, "idle")
    /\ ~ Resolvable(d)
    /\ Fail(q)

LoadPolicy(q, bundle) ==
    /\ At(q, "idle")
    /\ BeginReplacement(q, bundle)
    /\ Goto(q, "loading")
    /\ UNCHANGED <<storeVars, job, calls, clock>>

InstallPolicy(q) ==
    /\ At(q, "loading")
    /\ loads[q].status = "loaded"
    /\ SwapPolicy(q)
    /\ Goto(q, "answered")
    /\ UNCHANGED <<storeVars, job, calls, clock>>

RefusePolicy(q) ==
    /\ At(q, "loading")
    /\ loads[q].status = "failed"
    /\ Fail(q)

-----------------------------------------------------------------------------
Settle ==
    /\ \/ \E l \in Loads : SettleLoad(l)
       \/ \E s \in DOMAIN SourceRegistry : SettleSource(s)
    /\ UNCHANGED <<storeVars, handlerVars>>

Propose(r) ==
    \E proposal \in Proposals, token \in Tokens :
        \/ \E simulated \in BOOLEAN : Decide(r, proposal, token, simulated)
        \/ \E a \in Arbitrations : DecideArbitrated(r, proposal, token, a)

Resume(r) ==
    \/ Evaluate(r) \/ EvaluateFails(r)
    \/ Arbitrate(r) \/ ArbitrateFails(r)
    \/ Commit(r) \/ CommitThrows(r)
    \/ InstallPolicy(r) \/ RefusePolicy(r)

Return(r) == DownstreamReturns(r) \/ DownstreamRejects(r)

Resolve(q) ==
    \E d \in Requests : \/ \E approved \in BOOLEAN : ResolveEscalation(q, d, approved)
                        \/ RefuseResolution(q, d)

(* Every call the bounded instance allows has been made and answered. *)
Quiescent == (\A r \in Requests : pc[r] \in Settled) /\ UNCHANGED vars

Next ==
    \/ \E r \in Requests :
          \/ Propose(r)
          \/ Reject(r)
          \/ Resume(r)
          \/ Return(r)
          \/ Resolve(r)
          \/ \E bundle \in Bundles : LoadPolicy(r, bundle)
    \/ Settle
    \/ Quiescent

Spec == Init /\ [][Next]_vars

(***************************************************************************)
(* The runtime resumes every handler whose promise has settled, and a      *)
(* provider finishes every load it has started: parsing and instantiating  *)
(* a bundle is local computation.  A downstream owes no answer, and no     *)
(* caller owes a call.                                                     *)
(***************************************************************************)
Fairness == /\ \A r \in Requests : WF_vars(Resume(r))
            /\ WF_vars(Settle)

FairSpec == Spec /\ Fairness

=============================================================================
