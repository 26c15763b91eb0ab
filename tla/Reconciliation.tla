--------------------------- MODULE Reconciliation ---------------------------
(***************************************************************************)
(* The readers of the decision history beside a running gateway: reconcile *)
(* (src/gateway.ts:276-284, src/reconcile/) and simulatePolicy             *)
(* (src/gateway.ts:263-275, src/simulate/policy.ts).                       *)
(*                                                                         *)
(*   idle --Reconcile--> awaitPolicy --Report--> reported                  *)
(*   idle --SimulatePolicy--> awaitShadow --Preview--> previewed           *)
(*                                                                         *)
(* A reader copies the history after its await and evaluates the copy      *)
(* entry by entry.  What is recorded during those evaluations cannot reach *)
(* the copy or the awaited policy, so the report is one step.              *)
(***************************************************************************)
EXTENDS GatewayProperties

CONSTANTS Readers,        \* the calls of reconcile and simulatePolicy
          Writes,         \* proposals that declare the action "write"
          PrincipalOf,    \* who makes each proposal
          ResourceOf,     \* what it is about
          Sinces          \* the times reconcile is asked to look back to

ASSUME ReaderAssumption ==
    /\ Writes \subseteq Proposals /\ Writes \cap Reads = {}
    /\ DOMAIN PrincipalOf = Proposals
    /\ DOMAIN ResourceOf = Proposals
    /\ Sinces \subseteq Nat

VARIABLE reading    \* the locals and the result of each reader

readerVars == <<vars, reading>>

NotReading == [at |-> "idle"]

ReadersInit == Init /\ reading = [x \in Readers |-> NotReading]

Becomes(x, state) == /\ reading' = [reading EXCEPT ![x] = state]
                     /\ UNCHANGED <<storeVars, handlerVars>>

-----------------------------------------------------------------------------
(***************************************************************************)
(* What a policy makes of a recorded proposal.  engineInputFrom is called  *)
(* without the prior context of the decision.  The part of the history a   *)
(* reader looks at is a set of positions: the flags have no order here.    *)
(***************************************************************************)
Replayed(bundle, entry) == EngineEffect(bundle, entry.proposal, FALSE)

CanReplay(bundle, window) ==
    \A i \in window : Replayed(bundle, history[i]) # Throws

Differing(bundle, window) ==
    {i \in window : Replayed(bundle, history[i]) # history[i].decision}

\* A slip: an entry is compared with the one before it.
DriftOfPrevious(bundle, window) ==
    {history[i].decisionId : i \in {i \in window :
        i > 1 /\ Replayed(bundle, history[i - 1]) # history[i].decision}}

findDrift(bundle, window) ==
    {history[i].decisionId : i \in Differing(bundle, window)}

Launders(write, read) ==
    /\ write.proposal \in Writes
    /\ read.proposal \in Reads
    /\ ResourceOf[read.proposal] = ResourceOf[write.proposal]
    /\ PrincipalOf[read.proposal] # PrincipalOf[write.proposal]
    /\ read.ts >= write.ts

findProvenanceLaundering(window) ==
    {<<history[p[1]].decisionId, history[p[2]].decisionId>> :
        p \in {p \in window \X window : Launders(history[p[1]], history[p[2]])}}

-----------------------------------------------------------------------------
(* The policy is awaited first: the call may start the boot load.  The     *)
(* fields asked and inForce only observe the moment of the call.           *)
Reconcile(x, since) ==
    /\ reading[x].at = "idle"
    /\ loadedPolicy
    /\ Becomes(x, [at |-> "awaitPolicy", load |-> HandedOut, since |-> since,
                   asked |-> Len(history), inForce |-> activeBundle])

\* A slip: the window opens after `since`.
WindowAfter(since) == {i \in 1..Len(history) : history[i].ts > since}

Window(since) == {i \in 1..Len(history) : history[i].ts >= since}

Everything == 1..Len(history)

\* A slip: the report is made under the policy in force by then.
CurrentLoad(x) == loaded

AwaitedLoad(x) == reading[x].load

AwaitedBundle(x) == loads[AwaitedLoad(x)].bundle

Report(x) ==
    /\ reading[x].at = "awaitPolicy"
    /\ loads[reading[x].load].status = "loaded"
    /\ LET window == Window(reading[x].since)
           bundle == AwaitedBundle(x)
       IN  /\ CanReplay(bundle, window)
           /\ Becomes(x, [at |-> "reported", since |-> reading[x].since,
                          asked |-> reading[x].asked, inForce |-> reading[x].inForce,
                          bundle |-> bundle, drift |-> findDrift(bundle, window),
                          laundering |-> findProvenanceLaundering(window)])
    /\ UNCHANGED policyVars

ReportFails(x) ==
    /\ reading[x].at = "awaitPolicy"
    /\ \/ loads[reading[x].load].status = "failed"
       \/ /\ loads[reading[x].load].status = "loaded"
          /\ ~ CanReplay(AwaitedBundle(x), Window(reading[x].since))
    /\ Becomes(x, [at |-> "failed"])
    /\ UNCHANGED policyVars

(* A provider of its own loads the candidate in shadow.                    *)
SimulatePolicy(x, candidate) ==
    /\ reading[x].at = "idle"
    /\ Becomes(x, [at |-> "awaitShadow", bundle |-> candidate])
    /\ UNCHANGED policyVars

\* A slip: the recorded traffic is replayed under the active policy.
ActiveForCandidate(x) == activeBundle

Candidate(x) == reading[x].bundle

Preview(x) ==
    /\ reading[x].at = "awaitShadow"
    /\ Outcome(reading[x].bundle) = "loaded"
    /\ CanReplay(Candidate(x), Everything)
    /\ LET flipped == Differing(Candidate(x), Everything)
       IN  Becomes(x, [at |-> "previewed", bundle |-> reading[x].bundle,
                       replayed |-> Len(history),
                       flipped |-> {[decisionId |-> history[i].decisionId,
                                     from |-> history[i].decision,
                                     to |-> Replayed(Candidate(x), history[i])] : i \in flipped},
                       unchanged |-> Len(history) - Cardinality(flipped)])
    /\ UNCHANGED policyVars

PreviewFails(x) ==
    /\ reading[x].at = "awaitShadow"
    /\ \/ Outcome(reading[x].bundle) = "failed"
       \/ ~ CanReplay(Candidate(x), Everything)
    /\ Becomes(x, [at |-> "failed"])
    /\ UNCHANGED policyVars

-----------------------------------------------------------------------------
Read(x) == \/ \E since \in Sinces : Reconcile(x, since)
           \/ \E candidate \in Bundles : SimulatePolicy(x, candidate)
           \/ Report(x) \/ ReportFails(x)
           \/ Preview(x) \/ PreviewFails(x)

ReadersNext == \/ Next /\ UNCHANGED reading
               \/ \E x \in Readers : Read(x)

ReadersSpec == ReadersInit /\ [][ReadersNext]_readerVars

-----------------------------------------------------------------------------
Reported == {x \in Readers : reading[x].at = "reported"}

(* Drift has a cause: a flagged decision was arbitrated, or carried        *)
(* context, or was evaluated under a bundle other than the one the report  *)
(* names, whatever was replaced while the decision and the reader waited   *)
(* (drift.ts:34-35, gateway.ts:279-281).                                   *)
DriftIsExplained ==
    \A x \in Reported : \A d \in reading[x].drift :
        \/ job[d].arbitration # None
        \/ job[d].priorContext # None
        \/ EvaluatedBundle(d) # reading[x].bundle

(* A report covers all that was on record when it was asked for, from      *)
(* `since` on, and judges it by the policy in force at that moment, though *)
(* both may have moved before the copy was taken (gateway.ts:279-281).     *)
ReportIsOfTheMomentAsked ==
    \A x \in Reported : \A i \in 1..reading[x].asked :
        history[i].ts >= reading[x].since =>
            (history[i].decisionId \in reading[x].drift
                <=> Replayed(reading[x].inForce, history[i]) # history[i].decision)

(* What a preview says of a bundle comes true: a proposal it replayed gets *)
(* the previewed effect when the bundle is in force and it is decided, or  *)
(* simulated, without context; and the preview accounts for every entry    *)
(* (simulate/policy.ts:45-63, gateway.ts:263-275).                         *)
PreviewComesTrue ==
    \A x \in Readers : reading[x].at = "previewed" =>
        LET Foreseen(i) == {f.to : f \in {f \in reading[x].flipped :
                                             f.decisionId = history[i].decisionId}}
        IN  /\ Cardinality(reading[x].flipped) + reading[x].unchanged = reading[x].replayed
            /\ \A i \in 1..reading[x].replayed, k \in DOMAIN history :
                  LET d == history[k].decisionId
                  IN  /\ history[k].proposal = history[i].proposal
                      /\ job[d].arbitration = None /\ job[d].priorContext = None
                      /\ EvaluatedBundle(d) = reading[x].bundle
                      => history[k].decision \in
                            IF Foreseen(i) = {} THEN {history[i].decision} ELSE Foreseen(i)

(* A preview of a candidate rehearses the reconciliation that follows its  *)
(* going live: of the decisions that were on record for both, a report     *)
(* under that bundle flags as drift, from `since` on, exactly those that   *)
(* the preview said would flip, whatever was decided, replaced or reported *)
(* in between (gateway.ts:263-284, drift.ts:34-35, simulate/policy.ts).    *)
PreviewPredictsDrift ==
    \A x, y \in Readers :
        /\ reading[x].at = "previewed" /\ reading[y].at = "reported"
        /\ reading[x].bundle = reading[y].bundle
        => \A i \in 1..reading[x].replayed :
              i <= reading[y].asked /\ history[i].ts >= reading[y].since =>
                  (history[i].decisionId \in reading[y].drift
                      <=> \E f \in reading[x].flipped : f.decisionId = history[i].decisionId)

(* reconcile "flags any whose stored effect the current policy would now   *)
(* decide differently" (drift.ts:2-4).  The replay drops the context that  *)
(* the decision was made with, so one that the reported policy decides in  *)
(* just the same way is flagged.                                           *)
DriftIsADifferentDecision ==
    \A x \in Reported : \A d \in reading[x].drift :
        job[d].arbitration = None => Answer(d, reading[x].bundle) # job[d].effect


=============================================================================
