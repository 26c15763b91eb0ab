------------------------- MODULE GatewayProperties -------------------------
(***************************************************************************)
(* What the gateway promises: the rules of                                 *)
(* spec/drp-protocol-semantics-v0.1.md, stated of the code's own state.    *)
(***************************************************************************)
EXTENDS Gateway

(***************************************************************************)
(* Types.                                                                  *)
(***************************************************************************)
Receipt == [receiptId : Requests, decisionId : Requests, ts : Nat,
            decision : Effects, policyVersion : Versions,
            priorContext : Requests \cup {None}, simulated : BOOLEAN,
            prevHash : Requests \cup {GENESIS}]

Decision == [decisionId : Requests, receiptRef : Requests, ts : Nat,
             decision : Effects, policyVersion : Versions,
             contextTrusted : {"absent", "trusted", "untrusted"},
             winner : DOMAIN SourceRegistry \cup {None}]

Entry == [decisionId : Requests, proposal : Proposals, decision : Effects, ts : Nat]

Conflict == [decisionId : Requests, ts : Nat,
             sources : Seq(SourceDecision(DOMAIN SourceRegistry)),
             winner : DOMAIN SourceRegistry]

Job == [proposal : Proposals, simulated : BOOLEAN,
        arbitration : Arbitrations \cup {None}, policyVersion : Versions,
        load : Loads \cup {None}, ts : Nat, priorContext : Requests \cup {None},
        contextTrusted : {"absent", "trusted", "untrusted"},
        effect : Effects \cup {None}, winner : DOMAIN SourceRegistry \cup {None}]

ASSUME NoneIsNoJob == None \notin Job

Labels == {"idle", "enacting"} \cup Waiting \cup Settled

(* Every variable ranges over the values the code can put there. *)
TypeOK ==
    /\ receipts \in Seq(Receipt)
    /\ decisions \in Seq(Decision)
    /\ escalations \in [Requests -> EscalationStatus]
    /\ history \in Seq(Entry)
    /\ conflicts \in Seq(Conflict)
    /\ activeBundle \in Bundles
    /\ loaded \in Loads \cup {None}
    /\ loads \in [Loads -> [bundle : Bundles \cup {None}, status : PromiseState]]
    /\ loadedSources \in [DOMAIN SourceRegistry -> PromiseState]
    /\ pc \in [Requests -> Labels]
    /\ job \in [Requests -> Job \cup {None}]
    /\ calls \in Seq(Requests)
    /\ clock \in Nat

-----------------------------------------------------------------------------
(***************************************************************************)
(* The receipt chain (semantics section 4, decide.ts:207, gateway.ts:333). *)
(***************************************************************************)
IsOwn(receipt) == receipt.receiptId = receipt.decisionId

OwnReceipts(d) == {i \in 1..Len(receipts) : receipts[i].receiptId = d /\ IsOwn(receipts[i])}

Resolutions(d) ==
    {i \in 1..Len(receipts) : receipts[i].decisionId = d /\ ~ IsOwn(receipts[i])}

(* Whatever calls interleave, every receipt names its predecessor, the     *)
(* first one names genesis, and no receipt is chained twice: two handlers  *)
(* never read the same last hash (decide.ts:207-210, gateway.ts:333-335).  *)
ChainIntact ==
    \A i \in 1..Len(receipts) :
        /\ receipts[i].prevHash =
               IF i = 1 THEN GENESIS ELSE hashReceiptBody(receipts[i - 1])
        /\ \A j \in 1..Len(receipts) :
               receipts[i].receiptId = receipts[j].receiptId => i = j

(* How many decisions the first n receipts are about: the place of such a  *)
(* decision among the decision records and in the history.                 *)
OwnUpTo(n) == Cardinality({j \in 1..n : IsOwn(receipts[j])})

(* A decision leaves its receipt, its record and its history entry         *)
(* together or not at all: the three agree entry by entry, in one order    *)
(* (decide.ts:210-214).                                                    *)
RecordsAgree ==
    /\ Len(decisions) = OwnUpTo(Len(receipts))
    /\ Len(history) = OwnUpTo(Len(receipts))
    /\ \A i \in 1..Len(receipts) : IsOwn(receipts[i]) =>
          LET k == OwnUpTo(i)
          IN  /\ decisions[k].decisionId = receipts[i].decisionId
              /\ decisions[k].receiptRef = receipts[i].receiptId
              /\ decisions[k].decision = receipts[i].decision
              /\ decisions[k].policyVersion = receipts[i].policyVersion
              /\ history[k].decisionId = receipts[i].decisionId
              /\ history[k].decision = receipts[i].decision

Forwarded(d) == \E i \in 1..Len(calls) : calls[i] = d

(* /decisions lists the decision and /state/{decisionId} finds its receipt *)
Found(d) == \E i \in getDecision(d) :
               \E j \in getReceipt(decisions[i].receiptRef) :
                   receipts[j].policyVersion = decisions[i].policyVersion

Unrecorded(d) == /\ getDecision(d) = {} /\ getReceipt(d) = {}
                 /\ \A i \in 1..Len(history) : history[i].decisionId # d
                 /\ escalations[d] = "none"
                 /\ ~ Forwarded(d)

(* Once decide has answered, its decision is found (semantics section 3,   *)
(* gateway.ts:358-364).  One still under way has left no decision, receipt *)
(* or history entry, held nothing and called nobody; only the conflict of  *)
(* an arbitrated one may be in /conflicts already (decide.ts:275).  One    *)
(* that failed has left nothing either, unless the failure came after the  *)
(* record: from the tracer, or from a downstream (decide.ts:218, 223).     *)
ReadYourWrites ==
    \A r \in Requests : job[r] # None =>
        /\ pc[r] \in {"answered", "enacting"} => Found(r)
        /\ pc[r] \in Waiting => Unrecorded(r)
        /\ pc[r] = "failed" =>
              \/ Unrecorded(r)
              \/ Found(r) /\ (Forwarded(r) \/ r \in Untraced)

-----------------------------------------------------------------------------
(***************************************************************************)
(* Enactment (semantics section 2, decide.ts:221-232, gateway.ts:338).     *)
(***************************************************************************)
Allowed(d) == \E i \in 1..Len(receipts) :
                 /\ receipts[i].decisionId = d
                 /\ receipts[i].decision = "allow"
                 /\ ~ receipts[i].simulated

(* A downstream is called for a decision exactly when the chain holds an   *)
(* unsimulated allow for it, its own or an approval of its escalation, and *)
(* some downstream handles the tool.  Nothing denied, simulated, pending   *)
(* or refused executes, and nothing allowed is forgotten, except the       *)
(* allow on whose event the tracer threw (decide.ts:218).                  *)
ExecutionMatchesReceipts ==
    \A d \in Requests :
        Forwarded(d) <=> Allowed(d) /\ job[d].proposal \in Routed /\ d \notin Untraced

(* No decision is forwarded twice, however its resolutions race.           *)
ExecutedAtMostOnce ==
    \A i, j \in 1..Len(calls) : calls[i] = calls[j] => i = j

(* The queue and the chain tell one story.  The decisions ever held are    *)
(* the unsimulated escalates of the chain, but for those on whose event    *)
(* the tracer threw.  No receipt resolves a pending one; an approved or    *)
(* denied one is resolved by exactly one receipt, chained after its own,   *)
(* which says allow or deny accordingly (decide.ts:225, gateway.ts:300).   *)
QueueMatchesChain ==
    \A d \in Requests :
        /\ escalations[d] \in {"none", "pending"} => Resolutions(d) = {}
        /\ escalations[d] = "none" /\ d \notin Untraced =>
              \A i \in OwnReceipts(d) :
                  receipts[i].decision = "escalate" => receipts[i].simulated
        /\ escalations[d] # "none" => d \notin Untraced
        /\ escalations[d] # "none" =>
              \E i \in OwnReceipts(d) :
                  /\ receipts[i].decision = "escalate"
                  /\ ~ receipts[i].simulated
                  /\ escalations[d] # "pending" =>
                        \E k \in Resolutions(d) :
                            /\ i < k
                            /\ Resolutions(d) = {k}
                            /\ receipts[k].decision =
                                  IF escalations[d] = "approved"
                                  THEN "allow" ELSE "deny"

-----------------------------------------------------------------------------
(***************************************************************************)
(* Policy and replay (semantics sections 3 and 6).                         *)
(***************************************************************************)
BundlesNamed(version) == {b \in Bundles : VersionOf[b] = version}

(* Each receipt of an unarbitrated decision, simulated or not, can be      *)
(* replayed: the version it pins names a bundle that answers the proposal, *)
(* with the context the receipt says was assumed, with the recorded        *)
(* effect, even when policies were replaced while the call was waiting     *)
(* (decide.ts:123, 251, 205).                                              *)
ReplayFaithful ==
    \A i \in 1..Len(receipts) :
        LET receipt == receipts[i]
            made    == job[receipt.decisionId]
            prior   == receipt.priorContext
        IN  IsOwn(receipt) /\ made.arbitration = None =>
                \E b \in BundlesNamed(receipt.policyVersion) :
                    receipt.decision =
                        EngineEffect(b, made.proposal,
                                     prior # None /\ job[prior].proposal \in Reads)

(* The bundle readback reports and the promise the next decide awaits      *)
(* belong together, and a replacement has loaded (gateway.ts:383-384).     *)
PolicyInForce ==
    loaded # None => /\ loads[loaded].bundle = activeBundle
                     /\ loaded # BootLoad => loads[loaded].status = "loaded"

(* The context a receipt claims was assumed is a decision the chain holds  *)
(* already, and the decision reports it as trusted exactly then            *)
(* (semantics section 5, decide.ts:133-146).                               *)
ContextComesEarlier ==
    \A i \in 1..Len(receipts) : IsOwn(receipts[i]) =>
        /\ receipts[i].priorContext # None =>
              \E j \in 1..(i - 1) :
                  IsOwn(receipts[j]) /\ receipts[j].decisionId = receipts[i].priorContext
        /\ \A k \in getDecision(receipts[i].decisionId) :
              decisions[k].contextTrusted = "trusted" <=> receipts[i].priorContext # None

-----------------------------------------------------------------------------
(***************************************************************************)
(* Arbitration (src/arbitrate/resolvers.ts as decide uses it).             *)
(***************************************************************************)
IsArbitrated(r) == job[r] # None /\ job[r].arbitration # None

SourceEffects(r) == {SourceDecisions(r)[i].effect : i \in 1..Len(SourceDecisions(r))}

(* The conflict log holds one record for each rendered disagreement and    *)
(* none for agreement, under the decision id the receipt will carry, and   *)
(* names the source whose effect was rendered (decide.ts:274-283).         *)
ConflictsAreDisagreements ==
    LET about(r) == {i \in 1..Len(conflicts) : conflicts[i].decisionId = r}
    IN  \A r \in Requests : IsArbitrated(r) =>
            /\ job[r].effect = None => about(r) = {}
            /\ job[r].effect # None =>
                  IF Cardinality(SourceEffects(r)) = 1 THEN about(r) = {}
                  ELSE \E k \in about(r) : /\ about(r) = {k}
                                           /\ conflicts[k].winner = job[r].winner
                                           /\ conflicts[k].ts = job[r].ts

(* A conflict that /conflicts lists leads to the decision it is about:     *)
(* /decisions has it under that id and time, resolved by the winner the    *)
(* record names, with the effect the record gives that source.  The two    *)
(* exceptions are a call that has not committed yet, and a malformed one   *)
(* that throws on the way to its receipt and leaves a record of a          *)
(* decision nobody will find (decide.ts:274-283, 157-214).                 *)
ConflictsFindDecisions ==
    \A i \in 1..Len(conflicts) :
        LET about == conflicts[i].decisionId
        IN  \/ pc[about] = "rendered"
            \/ pc[about] = "failed" /\ job[about].proposal \in Malformed
            \/ \E k \in getDecision(about) :
                  /\ decisions[k].ts = conflicts[i].ts
                  /\ decisions[k].winner = conflicts[i].winner
                  /\ [source |-> decisions[k].winner, effect |-> decisions[k].decision]
                        \in ToSet(conflicts[i].sources)

(* What was recorded under the most-restrictive resolver is the strictest  *)
(* answer of the sources consulted, so an arbitrated call executes only if *)
(* every one of them allows it, unless it was held and somebody approved   *)
(* it since (resolvers.ts:4, decide.ts:272, 285).                          *)
ArbitratedExecutionIsUnanimous ==
    \A r \in Requests :
        IsArbitrated(r) /\ job[r].arbitration.resolver = "most-restrictive"
            /\ Forwarded(r)
            /\ escalations[r] = "none"
        => SourceEffects(r) = {"allow"}

-----------------------------------------------------------------------------
(***************************************************************************)
(* What a step may never do.                                               *)
(***************************************************************************)
Extends(new, old) == IsPrefix(old, new)

(* Readback is observation of a record that only grows: no step rewrites   *)
(* or drops a receipt, a decision, a history entry or a conflict, and a    *)
(* resolved escalation is never reopened (store.ts:73-122).                *)
RecordOnlyGrows ==
    [][/\ Extends(receipts', receipts)
       /\ Extends(decisions', decisions)
       /\ Extends(history', history)
       /\ Extends(conflicts', conflicts)
       /\ \A d \in Requests :
             \/ escalations[d]' = escalations[d]
             \/ escalations[d] = "none" /\ escalations[d]' = "pending"
             \/ escalations[d] = "pending" /\ escalations[d]' \in {"approved", "denied"}
      ]_vars

(* The active bundle moves only when a call to load that very bundle       *)
(* answers, and a bundle that does not load never replaces it              *)
(* (gateway.ts:378-386, Suite E).                                          *)
PolicyMovesByLoading ==
    [][activeBundle' # activeBundle =>
          \E q \in Requests : /\ pc[q] = "loading" /\ pc'[q] = "answered"
                              /\ loads[q].bundle = activeBundle'
                              /\ activeBundle' \in Loadable]_vars

-----------------------------------------------------------------------------
(***************************************************************************)
(* Liveness.                                                               *)
(***************************************************************************)

(* No call waits for ever on the gateway itself: once made, it is answered *)
(* or fails, unless it is waiting for a downstream, whatever policies are  *)
(* loading, replaced or refused meanwhile.                                 *)
HandlersSettle ==
    \A r \in Requests :
        pc[r] \in Waiting ~> pc[r] \in Settled \cup {"enacting"}

(* A call to load a bundle that parses ends with that bundle in force, if  *)
(* only until the next replacement.                                        *)
LoadsTakeEffect ==
    \A q \in Requests :
        pc[q] = "loading" /\ loads[q].bundle \in Loadable
            ~> loaded = q /\ activeBundle = loads[q].bundle

=============================================================================
