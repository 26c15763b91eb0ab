-------------------------- MODULE DocumentedClaims --------------------------
(***************************************************************************)
(* Statements of the repository's documents that the code does not keep.   *)
(* Each is checked by a run that expects a counterexample.                 *)
(***************************************************************************)
EXTENDS GatewayImplementsEnactment

(* "HTTP 200 carries all three effects.  Transport errors are reserved for *)
(* malformed proposals and unknown identifiers" (semantics section 2).     *)
(* decide awaits the downstream after it has recorded the allow            *)
(* (decide.ts:223) and rejects with whatever the downstream rejects with.  *)
ErrorsAreForMalformedProposals ==
    \A r \in Requests :
        job[r] # None /\ pc[r] = "failed" => job[r].proposal \in Malformed

(* "/state/{decisionId} MUST return the policy version actually evaluated" *)
(* (semantics section 3).  An arbitrated decision evaluates the bundles of *)
(* its sources and pins the version of the active one (decide.ts:123,205). *)
ArbitratedVersionWasEvaluated ==
    \A i \in 1..Len(receipts) :
        IsOwn(receipts[i]) /\ IsArbitrated(receipts[i].decisionId) =>
            receipts[i].policyVersion \in
                {VersionOf[SourceRegistry[s]] :
                    s \in SourcesOf(job[receipts[i].decisionId].arbitration)}

(* "Matching decisions, newest first" (runtime protocol, line 122).  The   *)
(* list is in the reverse order of the commits (gateway.ts:356), while a   *)
(* decision carries the time at which its call arrived (decide.ts:127).    *)
(* The event loop resumes the calls that wait for one load in the order in *)
(* which they came; calls that wait for different loads overtake.          *)
DecisionsAreNewestFirst ==
    \A i, j \in 1..Len(decisions) :
        /\ i < j
        /\ job[decisions[i].decisionId].load # job[decisions[j].decisionId].load
        => decisions[i].ts <= decisions[j].ts

=============================================================================
