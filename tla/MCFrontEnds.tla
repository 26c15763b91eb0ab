---------------------------- MODULE MCFrontEnds ----------------------------
(***************************************************************************)
(* One hook process, one proxied tool call and one caller of the core, on  *)
(* a gateway whose downstream handles read_file and delete_file.  The demo *)
(* bundle allows reads, holds writes and deletes and denies the rest; the  *)
(* strict one holds reads.                                                 *)
(***************************************************************************)
EXTENDS FrontEnds

CONSTANTS demo, strict, broken, hook, proxied, caller

MCLowerCase == [t \in {"Task"} |-> "task"]

MCProposals == {toProposal(t) : t \in HookTools} \cup {proposalFromToolCall(t) : t \in ProxyTools}

MCReads == {p \in MCProposals : p.declaredAction = "read"}

MCRouted == {p \in MCProposals : p.tool \in {"read_file", "delete_file"}}

MCVersionOf == [b \in Bundles |-> b]

MCVocabularyOf == [b \in Bundles |-> "drp-demo"]

MCEngineEffect(bundle, proposal, priorRead) ==
    CASE proposal.declaredAction = "read" -> IF bundle = strict THEN "escalate" ELSE "allow"
      [] proposal.declaredAction \in {"write", "delete"} -> "escalate"
      [] OTHER -> "deny"

NoSources == [s \in {} |-> None]

(* Bound: the core's caller resolves or loads, its own proposals being the *)
(* core run's.                                                             *)
CallerDoesNotPropose == job'[caller] = None

MCSpec == FrontInit /\ [][FrontNext /\ CallerDoesNotPropose]_frontVars /\ FrontFairness

=============================================================================
