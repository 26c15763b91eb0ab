----------------------------- MODULE MCGateway -----------------------------
(***************************************************************************)
(* A small gateway: the demo intent of fixtures/policy.cedar (a read is    *)
(* allowed, a send escalates, a send that carries a trusted read is        *)
(* denied), a stricter second bundle, and one that does not load.          *)
(***************************************************************************)
EXTENDS DocumentedClaims, ChainAudit, TLC

CONSTANTS demo, strict, broken,     \* bundles
          read, send, bare          \* proposals; bare has no resource

MCVersionOf == [b \in Bundles |-> b]

MCVocabularyOf == [b \in Bundles |-> "drp-demo"]

MCEngineEffect(bundle, proposal, priorRead) ==
    CASE proposal = bare -> IF bundle = strict THEN "deny" ELSE "allow"
      [] bundle = strict -> IF proposal = read THEN "escalate" ELSE "deny"
      [] proposal = read -> "allow"
      [] OTHER -> IF priorRead THEN "deny" ELSE "escalate"

NoSources == [s \in {} |-> None]

(* Calls are interchangeable, but for those the tracer throws on. *)
Symmetry == Permutations(Requests \ Untraced)

=============================================================================
