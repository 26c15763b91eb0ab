--------------------- MODULE GatewayImplementsEnactment ---------------------
(***************************************************************************)
(* The gateway implements Enactment: the verdict on a decision is read off *)
(* its record, its simulated flag and the escalation queue; what executed  *)
(* is read off the calls downstreams received.                             *)
(***************************************************************************)
EXTENDS GatewayProperties

Verdict(d) ==
    IF getDecision(d) = {} THEN "none"
    ELSE IF job[d].simulated THEN "simulated"
    ELSE CASE escalations[d] = "pending"  -> "held"
           [] escalations[d] = "approved" -> "approved"
           [] escalations[d] = "denied"   -> "refused"
           [] job[d].effect = "allow"     -> "allowed"
           [] OTHER                       -> "denied"

Enactments == INSTANCE Enactment WITH
    Actions  <- Requests,
    verdict  <- [d \in Requests |-> Verdict(d)],
    executed <- [d \in Requests |-> Cardinality({i \in 1..Len(calls) : calls[i] = d})]

(* Decide, simulate, resolve and load refine the abstract runtime: every   *)
(* segment of every handler renders one permitted verdict or none.         *)
ImplementsEnactment == Enactments!Spec

=============================================================================
