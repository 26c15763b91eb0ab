----------------------------- MODULE ChainAudit -----------------------------
(***************************************************************************)
(* The receipt-chain audit of scripts/prod-checks.ts: it walks the history *)
(* and, through the decision records, the receipts of the decisions, and   *)
(* follows the links from one to the next.  Signatures are ideal: what the *)
(* store holds was signed there and verifies.                              *)
(***************************************************************************)
EXTENDS GatewayProperties

(* The receipts behind a history entry.                                    *)
Audited(i) ==
    UNION {{receipts[j] : j \in getReceipt(decisions[k].receiptRef)} :
              k \in getDecision(history[i].decisionId)}

linksOk == {i \in 1..Len(history) :
              \A receipt \in Audited(i) :
                  IF i = 1 THEN receipt.prevHash = GENESIS
                  ELSE \E before \in Audited(i - 1) :
                           receipt.prevHash = hashReceiptBody(before)}

AuditPasses == linksOk = 1..Len(history)

(* Whatever decides and simulations overlapped, the audit passes; it fails *)
(* on an intact chain exactly when an escalation was resolved between two  *)
(* decisions, since the history has no entry for the resolution's receipt  *)
(* (prod-checks.ts:181-191, gateway.ts:335).                               *)
AuditPassesUnlessResolvedBetween ==
    AuditPasses <=> \A j, k \in 1..Len(receipts) :
                        j < k /\ IsOwn(receipts[k]) => IsOwn(receipts[j])

=============================================================================
