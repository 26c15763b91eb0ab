--------------------------- MODULE DecisionStore ---------------------------
(***************************************************************************)
(* The in-memory store of src/state/store.ts: the hash-chained receipts,   *)
(* the decision records, the escalation queue, the history kept for        *)
(* reconciliation and the conflict records.                                *)
(*                                                                         *)
(* Every call of the gateway mints its identifiers from a fresh UUID, so a *)
(* decision id, a receipt id and the call that minted them are one value   *)
(* of Requests here.  A receipt whose receiptId differs from its           *)
(* decisionId is the receipt of a resolution: the resolving call minted    *)
(* the one, the held decision owns the other.                              *)
(***************************************************************************)
EXTENDS Integers, Sequences, Identifiers

CONSTANT GENESIS    \* the prevHash of the first receipt

ASSUME GenesisIsNoReceipt == GENESIS \notin Requests

VARIABLES receipts,     \* signed receipts, in append order
          decisions,    \* decision records, in insertion order
          escalations,  \* the status of each held decision
          history,      \* proposals with their decisions, for reconciliation
          conflicts     \* disagreements between arbitrated sources

storeVars == <<receipts, decisions, escalations, history, conflicts>>

EscalationStatus == {"none", "pending", "approved", "denied"}

StoreInit == /\ receipts = << >>
             /\ decisions = << >>
             /\ escalations = [d \in Requests |-> "none"]
             /\ history = << >>
             /\ conflicts = << >>

(***************************************************************************)
(* The digest of a receipt.  The hashed body carries a fresh UUID, so      *)
(* under a collision-free SHA-256 the digest stands for the receipt it was *)
(* taken from, and the receipt id stands for the digest.                   *)
(***************************************************************************)
hashReceiptBody(receipt) == receipt.receiptId

\* A slip: the chain hangs on the first receipt.
FirstReceiptHash ==
    IF receipts = << >> THEN GENESIS ELSE hashReceiptBody(receipts[1])

lastReceiptHash ==
    IF receipts = << >> THEN GENESIS ELSE hashReceiptBody(receipts[Len(receipts)])

putReceipt(receipt) == receipts' = Append(receipts, receipt)

\* A slip: only decisions that let something happen are recorded.
PutUnlessDenied(decision) ==
    decisions' = IF decision.decision = "deny" THEN decisions
                 ELSE Append(decisions, decision)

putDecision(decision) == decisions' = Append(decisions, decision)

\* A slip: unshift for push.
UnshiftHistory(entry) == history' = <<entry>> \o history

recordHistory(entry) == history' = Append(history, entry)

recordConflict(record) == conflicts' = Append(conflicts, record)

enqueueEscalation(d) == escalations' = [escalations EXCEPT ![d] = "pending"]

(***************************************************************************)
(* Readbacks.                                                              *)
(***************************************************************************)
Decided == {decisions[i].decisionId : i \in 1..Len(decisions)}

getDecision(d) == {i \in 1..Len(decisions) : decisions[i].decisionId = d}

getReceipt(ref) == {i \in 1..Len(receipts) : receipts[i].receiptId = ref}

listEscalations == {d \in Requests : escalations[d] = "pending"}

=============================================================================
