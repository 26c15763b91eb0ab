-------------------------- MODULE MCReconciliation --------------------------
(***************************************************************************)
(* Alice writes a document and Bob reads it, under two bundles: demo lets  *)
(* Bob read and holds Alice's write, or denies it after a trusted read;    *)
(* strict holds the read and lets the write through.                       *)
(***************************************************************************)
EXTENDS Reconciliation

CONSTANTS demo, strict, broken, bobReads, aliceWrites, previewer, reporter

MCVersionOf == [b \in Bundles |-> b]

MCVocabularyOf == [b \in Bundles |-> "drp-demo"]

MCEngineEffect(bundle, proposal, priorRead) ==
    IF bundle = demo THEN IF proposal = bobReads THEN "allow"
                          ELSE IF priorRead THEN "deny" ELSE "escalate"
    ELSE IF proposal = bobReads THEN "escalate" ELSE "allow"

MCPrincipalOf == [p \in Proposals |-> IF p = aliceWrites THEN "alice" ELSE "bob"]

MCResourceOf == [p \in Proposals |-> "document"]

NoSources == [s \in {} |-> None]

Symmetry == Permutations(Requests)

(* Bounds: tokens verify and downstreams do not reject, forged tokens and  *)
(* failing downstreams being the core run's; one reader previews, and any  *)
(* other reports.                                                          *)
Bounded == /\ \A r \in Requests : job'[r] # None => job'[r].contextTrusted # "untrusted"
           /\ \A r \in Requests : ~ (pc[r] = "enacting" /\ pc'[r] = "failed")
           /\ \A x \in Readers :
                 reading'[x].at \in {"idle", "failed"} \cup
                     IF x = previewer THEN {"awaitShadow", "previewed"}
                     ELSE {"awaitPolicy", "reported"}

MCSpec == ReadersInit /\ [][ReadersNext /\ Bounded]_readerVars

=============================================================================
