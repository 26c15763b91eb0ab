----------------------------- MODULE MCSources -----------------------------
(***************************************************************************)
(* A gateway whose callers name arbitration sources: two that load and may *)
(* disagree, one whose bundle is broken, one of a foreign vocabulary.      *)
(***************************************************************************)
EXTENDS MCGateway

CONSTANT foreign                    \* a bundle of another vocabulary

Registry == [base |-> demo, partner |-> strict, damaged |-> broken, abroad |-> foreign]

TwoVocabularies == [b \in Bundles |-> IF b = foreign THEN "other" ELSE "drp-demo"]

(* The foreign bundle denies. *)
FourAnswers(bundle, proposal, priorRead) ==
    IF bundle = foreign THEN "deny" ELSE MCEngineEffect(bundle, proposal, priorRead)

Ask(sources, resolver, order) ==
    [sources |-> sources, resolver |-> resolver, order |-> order]

AgreeingAndNot == {Ask(<<"base">>, "most-restrictive", << >>),
                   Ask(<<"base", "partner">>, "most-restrictive", << >>),
                   Ask(<<"partner", "base">>, "priority", <<"base">>)}

Faulty == {Ask(<<"base", "damaged">>, "most-restrictive", << >>),
           Ask(<<"base", "abroad">>, "most-restrictive", << >>),
           Ask(<<"base", "nowhere">>, "priority", << >>)}

AllRequests == AgreeingAndNot \cup Faulty

=============================================================================
