--------------------------- MODULE MCArbitration ---------------------------
(***************************************************************************)
(* Enumerates the inputs of the resolvers: every list of at most           *)
(* MaxDecisions source decisions (a source may be named twice), under each *)
(* resolver and each order list of at most MaxOrder names.                 *)
(***************************************************************************)
EXTENDS Arbitration

CONSTANTS SourceNames, MaxDecisions, MaxOrder

(* A caller can put one source before the others. *)
ASSUME OrderAssumption == MaxOrder \in Nat \ {0}

VARIABLES decisions, resolver, order

vars == <<decisions, resolver, order>>

outcome == Winner(decisions, resolver, order)

Init == /\ \E d \in SourceDecision(SourceNames) : decisions = <<d>>
        /\ resolver \in Resolvers
        /\ order \in BoundedSeq(SourceNames, MaxOrder)

AddSource == /\ Len(decisions) < MaxDecisions
             /\ \E d \in SourceDecision(SourceNames) :
                    decisions' = Append(decisions, d)
             /\ UNCHANGED <<resolver, order>>

Spec == Init /\ [][AddSource]_vars

(***************************************************************************)
(* The left fold of resolvers.ts:50-55, with its ties kept by the first    *)
(* entry, returns the entry that Winner describes.                         *)
(***************************************************************************)
ReduceReturnsWinner ==
    Reduce(decisions, resolver, order) = outcome

(***************************************************************************)
(* Most-restrictive: the outcome denies if any source denies, and allows   *)
(* only if all of them allow (resolvers.ts:4).                             *)
(***************************************************************************)
DenyBeatsEscalateBeatsAllow ==
    LET effects == {decisions[i].effect : i \in 1..Len(decisions)}
    IN  resolver = "most-restrictive" =>
            outcome.effect = IF "deny" \in effects THEN "deny"
                             ELSE IF "escalate" \in effects THEN "escalate"
                             ELSE "allow"

(***************************************************************************)
(* Priority: when the order list names some source that took part, the     *)
(* first such source of the list decides, and only its own first entry;    *)
(* when it names none, the first source of the request decides             *)
(* (resolvers.ts:45).                                                      *)
(***************************************************************************)
OrderDecides ==
    LET named == {k \in 1..Len(order) :
                    \E i \in 1..Len(decisions) : decisions[i].source = order[k]}
        entries(s) == {i \in 1..Len(decisions) : decisions[i].source = s}
    IN  resolver = "priority" =>
            outcome = IF named = {} THEN decisions[1]
                      ELSE decisions[Min(entries(order[Min(named)]))]

(* A source that is named twice is loaded once and asked the same.         *)
OneAnswerEach ==
    \A i, j \in 1..Len(decisions) :
        decisions[i].source = decisions[j].source => decisions[i].effect = decisions[j].effect

(***************************************************************************)
(* A conflict is reported exactly when the caller's choice of a resolver   *)
(* and an order decides the effect: with a conflict some other choice      *)
(* makes a difference, and without one none does (resolvers.ts:41, 44-55). *)
(***************************************************************************)
ConflictIffResolverMatters ==
    LET choices == {Winner(decisions, res, o).effect :
                       res \in Resolvers, o \in BoundedSeq(SourceNames, MaxOrder)}
    IN  OneAnswerEach => (disagreed(decisions) <=> choices # {outcome.effect})

(***************************************************************************)
(* Consulting one more source never relaxes the most-restrictive outcome.  *)
(***************************************************************************)
MoreSourcesNeverRelax ==
    [][resolver = "most-restrictive" =>
          (outcome.effect \in {"escalate", "deny"} => outcome'.effect # "allow")
          /\ (outcome.effect = "deny" => outcome'.effect = "deny")]_vars

=============================================================================
