---------------------------- MODULE Arbitration ----------------------------
(***************************************************************************)
(* The two resolvers of src/arbitrate/resolvers.ts.  A source decision is  *)
(* a record [source, effect]; the resolvers see a non-empty sequence of    *)
(* them, in the order in which the request named the sources.              *)
(*                                                                         *)
(* Reduce is the left fold of the code.  Winner says what that fold        *)
(* returns without saying how: the entry that nothing beats and that       *)
(* strictly beats every entry before it.  The other modules use Winner,    *)
(* and Arbitration's own run checks that the two agree.                    *)
(***************************************************************************)
EXTENDS Integers, Sequences, SequencesExt

Effects == {"allow", "escalate", "deny"}

Resolvers == {"most-restrictive", "priority"}

SourceDecision(S) == [source : S, effect : Effects]

\* A slip: the weights of allow and escalate exchanged.
EscalateWeakest == [deny |-> 3, escalate |-> 1, allow |-> 2]

RESTRICTIVENESS == [deny |-> 3, escalate |-> 2, allow |-> 1]

(***************************************************************************)
(* The position of a source in the caller's order list; a source the list  *)
(* does not name ranks behind all the others (MAX_SAFE_INTEGER in the      *)
(* code, any number above the length of the list here).                    *)
(***************************************************************************)
Positions(order, source) == {i \in 1..Len(order) : order[i] = source}

\* A slip: the -1 of indexOf taken for a rank.
UnlistedRankFirst(order, source) ==
    IF Positions(order, source) = {} THEN 0 ELSE Min(Positions(order, source))

rank(order, source) ==
    IF Positions(order, source) = {}
    THEN Len(order) + 1
    ELSE CHOOSE i \in Positions(order, source) :
             \A j \in Positions(order, source) : i <= j

(***************************************************************************)
(* d displaces best in the fold.                                           *)
(***************************************************************************)
Beats(d, best, resolver, order) ==
    IF resolver = "priority"
    THEN rank(order, d.source) < rank(order, best.source)
    ELSE RESTRICTIVENESS[d.effect] > RESTRICTIVENESS[best.effect]

\* A slip: ties go to the later entry.
ReduceKeepsLast(ds, resolver, order) ==
    LET best[i \in 1..Len(ds)] ==
            IF i > 1 /\ Beats(best[i - 1], ds[i], resolver, order) THEN best[i - 1] ELSE ds[i]
    IN  best[Len(ds)]

Reduce(ds, resolver, order) ==
    LET best[i \in 1..Len(ds)] ==
            IF i > 1 /\ ~ Beats(ds[i], best[i - 1], resolver, order)
            THEN best[i - 1] ELSE ds[i]
    IN  best[Len(ds)]

IsWinner(w, ds, resolver, order) ==
    \A i \in 1..Len(ds) : /\ ~ Beats(ds[i], ds[w], resolver, order)
                          /\ i < w => Beats(ds[w], ds[i], resolver, order)

Winner(ds, resolver, order) ==
    ds[CHOOSE w \in 1..Len(ds) : IsWinner(w, ds, resolver, order)]

\* A slip: only the first and the last entry are compared.
DisagreesWithFirst(ds) == ds[1].effect # ds[Len(ds)].effect

disagreed(ds) == \E i, j \in 1..Len(ds) : ds[i].effect # ds[j].effect

=============================================================================
