--------------------------- MODULE CedarProvider ---------------------------
(***************************************************************************)
(* The Cedar engine, src/providers/cedar.ts.  A policy text is a record    *)
(* [id, effect, scope]: its @id annotation or None, permit or forbid, and  *)
(* everything else it says.  A source is the sequence of its policies.     *)
(*                                                                         *)
(* Cedar reports the set of policies that determined an authorization in   *)
(* no particular order and the adapter takes the first, so an evaluation   *)
(* is the set of the decisions it may return.                              *)
(***************************************************************************)
EXTENDS Arbitration, TLC

CONSTANTS None,          \* no annotation, no matched rule
          Covers(_, _),  \* a scope applies to a request
          Fails(_)       \* Cedar cannot make a call of a request

Permits(source) == {i \in DOMAIN source : source[i].effect = "permit"}

Forbids(source) == {i \in DOMAIN source : source[i].effect = "forbid"}

Parses(source) == Permits(source) \cup Forbids(source) = DOMAIN source

GeneratedId(n) == "anon-" \o ToString(n)

\* A slip: the counter of anonymous policies stands still.
AnonymousAlike(source, i) == IF source[i].id = None THEN GeneratedId(0) ELSE source[i].id

(* How many of the policies before the i-th are anonymous. *)
anon(source, i) == Cardinality({j \in 1..(i - 1) : source[j].id = None})

PolicyId(source, i) ==
    IF source[i].id # None THEN source[i].id ELSE GeneratedId(anon(source, i))

(* Of two policies with one id the later replaces the earlier. *)
splitById(source) ==
    [id \in {PolicyId(source, i) : i \in DOMAIN source} |->
        source[Max({i \in DOMAIN source : PolicyId(source, i) = id})]]

\* A slip: the conditions are stripped from the key along with the effect.
ActionsOnly(policy) == policy.scope.actions

scopeKey(policy) == policy.scope

Contradictory(byId) ==
    \E p, f \in Range(byId) : /\ p.effect = "permit"
                              /\ f.effect = "forbid"
                              /\ scopeKey(p) = scopeKey(f)

Loads(source) == Parses(source) /\ ~ Contradictory(splitById(source))

-----------------------------------------------------------------------------
(* The flag the adapter derives from args.payload. *)
payloadPresent(payload) == payload \notin {"absent", "null", "empty"}

Matching(byId, effect, request) ==
    {id \in DOMAIN byId : byId[id].effect = effect /\ Covers(byId[id].scope, request)}

EngineDecision(effect, rule) == [effect |-> effect, matchedRuleId |-> rule]

Throws == EngineDecision("throws", None)

\* A slip: the manifest is asked about the determining rule of a deny too.
ManifestFirst(byId, effectById, request) ==
    LET forbids == Matching(byId, "forbid", request)
        permits == Matching(byId, "permit", request)
        Declared(id, effect) == IF id \in DOMAIN effectById THEN effectById[id] ELSE effect
    IN  CASE Fails(request) -> {Throws}
          [] ~ Fails(request) /\ forbids # {} ->
                 {EngineDecision(Declared(id, "deny"), id) : id \in forbids}
          [] ~ Fails(request) /\ forbids \cup permits = {} -> {EngineDecision("deny", None)}
          [] OTHER -> {EngineDecision(Declared(id, "allow"), id) : id \in permits}

(* An authorization call that fails throws.  In one that succeeds a forbid *)
(* overrides every permit, no match denies, and what is left is an allow   *)
(* that the manifest may turn into an escalate, by the id of the           *)
(* determining rule.                                                       *)
evaluate(byId, effectById, request) ==
    LET forbids == Matching(byId, "forbid", request)
        permits == Matching(byId, "permit", request)
        Escalates(id) == id \in DOMAIN effectById /\ effectById[id] = "escalate"
    IN  CASE Fails(request) -> {Throws}
          [] ~ Fails(request) /\ forbids # {} -> {EngineDecision("deny", id) : id \in forbids}
          [] ~ Fails(request) /\ forbids \cup permits = {} -> {EngineDecision("deny", None)}
          [] OTHER -> {EngineDecision(IF Escalates(id) THEN "escalate" ELSE "allow", id) :
                          id \in permits}

=============================================================================
