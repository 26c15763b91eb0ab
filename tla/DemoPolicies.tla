---------------------------- MODULE DemoPolicies ----------------------------
(***************************************************************************)
(* One intent in two languages: fixtures/policy.cedar with its manifest,   *)
(* and fixtures/policy.rego as the OPA engine (src/providers/opa.ts) runs  *)
(* it.  A request is what either policy looks at of an engine input.       *)
(***************************************************************************)
EXTENDS CedarProvider

CONSTANTS Principals,    \* who asks
          Agents         \* those under spiffe://demo/agent/

Mutations == {"write", "delete"}

Actions == Mutations \cup {"read", "send", "egress", "execute"}

Payloads == {"absent", "null", "false", "empty", "text"}

Request == [principal : Principals, declaredAction : Actions,
            kind : {"crm", "artefact", "file", "null"}, inSandbox : BOOLEAN,
            allowedDomain : BOOLEAN, payload : Payloads, priorRead : BOOLEAN]

-----------------------------------------------------------------------------
(***************************************************************************)
(* The Cedar encoding.                                                     *)
(***************************************************************************)

(* A null kind is no value an entity attribute can have: the call fails.   *)
NoCedarValue(r) == r.kind = "null"

Holds(when, r) ==
    CASE when = "always"        -> TRUE
      [] when = "sandbox"       -> r.inSandbox
      [] when = "crm"           -> r.kind = "crm"
      [] when = "artefact"      -> r.kind = "artefact"
      [] when = "not artefact"  -> r.kind # "artefact"
      [] when = "priorRead"     -> r.priorRead
      [] when = "allowedDomain" -> r.allowedDomain
      [] when = "payload"       -> payloadPresent(r.payload)

DemoCovers(scope, r) == r.declaredAction \in scope.actions /\ Holds(scope.when, r)

Scope(actions, when) == [actions |-> actions, when |-> when]

Permit(id, actions, when) ==
    [id |-> id, effect |-> "permit", scope |-> Scope(actions, when)]

\* A slip: the deny is left to the manifest.
DeniedByTagOnly(id, actions, when) == Permit(id, actions, when)

Forbid(id, actions, when) ==
    [id |-> id, effect |-> "forbid", scope |-> Scope(actions, when)]

DemoCedar ==
    << Permit("sandbox-read-allow", {"read"}, "sandbox"),
       Permit("crm-read-allow", {"read"}, "crm"),
       Permit("artefact-read-allow", {"read"}, "artefact"),
       Permit("write-escalate", Mutations, "not artefact"),
       Permit("artefact-write-allow", Mutations, "artefact"),
       Permit("send-escalate", {"send"}, "always"),
       Forbid("composite-deny", {"send"}, "priorRead"),
       Permit("egress-allowlist", {"egress"}, "allowedDomain"),
       Forbid("egress-capability-deny", {"egress"}, "payload") >>

DemoRules == {DemoCedar[i].id : i \in DOMAIN DemoCedar}

\* A slip: one of two reads that may both match is tagged escalate.
CrmReadsEscalate ==
    [id \in DemoRules |-> IF id \in {"write-escalate", "send-escalate", "crm-read-allow"}
                          THEN "escalate" ELSE "allow"]

DemoEffects ==
    [id \in DemoRules |->
        CASE id \in {"write-escalate", "send-escalate"} -> "escalate"
          [] id \in {"composite-deny", "egress-capability-deny"} -> "deny"
          [] OTHER -> "allow"]

DemoPrincipals ==
    [id \in DemoRules |-> IF id = "sandbox-read-allow" THEN "spiffe://demo/agent/*" ELSE "*"]

\* A slip: the * within a pattern is escaped with the rest.
StarAloneMatches(pattern, principal) == pattern = "*"

principalMatches(pattern, principal) ==
    \/ pattern = "*"
    \/ pattern = "spiffe://demo/agent/*" /\ principal \in Agents

effectivePolicy(principal) ==
    {id \in DemoRules : principalMatches(DemoPrincipals[id], principal)}

-----------------------------------------------------------------------------
(***************************************************************************)
(* The Rego encoding: complete rules, each giving its decision when its    *)
(* body holds.  A body fails on a payload that is undefined or false.      *)
(***************************************************************************)
hasPayload(r) == r.payload \notin {"absent", "false", "empty"}

RegoDecisions(r) ==
    LET Rule(rule, effect, actions, body) ==
            {EngineDecision(effect, rule) : holds \in {r.declaredAction \in actions /\ body} \ {FALSE}}
    IN  UNION { Rule("sandbox-read-allow", "allow", {"read"}, r.inSandbox),
                Rule("crm-read-allow", "allow", {"read"}, r.kind = "crm"),
                Rule("artefact-read-allow", "allow", {"read"}, r.kind = "artefact"),
                Rule("write-escalate", "escalate", Mutations, r.kind # "artefact"),
                Rule("artefact-write-allow", "allow", Mutations, r.kind = "artefact"),
                Rule("composite-deny", "deny", {"send"}, r.priorRead),
                Rule("send-escalate", "escalate", {"send"}, ~ r.priorRead),
                Rule("egress-capability-deny", "deny", {"egress"}, hasPayload(r)),
                Rule("egress-allowlist", "allow", {"egress"},
                     r.allowedDomain /\ ~ hasPayload(r)) }

\* A slip: the first rule that matches decides, as if the rules were a list.
FirstRuleWins(r) ==
    IF RegoDecisions(r) = {} THEN EngineDecision("deny", None)
    ELSE CHOOSE d \in RegoDecisions(r) : TRUE

(* Two rules with different values are an evaluation error, which          *)
(* evaluate lets through.                                                  *)
opaEvaluate(r) ==
    CASE RegoDecisions(r) = {} -> EngineDecision("deny", None)
      [] Cardinality(RegoDecisions(r)) > 1 -> Throws
      [] OTHER -> CHOOSE d \in RegoDecisions(r) : TRUE

=============================================================================
