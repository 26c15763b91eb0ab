----------------------------- MODULE MCEngines -----------------------------
(***************************************************************************)
(* A Cedar bundle and a request put to it.  The bundle is the demo policy, *)
(* or one written policy by policy from a few that clash; the request is   *)
(* repeated with a trusted prior read carried, or with a payload added.    *)
(***************************************************************************)
EXTENDS DemoPolicies

CONSTANT MaxPolicies

(* What the proofs take from the strings of identifiers and from the       *)
(* evaluator of conditions.                                                *)
ASSUME EnginesAssumption ==
    /\ MaxPolicies \in Nat
    /\ None \notin DemoRules
    /\ \A m, n \in 0..MaxPolicies : GeneratedId(m) = GeneratedId(n) => m = n
    /\ \A n \in 0..MaxPolicies : GeneratedId(n) \notin {"a", "b"}
    /\ \A i \in DOMAIN DemoCedar, r \in Request :
           Covers(DemoCedar[i].scope, r) <=> DemoCovers(DemoCedar[i].scope, r)
    /\ \A r \in Request : Fails(r) <=> NoCedarValue(r)

VARIABLES source, request

enginesVars == <<source, request>>

(* Policies with equal and overlapping scopes, under two ids, under one    *)
(* that reads like the id of the first policy without, or under none.      *)
LikeGenerated == GeneratedId(0)

Writable ==
    [id : {"a", "b", LikeGenerated, None}, effect : {"permit", "forbid"},
     scope : {Scope({"send"}, "always"), Scope({"send"}, "priorRead"),
              Scope({"egress"}, "payload")}]

Unreadable == [id |-> None, effect |-> "unreadable", scope |-> Scope({}, "always")]

CustomEffects == [id \in {"a", "b"} |-> IF id = "a" THEN "escalate" ELSE "allow"]

Probes == {r \in Request : /\ r.declaredAction \in {"send", "egress"}
                           /\ r.principal \in Agents
                           /\ r.kind = "file" /\ ~ r.inSandbox /\ ~ r.allowedDomain
                           /\ r.payload = "absent" /\ ~ r.priorRead}

IsDemo == source = DemoCedar

EnginesInit == \/ source = DemoCedar /\ request \in Request
               \/ source = << >> /\ request \in Probes

AddPolicy == /\ ~ IsDemo
             /\ Len(source) < MaxPolicies
             /\ \E p \in Writable \cup {Unreadable} : source' = Append(source, p)
             /\ UNCHANGED request

CarryRead == /\ ~ request.priorRead
             /\ request' = [request EXCEPT !.priorRead = TRUE]
             /\ UNCHANGED source

AddPayload == /\ request.payload = "absent"
              /\ \E p \in IF IsDemo THEN Payloads \ {"absent"} ELSE {"text"} :
                     request' = [request EXCEPT !.payload = p]
              /\ UNCHANGED source

EnginesNext == AddPolicy \/ CarryRead \/ AddPayload

EnginesSpec == EnginesInit /\ [][EnginesNext]_enginesVars

Decisions(r) ==
    evaluate(splitById(source), IF IsDemo THEN DemoEffects ELSE CustomEffects, r)

EffectsOf(r) == {d.effect : d \in Decisions(r)}

effects == EffectsOf(request)

-----------------------------------------------------------------------------
(* The two engines give one effect, exactly but for four edges: a read     *)
(* that two Rego rules allow is an error there; a null payload is a        *)
(* payload to Rego only and a false one to Cedar only, which shows where   *)
(* the payload decides; a null kind is an error to Cedar and a kind like   *)
(* any other to Rego (policy.rego:112-115, cedar.ts:135, 155, opa.ts:50).  *)
EnginesDifferOnlyAtTheEdges ==
    LET twoReads == request.declaredAction = "read"
                        /\ request.inSandbox /\ request.kind \in {"crm", "artefact"}
        oddPayload == request.declaredAction = "egress"
                        /\ request.allowedDomain /\ request.payload \in {"null", "false"}
        noValue == request.kind = "null"
    IN  IsDemo => (effects = {opaEvaluate(request).effect}
                      <=> ~ twoReads /\ ~ oddPayload /\ ~ noValue)

(* Whichever determining policy Cedar names first, the demo policy has one *)
(* effect for every request, also where two permits match (cedar.ts:161).  *)
DemoEffectIsDetermined == IsDemo => Cardinality(effects) = 1

RulesNamed ==
    {d.matchedRuleId : d \in Decisions(request) \cup {opaEvaluate(request)}} \ {None}

(* Every rule a decision may name, by either engine, is one that           *)
(* /policy/effective lists for the principal that asked, but for exactly   *)
(* one case: the manifest limits sandbox-read-allow to agents, neither     *)
(* policy text does, and so it decides a sandbox read of a principal that  *)
(* is told it has no such rule (gateway.ts:161-166, 365-377).              *)
ReadbackMissesOnlySandboxReads ==
    LET missed == /\ request.principal \notin Agents
                  /\ request.declaredAction = "read" /\ request.inSandbox
    IN  IsDemo => (RulesNamed \subseteq effectivePolicy(request.principal) <=> ~ missed)

(* In a bundle that loads, whose written ids are distinct and do not read  *)
(* like generated ones, a forbid that applies always surfaces as deny,     *)
(* however its neighbours are numbered, ordered or tagged (cedar.ts:3-4,   *)
(* 38-43, 164), unless the authorization call fails.                       *)
DistinctForbidsDeny ==
    LET named == {i \in DOMAIN source : source[i].id # None}
        distinct == /\ \A i, j \in named : source[i].id = source[j].id => i = j
                    /\ \A i \in named : source[i].id # LikeGenerated
        denied == \E i \in Forbids(source) : Covers(source[i].scope, request)
    IN  Loads(source) /\ distinct /\ denied =>
            effects = {IF Fails(request) THEN "throws" ELSE "deny"}

(* A bundle refused as contradictory deserves it: one of its permits can   *)
(* never allow, whatever is asked (cedar.ts:63-69).                        *)
RefusedPermitIsDead ==
    Parses(source) /\ ~ Loads(source) =>
        \E i \in Permits(source) :
            \A r \in Request :
                Covers(source[i].scope, r) => EffectsOf(r) \cap {"allow", "escalate"} = {}

(* From one bundle that loads to another, a forbid added under an id not   *)
(* used before never lifts a deny, whatever the manifest says of the id    *)
(* (cedar.ts:164-174).                                                     *)
ForbidsNeverRelax ==
    [][source' # source /\ Forbids(source') # Forbids(source)
          /\ Loads(source) /\ Loads(source')
          /\ PolicyId(source', Len(source')) \notin DOMAIN splitById(source)
          /\ effects = {"deny"}
       => effects' = {"deny"}]_enginesVars

Strictness(effect) == IF effect = "throws" THEN 4 ELSE RESTRICTIVENESS[effect]

Cedars == Min({Strictness(effect) : effect \in effects})

Opas == Strictness(opaEvaluate(request).effect)

(* Under the demo policy neither engine answers a request more leniently   *)
(* for carrying a trusted read or a payload: scenarios 1 and 2 of          *)
(* policy.cedar:67-95 and their Rego twins.                                *)
CarryingMoreNeverRelaxes == [][IsDemo => Cedars' >= Cedars /\ Opas' >= Opas]_enginesVars

(* "/policy validation MUST reject a bundle containing a detectable        *)
(* contradiction" (semantics section 6): a permit and a forbid of          *)
(* identical scope, each with an @id written on it.  splitById keeps only  *)
(* the later of the two when they carry the same @id (cedar.ts:42), and    *)
(* the check never sees the other.                                         *)
ContradictionsAreRefused ==
    LET Annotated(i) == source[i].id # None
    IN  Loads(source) =>
            \A p \in Permits(source), f \in Forbids(source) :
                Annotated(p) /\ Annotated(f) => source[p].scope # source[f].scope

=============================================================================
