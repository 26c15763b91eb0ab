# Verification of the DRP reference gateway

TLA+ specifications of the gateway in `src/`, the TLC runs that check them on
small instances, and TLAPS proofs of what matters most for every instance.

The gateway answers *action proposals* with `allow`, `deny` or `escalate`,
records each answer as a signed receipt in a hash chain, and only then lets the
action happen. Its protocol is stated in
`src/spec/drp-protocol-semantics-v0.1.md` ("the semantics" below). The modules
are translated from the code; the semantics is where the properties come from.

Paths of the code below are relative to `src/` of the repository
(`gateway.ts` is `src/gateway.ts`); `PROJECT.json` lists the exact lines of
every definition.

## 1. Inventory

| Part | State it keeps | Operations | What makes it correct |
| --- | --- | --- | --- |
| decide pipeline (`pipeline/decide.ts`) | locals of each call across its awaits | `decide`, `renderEngineDecision`, `enact` | rendered and recorded before executed; nothing denied, simulated or held executes; the version pinned is the one evaluated |
| gateway core (`gateway.ts`) | active bundle, its promise, promises of sources | `decide`, `simulateAction`, `simulatePolicy`, `reconcile`, `resolveEscalation`, `loadPolicy`, readbacks | an escalation is resolved once; a bad bundle never replaces the active one; readback finds what was answered |
| decision store (`state/store.ts`) | receipts, decisions, escalations, history, conflicts | `put*`, `record*`, `enqueue*`, `get*`, `list*` | append-only; the five collections agree |
| chain and signing (`state/chain.ts`, `state/receipts.ts`) | key pair | `hashReceiptBody`, `sign`, `verify` | each receipt names its predecessor, none twice |
| context carriage (`context/token.ts`) | none | `signContextToken`, `verifyContextToken` | only a decision already recorded here enters policy input |
| arbitration (`arbitrate/resolvers.ts`) | none | `arbitrate` | the strictest source wins, or the first of the order list |
| downstreams (`mcp/downstream.ts`) | external | `routeTool`, `call` | called at most once per permission |
| policy engines (`providers/cedar.ts`, `providers/opa.ts`, `fixtures/policy.*`) | loaded policy | `load`, `evaluate` | a forbid denies whatever surrounds it; a contradictory bundle is refused; both engines agree on the demo intent |
| action simulation (`simulate/action.ts`) | none | the decide pipeline, effect suppressed | same receipt, no effect |
| policy simulation (`simulate/policy.ts`) | none | `simulatePolicyDiff` | flipped and unchanged account for the history; what is previewed comes true |
| reconciliation (`reconcile/drift.ts`, `reconcile/patterns.ts`) | none | `findDrift`, `findProvenanceLaundering` | flags only, no action; a flag means what it says |
| front ends (`mcp/proxy.ts`, `httpServer.ts`, `scripts/claude-code-hook/`) | none | tool call, `POST /v1/decide`, hook event | the caller is told what is on record; nothing goes on without an allow when failing closed |
| chain audit (`scripts/prod-checks.ts`) | none | `checkChainAudit` | passes on an intact chain |
| telemetry (`otel.ts`) | none | `emitDecisionEvent` | the record stands whether or not the tracer takes the event |
| contract and manifest (`contract.ts`, `fixtures.ts`) | none | read from disk | no gateway state |

**Interaction.** The front ends call the core's `decide`; the core hands the
pipeline closures over its variables (`loadedPolicy`, `policyVersion`,
`arbitration`), the store and the downstreams. The pipeline calls the engine
through the promise of a loaded policy, the resolver with the answers of the
named sources, the store for its writes and a downstream for the effect.
`reconcile`, `simulatePolicy` and the audit read the history those calls leave.
`resolveEscalation` and `loadPolicy` touch the same store and the same policy
variables while decide calls wait. Nothing is persisted: a restart starts empty.

**What is hard.** The runtime is single-threaded, but every `await` lets other
calls in: several decides, resolutions and loads overlap, and what a call read
before an await may be stale after it. Policy loads settle in any order, or
fail. Downstreams answer, fail, or never answer. A commit makes three writes,
calls the tracer and only then acts: what throws in between leaves a record
without its effect, or a conflict without its decision. The hook adapter is
another process: its exchange with the server may break before or after the
decision is made. `PROJECT.json` lists each such hazard at its line with the
properties that cover it.

## 2. Modules

```
Identifiers ── DecisionStore ─┐
            └─ PolicyLoading ─┤
Arbitration ──────────────────┴─ Gateway ── GatewayProperties
```

| Module | Extends | Extended by |
| --- | --- | --- |
| `GatewayProperties` | `Gateway` | `GatewayImplementsEnactment`, `ChainAudit`, `Reconciliation`, `FrontEnds`, `GatewayProofs` |
| `GatewayImplementsEnactment` | `GatewayProperties`, and an `INSTANCE` of `Enactment` | `DocumentedClaims`, `EnactmentProofs` |
| `MCGateway` | `DocumentedClaims`, `ChainAudit` | `MCSources` |
| `MCReconciliation`, `MCFrontEnds` | `Reconciliation`, `FrontEnds` | |
| `CedarProvider` | `Arbitration` | `DemoPolicies`, and by it `MCEngines` |
| `ArbitrationProofs` | `Arbitration` | `GatewayProofs`, `EvaluationProofs` |
| `GatewayProofs` | `GatewayProperties`, `ArbitrationProofs` | `EnactmentProofs` |
| `EnactmentProofs` | `GatewayProofs`, `GatewayImplementsEnactment` | `ReplayProofs`, `FrontProofs` |
| `ReplayProofs` | `EnactmentProofs` | `RecordProofs`, `ReaderProofs` |
| `RecordProofs`, `ReaderProofs`, `FrontProofs` | `ChainAudit`, `Reconciliation`, `FrontEnds` besides | |
| `EvaluationProofs` | `MCArbitration`, `MCEngines` besides | |

`MCArbitration` extends `Arbitration`.

| Module | Models |
| --- | --- |
| `Identifiers` | the calls. Each mints its ids from a fresh UUID (`newId`), so the decision id, the receipt id and the load a call creates are the call itself |
| `DecisionStore` | the five collections of `store.ts` and their writes and lookups |
| `PolicyLoading` | `activeBundle`, `loaded`, every promise of `provider.load`, and the cached promises of the sources |
| `Arbitration` | `arbitrate`: `Reduce` is the left fold of the code, `Winner` the entry it should return |
| `Gateway` | the handlers; the whole system's `Init`, `Next`, fairness |
| `GatewayProperties` | type invariant, invariants, action properties, liveness |
| `Enactment` | abstract specification: what a runtime promises about actions |
| `GatewayImplementsEnactment` | the refinement mapping |
| `DocumentedClaims` | three statements of the documents that the core does not keep |
| `ChainAudit` | the audit of `prod-checks.ts` as a reader of the core's store |
| `Reconciliation` | `reconcile`, `findDrift`, `findProvenanceLaundering` and `simulatePolicy` beside the running core |
| `FrontEnds` | the hook adapter, `POST /v1/decide` and the MCP proxy over the running core |
| `CedarProvider` | `cedar.ts` over any bundle: ids, contradiction check, evaluation, manifest effects |
| `DemoPolicies` | `policy.cedar` with its manifest, `policy.rego`, and `opa.ts` |
| `MC*` | the instances TLC checks |
| `*Proofs` | theorems and their proofs (section 4) |

### How actions correspond to the code

An action of `Gateway` is a *segment*: what a handler does from one `await` to
the next, which is what JavaScript runs without interruption. `pc[r]` says at
which await the handler of call `r` stands, `job[r]` holds its locals.

| Action | Segment |
| --- | --- |
| `Decide` | `decide` to its first await: version and load promise are captured together, time taken, context verified. `simulated` covers `simulateAction` |
| `DecideArbitrated` | the same, with sources: vocabularies checked, every source's load begun |
| `RejectArbitration`, `RejectContext` | `decide` throws before its first await: unknown source, no registry, mixed vocabularies; or a carried context that is no string |
| `Evaluate`, `EvaluateFails` | the engine answers under the awaited policy; or the load had failed, or the engine throws |
| `Arbitrate`, `ArbitrateFails` | all sources answered: resolver, conflict record; or one of them failed |
| `Commit` | receipt, decision, history entry, telemetry event, then queue or downstream call, in one segment; a tracer that throws on the event (`Untraced`) leaves the record, fails the call and suppresses the effect |
| `CommitThrows` | a proposal without principal or resource makes the commit throw before its first write |
| `DownstreamReturns`, `DownstreamRejects` | the awaited downstream |
| `ResolveEscalation`, `RefuseResolution` | check, receipt, status and downstream call in one segment |
| `LoadPolicy`, `InstallPolicy`, `RefusePolicy` | `loadPolicy` before its await, and after it |
| `SettleLoad`, `SettleSource` | a provider finishes a load |

The modules over the core add these.

| Action | Segment |
| --- | --- |
| `Reconcile` | `reconcile` to its await: it may start the boot load |
| `Report`, `ReportFails` | the copy of the history and the two kinds of flag; or the load failed, or the engine throws on an entry |
| `SimulatePolicy` | the candidate handed to a provider of its own |
| `Preview`, `PreviewFails` | the copy, flipped and unchanged; or the candidate does not load |
| `RunHook`, `IgnoreHook` | the adapter up to its `fetch`; hook input that is not JSON ends it in silence, the JSON `null` crashes it |
| `HandlePost` | the request reaches the server, which calls `decide` |
| `HearReply`, `LoseReply` | the adapter after its `fetch`: a reply with its status, or a broken exchange |
| `callTool`, `ToolReturns` | the proxy before and after `decideAndEnact` |

In `Reconciliation` `x.asked` and `x.inForce` only observe the moment a reader
asks; no action reads them. `MCEngines` has no counterpart in the code: its
steps write a bundle policy by policy and repeat a request with a trusted read or
a payload added, so that properties can compare one verdict with the next.

Definitions marked *A slip* in the modules are plausible mistakes in the
definition that follows them. No action uses them; each is substituted for the
right definition to see that a property notices.

### Abstractions

* A receipt's digest is the receipt: its hashed body carries a fresh UUID, and
  SHA-256 is taken to be collision-free. Signatures and canonicalisation are not
  modelled; a context token verifies exactly when it was minted for a recorded
  decision.
* `now()` ticks between any two calls. Two calls of one millisecond would carry
  equal times; the laundering flags and `since` order by time.
* The event loop resumes the handlers that wait for one promise in the order in
  which they came. `Next` allows any order, which only adds behaviours; the one
  statement refuted by an overtaking call, `DecisionsAreNewestFirst`, is limited
  to calls that wait for different loads.
* Whether the tracer throws on the event of a decision is settled per call
  (`Untraced`).
* An engine is the constant operator `EngineEffect`: it depends on the bundle,
  the proposal and whether the verified prior context is a read, which is all
  the fixture policies look at. Its answer may be that it throws. The bundle
  installed by `loadPolicy` is assumed to be written for the gateway's own
  engine; one that is not fails to load.
* All sources of an arbitrated call answer in the segment in which the last of
  them is loaded. `Promise.all` hides their order from the caller, and an
  evaluation reads nothing that changes.
* Whether a downstream handles a tool is a property of the proposal (`Routed`);
  the downstreams are fixed when the gateway is created.
* The history starts empty: the `recordedTraffic` a gateway may be created with
  is a fixture of its tests, with no receipts behind it.
* A report and a preview are one step each. The code evaluates the copied entries
  one by one with awaits between, but the copy, the awaited policy and the
  candidate no longer change.
* A request to an engine is the attributes the demo policies look at; a payload
  is absent, `null`, `false`, empty or some text, since the two languages differ
  on these. Conditions are names for what they test. Cedar reports the
  determining policies in no particular order, so an evaluation is the set of
  decisions it may return.
* A policy text of a bundle is its `@id`, its effect and its scope; equal scopes
  stand for equal canonical forms of principal, action, resource and conditions.
* A front end's conversion is a table from tool names to what the policies look
  at. The exchange of the hook may fail for the adapter at any time, and a
  request the adapter has given up on may still arrive.
* Hook input is a proposal's tool, text that is not JSON, or `null`. Other JSON
  that is no object has no `tool_name` and becomes a call of the tool `unknown`,
  which the table of tools treats like any name it does not list.
* A Cedar authorization call fails for an attribute that has no Cedar value. The
  model has one, a resource kind of `null`.
* Reasons, traces, coverage, limitations and the fields of the telemetry event
  are left out.

## 3. What TLC checks

| Run | Instance | Shows |
| --- | --- | --- |
| `arbitration` | up to 3 source decisions over 3 sources, both resolvers, every order list of up to 3 names, duplicates included; 65 520 states | the fold returns the entry `Winner` describes; deny beats escalate beats allow; the order list decides; a conflict is reported exactly when another choice of resolver and order would give another effect; one more source never relaxes the outcome |
| `core` | 3 calls, the tracer throwing on one of them, 3 bundles (one broken), 2 proposals, tokens valid, absent and forged; 398 718 states up to symmetry | the safety properties of the core, when the chain audit passes, and the refinement of `Enactment` |
| `sources` | 2 calls, the tracer throwing on one, 2 proposals (one malformed), tokens valid, absent and forged, 4 sources (good, disagreeing, broken, foreign), 6 arbitration requests, under `Fairness`; 106 678 states | what a call leaves when it answers, fails or still runs; conflicts are disagreements and lead to their decisions; unanimity; no call hangs on the gateway; a good bundle takes effect |
| `engines` | the demo policy on all 1920 requests of 2 principals, and every bundle of up to 3 policies out of 25 on 8 requests; 132 128 states | where the engines agree and where not; the demo effect does not depend on Cedar's order; which deciding rules `/policy/effective` omits; what ids, forbids and the contradiction check guarantee |
| `reconcile` | a reader that previews and one that reports beside 3 calls, 3 bundles (one broken), one principal's write and another's read; 1 474 492 states up to symmetry | every drift flag has a cause; a report is of the moment it was asked for; a preview comes true, and announces what a report under its bundle flags |
| `front_ends` | 1 hook process, 1 proxied call, 1 caller that resolves or loads, 3 bundles (one broken); 102 870 states, with liveness | what the user and the agent are told is on record; failing closed needs an allow; an error reply leaves no record; every front-end call ends |
| `downstream_error`, `arbitrated_version`, `newest_first`, `contradiction`, `drift_flag`, `laundering` | as above; `laundering` and `drift_flag` with downstreams and the reporter alone | counterexamples to six documented claims (section 5) |

**Bounds.** Three calls are the least in which the cases of the core meet: a
decision, the resolution that settles it and a second resolution or a policy
replacement racing it; a decision waiting while two replacements overtake each
other; a decision that carries the token of an earlier one and a third between
them. `core` leaves malformed proposals to `sources`, where a bundle may disagree
on one and its commit then throws; in both the tracer throws on one call and not
on the others. More calls repeat these patterns, and the properties proved in section 4
hold for any number. The bundles are the demo policy, a stricter one that gives
other effects for the same proposals (so a wrong version is visible) and one
that does not load. Two calls suffice for sources, since the only state they
share is the cached promise; the requests cover one source, two that disagree, in
either order, under both resolvers, and each way to be rejected. There the foreign
bundle denies, so that a deny is on record as well (`FourAnswers`).
For the resolvers three sources and three effects already produce every tie,
and a fold treats each entry alike.

For the engines, the written bundles take policies of two ids, of one that
reads like a generated id, or of none, permit or forbid, over two scopes that
overlap and one apart: three are enough for two that clash and one between or
beside them, anonymous or named alike. A reader meets three calls: a decision
before it asks, one that overtakes it, and a replacement or a resolution; in
`reconcile` tokens verify and each reader keeps to its kind (`Bounded`), forged
tokens being the subject of `core` and `sources`. A report
looks back to the second call (`Sinces`), so that one decision may lie before
its window, one on its edge and one within. Nothing the reports and previews
say depends on downstreams, which `reconcile` leaves out. In `front_ends` the
third caller only resolves and loads (`CallerDoesNotPropose`), which is all
that other callers can do to a front end's call.

Calls on which the tracer does not throw are interchangeable and are a symmetry
set in `core`, `reconcile` and the runs that refute a document; `sources` and
`front_ends`, which check liveness, use none. `Next` has an explicit stutter
once every call is answered, so that TLC's deadlock check means what it says;
in `arbitration` and `engines` the list, the bundle and the request simply stop
growing and the check is off.

**Fairness.** Weak fairness of every handler's `Resume` (the event loop runs the
continuation of a settled promise) and of `Settle` (a load is local parsing or
instantiation that ends). None is assumed of callers, who need not call, nor of
downstreams, which need not answer: so `HandlersSettle` promises an answer or a
wait for a downstream, and no more. `FrontFairness` adds that the request of a
waiting adapter arrives and its reply is read: an exchange that does neither has
failed, which `LoseReply` (never forced) stands for. The adapter's `fetch` has no
timeout, so `FrontCallsEnd` rests on `HandlersSettle`.

**Mutants.** Each property is violated when the definition it is about is
replaced by the slip `PROJECT.json` names: for example `ChainIntact` when the
chain hangs on the first receipt, `ReplayFaithful` when the version is read
after the await, `ExecutedAtMostOnce` when a resolution does not look at the
status, `LoadsTakeEffect` when only the bundle is swapped, `ReportIsOfTheMomentAsked`
when the report is made under the policy in force by then, `FailClosedNeedsAnAllow`
when the mode of the adapter is not looked at.

## 4. What is proved

All for any set of calls, proposals, bundles, sources and arbitration requests
and any engine, from the named `ASSUME`s of the modules (ids are distinct from
`None` and genesis; `None` is no effect and not the locals of a call; an order
list may name a source (`OrderAssumption`); every source names a bundle; an
arbitration request names at least one source; an engine answers with an effect
or throws; the proposals of the front ends are well formed, no downstream
handles the hook's, and no tracer sees its events). The proofs about engines
add `EnginesAssumption`, which says of strings and of the condition evaluator
what no prover here can compute: decimal counters give different ids, none of
them is one of the written ones, `Covers` is the evaluation of the demo
conditions, and `Fails` picks out the requests without a Cedar value. TLC
evaluates it in `engines`.

* `ArbitrationProofs`: `WinnerExists` (some entry is beaten by none and beats all
  before it; by least element of a finite set of ranks), `ReduceIsWinner` (the
  fold of the code returns that entry, for a list of any length),
  `MostRestrictiveOutcome` (no source is stricter than the outcome) and
  `PriorityOutcome` (no participating source ranks before the winner).
  `ReduceIsWinner` is an induction over the list; the library's induction rule
  cannot be instantiated here, so it is argued by the least position at which
  the fold would go wrong (`LeastElement`).
* `EvaluationProofs`, of the inputs `MCArbitration` builds and with no bound on
  their length: `FoldCorrect`, `MostRestrictiveCorrect`, `OrderCorrect`,
  `ConflictCorrect` and `MoreSourcesCorrect`, from the theorems above.
  `ConflictCorrect` gives the choice that makes a difference: the priority
  resolver with the dissenting source first (`FirstOfTheOrderDecides`). Of the
  bundles `MCEngines` writes, again of any length: `RefusalCorrect`,
  `ForbidsCorrect` and `DistinctCorrect`. They go through `splitById`: what is
  kept under an id is a policy of the bundle (`KeptIsWritten`), a policy added
  under a fresh id leaves what is kept under the others (`FreshIsAdded`), and a
  forbid that matches denies whatever else is kept (`ForbidDenies`), unless the
  authorization call fails (`FailThrows`). No two
  policies share an id when the written ones differ, since a generated one counts
  the anonymous policies before it (`LaterCountMore`, `WrittenApart`).

  Of the demo policy, for any principals and agents: `EnginesCorrect`,
  `DeterminedCorrect`, `ReadbackOfPolicyCorrect`, `CarryingCorrect`. Each engine's
  answer is reduced to a table of effects by request, `CedarIntent` for Cedar
  (`CedarGivesIntent`: which policies match, by `DemoApplies`, and what the
  manifest makes of them) and `RegoIntent` for Rego (`RegoGivesIntent`: at most
  one rule gives its decision unless two allow a read). The theorems compare the
  two tables, or one table before and after an attribute is added.
  `ReadbackOfPolicyCorrect` is an equivalence: only the rule for sandbox reads is
  limited to some principals, and both engines do name it for such a read
  (`CedarNamesSandboxReads`, `RegoNamesSandboxReads`).
* `GatewayProofs`: `TypeCorrect == Spec => []TypeOK`. `TypeOK` alone is not
  inductive: that a commit writes an effect needs to know that the handler at
  `rendered` has one, and that an evaluation is under a bundle needs to know
  that a started load has one. `TypeInv` adds `JobsFitLabels` and
  `LoadsHaveBundles`; one lemma per action shows it preserved, the one for
  arbitration resting on `WinnerExists`.
* `EnactmentProofs`: `ChainCorrect`, `QueueCorrect`, `ExecutionCorrect`,
  `AtMostOnceCorrect`, `RecordsCorrect`. All are proved from one invariant,
  `EnactInv`:

  * `MintersArePast` (a receipt's minter has passed its commit) makes the next
    receipt id fresh, hence `ChainIntact`;
  * with it, `QueueMatchesChain` says a call before its commit has neither
    receipts nor resolutions (`Undecided`), and a pending escalation has only
    its own escalate receipt (`PendingIsUnresolved`);
  * so in both kinds of step that record something, `Commit` and
    `ResolveEscalation`, the decision concerned was not allowed before and is
    allowed after exactly when the step calls the downstream (`CallsGrow`);
    `ExecutionMatchesReceipts` and `ExecutedAtMostOnce` follow.

  `RecordsAgree` places the decision and the history entry of a receipt by the
  number of decisions' receipts up to it (`OwnUpTo`); a commit moves that number
  by one and a resolution by none (`CountStep`).

  `QuietSteps` shows that every other step leaves the chain, the queue and the
  calls alone. `GrowthCorrect == Spec => RecordOnlyGrows` follows from the same
  case split: the record grows in three kinds of step, each by one `Append`.

  `Refinement == Spec => ImplementsEnactment`. A quiet step is a stutter of
  `Enactment`; `Commit` and `ResolveEscalation` render one verdict (`OneVerdict`)
  and add at most one call (`CallsCounted`), by `ExecutionMatchesReceipts` the
  first for that decision. `HeldAreDecided` says that only recorded, unsimulated
  escalates are ever held.
* `ReplayProofs`: `PolicyInForceCorrect`, `PolicyMovesCorrect`, from `LoadInv`.
  `PolicyInForce` needs to know that a load in force is not begun a second time,
  with another bundle: `UnbegunLoads` says that an idle call has begun none, and
  that the boot load has not begun before the first promise is handed out.
  `LoadedAreLoadable` makes the installed bundle one that loads.
  `WaitersKeepVersions` (the load a call waits for holds a bundle of the version
  the call captured) is what replay rests on.

  `ReplayCorrect`, `ContextCorrect`, from `ReplayInv`, which is `EnactInv`,
  `LoadInv` and:

  * `RenderedAnswers`: the effect a handler holds at `rendered` is the engine's
    answer under the version it pinned when it arrived. This is where a
    replacement during the await could do harm, and `WaitersKeepVersions` is
    why it does not;
  * `JobsKnowContext`: the prior context of a call is a decision already
    recorded, so its proposal, which replay reads, no longer changes;
  * `DecidedAreChained`: a recorded decision has its own receipt in the chain,
    hence before that of any call that carries its token.
* `RecordProofs`: `ReadbackCorrect`, `ConflictsCorrect`, `ConflictsFindCorrect`,
  `UnanimityCorrect`, from `RecordInv`, which is `ReplayInv` and eight parts.

  `ReadbackCorrect` rests on `SettledAreAccounted`: a failed call on record was
  forwarded or crossed the tracer, and one off the record had not rendered or was
  malformed. That an unrecorded call has no receipt of another kind either is
  `ResolversDecideNothing`. `ConflictsFindCorrect` adds that what is logged is of
  an arbitrated call that has rendered (`LoggedAreArbitrated`) and that a decision
  record says what its handler rendered (`RecordsTell`).

  The properties of sources compute the sources' answers again from the locals of the call and of the call
  whose context it carries; `PriorsAreDecided` says that this one is on record,
  so that the answers stay (`SourcesStay`). `ArbitratedAreReduced` carries the
  outcome from `Arbitrate` on, and with it the one log entry of a disagreement,
  which is the first by `UnrenderedAreUnlogged`. `OwnReceiptsTell` ties the effect
  to the receipt: a call of the downstream without a resolution means the
  sources' outcome was allow, and `MostRestrictiveOutcome` does the rest.

  `AuditCorrect` is the equivalence of `AuditPassesUnlessResolvedBetween`. The
  k-th history entry is that of the k-th decision's receipt (`RecordsAgree`), so
  the audit holds the k-th such receipt against its predecessor in that list
  (`AuditedIs`); the link is right exactly when the two are neighbours in the
  chain (`LinkIsOk`), and by `ChainIntact` no other receipt could pass for the
  predecessor.
* `ReaderProofs`: `ReportCorrect`, `DriftExplainedCorrect`, `PreviewCorrect`,
  `RehearsalCorrect`, of `ReadersSpec`, from `ReaderInv`. A report compares what is on record with
  what a bundle makes of it now, so `EntriesAreOfCalls` says how each entry came
  about: it holds the proposal and the effect of its call, and unless the call was
  arbitrated or carried context that effect is what the bundle of the call's
  load answers. No step takes back the bundle of a load, the locals of a settled
  call or an entry (`LoadsKept`, `CallsKept`, `HistoryKept`). A waiting reader's
  load holds the bundle in force when it asked (`ReadsProperly`), from
  `PolicyInForce`. A reader may begin the boot load, so `LoadInv` is shown
  again for that step (`LoadedPolicyKeeps`), and `ReadersSpec` does not imply
  `Spec`: `ReadersEnactNothing == ReadersSpec => ImplementsEnactment` and
  `ReadersKeepPolicy == ReadersSpec => []PolicyInForce` say that it does no harm.
* `FrontProofs`: `FailClosedCorrect`, `HookCorrect`, `ErrorRepliesCorrect`,
  `ProxyCorrect`, of `FrontSpec`. Every step of a front end is a step of the
  gateway or leaves it alone (`FrontStepIsNext`), so `EnactInv` holds;
  `FrontInv` adds for each process what ties it to its call. A call that has
  answered has its receipt and one that has failed has none, unless a downstream
  or the tracer failed it (`CallFits`): the boundary on which the meaning of a 400 rests, since
  the hook's gateway is given neither. What was told follows from the effect in
  the call's locals (`HookEnds`, `ProxyEnds`), which no later step changes;
  `EnactInv` then carries it to the record, the queue and the calls, also through
  a later approval. `FrontEndsAreCallers == FrontSpec => Spec` makes every theorem
  about `Spec` one about a gateway with front ends.

Two failed proofs corrected the model. That a prompt is in the queue needs
`QueueMatchesChain` to say that an escalate outside the queue was simulated, which
it did not; and two arms of `evaluate` overlapped where a forbid applies and no
permit does.

**Only model-checked.** Liveness under fairness (`HandlersSettle`,
`LoadsTakeEffect`, `FrontCallsEnd`), which needs `ENABLED` and is outside what
TLAPS can prove. Every other property of a passing run is stated by a theorem.

## 5. Where code and documents disagree

Each of these is a run that expects a counterexample.

1. *Transport errors are reserved for malformed proposals and unknown
   identifiers* (semantics 2). A downstream that rejects makes `decide` reject
   after the allow was recorded and forwarded: the caller sees an error, the
   record says allow. Two steps: commit, reject.
2. *`/state/{decisionId}` must return the policy version actually evaluated*
   (semantics 3). An arbitrated decision evaluates the bundles of its sources
   and pins the version of the active bundle.
3. *`/policy` must reject a bundle containing a detectable contradiction*
   (semantics 6). A permit and a forbid of identical scope that both carry one
   and the same `@id` load: `splitById` keeps the later one before the check
   compares scopes.
4. *Reconcile flags what the current policy would now decide differently*
   (`drift.ts`). The replay drops the prior context, so a deny that rests on a
   trusted read is flagged under the very policy that gives it again.
5. *An artefact written by one principal then read by a different principal* is
   flagged (`patterns.ts`). The flags compare times of arrival: a read that
   arrived first, was held, and was approved after the write had been executed
   reads what was written and is not flagged.
6. */decisions is newest first* (runtime protocol). The list reverses the order
   of the commits while a decision carries the time of its arrival, and calls
   that wait for different loads overtake each other.

The passing runs also fix, exactly, behaviours a reader may not expect:

* The engines differ at four edges (`EnginesDifferOnlyAtTheEdges`): a read that
  two Rego rules allow is an evaluation error under OPA; a `null` payload is a
  payload to Rego only, a `false` one to Cedar only; a resource kind of `null` is
  an error to Cedar and a kind like any other to Rego.
* A sandbox read by a principal that is no agent is the only case in which
  `/policy/effective` omits a rule that decides (`ReadbackMissesOnlySandboxReads`);
  the build brief says that it returns the rules in force for a principal.
* `loadPolicy` leaves no receipt, as `InstallPolicy` shows without a run, although
  semantics 3 says that `/policy` and `/escalations/{id}` both produce one.
* A tracer that throws suppresses the effect of a decision whose record stands:
  an allow is never executed, an escalate never queued, and the caller sees an
  error (`ExecutionMatchesReceipts`, `QueueMatchesChain`, `ReadYourWrites`).
* A malformed proposal on which the sources disagree leaves a conflict whose
  decision nobody will find (`ConflictsFindDecisions`).
* An `@id` may read like the id the adapter gives to a policy without one
  (`anon-0`), and one of the two is then dropped; `DistinctForbidsDeny` excepts it.
* Laundering is judged by times of arrival and declared actions, so a write that
  was denied or simulated is flagged too.
* A report is judged by the policy in force when it was asked for, also when a
  replacement has answered before the report is made.
* The chain audit of the production checks reports a broken link on an intact
  chain once a decision follows a resolution (`AuditPassesUnlessResolvedBetween`).

## 6. The plan

1. **Same-version replacements**: an instance with two bundles of one
   `bundleVersion`, and what readback still tells apart.
2. **The liveness argument**: the safety half of `HandlersSettle` as an invariant
   (a handler that waits, waits for a promise that was handed out and is loading).

## 7. Not modelled

* The contents of the telemetry event (`otel.ts`); that emitting it may throw is
  modelled.
* The contract, the manifest readback and the fixtures loader: data read from
  disk. The server stub: it throws.
* The demo, the test harness and the production checks other than the chain
  audit: drivers over operations modelled here.
* Ed25519, SHA-256 and JCS (ideal), the Cedar and Rego parsers and evaluators
  (external), and what the host of the hook does after a prompt.
* Crashes: nothing is persisted, so a restart is a new gateway.
