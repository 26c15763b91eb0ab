---------------------------- MODULE ReaderProofs ----------------------------
(***************************************************************************)
(* What a reconciliation report and a preview of a policy mean, for any    *)
(* number of calls and readers and in whatever order decisions,            *)
(* replacements, reports and previews overlap.                             *)
(*                                                                         *)
(* A report compares what is on record with what a bundle makes of it now, *)
(* so the invariant must say how what is on record came about: under which *)
(* load, and that neither the call's locals nor the bundle of that load    *)
(* have moved since.                                                       *)
(***************************************************************************)
EXTENDS Reconciliation, ReplayProofs

(* An effect rendered for an unarbitrated call that carried no context is  *)
(* what the bundle of the load it waited for makes of the proposal.        *)
IsReplayOf(effect, r) ==
    job[r].arbitration = None =>
        /\ job[r].load \in Loads
        /\ loads[job[r].load].status # "none"
        /\ job[r].priorContext = None =>
              effect = EngineEffect(EvaluatedBundle(r), job[r].proposal, FALSE)

RenderedAreReplays ==
    \A r \in Requests : pc[r] = "rendered" => IsReplayOf(job[r].effect, r)

(* A history entry is that of a call past its commit.                      *)
IsEntryOf(entry, d) ==
    /\ pc[d] \in Past
    /\ entry.proposal = job[d].proposal
    /\ entry.decision = job[d].effect
    /\ IsReplayOf(entry.decision, d)

EntriesAreOfCalls ==
    \A i \in 1..Len(history) : IsEntryOf(history[i], history[i].decisionId)

(* A reader waits for a load that was begun, of the bundle in force when   *)
(* it asked.                                                               *)
WaitsProperly(x) ==
    /\ reading[x].load \in Loads
    /\ loads[reading[x].load].status # "none"
    /\ loads[reading[x].load].bundle = reading[x].inForce
    /\ reading[x].asked \in 0..Len(history)

(* DriftIsExplained, of one reader. *)
Explained(x) ==
    \A d \in reading[x].drift :
        \/ job[d].arbitration # None
        \/ job[d].priorContext # None
        \/ EvaluatedBundle(d) # reading[x].bundle

(* ReportIsOfTheMomentAsked, of one reader. *)
OfTheMoment(x) ==
    \A i \in 1..reading[x].asked :
        history[i].ts >= reading[x].since =>
            (history[i].decisionId \in reading[x].drift
                <=> Replayed(reading[x].inForce, history[i]) # history[i].decision)

(* A report is about what was on record, and names the policy that was in  *)
(* force when it was asked for.                                            *)
ReportsProperly(x) ==
    /\ reading[x].asked \in 0..Len(history)
    /\ \A d \in reading[x].drift : \E i \in 1..Len(history) : history[i].decisionId = d
    /\ Explained(x)
    /\ OfTheMoment(x)
    /\ reading[x].bundle = reading[x].inForce

(* A preview says of every entry it replayed what the candidate makes of   *)
(* it, if that is not what was decided, and of no other.                   *)
Flips(x, i) == Replayed(reading[x].bundle, history[i]) # history[i].decision

PreviewsProperly(x) ==
    /\ reading[x].replayed \in 0..Len(history)
    /\ Cardinality(reading[x].flipped) + reading[x].unchanged = reading[x].replayed
    /\ \A f \in reading[x].flipped : \E i \in 1..reading[x].replayed :
          /\ f.decisionId = history[i].decisionId
          /\ f.to = Replayed(reading[x].bundle, history[i])
          /\ Flips(x, i)
    /\ \A i \in 1..reading[x].replayed : Flips(x, i) =>
          \E f \in reading[x].flipped :
              /\ f.decisionId = history[i].decisionId
              /\ f.to = Replayed(reading[x].bundle, history[i])

ReadsProperly(x) ==
    /\ reading[x].at = "awaitPolicy" => WaitsProperly(x)
    /\ reading[x].at = "reported" => ReportsProperly(x)
    /\ reading[x].at = "previewed" => PreviewsProperly(x)

(* The gateway's part, and each reader's. *)
EntryInv == EnactInv /\ LoadInv /\ RenderedAreReplays /\ EntriesAreOfCalls

ReaderInv == /\ EntryInv
             /\ reading = [x \in Readers |-> reading[x]]
             /\ \A x \in Readers : ReadsProperly(x)

USE NoneIsNoRequest DEF Deciding, Past

-----------------------------------------------------------------------------
(***************************************************************************)
(* What no step takes back: a load that was begun keeps its bundle, a call *)
(* past its commit its locals, and the history its entries.                *)
(***************************************************************************)
LoadsKept ==
    \A l \in Loads : loads[l].status # "none" =>
        loads'[l].status # "none" /\ loads'[l].bundle = loads[l].bundle

CallsKept ==
    \A r \in Requests : pc[r] \in Past => pc'[r] \in Past /\ job'[r] = job[r]

HistoryKept ==
    /\ Len(history) <= Len(history')
    /\ \A i \in 1..Len(history) : history'[i] = history[i]

LEMMA StartKeepsLoads ==
    ASSUME TypeInv, NEW l \in Loads, loads[l].status = "none", NEW bundle,
           StartLoad(l, bundle)
    PROVE  LoadsKept
BY DEF TypeInv, TypeOK, StartLoad, LoadsKept

LEMMA NextKeepsLoads ==
    ASSUME LoadInv, [Next]_vars
    PROVE  LoadsKept
<1> USE DEF LoadInv
<1>1. CASE PolicyQuiet
  BY <1>1 DEF PolicyQuiet, LoadsKept
<1>2. ASSUME NEW r \in Requests, NEW proposal \in Proposals, NEW token \in Tokens,
             NEW simulated \in BOOLEAN, Decide(r, proposal, token, simulated)
      PROVE  LoadsKept
  <2>1. CASE loaded = None
    BY <1>2, <2>1, StartKeepsLoads DEF Decide, loadedPolicy, UnbegunLoads, Loads
  <2>2. CASE loaded # None
    BY <1>2, <2>2 DEF Decide, loadedPolicy, LoadsKept
  <2> QED
    BY <2>1, <2>2
<1>3. ASSUME NEW q \in Requests, NEW bundle \in Bundles, LoadPolicy(q, bundle)
      PROVE  LoadsKept
  BY <1>3, StartKeepsLoads DEF LoadPolicy, At, BeginReplacement, UnbegunLoads, Loads
<1>4. ASSUME NEW q \in Requests, InstallPolicy(q)
      PROVE  LoadsKept
  BY <1>4 DEF InstallPolicy, SwapPolicy, LoadsKept
<1>5. ASSUME NEW l \in Loads, SettleLoad(l)
      PROVE  LoadsKept
  BY <1>5 DEF SettleLoad, Outcome, LoadsKept, TypeInv, TypeOK
<1>6. CASE \E r \in Requests, proposal \in Proposals, token \in Tokens,
              simulated \in BOOLEAN : Decide(r, proposal, token, simulated)
  BY <1>2, <1>6, Zenon
<1> QED
  BY <1>1, <1>3, <1>4, <1>5, <1>6, PolicySteps

LEMMA NextKeepsCalls ==
    ASSUME TypeInv, [Next]_vars
    PROVE  CallsKept
<1> USE DEF CallsKept
<1>1. CASE Quiet
  BY <1>1 DEF Quiet
<1>2. ASSUME NEW r \in Requests, Commit(r)
      PROVE  CallsKept
  <2>1. /\ pc'[r] \in Past /\ UNCHANGED job
        /\ \A q \in Requests \ {r} : pc'[q] = pc[q]
    BY <1>2, CommitMoves DEF Commit
  <2> QED
    BY <2>1
<1>3. ASSUME NEW q \in Requests, NEW d \in Requests, NEW approved \in BOOLEAN,
             ResolveEscalation(q, d, approved)
      PROVE  CallsKept
  <2>1. /\ pc'[q] \in Past /\ UNCHANGED job
        /\ \A r \in Requests \ {q} : pc'[r] = pc[r]
    BY <1>3, ResolveMoves DEF ResolveEscalation
  <2> QED
    BY <2>1
<1>4. CASE \E q, d \in Requests, approved \in BOOLEAN : ResolveEscalation(q, d, approved)
  BY <1>3, <1>4, Zenon
<1> QED
  BY <1>1, <1>2, <1>4, QuietSteps

LEMMA HistorySteps ==
    ASSUME TypeInv, [Next]_vars
    PROVE  /\ HistoryKept
           /\ \/ UNCHANGED history
              \/ \E r \in Requests : Commit(r)
<1>1. CASE UNCHANGED history
  BY <1>1 DEF HistoryKept, TypeInv, TypeOK
<1>2. ASSUME NEW r \in Requests, Commit(r)
      PROVE  HistoryKept
  <2>1. history \in Seq(Entry) /\ history' = Append(history, HistoryEntry(r))
    BY <1>2 DEF Commit, recordHistory, TypeInv, TypeOK
  <2> QED
    BY <2>1 DEF HistoryKept
<1>3. \/ UNCHANGED history
      \/ \E r \in Requests : Commit(r)
  BY QuietSteps, Zenon DEF Quiet, ResolveEscalation
<1> QED
  BY <1>1, <1>2, <1>3

(* A call that has rendered got there by rendering.                        *)
LEMMA RenderSteps ==
    ASSUME TypeInv, [Next]_vars, NEW r \in Requests, pc'[r] = "rendered"
    PROVE  \/ pc[r] = "rendered" /\ job'[r] = job[r]
           \/ Evaluate(r)
           \/ Arbitrate(r)
<1> USE DEF TypeInv, TypeOK
<1>1. CASE RecordQuiet
  BY <1>1 DEF RecordQuiet
<1>2. CASE Arrives
  <2>1. PICK q \in Requests : /\ \E new : job' = [job EXCEPT ![q] = new]
                              /\ \/ pc' = [pc EXCEPT ![q] = "awaitPolicy"]
                                 \/ pc' = [pc EXCEPT ![q] = "awaitSources"]
    BY <1>2 DEF Arrives, Arrive, Goto
  <2> QED
    BY <2>1
<1>3. ASSUME NEW q \in Requests, Evaluate(q) \/ Arbitrate(q)
      PROVE  \/ q = r
             \/ pc[r] = "rendered" /\ job'[r] = job[r]
  BY <1>3 DEF Evaluate, Arbitrate, Render, Goto
<1>4. ASSUME NEW q \in Requests, Commit(q)
      PROVE  pc[r] = "rendered" /\ job'[r] = job[r]
  <2>1. /\ pc'[q] \in Past /\ UNCHANGED job
        /\ \A s \in Requests \ {q} : pc'[s] = pc[s]
    <3> HIDE DEF TypeInv, TypeOK
    <3> QED
      BY <1>4, CommitMoves DEF Commit
  <2> QED
    BY <2>1
<1>5. ASSUME NEW q \in Requests, NEW d \in Requests, NEW approved \in BOOLEAN,
             ResolveEscalation(q, d, approved)
      PROVE  pc[r] = "rendered" /\ job'[r] = job[r]
  <2>1. /\ pc'[q] \in Past /\ UNCHANGED job
        /\ \A s \in Requests \ {q} : pc'[s] = pc[s]
    <3> HIDE DEF TypeInv, TypeOK
    <3> QED
      BY <1>5, ResolveMoves DEF ResolveEscalation
  <2> QED
    BY <2>1
<1> HIDE DEF TypeInv, TypeOK
<1>6. CASE \E q, d \in Requests, approved \in BOOLEAN : ResolveEscalation(q, d, approved)
  BY <1>5, <1>6, Zenon
<1> QED
  BY <1>1, <1>2, <1>3, <1>4, <1>6, RecordSteps

-----------------------------------------------------------------------------
(***************************************************************************)
(* The gateway's part is kept by the gateway.                              *)
(***************************************************************************)
LEMMA ReplayStays ==
    ASSUME LoadsKept, NEW r \in Requests, job'[r] = job[r],
           NEW effect, IsReplayOf(effect, r)
    PROVE  IsReplayOf(effect, r)'
BY DEF IsReplayOf, EvaluatedBundle, LoadsKept

LEMMA EvaluatedIsReplay ==
    ASSUME LoadInv, NEW r \in Requests, Evaluate(r)
    PROVE  IsReplayOf(job[r].effect, r)'
<1> DEFINE answer == Answer(r, EvaluatedBundle(r))
<1>1. pc[r] = "awaitPolicy" /\ UNCHANGED loads
      /\ job' = [job EXCEPT ![r].effect = answer, ![r].winner = None]
  BY DEF Evaluate, At, Render, policyVars
<1>2. /\ job[r] \in Job /\ job[r].load \in Loads /\ loads[job[r].load].status # "none"
  BY <1>1 DEF LoadInv, TypeInv, JobsFitLabels, WaitersKeepVersions
<1> HIDE DEF answer
<1>3. /\ job'[r].effect = answer
      /\ job'[r].load = job[r].load
      /\ job'[r].proposal = job[r].proposal
      /\ job'[r].priorContext = job[r].priorContext
  BY <1>1, <1>2 DEF LoadInv, TypeInv, TypeOK, Job
<1>4. job[r].priorContext = None =>
          answer = EngineEffect(EvaluatedBundle(r), job[r].proposal, FALSE)
  <2> SUFFICES ASSUME job[r].priorContext = None
               PROVE  answer = EngineEffect(EvaluatedBundle(r), job[r].proposal, FALSE)
    OBVIOUS
  <2>1. PriorRead(r) = FALSE
    BY DEF PriorRead
  <2> QED
    BY <2>1 DEF answer, Answer
<1> QED
  BY <1>1, <1>2, <1>3, <1>4 DEF IsReplayOf, EvaluatedBundle

LEMMA ArbitratedIsArbitrated ==
    ASSUME LoadInv, NEW r \in Requests, Arbitrate(r)
    PROVE  job'[r].arbitration # None
<1> DEFINE outcome == OutcomeOf(r)
<1>1. pc[r] = "awaitSources"
      /\ job' = [job EXCEPT ![r].effect = outcome.effect, ![r].winner = outcome.source]
  BY DEF Arbitrate, At, Render
<1> HIDE DEF outcome
<1>2. job[r] \in Job /\ job[r].arbitration \in Arbitrations
  BY <1>1 DEF LoadInv, TypeInv, JobsFitLabels
<1>3. job'[r].arbitration = job[r].arbitration
  BY <1>1, <1>2 DEF LoadInv, TypeInv, TypeOK, Job
<1> QED
  BY <1>2, <1>3, ProposalAssumption

LEMMA RenderedKept ==
    ASSUME LoadInv, RenderedAreReplays, [Next]_vars
    PROVE  RenderedAreReplays'
<1> SUFFICES ASSUME NEW r \in Requests, pc'[r] = "rendered"
             PROVE  IsReplayOf(job[r].effect, r)'
  BY DEF RenderedAreReplays, IsReplayOf
<1>1. CASE pc[r] = "rendered" /\ job'[r] = job[r]
  <2>1. IsReplayOf(job[r].effect, r)
    BY <1>1 DEF RenderedAreReplays
  <2>2. LoadsKept
    BY NextKeepsLoads
  <2> QED
    BY <1>1, <2>1, <2>2 DEF IsReplayOf, EvaluatedBundle, LoadsKept
<1>2. CASE Arbitrate(r)
  BY <1>2, ArbitratedIsArbitrated DEF IsReplayOf
<1>3. TypeInv
  BY DEF LoadInv
<1> QED
  BY <1>1, <1>2, <1>3, RenderSteps, EvaluatedIsReplay

(* An entry stays the entry of its call. *)
LEMMA EntryStays ==
    ASSUME LoadInv, EntriesAreOfCalls, LoadsKept, CallsKept, HistoryKept,
           NEW i \in 1..Len(history)
    PROVE  IsEntryOf(history[i], history[i].decisionId)'
<1> DEFINE entry == history[i]
           d == entry.decisionId
<1>1. d \in Requests
  <2>1. entry \in Entry
    BY ElementOfSeq DEF LoadInv, TypeInv, TypeOK
  <2> QED
    BY <2>1 DEF Entry
<1>2. /\ pc[d] \in Past
      /\ entry.proposal = job[d].proposal /\ entry.decision = job[d].effect
      /\ IsReplayOf(entry.decision, d)
  BY DEF EntriesAreOfCalls, IsEntryOf
<1>3. pc'[d] \in Past /\ job'[d] = job[d] /\ history'[i] = entry
  BY <1>1, <1>2 DEF CallsKept, HistoryKept
<1> HIDE DEF entry, d
<1>4. /\ entry.proposal = job'[d].proposal /\ entry.decision = job'[d].effect
      /\ job'[d].arbitration = None =>
            /\ job'[d].load \in Loads
            /\ loads'[job'[d].load].status # "none"
            /\ job'[d].priorContext = None =>
                  entry.decision =
                      EngineEffect(loads'[job'[d].load].bundle, job'[d].proposal, FALSE)
  BY <1>1, <1>2, <1>3 DEF IsReplayOf, EvaluatedBundle, LoadsKept
<1> QED
  BY <1>3, <1>4 DEF IsEntryOf, IsReplayOf, EvaluatedBundle, d

LEMMA EntriesKept ==
    ASSUME LoadInv, RenderedAreReplays, EntriesAreOfCalls, [Next]_vars
    PROVE  EntriesAreOfCalls'
<1>1. TypeInv /\ LoadsKept /\ CallsKept /\ HistoryKept
  BY NextKeepsLoads, NextKeepsCalls, HistorySteps DEF LoadInv
<1>2. CASE UNCHANGED history
  BY <1>1, <1>2, EntryStays DEF EntriesAreOfCalls
<1>3. ASSUME NEW r \in Requests, Commit(r)
      PROVE  EntriesAreOfCalls'
  <2> DEFINE entry == HistoryEntry(r)
             n == Len(history)
  <2>1. /\ pc[r] = "rendered" /\ UNCHANGED <<job, loads>>
        /\ history' = Append(history, entry)
    BY <1>3 DEF Commit, At, recordHistory, policyVars
  <2>2. pc'[r] \in Past
    BY <1>1, <1>3, CommitMoves
  <2>3. /\ entry.decisionId = r
        /\ entry.proposal = job[r].proposal /\ entry.decision = job[r].effect
    BY DEF HistoryEntry
  <2>4. IsReplayOf(job[r].effect, r)
    BY <2>1 DEF RenderedAreReplays
  <2> HIDE DEF entry
  <2>5. n \in Nat /\ Len(history') = n + 1 /\ history'[n + 1] = entry
    BY <1>1, <2>1 DEF TypeInv, TypeOK
  <2> SUFFICES ASSUME NEW i \in 1..(n + 1)
               PROVE  IsEntryOf(history[i], history[i].decisionId)'
    BY <2>5 DEF EntriesAreOfCalls
  <2>6. CASE i = n + 1
    <3>1. history'[i] = entry
      BY <2>5, <2>6
    <3> QED
      BY <2>1, <2>2, <2>3, <2>4, <3>1 DEF IsEntryOf, IsReplayOf, EvaluatedBundle
  <2>7. i \in 1..n \/ i = n + 1
    BY <2>5
  <2> QED
    BY <1>1, <2>6, <2>7, EntryStays
<1> QED
  BY <1>1, <1>2, <1>3, HistorySteps

LEMMA NextKeepsEntries ==
    ASSUME EntryInv, [Next]_vars
    PROVE  EntryInv' /\ LoadsKept /\ CallsKept /\ HistoryKept
BY NextKeeps, NextKeepsPolicy, RenderedKept, EntriesKept, NextKeepsLoads, NextKeepsCalls, HistorySteps
   DEF EntryInv, LoadInv

-----------------------------------------------------------------------------
(***************************************************************************)
(* A reader's step leaves the gateway's part alone but for the boot load.  *)
(***************************************************************************)
Standing == UNCHANGED <<storeVars, handlerVars>>

LEMMA LoadedPolicyKeeps ==
    ASSUME LoadInv, Standing, loadedPolicy
    PROVE  LoadInv' /\ LoadsKept
<1> USE PolicyAssumption DEF LoadInv, TypeInv, TypeOK, Loads
<1>1. /\ UNCHANGED <<activeBundle, loadedSources>>
      /\ UNCHANGED <<receipts, decisions, escalations, history, conflicts>>
      /\ UNCHANGED <<pc, job, calls, clock>>
      /\ loaded' = HandedOut
      /\ IF loaded = None
         THEN loads' = [loads EXCEPT ![BootLoad] =
                           [bundle |-> activeBundle, status |-> "pending"]]
         ELSE UNCHANGED loads
  BY DEF Standing, storeVars, handlerVars, loadedPolicy, StartLoad
<1>2. /\ HandedOut \in Loads /\ HandedOut # None
      /\ loads'[HandedOut].bundle = activeBundle
      /\ loads'[HandedOut].status # "none"
      /\ HandedOut # BootLoad => loads'[HandedOut].status = "loaded"
  BY <1>1 DEF HandedOut, PolicyInForce, UnbegunLoads
<1>3. \A l \in Loads : \/ loads'[l] = loads[l]
                       \/ /\ l = BootLoad /\ loads[l].status = "none"
                          /\ loads'[l].status = "pending"
                          /\ loads'[l].bundle = activeBundle
  BY <1>1 DEF UnbegunLoads
<1>4. TypeOK'
  <2>1. loads' \in [Loads -> [bundle : Bundles \cup {None}, status : PromiseState]]
    BY <1>1 DEF PromiseState
  <2> QED
    BY <1>1, <1>2, <2>1
<1>5. JobsFitLabels' /\ LoadsHaveBundles'
  BY <1>1, <1>3 DEF JobsFitLabels, LoadsHaveBundles
<1>6. PolicyInForce'
  BY <1>1, <1>2 DEF PolicyInForce
<1>7. WaitersKeepVersions'
  BY <1>1, <1>3 DEF WaitersKeepVersions, JobsFitLabels
<1>8. UnbegunLoads'
  BY <1>1, <1>2, <1>3 DEF UnbegunLoads
<1>9. LoadedAreLoadable' /\ LoadsKept
  BY <1>3 DEF LoadedAreLoadable, LoadsKept
<1> QED
  BY <1>4, <1>5, <1>6, <1>7, <1>8, <1>9

LEMMA StandingKeepsLoads ==
    ASSUME LoadInv, Standing, UNCHANGED policyVars \/ loadedPolicy
    PROVE  LoadInv' /\ LoadsKept
<1>1. CASE UNCHANGED policyVars
  <2>1. UNCHANGED vars
    BY <1>1 DEF Standing, vars, handlerVars, storeVars
  <2>2. LoadInv'
    BY <2>1, NextKeepsPolicy
  <2> QED
    BY <1>1, <2>2 DEF LoadsKept, policyVars
<1> QED
  BY <1>1, LoadedPolicyKeeps

LEMMA StandingKeepsEntries ==
    ASSUME EntryInv, Standing, UNCHANGED policyVars \/ loadedPolicy
    PROVE  EntryInv' /\ LoadsKept /\ CallsKept /\ HistoryKept
<1> USE DEF EntryInv
<1>1. LoadInv' /\ LoadsKept
  BY StandingKeepsLoads
<1>2. UNCHANGED <<pc, job, history>>
  BY DEF Standing, storeVars, handlerVars
<1>3. Len(history) \in Nat
  BY DEF LoadInv, TypeInv, TypeOK
<1>4. CallsKept /\ HistoryKept
  BY <1>2, <1>3 DEF CallsKept, HistoryKept
<1>5. RenderedAreReplays'
  BY <1>1, <1>2 DEF RenderedAreReplays, IsReplayOf, EvaluatedBundle, LoadsKept
<1>6. EntriesAreOfCalls'
  BY <1>1, <1>2, <1>4, EntryStays DEF EntriesAreOfCalls
<1>7. EnactInv'
  <2>1. Quiet
    BY DEF Standing, storeVars, handlerVars, Quiet
  <2> QED
    BY <1>1, <2>1, QuietKeeps DEF LoadInv
<1> QED
  BY <1>1, <1>4, <1>5, <1>6, <1>7

-----------------------------------------------------------------------------
(***************************************************************************)
(* Each reader's part.  What it waits for and what it has reported stays   *)
(* true while others move.                                                 *)
(***************************************************************************)
LEMMA ReaderStays ==
    ASSUME EntryInv, LoadsKept, CallsKept, HistoryKept,
           Len(history) \in Nat, Len(history') \in Nat,
           NEW x \in Readers, reading'[x] = reading[x], ReadsProperly(x)
    PROVE  ReadsProperly(x)'
<1> USE DEF EntryInv
<1>1. CASE reading[x].at = "awaitPolicy"
  BY <1>1 DEF ReadsProperly, WaitsProperly, LoadsKept, HistoryKept
<1>2. CASE reading[x].at = "reported"
  <2>1. ReportsProperly(x)
    BY <1>2 DEF ReadsProperly
  <2>2. \A d \in reading[x].drift :
            /\ d \in Requests
            /\ job'[d] = job[d]
            /\ job[d].arbitration = None =>
                  /\ job[d].load \in Loads /\ loads[job[d].load].status # "none"
    <3> SUFFICES ASSUME NEW d \in reading[x].drift
                 PROVE  /\ d \in Requests
                        /\ job'[d] = job[d]
                        /\ job[d].arbitration = None =>
                              job[d].load \in Loads /\ loads[job[d].load].status # "none"
      OBVIOUS
    <3>1. PICK i \in 1..Len(history) : history[i].decisionId = d
      BY <2>1 DEF ReportsProperly
    <3>2. history[i] \in Entry
      BY ElementOfSeq DEF LoadInv, TypeInv, TypeOK
    <3>3. IsEntryOf(history[i], d)
      BY <3>1 DEF EntriesAreOfCalls
    <3> QED
      BY <3>1, <3>2, <3>3 DEF Entry, IsEntryOf, IsReplayOf, CallsKept
  <2>3. Explained(x)'
    BY <2>1, <2>2 DEF ReportsProperly, Explained, EvaluatedBundle, LoadsKept
  <2>4. \A i \in 1..reading[x].asked : i \in 1..Len(history) /\ history'[i] = history[i]
    BY <2>1 DEF ReportsProperly, HistoryKept
  <2>5. OfTheMoment(x)'
    BY <2>1, <2>4 DEF ReportsProperly, OfTheMoment, Replayed
  <2>6. reading[x].asked \in 0..Len(history')
    BY <2>1 DEF ReportsProperly, HistoryKept
  <2>7. \A d \in reading[x].drift : \E i \in 1..Len(history') : history'[i].decisionId = d
    BY <2>1 DEF ReportsProperly, HistoryKept
  <2> QED
    BY <1>2, <2>1, <2>3, <2>5, <2>6, <2>7 DEF ReadsProperly, ReportsProperly
<1>3. CASE reading[x].at = "previewed"
  <2>1. PreviewsProperly(x)
    BY <1>3 DEF ReadsProperly
  <2>2. \A i \in 1..reading[x].replayed : i \in 1..Len(history) /\ history'[i] = history[i]
    BY <2>1 DEF PreviewsProperly, HistoryKept
  <2>3. reading[x].replayed \in 0..Len(history')
    BY <2>1 DEF PreviewsProperly, HistoryKept
  <2>4. \A f \in reading[x].flipped : \E i \in 1..reading[x].replayed :
            /\ f.decisionId = history[i].decisionId
            /\ f.to = Replayed(reading[x].bundle, history[i])
            /\ Flips(x, i)
    BY <2>1 DEF PreviewsProperly
  <2>5. \A i \in 1..reading[x].replayed : Flips(x, i) =>
            \E f \in reading[x].flipped :
                /\ f.decisionId = history[i].decisionId
                /\ f.to = Replayed(reading[x].bundle, history[i])
    BY <2>1 DEF PreviewsProperly
  <2>6. (\A f \in reading[x].flipped : \E i \in 1..reading[x].replayed :
            /\ f.decisionId = history[i].decisionId
            /\ f.to = Replayed(reading[x].bundle, history[i])
            /\ Flips(x, i))'
    BY <2>2, <2>4 DEF Flips, Replayed
  <2>7. (\A i \in 1..reading[x].replayed : Flips(x, i) =>
            \E f \in reading[x].flipped :
                /\ f.decisionId = history[i].decisionId
                /\ f.to = Replayed(reading[x].bundle, history[i]))'
    BY <2>2, <2>5 DEF Flips, Replayed
  <2>8. (Cardinality(reading[x].flipped) + reading[x].unchanged = reading[x].replayed)'
    BY <2>1 DEF PreviewsProperly
  <2>9. PreviewsProperly(x)'
    BY <2>3, <2>6, <2>7, <2>8 DEF PreviewsProperly
  <2> QED
    BY <1>3, <2>9 DEF ReadsProperly
<1> QED
  BY <1>1, <1>2, <1>3 DEF ReadsProperly

LEMMA ReconcileWaits ==
    ASSUME EntryInv, reading = [x \in Readers |-> reading[x]],
           NEW x \in Readers, NEW since \in Sinces, Reconcile(x, since)
    PROVE  ReadsProperly(x)'
<1>1. /\ loadedPolicy /\ UNCHANGED history
      /\ reading'[x] = [at |-> "awaitPolicy", load |-> HandedOut, since |-> since,
                        asked |-> Len(history), inForce |-> activeBundle]
  BY DEF Reconcile, Becomes, storeVars
<1>2. Len(history) \in Nat
  BY DEF EntryInv, LoadInv, TypeInv, TypeOK
<1>3. /\ HandedOut \in Loads
      /\ loads'[HandedOut].bundle = activeBundle
      /\ loads'[HandedOut].status # "none"
  <2> USE DEF EntryInv, LoadInv, TypeInv, TypeOK, Loads, HandedOut
  <2>1. CASE loaded = None
    BY <1>1, <2>1 DEF loadedPolicy, StartLoad
  <2>2. CASE loaded # None
    BY <1>1, <2>2 DEF loadedPolicy, PolicyInForce, UnbegunLoads
  <2> QED
    BY <2>1, <2>2
<1> QED
  BY <1>1, <1>2, <1>3 DEF ReadsProperly, WaitsProperly

(* A window over all entries from `since` on holds two entries of one      *)
(* decision only if they agree, so a flag is the flag of every entry.      *)
LEMMA ReportTells ==
    ASSUME EntryInv, reading = [x \in Readers |-> reading[x]],
           NEW x \in Readers, ReadsProperly(x), Report(x)
    PROVE  ReadsProperly(x)'
<1> DEFINE since == reading[x].since
           asked == reading[x].asked
           bundle == AwaitedBundle(x)
           drift == findDrift(bundle, Window(since))
<1>1. /\ WaitsProperly(x) /\ bundle = reading[x].inForce
      /\ UNCHANGED <<history, loads, job>>
  BY DEF Report, ReadsProperly, WaitsProperly, AwaitedBundle, AwaitedLoad, Becomes,
         storeVars, handlerVars, policyVars
<1>2. /\ reading'[x].at = "reported" /\ reading'[x].since = since
      /\ reading'[x].asked = asked /\ reading'[x].inForce = bundle
      /\ reading'[x].bundle = bundle /\ reading'[x].drift = drift
  BY <1>1 DEF Report, Becomes
<1>3. asked \in 0..Len(history) /\ Len(history) \in Nat
  BY <1>1 DEF WaitsProperly, EntryInv, LoadInv, TypeInv, TypeOK
<1> HIDE DEF since, asked, bundle
<1>4. \A d : d \in drift <=>
          \E i \in 1..Len(history) :
              /\ history[i].decisionId = d /\ history[i].ts >= since
              /\ Replayed(bundle, history[i]) # history[i].decision
  BY DEF findDrift, Differing, Window
<1> HIDE DEF drift
<1>5. \A i \in 1..Len(history) : IsEntryOf(history[i], history[i].decisionId)
  BY DEF EntryInv, EntriesAreOfCalls
<1>6. ASSUME NEW d \in drift
      PROVE  \/ job[d].arbitration # None
             \/ job[d].priorContext # None
             \/ EvaluatedBundle(d) # bundle
  <2>1. PICK i \in 1..Len(history) : /\ history[i].decisionId = d
                                     /\ Replayed(bundle, history[i]) # history[i].decision
    BY <1>4
  <2>2. IsEntryOf(history[i], d)
    BY <1>5, <2>1
  <2> QED
    BY <2>1, <2>2 DEF IsEntryOf, IsReplayOf, Replayed
<1>7. ASSUME NEW i \in 1..asked, history[i].ts >= since
      PROVE  history[i].decisionId \in drift
                <=> Replayed(bundle, history[i]) # history[i].decision
  <2>1. i \in 1..Len(history)
    BY <1>3
  <2>2. ASSUME NEW k \in 1..Len(history), history[k].decisionId = history[i].decisionId
        PROVE  Replayed(bundle, history[k]) # history[k].decision
                  <=> Replayed(bundle, history[i]) # history[i].decision
    BY <1>5, <2>1, <2>2 DEF IsEntryOf, Replayed
  <2> QED
    BY <1>4, <1>7, <2>1, <2>2
<1>8. Explained(x)'
  BY <1>1, <1>2, <1>6 DEF Explained, EvaluatedBundle
<1>9. OfTheMoment(x)'
  BY <1>1, <1>2, <1>7 DEF OfTheMoment, Replayed
<1>10. \A d \in drift : \E i \in 1..Len(history) : history[i].decisionId = d
  BY <1>4
<1> QED
  BY <1>1, <1>2, <1>3, <1>8, <1>9, <1>10 DEF ReadsProperly, ReportsProperly

LEMMA PreviewTells ==
    ASSUME EntryInv, reading = [x \in Readers |-> reading[x]],
           NEW x \in Readers, Preview(x)
    PROVE  ReadsProperly(x)'
<1> DEFINE bundle == reading[x].bundle
           n == Len(history)
           flips == Differing(bundle, 1..n)
           flip == [i \in flips |-> [decisionId |-> history[i].decisionId,
                                     from |-> history[i].decision,
                                     to |-> Replayed(bundle, history[i])]]
           flipped == {flip[i] : i \in flips}
<1>1. UNCHANGED history /\ n \in Nat
  BY DEF Preview, Becomes, storeVars, EntryInv, EnactInv, TypeInv, TypeOK
<1>2. flipped = {[decisionId |-> history[i].decisionId, from |-> history[i].decision,
                  to |-> Replayed(bundle, history[i])] : i \in flips}
  OBVIOUS
<1>3. reading'[x] = [at |-> "previewed", bundle |-> bundle, replayed |-> n,
                     flipped |-> flipped, unchanged |-> n - Cardinality(flips)]
  BY <1>2 DEF Preview, Becomes, Candidate, Everything
<1>4. \A i : i \in flips <=> i \in 1..n /\ Replayed(bundle, history[i]) # history[i].decision
  BY DEF Differing
<1>5. \A i \in flips : /\ flip[i].decisionId = history[i].decisionId
                       /\ flip[i].to = Replayed(bundle, history[i])
  OBVIOUS
<1>6. Cardinality(flipped) = Cardinality(flips) /\ Cardinality(flips) \in Nat
  <2>1. IsFiniteSet(1..n)
    BY <1>1, FS_Interval
  <2>2. flips \in SUBSET (1..n)
    BY <1>4
  <2>3. IsFiniteSet(flips) /\ Cardinality(flips) \in Nat
    BY <2>1, <2>2, FS_Subset, FS_CardinalityType
  <2>4. flip \in [flips -> flipped]
    OBVIOUS
  <2>5. \A i, k \in flips : flip[i] = flip[k] => i = k
    BY <1>4, <1>5, EntriesAreDistinct DEF EntryInv
  <2>6. \A f \in flipped : \E i \in flips : flip[i] = f
    OBVIOUS
  <2> HIDE DEF flips, flip, flipped
  <2>7. flip \in Bijection(flips, flipped)
    BY <2>4, <2>5, <2>6, Fun_IsBij
  <2>8. ExistsBijection(flips, flipped)
    BY <2>7, Zenon DEF ExistsBijection
  <2> QED
    BY <2>3, <2>8, FS_Bijection
<1>7. /\ \A f \in flipped : \E i \in flips : /\ f.decisionId = history[i].decisionId
                                              /\ f.to = Replayed(bundle, history[i])
      /\ \A i \in flips : \E f \in flipped : /\ f.decisionId = history[i].decisionId
                                              /\ f.to = Replayed(bundle, history[i])
  BY <1>5
<1> HIDE DEF flips, flip, flipped, bundle
<1>8. Cardinality(flipped) + (n - Cardinality(flips)) = n
  BY <1>1, <1>6
<1>9. /\ reading'[x].at = "previewed" /\ reading'[x].bundle = bundle
      /\ reading'[x].replayed = n /\ reading'[x].flipped = flipped
      /\ reading'[x].unchanged = n - Cardinality(flips)
  BY <1>3
<1>10. \A i \in flips : i \in 1..n /\ Replayed(bundle, history[i]) # history[i].decision
  BY <1>4
<1>11. /\ \A f \in flipped : \E i \in 1..n :
             /\ f.decisionId = history'[i].decisionId
             /\ f.to = Replayed(bundle, history'[i])
             /\ Replayed(bundle, history'[i]) # history'[i].decision
       /\ \A i \in 1..n : Replayed(bundle, history'[i]) # history'[i].decision =>
             \E f \in flipped : /\ f.decisionId = history'[i].decisionId
                                /\ f.to = Replayed(bundle, history'[i])
  BY <1>1, <1>4, <1>7, <1>10
<1>12. PreviewsProperly(x)'
  <2>1. (reading[x].replayed \in 0..Len(history))'
    BY <1>1, <1>9
  <2>2. (Cardinality(reading[x].flipped) + reading[x].unchanged = reading[x].replayed)'
    BY <1>8, <1>9
  <2>3. (\A f \in reading[x].flipped : \E i \in 1..reading[x].replayed :
          /\ f.decisionId = history[i].decisionId
          /\ f.to = Replayed(reading[x].bundle, history[i])
          /\ Flips(x, i))'
    BY <1>9, <1>11, ZenonT(60) DEF Flips, Replayed
  <2>4. (\A i \in 1..reading[x].replayed : Flips(x, i) =>
          \E f \in reading[x].flipped :
              /\ f.decisionId = history[i].decisionId
              /\ f.to = Replayed(reading[x].bundle, history[i]))'
    BY <1>9, <1>11 DEF Flips, Replayed
  <2> QED
    BY <2>1, <2>2, <2>3, <2>4 DEF PreviewsProperly
<1> QED
  BY <1>9, <1>12 DEF ReadsProperly

LEMMA ReadKeeps ==
    ASSUME EntryInv, reading = [x \in Readers |-> reading[x]],
           NEW x \in Readers, ReadsProperly(x), Read(x)
    PROVE  ReadsProperly(x)'
<1>1. CASE Report(x)
  BY <1>1, ReportTells
<1>2. CASE \E since \in Sinces : Reconcile(x, since)
  BY <1>2, ReconcileWaits
<1>3. CASE \/ \E candidate \in Bundles : SimulatePolicy(x, candidate)
           \/ ReportFails(x) \/ PreviewFails(x)
  <2>1. reading'[x].at \in {"awaitShadow", "failed"}
    BY <1>3 DEF SimulatePolicy, ReportFails, PreviewFails, Becomes
  <2> QED
    BY <2>1 DEF ReadsProperly
<1>4. CASE Preview(x)
  BY <1>4, PreviewTells
<1> QED
  BY <1>1, <1>2, <1>3, <1>4 DEF Read

LEMMA ReadStands ==
    ASSUME NEW x \in Readers, Read(x)
    PROVE  /\ Standing
           /\ UNCHANGED policyVars \/ loadedPolicy
           /\ \E state : reading' = [reading EXCEPT ![x] = state]
<1>1. CASE \E since \in Sinces : Reconcile(x, since)
  BY <1>1 DEF Reconcile, Becomes, Standing
<1>2. CASE \E candidate \in Bundles : SimulatePolicy(x, candidate)
  BY <1>2 DEF SimulatePolicy, Becomes, Standing
<1>3. CASE Report(x) \/ ReportFails(x) \/ Preview(x) \/ PreviewFails(x)
  BY <1>3 DEF Report, ReportFails, Preview, PreviewFails, Becomes, Standing
<1> QED
  BY <1>1, <1>2, <1>3 DEF Read

-----------------------------------------------------------------------------
LEMMA InitReaders == ReadersInit => ReaderInv
<1> SUFFICES ASSUME ReadersInit PROVE ReaderInv
  OBVIOUS
<1>1. EnactInv /\ LoadInv
  BY InitEnact, InitPolicy DEF ReadersInit
<1>2. RenderedAreReplays /\ EntriesAreOfCalls
  BY DEF ReadersInit, Init, StoreInit, RenderedAreReplays, EntriesAreOfCalls
<1>3. \A x \in Readers : ReadsProperly(x)
  BY DEF ReadersInit, NotReading, ReadsProperly
<1> QED
  BY <1>1, <1>2, <1>3 DEF ReadersInit, ReaderInv, EntryInv

LEMMA NextKeepsReaders ==
    ASSUME ReaderInv, [ReadersNext]_readerVars
    PROVE  ReaderInv'
<1> USE DEF ReaderInv
<1>1. ASSUME EntryInv', LoadsKept, CallsKept, HistoryKept,
             NEW x \in Readers, reading'[x] = reading[x]
      PROVE  ReadsProperly(x)'
  <2>1. Len(history) \in Nat /\ Len(history') \in Nat
    BY <1>1 DEF EntryInv, LoadInv, TypeInv, TypeOK
  <2> QED
    BY <1>1, <2>1, ReaderStays
<1>2. CASE [Next]_vars /\ UNCHANGED reading
  BY <1>1, <1>2, NextKeepsEntries
<1>3. ASSUME NEW x \in Readers, Read(x)
      PROVE  ReaderInv'
  <2>1. PICK state : reading' = [reading EXCEPT ![x] = state]
    BY <1>3, ReadStands
  <2>2. /\ reading' = [y \in Readers |-> reading'[y]]
        /\ \A y \in Readers \ {x} : reading'[y] = reading[y]
    BY <2>1
  <2>3. EntryInv' /\ LoadsKept /\ CallsKept /\ HistoryKept
    BY <1>3, ReadStands, StandingKeepsEntries
  <2>4. ReadsProperly(x)'
    BY <1>3, ReadKeeps
  <2> QED
    BY <1>1, <2>2, <2>3, <2>4
<1> QED
  BY <1>2, <1>3 DEF ReadersNext, readerVars

LEMMA ReaderInvariant == ReadersSpec => []ReaderInv
BY InitReaders, NextKeepsReaders, PTL DEF ReadersSpec

-----------------------------------------------------------------------------
(* Reconciliation and policy simulation flag and preview, and enact        *)
(* nothing: beside any number of them the gateway still refines Enactment. *)
(* A reader may begin the boot load, so this does not follow from          *)
(* Refinement (gateway.ts:263-284).                                        *)
THEOREM ReadersEnactNothing == ReadersSpec => ImplementsEnactment
<1>1. ReadersInit => Enactments!Init
  BY InitRefines DEF ReadersInit
<1>2. ReaderInv /\ [ReadersNext]_readerVars => [Enactments!Next]_Enactments!vars
  <2> SUFFICES ASSUME ReaderInv, [ReadersNext]_readerVars
               PROVE  [Enactments!Next]_Enactments!vars
    OBVIOUS
  <2>1. EnactInv
    BY DEF ReaderInv, EntryInv
  <2>2. CASE [Next]_vars
    BY <2>1, <2>2, StepRefines
  <2>3. ASSUME NEW x \in Readers, Read(x)
        PROVE  UNCHANGED Enactments!vars
    <3>1. Quiet
      BY <2>3, ReadStands DEF Standing, Quiet, storeVars, handlerVars
    <3> QED
      BY <2>1, <3>1, QuietRefines
  <2> QED
    BY <2>2, <2>3 DEF ReadersNext, readerVars
<1> QED
  BY <1>1, <1>2, ReaderInvariant, PTL DEF ReadersSpec, ImplementsEnactment, Enactments!Spec

(* Nor does a reader that begins the boot load upset the policy in force   *)
(* (gateway.ts:194-197, 279).                                              *)
THEOREM ReadersKeepPolicy == ReadersSpec => []PolicyInForce
<1>1. ReaderInv => PolicyInForce
  BY DEF ReaderInv, EntryInv, LoadInv
<1> QED
  BY <1>1, ReaderInvariant, PTL

-----------------------------------------------------------------------------
(* A report judges everything that was on record when it was asked for by  *)
(* the policy in force at that moment, whatever replacements and decisions *)
(* fall between the question and the copy (gateway.ts:279-281).            *)
THEOREM ReportCorrect == ReadersSpec => []ReportIsOfTheMomentAsked
<1>1. ReaderInv => ReportIsOfTheMomentAsked
  BY DEF ReaderInv, ReadsProperly, ReportsProperly, OfTheMoment, ReportIsOfTheMomentAsked,
         Reported
<1> QED
  BY <1>1, ReaderInvariant, PTL

(* A flagged decision was arbitrated, carried context, or was evaluated    *)
(* under a bundle other than the one the report names (drift.ts:34-35).    *)
THEOREM DriftExplainedCorrect == ReadersSpec => []DriftIsExplained
<1>1. ReaderInv => DriftIsExplained
  BY DEF ReaderInv, ReadsProperly, ReportsProperly, Explained, DriftIsExplained, Reported
<1> QED
  BY <1>1, ReaderInvariant, PTL

(* What a preview says of a bundle comes true once the bundle decides, and *)
(* it accounts for every entry (simulate/policy.ts:45-63).                 *)
THEOREM PreviewCorrect == ReadersSpec => []PreviewComesTrue
<1>1. ReaderInv => PreviewComesTrue
  <2> SUFFICES ASSUME ReaderInv, NEW x \in Readers, reading[x].at = "previewed"
      PROVE  /\ Cardinality(reading[x].flipped) + reading[x].unchanged = reading[x].replayed
             /\ \A i \in 1..reading[x].replayed, k \in DOMAIN history :
                  LET Foreseen == {f.to : f \in {f \in reading[x].flipped :
                                                   f.decisionId = history[i].decisionId}}
                      d == history[k].decisionId
                  IN  /\ history[k].proposal = history[i].proposal
                      /\ job[d].arbitration = None /\ job[d].priorContext = None
                      /\ EvaluatedBundle(d) = reading[x].bundle
                      => history[k].decision \in
                            IF Foreseen = {} THEN {history[i].decision} ELSE Foreseen
    BY DEF PreviewComesTrue
  <2>1. PreviewsProperly(x)
    BY DEF ReaderInv, ReadsProperly
  <2> SUFFICES ASSUME NEW i \in 1..reading[x].replayed, NEW k \in DOMAIN history,
                      history[k].proposal = history[i].proposal,
                      job[history[k].decisionId].arbitration = None,
                      job[history[k].decisionId].priorContext = None,
                      EvaluatedBundle(history[k].decisionId) = reading[x].bundle
               PROVE  LET Foreseen == {f.to : f \in {f \in reading[x].flipped :
                                                       f.decisionId = history[i].decisionId}}
                      IN  history[k].decision \in
                             IF Foreseen = {} THEN {history[i].decision} ELSE Foreseen
    BY <2>1 DEF PreviewsProperly
  <2> DEFINE Foreseen == {f.to : f \in {f \in reading[x].flipped :
                                          f.decisionId = history[i].decisionId}}
             replayed == Replayed(reading[x].bundle, history[i])
  <2>2. /\ Len(history) \in Nat /\ k \in 1..Len(history) /\ i \in 1..Len(history)
        /\ \A j \in 1..reading[x].replayed : j \in 1..Len(history)
    BY <2>1 DEF PreviewsProperly, ReaderInv, EntryInv, LoadInv, TypeInv, TypeOK
  <2>3. history[k].decision = replayed
    <3>1. IsEntryOf(history[k], history[k].decisionId)
      BY <2>2, Zenon DEF ReaderInv, EntryInv, EntriesAreOfCalls
    <3>2. history[k].decision = EngineEffect(EvaluatedBundle(history[k].decisionId),
                                             job[history[k].decisionId].proposal, FALSE)
      BY <3>1, Zenon DEF IsEntryOf, IsReplayOf
    <3>3. job[history[k].decisionId].proposal = history[i].proposal
      BY <3>1, Zenon DEF IsEntryOf
    <3> QED
      BY <3>2, <3>3, Zenon DEF Replayed
  <2>4. CASE Flips(x, i)
    <3>1. PICK f \in reading[x].flipped : f.decisionId = history[i].decisionId /\ f.to = replayed
      BY <2>1, <2>4 DEF PreviewsProperly
    <3>2. replayed \in Foreseen
      BY <3>1
    <3> QED
      BY <2>3, <3>2
  <2>5. CASE ~ Flips(x, i)
    <3>1. replayed = history[i].decision
      BY <2>5 DEF Flips
    <3>2. ASSUME NEW f \in reading[x].flipped, f.decisionId = history[i].decisionId
          PROVE  FALSE
      <4>1. PICK j \in 1..reading[x].replayed :
                f.decisionId = history[j].decisionId /\ Flips(x, j)
        BY <2>1 DEF PreviewsProperly
      <4>2. j = i
        BY <2>2, <3>2, <4>1, EntriesAreDistinct DEF ReaderInv, EntryInv
      <4> QED
        BY <2>5, <4>1, <4>2
    <3>3. Foreseen = {}
      BY <3>2
    <3> QED
      BY <2>3, <3>1, <3>3
  <2> QED
    BY <2>4, <2>5
<1> QED
  BY <1>1, ReaderInvariant, PTL

(* Of what was on record for both, a report under the previewed bundle     *)
(* flags exactly what the preview said would flip, whatever happened in    *)
(* between (gateway.ts:263-284, drift.ts:34-35).                           *)
THEOREM RehearsalCorrect == ReadersSpec => []PreviewPredictsDrift
<1>1. ReaderInv => PreviewPredictsDrift
  <2> SUFFICES ASSUME ReaderInv, NEW x \in Readers, NEW y \in Readers,
                      reading[x].at = "previewed", reading[y].at = "reported",
                      reading[x].bundle = reading[y].bundle,
                      NEW i \in 1..reading[x].replayed,
                      i <= reading[y].asked, history[i].ts >= reading[y].since
               PROVE  history[i].decisionId \in reading[y].drift
                         <=> \E f \in reading[x].flipped : f.decisionId = history[i].decisionId
    BY DEF PreviewPredictsDrift
  <2>1. PreviewsProperly(x) /\ ReportsProperly(y)
    BY DEF ReaderInv, ReadsProperly
  <2>2. Len(history) \in Nat
    BY DEF ReaderInv, EntryInv, LoadInv, TypeInv, TypeOK
  <2>3. /\ i \in 1..Len(history) /\ i \in 1..reading[y].asked
        /\ \A j \in 1..reading[x].replayed : j \in 1..Len(history)
    BY <2>1, <2>2 DEF PreviewsProperly, ReportsProperly
  <2>4. history[i].decisionId \in reading[y].drift <=> Flips(x, i)
    BY <2>1, <2>3 DEF ReportsProperly, OfTheMoment, Flips
  <2>5. Flips(x, i) <=> \E f \in reading[x].flipped : f.decisionId = history[i].decisionId
    <3>1. ASSUME NEW f \in reading[x].flipped, f.decisionId = history[i].decisionId
          PROVE  Flips(x, i)
      <4>1. PICK j \in 1..reading[x].replayed :
                f.decisionId = history[j].decisionId /\ Flips(x, j)
        BY <2>1 DEF PreviewsProperly
      <4>2. j = i
        BY <2>3, <3>1, <4>1, EntriesAreDistinct DEF ReaderInv, EntryInv
      <4> QED
        BY <4>1, <4>2
    <3>2. Flips(x, i) =>
              \E f \in reading[x].flipped : f.decisionId = history[i].decisionId
      BY <2>1 DEF PreviewsProperly
    <3> QED
      BY <3>1, <3>2
  <2> QED
    BY <2>4, <2>5
<1> QED
  BY <1>1, ReaderInvariant, PTL

=============================================================================
