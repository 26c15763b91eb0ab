---------------------------- MODULE RecordProofs ----------------------------
(***************************************************************************)
(* What a caller finds on record once it has been answered, for any number *)
(* of calls, sources and replacements of the policy.                       *)
(*                                                                         *)
(* What the sources of a call answered is not kept: the properties compute *)
(* it again from the locals of the call and of the call whose context it   *)
(* carries.  So the invariant must say that a carried decision is on       *)
(* record, whose call's locals no longer change.                           *)
(***************************************************************************)
EXTENDS ReplayProofs, ChainAudit

(* The locals of a call before it has rendered. *)
WaitingJobs ==
    \A r \in Requests :
        /\ pc[r] \in {"idle", "loading"} => job[r] = None
        /\ pc[r] = "awaitPolicy" => job[r].arbitration = None
        /\ pc[r] \in {"awaitPolicy", "awaitSources"} => job[r].effect = None

(* A call that answered is on record; one that failed either was forwarded *)
(* or crossed the tracer, or had not come to its record and then had not   *)
(* rendered or was malformed.                                              *)
SettledAreAccounted ==
    \A r \in Requests : job[r] # None =>
        /\ pc[r] \in {"answered", "enacting"} => r \in Decided
        /\ pc[r] = "enacting" => Forwarded(r)
        /\ pc[r] = "failed" =>
              IF r \in Decided THEN Forwarded(r) \/ r \in Untraced
              ELSE job[r].effect = None \/ job[r].proposal \in Malformed

(* A receipt that is not about its own call was minted by a resolution.    *)
ResolversDecideNothing ==
    \A i \in 1..Len(receipts) :
        ~ IsOwn(receipts[i]) => job[receipts[i].receiptId] = None

(* A decision record says what its handler rendered. *)
RecordsTell ==
    \A k \in 1..Len(decisions) :
        /\ decisions[k].ts = job[decisions[k].decisionId].ts
        /\ decisions[k].winner = job[decisions[k].decisionId].winner
        /\ decisions[k].decision = job[decisions[k].decisionId].effect

PriorsAreDecided ==
    \A r \in Requests :
        job[r] # None /\ job[r].priorContext # None => job[r].priorContext \in Decided

Logged(r) == {k \in 1..Len(conflicts) : conflicts[k].decisionId = r}

(* Nothing is logged about a call that has not rendered. *)
UnrenderedAreUnlogged ==
    \A r \in Requests :
        \/ pc[r] \in {"idle", "loading", "awaitPolicy", "awaitSources"}
        \/ IsArbitrated(r) /\ job[r].effect = None
        => Logged(r) = {}

LoggedAreArbitrated ==
    \A k \in 1..Len(conflicts) : IsArbitrated(conflicts[k].decisionId)

(* The effect of an arbitrated call is the outcome of its sources, and     *)
(* their disagreement is logged once.                                      *)
IsReduced(r) ==
    /\ SourceDecisions(r) \in Seq(SourceDecision(DOMAIN SourceRegistry))
    /\ SourceDecisions(r) # << >>
    /\ job[r].arbitration \in Arbitrations
    /\ job[r].effect = OutcomeOf(r).effect
    /\ job[r].winner = OutcomeOf(r).source
    /\ ~ disagreed(SourceDecisions(r)) => Logged(r) = {}
    /\ disagreed(SourceDecisions(r)) =>
          \E k \in Logged(r) : /\ Logged(r) = {k}
                               /\ conflicts[k].winner = job[r].winner
                               /\ conflicts[k].ts = job[r].ts
                               /\ conflicts[k].sources = SourceDecisions(r)

ArbitratedAreReduced ==
    \A r \in Requests : IsArbitrated(r) /\ job[r].effect # None => IsReduced(r)

RecordParts == /\ WaitingJobs
               /\ SettledAreAccounted
               /\ ResolversDecideNothing
               /\ RecordsTell
               /\ PriorsAreDecided
               /\ UnrenderedAreUnlogged
               /\ LoggedAreArbitrated
               /\ ArbitratedAreReduced

RecordInv == ReplayInv /\ RecordParts

USE NoneIsNoRequest DEF Deciding, Past

-----------------------------------------------------------------------------
(***************************************************************************)
(* A step that records nothing and changes no locals.                      *)
(***************************************************************************)
Still ==
    /\ UNCHANGED <<receipts, decisions, conflicts, calls, job>>
    /\ \A r \in Requests :
          \/ pc'[r] = pc[r]
          \/ /\ pc'[r] = "failed" /\ pc[r] # "answered"
             /\ pc[r] = "rendered" => job[r].proposal \in Malformed
          \/ pc[r] = "enacting" /\ pc'[r] = "answered"
          \/ pc[r] \in {"idle", "loading"} /\ pc'[r] \in {"loading", "answered"}

LEMMA FailIsStill ==
    ASSUME TypeInv, NEW r \in Requests, Fail(r), pc[r] # "answered",
           pc[r] = "rendered" => job[r].proposal \in Malformed
    PROVE  Still
BY DEF TypeInv, TypeOK, Fail, Goto, storeVars, Still

LEMMA StillSteps ==
    ASSUME TypeInv, [Next]_vars
    PROVE  \/ Still
           \/ Arrives
           \/ \E r \in Requests : Evaluate(r) \/ Arbitrate(r) \/ Commit(r)
           \/ \E q, d \in Requests, approved \in BOOLEAN : ResolveEscalation(q, d, approved)
<1> USE DEF TypeInv, TypeOK
<1>1. ASSUME NEW r \in Requests, Reject(r)
      PROVE  Still
  BY <1>1, RejectTells DEF RejectAtOnce, At, Goto, Still, storeVars
<1>2. ASSUME NEW r \in Requests, Resume(r)
      PROVE  Still \/ Evaluate(r) \/ Arbitrate(r) \/ Commit(r)
  <2>1. CASE InstallPolicy(r)
    BY <2>1 DEF InstallPolicy, At, Goto, storeVars, Still
  <2>2. CASE EvaluateFails(r) \/ ArbitrateFails(r) \/ CommitThrows(r) \/ RefusePolicy(r)
    <3> HIDE DEF TypeInv
    <3> QED
      BY <2>2, FailIsStill DEF EvaluateFails, ArbitrateFails, CommitThrows, RefusePolicy, At
  <2> QED
    BY <1>2, <2>1, <2>2 DEF Resume
<1>3. ASSUME NEW r \in Requests, Return(r)
      PROVE  Still
  BY <1>3 DEF Return, DownstreamReturns, DownstreamRejects, At, Fail, Goto, storeVars, Still
<1>4. ASSUME NEW q \in Requests, NEW d \in Requests, RefuseResolution(q, d)
      PROVE  Still
  BY <1>4 DEF RefuseResolution, At, Fail, Goto, storeVars, Still
<1>5. ASSUME NEW q \in Requests, NEW bundle \in Bundles, LoadPolicy(q, bundle)
      PROVE  Still
  BY <1>5 DEF LoadPolicy, At, Goto, storeVars, Still
<1>6. CASE Settle
  BY <1>6 DEF Settle, storeVars, handlerVars, Still
<1>7. CASE UNCHANGED vars
  BY <1>7 DEF vars, storeVars, handlerVars, Still
<1> HIDE DEF TypeInv, TypeOK
<1>8. ASSUME NEW q \in Requests, Resolve(q)
      PROVE  \/ Still
             \/ \E d \in Requests, approved \in BOOLEAN : ResolveEscalation(q, d, approved)
  BY <1>4, <1>8, Zenon DEF Resolve
<1>9. ASSUME NEW r \in Requests, Propose(r)
      PROVE  Arrives
  BY <1>9, ArrivalSteps
<1> QED
  BY <1>1, <1>2, <1>3, <1>5, <1>6, <1>7, <1>8, <1>9, Zenon DEF Next, Quiescent

-----------------------------------------------------------------------------
(***************************************************************************)
(* What is computed from the locals of a call stays, and what is logged    *)
(* about it, while other calls move.                                       *)
(***************************************************************************)
LocalsOfPastStay == \A q \in Requests : pc[q] \in Past => job'[q] = job[q]

LEMMA SourcesStay ==
    ASSUME RecordInv, LocalsOfPastStay, NEW r \in Requests,
           job'[r].arbitration = job[r].arbitration,
           job'[r].proposal = job[r].proposal,
           job'[r].priorContext = job[r].priorContext,
           job[r].priorContext # None => job[r].priorContext \in Decided
    PROVE  /\ SourceDecisions(r)' = SourceDecisions(r)
           /\ OutcomeOf(r)' = OutcomeOf(r)
<1>1. job[r].priorContext # None => job'[job[r].priorContext] = job[job[r].priorContext]
  BY DecidedArePast DEF RecordInv, ReplayInv, LocalsOfPastStay, EnactInv
<1>2. PriorRead(r)' = PriorRead(r)
  BY <1>1 DEF PriorRead
<1>3. SourceDecisions(r)' = SourceDecisions(r)
  BY <1>2, Zenon DEF SourceDecisions, Answer
<1>4. OutcomeOf(r)' = OutcomeOf(r)
  BY <1>3, Zenon DEF OutcomeOf
<1> QED
  BY <1>3, <1>4

NotAbout(r) == \/ UNCHANGED conflicts
               \/ \E e : e.decisionId # r /\ conflicts' = Append(conflicts, e)

LEMMA LogStays ==
    ASSUME TypeInv, NEW r \in Requests, NotAbout(r)
    PROVE  /\ Logged(r)' = Logged(r)
           /\ \A k \in Logged(r) : conflicts'[k] = conflicts[k]
<1>1. CASE UNCHANGED conflicts
  BY <1>1 DEF Logged
<1>2. ASSUME NEW e, e.decisionId # r, conflicts' = Append(conflicts, e)
      PROVE  /\ Logged(r)' = Logged(r)
             /\ \A k \in Logged(r) : conflicts'[k] = conflicts[k]
  <2> DEFINE n == Len(conflicts)
  <2>1. conflicts \in Seq(Conflict)
    BY DEF TypeInv, TypeOK
  <2>2. /\ n \in Nat /\ Len(conflicts') = n + 1
        /\ conflicts'[n + 1] = e
        /\ \A k \in 1..n : conflicts'[k] = conflicts[k]
    BY <1>2, <2>1
  <2> QED
    BY <1>2, <2>2 DEF Logged
<1> QED
  BY <1>1, <1>2 DEF NotAbout

LEMMA ReducedStays ==
    ASSUME RecordInv, LocalsOfPastStay, NEW r \in Requests,
           job'[r] = job[r], NotAbout(r),
           IsArbitrated(r) => /\ job[r].effect = None => Logged(r) = {}
                              /\ job[r].effect # None => IsReduced(r)
    PROVE  IsArbitrated(r)' => /\ job'[r].effect = None => Logged(r)' = {}
                               /\ job'[r].effect # None => IsReduced(r)'
<1> SUFFICES ASSUME IsArbitrated(r)
             PROVE  /\ job[r].effect = None => Logged(r)' = {}
                    /\ job[r].effect # None => IsReduced(r)'
  BY DEF IsArbitrated
<1>1. /\ SourceDecisions(r)' = SourceDecisions(r)
      /\ OutcomeOf(r)' = OutcomeOf(r)
  BY SourcesStay DEF RecordInv, RecordParts, PriorsAreDecided, IsArbitrated
<1>2. /\ Logged(r)' = Logged(r)
      /\ \A k \in Logged(r) : conflicts'[k] = conflicts[k]
  BY LogStays DEF RecordInv, ReplayInv, LoadInv
<1>3. disagreed(SourceDecisions(r))' = disagreed(SourceDecisions(r))
  BY <1>1, Zenon DEF disagreed
<1> QED
  BY <1>1, <1>2, <1>3 DEF IsReduced

-----------------------------------------------------------------------------
(***************************************************************************)
(* One lemma per kind of step.                                             *)
(***************************************************************************)
LEMMA StillKeeps ==
    ASSUME RecordInv, Still
    PROVE  RecordParts'
<1> USE DEF RecordInv, RecordParts
<1>1. /\ UNCHANGED <<receipts, decisions, conflicts, calls, job>>
      /\ \A r \in Requests :
            \/ pc'[r] = pc[r]
            \/ /\ pc'[r] = "failed" /\ pc[r] # "answered"
               /\ pc[r] = "rendered" => job[r].proposal \in Malformed
            \/ pc[r] = "enacting" /\ pc'[r] = "answered"
            \/ pc[r] \in {"idle", "loading"} /\ pc'[r] \in {"loading", "answered"}
  BY DEF Still
<1>2. WaitingJobs'
  BY <1>1 DEF WaitingJobs
<1>3. SettledAreAccounted' /\ ResolversDecideNothing' /\ RecordsTell' /\ LoggedAreArbitrated'
  <2>1. Decided' = Decided /\ \A r \in Requests : Forwarded(r)' <=> Forwarded(r)
    BY <1>1 DEF Decided, Forwarded
  <2>2. \A r \in Requests : r \in Decided => pc[r] \in Past
    BY DecidedArePast DEF ReplayInv, EnactInv
  <2>3. pc \in [Requests -> Labels]
    BY DEF ReplayInv, EnactInv, TypeInv, TypeOK
  <2>4. SettledAreAccounted'
    <3> SUFFICES ASSUME NEW r \in Requests, job[r] # None
                 PROVE  /\ pc'[r] \in {"answered", "enacting"} => r \in Decided
                        /\ pc'[r] = "enacting" => Forwarded(r)
                        /\ pc'[r] = "failed" =>
                              IF r \in Decided THEN Forwarded(r) \/ r \in Untraced
                              ELSE job[r].effect = None \/ job[r].proposal \in Malformed
      BY <1>1, <2>1 DEF SettledAreAccounted
    <3>1. pc[r] \in {"awaitPolicy", "awaitSources", "rendered"} \cup Past
      BY <2>3 DEF WaitingJobs, Labels, Waiting, Settled
    <3>2. \/ pc'[r] = pc[r]
          \/ /\ pc'[r] = "failed" /\ pc[r] # "answered"
             /\ pc[r] = "rendered" => job[r].proposal \in Malformed
          \/ pc[r] = "enacting" /\ pc'[r] = "answered"
      BY <1>1, <3>1
    <3> QED
      BY <2>2, <3>1, <3>2 DEF SettledAreAccounted, WaitingJobs
  <2> QED
    BY <1>1, <2>4 DEF ResolversDecideNothing, IsOwn, RecordsTell, LoggedAreArbitrated, IsArbitrated
<1>4. PriorsAreDecided'
  BY <1>1 DEF PriorsAreDecided, Decided
<1>5. UnrenderedAreUnlogged'
  BY <1>1 DEF UnrenderedAreUnlogged, Logged, IsArbitrated
<1>6. ArbitratedAreReduced'
  <2> SUFFICES ASSUME NEW r \in Requests, IsArbitrated(r)', job'[r].effect # None
               PROVE  IsReduced(r)'
    BY DEF ArbitratedAreReduced
  <2>1. LocalsOfPastStay /\ NotAbout(r) /\ job'[r] = job[r]
    BY <1>1 DEF LocalsOfPastStay, NotAbout
  <2>2. IsArbitrated(r) => /\ job[r].effect = None => Logged(r) = {}
                           /\ job[r].effect # None => IsReduced(r)
    BY DEF UnrenderedAreUnlogged, ArbitratedAreReduced
  <2> QED
    BY <2>1, <2>2, ReducedStays
<1> QED
  BY <1>2, <1>3, <1>4, <1>5, <1>6

(* A call that is on its way to its record moves on, and nothing recorded  *)
(* is about it.                                                            *)
LEMMA OthersMove ==
    ASSUME RecordInv, NEW r \in Requests, pc[r] \notin Past, pc'[r] \in Waiting,
           \A q \in Requests \ {r} : pc'[q] = pc[q] /\ job'[q] = job[q],
           UNCHANGED <<receipts, decisions, calls>>
    PROVE  /\ SettledAreAccounted' /\ ResolversDecideNothing' /\ RecordsTell'
           /\ UNCHANGED conflicts /\ pc[r] \in {"idle", "awaitPolicy"} => LoggedAreArbitrated'
<1> USE DEF RecordInv, RecordParts
<1>1. EnactInv /\ TypeInv /\ MintersArePast
  BY DEF ReplayInv, EnactInv
<1>2. Decided' = Decided /\ \A q \in Requests : Forwarded(q)' <=> Forwarded(q)
  BY DEF Decided, Forwarded
<1>3. SettledAreAccounted'
  BY <1>2 DEF SettledAreAccounted, Waiting
<1>4. ResolversDecideNothing'
  <2>1. \A i \in 1..Len(receipts) : receipts[i].receiptId \in Requests \ {r}
    <3>1. \A i \in 1..Len(receipts) : receipts[i] \in Receipt
      BY <1>1, ElementOfSeq DEF TypeInv, TypeOK
    <3> QED
      BY <1>1, <3>1 DEF Receipt, MintersArePast
  <2> QED
    BY <2>1 DEF ResolversDecideNothing, IsOwn
<1>5. RecordsTell'
  <2>1. \A d \in Decided : d \in Requests \ {r}
    BY <1>1, DecidedArePast DEF EnactInv
  <2>2. \A k \in 1..Len(decisions) : decisions[k].decisionId \in Requests \ {r}
    BY <2>1 DEF Decided
  <2> QED
    BY <2>2 DEF RecordsTell
<1>6. ASSUME UNCHANGED conflicts, pc[r] \in {"idle", "awaitPolicy"}
      PROVE  LoggedAreArbitrated'
  <2>1. \A k \in 1..Len(conflicts) : conflicts[k] \in Conflict
    BY <1>1, ElementOfSeq DEF TypeInv, TypeOK
  <2>2. ASSUME NEW k \in 1..Len(conflicts)
        PROVE  conflicts[k].decisionId \in Requests \ {r}
    <3>1. Logged(r) = {}
      BY <1>6 DEF UnrenderedAreUnlogged
    <3> QED
      BY <2>1, <3>1 DEF Conflict, Logged
  <2> QED
    BY <1>6, <2>2 DEF LoggedAreArbitrated, IsArbitrated
<1> QED
  BY <1>3, <1>4, <1>5, <1>6

LEMMA ArrivesKeepsRecord ==
    ASSUME RecordInv, Arrives
    PROVE  RecordParts'
<1> USE DEF RecordInv, RecordParts
<1>1. PICK r \in Requests, proposal \in Proposals, token \in Tokens,
           simulated \in BOOLEAN, arbitration \in Arbitrations \cup {None},
           load \in Loads \cup {None} :
               /\ pc[r] = "idle"
               /\ Arrive(r, proposal, token, simulated, arbitration, load)
               /\ \/ arbitration = None /\ Goto(r, "awaitPolicy")
                  \/ Goto(r, "awaitSources")
  BY Zenon DEF Arrives
<1>2. /\ UNCHANGED <<receipts, decisions, conflicts, calls>>
      /\ job'[r].arbitration = arbitration
      /\ job'[r].priorContext = AdmittedContext(token)
      /\ job'[r].effect = None
      /\ \A q \in Requests \ {r} : job'[q] = job[q]
  BY <1>1 DEF Arrive, storeVars, ReplayInv, EnactInv, TypeInv, TypeOK
<1>3. /\ \/ arbitration = None /\ pc'[r] = "awaitPolicy"
         \/ pc'[r] = "awaitSources"
      /\ \A q \in Requests \ {r} : pc'[q] = pc[q]
  BY <1>1 DEF Goto, ReplayInv, EnactInv, TypeInv, TypeOK
<1>4. Decided' = Decided /\ \A q \in Requests : Logged(q)' = Logged(q)
  BY <1>2 DEF Decided, Logged
<1>5. WaitingJobs'
  BY <1>2, <1>3 DEF WaitingJobs
<1>6. SettledAreAccounted' /\ ResolversDecideNothing' /\ RecordsTell' /\ LoggedAreArbitrated'
  <2>1. pc'[r] \in Waiting /\ pc[r] = "idle"
    BY <1>1, <1>3 DEF Waiting
  <2> HIDE DEF RecordInv, RecordParts
  <2> QED
    BY <1>2, <1>3, <2>1, OthersMove
<1>7. PriorsAreDecided'
  <2>1. AdmittedContext(token) # None => AdmittedContext(token) \in Decided
    BY DEF AdmittedContext
  <2> QED
    BY <1>2, <1>4, <2>1 DEF PriorsAreDecided
<1>8. LocalsOfPastStay
  BY <1>1, <1>2 DEF LocalsOfPastStay
<1>9. UnrenderedAreUnlogged'
  <2> SUFFICES ASSUME NEW q \in Requests,
                      \/ pc'[q] \in {"idle", "loading", "awaitPolicy", "awaitSources"}
                      \/ IsArbitrated(q)' /\ job'[q].effect = None
               PROVE  Logged(q) = {}
    BY <1>4 DEF UnrenderedAreUnlogged
  <2> QED
    BY <1>1, <1>2, <1>3 DEF UnrenderedAreUnlogged, IsArbitrated
<1>10. ArbitratedAreReduced'
  <2> SUFFICES ASSUME NEW q \in Requests, IsArbitrated(q)', job'[q].effect # None
               PROVE  IsReduced(q)'
    BY DEF ArbitratedAreReduced
  <2>1. NotAbout(q) /\ job'[q] = job[q]
    BY <1>2 DEF NotAbout
  <2>2. IsArbitrated(q) => /\ job[q].effect = None => Logged(q) = {}
                           /\ job[q].effect # None => IsReduced(q)
    BY DEF UnrenderedAreUnlogged, ArbitratedAreReduced
  <2> QED
    BY <1>8, <2>1, <2>2, ReducedStays
<1> QED
  BY <1>5, <1>6, <1>7, <1>9, <1>10

(* What rendering leaves alone, whichever way the effect was found. *)
LEMMA RenderKeepsRecord ==
    ASSUME RecordInv, NEW r \in Requests, pc[r] \in {"awaitPolicy", "awaitSources"},
           NEW effect, NEW winner, Render(r, effect, winner),
           UNCHANGED <<receipts, decisions>>,
           \A q \in Requests \ {r} : NotAbout(q),
           IsArbitrated(r)' => job'[r].effect # None /\ IsReduced(r)',
           LoggedAreArbitrated'
    PROVE  RecordParts'
<1> USE DEF RecordInv, RecordParts
<1>1. job[r] \in Job
  BY DEF ReplayInv, EnactInv, TypeInv, JobsFitLabels
<1>2. /\ job' = [job EXCEPT ![r] = [job[r] EXCEPT !.effect = effect, !.winner = winner]]
      /\ pc' = [pc EXCEPT ![r] = "rendered"]
  BY DEF Render, Goto, ReplayInv, EnactInv, TypeInv, TypeOK
<1>3. /\ job'[r].priorContext = job[r].priorContext
      /\ \A q \in Requests \ {r} : job'[q] = job[q]
  BY <1>1, <1>2 DEF Job, ReplayInv, EnactInv, TypeInv, TypeOK
<1>4. /\ pc'[r] = "rendered"
      /\ \A q \in Requests \ {r} : pc'[q] = pc[q]
  BY <1>2 DEF ReplayInv, EnactInv, TypeInv, TypeOK
<1>5. WaitingJobs'
  BY <1>3, <1>4 DEF WaitingJobs
<1>6. SettledAreAccounted' /\ ResolversDecideNothing' /\ RecordsTell'
  <2>1. UNCHANGED calls /\ "rendered" \in Waiting
    BY DEF Render, Waiting
  <2> HIDE DEF RecordInv, RecordParts
  <2> QED
    BY <1>3, <1>4, <2>1, OthersMove
<1>7. PriorsAreDecided'
  <2>1. Decided' = Decided
    BY DEF Decided
  <2>2. job[r].priorContext # None => job[r].priorContext \in Decided
    BY DEF ReplayInv, JobsKnowContext
  <2> QED
    BY <1>3, <2>1, <2>2 DEF PriorsAreDecided
<1>8. LocalsOfPastStay
  BY <1>3 DEF LocalsOfPastStay
<1>9. \A q \in Requests \ {r} : Logged(q)' = Logged(q)
  BY LogStays DEF ReplayInv, LoadInv
<1>10. UnrenderedAreUnlogged'
  BY <1>3, <1>4, <1>9 DEF UnrenderedAreUnlogged, IsArbitrated
<1>11. ArbitratedAreReduced'
  <2> SUFFICES ASSUME NEW q \in Requests \ {r}, IsArbitrated(q)', job'[q].effect # None
               PROVE  IsReduced(q)'
    BY DEF ArbitratedAreReduced
  <2>1. NotAbout(q) /\ job'[q] = job[q]
    BY <1>3
  <2>2. IsArbitrated(q) => /\ job[q].effect = None => Logged(q) = {}
                           /\ job[q].effect # None => IsReduced(q)
    BY DEF UnrenderedAreUnlogged, ArbitratedAreReduced
  <2> QED
    BY <1>8, <2>1, <2>2, ReducedStays
<1> QED
  BY <1>5, <1>6, <1>7, <1>10, <1>11

LEMMA EvaluateKeepsRecord ==
    ASSUME RecordInv, NEW r \in Requests, Evaluate(r)
    PROVE  RecordParts'
<1> DEFINE answer == Answer(r, EvaluatedBundle(r))
<1>1. /\ pc[r] = "awaitPolicy"
      /\ Render(r, answer, None)
      /\ UNCHANGED <<receipts, decisions, conflicts>>
  BY DEF Evaluate, At, storeVars
<1> HIDE DEF answer
<1>2. job[r] \in Job /\ job[r].arbitration = None
  BY <1>1 DEF RecordInv, RecordParts, WaitingJobs, ReplayInv, EnactInv, TypeInv, JobsFitLabels
<1>3. job'[r].arbitration = None
  BY <1>1, <1>2 DEF Render, Job, RecordInv, ReplayInv, EnactInv, TypeInv, TypeOK
<1>4. LoggedAreArbitrated'
  <2>1. /\ UNCHANGED calls /\ pc'[r] \in Waiting
        /\ \A q \in Requests \ {r} : pc'[q] = pc[q] /\ job'[q] = job[q]
    BY <1>1 DEF Render, Goto, Waiting, RecordInv, ReplayInv, EnactInv, TypeInv, TypeOK
  <2> QED
    BY <1>1, <2>1, OthersMove
<1> QED
  BY <1>1, <1>3, <1>4, RenderKeepsRecord DEF NotAbout, IsArbitrated

LEMMA ArbitrateKeepsRecord ==
    ASSUME RecordInv, NEW r \in Requests, Arbitrate(r)
    PROVE  RecordParts'
<1> DEFINE ds == SourceDecisions(r)
           outcome == OutcomeOf(r)
           log == ConflictRecord(r)
           n == Len(conflicts)
<1> USE DEF RecordInv, RecordParts
<1>1. /\ pc[r] = "awaitSources"
      /\ Render(r, outcome.effect, outcome.source)
      /\ IF disagreed(ds) THEN conflicts' = Append(conflicts, log) ELSE UNCHANGED conflicts
      /\ UNCHANGED <<receipts, decisions>>
      /\ \A s \in SourcesOf(job[r].arbitration) :
            loadedSources[s] = "loaded" /\ ~ SourceThrows(r, s)
  BY DEF Arbitrate, At, recordConflict
<1>2. /\ TypeOK /\ job[r] \in Job
      /\ job[r].arbitration \in Arbitrations /\ Arbitrable(job[r].arbitration)
  BY <1>1 DEF ReplayInv, EnactInv, TypeInv, JobsFitLabels
<1>3. /\ ds \in Seq(SourceDecision(DOMAIN SourceRegistry)) /\ ds # << >>
      /\ outcome \in SourceDecision(DOMAIN SourceRegistry)
  BY <1>1, <1>2, OutcomeType
<1>4. /\ log.decisionId = r /\ log.ts = job[r].ts
      /\ log.winner = outcome.source /\ log.sources = ds
  BY DEF ConflictRecord
<1> HIDE DEF log, outcome, ds
<1>5. job' = [job EXCEPT ![r] = [job[r] EXCEPT !.effect = outcome.effect,
                                              !.winner = outcome.source]]
  BY <1>1, <1>2 DEF Render
<1>6. /\ job'[r].effect = outcome.effect /\ job'[r].winner = outcome.source
      /\ job'[r].ts = job[r].ts /\ job'[r].arbitration = job[r].arbitration
      /\ job'[r].proposal = job[r].proposal /\ job'[r].priorContext = job[r].priorContext
      /\ \A q \in Requests \ {r} : job'[q] = job[q]
  BY <1>2, <1>5 DEF Job, TypeOK
<1>7. LocalsOfPastStay
  BY <1>1, <1>6 DEF LocalsOfPastStay
<1>8. SourceDecisions(r)' = ds /\ OutcomeOf(r)' = outcome
  BY <1>1, <1>6, <1>7, SourcesStay DEF ReplayInv, JobsKnowContext, ds, outcome
<1>9. \A q \in Requests \ {r} : NotAbout(q)
  BY <1>1, <1>4 DEF NotAbout
<1>10. outcome.effect # None
  BY <1>3, NoneIsNoEffect DEF SourceDecision
<1>11. Logged(r) = {}
  BY <1>1 DEF UnrenderedAreUnlogged
<1>12. LoggedAreArbitrated'
  <2>1. IsArbitrated(r)'
    <3>1. job'[r] # None
      <4>1. job'[r] \in Job
        BY <1>2, <1>3, <1>5 DEF Job, SourceDecision, TypeOK
      <4> QED
        BY <4>1, NoneIsNoJob
    <3> QED
      BY <1>2, <1>6, <3>1, ProposalAssumption DEF IsArbitrated
  <2>2. \A q \in Requests \ {r} : IsArbitrated(q)' <=> IsArbitrated(q)
    BY <1>6 DEF IsArbitrated
  <2>3. /\ conflicts \in Seq(Conflict)
        /\ \A k \in 1..Len(conflicts) : conflicts[k] \in Conflict
    BY <1>2, ElementOfSeq DEF TypeOK
  <2>4. \A k \in 1..Len(conflicts) : conflicts[k].decisionId \in Requests
    BY <2>3 DEF Conflict
  <2>5. CASE UNCHANGED conflicts
    BY <2>1, <2>2, <2>4, <2>5 DEF LoggedAreArbitrated, IsArbitrated
  <2>6. CASE conflicts' = Append(conflicts, log)
    <3>1. /\ n \in Nat /\ Len(conflicts') = n + 1
          /\ conflicts'[n + 1] = log
          /\ \A k \in 1..n : conflicts'[k] = conflicts[k]
      BY <2>3, <2>6
    <3>2. ASSUME NEW k \in 1..Len(conflicts')
          PROVE  IsArbitrated(conflicts[k].decisionId)'
      <4>1. CASE k = n + 1
        BY <1>4, <2>1, <3>1, <4>1 DEF IsArbitrated
      <4>2. CASE k \in 1..n
        BY <2>1, <2>2, <2>4, <3>1, <4>2 DEF LoggedAreArbitrated, IsArbitrated
      <4> QED
        BY <3>1, <4>1, <4>2
    <3> QED
      BY <3>2 DEF LoggedAreArbitrated
  <2> QED
    BY <1>1, <2>5, <2>6
<1>13. CASE disagreed(ds)
  <2>1. conflicts \in Seq(Conflict) /\ conflicts' = Append(conflicts, log)
    BY <1>1, <1>2, <1>13 DEF TypeOK
  <2>2. /\ n \in Nat /\ Len(conflicts') = n + 1
        /\ conflicts'[n + 1] = log
        /\ \A k \in 1..n : conflicts'[k] = conflicts[k]
    BY <2>1
  <2>3. \A k \in 1..n : conflicts[k].decisionId # r
    BY <1>11 DEF Logged
  <2>4. Logged(r)' = {n + 1}
    BY <1>4, <2>2, <2>3 DEF Logged
  <2>5. disagreed(SourceDecisions(r))'
    BY <1>8, <1>13 DEF disagreed
  <2> DEFINE k == n + 1
  <2>6. k \in Logged(r)' /\ Logged(r)' = {k} /\ conflicts'[k] = log
    BY <2>2, <2>4
  <2> HIDE DEF k
  <2>7. IsReduced(r)'
    BY <1>2, <1>3, <1>4, <1>6, <1>8, <2>5, <2>6 DEF IsReduced
  <2> QED
    BY <1>1, <1>6, <1>9, <1>10, <1>12, <2>7, RenderKeepsRecord
<1>14. CASE ~ disagreed(ds)
  <2>1. Logged(r)' = {}
    BY <1>1, <1>11, <1>14 DEF Logged
  <2>2. ~ disagreed(SourceDecisions(r))'
    BY <1>8, <1>14 DEF disagreed
  <2>3. IsReduced(r)'
    BY <1>2, <1>3, <1>6, <1>8, <2>1, <2>2 DEF IsReduced
  <2> QED
    BY <1>1, <1>6, <1>9, <1>10, <1>12, <2>3, RenderKeepsRecord
<1> QED
  BY <1>13, <1>14

(* A step that may record a decision, but changes no locals and logs no    *)
(* conflict.                                                               *)
LEMMA RecordingKeeps ==
    ASSUME RecordInv, UNCHANGED <<conflicts, job>>,
           NEW r \in Requests, pc[r] \notin Past, pc'[r] \in Past,
           \A q \in Requests \ {r} : pc'[q] = pc[q],
           Decided' = Decided \/ Decided' = Decided \cup {r},
           \A q \in Requests : Forwarded(q) => Forwarded(q)',
           job[r] # None => /\ r \in Decided'
                            /\ pc'[r] = "enacting" => Forwarded(r)'
                            /\ pc'[r] = "failed" => r \in Untraced,
           ResolversDecideNothing', RecordsTell'
    PROVE  RecordParts'
<1> USE DEF RecordInv, RecordParts
<1>1. WaitingJobs'
  BY DEF WaitingJobs
<1>2. SettledAreAccounted'
  <2> SUFFICES ASSUME NEW q \in Requests, job[q] # None
               PROVE  /\ pc'[q] \in {"answered", "enacting"} => q \in Decided'
                      /\ pc'[q] = "enacting" => Forwarded(q)'
                      /\ pc'[q] = "failed" =>
                            IF q \in Decided' THEN Forwarded(q)' \/ q \in Untraced
                            ELSE job[q].effect = None \/ job[q].proposal \in Malformed
    BY DEF SettledAreAccounted
  <2>1. CASE q = r
    BY <2>1
  <2>2. CASE q # r
    <3>1. pc'[q] = pc[q] /\ (q \in Decided' <=> q \in Decided)
      BY <2>2
    <3> QED
      BY <3>1 DEF SettledAreAccounted
  <2> QED
    BY <2>1, <2>2
<1>3. PriorsAreDecided'
  BY DEF PriorsAreDecided
<1>4. UnrenderedAreUnlogged' /\ LoggedAreArbitrated'
  BY DEF UnrenderedAreUnlogged, Logged, IsArbitrated, LoggedAreArbitrated
<1>5. ArbitratedAreReduced'
  <2> SUFFICES ASSUME NEW q \in Requests, IsArbitrated(q)', job'[q].effect # None
               PROVE  IsReduced(q)'
    BY DEF ArbitratedAreReduced
  <2>1. LocalsOfPastStay /\ NotAbout(q) /\ job'[q] = job[q]
    BY DEF LocalsOfPastStay, NotAbout
  <2>2. IsArbitrated(q) => /\ job[q].effect = None => Logged(q) = {}
                           /\ job[q].effect # None => IsReduced(q)
    BY DEF UnrenderedAreUnlogged, ArbitratedAreReduced
  <2> QED
    BY <2>1, <2>2, ReducedStays
<1> QED
  BY <1>1, <1>2, <1>3, <1>4, <1>5

(* Nothing is forwarded by an append but what was and the call appended.   *)
LEMMA ForwardedGrows ==
    ASSUME TypeInv, NEW d \in Requests, calls' = calls \/ calls' = Append(calls, d)
    PROVE  /\ \A q \in Requests : Forwarded(q) => Forwarded(q)'
           /\ calls' = Append(calls, d) => Forwarded(d)'
<1>1. calls \in Seq(Requests)
  BY DEF TypeInv, TypeOK
<1>2. CASE calls' = Append(calls, d)
  <2>1. /\ Len(calls) \in Nat
        /\ Len(calls') = Len(calls) + 1
        /\ calls'[Len(calls) + 1] = d
        /\ \A i \in 1..Len(calls) : calls'[i] = calls[i]
    BY <1>1, <1>2
  <2>2. Forwarded(d)'
    BY <2>1 DEF Forwarded
  <2>3. \A q \in Requests : Forwarded(q) => Forwarded(q)'
    BY <2>1 DEF Forwarded
  <2> QED
    BY <2>2, <2>3
<1>3. CASE calls' = calls /\ calls' # Append(calls, d)
  BY <1>3 DEF Forwarded
<1> QED
  BY <1>2, <1>3

(* A receipt is appended by a call that has none. *)
LEMMA MintersStay ==
    ASSUME RecordInv, UNCHANGED job, NEW x \in Receipt, receipts' = Append(receipts, x),
           ~ IsOwn(x) => job[x.receiptId] = None
    PROVE  ResolversDecideNothing'
<1>1. /\ Len(receipts) \in Nat
      /\ Len(receipts') = Len(receipts) + 1
      /\ receipts'[Len(receipts) + 1] = x
      /\ \A i \in 1..Len(receipts) : receipts'[i] = receipts[i]
  BY Appended DEF RecordInv, ReplayInv, LoadInv
<1>2. ASSUME NEW i \in 1..Len(receipts'), ~ IsOwn(receipts'[i])
      PROVE  job[receipts'[i].receiptId] = None
  <2>1. CASE i = Len(receipts) + 1
    BY <1>1, <1>2, <2>1
  <2>2. CASE i \in 1..Len(receipts)
    BY <1>1, <1>2, <2>2 DEF RecordInv, RecordParts, ResolversDecideNothing
  <2> QED
    BY <1>1, <2>1, <2>2
<1> QED
  BY <1>2 DEF ResolversDecideNothing, IsOwn

LEMMA CommitKeepsRecord ==
    ASSUME RecordInv, NEW r \in Requests, Commit(r)
    PROVE  RecordParts'
<1> DEFINE x == DecisionReceipt(r)
           y == DecisionRecord(r)
<1>1. /\ receipts' = Append(receipts, x) /\ decisions' = Append(decisions, y)
      /\ UNCHANGED <<conflicts, job>> /\ pc[r] = "rendered"
  BY DEF Commit, At, putReceipt, putDecision
<1>2. TypeInv /\ EnactInv
  BY DEF RecordInv, ReplayInv, LoadInv
<1>3. /\ pc'[r] \in Past
      /\ \A q \in Requests \ {r} : pc'[q] = pc[q]
  BY <1>2, CommitMoves
<1>4. Decided' = Decided \cup {r}
  BY <1>2, DecisionAppended
<1>5. /\ calls' = calls \/ calls' = Append(calls, r)
      /\ pc'[r] = "enacting" => calls' = Append(calls, r)
      /\ pc'[r] = "failed" => r \in Untraced
  <2>1. \/ calls' = Append(calls, r) /\ Goto(r, "enacting")
        \/ UNCHANGED calls /\ Goto(r, "answered")
        \/ UNCHANGED calls /\ ~ Emitted(r) /\ Goto(r, "failed")
    BY Zenon DEF Commit, Enact
  <2>2. pc \in [Requests -> Labels]
    BY <1>2 DEF TypeInv, TypeOK
  <2>3. \/ calls' = Append(calls, r) /\ pc'[r] = "enacting"
        \/ calls' = calls /\ pc'[r] = "answered"
        \/ calls' = calls /\ r \in Untraced /\ pc'[r] = "failed"
    BY <2>1, <2>2 DEF Goto, Emitted
  <2> QED
    BY <2>3
<1>6. ResolversDecideNothing'
  <2>1. x \in Receipt /\ IsOwn(x)
    BY <1>1, <1>2, CommitReceiptType
  <2> HIDE DEF x
  <2> QED
    BY <1>1, <2>1, MintersStay
<1>7. RecordsTell'
  <2>1. /\ y.decisionId = r /\ y.ts = job[r].ts
        /\ y.winner = job[r].winner /\ y.decision = job[r].effect
    BY DEF DecisionRecord
  <2>2. decisions \in Seq(Decision)
    BY <1>2 DEF TypeInv, TypeOK
  <2> HIDE DEF y
  <2>3. /\ Len(decisions) \in Nat /\ Len(decisions') = Len(decisions) + 1
        /\ decisions'[Len(decisions) + 1] = y
        /\ \A k \in 1..Len(decisions) : decisions'[k] = decisions[k]
    BY <1>1, <2>2
  <2>4. RecordsTell
    BY DEF RecordInv, RecordParts
  <2> QED
    BY <1>1, <2>1, <2>3, <2>4 DEF RecordsTell
<1>8. /\ \A q \in Requests : Forwarded(q) => Forwarded(q)'
      /\ calls' = Append(calls, r) => Forwarded(r)'
  BY <1>2, <1>5, ForwardedGrows
<1> HIDE DEF x, y
<1> QED
  BY <1>1, <1>3, <1>4, <1>5, <1>6, <1>7, <1>8, RecordingKeeps

LEMMA ResolveKeepsRecord ==
    ASSUME RecordInv, NEW q \in Requests, NEW d \in Requests, NEW approved \in BOOLEAN,
           ResolveEscalation(q, d, approved)
    PROVE  RecordParts'
<1> DEFINE x == ResolutionReceipt(q, d, approved)
<1>1. /\ receipts' = Append(receipts, x) /\ x.receiptId = q
      /\ pc[q] = "idle" /\ UNCHANGED <<decisions, conflicts, job>>
  BY DEF ResolveEscalation, At, putReceipt, ResolutionReceipt
<1>2. TypeInv
  BY DEF RecordInv, ReplayInv, LoadInv
<1>3. /\ pc'[q] \in Past
      /\ \A r \in Requests \ {q} : pc'[r] = pc[r]
  BY <1>2, ResolveMoves
<1>4. job[q] = None
  BY <1>1 DEF RecordInv, RecordParts, WaitingJobs
<1>5. ResolversDecideNothing'
  <2>1. x \in Receipt
    BY <1>2, ResolutionReceiptType
  <2> HIDE DEF x
  <2> QED
    BY <1>1, <1>4, <2>1, MintersStay
<1>6. RecordsTell'
  BY <1>1 DEF RecordInv, RecordParts, RecordsTell
<1>7. \A r \in Requests : Forwarded(r) => Forwarded(r)'
  <2>1. calls' = calls \/ calls' = Append(calls, d)
    BY Zenon DEF ResolveEscalation, Enact
  <2> QED
    BY <1>2, <2>1, ForwardedGrows
<1>8. Decided' = Decided
  BY <1>1 DEF Decided
<1> HIDE DEF x
<1> QED
  BY <1>1, <1>3, <1>4, <1>5, <1>6, <1>7, <1>8, RecordingKeeps

-----------------------------------------------------------------------------
LEMMA InitRecord == Init => RecordInv
<1> SUFFICES ASSUME Init PROVE RecordInv
  OBVIOUS
<1>1. ReplayInv
  BY InitReplay
<1>2. RecordParts
  BY DEF Init, StoreInit, RecordParts, WaitingJobs, SettledAreAccounted,
         ResolversDecideNothing, RecordsTell, PriorsAreDecided, UnrenderedAreUnlogged,
         LoggedAreArbitrated, Logged, ArbitratedAreReduced, IsArbitrated
<1> QED
  BY <1>1, <1>2 DEF RecordInv

LEMMA NextKeepsRecord ==
    ASSUME RecordInv, [Next]_vars
    PROVE  RecordInv'
<1>1. ReplayInv'
  BY NextKeepsReplay DEF RecordInv
<1>2. TypeInv
  BY DEF RecordInv, ReplayInv, LoadInv
<1>3. CASE \E q, d \in Requests, approved \in BOOLEAN : ResolveEscalation(q, d, approved)
  <2>1. PICK q \in Requests, d \in Requests, approved \in BOOLEAN :
            ResolveEscalation(q, d, approved)
    BY <1>3, Zenon
  <2> QED
    BY <1>1, <2>1, ResolveKeepsRecord DEF RecordInv
<1> QED
  BY <1>1, <1>2, <1>3, StillSteps, StillKeeps, ArrivesKeepsRecord, EvaluateKeepsRecord,
     ArbitrateKeepsRecord, CommitKeepsRecord DEF RecordInv

LEMMA RecordInvariant == Spec => []RecordInv
BY InitRecord, NextKeepsRecord, PTL DEF Spec

-----------------------------------------------------------------------------
(***************************************************************************)
(* The answers of the sources are finitely many, and disagree exactly when *)
(* there is more than one.                                                 *)
(***************************************************************************)
LEMMA EffectsAreFinite == IsFiniteSet(Effects)
<1>1. IsFiniteSet({"allow"})
  BY FS_Singleton
<1>2. IsFiniteSet({"allow"} \cup {"escalate"})
  BY <1>1, FS_AddElement
<1>3. IsFiniteSet(({"allow"} \cup {"escalate"}) \cup {"deny"})
  BY <1>2, FS_AddElement
<1>4. Effects = ({"allow"} \cup {"escalate"}) \cup {"deny"}
  BY DEF Effects
<1> QED
  BY <1>3, <1>4

LEMMA OneEffectIsAgreement ==
    ASSUME NEW r \in Requests, IsReduced(r)
    PROVE  Cardinality(SourceEffects(r)) = 1 <=> ~ disagreed(SourceDecisions(r))
<1> DEFINE ds == SourceDecisions(r)
           effects == {ds[i].effect : i \in 1..Len(ds)}
<1>1. /\ ds \in Seq(SourceDecision(DOMAIN SourceRegistry)) /\ ds # << >>
      /\ SourceEffects(r) = effects
  BY DEF IsReduced, SourceEffects
<1> HIDE DEF ds
<1>2. Len(ds) \in Nat \ {0}
  BY <1>1, EmptySeq
<1>3. effects \subseteq Effects
  <2>1. \A i \in 1..Len(ds) : ds[i] \in SourceDecision(DOMAIN SourceRegistry)
    BY <1>1, ElementOfSeq
  <2> QED
    BY <2>1 DEF SourceDecision
<1>4. IsFiniteSet(effects)
  BY <1>3, EffectsAreFinite, FS_Subset
<1>5. Cardinality(effects) = 1 <=> \E e : effects = {e}
  BY <1>4, FS_Singleton
<1>6. (\E e : effects = {e}) <=> \A i, j \in 1..Len(ds) : ds[i].effect = ds[j].effect
  <2>1. ASSUME NEW e, effects = {e}, NEW i \in 1..Len(ds), NEW j \in 1..Len(ds)
        PROVE  ds[i].effect = ds[j].effect
    BY <2>1
  <2>2. ASSUME \A i, j \in 1..Len(ds) : ds[i].effect = ds[j].effect
        PROVE  effects = {ds[1].effect}
    BY <1>2, <2>2
  <2> QED
    BY <2>1, <2>2
<1> QED
  BY <1>1, <1>5, <1>6 DEF disagreed, ds

-----------------------------------------------------------------------------
(* A call without a decision record has left no trace at all but, maybe,   *)
(* the conflict of its sources.                                            *)
LEMMA UndecidedAreUnrecorded ==
    ASSUME RecordInv, NEW r \in Requests, job[r] # None, r \notin Decided
    PROVE  Unrecorded(r)
<1> USE DEF RecordInv, RecordParts, ReplayInv, EnactInv
<1>1. getDecision(r) = {}
  BY DecidedHasDecision
<1>2. ASSUME NEW i \in 1..Len(receipts)
      PROVE  receipts[i].receiptId # r
  <2>1. CASE IsOwn(receipts[i])
    BY <2>1, OwnAreDecided DEF IsOwn
  <2>2. CASE ~ IsOwn(receipts[i])
    BY <2>2 DEF ResolversDecideNothing
  <2> QED
    BY <2>1, <2>2
<1>3. \A i \in 1..Len(history) : history[i].decisionId # r
  <2> SUFFICES ASSUME NEW i \in 1..Len(history), history[i].decisionId = r PROVE FALSE
    OBVIOUS
  <2>1. PICK m \in 1..Len(receipts) : IsOwn(receipts[m]) /\ OwnUpTo(m) = i
    BY DEF RecordsAgree, EachHasItsReceipt
  <2> QED
    BY <1>2, <2>1 DEF RecordsAgree, IsOwn
<1>4. escalations[r] = "none"
  BY HeldAreDecided
<1>5. ~ Forwarded(r)
  <2> SUFFICES ASSUME Forwarded(r) PROVE FALSE
    OBVIOUS
  <2>1. PICK i \in 1..Len(receipts) : receipts[i].decisionId = r
    BY DEF ExecutionMatchesReceipts, Allowed
  <2>2. IsOwn(receipts[i])
    BY <1>4, <2>1 DEF QueueMatchesChain, Resolutions
  <2> QED
    BY <2>1, <2>2, OwnAreDecided
<1> QED
  BY <1>1, <1>2, <1>3, <1>4, <1>5 DEF Unrecorded, getReceipt

(* Once decide has answered, the decision and its receipt are found under  *)
(* one version.  A call under way has left nothing but the conflict of its *)
(* sources, and neither has one that failed, unless it failed in the       *)
(* tracer or at the downstream, and then it is found as if it had answered *)
(* (decide.ts:207-229, 275, gateway.ts:358-364).                           *)
THEOREM ReadbackCorrect == Spec => []ReadYourWrites
<1>1. RecordInv => ReadYourWrites
  <2> SUFFICES ASSUME RecordInv, NEW r \in Requests, job[r] # None
               PROVE  /\ pc[r] \in {"answered", "enacting"} => Found(r)
                      /\ pc[r] \in Waiting => Unrecorded(r)
                      /\ pc[r] = "failed" =>
                            \/ Unrecorded(r)
                            \/ Found(r) /\ (Forwarded(r) \/ r \in Untraced)
    BY DEF ReadYourWrites
  <2>1. ASSUME r \in Decided
        PROVE  Found(r)
    <3>1. PICK k \in 1..Len(decisions) : decisions[k].decisionId = r
      BY <2>1 DEF Decided
    <3>2. PICK i \in 1..Len(receipts) : IsOwn(receipts[i]) /\ OwnUpTo(i) = k
      BY DecidedAreChained DEF RecordInv, ReplayInv, EnactInv
    <3>3. /\ decisions[k].receiptRef = receipts[i].receiptId
          /\ decisions[k].policyVersion = receipts[i].policyVersion
      BY <3>2 DEF RecordInv, ReplayInv, EnactInv, RecordsAgree
    <3> QED
      BY <3>1, <3>3 DEF Found, getDecision, getReceipt
  <2>2. pc[r] \in Waiting => r \notin Decided
    BY DecidedArePast DEF RecordInv, ReplayInv, Waiting, EnactInv
  <2>3. /\ pc[r] \in {"answered", "enacting"} => r \in Decided
        /\ pc[r] = "failed" /\ r \in Decided => Forwarded(r) \/ r \in Untraced
    BY DEF RecordInv, RecordParts, SettledAreAccounted
  <2> QED
    BY <2>1, <2>2, <2>3, UndecidedAreUnrecorded
<1> QED
  BY <1>1, RecordInvariant, PTL

(* The conflict log holds one record for each rendered disagreement, under *)
(* the id of the receipt to come, and names the source whose effect was    *)
(* rendered (decide.ts:274-283).                                           *)
THEOREM ConflictsCorrect == Spec => []ConflictsAreDisagreements
<1>1. RecordInv => ConflictsAreDisagreements
  <2> SUFFICES ASSUME RecordInv, NEW r \in Requests, IsArbitrated(r)
               PROVE  /\ job[r].effect = None => Logged(r) = {}
                      /\ job[r].effect # None =>
                            IF Cardinality(SourceEffects(r)) = 1 THEN Logged(r) = {}
                            ELSE \E k \in Logged(r) : /\ Logged(r) = {k}
                                                      /\ conflicts[k].winner = job[r].winner
                                                      /\ conflicts[k].ts = job[r].ts
    BY DEF ConflictsAreDisagreements, Logged
  <2>1. job[r].effect = None => Logged(r) = {}
    BY DEF RecordInv, RecordParts, UnrenderedAreUnlogged
  <2>2. job[r].effect # None => IsReduced(r)
    BY DEF RecordInv, RecordParts, ArbitratedAreReduced
  <2> QED
    BY <2>1, <2>2, OneEffectIsAgreement DEF IsReduced
<1> QED
  BY <1>1, RecordInvariant, PTL

(* A conflict that is listed leads to its decision, resolved by the winner *)
(* it names with the effect it gives that source, but for a call that has  *)
(* not committed yet and a malformed one that threw before its record      *)
(* (decide.ts:274-283, 157-214).                                           *)
THEOREM ConflictsFindCorrect == Spec => []ConflictsFindDecisions
<1>1. RecordInv => ConflictsFindDecisions
  <2> SUFFICES ASSUME RecordInv, NEW i \in 1..Len(conflicts), NEW r,
                      r = conflicts[i].decisionId, pc[r] # "rendered",
                      ~ (pc[r] = "failed" /\ job[r].proposal \in Malformed)
               PROVE  \E k \in getDecision(r) :
                         /\ decisions[k].ts = conflicts[i].ts
                         /\ decisions[k].winner = conflicts[i].winner
                         /\ [source |-> decisions[k].winner, effect |-> decisions[k].decision]
                               \in ToSet(conflicts[i].sources)
    BY DEF ConflictsFindDecisions
  <2> USE DEF RecordInv, RecordParts, ReplayInv, EnactInv
  <2>1. r \in Requests /\ pc[r] \in Labels
    <3>1. conflicts[i] \in Conflict
      BY ElementOfSeq DEF TypeInv, TypeOK
    <3> QED
      BY <3>1 DEF Conflict, TypeInv, TypeOK
  <2>2. IsArbitrated(r) /\ i \in Logged(r)
    BY DEF LoggedAreArbitrated, Logged
  <2>3. pc[r] \in Past /\ job[r].effect # None
    BY <2>1, <2>2 DEF UnrenderedAreUnlogged, Labels, Waiting, Settled
  <2>4. r \in Decided
    BY <2>1, <2>2, <2>3 DEF SettledAreAccounted, IsArbitrated
  <2>5. PICK k \in 1..Len(decisions) : decisions[k].decisionId = r
    BY <2>4 DEF Decided
  <2>6. /\ decisions[k].ts = job[r].ts /\ decisions[k].winner = job[r].winner
        /\ decisions[k].decision = job[r].effect
    BY <2>5 DEF RecordsTell
  <2>7. IsReduced(r)
    BY <2>1, <2>2, <2>3 DEF ArbitratedAreReduced
  <2>8. /\ conflicts[i].winner = job[r].winner /\ conflicts[i].ts = job[r].ts
        /\ conflicts[i].sources = SourceDecisions(r)
    BY <2>2, <2>7 DEF IsReduced
  <2>9. [source |-> job[r].winner, effect |-> job[r].effect] \in ToSet(SourceDecisions(r))
    <3> DEFINE ds == SourceDecisions(r)
               a == job[r].arbitration
    <3>1. /\ ds \in Seq(SourceDecision(DOMAIN SourceRegistry)) /\ ds # << >>
          /\ job[r].effect = Winner(ds, a.resolver, a.order).effect
          /\ job[r].winner = Winner(ds, a.resolver, a.order).source
      BY <2>7 DEF IsReduced, OutcomeOf
    <3>2. a.order \in Seq(STRING)
      BY <2>7, ProposalAssumption DEF IsReduced, ArbitrationRequest
    <3> HIDE DEF ds, a
    <3>3. PICK w \in 1..Len(ds) : Winner(ds, a.resolver, a.order) = ds[w]
      BY <3>1, <3>2, WinnerIsListed
    <3>4. ds[w] \in SourceDecision(DOMAIN SourceRegistry) /\ w \in DOMAIN ds
      BY <3>1, <3>3, ElementOfSeq
    <3>5. ds[w] = [source |-> ds[w].source, effect |-> ds[w].effect]
      BY <3>4 DEF SourceDecision
    <3>6. [source |-> job[r].winner, effect |-> job[r].effect] = ds[w]
      BY <3>1, <3>3, <3>5
    <3>7. ds[w] \in ToSet(ds)
      BY <3>4 DEF ToSet
    <3> QED
      BY <3>6, <3>7 DEF ds
  <2> QED
    BY <2>5, <2>6, <2>8, <2>9 DEF getDecision
<1> QED
  BY <1>1, RecordInvariant, PTL

(* What executes at once under the most-restrictive resolver was allowed   *)
(* by every source consulted (resolvers.ts:4, decide.ts:272, 285).         *)
THEOREM UnanimityCorrect == Spec => []ArbitratedExecutionIsUnanimous
<1>1. RecordInv => ArbitratedExecutionIsUnanimous
  <2> SUFFICES ASSUME RecordInv, NEW r \in Requests, IsArbitrated(r),
                      job[r].arbitration.resolver = "most-restrictive",
                      Forwarded(r), escalations[r] = "none"
               PROVE  SourceEffects(r) = {"allow"}
    BY DEF ArbitratedExecutionIsUnanimous
  <2> USE DEF RecordInv, RecordParts, ReplayInv, EnactInv
  <2> DEFINE ds == SourceDecisions(r)
             a == job[r].arbitration
  <2>1. PICK i \in 1..Len(receipts) : receipts[i].decisionId = r /\ receipts[i].decision = "allow"
    BY DEF ExecutionMatchesReceipts, Allowed
  <2>2. IsOwn(receipts[i])
    BY <2>1 DEF QueueMatchesChain, Resolutions
  <2>3. job[r].effect = "allow"
    BY <2>1, <2>2 DEF OwnReceiptsTell
  <2>4. IsReduced(r)
    BY <2>3, NoneIsNoEffect DEF ArbitratedAreReduced, Effects
  <2>5. a.order \in Seq(STRING) /\ a.resolver # "priority"
    BY <2>4, ProposalAssumption DEF IsReduced, ArbitrationRequest
  <2>6. /\ ds \in Seq(SourceDecision(DOMAIN SourceRegistry)) /\ ds # << >>
        /\ Winner(ds, a.resolver, a.order).effect = "allow"
    BY <2>3, <2>4 DEF IsReduced, OutcomeOf
  <2> HIDE DEF ds, a
  <2>7. \A k \in 1..Len(ds) : RESTRICTIVENESS[ds[k].effect] <= RESTRICTIVENESS["allow"]
    BY <2>5, <2>6, MostRestrictiveOutcome
  <2>8. \A k \in 1..Len(ds) : ds[k] \in SourceDecision(DOMAIN SourceRegistry)
    BY <2>6, ElementOfSeq
  <2>9. \A k \in 1..Len(ds) : ds[k].effect = "allow"
    BY <2>7, <2>8 DEF SourceDecision, Effects, RESTRICTIVENESS
  <2>10. Len(ds) \in Nat \ {0}
    BY <2>6, EmptySeq
  <2>11. SourceEffects(r) = {ds[k].effect : k \in 1..Len(ds)}
    BY DEF SourceEffects, ds
  <2> QED
    BY <2>9, <2>10, <2>11
<1> QED
  BY <1>1, RecordInvariant, PTL

-----------------------------------------------------------------------------
(***************************************************************************)
(* The audit of the chain.                                                 *)
(***************************************************************************)
LEMMA AuditedIs ==
    ASSUME EnactInv, NEW m \in 1..Len(receipts), IsOwn(receipts[m])
    PROVE  /\ OwnUpTo(m) \in 1..Len(history)
           /\ Audited(OwnUpTo(m)) = {receipts[m]}
<1> DEFINE i == OwnUpTo(m)
<1>1. i \in 1..Len(history) /\ Len(decisions) = Len(history)
  BY PlaceInRange DEF EnactInv, RecordsAgree
<1>2. /\ history[i].decisionId = receipts[m].decisionId
      /\ decisions[i].decisionId = receipts[m].decisionId
      /\ decisions[i].receiptRef = receipts[m].receiptId
  BY DEF EnactInv, RecordsAgree
<1>3. ASSUME NEW k \in 1..Len(decisions), decisions[k].decisionId = history[i].decisionId
      PROVE  k = i
  <2>1. history[k].decisionId = decisions[k].decisionId
    <3>1. PICK n \in 1..Len(receipts) : IsOwn(receipts[n]) /\ OwnUpTo(n) = k
      BY DEF EnactInv, RecordsAgree, EachHasItsReceipt
    <3> QED
      BY <3>1 DEF EnactInv, RecordsAgree
  <2> QED
    BY <1>1, <1>3, <2>1, EntriesAreDistinct
<1>4. getDecision(history[i].decisionId) = {i}
  BY <1>1, <1>2, <1>3 DEF getDecision
<1>5. getReceipt(decisions[i].receiptRef) = {m}
  BY <1>2 DEF getReceipt, EnactInv, ChainIntact
<1> QED
  BY <1>1, <1>4, <1>5 DEF Audited

(* The audit finds a decision's link in order if no other receipt precedes *)
(* the decision's directly.                                                *)
LEMMA LinkIsOk ==
    ASSUME EnactInv, NEW m \in 1..Len(receipts), IsOwn(receipts[m])
    PROVE  OwnUpTo(m) \in linksOk <=> m = 1 \/ IsOwn(receipts[m - 1])
<1> DEFINE i == OwnUpTo(m)
<1>1. /\ i \in 1..Len(history) /\ Len(history) = OwnUpTo(Len(receipts))
      /\ Audited(i) = {receipts[m]}
      /\ Len(receipts) \in Nat
  BY AuditedIs DEF EnactInv, RecordsAgree, TypeInv, TypeOK
<1>2. receipts[m].prevHash = IF m = 1 THEN GENESIS ELSE receipts[m - 1].receiptId
  BY DEF EnactInv, ChainIntact, hashReceiptBody
<1>3. \A j \in 1..Len(receipts) : receipts[j].receiptId # GENESIS
  <2>1. \A j \in 1..Len(receipts) : receipts[j] \in Receipt
    BY ElementOfSeq DEF EnactInv, TypeInv, TypeOK
  <2> QED
    BY <2>1, GenesisIsNoReceipt DEF Receipt
<1>4. i \in linksOk <=> IF i = 1 THEN receipts[m].prevHash = GENESIS
                        ELSE \E before \in Audited(i - 1) :
                                 receipts[m].prevHash = before.receiptId
  BY <1>1 DEF linksOk, hashReceiptBody
<1>5. i = OwnUpTo(m - 1) + 1 /\ OwnUpTo(m - 1) \in 0..(m - 1)
  BY <1>1, CountStep, CountType
<1>6. CASE m = 1
  BY <1>2, <1>4, <1>5, <1>6
<1>7. CASE m # 1 /\ i = 1
  <2>1. ~ IsOwn(receipts[m - 1])
    <3> SUFFICES ASSUME IsOwn(receipts[m - 1]) PROVE FALSE
      OBVIOUS
    <3>1. m - 1 \in 1..Len(receipts)
      BY <1>1, <1>7
    <3>2. OwnUpTo(m - 1) >= 1
      BY <1>1, <3>1, AuditedIs
    <3> QED
      BY <1>5, <1>7, <3>2
  <2> QED
    BY <1>1, <1>2, <1>3, <1>4, <1>7, <2>1
<1>8. CASE m # 1 /\ i # 1
  <2>1. i - 1 \in 1..OwnUpTo(Len(receipts))
    BY <1>1, <1>8
  <2>2. PICK n \in 1..Len(receipts) : IsOwn(receipts[n]) /\ OwnUpTo(n) = i - 1
    BY <2>1 DEF EnactInv, EachHasItsReceipt
  <2>3. Audited(i - 1) = {receipts[n]}
    BY <2>2, AuditedIs
  <2>4. i \in linksOk <=> receipts[m - 1].receiptId = receipts[n].receiptId
    BY <1>2, <1>4, <1>8, <2>3
  <2>5. i \in linksOk <=> m - 1 = n
    BY <1>1, <1>8, <2>4 DEF EnactInv, ChainIntact
  <2>6. ASSUME IsOwn(receipts[m - 1])
        PROVE  m - 1 = n
    <3>1. OwnUpTo(m - 1) = OwnUpTo(n)
      BY <1>5, <2>2
    <3>2. m - 1 \in Nat /\ n \in Nat /\ OwnUpTo(n) \in Nat
      BY <1>1, <1>5, <3>1
    <3>3. ~ (m - 1 < n)
      BY <2>2, <3>1, <3>2, CountGrows
    <3>4. ~ (n < m - 1)
      BY <2>6, <3>1, <3>2, CountGrows
    <3> QED
      BY <3>2, <3>3, <3>4
  <2> QED
    BY <1>8, <2>2, <2>5, <2>6
<1> QED
  BY <1>6, <1>7, <1>8

(* Whatever decides and simulations overlapped, the audit of the           *)
(* production checks passes unless an escalation was resolved between two  *)
(* decisions (prod-checks.ts:181-191, gateway.ts:335).                     *)
THEOREM AuditCorrect == Spec => []AuditPassesUnlessResolvedBetween
<1>1. EnactInv => AuditPassesUnlessResolvedBetween
  <2> SUFFICES ASSUME EnactInv PROVE AuditPassesUnlessResolvedBetween
    OBVIOUS
  <2>1. Len(receipts) \in Nat
    BY DEF EnactInv, TypeInv, TypeOK
  <2>2. AuditPasses <=> \A m \in 1..Len(receipts) :
                            IsOwn(receipts[m]) => m = 1 \/ IsOwn(receipts[m - 1])
    <3>1. \A i \in 1..Len(history) : \E m \in 1..Len(receipts) :
              IsOwn(receipts[m]) /\ OwnUpTo(m) = i
      BY DEF EnactInv, RecordsAgree, EachHasItsReceipt
    <3>2. AuditPasses <=> \A i \in 1..Len(history) : i \in linksOk
      BY DEF AuditPasses, linksOk
    <3>3. AuditPasses <=> \A m \in 1..Len(receipts) :
                              IsOwn(receipts[m]) => OwnUpTo(m) \in linksOk
      BY <3>1, <3>2, AuditedIs
    <3> QED
      BY <3>3, LinkIsOk
  <2>3. ASSUME \A m \in 1..Len(receipts) :
                   IsOwn(receipts[m]) => m = 1 \/ IsOwn(receipts[m - 1]),
               NEW j \in 1..Len(receipts), NEW k \in 1..Len(receipts),
               j < k, IsOwn(receipts[k]), ~ IsOwn(receipts[j])
        PROVE  FALSE
    <3> DEFINE T == {m \in 1..Len(receipts) : j < m /\ IsOwn(receipts[m])}
    <3>1. T \in SUBSET Nat /\ T # {}
      BY <2>3
    <3> HIDE DEF T
    <3>2. PICK m \in T : \A n \in T : m <= n
      BY <3>1, LeastElement
    <3>3. /\ m \in 1..Len(receipts) /\ j < m /\ IsOwn(receipts[m])
          /\ m - 1 \in T => m <= m - 1
      BY <3>2 DEF T
    <3>4. m - 1 \in 1..Len(receipts) /\ IsOwn(receipts[m - 1])
      BY <2>1, <2>3, <3>3
    <3>5. m - 1 # j
      BY <2>3, <3>4
    <3>6. m - 1 \in T
      BY <2>1, <3>3, <3>4, <3>5 DEF T
    <3> QED
      BY <2>1, <3>3, <3>6
  <2>4. ASSUME \A j, k \in 1..Len(receipts) :
                   j < k /\ IsOwn(receipts[k]) => IsOwn(receipts[j]),
               NEW m \in 1..Len(receipts), IsOwn(receipts[m]), m # 1
        PROVE  IsOwn(receipts[m - 1])
    BY <2>1, <2>4
  <2> QED
    BY <2>2, <2>3, <2>4, Zenon DEF AuditPassesUnlessResolvedBetween
<1> QED
  BY <1>1, EnactInvariant, PTL

=============================================================================
