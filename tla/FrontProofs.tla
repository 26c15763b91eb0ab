---------------------------- MODULE FrontProofs ----------------------------
(***************************************************************************)
(* What the users of the hook and of the proxy are told agrees with the    *)
(* gateway's record, for any number of calls and whatever happens to the   *)
(* exchanges.                                                              *)
(*                                                                         *)
(* Every step of a gateway with front ends is a step of the gateway alone, *)
(* so its invariant holds.  The rest relates each front-end process to the *)
(* call it made: a call that has answered is on record with the effect in  *)
(* its locals, and one that has failed has left no receipt, unless a       *)
(* downstream or the tracer failed it.                                     *)
(***************************************************************************)
EXTENDS FrontEnds, EnactmentProofs

(* A call made by a front end is neither arbitrated nor simulated; it has   *)
(* left its receipt when it answers, and none when it has failed, unless a *)
(* downstream or the tracer failed it.                                     *)
CallFits(x) ==
    /\ pc[x] \in {"idle", "awaitPolicy", "rendered", "enacting", "answered", "failed"}
    /\ pc[x] # "idle" => /\ job[x] \in Job
                         /\ job[x].arbitration = None
                         /\ ~ job[x].simulated
    /\ pc[x] = "enacting" => job[x].proposal \in Routed
    /\ pc[x] \in {"answered", "enacting"} => OwnReceipts(x) # {} /\ Emitted(x)
    /\ pc[x] = "failed" => \/ job[x].proposal \in Routed
                           \/ ~ Emitted(x)
                           \/ OwnReceipts(x) = {}

(* A hook process remembers what it posted. *)
HookShape(h) ==
    /\ front[h].failClosed \in BOOLEAN
    /\ Posts(h) => /\ front[h].proposal \in Proposals \ (Malformed \cup Routed)
                   /\ front[h].at # "idle"
    /\ pc[h] # "idle" => Posts(h) /\ job[h].proposal \notin Routed

Outcomes == {"deny", "ask", "silent", "warned", "crashed",
             "denied", "held", "result", "rejected"}

Process == [at : {"idle", "waiting", "done"}, proposal : Proposals \cup {None},
            failClosed : BOOLEAN, outcome : Outcomes \cup {None},
            heard : {NoReply, 200, 400}]

(* What it told the user follows from what it heard. *)
HookEnds(h) ==
    front[h].at = "done" =>
        \/ /\ front[h].heard = 200 /\ pc[h] = "answered"
           /\ front[h].outcome = Permission(job[h].effect)
        \/ /\ front[h].heard = 400 /\ pc[h] = "failed"
           /\ front[h].outcome = OnFailure(h)
        \/ front[h].heard = NoReply /\ front[h].outcome = OnFailure(h)
        \/ /\ ~ Posts(h) /\ front[h].heard = NoReply
           /\ front[h].outcome \in {"silent", "crashed"}

ProxyEnds(p) ==
    front[p].at = "done" =>
        \/ front[p].outcome = "rejected"
        \/ /\ pc[p] = "answered"
           /\ front[p].outcome = ToolOutcome(job[p].effect)

Fits(x) == /\ CallFits(x)
           /\ x \in HookCalls => HookShape(x) /\ HookEnds(x)
           /\ x \in ProxyCalls => ProxyEnds(x)

FrontParts ==
    /\ front \in [FrontCalls -> Process]
    /\ \A x \in FrontCalls : Fits(x)

FrontInv == EnactInv /\ FrontParts

USE NoneIsNoRequest DEF Settled, Past

-----------------------------------------------------------------------------
(***************************************************************************)
(* A gateway with front ends is a gateway.                                 *)
(***************************************************************************)
LEMMA FrontCallsAreRequests ==
    FrontCalls \subseteq Requests /\ HookCalls \cap ProxyCalls = {}
BY FrontAssumption DEF FrontCalls

LEMMA CoreStepIsNext ==
    ASSUME CoreStep
    PROVE  Next
BY DEF CoreStep, Next

LEMMA DecideIsNext ==
    ASSUME NEW r \in Requests, NEW proposal \in Proposals, Decide(r, proposal, None, FALSE)
    PROVE  Next
<1>1. None \in Tokens
  BY DEF Tokens
<1>2. Propose(r)
  BY <1>1 DEF Propose
<1> QED
  BY <1>2 DEF Next

LEMMA FrontStepIsNext ==
    ASSUME FrontInv, FrontNext
    PROVE  [Next]_vars
<1>1. CASE CoreStep
  BY <1>1, CoreStepIsNext
<1>2. ASSUME NEW h \in HookCalls, HandlePost(h)
      PROVE  Next
  BY <1>2, FrontCallsAreRequests, DecideIsNext
     DEF HandlePost, FrontInv, FrontParts, Fits, HookShape, FrontCalls
<1>3. ASSUME NEW p \in ProxyCalls, NEW tool \in ProxyTools, callTool(p, tool)
      PROVE  Next
  BY <1>3, FrontCallsAreRequests, FrontAssumption, DecideIsNext DEF callTool, FrontCalls
<1>4. ASSUME NEW h \in HookCalls,
             \/ \E tool \in HookTools, failClosed \in BOOLEAN : RunHook(h, tool, failClosed)
             \/ IgnoreHook(h) \/ HearReply(h) \/ LoseReply(h)
      PROVE  UNCHANGED vars
  BY <1>4 DEF RunHook, IgnoreHook, HearReply, LoseReply
<1>5. ASSUME NEW p \in ProxyCalls, ToolReturns(p)
      PROVE  UNCHANGED vars
  BY <1>5 DEF ToolReturns
<1>6. CASE Resting
  BY <1>6 DEF Resting, frontVars
<1> QED
  BY <1>1, <1>2, <1>3, <1>4, <1>5, <1>6, Zenon DEF FrontNext

-----------------------------------------------------------------------------
(***************************************************************************)
(* How the gateway moves a front end's call.                               *)
(***************************************************************************)
Stays(x) == pc'[x] = pc[x] /\ job'[x] = job[x]

LEMMA OthersStay ==
    ASSUME TypeInv, NEW r \in Requests, NEW x \in Requests, x # r,
           \/ Propose(r) \/ Reject(r) \/ Resolve(r) \/ Resume(r) \/ Return(r)
           \/ \E bundle \in Bundles : LoadPolicy(r, bundle)
    PROVE  Stays(x)
<1> USE DEF TypeInv, TypeOK, Stays, Goto, Fail, At
<1>1. CASE Propose(r)
  BY <1>1 DEF Propose, Decide, DecideArbitrated, Arrive
<1>2. CASE Resolve(r)
  BY <1>2 DEF Resolve, ResolveEscalation, RefuseResolution, Enact
<1>3. CASE Evaluate(r) \/ Arbitrate(r)
  BY <1>3 DEF Evaluate, Arbitrate, Render
<1>4. CASE Commit(r)
  BY <1>4 DEF Commit, Enact
<1>5. CASE EvaluateFails(r) \/ ArbitrateFails(r) \/ CommitThrows(r) \/ RefusePolicy(r)
  BY <1>5 DEF EvaluateFails, ArbitrateFails, CommitThrows, RefusePolicy
<1>6. CASE InstallPolicy(r)
  BY <1>6 DEF InstallPolicy
<1>7. CASE Return(r)
  BY <1>7 DEF Return, DownstreamReturns, DownstreamRejects
<1>8. CASE \E bundle \in Bundles : LoadPolicy(r, bundle)
  BY <1>8 DEF LoadPolicy
<1>9. CASE Reject(r)
  BY <1>9, RejectTells DEF RejectAtOnce
<1> QED
  BY <1>1, <1>2, <1>3, <1>4, <1>5, <1>6, <1>7, <1>8, <1>9, Zenon DEF Resume

LEMMA CallSteps ==
    ASSUME TypeInv, NEW x \in FrontCalls, CoreStep
    PROVE  \/ Stays(x)
           \/ Resume(x) \/ Return(x)
<1>1. x \in Requests
  BY FrontCallsAreRequests
<1>2. CASE Settle
  BY <1>2 DEF Settle, handlerVars, Stays
<1>3. ASSUME NEW r \in Requests \ FrontCalls,
             \/ Propose(r) \/ Reject(r) \/ Resolve(r)
             \/ \E bundle \in Bundles : LoadPolicy(r, bundle)
      PROVE  Stays(x)
  BY <1>1, <1>3, OthersStay, Zenon
<1>4. ASSUME NEW r \in Requests, Resume(r) \/ Return(r)
      PROVE  Stays(x) \/ Resume(x) \/ Return(x)
  BY <1>1, <1>4, OthersStay, Zenon
<1> QED
  BY <1>2, <1>3, <1>4, Zenon DEF CoreStep

(* A call past its commit gains no receipt of its own: whoever appends one *)
(* was not.                                                                *)
LEMMA NothingAppended ==
    ASSUME TypeInv, NEW x \in Requests, NEW new, receipts' = Append(receipts, new),
           new.receiptId # x
    PROVE  OwnReceipts(x)' = OwnReceipts(x)
<1> DEFINE S == Receipt \cup {new}
<1>1. receipts \in Seq(S) /\ new \in S
  BY DEF TypeInv, TypeOK
<1> HIDE DEF S
<1>2. /\ Len(receipts) \in Nat
      /\ Len(receipts') = Len(receipts) + 1
      /\ receipts'[Len(receipts) + 1] = new
      /\ \A i \in 1..Len(receipts) : receipts'[i] = receipts[i]
  BY <1>1
<1> QED
  BY <1>2 DEF OwnReceipts, IsOwn

LEMMA OwnAdded ==
    ASSUME TypeInv, NEW x, NEW new, receipts' = Append(receipts, new),
           new.receiptId = x, new.decisionId = x
    PROVE  OwnReceipts(x)' # {}
<1> DEFINE S == Receipt \cup {new}
<1>1. receipts \in Seq(S) /\ new \in S
  BY DEF TypeInv, TypeOK
<1> HIDE DEF S
<1>2. Len(receipts') \in Nat \ {0} /\ receipts'[Len(receipts')] = new
  BY <1>1
<1> QED
  BY <1>2 DEF OwnReceipts, IsOwn

LEMMA PastGainNothing ==
    ASSUME TypeInv, Next, NEW x \in Requests, pc[x] \in Past
    PROVE  OwnReceipts(x)' = OwnReceipts(x)
<1>1. CASE Quiet
  BY <1>1 DEF Quiet, OwnReceipts, IsOwn
<1>2. ASSUME NEW r \in Requests, Commit(r)
      PROVE  OwnReceipts(x)' = OwnReceipts(x)
  <2>1. receipts' = Append(receipts, DecisionReceipt(r)) /\ r # x
    BY <1>2 DEF Commit, At, putReceipt
  <2>2. DecisionReceipt(r).receiptId = r
    BY DEF DecisionReceipt
  <2> QED
    BY <2>1, <2>2, NothingAppended
<1>3. ASSUME NEW q \in Requests, NEW d \in Requests, NEW approved \in BOOLEAN,
             ResolveEscalation(q, d, approved)
      PROVE  OwnReceipts(x)' = OwnReceipts(x)
  <2>1. receipts' = Append(receipts, ResolutionReceipt(q, d, approved)) /\ q # x
    BY <1>3 DEF ResolveEscalation, At, putReceipt
  <2>2. ResolutionReceipt(q, d, approved).receiptId = q
    BY DEF ResolutionReceipt
  <2> QED
    BY <2>1, <2>2, NothingAppended
<1> QED
  BY <1>1, <1>2, <1>3, QuietSteps, Zenon

LEMMA CallKept ==
    ASSUME FrontInv, EnactInv', CoreStep, NEW x \in FrontCalls
    PROVE  /\ CallFits(x)'
           /\ pc[x] = "idle" => pc'[x] = "idle"
           /\ pc[x] \in Settled => Stays(x)
           /\ pc[x] # "idle" => job'[x].proposal = job[x].proposal
<1>1. x \in Requests /\ Next /\ CallFits(x)
  BY FrontCallsAreRequests, CoreStepIsNext DEF FrontInv, FrontParts, Fits
<1>2. TypeInv /\ MintersArePast /\ QueueMatchesChain /\ TypeInv'
  BY DEF FrontInv, EnactInv
<1>3. CASE Stays(x)
  <2>1. pc[x] \in Past => OwnReceipts(x)' = OwnReceipts(x)
    BY <1>1, <1>2, PastGainNothing
  <2> QED
    BY <1>1, <1>3, <2>1 DEF Stays, CallFits, OwnReceipts, Emitted
<1>4. CASE Evaluate(x)
  <2>1. /\ pc[x] = "awaitPolicy" /\ pc'[x] = "rendered"
        /\ \E effect : job'[x] = [job[x] EXCEPT !.effect = effect, !.winner = None]
    BY <1>1, <1>2, <1>4 DEF Evaluate, At, Render, Goto, TypeInv, TypeOK
  <2>2. job[x] \in Job /\ job'[x] \in Job
    BY <1>1, <1>2, <2>1 DEF TypeInv, JobsFitLabels
  <2>3. /\ job'[x].proposal = job[x].proposal
        /\ job'[x].arbitration = job[x].arbitration
        /\ job'[x].simulated = job[x].simulated
    BY <2>1, <2>2 DEF Job
  <2> QED
    BY <1>1, <2>1, <2>2, <2>3 DEF CallFits
<1>5. CASE Commit(x)
  <2>1. /\ pc[x] = "rendered" /\ job' = job
        /\ \/ pc'[x] = "answered" /\ Emitted(x)
           \/ pc'[x] = "enacting" /\ Emitted(x) /\ job[x].proposal \in Routed
           \/ pc'[x] = "failed" /\ ~ Emitted(x)
        /\ receipts' = Append(receipts, DecisionReceipt(x))
    <3>1. Enacts(x) => Emitted(x)
      BY DEF Enacts
    <3> QED
      BY <1>1, <1>2, <1>5, <3>1 DEF Commit, Enact, At, Goto, putReceipt, TypeInv, TypeOK
  <2>2. DecisionReceipt(x).receiptId = x /\ DecisionReceipt(x).decisionId = x
    BY DEF DecisionReceipt
  <2>3. OwnReceipts(x)' # {}
    BY <1>2, <2>1, <2>2, OwnAdded
  <2> QED
    BY <1>1, <2>1, <2>3 DEF CallFits, Emitted
<1>6. CASE EvaluateFails(x) \/ CommitThrows(x)
  <2>1. /\ pc[x] \in {"awaitPolicy", "rendered"} /\ pc'[x] = "failed"
        /\ job' = job /\ receipts' = receipts
    BY <1>1, <1>2, <1>6 DEF EvaluateFails, CommitThrows, Fail, At, Goto, storeVars, TypeInv, TypeOK
  <2>2. OwnReceipts(x) = {}
    BY <1>1, <1>2, <2>1, Undecided
  <2>3. OwnReceipts(x)' = {}
    BY <2>1, <2>2 DEF OwnReceipts, IsOwn
  <2> QED
    BY <1>1, <2>1, <2>3 DEF CallFits
<1>7. CASE Return(x)
  <2>1. pc[x] = "enacting" /\ pc'[x] \in {"answered", "failed"} /\ job' = job
    BY <1>1, <1>2, <1>7 DEF Return, DownstreamReturns, DownstreamRejects, Fail, At, Goto,
                            TypeInv, TypeOK
  <2>2. OwnReceipts(x)' = OwnReceipts(x)
    BY <1>1, <1>2, <2>1, PastGainNothing
  <2> QED
    BY <1>1, <2>1, <2>2 DEF CallFits, Emitted
<1>8. ~ Arbitrate(x) /\ ~ ArbitrateFails(x) /\ ~ InstallPolicy(x) /\ ~ RefusePolicy(x)
  BY <1>1 DEF CallFits, Arbitrate, ArbitrateFails, InstallPolicy, RefusePolicy, At
<1> QED
  BY <1>2, <1>3, <1>4, <1>5, <1>6, <1>7, <1>8, CallSteps, Zenon DEF Resume

LEMMA DecideStarts ==
    ASSUME TypeInv, TypeInv', NEW x \in FrontCalls, NEW proposal, NEW token,
           Decide(x, proposal, token, FALSE), NEW y \in FrontCalls, CallFits(y)
    PROVE  /\ CallFits(y)'
           /\ y # x => Stays(y)
           /\ pc[x] = "idle" /\ pc'[x] = "awaitPolicy"
           /\ job'[x].proposal = proposal
<1>1. x \in Requests /\ y \in Requests
  BY FrontCallsAreRequests
<1>2. /\ pc[x] = "idle" /\ pc' = [pc EXCEPT ![x] = "awaitPolicy"] /\ receipts' = receipts
      /\ \E new : /\ job' = [job EXCEPT ![x] = new] /\ new.proposal = proposal
                  /\ new.arbitration = None /\ new.simulated = FALSE
  <2> DEFINE made == [proposal |-> proposal, simulated |-> FALSE,
                      arbitration |-> None, policyVersion |-> policyVersion,
                      load |-> HandedOut, ts |-> clock,
                      priorContext |-> AdmittedContext(token),
                      contextTrusted |-> ContextTrusted(token),
                      effect |-> None, winner |-> None]
  <2>1. /\ pc[x] = "idle" /\ pc' = [pc EXCEPT ![x] = "awaitPolicy"] /\ receipts' = receipts
        /\ job' = [job EXCEPT ![x] = made]
    BY DEF Decide, Arrive, At, Goto, storeVars
  <2>2. made.proposal = proposal /\ made.arbitration = None /\ made.simulated = FALSE
    OBVIOUS
  <2> HIDE DEF made
  <2> QED
    BY <2>1, <2>2
<1>3. /\ pc'[x] = "awaitPolicy"
      /\ job'[x].proposal = proposal /\ job'[x].arbitration = None /\ ~ job'[x].simulated
      /\ y # x => pc'[y] = pc[y] /\ job'[y] = job[y]
  BY <1>1, <1>2 DEF TypeInv, TypeOK
<1>4. job'[x] \in Job
  BY <1>1, <1>3 DEF TypeInv, JobsFitLabels
<1>5. OwnReceipts(y)' = OwnReceipts(y)
  BY <1>2 DEF OwnReceipts, IsOwn
<1> QED
  BY <1>2, <1>3, <1>4, <1>5 DEF CallFits, Stays, Emitted

-----------------------------------------------------------------------------
(***************************************************************************)
(* How a front-end process ends.                                           *)
(***************************************************************************)
LEMMA BooleanField ==
    ASSUME NEW process \in Process, NEW failClosed \in BOOLEAN
    PROVE  [process EXCEPT !.failClosed = failClosed] \in Process
BY DEF Process

LEMMA EndsTells ==
    ASSUME front \in [FrontCalls -> Process], NEW x \in FrontCalls,
           NEW outcome, NEW heard, Ends(x, outcome, heard)
    PROVE  /\ \A y \in FrontCalls \ {x} : front'[y] = front[y]
           /\ front'[x].at = "done" /\ front'[x].outcome = outcome /\ front'[x].heard = heard
           /\ front'[x].proposal = front[x].proposal
           /\ front'[x].failClosed = front[x].failClosed
BY DEF Ends, Process

(* A call that has answered is on record, with the effect in its locals.   *)
LEMMA AnsweredIsRecorded ==
    ASSUME EnactInv, NEW x \in FrontCalls, CallFits(x), pc[x] = "answered"
    PROVE  /\ job[x].effect \in Effects
           /\ \E i \in OwnReceipts(x) :
                  receipts[i].decision = job[x].effect /\ ~ receipts[i].simulated
<1>1. PICK i \in OwnReceipts(x) : ~ job[x].simulated
  BY DEF CallFits
<1>2. i \in 1..Len(receipts) /\ IsOwn(receipts[i]) /\ receipts[i].decisionId = x
  BY DEF OwnReceipts, IsOwn
<1>3. receipts[i].decision = job[x].effect /\ receipts[i].simulated = job[x].simulated
  BY <1>2 DEF EnactInv, OwnReceiptsTell
<1>4. receipts[i] \in Receipt
  BY <1>2, ElementOfSeq DEF EnactInv, TypeInv, TypeOK
<1> QED
  BY <1>1, <1>3, <1>4 DEF Receipt

-----------------------------------------------------------------------------
(***************************************************************************)
(* Each kind of step keeps the invariant.                                  *)
(***************************************************************************)
LEMMA CoreKeepsFits ==
    ASSUME FrontInv, EnactInv', CoreStep, UNCHANGED front, NEW x \in FrontCalls
    PROVE  Fits(x)'
<1>1. /\ CallFits(x)'
      /\ pc[x] = "idle" => pc'[x] = "idle"
      /\ pc[x] \in Settled => pc'[x] = pc[x] /\ job'[x] = job[x]
      /\ pc[x] # "idle" => job'[x].proposal = job[x].proposal
  BY CallKept DEF Stays
<1>2. Fits(x)
  BY DEF FrontInv, FrontParts
<1>3. x \in HookCalls => HookShape(x)'
  BY <1>1, <1>2 DEF Fits, HookShape, Posts
<1>4. x \in HookCalls => HookEnds(x)'
  BY <1>1, <1>2 DEF Fits, HookEnds, Posts, OnFailure
<1>5. x \in ProxyCalls => ProxyEnds(x)'
  BY <1>1, <1>2 DEF Fits, ProxyEnds
<1> QED
  BY <1>1, <1>3, <1>4, <1>5 DEF Fits

LEMMA StandingFits ==
    ASSUME UNCHANGED vars, NEW x \in FrontCalls, Fits(x), front'[x] = front[x]
    PROVE  Fits(x)'
<1>1. pc' = pc /\ job' = job /\ receipts' = receipts
  BY DEF vars, storeVars, handlerVars
<1>2. CallFits(x)'
  BY <1>1 DEF Fits, CallFits, OwnReceipts, IsOwn, Emitted
<1>3. (x \in HookCalls => HookShape(x) /\ HookEnds(x))'
  BY <1>1 DEF Fits, HookShape, HookEnds, Posts, OnFailure
<1>4. (x \in ProxyCalls => ProxyEnds(x))'
  BY <1>1 DEF Fits, ProxyEnds
<1> QED
  BY <1>2, <1>3, <1>4 DEF Fits

(* A step of one hook process or of the proxy that is not a step of the    *)
(* gateway.                                                                *)
LEMMA ProcessStepKeeps ==
    ASSUME FrontInv, UNCHANGED vars, NEW x \in FrontCalls,
           front' \in [FrontCalls -> Process],
           \A y \in FrontCalls \ {x} : front'[y] = front[y],
           Fits(x)'
    PROVE  FrontParts'
BY StandingFits DEF FrontInv, FrontParts

LEMMA EndKeeps ==
    ASSUME FrontInv, UNCHANGED vars, NEW x \in FrontCalls,
           NEW outcome \in Outcomes, NEW heard \in {NoReply, 200, 400},
           Ends(x, outcome, heard),
           x \in HookCalls => HookEnds(x)', x \in ProxyCalls => ProxyEnds(x)'
    PROVE  FrontParts'
<1>1. front \in [FrontCalls -> Process] /\ Fits(x)
  BY DEF FrontInv, FrontParts
<1>2. pc' = pc /\ job' = job /\ receipts' = receipts
  BY DEF vars, storeVars, handlerVars
<1>3. CallFits(x)'
  BY <1>1, <1>2 DEF Fits, CallFits, OwnReceipts, IsOwn, Emitted
<1>4. /\ front'[x].at = "done"
      /\ front'[x].proposal = front[x].proposal
      /\ front'[x].failClosed = front[x].failClosed
  BY <1>1, EndsTells
<1>5. x \in HookCalls => HookShape(x)'
  BY <1>1, <1>2, <1>4 DEF Fits, HookShape, Posts
<1>6. Fits(x)'
  BY <1>3, <1>5 DEF Fits
<1>7. front' \in [FrontCalls -> Process]
  <2> DEFINE f1 == [front EXCEPT ![x].at = "done"]
             f2 == [f1 EXCEPT ![x].outcome = outcome]
  <2>1. f1 \in [FrontCalls -> Process]
    BY <1>1 DEF Process
  <2>2. front' = [f2 EXCEPT ![x].heard = heard]
    BY DEF Ends
  <2> HIDE DEF f1
  <2>3. f2 \in [FrontCalls -> Process]
    BY <2>1 DEF Process
  <2> HIDE DEF f2
  <2> QED
    BY <2>2, <2>3 DEF Process
<1> QED
  BY <1>1, <1>6, <1>7, EndsTells, ProcessStepKeeps

LEMMA HookStepKeeps ==
    ASSUME FrontInv, NEW h \in HookCalls,
           \/ \E tool \in HookTools, failClosed \in BOOLEAN : RunHook(h, tool, failClosed)
           \/ IgnoreHook(h) \/ HearReply(h) \/ LoseReply(h)
    PROVE  FrontParts'
<1>1. /\ front \in [FrontCalls -> Process] /\ h \in FrontCalls /\ h \notin ProxyCalls
      /\ CallFits(h) /\ HookShape(h) /\ front[h].failClosed \in BOOLEAN
  BY FrontCallsAreRequests DEF FrontInv, FrontParts, Fits, FrontCalls, HookShape
<1>2. UNCHANGED vars /\ pc' = pc /\ job' = job /\ receipts' = receipts
  BY DEF RunHook, IgnoreHook, HearReply, LoseReply, vars, storeVars, handlerVars
<1>3. OnFailure(h) \in {"deny", "warned"}
  BY DEF OnFailure
<1>4. ASSUME NEW tool \in HookTools, NEW failClosed \in BOOLEAN, RunHook(h, tool, failClosed)
      PROVE  FrontParts'
  <2>1. toProposal(tool) \in Proposals \ (Malformed \cup Routed)
    BY FrontAssumption
  <2>2. front' \in [FrontCalls -> Process]
    <3> DEFINE f1 == [front EXCEPT ![h].at = "waiting"]
               f2 == [f1 EXCEPT ![h].proposal = toProposal(tool)]
    <3>1. f1 \in [FrontCalls -> Process]
      BY <1>1 DEF Process
    <3>2. front' = [f2 EXCEPT ![h].failClosed = failClosed]
      BY <1>4 DEF RunHook
    <3> HIDE DEF f1
    <3>3. f2 \in [FrontCalls -> Process]
      BY <1>1, <2>1, <3>1 DEF Process
    <3> HIDE DEF f2
    <3>4. [f2[h] EXCEPT !.failClosed = failClosed] \in Process
      BY <1>1, <3>3, BooleanField
    <3> QED
      BY <1>1, <3>2, <3>3, <3>4
  <2>3. /\ front'[h].at = "waiting" /\ front'[h].proposal = toProposal(tool)
        /\ front'[h].failClosed = failClosed
        /\ \A y \in FrontCalls \ {h} : front'[y] = front[y]
    <3> DEFINE p == toProposal(tool)
    <3>1. front' = [front EXCEPT ![h].at = "waiting", ![h].proposal = p,
                                 ![h].failClosed = failClosed]
      BY <1>4 DEF RunHook
    <3> HIDE DEF p
    <3>2. /\ front'[h].at = "waiting" /\ front'[h].proposal = p
          /\ front'[h].failClosed = failClosed
          /\ \A y \in FrontCalls \ {h} : front'[y] = front[y]
      BY <1>1, <3>1 DEF Process
    <3> QED
      BY <3>2 DEF p
  <2>5. CallFits(h)'
    BY <1>1, <1>2 DEF CallFits, OwnReceipts, IsOwn, Emitted
  <2>6. ~ Posts(h) => pc[h] = "idle"
    BY <1>1 DEF HookShape
  <2>7. pc[h] = "idle"
    BY <1>1, <1>4, <2>6 DEF RunHook, HookShape
  <2>8. HookShape(h)' /\ HookEnds(h)'
    BY <1>2, <2>1, <2>3, <2>7 DEF HookShape, HookEnds, Posts
  <2>9. Fits(h)'
    BY <1>1, <2>5, <2>8 DEF Fits
  <2> QED
    BY <1>1, <1>2, <2>2, <2>3, <2>9, ProcessStepKeeps
<1>5. ASSUME NEW outcome, NEW heard, Ends(h, outcome, heard)
      PROVE  /\ front'[h].at = "done" /\ front'[h].outcome = outcome
             /\ front'[h].heard = heard
             /\ Posts(h)' = Posts(h) /\ OnFailure(h)' = OnFailure(h)
  BY <1>1, <1>5, EndsTells DEF Posts, OnFailure
<1>6. CASE IgnoreHook(h)
  <2>1. PICK outcome \in {"silent", "crashed"} : Ends(h, outcome, NoReply)
    BY <1>6 DEF IgnoreHook
  <2>2. ~ Posts(h)
    BY <1>1, <1>6 DEF IgnoreHook, HookShape
  <2>3. HookEnds(h)'
    BY <1>5, <2>1, <2>2 DEF HookEnds
  <2> QED
    BY <1>1, <1>2, <2>1, <2>3, EndKeeps DEF Outcomes
<1>7. CASE LoseReply(h)
  <2>1. Ends(h, OnFailure(h), NoReply)
    BY <1>7 DEF LoseReply
  <2>2. HookEnds(h)'
    BY <1>5, <2>1 DEF HookEnds
  <2> QED
    BY <1>1, <1>2, <1>3, <2>1, <2>2, EndKeeps DEF Outcomes
<1>8. CASE HearReply(h) /\ pc[h] = "answered"
  <2>1. Ends(h, Permission(job[h].effect), 200)
    BY <1>8 DEF HearReply, Status
  <2>2. Permission(job[h].effect) \in {"deny", "ask", "silent"}
    BY <1>1, <1>8, AnsweredIsRecorded DEF FrontInv, Permission, Effects
  <2>3. HookEnds(h)'
    BY <1>2, <1>5, <1>8, <2>1 DEF HookEnds
  <2> QED
    BY <1>1, <1>2, <2>1, <2>2, <2>3, EndKeeps DEF Outcomes
<1>9. CASE HearReply(h) /\ pc[h] = "failed"
  <2>1. Ends(h, OnFailure(h), 400)
    BY <1>9 DEF HearReply, Status
  <2>2. HookEnds(h)'
    BY <1>2, <1>5, <1>9, <2>1 DEF HookEnds
  <2> QED
    BY <1>1, <1>2, <1>3, <2>1, <2>2, EndKeeps DEF Outcomes
<1> QED
  BY <1>4, <1>6, <1>7, <1>8, <1>9 DEF HearReply

LEMMA ToolReturnsKeeps ==
    ASSUME FrontInv, NEW p \in ProxyCalls, ToolReturns(p)
    PROVE  FrontParts'
<1>1. /\ front \in [FrontCalls -> Process] /\ p \in FrontCalls /\ p \notin HookCalls
      /\ CallFits(p)
  BY FrontCallsAreRequests DEF FrontInv, FrontParts, Fits, FrontCalls
<1>2. UNCHANGED vars /\ pc' = pc /\ job' = job /\ pc[p] \in {"answered", "failed"}
  BY DEF ToolReturns, vars, handlerVars
<1>3. CASE pc[p] = "failed"
  <2>1. Ends(p, "rejected", NoReply)
    BY <1>3 DEF ToolReturns
  <2>2. ProxyEnds(p)'
    BY <1>1, <2>1, EndsTells DEF ProxyEnds
  <2> QED
    BY <1>1, <1>2, <2>1, <2>2, EndKeeps DEF Outcomes
<1>4. CASE pc[p] = "answered"
  <2>1. Ends(p, ToolOutcome(job[p].effect), NoReply)
    BY <1>4 DEF ToolReturns
  <2>2. ToolOutcome(job[p].effect) \in {"denied", "held", "result"}
    BY <1>1, <1>4, AnsweredIsRecorded DEF FrontInv, ToolOutcome, Effects
  <2>3. ProxyEnds(p)'
    BY <1>1, <1>2, <1>4, <2>1, EndsTells DEF ProxyEnds
  <2> QED
    BY <1>1, <1>2, <2>1, <2>2, <2>3, EndKeeps DEF Outcomes
<1> QED
  BY <1>2, <1>3, <1>4

LEMMA PostKeeps ==
    ASSUME FrontInv, TypeInv', NEW h \in HookCalls, HandlePost(h)
    PROVE  FrontParts'
<1>1. /\ h \in FrontCalls /\ HookShape(h) /\ Posts(h) /\ front' = front
      /\ Decide(h, front[h].proposal, None, FALSE) /\ TypeInv
      /\ front \in [FrontCalls -> Process]
      /\ \A x \in FrontCalls : Fits(x)
  BY DEF FrontInv, FrontParts, Fits, FrontCalls, HandlePost, EnactInv
<1>2. /\ pc[h] = "idle" /\ pc'[h] = "awaitPolicy"
      /\ job'[h].proposal = front[h].proposal
  BY <1>1, DecideStarts DEF Fits
<1>3. ASSUME NEW x \in FrontCalls
      PROVE  Fits(x)'
  <2>1. CallFits(x)' /\ (x # h => Stays(x))
    BY <1>1, DecideStarts DEF Fits
  <2>2. CASE x = h
    <3>1. front[h].proposal \notin Routed
      BY <1>1 DEF HookShape
    <3>2. HookShape(h)'
      BY <1>1, <1>2, <3>1 DEF HookShape, Posts
    <3>3. HookEnds(h)'
      BY <1>1, <1>2 DEF HookEnds, Fits, Posts, OnFailure
    <3> QED
      BY <2>1, <2>2, <3>2, <3>3, FrontCallsAreRequests DEF Fits
  <2>3. CASE x # h
    <3>1. Fits(x) /\ pc'[x] = pc[x] /\ job'[x] = job[x]
      BY <1>1, <2>1, <2>3 DEF Stays
    <3>2. (x \in HookCalls => HookShape(x) /\ HookEnds(x))'
      BY <1>1, <3>1 DEF Fits, HookShape, HookEnds, Posts, OnFailure
    <3>3. (x \in ProxyCalls => ProxyEnds(x))'
      BY <1>1, <3>1 DEF Fits, ProxyEnds
    <3> QED
      BY <2>1, <3>2, <3>3 DEF Fits
  <2> QED
    BY <2>2, <2>3
<1> QED
  BY <1>1, <1>3 DEF FrontParts

LEMMA CallToolKeeps ==
    ASSUME FrontInv, TypeInv', NEW p \in ProxyCalls, NEW tool \in ProxyTools, callTool(p, tool)
    PROVE  FrontParts'
<1>1. /\ p \in FrontCalls /\ front' = [front EXCEPT ![p].at = "waiting"]
      /\ Decide(p, proposalFromToolCall(tool), None, FALSE) /\ TypeInv
      /\ front \in [FrontCalls -> Process]
      /\ \A x \in FrontCalls : Fits(x)
  BY DEF FrontInv, FrontParts, FrontCalls, callTool, EnactInv
<1>2. /\ front'[p].at = "waiting" /\ front' \in [FrontCalls -> Process]
      /\ \A x \in FrontCalls \ {p} : front'[x] = front[x]
  BY <1>1 DEF Process
<1>3. ASSUME NEW x \in FrontCalls
      PROVE  Fits(x)'
  <2>1. CallFits(x)' /\ (x # p => Stays(x))
    BY <1>1, DecideStarts DEF Fits
  <2>2. CASE x = p
    <3>1. ProxyEnds(p)' /\ p \notin HookCalls
      BY <1>2, FrontCallsAreRequests DEF ProxyEnds
    <3> QED
      BY <2>1, <2>2, <3>1 DEF Fits
  <2>3. CASE x # p
    <3>1. Fits(x) /\ pc'[x] = pc[x] /\ job'[x] = job[x] /\ front'[x] = front[x]
      BY <1>1, <1>2, <2>1, <2>3 DEF Stays
    <3>2. (x \in HookCalls => HookShape(x) /\ HookEnds(x))'
      BY <3>1 DEF Fits, HookShape, HookEnds, Posts, OnFailure
    <3>3. (x \in ProxyCalls => ProxyEnds(x))'
      BY <3>1 DEF Fits, ProxyEnds
    <3> QED
      BY <2>1, <3>2, <3>3 DEF Fits
  <2> QED
    BY <2>2, <2>3
<1> QED
  BY <1>2, <1>3 DEF FrontParts

LEMMA InitFront == FrontInit => FrontInv
<1> SUFFICES ASSUME FrontInit PROVE FrontInv
  OBVIOUS
<1>1. EnactInv
  BY InitEnact DEF FrontInit
<1>2. front \in [FrontCalls -> Process]
  BY DEF FrontInit, Process
<1>3. ASSUME NEW x \in FrontCalls
      PROVE  Fits(x)
  <2>1. /\ pc[x] = "idle" /\ front[x].at = "idle" /\ front[x].proposal = None
        /\ front[x].failClosed = FALSE
    BY FrontCallsAreRequests DEF FrontInit, Init
  <2> QED
    BY <2>1 DEF Fits, CallFits, HookShape, HookEnds, ProxyEnds, Posts
<1> QED
  BY <1>1, <1>2, <1>3 DEF FrontInv, FrontParts

LEMMA NextKeepsFront ==
    ASSUME FrontInv, [FrontNext]_frontVars
    PROVE  FrontInv'
<1>1. [Next]_vars
  BY FrontStepIsNext DEF frontVars
<1>2. EnactInv' /\ TypeInv'
  BY <1>1, NextKeeps DEF FrontInv, EnactInv
<1>3. CASE CoreStep /\ UNCHANGED front
  BY <1>2, <1>3, CoreKeepsFits DEF FrontInv, FrontParts
<1>4. CASE UNCHANGED frontVars
  <2>1. UNCHANGED vars /\ front' = front
    BY <1>4 DEF frontVars
  <2> QED
    BY <1>2, <2>1, StandingFits DEF FrontInv, FrontParts
<1>5. ASSUME NEW h \in HookCalls,
             \/ \E tool \in HookTools, failClosed \in BOOLEAN : RunHook(h, tool, failClosed)
             \/ IgnoreHook(h) \/ HandlePost(h) \/ HearReply(h) \/ LoseReply(h)
      PROVE  FrontParts'
  BY <1>2, <1>5, HookStepKeeps, PostKeeps, Zenon
<1>6. ASSUME NEW p \in ProxyCalls,
             (\E tool \in ProxyTools : callTool(p, tool)) \/ ToolReturns(p)
      PROVE  FrontParts'
  BY <1>2, <1>6, CallToolKeeps, ToolReturnsKeeps, Zenon
<1> QED
  BY <1>2, <1>3, <1>4, <1>5, <1>6, Zenon DEF FrontNext, FrontInv, Resting

LEMMA FrontInvariant == FrontSpec => []FrontInv
BY InitFront, NextKeepsFront, PTL DEF FrontSpec

(* A gateway with front ends behaves like a gateway whose callers they     *)
(* are, so every theorem about the gateway holds of it too: what a user is *)
(* told is of a record that is chained, agrees with the queue and was      *)
(* enacted once (proxy.ts:51-58, httpServer.ts:58-68).                     *)
THEOREM FrontEndsAreCallers == FrontSpec => Spec
<1>1. FrontInit => Init
  BY DEF FrontInit
<1>2. FrontInv /\ [FrontNext]_frontVars => [Next]_vars
  <2>1. UNCHANGED frontVars => UNCHANGED vars
    BY DEF frontVars
  <2> QED
    BY <2>1, FrontStepIsNext
<1> QED
  BY <1>1, <1>2, FrontInvariant, PTL DEF FrontSpec, Spec

-----------------------------------------------------------------------------
(***************************************************************************)
(* What the user of the hook is told.                                      *)
(***************************************************************************)
LEMMA TheRecordTells ==
    ASSUME EnactInv, NEW x \in FrontCalls, CallFits(x), pc[x] = "answered"
    PROVE  /\ Recorded(x, job[x].effect)
           /\ job[x].effect = "allow" => Allowed(x)
           /\ job[x].effect = "escalate" => escalations[x] # "none"
           /\ x \notin Untraced
<1>1. PICK i \in OwnReceipts(x) :
          receipts[i].decision = job[x].effect /\ ~ receipts[i].simulated
  BY AnsweredIsRecorded
<1>2. i \in 1..Len(receipts) /\ receipts[i].decisionId = x
  BY DEF OwnReceipts, IsOwn
<1>3. Recorded(x, job[x].effect)
  BY <1>1 DEF Recorded
<1>4. job[x].effect = "allow" => Allowed(x)
  BY <1>1, <1>2 DEF Allowed
<1>5. x \notin Untraced
  BY DEF CallFits, Emitted
<1>6. job[x].effect = "escalate" => escalations[x] # "none"
  BY <1>1, <1>5, FrontCallsAreRequests DEF EnactInv, QueueMatchesChain
<1> QED
  BY <1>3, <1>4, <1>5, <1>6

(* Under DRP_FAIL_CLOSED a tool call goes on only with a recorded,         *)
(* unsimulated allow, whatever happened to the exchange                    *)
(* (adapter.mjs:144-153).                                                  *)
THEOREM FailClosedCorrect == FrontSpec => []FailClosedNeedsAnAllow
<1>1. FrontInv => FailClosedNeedsAnAllow
  <2> SUFFICES ASSUME FrontInv, NEW h \in HookCalls,
                      Ended(h, {"silent", "warned", "crashed"}), Posts(h), front[h].failClosed
               PROVE  Allowed(h) /\ Recorded(h, "allow")
    BY DEF FailClosedNeedsAnAllow
  <2>1. h \in FrontCalls /\ CallFits(h) /\ HookEnds(h) /\ EnactInv
    BY DEF FrontInv, FrontParts, Fits, FrontCalls
  <2>2. OnFailure(h) = "deny"
    BY DEF OnFailure
  <2>3. pc[h] = "answered" /\ Permission(job[h].effect) \in {"silent", "warned", "crashed"}
    BY <2>1, <2>2 DEF HookEnds, Ended
  <2>4. job[h].effect = "allow"
    BY <2>1, <2>3, AnsweredIsRecorded DEF Permission, Effects
  <2> QED
    BY <2>1, <2>3, <2>4, TheRecordTells
<1> QED
  BY <1>1, FrontInvariant, PTL

(* A block is a recorded deny or a failing exchange, a prompt is an        *)
(* escalation the queue knows, silence after a reply is a recorded allow   *)
(* (adapter.mjs:155-160, httpServer.ts:68-69).                             *)
THEOREM HookCorrect == FrontSpec => []HookSaysWhatIsRecorded
<1>1. FrontInv => HookSaysWhatIsRecorded
  <2> SUFFICES ASSUME FrontInv, NEW h \in HookCalls, front[h].at = "done"
               PROVE  /\ front[h].outcome = "deny" =>
                            \/ Recorded(h, "deny")
                            \/ front[h].failClosed /\ front[h].heard # 200
                      /\ front[h].outcome = "ask" =>
                            Recorded(h, "escalate") /\ escalations[h] # "none"
                      /\ front[h].outcome = "silent" /\ front[h].heard = 200 =>
                            Recorded(h, "allow")
    BY DEF HookSaysWhatIsRecorded, Ended
  <2>1. h \in FrontCalls /\ CallFits(h) /\ HookEnds(h) /\ EnactInv
    BY DEF FrontInv, FrontParts, Fits, FrontCalls
  <2>2. CASE /\ front[h].heard = 200 /\ pc[h] = "answered"
             /\ front[h].outcome = Permission(job[h].effect)
    <3>1. job[h].effect \in Effects
      BY <2>1, <2>2, AnsweredIsRecorded
    <3>2. /\ Recorded(h, job[h].effect)
          /\ job[h].effect = "escalate" => escalations[h] # "none"
      BY <2>1, <2>2, TheRecordTells
    <3>3. /\ front[h].outcome = "deny" => job[h].effect = "deny"
          /\ front[h].outcome = "ask" => job[h].effect = "escalate"
          /\ front[h].outcome = "silent" => job[h].effect = "allow"
      BY <2>2, <3>1 DEF Permission, Effects
    <3> QED
      BY <3>2, <3>3
  <2>3. CASE front[h].heard # 200 /\ front[h].outcome = OnFailure(h)
    BY <2>3 DEF OnFailure
  <2>4. CASE front[h].heard # 200 /\ front[h].outcome \in {"silent", "crashed"}
    BY <2>4
  <2> QED
    BY <2>1, <2>2, <2>3, <2>4 DEF HookEnds, NoReply
<1> QED
  BY <1>1, FrontInvariant, PTL

(* An HTTP error for a tool that no downstream handles means that nothing  *)
(* was recorded (httpServer.ts:66-75).                                     *)
THEOREM ErrorRepliesCorrect == FrontSpec => []ErrorRepliesLeaveNoRecord
<1>1. FrontInv => ErrorRepliesLeaveNoRecord
  <2> SUFFICES ASSUME FrontInv, NEW h \in HookCalls, front[h].at = "done",
                      front[h].heard = 400
               PROVE  OwnReceipts(h) = {} /\ escalations[h] = "none"
    BY DEF ErrorRepliesLeaveNoRecord
  <2>1. h \in FrontCalls /\ CallFits(h) /\ HookShape(h) /\ HookEnds(h) /\ EnactInv
    BY DEF FrontInv, FrontParts, Fits, FrontCalls
  <2>2. pc[h] = "failed"
    BY <2>1 DEF HookEnds, NoReply
  <2>3. OwnReceipts(h) = {}
    BY <2>1, <2>2, FrontAssumption DEF HookShape, CallFits, Emitted
  <2> QED
    BY <2>1, <2>3, FrontCallsAreRequests DEF EnactInv, QueueMatchesChain
<1> QED
  BY <1>1, FrontInvariant, PTL

-----------------------------------------------------------------------------
(***************************************************************************)
(* What the agent is told by the proxy.                                    *)
(***************************************************************************)
LEMMA AllowedOrApproved ==
    ASSUME EnactInv, NEW x \in FrontCalls, CallFits(x), pc[x] = "answered"
    PROVE  /\ Allowed(x) => job[x].effect = "allow" \/ escalations[x] = "approved"
           /\ escalations[x] # "none" => job[x].effect = "escalate"
<1>1. x \in Requests
  BY FrontCallsAreRequests
<1>2. \A i \in OwnReceipts(x) : receipts[i].decision = job[x].effect
  BY DEF OwnReceipts, IsOwn, EnactInv, OwnReceiptsTell
<1>3. escalations[x] # "none" => job[x].effect = "escalate"
  BY <1>1, <1>2 DEF EnactInv, QueueMatchesChain
<1>4. ASSUME Allowed(x), job[x].effect # "allow"
      PROVE  escalations[x] = "approved"
  <2>1. PICK i \in 1..Len(receipts) :
            receipts[i].decisionId = x /\ receipts[i].decision = "allow"
    BY <1>4 DEF Allowed
  <2>2. i \in Resolutions(x)
    BY <1>2, <1>4, <2>1 DEF OwnReceipts, Resolutions, IsOwn
  <2>3. escalations[x] \notin {"none", "pending"}
    BY <1>1, <2>2 DEF EnactInv, QueueMatchesChain
  <2>4. PICK k \in Resolutions(x) :
            /\ Resolutions(x) = {k}
            /\ receipts[k].decision = IF escalations[x] = "approved" THEN "allow" ELSE "deny"
    BY <1>1, <2>3 DEF EnactInv, QueueMatchesChain
  <2> QED
    BY <2>1, <2>2, <2>4
<1> QED
  BY <1>3, <1>4

(* A result for a tool some downstream handles comes from its execution, a *)
(* denied call never executes, and one said to be held only once it is     *)
(* approved (proxy.ts:58-65).                                              *)
THEOREM ProxyCorrect == FrontSpec => []ProxyTellsWhatHappened
<1>1. FrontInv => ProxyTellsWhatHappened
  <2> SUFFICES ASSUME FrontInv, NEW p \in ProxyCalls, front[p].at = "done",
                      front[p].outcome \in {"result", "denied", "held"}
               PROVE  LET executed == \E i \in 1..Len(calls) : calls[i] = p
                      IN  /\ front[p].outcome = "result" /\ job[p].proposal \in Routed
                                 => executed
                          /\ front[p].outcome = "denied" =>
                                ~ executed /\ escalations[p] = "none"
                          /\ front[p].outcome = "held" =>
                                (executed => escalations[p] = "approved")
    BY DEF ProxyTellsWhatHappened, Ended
  <2> DEFINE executed == \E i \in 1..Len(calls) : calls[i] = p
  <2>1. p \in FrontCalls /\ p \in Requests /\ CallFits(p) /\ ProxyEnds(p) /\ EnactInv
    BY FrontCallsAreRequests DEF FrontInv, FrontParts, Fits, FrontCalls
  <2>2. pc[p] = "answered" /\ front[p].outcome = ToolOutcome(job[p].effect)
    BY <2>1 DEF ProxyEnds
  <2>3. job[p].effect \in Effects
    BY <2>1, <2>2, AnsweredIsRecorded
  <2>4. /\ front[p].outcome = "result" => job[p].effect = "allow"
        /\ front[p].outcome = "denied" => job[p].effect = "deny"
        /\ front[p].outcome = "held" => job[p].effect = "escalate"
    BY <2>2, <2>3 DEF ToolOutcome, Effects
  <2>5. executed <=> Allowed(p) /\ job[p].proposal \in Routed
    BY <2>1, <2>2, TheRecordTells DEF EnactInv, ExecutionMatchesReceipts, Forwarded
  <2>6. /\ job[p].effect = "allow" => Allowed(p)
        /\ Allowed(p) => job[p].effect = "allow" \/ escalations[p] = "approved"
        /\ escalations[p] # "none" => job[p].effect = "escalate"
    BY <2>1, <2>2, TheRecordTells, AllowedOrApproved
  <2> HIDE DEF executed
  <2>7. /\ front[p].outcome = "result" /\ job[p].proposal \in Routed => executed
        /\ front[p].outcome = "denied" => ~ executed /\ escalations[p] = "none"
        /\ front[p].outcome = "held" => (executed => escalations[p] = "approved")
    BY <2>4, <2>5, <2>6
  <2> QED
    BY <2>7 DEF executed
<1> QED
  BY <1>1, FrontInvariant, PTL

=============================================================================
