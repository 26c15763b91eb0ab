----------------------------- MODULE FrontEnds -----------------------------
(***************************************************************************)
(* The front ends of a gateway, and what they let their callers do: the    *)
(* MCP proxy (src/mcp/proxy.ts), the HTTP server (src/httpServer.ts) and   *)
(* the PreToolUse hook adapter that talks to it                            *)
(* (scripts/claude-code-hook/adapter.mjs).                                 *)
(*                                                                         *)
(* A hook process and the gateway share nothing but one HTTP exchange.     *)
(* The exchange may fail for the adapter at any time, before or after the  *)
(* server has taken up the request; the server carries on regardless.      *)
(***************************************************************************)
EXTENDS GatewayProperties

CONSTANTS HookCalls,     \* the calls that a hook process makes over HTTP
          ProxyCalls,    \* the tool calls made through the MCP proxy
          HookTools,     \* the tools whose use the hook is asked about
          ProxyTools,    \* the tools called through the proxy
          LowerCase      \* the names of the other hook tools in lower case

(* A proposal, as far as the two conversions differ: both always fill in   *)
(* a principal and a resource.                                             *)
Proposal(tool, declaredAction, kind) ==
    [tool |-> tool, declaredAction |-> declaredAction, kind |-> kind]

toProposal(tool) ==
    CASE tool \in {"Read", "Glob", "Grep"} -> Proposal(tool, "read", "file")
      [] tool \in {"Write", "Edit", "MultiEdit", "NotebookEdit"} ->
             Proposal(tool, "write", "file")
      [] tool = "Bash" -> Proposal(tool, "execute", "command")
      [] tool \in {"WebFetch", "WebSearch"} -> Proposal(tool, "egress", "egress")
      [] OTHER -> Proposal(tool, LowerCase[tool], "tool")

(* A tool the table does not list declares its own name as its action. *)
ProxyAction(tool) == CASE tool = "read_file" -> "read"
                       [] tool = "write_file" -> "write"
                       [] tool = "delete_file" -> "delete"
                       [] tool = "http_fetch" -> "egress"
                       [] OTHER -> tool

proposalFromToolCall(tool) ==
    Proposal(tool, ProxyAction(tool),
             IF ProxyAction(tool) = "egress" THEN "egress" ELSE "file")

(* The standalone gateway of the hook is given neither downstreams nor a   *)
(* tracer (serve.ts:15).                                                   *)
ASSUME FrontAssumption ==
    /\ HookCalls \cup ProxyCalls \subseteq Requests
    /\ HookCalls \cap Untraced = {}
    /\ HookCalls \cap ProxyCalls = {}
    /\ \A t \in HookTools : toProposal(t) \in Proposals \ (Malformed \cup Routed)
    /\ \A t \in ProxyTools : proposalFromToolCall(t) \in Proposals \ Malformed

VARIABLE front    \* where the process behind each front-end call stands

frontVars == <<vars, front>>

FrontCalls == HookCalls \cup ProxyCalls

NoReply == 0    \* for an HTTP status

FrontInit ==
    /\ Init
    /\ front = [x \in FrontCalls |->
                  [at |-> "idle", proposal |-> None, failClosed |-> FALSE,
                   outcome |-> None, heard |-> NoReply]]

Waits(x) == front[x].at = "waiting"

Posts(h) == front[h].proposal # None

Ends(x, outcome, heard) ==
    front' = [front EXCEPT ![x].at = "done", ![x].outcome = outcome, ![x].heard = heard]

-----------------------------------------------------------------------------
(***************************************************************************)
(* The hook adapter.  Saying nothing, or only warning, leaves the tool     *)
(* call to the normal permission flow.                                     *)
(***************************************************************************)
RunHook(h, tool, failClosed) ==
    /\ front[h].at = "idle"
    /\ front' = [front EXCEPT ![h].at = "waiting", ![h].proposal = toProposal(tool),
                              ![h].failClosed = failClosed]
    /\ UNCHANGED vars

(* Whatever DRP_FAIL_CLOSED says, hook input that is not JSON ends the     *)
(* process in silence, and input that is JSON but null crashes it.  Either *)
(* way nothing has been asked and the tool call goes on.                   *)
IgnoreHook(h) ==
    /\ front[h].at = "idle"
    /\ \E outcome \in {"silent", "crashed"} : Ends(h, outcome, NoReply)
    /\ UNCHANGED vars

(* POST /v1/decide reaches the server: the proposal and nothing else is    *)
(* handed to decide.                                                       *)
HandlePost(h) ==
    /\ Posts(h)
    /\ Decide(h, front[h].proposal, None, FALSE)
    /\ UNCHANGED front

\* A slip: only an allow is a success.
OnlyAllowIsOk(h) == IF pc[h] = "answered" /\ job[h].effect = "allow" THEN 200 ELSE 400

Status(h) == IF pc[h] = "answered" THEN 200 ELSE 400

\* A slip: the environment variable is not looked at.
AlwaysOpen(h) == "warned"

OnFailure(h) == IF front[h].failClosed THEN "deny" ELSE "warned"

\* A slip: an escalate has no output either.
DenyOrSilence(effect) == IF effect = "deny" THEN "deny" ELSE "silent"

Permission(effect) == CASE effect = "deny" -> "deny"
                        [] effect = "escalate" -> "ask"
                        [] effect = "allow" -> "silent"

HearReply(h) ==
    /\ Waits(h)
    /\ pc[h] \in Settled
    /\ Ends(h, IF Status(h) = 200 THEN Permission(job[h].effect) ELSE OnFailure(h), Status(h))
    /\ UNCHANGED vars

(* No server, a connection that breaks, a reply that gets lost.            *)
LoseReply(h) ==
    /\ Waits(h)
    /\ Ends(h, OnFailure(h), NoReply)
    /\ UNCHANGED vars

-----------------------------------------------------------------------------
(***************************************************************************)
(* The MCP proxy, in the process of the gateway.                           *)
(***************************************************************************)
callTool(p, tool) ==
    /\ front[p].at = "idle"
    /\ Decide(p, proposalFromToolCall(tool), None, FALSE)
    /\ front' = [front EXCEPT ![p].at = "waiting"]

\* A slip: only a deny is turned into a tool error.
DenyOrResult(effect) == IF effect = "deny" THEN "denied" ELSE "result"

ToolOutcome(effect) == CASE effect = "deny" -> "denied"
                         [] effect = "escalate" -> "held"
                         [] effect = "allow" -> "result"

ToolReturns(p) ==
    /\ Waits(p)
    /\ pc[p] \in Settled
    /\ Ends(p, IF pc[p] = "failed" THEN "rejected" ELSE ToolOutcome(job[p].effect), NoReply)
    /\ UNCHANGED vars

-----------------------------------------------------------------------------
(* Everything else that goes on in the gateway: its own callers decide,    *)
(* are refused, resolve and load, and every handler is resumed.            *)
CoreStep ==
    \/ \E r \in Requests \ FrontCalls :
          \/ Propose(r)
          \/ Reject(r)
          \/ Resolve(r)
          \/ \E bundle \in Bundles : LoadPolicy(r, bundle)
    \/ \E r \in Requests : Resume(r) \/ Return(r)
    \/ Settle

Resting == /\ \A x \in FrontCalls : front[x].at = "done"
           /\ \A r \in Requests : pc[r] \in Settled \cup {"idle"}
           /\ UNCHANGED frontVars

FrontNext ==
    \/ CoreStep /\ UNCHANGED front
    \/ \E h \in HookCalls : \/ \E tool \in HookTools, failClosed \in BOOLEAN :
                                   RunHook(h, tool, failClosed)
                            \/ IgnoreHook(h)
                            \/ HandlePost(h)
                            \/ HearReply(h)
                            \/ LoseReply(h)
    \/ \E p \in ProxyCalls : \/ \E tool \in ProxyTools : callTool(p, tool)
                             \/ ToolReturns(p)
    \/ Resting

FrontSpec == FrontInit /\ [][FrontNext]_frontVars

(***************************************************************************)
(* The event loop and the local loads are fair, as in Gateway.  A request  *)
(* whose sender still waits arrives and a reply that was sent is read: an  *)
(* exchange that does neither has failed, and LoseReply ends it.           *)
(***************************************************************************)
FrontFairness ==
    /\ \A r \in Requests : WF_frontVars(Resume(r) /\ UNCHANGED front)
    /\ WF_frontVars(Settle /\ UNCHANGED front)
    /\ \A h \in HookCalls : /\ WF_frontVars(Waits(h) /\ HandlePost(h))
                            /\ WF_frontVars(HearReply(h))
    /\ \A p \in ProxyCalls : WF_frontVars(ToolReturns(p))

FairFrontSpec == FrontSpec /\ FrontFairness

-----------------------------------------------------------------------------
Ended(x, outcomes) == front[x].at = "done" /\ front[x].outcome \in outcomes

Recorded(x, effect) == \E i \in OwnReceipts(x) : receipts[i].decision = effect

(* Under DRP_FAIL_CLOSED a tool call goes on only if the gateway has an    *)
(* unsimulated allow for it on record, whatever happened to the server,    *)
(* the request, the policy or the reply (adapter.mjs:144-153), provided    *)
(* the hook's input let the adapter ask at all (adapter.mjs:125-133).      *)
FailClosedNeedsAnAllow ==
    \A h \in HookCalls :
        Ended(h, {"silent", "warned", "crashed"}) /\ Posts(h) /\ front[h].failClosed
        => Allowed(h) /\ Recorded(h, "allow")

(* The user is told of a decision only as the chain has it: a block is a   *)
(* recorded deny or a failing exchange under DRP_FAIL_CLOSED, a prompt is  *)
(* an escalation that the gateway's queue knows, silence is an allow       *)
(* (adapter.mjs:155-160, httpServer.ts:68-69).                             *)
HookSaysWhatIsRecorded ==
    \A h \in HookCalls :
        /\ Ended(h, {"deny"}) => \/ Recorded(h, "deny")
                                 \/ front[h].failClosed /\ front[h].heard # 200
        /\ Ended(h, {"ask"}) => Recorded(h, "escalate") /\ escalations[h] # "none"
        /\ Ended(h, {"silent"}) /\ front[h].heard = 200 => Recorded(h, "allow")

(* An HTTP error for a tool that no downstream handles means that nothing  *)
(* was recorded, so that falling back on it loses no decision              *)
(* (httpServer.ts:66-75).                                                  *)
ErrorRepliesLeaveNoRecord ==
    \A h \in HookCalls : front[h].at = "done" /\ front[h].heard = 400 =>
        OwnReceipts(h) = {} /\ escalations[h] = "none"

(* What the proxy tells the agent agrees with what was executed: a result  *)
(* for a tool some downstream handles comes from its execution, a denied   *)
(* call never executes, and one said to be held executes only once it is   *)
(* approved (proxy.ts:58-65).                                              *)
ProxyTellsWhatHappened ==
    \A p \in ProxyCalls :
        LET executed == \E i \in 1..Len(calls) : calls[i] = p
        IN  /\ Ended(p, {"result"}) /\ job[p].proposal \in Routed => executed
            /\ Ended(p, {"denied"}) => ~ executed /\ escalations[p] = "none"
            /\ Ended(p, {"held"}) => (executed => escalations[p] = "approved")

(* A hook process ends, and a tool call ends unless a downstream keeps it  *)
(* waiting, whether policies load, fail or are replaced: the fetch has no  *)
(* timeout, so it rests on the gateway to settle (adapter.mjs:137-143,     *)
(* proxy.ts:58).                                                           *)
FrontCallsEnd ==
    /\ \A h \in HookCalls : Waits(h) ~> front[h].at = "done"
    /\ \A p \in ProxyCalls : Waits(p) ~> front[p].at = "done" \/ pc[p] = "enacting"

=============================================================================
