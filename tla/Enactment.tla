----------------------------- MODULE Enactment -----------------------------
(***************************************************************************)
(* What a runtime promises about actions, and nothing else (semantics      *)
(* section 2): a verdict is rendered before the action executes; an        *)
(* allowed action executes once; a denied or simulated one never does; an  *)
(* escalated one is held until somebody resolves it, and executes only if  *)
(* it is approved.  Nothing here says how a verdict is reached or when.    *)
(***************************************************************************)
EXTENDS Naturals

CONSTANT Actions

VARIABLES verdict,     \* what has been rendered about each action
          executed     \* how many times a downstream was called for it

vars == <<verdict, executed>>

Verdicts == {"none", "allowed", "denied", "simulated", "held", "approved", "refused"}

Executable(v) == v \in {"allowed", "approved"}

Init == /\ verdict = [a \in Actions |-> "none"]
        /\ executed = [a \in Actions |-> 0]

(* The action executes in the step that permits it, or does not execute    *)
(* at all (no downstream handles its tool).                                *)
Render(a, v, n) ==
    /\ \/ verdict[a] = "none" /\ v \in {"allowed", "denied", "simulated", "held"}
       \/ verdict[a] = "held" /\ v \in {"approved", "refused"}
    /\ n \in 0 .. (IF Executable(v) THEN 1 ELSE 0)
    /\ verdict' = [verdict EXCEPT ![a] = v]
    /\ executed' = [executed EXCEPT ![a] = n]

Next == \E a \in Actions, v \in Verdicts, n \in 0..1 : Render(a, v, n)

Spec == Init /\ [][Next]_vars

(* A downstream is never called for what was not permitted, nor twice.     *)
OnlyPermittedExecutes ==
    \A a \in Actions : executed[a] \in 0 .. (IF Executable(verdict[a]) THEN 1 ELSE 0)

=============================================================================
