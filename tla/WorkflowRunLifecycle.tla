------------------------ MODULE WorkflowRunLifecycle ------------------------
(***************************************************************************)
(* What the workflow engine promises of a run, whatever its nodes do: the  *)
(* states it passes through, that an end is final, and that a failed or    *)
(* cancelled run is retried at most once, by a run of its own.             *)
(* WorkflowEngine implements this module.                                  *)
(***************************************************************************)
CONSTANTS Runs, NoRun

VARIABLES
  phase,    \* absent, queued, running, waiting or ended in one of three ways
  claimed,  \* the runs whose retry has been claimed
  parent    \* of which run a run is the retry

vars == <<phase, claimed, parent>>

Retryable == {"failed", "cancelled"}
Final == {"succeeded"} \cup Retryable
Active == {"running", "waiting"}
Phases == {"absent", "queued"} \cup Active \cup Final

Init ==
  /\ phase = [r \in Runs |-> "absent"]
  /\ claimed = {}
  /\ parent = [r \in Runs |-> NoRun]

Move(r, from, to) ==
  /\ phase[r] \in from
  /\ phase' = [phase EXCEPT ![r] = to]
  /\ UNCHANGED <<claimed, parent>>

Start(r) == Move(r, {"absent"}, "queued")
Claim(r) == Move(r, {"queued"}, "running")
Park(r) == Move(r, {"running"}, "waiting")
Wake(r) == Move(r, {"waiting"}, "running")
Succeed(r) == Move(r, {"running"}, "succeeded")
Fail(r) == Move(r, Active, "failed")
Cancel(r) == Move(r, {"queued"} \cup Active, "cancelled")

ClaimRetry(r) ==
  /\ phase[r] \in Retryable
  /\ r \notin claimed
  /\ claimed' = claimed \cup {r}
  /\ UNCHANGED <<phase, parent>>

\* The child of a claimed run starts running; there is never a second one.
Retry(r, child) ==
  /\ r \in claimed
  /\ \A c \in Runs : parent[c] # r
  /\ phase[child] = "absent"
  /\ phase' = [phase EXCEPT ![child] = "running"]
  /\ parent' = [parent EXCEPT ![child] = r]
  /\ UNCHANGED claimed

Next ==
  \E r \in Runs :
    \/ Start(r) \/ Claim(r) \/ Park(r) \/ Wake(r)
    \/ Succeed(r) \/ Fail(r) \/ Cancel(r) \/ ClaimRetry(r)
    \/ \E child \in Runs : Retry(r, child)

Spec == Init /\ [][Next]_vars
=============================================================================
