-------------------------- MODULE WorkflowRestarts --------------------------
(***************************************************************************)
(* What restarts leave of the workflow runs.  recoverInterruptedRuns takes *)
(* up the running runs that nobody has touched for RECOVERY_AGE_MS (five   *)
(* minutes) and no others, while a container is usually back in seconds:   *)
(* the module keeps, beside the engine, the runs that the last restart has *)
(* left out.                                                               *)
(***************************************************************************)
EXTENDS WorkflowEngine

VARIABLE skipped   \* history: the running runs that the last restart left alone

RestartsInit == Init /\ skipped = {}

RestartsNext ==
  /\ Next
  /\ skipped' = IF backend = "down" /\ backend' = "recovering"
                  THEN {r \in Runs : runs[r].status = "running"} \ recovery'.stale
                  ELSE skipped

RestartsSpec == RestartsInit /\ [][RestartsNext]_<<vars, skipped>> /\ Fairness

\* Every run that is queued or running ends, whenever the process is lost and
\* restarted, also while it recovers from the loss before.  The exception is a run
\* that was running when the last restart found it too young to be recovered:
\* nobody works on it until another restart takes it up.
RunsEnd ==
  \A r \in Runs :
    runs[r].status \in {"queued", "running"} ~> Ended(r) \/ r \in skipped
=============================================================================
