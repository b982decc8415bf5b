--------------------------- MODULE WorkflowEngine ---------------------------
(***************************************************************************)
(* The workflow engine: runs of workflow definitions, the NodeRuns that    *)
(* execute their nodes, the in-memory job queue with its definition locks, *)
(* the worker pool, and the event handlers that start, resume, cancel and  *)
(* retry runs; process crashes and the recovery at the next start.         *)
(*                                                                         *)
(* The backend is one Node.js process, so code between two awaits is       *)
(* atomic and every await is a point where another handler may run.  One   *)
(* action is one database operation together with the synchronous code     *)
(* that follows it up to the next await.  `runs' and `nodeRuns' are Mongo  *)
(* documents and survive a crash; everything else is process memory.       *)
(***************************************************************************)
EXTENDS Integers, Sequences, FiniteSets

CONSTANTS
  Runs,             \* WorkflowRun ids
  NoRun,            \* the absent reference to a run
  Definitions,      \* WorkflowDefinition ids
  DefinitionOf,     \* run.definitionId
  Nodes,            \* node ids of the snapshot (all runs share one graph)
  Edges,            \* its edges, [from, to, branch]
  Triggers,         \* its trigger nodes
  NamedStarts,      \* nodes a caller may name as retryRun's fromNodeId
  Blocked,          \* nodes refused at run time: policy, unknown executor
  Results,          \* what each node's executor may return
  AnswerBranches,   \* the branches an answer may be mapped to (branchMap)
  MaxAttempts,      \* config.retry.maxAttempts of each node
  MaxNodesPerRun,   \* WORKFLOW_RUNTIME_LIMITS.maxNodesPerRun
  Workers,          \* the worker pool
  Handlers,         \* concurrent event handlers and requests: a bound
  MaxAnswers,       \* concurrent answer requests per question: a bound
  MaxFaults,        \* crashes and failing database operations: a bound
  Environment       \* which outside events this instance includes

Branches == {"success", "failure", "custom"}
EdgeBranches == Branches \cup {"always"}

\* A NodeResult: a branch stands for a success on that branch; "error" may be
\* retried, "fatal" is a deterministic failure, "timer" and "question" wait.
NodeResults == Branches \cup {"error", "fatal", "timer", "question"}

ASSUME ConstantsAssumption ==
  /\ NoRun \notin Runs
  /\ DefinitionOf \in [Runs -> Definitions]
  /\ Edges \subseteq [from : Nodes, to : Nodes, branch : EdgeBranches]
  /\ Triggers \subseteq Nodes
  /\ NamedStarts \subseteq Nodes
  /\ Blocked \subseteq Nodes
  /\ Results \in [Nodes -> SUBSET NodeResults]
  /\ AnswerBranches \subseteq Branches
  /\ MaxAttempts \in [Nodes -> Nat]
  /\ MaxNodesPerRun \in Nat
  /\ Workers \cap Handlers = {}
  /\ MaxAnswers \in Nat
  /\ MaxFaults \in Nat
  /\ Environment \subseteq {"cancel", "retry", "slow", "several recipients", "crash",
                            "quick restart", "early tick", "database error"}

VARIABLES
  runs,           \* the WorkflowRun documents
  nodeRuns,       \* the WorkflowNodeRun documents, in creation order
  queue,          \* WorkflowQueueService.jobs
  locks,          \* WorkflowQueueService.definitionLocks
  procs,          \* what each worker and each handler is doing
  queuedEvents,   \* emitted 'workflow.run.queued', not yet handled
  questionEvents, \* emitted QUESTION_ANSWERED / QUESTION_EXPIRED, not yet handled
  replies,        \* answers (1, 2, ...) and expiry (0) between their read of
                  \* the question and their save
  backend,        \* "up", "recovering" or "down"
  recovery,       \* the local state of recoverInterruptedRuns
  faults          \* crashes and database errors so far

memory == <<queue, locks, procs, queuedEvents, questionEvents, replies>>
control == <<backend, recovery, faults>>
vars == <<runs, nodeRuns, memory, control>>

Procs == Workers \cup Handlers

TerminalRun == {"succeeded", "failed", "cancelled"}
WaitingRun == {"waiting_for_user", "waiting_for_timer"}
RunStatus == {"absent", "queued", "running"} \cup WaitingRun \cup TerminalRun

OpenNodeRun == {"queued", "running", "waiting"}
NodeRunStatus == OpenNodeRun \cup {"succeeded", "failed", "interrupted"}

PCs == {"idle", "load", "mark", "count", "exec", "live", "wait", "park",
        "complete", "context", "enqueue", "open", "finish", "fail",
        "interrupt", "resume", "close", "spawn"}

Idle == [pc |-> "idle", run |-> NoRun, nr |-> 0, result |-> "none",
         todo |-> {}, attempt |-> 1, aborted |-> FALSE]

NoRecovery == [stale |-> {}, run |-> NoRun, closed |-> FALSE, resume |-> {}]

-----------------------------------------------------------------------------
(* The graph walker. *)

NextNodes(n, branch) ==
  {e.to : e \in {d \in Edges : d.from = n /\ d.branch \in {"always", branch}}}

FailureSuccessors(n) ==
  {e.to : e \in {d \in Edges : d.from = n /\ d.branch = "failure"}}

HasFailureEdges(n) == \E e \in Edges : e.from = n /\ e.branch = "failure"

-----------------------------------------------------------------------------
(* Helpers over the documents, the queue and the processes. *)

Ended(r) == runs[r].status \in TerminalRun

NodeOf(p) == nodeRuns[procs[p].nr].node

Listening == backend = "up"                       \* HTTP requests, workers
Ticking ==                                        \* cron jobs, their handlers
  \/ backend = "up"
  \/ backend = "recovering" /\ "early tick" \in Environment

SetRun(r, status) == runs' = [runs EXCEPT ![r].status = status]

SetNodeRun(i, status) == nodeRuns' = [nodeRuns EXCEPT ![i].status = status]

\* enqueueNode: the document is created and, when that returns, the job is
\* pushed.  Jobs are dispatched in the order of their NodeRuns' creation.
EnqueueNode(r, n, attempt, delayed) ==
  /\ nodeRuns' = Append(nodeRuns,
       [run |-> r, node |-> n, attempt |-> attempt, status |-> "queued",
        waitsFor |-> "none", question |-> "none"])
  /\ queue' = queue \cup {[nr |-> Len(nodeRuns) + 1, delayed |-> delayed]}

RemoveRun(r) == queue' = {j \in queue : nodeRuns[j.nr].run # r}

Goto(p, pc) == procs' = [procs EXCEPT ![p].pc = pc] /\ UNCHANGED locks

\* The handler or the job ends; a worker gives its definition lock back.
Return(p) ==
  /\ procs' = [procs EXCEPT ![p] = Idle]
  /\ locks' = IF p \in Workers
                THEN locks \ {DefinitionOf[procs[p].run]} ELSE locks

Begin(p, proc) == procs[p].pc = "idle" /\ procs' = [procs EXCEPT ![p] = proc]

DefinitionOfJob(j) == DefinitionOf[nodeRuns[j.nr].run]

-----------------------------------------------------------------------------
(* Starting a run. *)

\* By a request, or by the schedule or an event even while recovery runs.
StartRun(r) ==
  /\ Ticking
  /\ runs[r].status = "absent"
  /\ SetRun(r, "queued")
  /\ queuedEvents' = queuedEvents \cup {<<r, "start">>}
  /\ UNCHANGED <<nodeRuns, queue, locks, procs, questionEvents, replies, control>>

\* handleRunQueued claims the run; its trigger nodes are enqueued one by one.
HandleRunQueued(h, r, origin) ==
  /\ Ticking
  /\ <<r, origin>> \in queuedEvents
  /\ procs[h].pc = "idle"
  /\ queuedEvents' = queuedEvents \ {<<r, origin>>}
  /\ IF runs[r].status = "queued"
       THEN /\ SetRun(r, "running")
            /\ Begin(h, [Idle EXCEPT !.pc = IF Triggers = {} THEN "fail" ELSE "enqueue",
                                     !.run = r, !.result = "trigger", !.todo = Triggers])
       ELSE UNCHANGED <<runs, procs>>
  /\ UNCHANGED <<nodeRuns, queue, locks, questionEvents, replies, control>>

-----------------------------------------------------------------------------
(* Executing a job. *)

\* Variant: a lock that keeps nobody out.
LockedNever(j) == FALSE

Locked(j) == DefinitionOfJob(j) \in locks

\* A worker takes the first job that is neither delayed by a backoff nor behind
\* a definition lock.  A delayed job may have become due at any time.
DispatchJob(w) ==
  /\ Listening
  /\ \E j \in queue :
       /\ ~Locked(j)
       /\ \A i \in queue : i.nr < j.nr => i.delayed \/ Locked(i)
       /\ locks' = locks \cup {DefinitionOfJob(j)}
       /\ queue' = queue \ {j}
       /\ Begin(w, [Idle EXCEPT !.pc = "load", !.nr = j.nr, !.run = nodeRuns[j.nr].run])
  /\ UNCHANGED <<runs, nodeRuns, queuedEvents, questionEvents, replies, control>>

\* Variant: the NodeRun of a run that has ended is left as it is.
AbandonOpen(p) == Return(p)

\* The run has ended under the node's feet: the NodeRun is closed without effect.
Abandon(p) == Goto(p, "interrupt")

\* Variant: the budget off by one.
ExhaustedLate(r) == runs[r].executed > MaxNodesPerRun

Exhausted(r) == runs[r].executed >= MaxNodesPerRun

\* runJob reads the run and the NodeRun: a job whose run is not running is
\* dropped, and closed when the run has ended; a refused node or an exhausted
\* budget fails the run.
LoadJob(p) ==
  LET r == procs[p].run
  IN
  /\ procs[p].pc = "load"
  /\ \/ /\ Ended(r) /\ nodeRuns[procs[p].nr].status \in OpenNodeRun
        /\ Abandon(p)
     \/ /\ runs[r].status # "running"
        /\ ~ (Ended(r) /\ nodeRuns[procs[p].nr].status \in OpenNodeRun)
        /\ Return(p)
     \/ /\ runs[r].status = "running"
        /\ \/ NodeOf(p) \in Blocked
           \/ Exhausted(r)
           \/ "slow" \in Environment
        /\ procs' = [procs EXCEPT ![p].pc = "complete", ![p].result = "refused"]
        /\ UNCHANGED locks
     \/ /\ runs[r].status = "running"
        /\ NodeOf(p) \notin Blocked
        /\ ~Exhausted(r)
        /\ Goto(p, "mark")
  /\ UNCHANGED <<runs, nodeRuns, queue, queuedEvents, questionEvents, replies, control>>

\* nodeRun.save(): unconditional, whatever the document says by now.
MarkRunning(p) ==
  /\ procs[p].pc = "mark"
  /\ SetNodeRun(procs[p].nr, "running")
  /\ Goto(p, "count")
  /\ UNCHANGED <<runs, queue, queuedEvents, questionEvents, replies, control>>

\* The atomic $inc; then the AbortController is registered in inFlight.
CountExecution(p) ==
  /\ procs[p].pc = "count"
  /\ runs' = [runs EXCEPT ![procs[p].run].executed = @ + 1]
  /\ Goto(p, "exec")
  /\ UNCHANGED <<nodeRuns, queue, queuedEvents, questionEvents, replies, control>>

\* The executor returns, throws or times out; a question executor creates its
\* Question document before it returns "waiting".
Execute(p) ==
  /\ procs[p].pc = "exec"
  /\ \E res \in Results[NodeOf(p)] :
       /\ procs' = [procs EXCEPT ![p].pc = "live", ![p].result = res]
       /\ nodeRuns' = IF res = "question"
                        THEN [nodeRuns EXCEPT ![procs[p].nr].question = "pending"]
                        ELSE nodeRuns
  /\ UNCHANGED <<runs, queue, locks, queuedEvents, questionEvents, replies, control>>

-----------------------------------------------------------------------------
(* applyResult: shared by the workers and the resuming handlers. *)

ReadLiveStatus(p) ==
  /\ procs[p].pc = "live"
  /\ Goto(p, CASE Ended(procs[p].run) -> "interrupt"
               [] ~Ended(procs[p].run) /\ procs[p].result \in {"timer", "question"} -> "wait"
               [] OTHER -> "complete")
  /\ UNCHANGED <<runs, nodeRuns, queue, queuedEvents, questionEvents, replies, control>>

InterruptNodeRun(p) ==
  /\ procs[p].pc = "interrupt"
  /\ SetNodeRun(procs[p].nr, "interrupted")
  /\ Return(p)
  /\ UNCHANGED <<runs, queue, queuedEvents, questionEvents, replies, control>>

SaveWaiting(p) ==
  /\ procs[p].pc = "wait"
  /\ nodeRuns' = [nodeRuns EXCEPT ![procs[p].nr].status = "waiting",
                                  ![procs[p].nr].waitsFor = procs[p].result]
  /\ Goto(p, "park")
  /\ UNCHANGED <<runs, queue, queuedEvents, questionEvents, replies, control>>

\* The run follows its node into waiting unless it has ended meanwhile.
ParkRun(p) ==
  LET r == procs[p].run
  IN
  /\ procs[p].pc = "park"
  /\ IF Ended(r)
       THEN Abandon(p) /\ UNCHANGED runs
       ELSE /\ SetRun(r, IF procs[p].result = "timer"
                           THEN "waiting_for_timer" ELSE "waiting_for_user")
            /\ Return(p)
  /\ UNCHANGED <<nodeRuns, queue, queuedEvents, questionEvents, replies, control>>

Retries(p) ==
  /\ procs[p].result = "error"
  /\ nodeRuns[procs[p].nr].attempt < MaxAttempts[NodeOf(p)] + 1

Handled(p) == procs[p].result \in {"error", "fatal"} /\ HasFailureEdges(NodeOf(p))

\* Variant: the executor's word goes into the document as it is.
OutcomeVerbatim(p) == procs[p].result

Outcome(p) == IF procs[p].result \in Branches THEN "succeeded" ELSE "failed"

\* completeNodeRun, and which way applyResult goes on.  An unhandled failure
\* goes to failRun, which first takes the run's jobs out of the queue.
CompleteNodeRun(p) ==
  /\ procs[p].pc = "complete"
  /\ SetNodeRun(procs[p].nr, Outcome(p))
  /\ \/ /\ procs[p].result \in Branches \/ (~Retries(p) /\ Handled(p))
        /\ Goto(p, "context")
        /\ UNCHANGED queue
     \/ /\ Retries(p)
        /\ procs' = [procs EXCEPT ![p].pc = "enqueue", ![p].result = "retry",
                                  ![p].todo = {NodeOf(p)},
                                  ![p].attempt = nodeRuns[procs[p].nr].attempt + 1]
        /\ UNCHANGED <<queue, locks>>
     \/ /\ procs[p].result \notin Branches /\ ~Retries(p) /\ ~Handled(p)
        /\ RemoveRun(procs[p].run)
        /\ Goto(p, "fail")
  /\ UNCHANGED <<runs, queuedEvents, questionEvents, replies, control>>

\* The context update returns the fresh run: successors follow only if it runs.
UpdateContext(p) ==
  LET succs == IF procs[p].result \in Branches
                 THEN NextNodes(NodeOf(p), procs[p].result)
                 ELSE FailureSuccessors(NodeOf(p))
  IN
  /\ procs[p].pc = "context"
  /\ IF runs[procs[p].run].status = "running"
       THEN /\ procs' = [procs EXCEPT ![p].todo = succs, ![p].attempt = 1,
                                      ![p].pc = IF succs = {} THEN "open" ELSE "enqueue"]
            /\ UNCHANGED locks
       ELSE Return(p)
  /\ UNCHANGED <<runs, nodeRuns, queue, queuedEvents, questionEvents, replies, control>>

\* One turn of a loop of enqueueNode calls; nothing is re-read in between.
EnqueueNext(p) ==
  /\ procs[p].pc = "enqueue"
  /\ \E n \in procs[p].todo :
       /\ EnqueueNode(procs[p].run, n, procs[p].attempt, procs[p].result = "retry")
       /\ IF procs[p].todo # {n}
            THEN /\ procs' = [procs EXCEPT ![p].todo = @ \ {n}]
                 /\ UNCHANGED locks
            ELSE IF procs[p].result \in {"retry", "trigger", "spawn"}
                   THEN Return(p)
                   ELSE /\ procs' = [procs EXCEPT ![p].todo = {}, ![p].pc = "open"]
                        /\ UNCHANGED locks
  /\ UNCHANGED <<runs, queuedEvents, questionEvents, replies, control>>

\* Variant: only what has started counts as open.
StillOpenOnceStarted(r) ==
  \E i \in DOMAIN nodeRuns :
    nodeRuns[i].run = r /\ nodeRuns[i].status \in {"running", "waiting"}

StillOpen(r) ==
  \E i \in DOMAIN nodeRuns : nodeRuns[i].run = r /\ nodeRuns[i].status \in OpenNodeRun

\* maybeFinishRun counts the open NodeRuns, then updates the run conditionally.
CountOpen(p) ==
  /\ procs[p].pc = "open"
  /\ IF StillOpen(procs[p].run) THEN Return(p) ELSE Goto(p, "finish")
  /\ UNCHANGED <<runs, nodeRuns, queue, queuedEvents, questionEvents, replies, control>>

\* Variant, before M-20: a run is finished whatever became of it.
FinishableAlways(r) == TRUE

Finishable(r) == runs[r].status = "running"

FinishRun(p) ==
  /\ procs[p].pc = "finish"
  /\ IF Finishable(procs[p].run)
       THEN SetRun(procs[p].run, "succeeded") ELSE UNCHANGED runs
  /\ Return(p)
  /\ UNCHANGED <<nodeRuns, queue, queuedEvents, questionEvents, replies, control>>

FailRun(p) ==
  /\ procs[p].pc = "fail"
  /\ IF Ended(procs[p].run) THEN UNCHANGED runs ELSE SetRun(procs[p].run, "failed")
  /\ Return(p)
  /\ UNCHANGED <<nodeRuns, queue, queuedEvents, questionEvents, replies, control>>

-----------------------------------------------------------------------------
(* Waiting nodes: questions, their answers and expiry, and delays. *)

\* QuestionsService.answer reads the question and checks that it is still open;
\* a question to several recipients takes further answers.
OpenAnswer(i, k) ==
  /\ Listening
  /\ \/ nodeRuns[i].question \in {"pending", "expired"}
     \/ nodeRuns[i].question = "answered" /\ "several recipients" \in Environment
  /\ <<i, k>> \notin replies
  /\ replies' = replies \cup {<<i, k>>}
  /\ UNCHANGED <<runs, nodeRuns, queue, locks, procs, queuedEvents, questionEvents, control>>

\* It saves the answer and emits the event.  Saving the response array checks
\* the document version, so the other answers read before this one fail.
SaveAnswer(i, k) ==
  /\ Listening
  /\ <<i, k>> \in replies
  /\ replies' = {x \in replies : x[1] # i \/ x[2] = 0}
  /\ nodeRuns' = [nodeRuns EXCEPT ![i].question = "answered"]
  /\ questionEvents' = questionEvents \cup {[type |-> "answered", nr |-> i]}
  /\ UNCHANGED <<runs, queue, locks, procs, queuedEvents, control>>

\* escalateDueQuestions finds the overdue question; saving its status checks
\* no version and overwrites an answer given in between.
OpenExpiry(i) ==
  /\ Ticking
  /\ nodeRuns[i].question = "pending"
  /\ <<i, 0>> \notin replies
  /\ replies' = replies \cup {<<i, 0>>}
  /\ UNCHANGED <<runs, nodeRuns, queue, locks, procs, queuedEvents, questionEvents, control>>

SaveExpiry(i) ==
  /\ Ticking
  /\ <<i, 0>> \in replies
  /\ replies' = replies \ {<<i, 0>>}
  /\ nodeRuns' = [nodeRuns EXCEPT ![i].question = "expired"]
  /\ questionEvents' = questionEvents \cup {[type |-> "expired", nr |-> i]}
  /\ UNCHANGED <<runs, queue, locks, procs, queuedEvents, control>>

\* Variant, before M-14: the claim only reads, the NodeRun is saved later.
ClaimWaitingByReading(h, i, res) ==
  /\ UNCHANGED nodeRuns
  /\ Begin(h, [Idle EXCEPT !.pc = "resume", !.run = nodeRuns[i].run, !.nr = i, !.result = res])

\* The atomic claim WAITING -> RUNNING shared by the three resuming handlers.
ClaimWaiting(h, i, res) ==
  /\ nodeRuns' = [nodeRuns EXCEPT ![i].status = "running", ![i].waitsFor = "none"]
  /\ Begin(h, [Idle EXCEPT !.pc = "resume", !.run = nodeRuns[i].run, !.nr = i, !.result = res])

HandleQuestion(h, e) ==
  /\ Ticking
  /\ procs[h].pc = "idle"
  /\ questionEvents' = questionEvents \ {e}
  /\ IF nodeRuns[e.nr].status = "waiting" /\ nodeRuns[e.nr].waitsFor = "question"
       THEN \E res \in IF e.type = "answered" THEN AnswerBranches ELSE {"error"} :
              ClaimWaiting(h, e.nr, res)
       ELSE UNCHANGED <<nodeRuns, procs>>
  /\ UNCHANGED <<runs, queue, locks, queuedEvents, replies, control>>

ResumeDelayedNode(h, i) ==
  /\ Ticking
  /\ nodeRuns[i].status = "waiting" /\ nodeRuns[i].waitsFor = "timer"
  /\ ClaimWaiting(h, i, "success")
  /\ UNCHANGED <<runs, queue, locks, queuedEvents, questionEvents, replies, control>>

\* Variant, before M-20: the run is set running unconditionally.
ResumableAlways(r) == TRUE

Resumable(r) == ~Ended(r)

ResumeRun(p) ==
  /\ procs[p].pc = "resume"
  /\ IF Resumable(procs[p].run)
       THEN Goto(p, "live") /\ SetRun(procs[p].run, "running")
       ELSE Abandon(p) /\ UNCHANGED runs
  /\ UNCHANGED <<nodeRuns, queue, queuedEvents, questionEvents, replies, control>>

-----------------------------------------------------------------------------
(* Cancelling and retrying a run. *)

CancelRun(h, r) ==
  /\ Listening
  /\ "cancel" \in Environment
  /\ runs[r].status # "absent" /\ ~Ended(r)
  /\ SetRun(r, "cancelled")
  /\ Begin(h, [Idle EXCEPT !.pc = "close", !.run = r])
  /\ UNCHANGED <<nodeRuns, queue, locks, queuedEvents, questionEvents, replies, control>>

\* Its open NodeRuns are closed; then onRunCancelled, called synchronously,
\* takes its jobs out of the queue and aborts the executors it finds registered.
CloseNodeRuns(p) ==
  /\ procs[p].pc = "close"
  /\ nodeRuns' = [i \in DOMAIN nodeRuns |->
                    IF nodeRuns[i].run = procs[p].run /\ nodeRuns[i].status \in OpenNodeRun
                      THEN [nodeRuns[i] EXCEPT !.status = "interrupted"]
                      ELSE nodeRuns[i]]
  /\ RemoveRun(procs[p].run)
  /\ procs' = [q \in Procs |->
                 IF q = p THEN Idle
                 ELSE IF procs[q].pc = "exec" /\ procs[q].run = procs[p].run
                        THEN [procs[q] EXCEPT !.aborted = TRUE]
                        ELSE procs[q]]
  /\ UNCHANGED <<runs, locks, queuedEvents, questionEvents, replies, control>>

\* Variant: a retry that has been claimed does not keep the next one out.
RetryableAgain(r) == runs[r].status \in {"failed", "cancelled"}

Retryable(r) == runs[r].status \in {"failed", "cancelled"} /\ ~runs[r].retryClaimed

ClaimRetry(h, r) ==
  /\ Listening
  /\ "retry" \in Environment
  /\ Retryable(r)
  /\ runs' = [runs EXCEPT ![r].retryClaimed = TRUE]
  /\ Begin(h, [Idle EXCEPT !.pc = "spawn", !.run = r])
  /\ UNCHANGED <<nodeRuns, queue, locks, queuedEvents, questionEvents, replies, control>>

\* Where the child starts: a node the caller names, else the node of the oldest
\* failed NodeRun, else a trigger.
RetryStarts(r) ==
  LET failed == {i \in DOMAIN nodeRuns : nodeRuns[i].run = r /\ nodeRuns[i].status = "failed"}
      oldest == {i \in failed : \A j \in failed : i <= j}
  IN NamedStarts \cup (IF failed = {} THEN Triggers ELSE {nodeRuns[i].node : i \in oldest})

\* The child is created running; without a node to start at, nothing follows.
SpawnRetry(p) ==
  LET starts == RetryStarts(procs[p].run)
  IN
  /\ procs[p].pc = "spawn"
  /\ \E child \in Runs :
       /\ runs[child].status = "absent"
       /\ DefinitionOf[child] = DefinitionOf[procs[p].run]
       /\ runs' = [runs EXCEPT ![child].status = "running", ![child].parent = procs[p].run]
       /\ \/ /\ starts = {}
             /\ Return(p)
          \/ \E n \in starts :
               /\ procs' = [procs EXCEPT ![p].pc = "enqueue", ![p].run = child,
                                         ![p].result = "spawn", ![p].todo = {n}]
               /\ UNCHANGED locks
  /\ UNCHANGED <<nodeRuns, queue, queuedEvents, questionEvents, replies, control>>

-----------------------------------------------------------------------------
(* Failing database operations, crashes and recovery. *)

\* A rejected operation ends the handler where it stands; the worker pool logs
\* the error and releases the definition lock.
DatabaseError(p) ==
  /\ "database error" \in Environment
  /\ faults < MaxFaults
  /\ procs[p].pc # "idle"
  /\ Return(p)
  /\ faults' = faults + 1
  /\ UNCHANGED <<runs, nodeRuns, queue, queuedEvents, questionEvents, replies, backend, recovery>>

Crash ==
  /\ "crash" \in Environment
  /\ faults < MaxFaults
  /\ backend # "down"
  /\ backend' = "down"
  /\ faults' = faults + 1
  /\ queue' = {}
  /\ locks' = {}
  /\ procs' = [p \in Procs |-> Idle]
  /\ queuedEvents' = {}
  /\ questionEvents' = {}
  /\ replies' = {}
  /\ recovery' = NoRecovery
  /\ UNCHANGED <<runs, nodeRuns>>

\* Only runs left untouched for RECOVERY_AGE_MS are recovered: after a quick
\* restart that may be any part of the running ones.
Restart ==
  /\ backend = "down"
  /\ backend' = "recovering"
  /\ LET running == {r \in Runs : runs[r].status = "running"}
     IN \E stale \in IF "quick restart" \in Environment THEN SUBSET running ELSE {running} :
          recovery' = [NoRecovery EXCEPT !.stale = stale]
  /\ UNCHANGED <<runs, nodeRuns, memory, faults>>

\* Variant, before H-18: what has succeeded is run again as well.
CutOffWithDone(r) ==
  {i \in DOMAIN nodeRuns :
    nodeRuns[i].run = r /\ nodeRuns[i].status \in {"queued", "running", "succeeded"}}

\* The NodeRuns of a run that the crash cut off.
CutOff(r) ==
  {i \in DOMAIN nodeRuns : nodeRuns[i].run = r /\ nodeRuns[i].status \in {"queued", "running"}}

\* One stale run after the other: its queued and running NodeRuns are read,
RecoverRun(r) ==
  /\ backend = "recovering"
  /\ recovery.run = NoRun
  /\ r \in recovery.stale
  /\ recovery' = [stale |-> recovery.stale \ {r}, run |-> r, closed |-> FALSE,
                   resume |-> CutOff(r)]
  /\ UNCHANGED <<runs, nodeRuns, memory, backend, faults>>

\* marked interrupted (without a look at what they are by now),
InterruptCut ==
  /\ backend = "recovering"
  /\ recovery.run # NoRun /\ ~recovery.closed
  /\ nodeRuns' = [i \in DOMAIN nodeRuns |->
                    IF i \in recovery.resume
                      THEN [nodeRuns[i] EXCEPT !.status = "interrupted"]
                      ELSE nodeRuns[i]]
  /\ IF recovery.resume = {} THEN RemoveRun(recovery.run) ELSE UNCHANGED queue
  /\ recovery' = [recovery EXCEPT !.closed = TRUE]
  /\ UNCHANGED <<runs, locks, procs, queuedEvents, questionEvents, replies, backend, faults>>

\* and enqueued again; without any, the run fails.
FailCut ==
  /\ backend = "recovering"
  /\ recovery.run # NoRun /\ recovery.closed /\ recovery.resume = {}
  /\ IF Ended(recovery.run) THEN UNCHANGED runs ELSE SetRun(recovery.run, "failed")
  /\ recovery' = [NoRecovery EXCEPT !.stale = recovery.stale]
  /\ UNCHANGED <<nodeRuns, memory, backend, faults>>

RecoverNode(i) ==
  /\ backend = "recovering"
  /\ recovery.closed /\ i \in recovery.resume
  /\ EnqueueNode(nodeRuns[i].run, nodeRuns[i].node, nodeRuns[i].attempt + 1, FALSE)
  /\ recovery' = IF recovery.resume = {i} THEN [NoRecovery EXCEPT !.stale = recovery.stale]
                                          ELSE [recovery EXCEPT !.resume = @ \ {i}]
  /\ UNCHANGED <<runs, locks, procs, queuedEvents, questionEvents, replies, backend, faults>>

\* Variant: the queued runs are forgotten.
UnannouncedNone == {}

Unannounced == {<<r, "recovery">> : r \in {x \in Runs : runs[x].status = "queued"}}

\* Queued runs are announced again, then the workers start.
FinishRecovery ==
  /\ backend = "recovering"
  /\ recovery = NoRecovery
  /\ backend' = "up"
  /\ queuedEvents' = queuedEvents \cup Unannounced
  /\ UNCHANGED <<runs, nodeRuns, queue, locks, procs, questionEvents, replies, recovery, faults>>

-----------------------------------------------------------------------------
(* The specification. *)

Init ==
  /\ runs = [r \in Runs |-> [status |-> "absent", executed |-> 0,
                             retryClaimed |-> FALSE, parent |-> NoRun]]
  /\ nodeRuns = <<>>
  /\ queue = {}
  /\ locks = {}
  /\ procs = [p \in Procs |-> Idle]
  /\ queuedEvents = {}
  /\ questionEvents = {}
  /\ replies = {}
  /\ backend = "up"
  /\ recovery = NoRecovery
  /\ faults = 0

\* What a busy worker or handler does next.
Step(p) ==
  \/ LoadJob(p) \/ MarkRunning(p) \/ CountExecution(p) \/ Execute(p)
  \/ ReadLiveStatus(p) \/ InterruptNodeRun(p) \/ SaveWaiting(p) \/ ParkRun(p)
  \/ CompleteNodeRun(p) \/ UpdateContext(p) \/ EnqueueNext(p) \/ CountOpen(p)
  \/ FinishRun(p) \/ FailRun(p) \/ ResumeRun(p)
  \/ CloseNodeRuns(p) \/ SpawnRetry(p)

\* Users and operators: they may act, but need not.
Users ==
  \/ \E r \in Runs : StartRun(r)
  \/ \E h \in Handlers, r \in Runs : CancelRun(h, r) \/ ClaimRetry(h, r)
  \/ \E i \in DOMAIN nodeRuns, k \in 1..MaxAnswers : OpenAnswer(i, k)

Recovery ==
  \/ Restart
  \/ \E r \in Runs : RecoverRun(r)
  \/ InterruptCut \/ FailCut
  \/ \E i \in recovery.resume : RecoverNode(i)
  \/ FinishRecovery

Next ==
  \/ Users
  \/ \E h \in Handlers, e \in queuedEvents : HandleRunQueued(h, e[1], e[2])
  \/ \E h \in Handlers, e \in questionEvents : HandleQuestion(h, e)
  \/ \E h \in Handlers, i \in DOMAIN nodeRuns : ResumeDelayedNode(h, i)
  \/ \E i \in DOMAIN nodeRuns, k \in 1..MaxAnswers : SaveAnswer(i, k)
  \/ \E i \in DOMAIN nodeRuns : OpenExpiry(i) \/ SaveExpiry(i)
  \/ \E w \in Workers : DispatchJob(w)
  \/ \E p \in Procs : Step(p) \/ DatabaseError(p)
  \/ Crash
  \/ Recovery

Spec == Init /\ [][Next]_vars

\* The event loop runs every handler on, workers poll the queue, cron jobs
\* tick, executors end by their timeout, and a crashed process is restarted.
Fairness ==
  /\ \A p \in Procs : WF_vars(Step(p))
  /\ WF_vars(\E w \in Workers : DispatchJob(w))
  /\ WF_vars(\E h \in Handlers, e \in queuedEvents : HandleRunQueued(h, e[1], e[2]))
  /\ WF_vars(\E h \in Handlers, e \in questionEvents : HandleQuestion(h, e))
  /\ WF_vars(\E h \in Handlers, i \in DOMAIN nodeRuns : ResumeDelayedNode(h, i))
  /\ WF_vars(\E i \in DOMAIN nodeRuns, k \in 1..MaxAnswers : SaveAnswer(i, k))
  /\ WF_vars(\E i \in DOMAIN nodeRuns : OpenExpiry(i) \/ SaveExpiry(i))
  /\ WF_vars(Recovery)

FairSpec == Spec /\ Fairness

-----------------------------------------------------------------------------
(* Properties. *)

RunType == [status : RunStatus, executed : Nat, retryClaimed : BOOLEAN,
            parent : Runs \cup {NoRun}]

NodeRunType == [run : Runs, node : Nodes, attempt : Nat, status : NodeRunStatus,
                waitsFor : {"none", "timer", "question"},
                question : {"none", "pending", "answered", "expired"}]

JobType == [nr : Nat, delayed : BOOLEAN]

ProcType == [pc : PCs, run : Runs \cup {NoRun}, nr : Nat,
             result : NodeResults \cup {"none", "refused", "retry", "trigger", "spawn"},
             todo : SUBSET Nodes, attempt : Nat, aborted : BOOLEAN]

\* Every document, job, event and process is well formed.
TypeOK ==
  /\ runs \in [Runs -> RunType]
  /\ nodeRuns \in Seq(NodeRunType)
  /\ queue \subseteq JobType
  /\ locks \subseteq Definitions
  /\ procs \in [Procs -> ProcType]
  /\ queuedEvents \subseteq Runs \X {"start", "recovery"}
  /\ questionEvents \subseteq [type : {"answered", "expired"}, nr : Nat]
  /\ replies \subseteq Nat \X (0..MaxAnswers)
  /\ backend \in {"up", "recovering", "down"}
  /\ recovery \in [stale : SUBSET Runs, run : Runs \cup {NoRun}, closed : BOOLEAN,
                   resume : SUBSET Nat]
  /\ faults \in 0..MaxFaults

\* Two workers never execute nodes of one definition at the same time.
OneJobPerDefinition ==
  \A w, v \in Workers :
    (w # v /\ procs[w].pc # "idle" /\ procs[v].pc # "idle") =>
      DefinitionOf[procs[w].run] # DefinitionOf[procs[v].run]

\* No run executes more nodes than its budget, although the budget is read
\* two database operations before the execution is counted.
BudgetHolds == \A r \in Runs : runs[r].executed <= MaxNodesPerRun

\* In a forest every node can be reached in one way only, and not from itself.
Precedes(rank) == \A e \in Edges : rank[e.from] < rank[e.to]

Tree ==
  /\ \A d, e \in Edges : d.to = e.to => d = e
  /\ \A e \in Edges : e.to \notin Triggers
  /\ \E rank \in [Nodes -> 0..Cardinality(Nodes)] : Precedes(rank)

NeverWaits == \A n \in Nodes : Results[n] \cap {"timer", "question"} = {}

\* Nothing resumes a waiting node while the recovery is under way.
NoEarlyResume == "early tick" \in Environment => NeverWaits

\* H-18 and M-14: no retry, crash, second answer or late timer lets a node that
\* has succeeded run, and its successors follow, once more.
EachNodeSucceedsOnce ==
  (Tree /\ NoEarlyResume) => \A i, j \in DOMAIN nodeRuns :
    (/\ nodeRuns[i].status = "succeeded" /\ nodeRuns[j].status = "succeeded"
     /\ nodeRuns[i].run = nodeRuns[j].run /\ nodeRuns[i].node = nodeRuns[j].node) => i = j

Children(r) == {c \in Runs : runs[c].parent = r}
Spawning(r) == {p \in Procs : procs[p].pc = "spawn" /\ procs[p].run = r}

\* A failed or cancelled run is retried once, however many callers ask: it has
\* one child or one handler about to create it.
OneRetryPerRun ==
  \A r \in Runs : \A x, y \in Children(r) \cup Spawning(r) : x = y

NodeRunsOf(r) == {i \in DOMAIN nodeRuns : nodeRuns[i].run = r}
Reached(r) == {nodeRuns[i].node : i \in NodeRunsOf(r)}
AlwaysNext(n) == {e.to : e \in {d \in Edges : d.from = n /\ d.branch = "always"}}

\* `succeeded: all required nodes finished': nothing is open, the triggers and
\* the unconditional successors of what succeeded were reached, and every
\* failure was retried or handled.
SucceededIsComplete ==
  \A r \in Runs : runs[r].status = "succeeded" =>
    /\ \A i \in NodeRunsOf(r) : nodeRuns[i].status \notin OpenNodeRun
    /\ runs[r].parent = NoRun => Triggers \subseteq Reached(r)
    /\ \A i \in NodeRunsOf(r) :
         /\ nodeRuns[i].status = "succeeded" => AlwaysNext(nodeRuns[i].node) \subseteq Reached(r)
         /\ nodeRuns[i].status = "failed" =>
              \/ HasFailureEdges(nodeRuns[i].node)
              \/ \E j \in NodeRunsOf(r) : j > i /\ nodeRuns[j].node = nodeRuns[i].node

\* M-20: a run that has ended keeps its status for good.
EndedRunsStay ==
  [][\A r \in Runs : Ended(r) => runs'[r].status = runs[r].status]_vars

Busy(r) == \E p \in Procs : procs[p].pc # "idle" /\ procs[p].run = r
HasJob(r) == \E j \in queue : nodeRuns[j.nr].run = r

\* M-20: when nothing works on a cancelled run any more, its NodeRuns are all
\* closed, whatever a worker or a resuming handler was doing with them at the
\* time; a crash or a database error may cut the cancellation itself short.
CancelledRunsClose ==
  \A r \in Runs :
    (runs[r].status = "cancelled" /\ ~Busy(r) /\ ~HasJob(r) /\ faults = 0) =>
      \A i \in NodeRunsOf(r) : nodeRuns[i].status \notin OpenNodeRun

\* A run that waits for a timer goes on once the timer is due.
TimersFire ==
  \A r \in Runs : runs[r].status = "waiting_for_timer" ~> runs[r].status # "waiting_for_timer"

\* `running: actively executing': some process works on a running run, or one
\* of its nodes is queued as a job or waits.
RunningIsActive ==
  \A r \in Runs : (runs[r].status = "running" /\ backend = "up") =>
    \/ Busy(r)
    \/ HasJob(r)
    \/ \E i \in NodeRunsOf(r) : nodeRuns[i].status = "waiting"

\* `waiting_for_user: paused until a user answers a question': a run that waits
\* for its user has a question that is open or whose answer is on its way.
WaitingForUserHasQuestion ==
  \A r \in Runs : runs[r].status = "waiting_for_user" =>
    \/ Busy(r)
    \/ \E e \in questionEvents : nodeRuns[e.nr].run = r
    \/ \E i \in NodeRunsOf(r) : nodeRuns[i].status = "waiting" /\ nodeRuns[i].question = "pending"

-----------------------------------------------------------------------------
(* The inductive invariant of the proofs, in parts. *)

\* What a process must know of its NodeRun at each point.
NodePCs == {"load", "mark", "count", "exec", "live", "wait", "park", "complete",
            "context", "interrupt", "resume"}

Knows(p) ==
  /\ procs[p].pc # "idle" => procs[p].run \in Runs
  /\ procs[p].pc \in NodePCs => /\ procs[p].nr \in DOMAIN nodeRuns
                                /\ nodeRuns[procs[p].nr].run = procs[p].run
  /\ procs[p].pc \in {"wait", "park"} => procs[p].result \in {"timer", "question"}

\* Nothing refers to a NodeRun that does not exist, and a process that works on
\* a NodeRun works on the run it belongs to.
References ==
  /\ \A p \in Procs : Knows(p)
  /\ \A j \in queue : j.nr \in DOMAIN nodeRuns
  /\ \A e \in questionEvents : e.nr \in DOMAIN nodeRuns
  /\ recovery.resume \subseteq DOMAIN nodeRuns

\* Workers execute jobs and handlers resume, cancel and retry.
Roles ==
  /\ \A w \in Workers : procs[w].pc \notin {"resume", "close", "spawn"}
  /\ \A h \in Handlers : procs[h].pc \notin {"load", "mark", "count", "exec"}

\* A busy worker holds the lock of its definition.
LocksHeld == \A w \in Workers : procs[w].pc # "idle" => DefinitionOf[procs[w].run] \in locks

\* Between its check of the budget and its count a worker has one execution left.
BudgetLeft ==
  \A w \in Workers : procs[w].pc \in {"mark", "count"} =>
    runs[procs[w].run].executed < MaxNodesPerRun

\* Whatever works on a run, or belongs to it, does so after it has started.
Started(r) == runs[r].status \notin {"absent", "queued"}

WorkIsStarted ==
  /\ \A p \in Procs : procs[p].pc # "idle" => Started(procs[p].run)
  /\ \A i \in DOMAIN nodeRuns : Started(nodeRuns[i].run)
  /\ \A r \in recovery.stale : Started(r)
  /\ recovery.run # NoRun => Started(recovery.run)

\* A child exists only of a claimed run and is its only one, and whoever is about
\* to create it is alone and finds none.
RetryClaims ==
  /\ \A c \in Runs : runs[c].parent # NoRun =>
       /\ runs[runs[c].parent].retryClaimed
       /\ \A d \in Runs : runs[d].parent = runs[c].parent => d = c
  /\ \A p \in Procs : procs[p].pc = "spawn" =>
       /\ runs[procs[p].run].retryClaimed
       /\ \A c \in Runs : runs[c].parent # procs[p].run
       /\ \A q \in Procs : procs[q].pc = "spawn" /\ procs[q].run = procs[p].run => q = p

\* The engine keeps the promise of WorkflowRunLifecycle; the two ways of
\* waiting are one to it.
Lifecycle == INSTANCE WorkflowRunLifecycle WITH
  phase <- [r \in Runs |-> IF runs[r].status \in WaitingRun THEN "waiting" ELSE runs[r].status],
  claimed <- {r \in Runs : runs[r].retryClaimed},
  parent <- [r \in Runs |-> runs[r].parent]

ImplementsLifecycle == Lifecycle!Spec
=============================================================================
