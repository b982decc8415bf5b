---------------------------- MODULE ResearchRuns ----------------------------
(***************************************************************************)
(* Research runs (research/): a user starts, stops and continues research  *)
(* documents while workers of a queue execute them.  The requests are      *)
(* handlers with awaits between their steps; the document is in MongoDB,   *)
(* the job in Redis, and the abort controller of a run in memory.          *)
(*                                                                         *)
(* A job's id is derived from its document, so a document has one job and  *)
(* at most one worker.  Of a document's tasks the model keeps whether some *)
(* are unfinished and whether some are done; a run works on one round      *)
(* beyond the unfinished one, and later rounds do the same again.          *)
(***************************************************************************)
EXTENDS Naturals, FiniteSets

CONSTANTS
    Docs,            \* research documents
    Owner,           \* [Docs -> owners]
    Rank,            \* [Docs -> Nat]: the order of their ids
    Stamps,          \* the times that queuedAt tells apart
    Targets,         \* those that requests are made to and errors befall
    Handlers,        \* requests that may be in flight at once
    Concurrency,     \* of the worker
    Capacity,        \* poolCapacity("workflow")
    MaxRequests,     \* bound on requests to documents that exist
    MaxFaults        \* bound on errors and restarts

Ops == {"cancel", "pause", "resume", "retry", "deepen", "remove"}

ASSUME DocsAssumption == IsFiniteSet(Docs) /\ Docs # {}
ASSUME OwnerAssumption == DOMAIN Owner = Docs /\ Targets \subseteq Docs
ASSUME StampsAssumption == Stamps \subseteq Nat \ {0} /\ Rank \in [Docs -> Nat]
ASSUME NumbersAssumption ==
    /\ Concurrency \in Nat \ {0} /\ Capacity \in Nat \ {0}
    /\ MaxRequests \in Nat /\ MaxFaults \in Nat

VARIABLES
    doc,        \* [Docs -> the fields of the document that control its runs]
    job,        \* [Docs -> {"none", "waiting", "active", "failed"}]
    run,        \* [Docs -> [step, mode, content, round]]: the worker of an active job and
                \* what it has read
    controller, \* [Docs -> {"none", "live", "aborted"}]: ResearchLiveService
    stopping,   \* the process shuts down
    request,    \* [Handlers -> [op, doc, step, seen]]: seen is the document it has read
    requests, faults,
    overtaken,  \* history: documents written or cleaned up by a request that had read or
                \* written another state of it, and those withdrawn to be deleted
    spoilt,     \* history: documents whose run met an error of the store or has no owner
    missed,     \* history: documents whose job was lost while they are queued
    stranded,   \* history: documents left running by a last resort, a claim or a recovery
                \* that failed
    joined      \* history: [Docs -> documents put into the queue between check and claim]

outside == <<requests, faults, overtaken, spoilt, missed, stranded, joined>>
vars == <<doc, job, run, controller, stopping, request, outside>>

Statuses == {"none", "queued", "running", "paused", "done", "failed", "cancelled", "gone"}
Absent == [status |-> "none", mode |-> "research", content |-> FALSE, unfinished |-> FALSE,
           partial |-> FALSE, cancel |-> FALSE, pause |-> FALSE, at |-> 0]
Exists(d) == doc[d].status \notin {"none", "gone"}
NoRun == [step |-> "none", mode |-> "research", content |-> FALSE, round |-> "none"]
Idle == [op |-> "none", doc |-> CHOOSE d \in Docs : TRUE, step |-> "idle", seen |-> Absent]

\* patch: an updateOne by id, without effect once the document is deleted.
Patch(d, new) == doc' = IF Exists(d) THEN [doc EXCEPT ![d] = new] ELSE doc
NoFlags(r) == [r EXCEPT !.cancel = FALSE, !.pause = FALSE]

Fault(d) == faults < MaxFaults /\ faults' = faults + 1 /\ spoilt' = spoilt \cup {d}

-----------------------------------------------------------------------------
(* ResearchProcessor and mayStart                                          *)

ActiveJobs == {d \in Docs : job[d] = "active"}
Running == {d \in Docs : doc[d].status = "running"}

\* By queuedAt, and by the id where it is the same; at is 0 while a document does not wait.
Older(e, d) == doc[e].at < doc[d].at \/ (doc[e].at = doc[d].at /\ Rank[e] < Rank[d])

\* olderQueuedExists looks for one of these.
OlderQueued(d) ==
    {e \in Docs \ {d} : Owner[e] = Owner[d] /\ doc[e].status = "queued" /\ Older(e, d)}

\* The document joins the queue while others are between check and claim.
Joins(d) ==
    joined' = [e \in Docs |-> IF run[e].step = "claim" THEN joined[e] \cup {d} ELSE joined[e]]

\* process returns: the job is about to complete, ...
Return(d) ==
    /\ job' = [job EXCEPT ![d] = "active"]
    /\ run' = [run EXCEPT ![d] = [NoRun EXCEPT !.step = "complete"]]
\* ... or later() has moved it to the delayed jobs, where it waits.
Later(d) == job' = [job EXCEPT ![d] = "waiting"] /\ run' = [run EXCEPT ![d] = NoRun]

\* Mutant: every waiting document is as good as another.
AnyOrder(d) == Cardinality(Running) < Capacity

\* No older document of the owner waits, and the pool has room.
HasRoom(d) == OlderQueued(d) = {} /\ Cardinality(Running) < Capacity

\* A free worker takes the job, and mayStart looks at the document: it is dropped,
\* waits or may be claimed.
Taken(d) == job[d] = "waiting" /\ Cardinality(ActiveJobs) < Concurrency

MayStart(d) ==
    /\ Taken(d)
    /\ \/ doc[d].status # "queued" /\ Return(d)
       \/ doc[d].status = "queued" /\ ~HasRoom(d) /\ Later(d)
       \/ /\ doc[d].status = "queued" /\ HasRoom(d)
          /\ run' = [run EXCEPT ![d].step = "claim"]
          /\ job' = [job EXCEPT ![d] = "active"]
    /\ UNCHANGED <<doc, controller, stopping, request, outside>>

\* An error of the check or of the claim: the job waits, as the document would
\* have no job.  A claim that was written although its call failed has made the
\* document running, and the job drops it.
CheckFails(d) ==
    /\ run[d].step = "claim"
    /\ Fault(d) /\ Later(d)
    /\ joined' = [joined EXCEPT ![d] = {}]
    /\ \/ UNCHANGED <<doc, stranded>>
       \/ /\ doc[d].status = "queued"
          /\ doc' = [doc EXCEPT ![d].status = "running", ![d].at = 0]
          /\ stranded' = stranded \cup {d}
    /\ UNCHANGED <<controller, stopping, request, requests, overtaken, missed>>

\* claimQueued: the document becomes running if it still waits.
Claim(d) ==
    /\ run[d].step = "claim"
    /\ \/ /\ doc[d].status = "queued"
          /\ doc' = [doc EXCEPT ![d].status = "running", ![d].at = 0]
          /\ run' = [run EXCEPT ![d].step = "load"]
          /\ stranded' = stranded \ {d}
          /\ UNCHANGED job
       \/ doc[d].status # "queued" /\ Return(d) /\ UNCHANGED <<doc, stranded>>
    /\ joined' = [joined EXCEPT ![d] = {}]
    /\ UNCHANGED <<controller, stopping, request, requests, faults, overtaken, spoilt, missed>>

\* Mutant: the job always completes.
NeverAgain(d) == FALSE

\* isQueued: the document was continued while its job was active.
Again(d) == doc[d].status = "queued"

\* After the run: the job goes on with a document that is queued again, ...
AfterRun(d) ==
    /\ run[d].step = "after"
    /\ IF Again(d) THEN Later(d) ELSE Return(d)
    /\ UNCHANGED <<doc, controller, stopping, request, outside>>

\* ... and completes otherwise, a while later: a completed job is removed.
JobCompletes(d) ==
    /\ run[d].step = "complete"
    /\ job' = [job EXCEPT ![d] = "none"] /\ run' = [run EXCEPT ![d] = NoRun]
    /\ UNCHANGED <<doc, controller, stopping, request, outside>>

\* moveToDelayed throws: the job has failed for good (attempts: 1).
DelayFails(d) ==
    /\ \/ Taken(d) /\ ~HasRoom(d)
       \/ run[d].step = "after"
    /\ doc[d].status = "queued"
    /\ Fault(d)
    /\ job' = [job EXCEPT ![d] = "failed"] /\ run' = [run EXCEPT ![d] = NoRun]
    /\ missed' = missed \cup {d}
    /\ UNCHANGED <<doc, controller, stopping, request, requests, overtaken, stranded, joined>>

-----------------------------------------------------------------------------
(* ResearchRunnerService.run and execute                                   *)

\* Mutant: every failed run has failed.
FailedAlways(d, r) == [NoFlags(doc[d]) EXCEPT !.status = "failed"]

\* failurePatch and onFailed: a deepening that fails keeps the report it had.
Failed(d, r) ==
    IF r.mode = "deepen" /\ r.content
    THEN [NoFlags(doc[d]) EXCEPT !.status = "done", !.mode = "research"]
    ELSE [NoFlags(doc[d]) EXCEPT !.status = "failed"]

Goto(d, step) == run' = [run EXCEPT ![d].step = step]

\* run reads the document and its owner; execute begins a new controller.
LoadRun(d) ==
    /\ run[d].step = "load"
    /\ IF Exists(d)
       THEN /\ run' = [run EXCEPT ![d] = [step |-> "begun", mode |-> doc[d].mode,
                                          content |-> doc[d].content,
                                          round |-> IF doc[d].unfinished THEN "on" ELSE "none"]]
            /\ controller' = [controller EXCEPT ![d] = "live"]
       ELSE Goto(d, "after") /\ UNCHANGED controller
    /\ UNCHANGED <<doc, job, stopping, request, outside>>

\* The owner is gone or inactive.
NoOwner(d) ==
    /\ run[d].step = "load" /\ Exists(d)
    /\ Fault(d)
    /\ doc' = [doc EXCEPT ![d] = Failed(d, doc[d])]
    /\ Goto(d, "after")
    /\ UNCHANGED <<job, controller, stopping, request, requests, overtaken, missed, stranded,
                   joined>>

\* Mutant: the flags are not read again.
NotStopped(d) == Exists(d)

\* Deleted or asked to stop between the claim and begin().
MayWork(d) == Exists(d) /\ ~doc[d].cancel /\ ~doc[d].pause

Reread(d) ==
    /\ run[d].step = "begun"
    /\ IF MayWork(d) THEN Goto(d, "work") /\ UNCHANGED controller
       ELSE Goto(d, "interrupted") /\ controller' = [controller EXCEPT ![d] = "aborted"]
    /\ UNCHANGED <<doc, job, stopping, request, outside>>

\* A round's tasks are saved as running, ...
StartRound(d) ==
    /\ run[d].step = "work" /\ run[d].round = "none"
    /\ Patch(d, [doc[d] EXCEPT !.unfinished = TRUE])
    /\ run' = [run EXCEPT ![d].round = "on"]
    /\ UNCHANGED <<job, controller, stopping, request, outside>>

\* ... and with their outcomes: some are done, or all have failed.
RoundSaved(d, found) ==
    /\ run[d].step = "work" /\ run[d].round = "on"
    /\ Patch(d, [doc[d] EXCEPT !.unfinished = FALSE, !.partial = found])
    /\ run' = [run EXCEPT ![d].round = "over"]
    /\ UNCHANGED <<job, controller, stopping, request, outside>>
EndRound(d) == RoundSaved(d, TRUE)
RoundFails(d) == RoundSaved(d, doc[d].partial)

\* An aborted call or page: the work is interrupted wherever it is; a round keeps
\* its unfinished tasks and saves those that are done.
Interrupt(d) ==
    /\ run[d].step = "work" /\ controller[d] = "aborted"
    /\ Goto(d, "interrupted")
    /\ IF run[d].round = "on"
       THEN \E found \in {TRUE, doc[d].partial} : Patch(d, [doc[d] EXCEPT !.partial = found])
       ELSE UNCHANGED doc
    /\ UNCHANGED <<job, controller, stopping, request, outside>>

\* settled: execute's finally block removes the controller.
Settle(d, new) ==
    /\ Patch(d, new)
    /\ controller' = [controller EXCEPT ![d] = "none"]
    /\ Goto(d, "after")
    /\ UNCHANGED <<job, stopping, request, outside>>

\* The report is saved.
Finish(d) ==
    /\ run[d].step = "work" /\ run[d].round = "over" /\ doc[d].partial
    /\ Settle(d, [NoFlags(doc[d]) EXCEPT !.status = "done", !.content = TRUE,
                                        !.mode = "research"])

\* No source can be cited, no endpoint answers, the report is too short ...
Fail(d) ==
    /\ run[d].step = "work" /\ run[d].round # "on"
    /\ Settle(d, Failed(d, run[d]))

\* Mutant: the tasks of a cancelled run stay as they are.
CancelledAsIs(r, content) ==
    [NoFlags(r) EXCEPT !.status = IF content THEN "done" ELSE "cancelled",
                       !.mode = IF content THEN "research" ELSE @]

\* onInterrupted and cancelledPatch, of a document r that is known to have a report
\* or not: running tasks count as failed, and with its report it is done.
Cancelled(r, content) ==
    [NoFlags(r) EXCEPT !.status = IF content THEN "done" ELSE "cancelled",
                       !.mode = IF content THEN "research" ELSE @,
                       !.unfinished = FALSE]

\* onInterrupted.  Its read and its write are one step: a flag set between them
\* is lost as one that comes after it.
OnInterrupted(d) ==
    /\ run[d].step = "interrupted"
    /\ Settle(d, IF stopping THEN doc[d]
                 ELSE IF doc[d].cancel /\ ~doc[d].pause THEN Cancelled(doc[d], doc[d].content)
                 ELSE [NoFlags(doc[d]) EXCEPT !.status = "paused"])

\* The document cannot be read, or the state of the run cannot be saved: an error
\* of the work is answered with onFailed, and one of the end with lastResort.
StoreFails(d) ==
    /\ run[d].step \in {"load", "begun", "work", "interrupted"}
    /\ Fault(d)
    /\ \/ /\ run[d].step \in {"begun", "work"}
          /\ Patch(d, Failed(d, run[d]))
          /\ Goto(d, "after")
       \/ Goto(d, "lost") /\ UNCHANGED doc
    /\ controller' = [controller EXCEPT ![d] = "none"]
    /\ UNCHANGED <<job, stopping, request, requests, overtaken, missed, stranded, joined>>

\* The outcome of a round cannot be saved: the report is written from what is
\* known of it.
RoundNotSaved(d) ==
    /\ run[d].step = "work" /\ run[d].round = "on" /\ doc[d].partial
    /\ Fault(d)
    /\ run' = [run EXCEPT ![d].round = "over"]
    /\ UNCHANGED <<doc, job, controller, stopping, request, requests, overtaken, missed,
                   stranded, joined>>

\* Mutant: nobody tries again.
NoLastResort(d) ==
    /\ run[d].step = "lost"
    /\ Goto(d, "after")
    /\ UNCHANGED <<doc, job, controller, stopping, request, outside>>

\* lastResort: failed, or done where the document can be read and keeps its
\* report.  The error that made it necessary may last: then the document stays
\* running.  While the process stops, the recovery takes over.
LastResort(d) ==
    /\ run[d].step = "lost"
    /\ \/ /\ \E r \in {doc[d], NoRun} : Patch(d, IF stopping THEN doc[d] ELSE Failed(d, r))
          /\ UNCHANGED stranded
       \/ ~stopping /\ stranded' = stranded \cup {d} /\ UNCHANGED doc
    /\ Goto(d, "after")
    /\ UNCHANGED <<job, controller, stopping, request, requests, faults, overtaken, spoilt,
                   missed, joined>>

-----------------------------------------------------------------------------
(* The queue as the requests see it: ResearchQueueService                  *)

\* enqueue: a job that has failed makes room, any other swallows the new one; one
\* about to complete swallows it for good.
Enqueue(d) ==
    /\ job' = IF job[d] \in {"none", "failed"} THEN [job EXCEPT ![d] = "waiting"] ELSE job
    /\ missed' = IF job[d] \in {"none", "failed"} THEN missed \ {d}
                 ELSE IF run[d].step = "complete" /\ doc[d].status = "queued"
                      THEN missed \cup {d} ELSE missed

\* Mutant: the job of a running document as well.
RemoveAnyJob(d) == job' = [job EXCEPT ![d] = "none"] /\ UNCHANGED run

\* remove: a job that no worker has.
RemoveJob(d) ==
    /\ job' = IF job[d] = "active" THEN job ELSE [job EXCEPT ![d] = "none"]
    /\ UNCHANGED run

-----------------------------------------------------------------------------
(* Requests: ResearchControlService                                        *)

Op(h) == request[h].op
Of(h) == request[h].doc
Seen(h) == request[h].seen
ReqAt(h, step) == request[h].step = step
\* The next step of a request, which knows r of its document.
Then(h, step, r) == request' = [request EXCEPT ![h].step = step, ![h].seen = r]
Over(h) == request' = [request EXCEPT ![h] = Idle]

\* What the request is about to write or clean up is not what it has read or written.
Overtakes(h) ==
    overtaken' = IF doc[Of(h)] = Seen(h) THEN overtaken ELSE overtaken \cup {Of(h)}

\* start: the document is created and then put into the queue.  Its stamp was taken
\* before the call (and is counted up for further topics), so it may be older or
\* younger than what waits by now.
Start(h, d, at) ==
    /\ ReqAt(h, "idle") /\ doc[d].status = "none"
    /\ doc' = [doc EXCEPT ![d].status = "queued", ![d].at = at]
    /\ Joins(d)
    /\ request' = [request EXCEPT ![h] = [op |-> "start", doc |-> d, step |-> "enqueue",
                                          seen |-> Absent]]
    /\ UNCHANGED <<job, run, controller, stopping, requests, faults, overtaken, spoilt, missed,
                   stranded>>

\* load, and where a request goes from what it has read.
FirstStep(op, r) ==
    CASE op \in {"cancel", "pause", "remove"} /\ r.status = "queued" -> "transition"
      [] op \in {"cancel", "pause", "remove"} /\ r.status = "running" -> "flag"
      [] op = "cancel" /\ r.status = "paused" -> "removeJob"
      [] op = "remove" /\ r.status \notin {"queued", "running"} -> "removeJob"
      [] op = "resume" /\ (r.status = "paused" \/ (r.status = "failed" /\ r.partial)) -> "patch"
      [] op = "retry" /\ r.status \in {"failed", "cancelled"} -> "patch"
      [] op = "deepen" /\ r.status = "done" /\ r.content -> "patch"
      [] OTHER -> "conflict"

Load(h, d, op) ==
    /\ ReqAt(h, "idle") /\ Exists(d)
    /\ requests < MaxRequests /\ requests' = requests + 1
    /\ FirstStep(op, doc[d]) # "conflict"
    /\ request' = [request EXCEPT ![h] = [op |-> op, doc |-> d, step |-> FirstStep(op, doc[d]),
                                          seen |-> doc[d]]]
    /\ UNCHANGED <<doc, job, run, controller, stopping, faults, overtaken, spoilt, missed,
                   stranded, joined>>

\* What a request that has read seen makes of a document that waits.
Withdrawn(op, r, seen) ==
    CASE op = "cancel" -> Cancelled(r, seen.content)
      [] op = "pause" -> [r EXCEPT !.status = "paused", !.pause = FALSE]
      [] op = "remove" -> [NoFlags(r) EXCEPT !.status = "cancelled"]

\* transitionFromQueued: only if it still waits, the worker was faster otherwise.
Transition(h) ==
    /\ ReqAt(h, "transition")
    /\ IF doc[Of(h)].status = "queued"
       THEN /\ Patch(Of(h), [Withdrawn(Op(h), doc[Of(h)], Seen(h)) EXCEPT !.at = 0])
            /\ IF Op(h) = "remove" THEN overtaken' = overtaken \cup {Of(h)} ELSE Overtakes(h)
            /\ Then(h, "removeJob", doc'[Of(h)])
       ELSE Then(h, "flag", Absent) /\ UNCHANGED <<doc, overtaken>>
    /\ UNCHANGED <<job, run, controller, stopping, requests, faults, spoilt, missed, stranded,
                   joined>>

\* requestStop: first the flag, ...
Flag(h) ==
    /\ ReqAt(h, "flag")
    /\ Patch(Of(h), IF Op(h) = "pause" THEN [doc[Of(h)] EXCEPT !.pause = TRUE]
                    ELSE [doc[Of(h)] EXCEPT !.cancel = TRUE])
    /\ Then(h, "abort", IF Op(h) = "remove" THEN doc'[Of(h)] ELSE Absent)
    /\ UNCHANGED <<job, run, controller, stopping, outside>>

\* ... then the signal, to the controller there is.
Abort(h) ==
    /\ ReqAt(h, "abort")
    /\ controller' = [controller EXCEPT ![Of(h)] = IF @ = "live" THEN "aborted" ELSE @]
    /\ IF Op(h) = "remove" THEN Then(h, "removeJob", Seen(h)) ELSE Over(h)
    /\ UNCHANGED <<doc, job, run, stopping, outside>>

\* The job is removed; one that a worker has just taken is locked, and the
\* request fails.
RemoveQueued(h) ==
    /\ ReqAt(h, "removeJob")
    /\ \/ /\ RemoveJob(Of(h))
          /\ request' = [request EXCEPT ![h].step =
                IF Op(h) = "remove" THEN "delete"
                ELSE IF Seen(h).status = "paused" /\ Op(h) = "cancel" THEN "patch" ELSE "end"]
       \/ job[Of(h)] = "active" /\ Over(h) /\ UNCHANGED <<job, run>>
    /\ IF doc[Of(h)].status = "queued"
       THEN /\ overtaken' = overtaken \cup {Of(h)}
            /\ missed' = IF job[Of(h)] = "active" THEN missed ELSE missed \cup {Of(h)}
       ELSE UNCHANGED <<overtaken, missed>>
    /\ UNCHANGED <<doc, controller, stopping, requests, faults, spoilt, stranded, joined>>

\* How a document goes on: a paused deepening stays one.
Continued(op, r) ==
    CASE op = "resume" -> [r EXCEPT !.mode = IF @ = "deepen" THEN "deepen" ELSE "resume"]
      [] op = "retry" -> [r EXCEPT !.mode = "research", !.content = FALSE, !.unfinished = FALSE,
                                   !.partial = FALSE]
      [] op = "deepen" -> [r EXCEPT !.mode = "deepen"]

\* Back into the queue: whatever the document is by now, with the stamp of before
\* the call.
Requeue(h, at) ==
    /\ ReqAt(h, "patch") /\ Op(h) # "cancel"
    /\ LET r == [doc[Of(h)] EXCEPT !.mode = Seen(h).mode] IN
       Patch(Of(h), [NoFlags(Continued(Op(h), r)) EXCEPT !.status = "queued", !.at = at])
    /\ Joins(Of(h))
    /\ Overtakes(h)
    /\ Then(h, "enqueue", Absent)
    /\ UNCHANGED <<job, run, controller, stopping, requests, faults, spoilt, missed, stranded>>

Add(h) ==
    /\ ReqAt(h, "enqueue")
    /\ Enqueue(Of(h)) /\ Over(h)
    /\ UNCHANGED <<doc, run, controller, stopping, requests, faults, overtaken, spoilt, stranded,
                   joined>>

\* Redis does not answer, or a further topic cannot be created: the request fails
\* with the document in the queue.
AddFails(h) ==
    /\ ReqAt(h, "enqueue")
    /\ Fault(Of(h)) /\ Over(h)
    /\ missed' = missed \cup {Of(h)}
    /\ UNCHANGED <<doc, job, run, controller, stopping, requests, overtaken, stranded, joined>>

\* cancel of a paused document, with the tasks and the report it has read.
CancelPaused(h) ==
    /\ ReqAt(h, "patch") /\ Op(h) = "cancel"
    /\ Patch(Of(h), [Cancelled(doc[Of(h)], Seen(h).content) EXCEPT !.at = 0])
    /\ Overtakes(h)
    /\ Then(h, "end", doc'[Of(h)])
    /\ UNCHANGED <<job, run, controller, stopping, requests, faults, spoilt, missed, stranded,
                   joined>>

\* live.end: the controller goes.
EndLive(h) ==
    /\ ReqAt(h, "end")
    /\ controller' = [controller EXCEPT ![Of(h)] = "none"]
    /\ Overtakes(h) /\ Over(h)
    /\ UNCHANGED <<doc, job, run, stopping, requests, faults, spoilt, missed, stranded, joined>>

\* The document is deleted; live.end unless it was running.
Delete(h) ==
    /\ ReqAt(h, "delete")
    /\ doc' = [doc EXCEPT ![Of(h)] = [Absent EXCEPT !.status = "gone"]]
    /\ IF Seen(h).cancel THEN Over(h) /\ UNCHANGED controller
       ELSE Over(h) /\ controller' = [controller EXCEPT ![Of(h)] = "none"]
    /\ Overtakes(h)
    /\ UNCHANGED <<job, run, stopping, requests, faults, spoilt, missed, stranded, joined>>

-----------------------------------------------------------------------------
(* Shutdown and restart                                                    *)

\* onModuleDestroy.
Stop ==
    /\ ~stopping /\ faults < MaxFaults /\ faults' = faults + 1
    /\ stopping' = TRUE
    /\ controller' = [d \in Docs |-> IF controller[d] = "live" THEN "aborted" ELSE controller[d]]
    /\ UNCHANGED <<doc, job, run, request, requests, overtaken, spoilt, missed, stranded,
                   joined>>

\* Documents that wait without a job.
Jobless == {d \in Docs : doc[d].status = "queued" /\ job[d] \in {"none", "failed"}}

\* requeueWaiting, but for those left, and the stalled jobs of the process that is gone.
JobsAfterRestart(left) ==
    [d \in Docs |-> IF job[d] = "active" \/ d \in Jobless \ left THEN "waiting" ELSE job[d]]

\* pauseAllRunning; an error is only logged.
PauseAll ==
    \/ /\ doc' = [d \in Docs |-> IF doc[d].status = "running"
                                 THEN [NoFlags(doc[d]) EXCEPT !.status = "paused"] ELSE doc[d]]
       /\ stranded' = {}
    \/ UNCHANGED doc /\ stranded' = Running

\* The process ends, by itself or not, and begins anew: onModuleInit pauses what
\* was running, and what waits is put into the queue before the first request,
\* document by document: those left met an error.
Restart ==
    /\ stopping \/ faults < MaxFaults
    /\ faults' = IF stopping THEN faults ELSE faults + 1
    /\ stopping' = FALSE
    /\ PauseAll
    /\ \E left \in SUBSET Jobless :
         /\ job' = JobsAfterRestart(left)
         /\ missed' = (missed \ {d \in Docs : doc[d].status = "queued"}) \cup left
    /\ joined' = [d \in Docs |-> {}]
    /\ run' = [d \in Docs |-> NoRun]
    /\ controller' = [d \in Docs |-> "none"]
    /\ request' = [h \in Handlers |-> Idle]
    /\ UNCHANGED <<requests, overtaken, spoilt>>

-----------------------------------------------------------------------------
Init ==
    /\ doc = [d \in Docs |-> Absent]
    /\ job = [d \in Docs |-> "none"]
    /\ run = [d \in Docs |-> NoRun]
    /\ controller = [d \in Docs |-> "none"]
    /\ stopping = FALSE
    /\ request = [h \in Handlers |-> Idle]
    /\ requests = 0 /\ faults = 0
    /\ overtaken = {} /\ spoilt = {} /\ missed = {} /\ stranded = {}
    /\ joined = [d \in Docs |-> {}]

Work(d) ==
    \/ MayStart(d) \/ Claim(d) \/ AfterRun(d) \/ JobCompletes(d)
    \/ LoadRun(d) \/ Reread(d) \/ StartRound(d) \/ EndRound(d) \/ Finish(d)
    \/ OnInterrupted(d) \/ LastResort(d)
Proceed(h) ==
    \/ Transition(h) \/ Flag(h) \/ Abort(h) \/ RemoveQueued(h) \/ Add(h)
    \/ CancelPaused(h) \/ EndLive(h) \/ Delete(h)
Errors(d) ==
    \/ CheckFails(d) \/ DelayFails(d) \/ NoOwner(d) \/ StoreFails(d) \/ RoundNotSaved(d)
    \/ RoundFails(d) \/ Fail(d)

Next ==
    \/ \E d \in Docs : Work(d) \/ Interrupt(d)
    \/ \E d \in Targets : Errors(d)
    \/ \E h \in Handlers :
         \/ Proceed(h) \/ AddFails(h)
         \/ \E at \in Stamps : Requeue(h, at) \/ \E d \in Docs : Start(h, d, at)
         \/ \E d \in Targets, op \in Ops : Load(h, d, op)
    \/ Stop \/ Restart

Spec == Init /\ [][Next]_vars

-----------------------------------------------------------------------------
(* Properties                                                              *)

\* Every variable has the type its comment gives it.
TypeOK ==
    /\ doc \in [Docs -> [status : Statuses, mode : {"research", "resume", "deepen"},
                         content : BOOLEAN, unfinished : BOOLEAN, partial : BOOLEAN,
                         cancel : BOOLEAN, pause : BOOLEAN, at : Nat]]
    /\ job \in [Docs -> {"none", "waiting", "active", "failed"}]
    /\ run \in [Docs -> [step : {"none", "claim", "load", "begun", "work",
                                 "interrupted", "lost", "after", "complete"},
                         mode : {"research", "resume", "deepen"}, content : BOOLEAN,
                         round : {"none", "on", "over"}]]
    /\ \A d \in Docs : job[d] = "active" <=> run[d].step # "none"
    /\ Cardinality(ActiveJobs) <= Concurrency
    /\ controller \in [Docs -> {"none", "live", "aborted"}]
    /\ stopping \in BOOLEAN
    /\ \A h \in Handlers : Op(h) \in Ops \cup {"none", "start"} /\ Of(h) \in Docs
    /\ requests \in 0..MaxRequests /\ faults \in 0..MaxFaults
    /\ overtaken \cup spoilt \cup missed \cup stranded \subseteq Docs
    /\ joined \in [Docs -> SUBSET Docs]

\* A document that counts as running has a worker that will end it, also after an
\* error of the store: else it takes room of the pool until the next start.  Those
\* stranded are the three ways the code has to leave one behind: the last resort, or
\* pauseAllRunning at the start, fails and is only logged, or a claim was written
\* although its call failed.  A process that stops leaves it to the next one.
Executed(d) == run[d].step \in {"load", "begun", "work", "interrupted", "lost"}
RunningIsExecuted == ~stopping => \A d \in Running \ stranded : Executed(d)

\* A document that has a report shows it, or is being deepened: no interruption,
\* failure, cancellation or restart of a deepening leaves it failed or cancelled,
\* whence only retry leads on, which drops the report.
ReportStays ==
    \A d \in Docs \ (overtaken \cup spoilt) :
        doc[d].content =>
            \/ doc[d].status = "done"
            \/ doc[d].status \in {"queued", "running", "paused"} /\ doc[d].mode = "deepen"

\* A document that is done has no task that counts as running: a deepening would
\* take it for its own and work on the old round instead of the new question.
DoneIsClean ==
    \A d \in Docs \ (overtaken \cup spoilt) : doc[d].status = "done" => ~doc[d].unfinished

\* A stop that was asked for, before or after the run has its controller, has
\* reached it once the request is over: the run is aborted or sees the flag.
StopReaches ==
    \A d \in Docs \ overtaken :
        /\ run[d].step = "work" /\ doc[d].status = "running" /\ (doc[d].cancel \/ doc[d].pause)
        /\ \A h \in Handlers : ~(Of(h) = d /\ ReqAt(h, "abort"))
        => controller[d] = "aborted"

\* A document that is queued has a job, a request that is about to add it or a
\* worker that will see it; one without blocks its owner's later documents.
\* missed are the ways the code has to lose it.
QueuedHasJob ==
    \A d \in Docs \ missed :
        doc[d].status = "queued" =>
            \/ job[d] = "waiting"
            \/ job[d] = "active" /\ run[d].step # "complete"
            \/ \E h \in Handlers : Of(h) = d /\ ReqAt(h, "enqueue")

\* A document is claimed before an older one of its owner only if that one joined the
\* queue between the check and the claim, with a stamp taken before, or if it was
\* itself put back into the queue in between.
StartsInOrder ==
    [][\A d \in Docs :
         Claim(d) /\ doc[d].status = "queued" /\ d \notin joined[d]
            => OlderQueued(d) \subseteq joined[d]]_vars
=============================================================================
