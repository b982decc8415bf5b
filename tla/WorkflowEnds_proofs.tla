------------------------- MODULE WorkflowEnds_proofs -------------------------
(***************************************************************************)
(* How the runs of WorkflowEngine end: a run that has succeeded left       *)
(* nothing out, and a cancelled run closes its NodeRuns.                   *)
(***************************************************************************)
EXTENDS WorkflowNodes_proofs

-----------------------------------------------------------------------------
(* What the steps of a process do, one by one. *)

RunOf(j) == nodeRuns[j.nr].run
DocsStay == StatusesStay /\ queue' = queue

LEMMA KnownNodeRun ==
  ASSUME TypeInv, NEW p \in Procs, procs[p].pc \in NodePCs
  PROVE  /\ procs[p].nr \in DOMAIN nodeRuns /\ procs[p].run \in Runs
         /\ nodeRuns[procs[p].nr].run = procs[p].run
         /\ nodeRuns[procs[p].nr].node \in Nodes
<1>1. /\ procs[p].nr \in DOMAIN nodeRuns /\ nodeRuns[procs[p].nr].run = procs[p].run
      /\ procs[p].run \in Runs
  BY DEF TypeInv, References, Knows, NodePCs
<1> QED
  BY <1>1, Typed, NodeRunFacts

LEMMA LoadShape ==
  ASSUME TypeInv, NEW p \in Procs, LoadJob(p)
  PROVE  /\ procs[p].pc = "load" /\ DocsStay /\ runs' = runs
         /\ \/ GoesOn(p, "interrupt")
            \/ Ends(p) /\ ~ (Ended(procs[p].run) /\ Open(procs[p].nr))
            \/ runs[procs[p].run].status = "running" /\ GoesOn(p, "complete")
            \/ runs[procs[p].run].status = "running" /\ GoesOn(p, "mark")
<1> DEFINE x == [procs[p] EXCEPT !.pc = "complete", !.result = "refused"]
<1>1. procs[p].pc = "load" /\ StatusesStay /\ queue' = queue /\ runs' = runs
  BY UnchangedStay DEF LoadJob
<1>2. \/ Goto(p, "interrupt")
      \/ Return(p) /\ ~ (Ended(procs[p].run) /\ Open(procs[p].nr))
      \/ runs[procs[p].run].status = "running" /\ procs' = [procs EXCEPT ![p] = x]
      \/ runs[procs[p].run].status = "running" /\ Goto(p, "mark")
  BY Zenon DEF LoadJob, Abandon, Open
<1>3. x.pc = "complete" /\ x.run = procs[p].run /\ x.nr = procs[p].nr
  BY ProcessFields DEF ProcType
<1> HIDE DEF x
<1>4. procs' = [procs EXCEPT ![p] = x] => GoesOn(p, "complete")
  BY <1>3, BecomesOnly DEF GoesOn
<1> QED
  BY <1>1, <1>2, <1>4, GotoGoesOn, ReturnEnds DEF PCs, DocsStay

LEMMA MarkShape ==
  ASSUME TypeInv, NEW p \in Procs, MarkRunning(p)
  PROVE  /\ procs[p].pc = "mark" /\ GoesOn(p, "count") /\ GetsStatus(procs[p].nr, "running")
         /\ queue' = queue /\ runs' = runs
  BY KnownNodeRun, SetGetsStatus, GotoGoesOn DEF MarkRunning, NodePCs, PCs

LEMMA CountShape ==
  ASSUME TypeInv, NEW p \in Procs, CountExecution(p)
  PROVE  procs[p].pc = "count" /\ GoesOn(p, "exec") /\ DocsStay
  BY UnchangedStay, GotoGoesOn DEF CountExecution, PCs, DocsStay

LEMMA LiveShape ==
  ASSUME TypeInv, NEW p \in Procs, ReadLiveStatus(p)
  PROVE  /\ procs[p].pc = "live" /\ DocsStay /\ runs' = runs
         /\ procs'[p].result = procs[p].result
         /\ \/ GoesOn(p, "interrupt")
            \/ ~Ended(procs[p].run) /\ procs[p].result \in {"timer", "question"} /\ GoesOn(p, "wait")
            \/ ~Ended(procs[p].run) /\ GoesOn(p, "complete")
<1>1. procs[p].pc = "live" /\ StatusesStay /\ queue' = queue /\ runs' = runs
  BY UnchangedStay DEF ReadLiveStatus
<1>2. \/ Goto(p, "interrupt")
      \/ ~Ended(procs[p].run) /\ procs[p].result \in {"timer", "question"} /\ Goto(p, "wait")
      \/ ~Ended(procs[p].run) /\ Goto(p, "complete")
  BY DEF ReadLiveStatus
<1>3. procs'[p].result = procs[p].result
  BY <1>2, Typed, GotoFacts DEF PCs
<1> QED
  BY <1>1, <1>2, <1>3, GotoGoesOn DEF PCs, DocsStay

LEMMA InterruptShape ==
  ASSUME TypeInv, NEW p \in Procs, InterruptNodeRun(p)
  PROVE  /\ procs[p].pc = "interrupt" /\ Ends(p) /\ GetsStatus(procs[p].nr, "interrupted")
         /\ queue' = queue /\ runs' = runs
  BY KnownNodeRun, SetGetsStatus, ReturnEnds DEF InterruptNodeRun, NodePCs

LEMMA SaveWaitingShape ==
  ASSUME TypeInv, NEW p \in Procs, SaveWaiting(p)
  PROVE  /\ procs[p].pc = "wait" /\ GoesOn(p, "park") /\ GetsStatus(procs[p].nr, "waiting")
         /\ queue' = queue /\ runs' = runs
  BY KnownNodeRun, WaitsGetsStatus, GotoGoesOn DEF SaveWaiting, NodePCs, PCs

LEMMA ParkShape ==
  ASSUME TypeInv, NEW p \in Procs, ParkRun(p)
  PROVE  /\ procs[p].pc = "park" /\ DocsStay
         /\ GoesOn(p, "interrupt") \/ (Ends(p) /\ ~Ended(procs[p].run))
  BY UnchangedStay, GotoGoesOn, ReturnEnds DEF ParkRun, Abandon, PCs, DocsStay

LEMMA ResumeShape ==
  ASSUME TypeInv, NEW p \in Procs, ResumeRun(p)
  PROVE  /\ procs[p].pc = "resume" /\ DocsStay
         /\ GoesOn(p, "interrupt") \/ GoesOn(p, "live")
  BY UnchangedStay, GotoGoesOn DEF ResumeRun, Abandon, PCs, DocsStay

LEMMA OpenShape ==
  ASSUME TypeInv, NEW p \in Procs, CountOpen(p)
  PROVE  /\ procs[p].pc = "open" /\ DocsStay /\ runs' = runs
         /\ Ends(p) \/ (GoesOn(p, "finish") /\ ~StillOpen(procs[p].run))
  BY UnchangedStay, GotoGoesOn, ReturnEnds DEF CountOpen, PCs, DocsStay

LEMMA EndShape ==
  ASSUME TypeInv, NEW p \in Procs, FinishRun(p) \/ FailRun(p)
  PROVE  procs[p].pc \in {"finish", "fail"} /\ DocsStay /\ Ends(p)
  BY UnchangedStay, ReturnEnds DEF FinishRun, FailRun, DocsStay

\* The result of a node: its successors, another try, or the end of the run.
LEMMA CompleteShape ==
  ASSUME TypeInv, NEW p \in Procs, CompleteNodeRun(p)
  PROVE  /\ procs[p].pc = "complete" /\ runs' = runs /\ GetsStatus(procs[p].nr, Outcome(p))
         /\ Outcome(p) \in {"succeeded", "failed"}
         /\ \/ /\ GoesOn(p, "context") /\ queue' = queue /\ procs'[p].result = procs[p].result
               /\ Outcome(p) = "succeeded" => procs[p].result \in Branches
               /\ Outcome(p) = "failed" => HasFailureEdges(NodeOf(p))
            \/ /\ GoesOn(p, "enqueue") /\ queue' = queue /\ Outcome(p) = "failed"
               /\ procs'[p].result = "retry" /\ procs'[p].todo = {NodeOf(p)}
            \/ GoesOn(p, "fail") /\ RemoveRun(procs[p].run) /\ Outcome(p) = "failed"
<1> DEFINE x == [procs[p] EXCEPT !.pc = "enqueue", !.result = "retry", !.todo = {NodeOf(p)},
                                 !.attempt = nodeRuns[procs[p].nr].attempt + 1]
<1>1. procs[p].pc = "complete" /\ runs' = runs /\ GetsStatus(procs[p].nr, Outcome(p))
  BY KnownNodeRun, SetGetsStatus DEF CompleteNodeRun, NodePCs
<1>2. \/ /\ procs[p].result \in Branches \/ (~Retries(p) /\ Handled(p))
         /\ Goto(p, "context") /\ queue' = queue
      \/ Retries(p) /\ procs' = [procs EXCEPT ![p] = x] /\ queue' = queue
      \/ /\ procs[p].result \notin Branches
         /\ RemoveRun(procs[p].run) /\ Goto(p, "fail")
  BY Zenon DEF CompleteNodeRun
<1>3. /\ x.pc = "enqueue" /\ x.run = procs[p].run /\ x.nr = procs[p].nr
      /\ x.result = "retry" /\ x.todo = {NodeOf(p)}
  BY ProcessFields DEF ProcType
<1> HIDE DEF x
<1>4. /\ Outcome(p) \in {"succeeded", "failed"}
      /\ Outcome(p) = "succeeded" <=> procs[p].result \in Branches
  BY DEF Outcome
<1>5. CASE /\ procs[p].result \in Branches \/ (~Retries(p) /\ Handled(p))
           /\ Goto(p, "context") /\ queue' = queue
  <2>1. GoesOn(p, "context") /\ procs'[p].result = procs[p].result
    BY <1>5, Typed, GotoFacts, GotoGoesOn DEF PCs
  <2>2. Outcome(p) = "failed" => HasFailureEdges(NodeOf(p))
    BY <1>4, <1>5 DEF Handled
  <2> QED
    BY <1>1, <1>4, <1>5, <2>1, <2>2
<1>6. CASE Retries(p) /\ procs' = [procs EXCEPT ![p] = x] /\ queue' = queue
  <2>1. GoesOn(p, "enqueue") /\ procs'[p].result = "retry" /\ procs'[p].todo = {NodeOf(p)}
    BY <1>3, <1>6, BecomesOnly DEF GoesOn
  <2>2. Outcome(p) = "failed"
    BY <1>4, <1>6 DEF Retries, Branches
  <2> QED
    BY <1>1, <1>4, <1>6, <2>1, <2>2
<1>7. CASE procs[p].result \notin Branches /\ RemoveRun(procs[p].run) /\ Goto(p, "fail")
  BY <1>1, <1>4, <1>7, GotoGoesOn DEF PCs
<1> QED
  BY <1>2, <1>5, <1>6, <1>7

Successors(p) ==
  IF procs[p].result \in Branches THEN NextNodes(NodeOf(p), procs[p].result)
                                  ELSE FailureSuccessors(NodeOf(p))

LEMMA ContextShape ==
  ASSUME TypeInv, NEW p \in Procs, UpdateContext(p)
  PROVE  /\ procs[p].pc = "context" /\ DocsStay /\ runs' = runs
         /\ \/ runs[procs[p].run].status # "running" /\ Ends(p)
            \/ Successors(p) = {} /\ GoesOn(p, "open")
            \/ GoesOn(p, "enqueue") /\ procs'[p].todo = Successors(p)
<1> DEFINE S == Successors(p)
           x == [procs[p] EXCEPT !.todo = S, !.attempt = 1,
                                 !.pc = IF S = {} THEN "open" ELSE "enqueue"]
<1>1. procs[p].pc = "context" /\ StatusesStay /\ queue' = queue /\ runs' = runs
  BY UnchangedStay DEF UpdateContext
<1>2. \/ procs' = [procs EXCEPT ![p] = x]
      \/ runs[procs[p].run].status # "running" /\ Return(p)
  BY Zenon DEF UpdateContext, Successors
<1> HIDE DEF S
<1>3. /\ x.pc = (IF S = {} THEN "open" ELSE "enqueue")
      /\ x.run = procs[p].run /\ x.nr = procs[p].nr /\ x.todo = S
  BY ProcessFields DEF ProcType
<1> HIDE DEF x
<1>4. ASSUME procs' = [procs EXCEPT ![p] = x]
      PROVE  (S = {} /\ GoesOn(p, "open")) \/ (GoesOn(p, "enqueue") /\ procs'[p].todo = S)
  BY <1>3, <1>4, BecomesOnly DEF GoesOn
<1> QED
  BY <1>1, <1>2, <1>4, ReturnEnds DEF S, DocsStay

LEMMA EnqueueShape ==
  ASSUME TypeInv, NEW p \in Procs, EnqueueNext(p)
  PROVE  /\ procs[p].pc = "enqueue" /\ runs' = runs /\ procs[p].run \in Runs
         /\ \E n \in procs[p].todo :
              /\ n \in Nodes /\ Creates(procs[p].run, n)
              /\ \/ /\ GoesOn(p, "enqueue") /\ procs[p].todo # {n}
                    /\ procs'[p].todo = procs[p].todo \ {n} /\ procs'[p].result = procs[p].result
                 \/ Ends(p) /\ procs[p].todo = {n}
                 \/ /\ GoesOn(p, "open") /\ procs[p].todo = {n}
                    /\ procs[p].result \notin {"retry", "trigger", "spawn"}
<1>1. procs[p].pc = "enqueue" /\ procs[p].run \in Runs /\ runs' = runs
  BY DEF EnqueueNext, TypeInv, References, Knows
<1>2. PICK n \in procs[p].todo :
        /\ EnqueueNode(procs[p].run, n, procs[p].attempt, procs[p].result = "retry")
        /\ \/ procs[p].todo # {n} /\ procs' = [procs EXCEPT ![p].todo = @ \ {n}]
           \/ procs[p].todo = {n} /\ Return(p)
           \/ /\ procs[p].todo = {n} /\ procs' = [procs EXCEPT ![p].todo = {}, ![p].pc = "open"]
              /\ procs[p].result \notin {"retry", "trigger", "spawn"}
  BY DEF EnqueueNext
<1>3. procs[p].attempt \in Nat /\ n \in Nodes
  BY ProcessFields DEF ProcType
<1>4. Creates(procs[p].run, n)
  BY <1>1, <1>2, <1>3, EnqueueCreates
<1> DEFINE x == [procs[p] EXCEPT !.todo = @ \ {n}]
           y == [procs[p] EXCEPT !.todo = {}, !.pc = "open"]
<1>5. /\ x.pc = "enqueue" /\ x.run = procs[p].run /\ x.nr = procs[p].nr
      /\ x.todo = procs[p].todo \ {n} /\ x.result = procs[p].result
      /\ y.pc = "open" /\ y.run = procs[p].run /\ y.nr = procs[p].nr
  BY <1>1, ProcessFields DEF ProcType
<1>6. \/ procs[p].todo # {n} /\ procs' = [procs EXCEPT ![p] = x]
      \/ procs[p].todo = {n} /\ Return(p)
      \/ /\ procs[p].todo = {n} /\ procs' = [procs EXCEPT ![p] = y]
         /\ procs[p].result \notin {"retry", "trigger", "spawn"}
  BY Zenon, <1>2
<1> HIDE DEF x, y
<1>7. CASE procs[p].todo # {n} /\ procs' = [procs EXCEPT ![p] = x]
  <2>1. /\ GoesOn(p, "enqueue") /\ procs'[p].todo = procs[p].todo \ {n}
        /\ procs'[p].result = procs[p].result
    BY <1>5, <1>7, BecomesOnly DEF GoesOn
  <2> QED
    BY <1>1, <1>3, <1>4, <1>7, <2>1
<1>8. CASE procs[p].todo = {n} /\ Return(p)
  BY <1>1, <1>3, <1>4, <1>8, ReturnEnds
<1>9. CASE /\ procs[p].todo = {n} /\ procs' = [procs EXCEPT ![p] = y]
           /\ procs[p].result \notin {"retry", "trigger", "spawn"}
  <2>1. GoesOn(p, "open")
    BY <1>5, <1>9, BecomesOnly DEF GoesOn
  <2> QED
    BY <1>1, <1>3, <1>4, <1>9, <2>1
<1> QED
  BY <1>6, <1>7, <1>8, <1>9

-----------------------------------------------------------------------------
(* How processes begin. *)

\* Process p begins with run r, for which nothing has been done yet.
Starts(p, r) ==
  /\ OnlyProc(p) /\ DocsStay
  /\ r \in Runs /\ ~Started(r) /\ procs'[p].run = r
  /\ procs'[p].pc \in {"enqueue", "fail"}
  /\ procs'[p].result \in {"trigger", "spawn"}

LEMMA SpawnShape ==
  ASSUME TypeInv, NEW p \in Procs, SpawnRetry(p)
  PROVE  /\ procs[p].pc = "spawn"
         /\ \/ Ends(p) /\ DocsStay
            \/ \E c \in Runs, n \in Nodes :
                 Starts(p, c) /\ procs'[p].todo = {n} /\ procs'[p].pc = "enqueue"
<1>1. /\ procs[p].pc = "spawn" /\ StatusesStay /\ queue' = queue /\ procs[p].run \in Runs
  BY UnchangedStay DEF SpawnRetry, TypeInv, References, Knows
<1>2. CASE Return(p)
  BY <1>1, <1>2, ReturnEnds DEF DocsStay
<1>3. ASSUME NEW c \in Runs, NEW n \in RetryStarts(procs[p].run), runs[c].status = "absent",
             procs' = [procs EXCEPT ![p].pc = "enqueue", ![p].run = c,
                                    ![p].result = "spawn", ![p].todo = {n}]
      PROVE  n \in Nodes /\ Starts(p, c) /\ procs'[p].todo = {n} /\ procs'[p].pc = "enqueue"
  <2> DEFINE x == [procs[p] EXCEPT !.pc = "enqueue", !.run = c, !.result = "spawn", !.todo = {n}]
  <2>1. x.pc = "enqueue" /\ x.run = c /\ x.todo = {n} /\ x.result = "spawn"
    BY ProcessFields DEF ProcType
  <2>2. procs' = [procs EXCEPT ![p] = x]
    BY Zenon, <1>3
  <2> HIDE DEF x
  <2>3. ~Started(c) /\ n \in Nodes
    BY <1>1, <1>3, Typed, RetryStartsAreNodes DEF Started
  <2> QED
    BY <1>1, <2>1, <2>2, <2>3, BecomesOnly DEF Starts, DocsStay
<1> QED
  BY <1>1, <1>2, <1>3 DEF SpawnRetry

LEMMA RunQueuedShape ==
  ASSUME TypeInv, NEW h \in Handlers, NEW r \in Runs, NEW o, HandleRunQueued(h, r, o)
  PROVE  \/ DocsStay /\ UNCHANGED <<runs, procs>>
         \/ /\ procs[h].pc = "idle" /\ runs[r].status = "queued" /\ SetRun(r, "running")
            /\ Starts(h, r)
            /\ procs'[h].todo = Triggers /\ procs'[h].result = "trigger"
            /\ procs'[h].pc = "fail" => Triggers = {}
<1> DEFINE x == [Idle EXCEPT !.pc = IF Triggers = {} THEN "fail" ELSE "enqueue",
                             !.run = r, !.result = "trigger", !.todo = Triggers]
<1>1. procs[h].pc = "idle" /\ StatusesStay /\ queue' = queue /\ h \in Procs
  BY UnchangedStay, HandlersAreProcs DEF HandleRunQueued
<1>2. \/ UNCHANGED <<runs, procs>>
      \/ /\ runs[r].status = "queued" /\ SetRun(r, "running")
         /\ procs' = [procs EXCEPT ![h] = x]
  BY Zenon DEF HandleRunQueued, Begin
<1>3. /\ x.pc \in {"fail", "enqueue"} /\ (x.pc = "fail" => Triggers = {})
      /\ x.run = r /\ x.todo = Triggers /\ x.result = "trigger"
  BY DEF Idle
<1> HIDE DEF x
<1>4. CASE /\ runs[r].status = "queued" /\ SetRun(r, "running")
           /\ procs' = [procs EXCEPT ![h] = x]
  <2>1. OnlyProc(h) /\ procs'[h] = x
    BY <1>1, <1>4, BecomesOnly
  <2>2. ~Started(r)
    BY <1>4 DEF Started
  <2> QED
    BY <1>1, <1>3, <1>4, <2>1, <2>2 DEF Starts, DocsStay
<1> QED
  BY <1>1, <1>2, <1>4 DEF DocsStay

LEMMA DispatchShape ==
  ASSUME TypeInv, NEW w \in Workers, DispatchJob(w)
  PROVE  /\ procs[w].pc = "idle" /\ OnlyProc(w) /\ StatusesStay /\ runs' = runs
         /\ \E j \in queue : /\ queue' = queue \ {j} /\ procs'[w].pc = "load"
                             /\ procs'[w].nr = j.nr /\ procs'[w].run = RunOf(j)
<1>1. PICK j \in queue :
        /\ queue' = queue \ {j} /\ procs[w].pc = "idle"
        /\ procs' = [procs EXCEPT ![w] =
             [Idle EXCEPT !.pc = "load", !.nr = j.nr, !.run = nodeRuns[j.nr].run]]
  BY Zenon DEF DispatchJob, Begin
<1> DEFINE x == [Idle EXCEPT !.pc = "load", !.nr = j.nr, !.run = nodeRuns[j.nr].run]
<1>2. x.pc = "load" /\ x.nr = j.nr /\ x.run = RunOf(j)
  BY DEF Idle, RunOf
<1>3. procs' = [procs EXCEPT ![w] = x] /\ w \in Procs
  BY <1>1 DEF Procs
<1> HIDE DEF x
<1>4. OnlyProc(w) /\ procs'[w] = x
  BY <1>3, BecomesOnly
<1>5. StatusesStay /\ runs' = runs
  BY UnchangedStay DEF DispatchJob
<1> QED
  BY <1>1, <1>2, <1>4, <1>5

\* A request to cancel or to retry a run begins.
LEMMA RequestShape ==
  ASSUME TypeInv, NEW h \in Handlers, NEW r \in Runs, CancelRun(h, r) \/ ClaimRetry(h, r)
  PROVE  /\ procs[h].pc = "idle" /\ OnlyProc(h) /\ DocsStay
         /\ procs'[h].pc = (IF CancelRun(h, r) THEN "close" ELSE "spawn")
         /\ procs'[h].run = r
<1> DEFINE x(c) == [Idle EXCEPT !.pc = c, !.run = r]
<1>1. CancelRun(h, r) => Begin(h, x("close"))
  BY Zenon DEF CancelRun
<1>2. ClaimRetry(h, r) => Begin(h, x("spawn"))
  BY Zenon DEF ClaimRetry
<1>3. \A c : x(c).pc = c /\ x(c).run = r
  BY DEF Idle
<1>4. StatusesStay /\ queue' = queue /\ h \in Procs
  BY UnchangedStay, HandlersAreProcs DEF CancelRun, ClaimRetry
<1> HIDE DEF x
<1>5. ASSUME NEW c, Begin(h, x(c))
      PROVE  procs[h].pc = "idle" /\ OnlyProc(h) /\ procs'[h].pc = c /\ procs'[h].run = r
  <2>1. PICK y : y = x(c)
    OBVIOUS
  <2>2. procs[h].pc = "idle" /\ procs' = [procs EXCEPT ![h] = y] /\ y.pc = c /\ y.run = r
    BY <1>3, <1>5, <2>1 DEF Begin
  <2>3. OnlyProc(h) /\ procs'[h] = y
    BY <1>4, <2>2, BecomesOnly
  <2> QED
    BY <2>2, <2>3
<1> QED
  BY <1>1, <1>2, <1>4, <1>5 DEF DocsStay

\* A handler takes over a NodeRun that waits.
LEMMA WakeShape ==
  ASSUME TypeInv, NEW h \in Handlers, NEW i \in DOMAIN nodeRuns, NEW res, ClaimWaiting(h, i, res)
  PROVE  procs'[h].run = nodeRuns[i].run
<1> DEFINE x == [Idle EXCEPT !.pc = "resume", !.run = nodeRuns[i].run, !.nr = i, !.result = res]
<1>1. x.run = nodeRuns[i].run
  BY DEF Idle
<1>2. procs' = [procs EXCEPT ![h] = x] /\ h \in Procs
  BY HandlersAreProcs DEF ClaimWaiting, Begin
<1> HIDE DEF x
<1> QED
  BY <1>1, <1>2, BecomesOnly

-----------------------------------------------------------------------------
(* Where nothing waits and a run has one trigger, one process at a time works *)
(* on a run that has succeeded, or may.                                       *)

OneTrigger == \A t, u \in Triggers : t = u

StartPCs == {"enqueue", "fail"}
Good(r) == runs[r].status \in {"running", "succeeded"}
Working(r) == \E p \in Procs : procs[p].pc \notin {"idle", "close", "spawn"} /\ procs[p].run = r

\* A busy worker has a NodeRun of its run.
WorkerInv ==
  \A w \in Workers : procs[w].pc # "idle" =>
    procs[w].nr \in DOMAIN nodeRuns /\ nodeRuns[procs[w].nr].run = procs[w].run

\* A handler begins runs, alone, before they have a NodeRun.
HandlerInv ==
  \A h \in Handlers :
    /\ procs[h].pc \in {"idle", "enqueue", "fail", "close", "spawn"}
    /\ procs[h].pc \in StartPCs =>
         /\ \A i \in DOMAIN nodeRuns : nodeRuns[i].run # procs[h].run
         /\ \A g \in Handlers : procs[g].pc \in StartPCs /\ procs[g].run = procs[h].run => g = h
    /\ procs[h].pc = "enqueue" => /\ procs[h].result \in {"trigger", "spawn"}
                                  /\ \A m, n \in procs[h].todo : m = n

\* A job is the only hold on its NodeRun, which is open.
JobInv ==
  \A j \in queue :
    /\ Open(j.nr)
    /\ \A k \in queue : k.nr = j.nr => k = j
    /\ \A w \in Workers : procs[w].pc # "idle" => procs[w].nr # j.nr

Unparked == \A r \in Runs : runs[r].status \notin WaitingRun

\* A run is finished when nothing is left to do.
SuccInv ==
  \A r \in Runs : runs[r].status = "succeeded" =>
    ~Working(r) /\ \A i \in NodeRunsOf(r) : ~Open(i)
FinishInv ==
  \A w \in Workers : procs[w].pc = "finish" => \A i \in NodeRunsOf(procs[w].run) : ~Open(i)

\* The triggers have been reached or are brought;
TrigInv ==
  \A r \in Runs : Good(r) /\ runs[r].parent = NoRun =>
    \A t \in Triggers : t \in Reached(r) \/ \E h \in Handlers : Brings(h, r, t)

\* so are the successors of what has succeeded, and failures are answered.
Spreading(i) ==
  \E w \in Workers : procs[w].pc = "context" /\ procs[w].nr = i /\ procs[w].result \in Branches
Followed(i) ==
  \A m \in AlwaysNext(nodeRuns[i].node) :
    \/ m \in Reached(nodeRuns[i].run)
    \/ \E w \in Workers : Brings(w, nodeRuns[i].run, m)
    \/ Spreading(i)
Answered(i) ==
  \/ HasFailureEdges(nodeRuns[i].node)
  \/ \E j \in NodeRunsOf(nodeRuns[i].run) : j > i /\ nodeRuns[j].node = nodeRuns[i].node
  \/ \E w \in Workers : \/ Brings(w, nodeRuns[i].run, nodeRuns[i].node)
                        \/ procs[w].pc = "fail" /\ procs[w].run = nodeRuns[i].run
Fed(i) ==
  /\ nodeRuns[i].status = "succeeded" => Followed(i)
  /\ nodeRuns[i].status = "failed" => Answered(i)
OutInv == \A i \in DOMAIN nodeRuns : Good(nodeRuns[i].run) => Fed(i)

HoldsInv == WorkerInv /\ HandlerInv /\ JobInv
SoloInv == HoldsInv /\ Unparked /\ SuccInv /\ FinishInv /\ TrigInv /\ OutInv

\* No run begins, finishes or waits.
RunsTame ==
  \A r \in Runs :
    /\ runs'[r].parent = runs[r].parent
    /\ \A s \in {"running", "succeeded"} \cup WaitingRun : runs'[r].status = s => runs[r].status = s

\* Only run r may finish.
RunFinishes(r) ==
  \A x \in Runs :
    /\ runs'[x].parent = runs[x].parent
    /\ \A s \in {"running"} \cup WaitingRun : runs'[x].status = s => runs[x].status = s
    /\ runs'[x].status = "succeeded" =>
         runs[x].status = "succeeded" \/ (x = r /\ runs[x].status = "running")

\* Worker p does something with its NodeRun.
Works(p) ==
  /\ procs[p].pc # "idle" /\ OnlyProc(p)
  /\ procs'[p].pc # "idle" => procs'[p].run = procs[p].run /\ procs'[p].nr = procs[p].nr
  /\ SameNodes
  /\ \A k \in DOMAIN nodeRuns : k # procs[p].nr => nodeRuns'[k].status = nodeRuns[k].status
  /\ queue' \subseteq queue

LEMMA WorkersAreProcs == \A w \in Workers : w \in Procs /\ w \notin Handlers
  BY Disjoint DEF Procs

\* A worker is the only one on its run.
LEMMA WorksAlone ==
  ASSUME TypeInv, LockInv, SoloInv, NEW p \in Workers, procs[p].pc # "idle"
  PROVE  /\ procs[p].run \in Runs /\ procs[p].nr \in DOMAIN nodeRuns
         /\ nodeRuns[procs[p].nr].run = procs[p].run
         /\ \A w \in Workers : w # p /\ procs[w].pc # "idle" => procs[w].run # procs[p].run
         /\ \A h \in Handlers : procs[h].pc \in StartPCs => procs[h].run # procs[p].run
         /\ Working(procs[p].run)
         /\ runs[procs[p].run].status # "succeeded"
<1>1. procs[p].run \in Runs /\ p \in Procs
  BY WorkersAreProcs, BusyRun
<1>2. procs[p].nr \in DOMAIN nodeRuns /\ nodeRuns[procs[p].nr].run = procs[p].run
  BY DEF SoloInv, HoldsInv, WorkerInv
<1>3. \A w \in Workers : w # p /\ procs[w].pc # "idle" => procs[w].run # procs[p].run
  BY DEF LockInv, OneJobPerDefinition
<1>4. \A h \in Handlers : procs[h].pc \in StartPCs => procs[h].run # procs[p].run
  BY <1>2 DEF SoloInv, HoldsInv, HandlerInv
<1>5. Working(procs[p].run)
  BY <1>1 DEF Working, LockInv, Roles
<1> QED
  BY <1>1, <1>2, <1>3, <1>4, <1>5 DEF SoloInv, SuccInv

LEMMA WorksHolds ==
  ASSUME TypeInv, LockInv, SoloInv, NEW p \in Workers, Works(p)
  PROVE  HoldsInv'
<1>1. p \in Procs /\ p \notin Handlers
  BY WorkersAreProcs
<1>2. /\ DOMAIN nodeRuns' = DOMAIN nodeRuns
      /\ \A k \in DOMAIN nodeRuns : nodeRuns'[k].run = nodeRuns[k].run
      /\ \A q \in Procs : q # p => procs'[q] = procs[q]
      /\ queue' \subseteq queue
  BY DEF Works, SameNodes, OnlyProc
<1>3. WorkerInv'
  BY <1>1, <1>2, WorkersAreProcs DEF Works, SoloInv, HoldsInv, WorkerInv
<1>4. HandlerInv'
  <2>1. \A h \in Handlers : procs'[h] = procs[h]
    BY <1>1, <1>2, HandlersAreProcs
  <2> QED
    BY <1>2, <2>1 DEF SoloInv, HoldsInv, HandlerInv
<1>5. JobInv'
  <2> SUFFICES ASSUME NEW j \in queue'
               PROVE  /\ Open(j.nr)' /\ \A k \in queue' : k.nr = j.nr => k = j
                      /\ \A w \in Workers : procs'[w].pc # "idle" => procs'[w].nr # j.nr
    BY DEF JobInv, Open
  <2>1. j \in queue /\ j.nr \in DOMAIN nodeRuns
    BY <1>2, Typed
  <2>2. /\ Open(j.nr) /\ \A k \in queue : k.nr = j.nr => k = j
        /\ \A w \in Workers : procs[w].pc # "idle" => procs[w].nr # j.nr
    BY <2>1 DEF SoloInv, HoldsInv, JobInv
  <2>3. Open(j.nr)'
    BY <2>1, <2>2 DEF Works, Open
  <2>4. \A w \in Workers : procs'[w].pc # "idle" => procs'[w].nr # j.nr
    BY <1>1, <1>2, <2>2, WorkersAreProcs DEF Works
  <2> QED
    BY <1>2, <2>2, <2>3, <2>4
<1> QED
  BY <1>3, <1>4, <1>5 DEF HoldsInv

\* All it can disturb is what its own run says.
LEMMA WorksKeeps ==
  ASSUME TypeInv, LockInv, SoloInv, NEW p \in Workers, Works(p),
         NEW r \in Runs, procs[p].run = r, RunFinishes(r),
         procs'[p].pc = "finish" => \A i \in NodeRunsOf(r) : ~Open(i)',
         runs'[r].status = "succeeded" =>
           procs'[p].pc = "idle" /\ \A i \in NodeRunsOf(r) : ~Open(i)',
         Good(r)' => \A i \in NodeRunsOf(r) : Fed(i)'
  PROVE  SoloInv'
<1>1. p \in Procs /\ p \notin Handlers
  BY WorkersAreProcs
<1>2. /\ DOMAIN nodeRuns' = DOMAIN nodeRuns
      /\ \A k \in DOMAIN nodeRuns :
           nodeRuns'[k].run = nodeRuns[k].run /\ nodeRuns'[k].node = nodeRuns[k].node
      /\ \A q \in Procs : q # p => procs'[q] = procs[q]
      /\ \A h \in Handlers : procs'[h] = procs[h]
  BY <1>1, HandlersAreProcs DEF Works, SameNodes, OnlyProc
<1>3. /\ r \in Runs /\ nodeRuns[procs[p].nr].run = r /\ procs[p].nr \in DOMAIN nodeRuns
      /\ \A w \in Workers : w # p /\ procs[w].pc # "idle" => procs[w].run # r
      /\ \A h \in Handlers : procs[h].pc \in StartPCs => procs[h].run # r
      /\ runs[r].status # "succeeded"
  BY WorksAlone DEF Works
<1>4. \A k \in DOMAIN nodeRuns : nodeRuns[k].run # r => nodeRuns'[k].status = nodeRuns[k].status
  BY <1>3 DEF Works
<1>5. \A x \in Runs : NodeRunsOf(x)' = NodeRunsOf(x) /\ Reached(x)' = Reached(x)
  BY <1>2 DEF NodeRunsOf, Reached
<1>6. \A x \in Runs : x # r => \A i \in NodeRunsOf(x) : Open(i)' <=> Open(i)
  BY <1>4 DEF NodeRunsOf, Open
<1>7. \A x \in Runs : Good(x)' => Good(x) /\ runs'[x].parent = runs[x].parent
  BY DEF RunFinishes, Good
<1>8. SuccInv'
  <2> SUFFICES ASSUME NEW x \in Runs, runs'[x].status = "succeeded"
               PROVE  ~Working(x)' /\ \A i \in NodeRunsOf(x)' : ~Open(i)'
    BY DEF SuccInv
  <2>1. CASE x # r
    <3>1. ~Working(x) /\ \A i \in NodeRunsOf(x) : ~Open(i)
      BY <2>1 DEF RunFinishes, SoloInv, SuccInv
    <3>2. ~Working(x)'
      BY <1>2, <2>1, <3>1 DEF Working, Works
    <3> QED
      BY <1>5, <1>6, <2>1, <3>1, <3>2
  <2>2. CASE x = r
    <3>1. procs'[p].pc = "idle" /\ \A i \in NodeRunsOf(r) : ~Open(i)'
      BY <2>2
    <3>2. \A h \in Handlers : procs[h].pc \in StartPCs \cup {"idle", "close", "spawn"}
      BY DEF SoloInv, HoldsInv, HandlerInv, StartPCs
    <3>3. ~Working(x)'
      BY <1>2, <1>3, <2>2, <3>1, <3>2 DEF Working, Procs
    <3> QED
      BY <1>5, <2>2, <3>1, <3>3
  <2> QED
    BY <2>1, <2>2
<1>9. FinishInv'
  <2> SUFFICES ASSUME NEW w \in Workers, procs'[w].pc = "finish",
                      NEW i \in DOMAIN nodeRuns, nodeRuns[i].run = procs'[w].run
               PROVE  ~Open(i)'
    BY <1>2 DEF FinishInv, NodeRunsOf, Open
  <2>1. CASE w = p
    BY <2>1 DEF Works, NodeRunsOf
  <2>2. CASE w # p
    <3>1. procs'[w] = procs[w] /\ procs[w].run # r
      BY <1>2, <1>3, <2>2, WorkersAreProcs
    <3>2. ~Open(i)
      BY <3>1 DEF SoloInv, FinishInv, NodeRunsOf
    <3> QED
      BY <1>4, <3>1, <3>2 DEF Open
  <2> QED
    BY <2>1, <2>2
<1>10. TrigInv'
  <2> SUFFICES ASSUME NEW x \in Runs, Good(x)', runs'[x].parent = NoRun, NEW t \in Triggers
               PROVE  t \in Reached(x)' \/ \E h \in Handlers : Brings(h, x, t)'
    BY DEF TrigInv
  <2>1. t \in Reached(x) \/ \E h \in Handlers : Brings(h, x, t)
    BY <1>7 DEF SoloInv, TrigInv
  <2> QED
    BY <1>2, <1>5, <2>1 DEF Brings
<1>11. OutInv'
  <2> SUFFICES ASSUME NEW i \in DOMAIN nodeRuns, Good(nodeRuns[i].run)'
               PROVE  Fed(i)'
    BY <1>2 DEF OutInv, Good
  <2>1. nodeRuns[i].run \in Runs /\ nodeRuns'[i].run = nodeRuns[i].run
        /\ nodeRuns'[i].node = nodeRuns[i].node
    BY <1>2, Typed, NodeRunFacts
  <2>2. CASE nodeRuns[i].run = r
    BY <2>1, <2>2 DEF Good, NodeRunsOf
  <2>3. CASE nodeRuns[i].run # r
    <3>1. nodeRuns'[i].status = nodeRuns[i].status
      BY <1>4, <2>3
    <3>2. Fed(i)
      BY <1>7, <2>1 DEF SoloInv, OutInv, Good
    <3>3. \A w \in Workers : \A m : Brings(w, nodeRuns[i].run, m) => Brings(w, nodeRuns[i].run, m)'
      BY <1>2, <2>3, WorkersAreProcs DEF Brings
    <3>4. Spreading(i) => Spreading(i)'
      BY <1>2, <1>3, <2>3, WorkersAreProcs DEF Spreading
    <3>5. Followed(i) => Followed(i)'
      BY <1>5, <2>1, <3>3, <3>4 DEF Followed
    <3>6. Answered(i) => Answered(i)'
      <4>1. \A w \in Workers : procs[w].pc = "fail" /\ procs[w].run = nodeRuns[i].run =>
              procs'[w].pc = "fail" /\ procs'[w].run = nodeRuns[i].run
        BY <1>2, <2>3, WorkersAreProcs
      <4> QED
        BY <1>2, <1>5, <2>1, <3>3, <4>1 DEF Answered, NodeRunsOf
    <3> QED
      BY <3>1, <3>2, <3>5, <3>6 DEF Fed
  <2> QED
    BY <2>2, <2>3
<1>12. Unparked'
  BY DEF RunFinishes, SoloInv, Unparked
<1> QED
  BY <1>8, <1>9, <1>10, <1>11, <1>12, WorksHolds DEF SoloInv

\* Where a NodeRun's outcome was not in the hands of worker p, nothing is lost.
LEMMA WorksFeed ==
  ASSUME TypeInv, LockInv, SoloInv, NEW p \in Workers, Works(p),
         procs[p].pc \notin {"context", "enqueue", "fail"},
         NEW i \in DOMAIN nodeRuns, Fed(i),
         nodeRuns'[i].status \in {nodeRuns[i].status, "running", "interrupted"}
  PROVE  Fed(i)'
<1>1. /\ \A k \in DOMAIN nodeRuns :
           nodeRuns'[k].run = nodeRuns[k].run /\ nodeRuns'[k].node = nodeRuns[k].node
      /\ \A q \in Workers : q # p => procs'[q] = procs[q]
      /\ nodeRuns[i].run \in Runs
  BY WorkersAreProcs, Typed, NodeRunFacts DEF Works, SameNodes, OnlyProc
<1>2. \A x \in Runs : NodeRunsOf(x)' = NodeRunsOf(x) /\ Reached(x)' = Reached(x)
  BY DEF Works, SameNodes, NodeRunsOf, Reached
<1>3. \A w \in Workers : \A x, m : Brings(w, x, m) => Brings(w, x, m)'
  BY <1>1 DEF Brings
<1>4. Spreading(i) => Spreading(i)'
  BY <1>1 DEF Spreading
<1>5. Followed(i) => Followed(i)'
  BY <1>1, <1>2, <1>3, <1>4 DEF Followed
<1>6. Answered(i) => Answered(i)'
  <2>1. \A w \in Workers : procs[w].pc = "fail" /\ procs[w].run = nodeRuns[i].run =>
          procs'[w].pc = "fail" /\ procs'[w].run = nodeRuns[i].run
    BY <1>1
  <2> QED
    BY <1>1, <1>2, <1>3, <2>1 DEF Answered, NodeRunsOf
<1> QED
  BY <1>5, <1>6 DEF Fed

LEMMA TameFinishes == \A r \in Runs : RunsTame => RunFinishes(r)
  BY DEF RunsTame, RunFinishes

LEMMA SameTame == runs' = runs => RunsTame
  BY DEF RunsTame

\* A step before the outcome is known.
LEMMA SoloPlain ==
  ASSUME TypeInv, LockInv, SoloInv, NEW p \in Workers, Works(p), RunsTame,
         procs[p].pc \notin {"context", "enqueue", "fail"},
         procs'[p].pc = "finish" => StatusesStay /\ ~StillOpen(procs[p].run),
         nodeRuns'[procs[p].nr].status \in {nodeRuns[procs[p].nr].status, "running", "interrupted"}
  PROVE  SoloInv'
<1>1. PICK r \in Runs : r = procs[p].run
  BY WorksAlone DEF Works
<1>2. runs[r].status # "succeeded"
  BY <1>1, WorksAlone DEF Works
<1>3. Good(r)' => \A i \in NodeRunsOf(r) : Fed(i)'
  <2>1. Good(r)' => Good(r)
    BY DEF RunsTame, Good
  <2>2. \A i \in DOMAIN nodeRuns :
          nodeRuns'[i].status \in {nodeRuns[i].status, "running", "interrupted"}
    BY DEF Works
  <2> QED
    BY <2>1, <2>2, WorksFeed DEF SoloInv, OutInv, NodeRunsOf
<1>4. procs'[p].pc = "finish" => \A i \in NodeRunsOf(r) : ~Open(i)'
  BY <1>1 DEF StillOpen, NodeRunsOf, Open, StatusesStay
<1>5. runs'[r].status # "succeeded"
  BY <1>2 DEF RunsTame
<1>6. RunFinishes(r)
  BY TameFinishes
<1> QED
  BY <1>1, <1>3, <1>4, <1>5, <1>6, WorksKeeps

LEMMA DocsWork ==
  ASSUME TypeInv, NEW p \in Workers, procs[p].pc # "idle", DocsStay,
         Ends(p) \/ \E c : GoesOn(p, c)
  PROVE  Works(p)
  BY DEF DocsStay, StatusesStay, Works, Ends, GoesOn

LEMMA StatusWorks ==
  ASSUME TypeInv, NEW p \in Workers, procs[p].pc # "idle", NEW s, GetsStatus(procs[p].nr, s),
         queue' \subseteq queue, Ends(p) \/ \E c : GoesOn(p, c)
  PROVE  Works(p)
  BY DEF GetsStatus, Works, Ends, GoesOn

LEMMA SoloBefore ==
  ASSUME TypeInv, LockInv, SoloInv, NEW p \in Workers,
         \/ LoadJob(p) \/ MarkRunning(p) \/ CountExecution(p) \/ Execute(p)
         \/ InterruptNodeRun(p) \/ CountOpen(p)
  PROVE  SoloInv'
<1>1. p \in Procs
  BY WorkersAreProcs
<1>2. procs[p].pc # "idle" => procs[p].nr \in DOMAIN nodeRuns
  BY DEF SoloInv, HoldsInv, WorkerInv
<1>3. CASE LoadJob(p)
  <2>1. procs[p].pc = "load" /\ DocsStay /\ RunsTame /\ procs'[p].pc # "finish"
        /\ (Ends(p) \/ \E c : GoesOn(p, c))
    BY <1>1, <1>3, LoadShape, SameTame DEF Ends, GoesOn
  <2> QED
    BY <1>2, <2>1, DocsWork, SoloPlain DEF DocsStay, StatusesStay
<1>4. CASE MarkRunning(p)
  <2>1. procs[p].pc = "mark" /\ GoesOn(p, "count") /\ GetsStatus(procs[p].nr, "running")
        /\ queue' = queue /\ RunsTame
    BY <1>1, <1>4, MarkShape, SameTame
  <2> QED
    BY <1>2, <2>1, StatusWorks, SoloPlain DEF GetsStatus, GoesOn
<1>5. CASE CountExecution(p)
  <2>1. procs[p].pc = "count" /\ GoesOn(p, "exec") /\ DocsStay
    BY <1>1, <1>5, CountShape
  <2>2. RunsTame
    BY <1>5, Typed DEF CountExecution, RunsTame, TypeInv, TypeOK, RunType
  <2> QED
    BY <1>2, <2>1, <2>2, DocsWork, SoloPlain DEF DocsStay, StatusesStay, GoesOn
<1>6. CASE Execute(p)
  <2>1. procs[p].pc = "exec" /\ GoesOn(p, "live") /\ DocsStay /\ RunsTame
    BY <1>1, <1>6, ExecuteShape, SameTame DEF Execute, DocsStay
  <2> QED
    BY <1>2, <2>1, DocsWork, SoloPlain DEF DocsStay, StatusesStay, GoesOn
<1>7. CASE InterruptNodeRun(p)
  <2>1. procs[p].pc = "interrupt" /\ Ends(p) /\ GetsStatus(procs[p].nr, "interrupted")
        /\ queue' = queue /\ RunsTame
    BY <1>1, <1>7, InterruptShape, SameTame
  <2> QED
    BY <1>2, <2>1, StatusWorks, SoloPlain DEF GetsStatus, Ends
<1>8. CASE CountOpen(p)
  <2>1. /\ procs[p].pc = "open" /\ DocsStay /\ RunsTame
        /\ Ends(p) \/ (GoesOn(p, "finish") /\ ~StillOpen(procs[p].run))
    BY <1>1, <1>8, OpenShape, SameTame
  <2>2. Works(p)
    BY <2>1, DocsWork
  <2> QED
    BY <1>2, <2>1, <2>2, SoloPlain DEF DocsStay, StatusesStay, Ends
<1> QED
  BY <1>3, <1>4, <1>5, <1>6, <1>7, <1>8

LEMMA SoloLive ==
  ASSUME TypeInv, LockInv, SoloInv, NEW p \in Workers, ReadLiveStatus(p) PROVE SoloInv'
<1>1. p \in Procs
  BY WorkersAreProcs
<1>2. /\ procs[p].pc = "live" /\ DocsStay /\ RunsTame /\ procs'[p].pc # "finish"
      /\ \E c : GoesOn(p, c)
  BY <1>1, LiveShape, SameTame DEF GoesOn
<1>3. procs[p].nr \in DOMAIN nodeRuns
  BY <1>2 DEF SoloInv, HoldsInv, WorkerInv
<1> QED
  BY <1>2, <1>3, DocsWork, SoloPlain DEF DocsStay, StatusesStay

\* The outcome: its successors follow, another try, or the end of the run.
LEMMA SoloComplete ==
  ASSUME TypeInv, LockInv, SoloInv, NEW p \in Workers, CompleteNodeRun(p) PROVE SoloInv'
<1>1. p \in Procs
  BY WorkersAreProcs
<1>2. /\ procs[p].pc = "complete" /\ runs' = runs /\ GetsStatus(procs[p].nr, Outcome(p))
      /\ Outcome(p) \in {"succeeded", "failed"}
      /\ \/ /\ GoesOn(p, "context") /\ queue' = queue /\ procs'[p].result = procs[p].result
            /\ Outcome(p) = "succeeded" => procs[p].result \in Branches
            /\ Outcome(p) = "failed" => HasFailureEdges(NodeOf(p))
         \/ /\ GoesOn(p, "enqueue") /\ queue' = queue /\ Outcome(p) = "failed"
            /\ procs'[p].result = "retry" /\ procs'[p].todo = {NodeOf(p)}
         \/ GoesOn(p, "fail") /\ RemoveRun(procs[p].run) /\ Outcome(p) = "failed"
  BY <1>1, CompleteShape
<1>3. queue' \subseteq queue /\ procs'[p].pc # "finish" /\ \E c : GoesOn(p, c)
  BY <1>2 DEF RemoveRun, GoesOn
<1>4. Works(p)
  BY <1>2, <1>3, StatusWorks
<1>5. PICK r \in Runs : r = procs[p].run
  BY <1>2, WorksAlone
<1>6. /\ procs[p].nr \in DOMAIN nodeRuns /\ runs[r].status # "succeeded"
      /\ nodeRuns[procs[p].nr].run = r
  BY <1>2, <1>5, WorksAlone
<1>7. ASSUME NEW i \in NodeRunsOf(r), Good(r)' PROVE Fed(i)'
  <2>1. i \in DOMAIN nodeRuns /\ nodeRuns[i].run = r /\ Fed(i)
    BY <1>2, <1>7 DEF NodeRunsOf, SoloInv, OutInv, Good
  <2>2. CASE i # procs[p].nr
    BY <1>2, <1>4, <2>1, <2>2, WorksFeed DEF GetsStatus
  <2>3. CASE i = procs[p].nr
    <3>1. /\ nodeRuns'[i].status = Outcome(p) /\ nodeRuns'[i].run = r
          /\ nodeRuns'[i].node = nodeRuns[i].node
          /\ procs'[p].run = r /\ procs'[p].nr = i
      BY <1>2, <1>5, <1>6, <2>1, <2>3 DEF GetsStatus, SameNodes, GoesOn
    <3>2. Outcome(p) = "succeeded" => Spreading(i)'
      BY <1>2, <3>1 DEF Spreading, GoesOn
    <3>3. ASSUME Outcome(p) = "failed" PROVE Answered(i)'
      <4>1. CASE HasFailureEdges(NodeOf(p))
        BY <2>3, <3>1, <4>1 DEF Answered, NodeOf, HasFailureEdges
      <4>2. CASE GoesOn(p, "enqueue") /\ procs'[p].todo = {NodeOf(p)}
        <5>1. Brings(p, nodeRuns[i].run, nodeRuns[i].node)'
          BY <2>3, <3>1, <4>2 DEF Brings, NodeOf, GoesOn
        <5> QED
          BY <5>1 DEF Answered
      <4>3. CASE GoesOn(p, "fail")
        <5>1. procs'[p].pc = "fail" /\ procs'[p].run = nodeRuns'[i].run
          BY <3>1, <4>3 DEF GoesOn
        <5> QED
          BY <5>1 DEF Answered
      <4> QED
        BY <1>2, <3>3, <4>1, <4>2, <4>3
    <3> QED
      BY <3>1, <3>2, <3>3 DEF Fed, Followed
  <2> QED
    BY <2>2, <2>3
<1>8. RunFinishes(r) /\ runs'[r].status # "succeeded"
  BY <1>2, <1>6, SameTame, TameFinishes
<1> QED
  BY <1>3, <1>4, <1>5, <1>7, <1>8, WorksKeeps

LEMMA AlwaysFollow ==
  ASSUME NEW n, NEW b
  PROVE  AlwaysNext(n) \subseteq NextNodes(n, b)
  BY DEF AlwaysNext, NextNodes

LEMMA SoloContext ==
  ASSUME TypeInv, LockInv, SoloInv, NEW p \in Workers, UpdateContext(p) PROVE SoloInv'
<1>1. p \in Procs
  BY WorkersAreProcs
<1>2. /\ procs[p].pc = "context" /\ DocsStay /\ runs' = runs
      /\ \/ runs[procs[p].run].status # "running" /\ Ends(p)
         \/ Successors(p) = {} /\ GoesOn(p, "open")
         \/ GoesOn(p, "enqueue") /\ procs'[p].todo = Successors(p)
  BY <1>1, ContextShape
<1>3. Works(p) /\ procs'[p].pc # "finish"
  BY <1>2, DocsWork DEF Ends, GoesOn
<1>4. PICK r \in Runs : r = procs[p].run
  BY <1>2, WorksAlone
<1>5. /\ procs[p].nr \in DOMAIN nodeRuns /\ runs[r].status # "succeeded"
      /\ nodeRuns[procs[p].nr].run = r
  BY <1>2, <1>4, WorksAlone
<1>6. ASSUME NEW i \in NodeRunsOf(r), Good(r)' PROVE Fed(i)'
  <2>1. /\ i \in DOMAIN nodeRuns /\ nodeRuns[i].run = r /\ Fed(i)
    BY <1>2, <1>6 DEF NodeRunsOf, SoloInv, OutInv, Good
  <2>2. ~ (runs[r].status # "running")
    BY <1>2, <1>5, <1>6 DEF Good
  <2>3. /\ nodeRuns'[i].status = nodeRuns[i].status /\ nodeRuns'[i].run = r
        /\ nodeRuns'[i].node = nodeRuns[i].node
        /\ \A w \in Workers : w # p => procs'[w] = procs[w]
        /\ procs'[p].run = r
    BY <1>1, <1>2, <1>4, <2>1, <2>2, WorkersAreProcs
       DEF DocsStay, StatusesStay, SameNodes, GoesOn, OnlyProc
  <2>4. NodeRunsOf(r)' = NodeRunsOf(r) /\ Reached(r)' = Reached(r)
    BY <1>2 DEF DocsStay, StatusesStay, SameNodes, NodeRunsOf, Reached
  <2>5. \A w \in Workers : \A m : Brings(w, r, m) => Brings(w, r, m)'
    BY <1>2, <2>3 DEF Brings
  <2>6. ASSUME Followed(i) PROVE Followed(i)'
    <3>1. CASE procs[p].nr = i /\ procs[p].result \in Branches
      <4>1. AlwaysNext(nodeRuns[i].node) \subseteq Successors(p)
        BY <3>1, AlwaysFollow DEF Successors, NodeOf
      <4>2. \A m \in Successors(p) : Brings(p, r, m)'
        BY <1>2, <1>4, <2>3, <2>2 DEF Brings, GoesOn
      <4> QED
        BY <2>3, <4>1, <4>2 DEF Followed
    <3>2. CASE ~(procs[p].nr = i /\ procs[p].result \in Branches)
      <4>1. Spreading(i) => Spreading(i)'
        BY <2>3, <3>2 DEF Spreading
      <4> QED
        BY <2>1, <2>3, <2>4, <2>5, <2>6, <4>1 DEF Followed
    <3> QED
      BY <3>1, <3>2
  <2>7. Answered(i) => Answered(i)'
    <3>1. \A w \in Workers : procs[w].pc = "fail" /\ procs[w].run = nodeRuns[i].run =>
            procs'[w].pc = "fail" /\ procs'[w].run = nodeRuns[i].run
      BY <1>2, <2>3
    <3>2. \A j \in NodeRunsOf(r) : nodeRuns'[j].node = nodeRuns[j].node
      BY <1>2 DEF DocsStay, StatusesStay, SameNodes, NodeRunsOf
    <3> QED
      BY <2>1, <2>3, <2>4, <2>5, <3>1, <3>2 DEF Answered
  <2> QED
    BY <2>1, <2>3, <2>6, <2>7 DEF Fed
<1>7. RunFinishes(r) /\ runs'[r].status # "succeeded"
  BY <1>2, <1>5, SameTame, TameFinishes
<1> QED
  BY <1>3, <1>4, <1>6, <1>7, WorksKeeps

\* A run fails or has succeeded.
LEMMA SoloFail ==
  ASSUME TypeInv, LockInv, SoloInv, NEW p \in Workers, FailRun(p) PROVE SoloInv'
<1>1. p \in Procs
  BY WorkersAreProcs
<1>2. procs[p].pc = "fail" /\ DocsStay /\ Ends(p)
  BY <1>1, EndShape DEF FailRun
<1>3. PICK r \in Runs : r = procs[p].run
  BY <1>2, WorksAlone
<1>4. runs[r].status # "succeeded"
  BY <1>2, <1>3, WorksAlone
<1>5. RunsTame /\ ~Good(r)'
  <2>1. runs \in [Runs -> RunType] /\ "failed" \in RunStatus
    BY DEF TypeInv, TypeOK, RunStatus, TerminalRun
  <2>2. CASE Ended(r)
    BY <1>2, <1>3, <1>4, <2>2, SameTame DEF FailRun, Ended, TerminalRun, Good
  <2>3. CASE ~Ended(r)
    <3>1. SetRun(r, "failed")
      BY <1>2, <1>3, <2>3 DEF FailRun
    <3>2. /\ \A x \in Runs : x # r => runs'[x] = runs[x]
          /\ runs'[r] = [runs[r] EXCEPT !.status = "failed"]
      BY <2>1, <3>1, SetRunFacts
    <3>3. runs'[r].status = "failed" /\ runs'[r].parent = runs[r].parent
      BY <2>1, <3>2 DEF RunType
    <3> QED
      BY <3>2, <3>3 DEF RunsTame, Good, WaitingRun
  <2> QED
    BY <2>2, <2>3
<1>6. Works(p) /\ procs'[p].pc # "finish"
  BY <1>2, DocsWork DEF Ends
<1>7. RunFinishes(r) /\ runs'[r].status # "succeeded"
  BY <1>4, <1>5, TameFinishes DEF RunsTame
<1> QED
  BY <1>3, <1>5, <1>6, <1>7, WorksKeeps

LEMMA SoloFinish ==
  ASSUME TypeInv, LockInv, SoloInv, NEW p \in Workers, FinishRun(p) PROVE SoloInv'
<1>1. p \in Procs
  BY WorkersAreProcs
<1>2. procs[p].pc = "finish" /\ DocsStay /\ Ends(p)
  BY <1>1, EndShape DEF FinishRun
<1>3. PICK r \in Runs : r = procs[p].run
  BY <1>2, WorksAlone
<1>4. RunFinishes(r) /\ (Good(r)' => Good(r))
  <2>1. runs \in [Runs -> RunType] /\ "succeeded" \in RunStatus
    BY DEF TypeInv, TypeOK, RunStatus, TerminalRun
  <2>2. CASE runs' = runs
    BY <2>2, SameTame, TameFinishes DEF Good
  <2>3. CASE runs' # runs
    <3>1. SetRun(r, "succeeded") /\ runs[r].status = "running"
      BY <1>3, <2>3 DEF FinishRun, Finishable
    <3>2. /\ \A x \in Runs : x # r => runs'[x] = runs[x]
          /\ runs'[r] = [runs[r] EXCEPT !.status = "succeeded"]
      BY <2>1, <3>1, SetRunFacts
    <3>3. runs'[r].status = "succeeded" /\ runs'[r].parent = runs[r].parent
      BY <2>1, <3>2 DEF RunType
    <3> QED
      BY <3>1, <3>2, <3>3 DEF RunFinishes, Good, WaitingRun
  <2> QED
    BY <2>2, <2>3
<1>5. Works(p) /\ procs'[p].pc = "idle"
  BY <1>2, DocsWork DEF Ends
<1>6. \A i \in NodeRunsOf(r) : ~Open(i)'
  <2>1. \A i \in NodeRunsOf(r) : ~Open(i)
    BY <1>2, <1>3 DEF SoloInv, FinishInv
  <2> QED
    BY <1>2, <2>1 DEF NodeRunsOf, Open, DocsStay, StatusesStay
<1>7. Good(r)' => \A i \in NodeRunsOf(r) : Fed(i)'
  BY <1>2, <1>4, <1>5, WorksFeed DEF SoloInv, OutInv, NodeRunsOf, DocsStay, StatusesStay
<1> QED
  BY <1>3, <1>4, <1>5, <1>6, <1>7, WorksKeeps

-----------------------------------------------------------------------------
(* Processes that begin, hand over or end. *)

\* What the queue, the process p and run r look like after a NodeRun of r was
\* enqueued by p.
LEMMA SoloEnqueue ==
  ASSUME TypeInv, LockInv, SoloInv, NEW p \in Procs, EnqueueNext(p) PROVE SoloInv'
<1>1. /\ procs[p].pc = "enqueue" /\ runs' = runs /\ procs[p].run \in Runs
      /\ \E n \in procs[p].todo :
           /\ n \in Nodes /\ Creates(procs[p].run, n)
           /\ \/ /\ GoesOn(p, "enqueue") /\ procs[p].todo # {n}
                 /\ procs'[p].todo = procs[p].todo \ {n} /\ procs'[p].result = procs[p].result
              \/ Ends(p) /\ procs[p].todo = {n}
              \/ /\ GoesOn(p, "open") /\ procs[p].todo = {n}
                 /\ procs[p].result \notin {"retry", "trigger", "spawn"}
  BY EnqueueShape
<1>2. PICK r \in Runs : r = procs[p].run
  BY <1>1
<1>3. PICK n \in procs[p].todo : /\ n \in Nodes /\ Creates(r, n)
           /\ \/ /\ GoesOn(p, "enqueue") /\ procs[p].todo # {n}
                 /\ procs'[p].todo = procs[p].todo \ {n} /\ procs'[p].result = procs[p].result
              \/ Ends(p) /\ procs[p].todo = {n}
              \/ /\ GoesOn(p, "open") /\ procs[p].todo = {n}
                 /\ procs[p].result \notin {"retry", "trigger", "spawn"}
  BY <1>1, <1>2
<1>4. PICK i \in {NewNr} : TRUE
  OBVIOUS
<1>5. PICK x : x.nr = i /\ queue' = queue \cup {x}
  BY <1>3, <1>4 DEF Creates
<1>6. /\ i \notin DOMAIN nodeRuns /\ DOMAIN nodeRuns' = DOMAIN nodeRuns \cup {i}
      /\ \A k \in DOMAIN nodeRuns : k < i /\ nodeRuns'[k] = nodeRuns[k]
      /\ nodeRuns'[i].run = r /\ nodeRuns'[i].node = n /\ nodeRuns'[i].status = "queued"
  BY <1>3, <1>4 DEF Creates
<1>7. \A q \in Procs : q # p => procs'[q] = procs[q]
  BY <1>3 DEF Ends, GoesOn, OnlyProc
<1>8. /\ procs'[p].pc \in {"idle", "enqueue", "open"}
      /\ procs'[p].pc # "idle" => procs'[p].run = r /\ procs'[p].nr = procs[p].nr
      /\ \A m : Brings(p, r, m) => m = n \/ Brings(p, r, m)'
  BY <1>1, <1>2, <1>3 DEF Ends, GoesOn, Brings
<1>9. p \in Handlers => procs'[p].pc = "idle"
  BY <1>1, <1>3 DEF SoloInv, HoldsInv, HandlerInv, Ends, GoesOn
<1>10. /\ \A w \in Workers : w # p /\ procs[w].pc # "idle" => procs[w].run # r
       /\ \A h \in Handlers : h # p /\ procs[h].pc \in StartPCs => procs[h].run # r
  <2>1. CASE p \in Workers
    BY <1>1, <1>2, <2>1, WorksAlone
  <2>2. CASE p \in Handlers
    <3>1. procs[p].pc \in StartPCs
      BY <1>1 DEF StartPCs
    <3> QED
      BY <1>2, <2>2, <3>1 DEF SoloInv, HoldsInv, HandlerInv, WorkerInv
  <2> QED
    BY <2>1, <2>2 DEF Procs
<1>11. \A z \in Runs : z # r => NodeRunsOf(z)' = NodeRunsOf(z)
  BY <1>6 DEF NodeRunsOf
<1>12. /\ \A z \in Runs : Reached(z) \subseteq Reached(z)'
       /\ n \in Reached(r)'
  BY <1>6 DEF NodeRunsOf, Reached
<1>13. WorkerInv'
  <2> SUFFICES ASSUME NEW w \in Workers, procs'[w].pc # "idle"
               PROVE  procs'[w].nr \in DOMAIN nodeRuns' /\ nodeRuns'[procs'[w].nr].run = procs'[w].run
    BY DEF WorkerInv
  <2>1. procs[w].pc # "idle" /\ procs'[w].nr = procs[w].nr /\ procs'[w].run = procs[w].run
    BY <1>1, <1>2, <1>7, <1>8, WorkersAreProcs
  <2>2. procs[w].nr \in DOMAIN nodeRuns /\ nodeRuns[procs[w].nr].run = procs[w].run
    BY <2>1 DEF SoloInv, HoldsInv, WorkerInv
  <2> QED
    BY <1>6, <2>1, <2>2
<1>14. HandlerInv'
  <2> SUFFICES ASSUME NEW h \in Handlers
               PROVE  /\ procs'[h].pc \in {"idle", "enqueue", "fail", "close", "spawn"}
                      /\ procs'[h].pc \in StartPCs =>
                           /\ \A k \in DOMAIN nodeRuns' : nodeRuns'[k].run # procs'[h].run
                           /\ \A g \in Handlers :
                                procs'[g].pc \in StartPCs /\ procs'[g].run = procs'[h].run => g = h
                      /\ procs'[h].pc = "enqueue" =>
                           /\ procs'[h].result \in {"trigger", "spawn"}
                           /\ \A l, m \in procs'[h].todo : l = m
    BY DEF HandlerInv
  <2>1. CASE h = p
    BY <1>9, <2>1 DEF StartPCs
  <2>2. CASE h # p
    <3>1. procs'[h] = procs[h]
      BY <1>7, <2>2, HandlersAreProcs
    <3>2. procs[h].pc \in StartPCs => procs[h].run # r
      BY <1>10, <2>2
    <3>3. \A g \in Handlers : procs'[g].pc \in StartPCs => procs'[g] = procs[g]
      BY <1>7, <1>9, HandlersAreProcs DEF StartPCs
    <3>4. procs[h].pc \in StartPCs => \A k \in DOMAIN nodeRuns' : nodeRuns'[k].run # procs[h].run
      BY <1>6, <3>2 DEF SoloInv, HoldsInv, HandlerInv
    <3>5. procs[h].pc \in StartPCs =>
            \A g \in Handlers : procs'[g].pc \in StartPCs /\ procs'[g].run = procs[h].run => g = h
      BY <3>3 DEF SoloInv, HoldsInv, HandlerInv
    <3>6. /\ procs[h].pc \in {"idle", "enqueue", "fail", "close", "spawn"}
          /\ procs[h].pc = "enqueue" => /\ procs[h].result \in {"trigger", "spawn"}
                                        /\ \A l, m \in procs[h].todo : l = m
      BY DEF SoloInv, HoldsInv, HandlerInv
    <3> QED
      BY <3>1, <3>4, <3>5, <3>6
  <2> QED
    BY <2>1, <2>2
<1>15. JobInv'
  <2>1. \A j \in queue : j.nr \in DOMAIN nodeRuns /\ j.nr # i
    BY <1>6, Typed
  <2>2. \A w \in Workers : procs'[w].pc # "idle" => procs[w].pc # "idle" /\ procs'[w].nr = procs[w].nr
    BY <1>1, <1>7, <1>8, WorkersAreProcs
  <2>3. \A w \in Workers : procs[w].pc # "idle" => procs[w].nr # i
    BY <1>6 DEF SoloInv, HoldsInv, WorkerInv
  <2>4. Open(i)' /\ \A j \in queue : Open(j.nr)'
    BY <1>6, <2>1 DEF Open, OpenNodeRun, SoloInv, HoldsInv, JobInv
  <2>5. \A j \in queue' : Open(j.nr)'
    BY <1>5, <2>4
  <2>6. \A j, k \in queue' : k.nr = j.nr => k = j
    BY <1>5, <2>1 DEF SoloInv, HoldsInv, JobInv
  <2>7. \A j \in queue' : \A w \in Workers : procs'[w].pc # "idle" => procs'[w].nr # j.nr
    BY <1>5, <2>2, <2>3 DEF SoloInv, HoldsInv, JobInv
  <2> QED
    BY <2>5, <2>6, <2>7 DEF JobInv, Open
<1>16. SuccInv'
  <2> SUFFICES ASSUME NEW z \in Runs, runs'[z].status = "succeeded"
               PROVE  ~Working(z)' /\ \A k \in NodeRunsOf(z)' : ~Open(k)'
    BY DEF SuccInv
  <2>1. ~Working(z) /\ \A k \in NodeRunsOf(z) : ~Open(k)
    BY <1>1 DEF SoloInv, SuccInv
  <2>2. z # r
    BY <1>1, <1>2, <2>1 DEF Working
  <2>3. ~Working(z)'
    BY <1>7, <1>8, <2>1, <2>2 DEF Working
  <2>4. \A k \in NodeRunsOf(z) : Open(k)' <=> Open(k)
    BY <1>6 DEF NodeRunsOf, Open
  <2> QED
    BY <1>11, <2>1, <2>2, <2>3, <2>4
<1>17. FinishInv'
  <2> SUFFICES ASSUME NEW w \in Workers, procs'[w].pc = "finish",
                      NEW k \in DOMAIN nodeRuns', nodeRuns'[k].run = procs'[w].run
               PROVE  ~Open(k)'
    BY DEF FinishInv, NodeRunsOf, Open
  <2>1. w # p /\ procs'[w] = procs[w]
    BY <1>7, <1>8, WorkersAreProcs
  <2>2. k \in DOMAIN nodeRuns /\ nodeRuns'[k] = nodeRuns[k]
    BY <1>6, <1>10, <2>1
  <2> QED
    BY <2>1, <2>2 DEF SoloInv, FinishInv, NodeRunsOf, Open
<1>18. TrigInv'
  <2> SUFFICES ASSUME NEW z \in Runs, Good(z), runs[z].parent = NoRun, NEW t \in Triggers
               PROVE  t \in Reached(z)' \/ \E h \in Handlers : Brings(h, z, t)'
    BY <1>1 DEF TrigInv, Good
  <2>1. t \in Reached(z) \/ \E h \in Handlers : Brings(h, z, t)
    BY DEF SoloInv, TrigInv
  <2>2. ASSUME NEW h \in Handlers, Brings(h, z, t)
        PROVE  t \in Reached(z)' \/ Brings(h, z, t)'
    <3>1. CASE h = p
      BY <1>2, <1>8, <1>12, <2>2, <3>1 DEF Brings
    <3>2. CASE h # p
      BY <1>7, <2>2, <3>2, HandlersAreProcs DEF Brings
    <3> QED
      BY <3>1, <3>2
  <2> QED
    BY <1>12, <2>1, <2>2
<1>19. OutInv'
  <2> SUFFICES ASSUME NEW k \in DOMAIN nodeRuns, Good(nodeRuns[k].run)
               PROVE  Fed(k)'
    <3>1. Fed(i)'
      BY <1>6 DEF Fed
    <3> QED
      BY <1>1, <1>6, <3>1 DEF OutInv, Good
  <2>1. /\ nodeRuns'[k] = nodeRuns[k] /\ Fed(k) /\ nodeRuns[k].run \in Runs
        /\ nodeRuns[k].node \in Nodes
    BY <1>6, Typed, NodeRunFacts DEF SoloInv, OutInv
  <2>2. PICK z \in Runs, l \in Nodes : z = nodeRuns[k].run /\ l = nodeRuns[k].node
    BY <2>1
  <2>3. ASSUME NEW w \in Workers, NEW m, Brings(w, z, m)
        PROVE  Brings(w, z, m)' \/ (z = r /\ m = n)
    <3>1. CASE w = p
      BY <1>2, <1>8, <2>3, <3>1 DEF Brings
    <3>2. CASE w # p
      BY <1>7, <2>3, <3>2, WorkersAreProcs DEF Brings
    <3> QED
      BY <3>1, <3>2
  <2>4. Followed(k) => Followed(k)'
    <3>1. Spreading(k) => Spreading(k)'
      BY <1>1, <1>7, WorkersAreProcs DEF Spreading
    <3> QED
      BY <1>12, <2>1, <2>2, <2>3, <3>1 DEF Followed
  <2>5. Answered(k) => Answered(k)'
    <3>1. \A w \in Workers : procs[w].pc = "fail" /\ procs[w].run = z =>
            procs'[w].pc = "fail" /\ procs'[w].run = z
      BY <1>1, <1>7, WorkersAreProcs
    <3>2. \A j \in NodeRunsOf(z) : j \in NodeRunsOf(z)' /\ nodeRuns'[j].node = nodeRuns[j].node
      BY <1>6 DEF NodeRunsOf
    <3>3. ASSUME z = r, l = n PROVE Answered(k)'
      <4>1. i > k /\ i \in NodeRunsOf(z)' /\ nodeRuns'[i].node = l
        BY <1>6, <3>3, Typed DEF NodeRunsOf
      <4> QED
        BY <2>1, <2>2, <4>1 DEF Answered
    <3> QED
      BY <2>1, <2>2, <2>3, <3>1, <3>2, <3>3 DEF Answered
  <2> QED
    BY <2>1, <2>4, <2>5 DEF Fed
<1>20. Unparked'
  BY <1>1 DEF SoloInv, Unparked
<1> QED
  BY <1>13, <1>14, <1>15, <1>16, <1>17, <1>18, <1>19, <1>20 DEF SoloInv, HoldsInv

\* A run begins: nothing is there yet.
LEMMA SoloStarts ==
  ASSUME TypeInv, WorkIsStarted, SoloInv, NEW p \in Handlers, NEW r \in Runs, Starts(p, r),
         procs[p].pc \in {"idle", "spawn"},
         \A x \in Runs : x # r => runs'[x] = runs[x],
         runs'[r].status = "running",
         runs'[r].parent = NoRun => Triggers \subseteq procs'[p].todo,
         procs'[p].pc = "fail" => Triggers = {},
         \A m, n \in procs'[p].todo : m = n
  PROVE  SoloInv'
<1>1. p \in Procs /\ p \notin Workers
  BY HandlersAreProcs
<1>2. /\ \A q \in Procs : q # p => procs'[q] = procs[q]
      /\ \A w \in Workers : procs'[w] = procs[w]
      /\ queue' = queue /\ DOMAIN nodeRuns' = DOMAIN nodeRuns
      /\ \A k \in DOMAIN nodeRuns : /\ nodeRuns'[k].run = nodeRuns[k].run
                                    /\ nodeRuns'[k].node = nodeRuns[k].node
                                    /\ nodeRuns'[k].status = nodeRuns[k].status
  BY <1>1, WorkersAreProcs DEF Starts, OnlyProc, DocsStay, StatusesStay, SameNodes
<1>3. /\ \A q \in Procs : procs[q].pc # "idle" => procs[q].run # r
      /\ \A k \in DOMAIN nodeRuns : nodeRuns[k].run # r
  BY DEF WorkIsStarted, Starts
<1>4. /\ procs'[p].run = r /\ procs'[p].pc \in StartPCs
      /\ procs'[p].result \in {"trigger", "spawn"}
  BY DEF Starts, StartPCs
<1>5. \A z \in Runs : NodeRunsOf(z)' = NodeRunsOf(z) /\ Reached(z)' = Reached(z)
  BY <1>2 DEF NodeRunsOf, Reached
<1>6. WorkerInv'
  BY <1>2 DEF SoloInv, HoldsInv, WorkerInv
<1>7. HandlerInv'
  <2> SUFFICES ASSUME NEW h \in Handlers
               PROVE  /\ procs'[h].pc \in {"idle", "enqueue", "fail", "close", "spawn"}
                      /\ procs'[h].pc \in StartPCs =>
                           /\ \A k \in DOMAIN nodeRuns' : nodeRuns'[k].run # procs'[h].run
                           /\ \A g \in Handlers :
                                procs'[g].pc \in StartPCs /\ procs'[g].run = procs'[h].run => g = h
                      /\ procs'[h].pc = "enqueue" =>
                           /\ procs'[h].result \in {"trigger", "spawn"}
                           /\ \A l, m \in procs'[h].todo : l = m
    BY DEF HandlerInv
  <2>1. CASE h = p
    <3>1. \A g \in Handlers : g # p => ~ (procs'[g].pc \in StartPCs /\ procs'[g].run = r)
      BY <1>2, <1>3, HandlersAreProcs DEF StartPCs
    <3> QED
      BY <1>2, <1>3, <1>4, <2>1, <3>1 DEF StartPCs
  <2>2. CASE h # p
    <3>1. procs'[h] = procs[h]
      BY <1>2, <2>2, HandlersAreProcs
    <3>2. \A g \in Handlers :
            procs'[g].pc \in StartPCs /\ procs'[g].run = procs[h].run /\ procs[h].pc \in StartPCs =>
              procs'[g] = procs[g]
      BY <1>2, <1>3, <1>4, HandlersAreProcs DEF StartPCs
    <3> QED
      BY <1>2, <3>1, <3>2 DEF SoloInv, HoldsInv, HandlerInv
  <2> QED
    BY <2>1, <2>2
<1>8. JobInv'
  BY <1>2, Typed DEF SoloInv, HoldsInv, JobInv, Open
<1>9. SuccInv'
  <2> SUFFICES ASSUME NEW z \in Runs, runs'[z].status = "succeeded"
               PROVE  ~Working(z)' /\ \A k \in NodeRunsOf(z)' : ~Open(k)'
    BY DEF SuccInv
  <2>1. z # r /\ ~Working(z) /\ \A k \in NodeRunsOf(z) : ~Open(k)
    BY DEF SoloInv, SuccInv
  <2>2. ~Working(z)'
    BY <1>2, <1>4, <2>1 DEF Working
  <2> QED
    BY <1>2, <1>5, <2>1, <2>2 DEF NodeRunsOf, Open
<1>10. FinishInv'
  BY <1>2 DEF SoloInv, FinishInv, NodeRunsOf, Open
<1>11. TrigInv'
  <2> SUFFICES ASSUME NEW z \in Runs, Good(z)', runs'[z].parent = NoRun, NEW t \in Triggers
               PROVE  t \in Reached(z)' \/ \E h \in Handlers : Brings(h, z, t)'
    BY DEF TrigInv
  <2>1. CASE z = r
    BY <1>4, <2>1 DEF Brings, Starts
  <2>2. CASE z # r
    <3>1. t \in Reached(z) \/ \E h \in Handlers : Brings(h, z, t)
      BY <2>2 DEF SoloInv, TrigInv, Good
    <3>2. \A h \in Handlers : Brings(h, z, t) => Brings(h, z, t)'
      BY <1>2, HandlersAreProcs DEF Brings
    <3> QED
      BY <1>5, <3>1, <3>2
  <2> QED
    BY <2>1, <2>2
<1>12. OutInv'
  <2> SUFFICES ASSUME NEW k \in DOMAIN nodeRuns, Good(nodeRuns[k].run)'
               PROVE  Fed(k)'
    BY <1>2 DEF OutInv, Good
  <2>1. nodeRuns[k].run \in Runs /\ nodeRuns[k].run # r
    BY <1>3, Typed, NodeRunFacts
  <2>2. Fed(k)
    BY <1>2, <2>1 DEF SoloInv, OutInv, Good
  <2>3. \A w \in Workers : \A m : Brings(w, nodeRuns[k].run, m) => Brings(w, nodeRuns[k].run, m)'
    BY <1>2 DEF Brings
  <2>4. Spreading(k) => Spreading(k)'
    BY <1>2 DEF Spreading
  <2>5. Followed(k) => Followed(k)'
    BY <1>2, <1>5, <2>1, <2>3, <2>4 DEF Followed
  <2>6. Answered(k) => Answered(k)'
    BY <1>2, <2>3 DEF Answered, NodeRunsOf
  <2> QED
    BY <1>2, <2>2, <2>5, <2>6 DEF Fed
<1>13. Unparked'
  BY DEF SoloInv, Unparked, WaitingRun
<1> QED
  BY <1>6, <1>7, <1>8, <1>9, <1>10, <1>11, <1>12, <1>13 DEF SoloInv, HoldsInv

LEMMA SoloDispatch ==
  ASSUME TypeInv, SoloInv, NEW p \in Workers, DispatchJob(p) PROVE SoloInv'
<1>1. p \in Procs /\ p \notin Handlers
  BY WorkersAreProcs
<1>2. /\ procs[p].pc = "idle" /\ OnlyProc(p) /\ StatusesStay /\ runs' = runs
      /\ \E j \in queue : /\ queue' = queue \ {j} /\ procs'[p].pc = "load"
                          /\ procs'[p].nr = j.nr /\ procs'[p].run = RunOf(j)
  BY DispatchShape
<1>3. PICK j \in queue : /\ queue' = queue \ {j} /\ procs'[p].pc = "load"
                         /\ procs'[p].nr = j.nr /\ procs'[p].run = RunOf(j)
  BY <1>2
<1>4. j.nr \in DOMAIN nodeRuns /\ Open(j.nr) /\ \A k \in queue : k.nr = j.nr => k = j
  BY Typed DEF SoloInv, HoldsInv, JobInv
<1>5. /\ \A q \in Procs : q # p => procs'[q] = procs[q]
      /\ \A h \in Handlers : procs'[h] = procs[h]
      /\ DOMAIN nodeRuns' = DOMAIN nodeRuns
      /\ \A k \in DOMAIN nodeRuns : /\ nodeRuns'[k].run = nodeRuns[k].run
                                    /\ nodeRuns'[k].node = nodeRuns[k].node
                                    /\ nodeRuns'[k].status = nodeRuns[k].status
  BY <1>1, <1>2, HandlersAreProcs DEF OnlyProc, StatusesStay, SameNodes
<1>6. \A z \in Runs : NodeRunsOf(z)' = NodeRunsOf(z) /\ Reached(z)' = Reached(z)
  BY <1>5 DEF NodeRunsOf, Reached
<1>7. WorkerInv'
  BY <1>3, <1>4, <1>5, WorkersAreProcs DEF SoloInv, HoldsInv, WorkerInv, RunOf
<1>8. HandlerInv'
  BY <1>5 DEF SoloInv, HoldsInv, HandlerInv
<1>9. JobInv'
  <2> SUFFICES ASSUME NEW k \in queue'
               PROVE  /\ Open(k.nr)' /\ \A l \in queue' : l.nr = k.nr => l = k
                      /\ \A w \in Workers : procs'[w].pc # "idle" => procs'[w].nr # k.nr
    BY DEF JobInv, Open
  <2>1. k \in queue /\ k # j /\ k.nr # j.nr /\ k.nr \in DOMAIN nodeRuns
    BY <1>3, <1>4, Typed
  <2>2. /\ Open(k.nr) /\ \A l \in queue : l.nr = k.nr => l = k
        /\ \A w \in Workers : procs[w].pc # "idle" => procs[w].nr # k.nr
    BY <2>1 DEF SoloInv, HoldsInv, JobInv
  <2>3. \A w \in Workers : procs'[w].pc # "idle" => procs'[w].nr # k.nr
    BY <1>3, <1>5, <2>1, <2>2, WorkersAreProcs
  <2> QED
    BY <1>3, <1>5, <2>1, <2>2, <2>3 DEF Open
<1>10. SuccInv'
  <2> SUFFICES ASSUME NEW z \in Runs, runs[z].status = "succeeded"
               PROVE  ~Working(z)' /\ \A k \in NodeRunsOf(z)' : ~Open(k)'
    BY <1>2 DEF SuccInv
  <2>1. ~Working(z) /\ \A k \in NodeRunsOf(z) : ~Open(k)
    BY DEF SoloInv, SuccInv
  <2>2. RunOf(j) # z
    BY <1>4, <2>1 DEF RunOf, NodeRunsOf
  <2>3. ~Working(z)'
    BY <1>3, <1>5, <2>1, <2>2 DEF Working
  <2> QED
    BY <1>5, <1>6, <2>1, <2>3 DEF NodeRunsOf, Open
<1>11. FinishInv'
  BY <1>3, <1>5, WorkersAreProcs DEF SoloInv, FinishInv, NodeRunsOf, Open
<1>12. TrigInv'
  BY <1>2, <1>5, <1>6 DEF SoloInv, TrigInv, Good, Brings
<1>13. OutInv'
  <2> SUFFICES ASSUME NEW k \in DOMAIN nodeRuns, Good(nodeRuns[k].run)
               PROVE  Fed(k)'
    BY <1>2, <1>5 DEF OutInv, Good
  <2>1. nodeRuns[k].run \in Runs
    BY Typed, NodeRunFacts
  <2>2. Fed(k)
    BY DEF SoloInv, OutInv
  <2>3. \A w \in Workers : procs[w].pc # "idle" => procs'[w] = procs[w]
    BY <1>2, <1>5, WorkersAreProcs
  <2>4. \A w \in Workers : \A m : Brings(w, nodeRuns[k].run, m) => Brings(w, nodeRuns[k].run, m)'
    BY <1>5, <2>3 DEF Brings
  <2>5. Spreading(k) => Spreading(k)'
    BY <2>3 DEF Spreading
  <2>6. Followed(k) => Followed(k)'
    BY <1>5, <1>6, <2>1, <2>4, <2>5 DEF Followed
  <2>7. Answered(k) => Answered(k)'
    BY <1>5, <2>3, <2>4 DEF Answered, NodeRunsOf
  <2> QED
    BY <1>5, <2>2, <2>6, <2>7 DEF Fed
<1>14. Unparked'
  BY <1>2 DEF SoloInv, Unparked
<1> QED
  BY <1>7, <1>8, <1>9, <1>10, <1>11, <1>12, <1>13, <1>14 DEF SoloInv, HoldsInv

\* A run that begins has a parent and nothing to do.
RunsCalm ==
  \A r \in Runs :
    /\ \A s \in {"succeeded"} \cup WaitingRun : runs'[r].status = s => runs[r].status = s
    /\ Good(r)' => \/ Good(r) /\ runs'[r].parent = runs[r].parent
                   \/ runs'[r].parent # NoRun /\ \A i \in DOMAIN nodeRuns : nodeRuns[i].run # r

LEMMA TameCalm == RunsTame => RunsCalm
  BY DEF RunsTame, RunsCalm, Good

\* No worker is concerned; what is open may be interrupted along with its job.
LEMMA SoloAside ==
  ASSUME TypeInv, SoloInv, RunsCalm, SameNodes, queue' \subseteq queue,
         \A k \in DOMAIN nodeRuns :
           \/ nodeRuns'[k].status = nodeRuns[k].status
           \/ Open(k) /\ nodeRuns'[k].status = "interrupted",
         \A j \in queue' : nodeRuns'[j.nr].status = nodeRuns[j.nr].status,
         \A w \in Workers :
           /\ procs'[w].pc = procs[w].pc /\ procs'[w].run = procs[w].run
           /\ procs'[w].nr = procs[w].nr /\ procs'[w].todo = procs[w].todo
           /\ procs'[w].result = procs[w].result,
         \A h \in Handlers :
           \/ /\ procs'[h].pc = procs[h].pc /\ procs'[h].run = procs[h].run
              /\ procs'[h].todo = procs[h].todo /\ procs'[h].result = procs[h].result
           \/ procs'[h].pc \in {"idle", "close", "spawn"} /\ procs[h].pc # "enqueue"
  PROVE  SoloInv'
<1>1. /\ DOMAIN nodeRuns' = DOMAIN nodeRuns
      /\ \A k \in DOMAIN nodeRuns : /\ nodeRuns'[k].run = nodeRuns[k].run
                                    /\ nodeRuns'[k].node = nodeRuns[k].node
                                    /\ Open(k)' => Open(k)
  BY DEF SameNodes, Open, OpenNodeRun
<1>2. \A z \in Runs : NodeRunsOf(z)' = NodeRunsOf(z) /\ Reached(z)' = Reached(z)
  BY <1>1 DEF NodeRunsOf, Reached
<1>3. WorkerInv'
  BY <1>1 DEF SoloInv, HoldsInv, WorkerInv
<1>4. HandlerInv'
  <2> SUFFICES ASSUME NEW h \in Handlers
               PROVE  /\ procs'[h].pc \in {"idle", "enqueue", "fail", "close", "spawn"}
                      /\ procs'[h].pc \in StartPCs =>
                           /\ \A k \in DOMAIN nodeRuns' : nodeRuns'[k].run # procs'[h].run
                           /\ \A g \in Handlers :
                                procs'[g].pc \in StartPCs /\ procs'[g].run = procs'[h].run => g = h
                      /\ procs'[h].pc = "enqueue" =>
                           /\ procs'[h].result \in {"trigger", "spawn"}
                           /\ \A l, m \in procs'[h].todo : l = m
    BY DEF HandlerInv
  <2>1. \A g \in Handlers : procs'[g].pc \in StartPCs =>
          /\ procs'[g].pc = procs[g].pc /\ procs'[g].run = procs[g].run
          /\ procs'[g].todo = procs[g].todo /\ procs'[g].result = procs[g].result
    BY DEF StartPCs
  <2>2. /\ procs[h].pc \in {"idle", "enqueue", "fail", "close", "spawn"}
        /\ procs[h].pc \in StartPCs =>
             /\ \A k \in DOMAIN nodeRuns : nodeRuns[k].run # procs[h].run
             /\ \A g \in Handlers :
                  procs[g].pc \in StartPCs /\ procs[g].run = procs[h].run => g = h
        /\ procs[h].pc = "enqueue" =>
             /\ procs[h].result \in {"trigger", "spawn"}
             /\ \A l, m \in procs[h].todo : l = m
    BY DEF SoloInv, HoldsInv, HandlerInv
  <2>3. procs'[h].pc \in {"idle", "enqueue", "fail", "close", "spawn"}
    BY <2>2
  <2>4. CASE procs'[h].pc \in StartPCs
    BY <1>1, <2>1, <2>2, <2>3, <2>4
  <2>5. CASE procs'[h].pc \notin StartPCs
    BY <2>3, <2>5 DEF StartPCs
  <2> QED
    BY <2>4, <2>5
<1>5. JobInv'
  <2> SUFFICES ASSUME NEW k \in queue'
               PROVE  /\ Open(k.nr)' /\ \A l \in queue' : l.nr = k.nr => l = k
                      /\ \A w \in Workers : procs'[w].pc # "idle" => procs'[w].nr # k.nr
    BY DEF JobInv, Open
  <2> QED
    BY DEF SoloInv, HoldsInv, JobInv, Open
<1>6. SuccInv'
  <2> SUFFICES ASSUME NEW z \in Runs, runs[z].status = "succeeded"
               PROVE  ~Working(z)' /\ \A k \in NodeRunsOf(z)' : ~Open(k)'
    BY DEF SuccInv, RunsCalm
  <2>1. ~Working(z) /\ \A k \in NodeRunsOf(z) : ~Open(k)
    BY DEF SoloInv, SuccInv
  <2>2. ~Working(z)'
    BY <2>1 DEF Working, Procs
  <2> QED
    BY <1>1, <1>2, <2>1, <2>2 DEF NodeRunsOf
<1>7. FinishInv'
  BY <1>1 DEF SoloInv, FinishInv, NodeRunsOf, Open
<1>8. TrigInv'
  <2> SUFFICES ASSUME NEW z \in Runs, Good(z)', runs'[z].parent = NoRun, NEW t \in Triggers
               PROVE  t \in Reached(z)' \/ \E h \in Handlers : Brings(h, z, t)'
    BY DEF TrigInv
  <2>1. t \in Reached(z) \/ \E h \in Handlers : Brings(h, z, t)
    BY DEF RunsCalm, SoloInv, TrigInv
  <2>2. \A h \in Handlers : Brings(h, z, t) => Brings(h, z, t)'
    BY DEF Brings
  <2> QED
    BY <1>2, <2>1, <2>2
<1>9. OutInv'
  <2> SUFFICES ASSUME NEW k \in DOMAIN nodeRuns, Good(nodeRuns[k].run)'
               PROVE  Fed(k)'
    BY <1>1 DEF OutInv, Good
  <2>1. nodeRuns[k].run \in Runs
    BY Typed, NodeRunFacts
  <2>2. Fed(k)
    <3>1. Good(nodeRuns[k].run)
      BY <1>1, <2>1 DEF RunsCalm, Good
    <3> QED
      BY <3>1 DEF SoloInv, OutInv
  <2>3. \A w \in Workers : \A m : Brings(w, nodeRuns[k].run, m) => Brings(w, nodeRuns[k].run, m)'
    BY <1>1 DEF Brings
  <2>4. Spreading(k) => Spreading(k)'
    BY DEF Spreading
  <2>5. Followed(k) => Followed(k)'
    BY <1>1, <1>2, <2>1, <2>3, <2>4 DEF Followed
  <2>6. Answered(k) => Answered(k)'
    BY <1>1, <2>3 DEF Answered, NodeRunsOf
  <2>7. nodeRuns'[k].status \in {"succeeded", "failed"} => nodeRuns'[k].status = nodeRuns[k].status
    OBVIOUS
  <2> QED
    BY <2>2, <2>5, <2>6, <2>7 DEF Fed
<1>10. Unparked'
  BY DEF RunsCalm, SoloInv, Unparked
<1> QED
  BY <1>3, <1>4, <1>5, <1>6, <1>7, <1>8, <1>9, <1>10 DEF SoloInv, HoldsInv

\* Only a handler that is not enqueueing is concerned, or none.
LEMMA SoloHandler ==
  ASSUME TypeInv, SoloInv, RunsCalm, DocsStay, NEW p \in Handlers, OnlyProc(p),
         procs[p].pc # "enqueue", procs'[p].pc \in {"idle", "close", "spawn"}
  PROVE  SoloInv'
<1>1. \A k \in DOMAIN nodeRuns : nodeRuns'[k].status = nodeRuns[k].status
  BY DEF DocsStay, StatusesStay
<1>2. \A w \in Workers : procs'[w] = procs[w]
  BY WorkersAreProcs DEF OnlyProc
<1>3. \A h \in Handlers : h # p => procs'[h] = procs[h]
  BY HandlersAreProcs DEF OnlyProc
<1>4. queue' \subseteq queue /\ SameNodes /\ \A j \in queue' : j.nr \in DOMAIN nodeRuns
  BY Typed DEF DocsStay, StatusesStay
<1> QED
  BY <1>1, <1>2, <1>3, <1>4, SoloAside

LEMMA SoloStays ==
  ASSUME TypeInv, SoloInv, RunsTame, DocsStay, procs' = procs PROVE SoloInv'
<1>1. \A k \in DOMAIN nodeRuns : nodeRuns'[k].status = nodeRuns[k].status
  BY DEF DocsStay, StatusesStay
<1>2. queue' \subseteq queue /\ SameNodes /\ \A j \in queue' : j.nr \in DOMAIN nodeRuns
  BY Typed DEF DocsStay, StatusesStay
<1> QED
  BY <1>1, <1>2, TameCalm, SoloAside

LEMMA SoloClose ==
  ASSUME TypeInv, SoloInv, NEW p \in Handlers, CloseNodeRuns(p) PROVE SoloInv'
<1> DEFINE C == {i \in DOMAIN nodeRuns : nodeRuns[i].run = procs[p].run
                                         /\ nodeRuns[i].status \in OpenNodeRun}
<1>1. p \in Procs /\ p \notin Workers
  BY HandlersAreProcs
<1>2. /\ procs'[p].pc = "idle" /\ procs[p].pc = "close"
      /\ \A q \in Procs : q # p =>
           /\ procs'[q].pc = procs[q].pc /\ procs'[q].run = procs[q].run
           /\ procs'[q].nr = procs[q].nr /\ procs'[q].todo = procs[q].todo
           /\ procs'[q].result = procs[q].result
      /\ Interrupts(C)
  BY <1>1, CloseShape DEF CloseNodeRuns
<1>3. runs' = runs /\ queue' = {j \in queue : nodeRuns[j.nr].run # procs[p].run}
  BY DEF CloseNodeRuns, RemoveRun
<1>4. SameNodes /\ queue' \subseteq queue /\ RunsCalm
  BY <1>2, <1>3, SameTame, TameCalm DEF Interrupts
<1>5. \A k \in DOMAIN nodeRuns :
        \/ nodeRuns'[k].status = nodeRuns[k].status
        \/ Open(k) /\ nodeRuns'[k].status = "interrupted"
  BY <1>2 DEF Interrupts, Open
<1>6. \A j \in queue' : nodeRuns'[j.nr].status = nodeRuns[j.nr].status
  <2> SUFFICES ASSUME NEW j \in queue' PROVE nodeRuns'[j.nr].status = nodeRuns[j.nr].status
    OBVIOUS
  <2>1. j.nr \in DOMAIN nodeRuns /\ j.nr \notin C
    BY <1>3, Typed
  <2> QED
    BY <1>2, <2>1 DEF Interrupts
<1>7. \A w \in Workers :
           /\ procs'[w].pc = procs[w].pc /\ procs'[w].run = procs[w].run
           /\ procs'[w].nr = procs[w].nr /\ procs'[w].todo = procs[w].todo
           /\ procs'[w].result = procs[w].result
  BY <1>1, <1>2, WorkersAreProcs
<1>8. \A h \in Handlers :
           \/ /\ procs'[h].pc = procs[h].pc /\ procs'[h].run = procs[h].run
              /\ procs'[h].todo = procs[h].todo /\ procs'[h].result = procs[h].result
           \/ procs'[h].pc \in {"idle", "close", "spawn"} /\ procs[h].pc # "enqueue"
  BY <1>2, HandlersAreProcs
<1> QED
  BY <1>4, <1>5, <1>6, <1>7, <1>8, SoloAside

\* What a status is set to, where a run neither begins, finishes nor waits.
LEMMA SetTame ==
  ASSUME TypeInv, NEW r \in Runs, NEW s \in {"queued", "failed", "cancelled"}, SetRun(r, s)
  PROVE  RunsTame
<1>1. runs \in [Runs -> RunType] /\ s \in RunStatus
  BY DEF TypeInv, TypeOK, RunStatus, TerminalRun
<1>2. /\ \A x \in Runs : x # r => runs'[x] = runs[x]
      /\ runs'[r] = [runs[r] EXCEPT !.status = s]
  BY <1>1, SetRunFacts
<1>3. runs'[r].status = s /\ runs'[r].parent = runs[r].parent
  BY <1>1, <1>2 DEF RunType
<1> QED
  BY <1>2, <1>3 DEF RunsTame, WaitingRun

LEMMA ClaimTame ==
  ASSUME TypeInv, NEW h, NEW r \in Runs, ClaimRetry(h, r) PROVE RunsTame
<1>1. runs \in [Runs -> RunType] /\ runs' = [runs EXCEPT ![r].retryClaimed = TRUE]
  BY DEF TypeInv, TypeOK, ClaimRetry
<1> QED
  BY <1>1 DEF RunsTame, RunType

LEMMA SoloRunQueued ==
  ASSUME TypeInv, WorkIsStarted, OneTrigger, SoloInv, NEW h \in Handlers, NEW r \in Runs, NEW o,
         HandleRunQueued(h, r, o)
  PROVE  SoloInv'
<1>1. \/ DocsStay /\ UNCHANGED <<runs, procs>>
      \/ /\ procs[h].pc = "idle" /\ runs[r].status = "queued" /\ SetRun(r, "running")
         /\ Starts(h, r)
         /\ procs'[h].todo = Triggers /\ procs'[h].result = "trigger"
         /\ procs'[h].pc = "fail" => Triggers = {}
  BY RunQueuedShape
<1>2. CASE DocsStay /\ UNCHANGED <<runs, procs>>
  BY <1>2, SameTame, SoloStays
<1>3. CASE /\ procs[h].pc = "idle" /\ runs[r].status = "queued" /\ SetRun(r, "running")
           /\ Starts(h, r)
           /\ procs'[h].todo = Triggers /\ procs'[h].result = "trigger"
           /\ procs'[h].pc = "fail" => Triggers = {}
  <2>1. runs \in [Runs -> RunType] /\ "running" \in RunStatus
    BY DEF TypeInv, TypeOK, RunStatus
  <2>2. /\ \A x \in Runs : x # r => runs'[x] = runs[x]
        /\ runs'[r] = [runs[r] EXCEPT !.status = "running"]
    BY <1>3, <2>1, SetRunFacts
  <2>3. runs'[r].status = "running"
    BY <2>1, <2>2 DEF RunType
  <2>4. \A m, n \in procs'[h].todo : m = n
    BY <1>3 DEF OneTrigger
  <2> QED
    BY <1>3, <2>2, <2>3, <2>4, SoloStarts
<1> QED
  BY <1>1, <1>2, <1>3

LEMMA SoloSpawn ==
  ASSUME TypeInv, WorkIsStarted, SoloInv, NEW p \in Handlers, SpawnRetry(p) PROVE SoloInv'
<1>1. p \in Procs /\ procs[p].pc = "spawn" /\ procs[p].run \in Runs /\ NoRun \notin Runs
  BY HandlersAreProcs, Disjoint, BusyRun DEF SpawnRetry
<1>2. PICK c \in Runs :
        /\ runs[c].status = "absent"
        /\ runs' = [runs EXCEPT ![c].status = "running", ![c].parent = procs[p].run]
        /\ \/ Return(p)
           \/ \E n \in RetryStarts(procs[p].run) :
                procs' = [procs EXCEPT ![p].pc = "enqueue", ![p].run = c,
                                       ![p].result = "spawn", ![p].todo = {n}]
  BY Zenon DEF SpawnRetry
<1>3. runs \in [Runs -> RunType]
  BY DEF TypeInv, TypeOK
<1>4. /\ \A x \in Runs : x # c => runs'[x] = runs[x]
      /\ runs'[c].status = "running" /\ runs'[c].parent = procs[p].run
  BY <1>2, <1>3 DEF RunType
<1>5. StatusesStay /\ DocsStay
  BY UnchangedStay DEF SpawnRetry, DocsStay
<1>6. ~Started(c)
  BY <1>2 DEF Started
<1>7. CASE Return(p)
  <2>1. Ends(p)
    BY <1>1, <1>7, ReturnEnds
  <2>2. OnlyProc(p) /\ procs'[p].pc = "idle"
    BY <2>1 DEF Ends
  <2>3. \A i \in DOMAIN nodeRuns : nodeRuns[i].run # c
    BY <1>6 DEF WorkIsStarted
  <2>4. RunsCalm
    BY <1>1, <1>4, <2>3 DEF RunsCalm, Good, WaitingRun
  <2> QED
    BY <1>1, <1>5, <2>2, <2>4, SoloHandler
<1>8. ASSUME NEW n \in RetryStarts(procs[p].run),
             procs' = [procs EXCEPT ![p].pc = "enqueue", ![p].run = c,
                                    ![p].result = "spawn", ![p].todo = {n}]
      PROVE  SoloInv'
  <2> DEFINE x == [procs[p] EXCEPT !.pc = "enqueue", !.run = c, !.result = "spawn", !.todo = {n}]
  <2>1. x.pc = "enqueue" /\ x.run = c /\ x.todo = {n} /\ x.result = "spawn"
    BY <1>1, ProcessFields DEF ProcType
  <2>2. procs' = [procs EXCEPT ![p] = x]
    BY Zenon, <1>8
  <2> HIDE DEF x
  <2>3. OnlyProc(p) /\ procs'[p] = x
    BY <1>1, <2>2, BecomesOnly
  <2>4. Starts(p, c)
    BY <1>5, <1>6, <2>1, <2>3 DEF Starts
  <2> QED
    BY <1>1, <1>4, <2>1, <2>3, <2>4, SoloStarts
<1> QED
  BY <1>2, <1>7, <1>8

LEMMA SoloHandlerStep ==
  ASSUME TypeInv, LockInv, WorkIsStarted, SoloInv, NEW p \in Handlers, Step(p) PROVE SoloInv'
<1>1. p \in Procs
  BY HandlersAreProcs
<1>2. procs[p].pc \in {"idle", "enqueue", "fail", "close", "spawn"}
  BY DEF SoloInv, HoldsInv, HandlerInv
<1>3. EnqueueNext(p) \/ FailRun(p) \/ CloseNodeRuns(p) \/ SpawnRetry(p)
  BY <1>2 DEF Step, LoadJob, MarkRunning, CountExecution, Execute, ReadLiveStatus,
              InterruptNodeRun, SaveWaiting, ParkRun, CompleteNodeRun, UpdateContext,
              CountOpen, FinishRun, ResumeRun
<1>4. CASE FailRun(p)
  <2>1. procs[p].pc \in {"finish", "fail"} /\ DocsStay /\ Ends(p)
    BY <1>1, <1>4, EndShape
  <2>2. RunsCalm
    <3>1. procs[p].run \in Runs
      BY <1>1, <2>1, BusyRun
    <3>2. runs' = runs \/ SetRun(procs[p].run, "failed")
      BY <1>4 DEF FailRun
    <3> QED
      BY <3>1, <3>2, SameTame, SetTame, TameCalm
  <2> QED
    BY <2>1, <2>2, SoloHandler DEF Ends
<1> QED
  BY <1>1, <1>3, <1>4, SoloEnqueue, SoloClose, SoloSpawn

LEMMA SoloWorkerStep ==
  ASSUME TypeInv, LockInv, WaitInv, NeverWaits, SoloInv, NEW p \in Workers, Step(p) PROVE SoloInv'
<1>1. p \in Procs
  BY WorkersAreProcs
<1>2. procs[p].pc \notin {"resume", "close", "spawn"}
  BY DEF LockInv, Roles
<1>3. procs[p].pc \notin {"wait", "park"}
  BY <1>1 DEF WaitInv, TypeInv, References, Knows
<1> QED
  BY <1>1, <1>2, <1>3, SoloBefore, SoloLive, SoloComplete, SoloContext, SoloEnqueue, SoloFinish,
     SoloFail DEF Step, SaveWaiting, ParkRun, ResumeRun, CloseNodeRuns, SpawnRetry

\* The questions and their answers do not touch the rest.
Answering ==
  \/ \E i \in DOMAIN nodeRuns, k \in 1..MaxAnswers : OpenAnswer(i, k) \/ SaveAnswer(i, k)
  \/ \E i \in DOMAIN nodeRuns : OpenExpiry(i) \/ SaveExpiry(i)

LEMMA AnsweringStays ==
  ASSUME TypeInv, Answering PROVE DocsStay /\ UNCHANGED <<runs, procs, control>>
<1>1. queue' = queue /\ UNCHANGED <<runs, procs, control>>
  BY DEF Answering, OpenAnswer, SaveAnswer, OpenExpiry, SaveExpiry
<1>2. StatusesStay
  BY UnchangedStay, QuestionStatusesStay
     DEF Answering, OpenAnswer, SaveAnswer, OpenExpiry, SaveExpiry
<1> QED
  BY <1>1, <1>2 DEF DocsStay

LEMMA SoloUsers ==
  ASSUME TypeInv, SoloInv,
         \/ \E r \in Runs : StartRun(r)
         \/ \E h \in Handlers, r \in Runs : CancelRun(h, r) \/ ClaimRetry(h, r)
         \/ Answering
  PROVE  SoloInv'
<1>1. ASSUME NEW r \in Runs, StartRun(r) PROVE SoloInv'
  <2>1. RunsTame /\ DocsStay /\ procs' = procs
    BY <1>1, SetTame, UnchangedStay DEF StartRun, DocsStay
  <2> QED
    BY <2>1, SoloStays
<1>2. ASSUME NEW h \in Handlers, NEW r \in Runs, CancelRun(h, r) \/ ClaimRetry(h, r)
      PROVE  SoloInv'
  <2>1. /\ procs[h].pc = "idle" /\ OnlyProc(h) /\ DocsStay
        /\ procs'[h].pc \in {"close", "spawn"}
    BY <1>2, RequestShape
  <2>2. CancelRun(h, r) => SetRun(r, "cancelled")
    BY DEF CancelRun
  <2>3. RunsCalm
    BY <1>2, <2>2, SetTame, ClaimTame, TameCalm
  <2> QED
    BY <2>1, <2>3, SoloHandler
<1>3. CASE Answering
  BY <1>3, AnsweringStays, SameTame, SoloStays
<1> QED
  BY <1>1, <1>2, <1>3

\* Without waiting NodeRuns nobody has anything to resume.
LEMMA NothingResumes ==
  ASSUME TypeInv, WaitInv, NeverWaits,
         \/ \E h \in Handlers, e \in questionEvents : HandleQuestion(h, e)
         \/ \E h \in Handlers, i \in DOMAIN nodeRuns : ResumeDelayedNode(h, i)
  PROVE  DocsStay /\ UNCHANGED <<runs, procs>>
<1>1. \A e \in questionEvents : e.nr \in DOMAIN nodeRuns
  BY DEF TypeInv, References
<1>2. \A i \in DOMAIN nodeRuns : nodeRuns[i].status # "waiting"
  BY DEF WaitInv
<1> QED
  BY <1>1, <1>2, UnchangedStay DEF HandleQuestion, ResumeDelayedNode, DocsStay

\* What runs without a fault: the backend is up and recovers nothing.
UpInv == faults = 0 => backend = "up"
NoFault == faults = 0 /\ faults' = 0

LEMMA Undisturbed ==
  ASSUME TypeInv, UpInv, [Next]_vars, NoFault
  PROVE  /\ ~Crash /\ ~Recovery /\ \A p \in Procs : ~DatabaseError(p)
<1> QED
  BY DEF UpInv, NoFault, Crash, Recovery, Restart, RecoverRun, InterruptCut, FailCut, RecoverNode,
         FinishRecovery, DatabaseError

LEMMA SoloNext ==
  ASSUME TypeInv, LockInv, WorkIsStarted, WaitInv, UpInv, NeverWaits, OneTrigger, SoloInv,
         [Next]_vars, NoFault
  PROVE  SoloInv'
<1>1. CASE UNCHANGED vars
  BY <1>1, SameTame, UnchangedStay, SoloStays DEF vars, memory, DocsStay
<1>2. ASSUME NEW h \in Handlers, NEW e \in queuedEvents, HandleRunQueued(h, e[1], e[2])
      PROVE  SoloInv'
  <2>1. e[1] \in Runs
    BY DEF TypeInv, TypeOK
  <2> QED
    BY <1>2, <2>1, SoloRunQueued
<1>3. CASE \/ \E h \in Handlers, e \in questionEvents : HandleQuestion(h, e)
           \/ \E h \in Handlers, i \in DOMAIN nodeRuns : ResumeDelayedNode(h, i)
  BY <1>3, NothingResumes, SameTame, SoloStays
<1>4. ASSUME NEW p \in Procs, Step(p) PROVE SoloInv'
  BY <1>4, SoloHandlerStep, SoloWorkerStep DEF Procs
<1>5. Users \/ (\E i \in DOMAIN nodeRuns, k \in 1..MaxAnswers : SaveAnswer(i, k))
        \/ (\E i \in DOMAIN nodeRuns : OpenExpiry(i) \/ SaveExpiry(i)) =>
      \/ \E r \in Runs : StartRun(r)
      \/ \E h \in Handlers, r \in Runs : CancelRun(h, r) \/ ClaimRetry(h, r)
      \/ Answering
  BY DEF Users, Answering
<1> QED
  BY <1>1, <1>2, <1>3, <1>4, <1>5, SoloUsers, SoloDispatch, Undisturbed DEF Next

-----------------------------------------------------------------------------
(* Where no node branches, a run has one token: a process that moves it, a    *)
(* job or a NodeRun that waits.                                               *)

Unbranched == \A n \in Nodes : \A b \in Branches : \A c, d \in NextNodes(n, b) : c = d

MovePCs == HolderPCs \cup {"enqueue"}
Movers(r) == {p \in Procs : procs[p].pc \in MovePCs /\ procs[p].run = r}
JobsOf(r) == {j \in queue : RunOf(j) = r}
WaitersOf(r) == {i \in DOMAIN nodeRuns : nodeRuns[i].run = r /\ nodeRuns[i].status = "waiting"}

Single(S) == \A x, y \in S : x = y
Alone(A, B, C) ==
  /\ Single(A) /\ Single(B) /\ Single(C)
  /\ A # {} => B = {} /\ C = {}
  /\ B # {} => C = {}

OneNext == \A p \in Procs : procs[p].pc = "enqueue" => Single(procs[p].todo)
TokenInv == OneNext /\ \A r \in Runs : Alone(Movers(r), JobsOf(r), WaitersOf(r))

LEMMA AloneShrinks ==
  ASSUME NEW A, NEW B, NEW C, NEW D \in SUBSET A, NEW E \in SUBSET B, NEW F \in SUBSET C,
         Alone(A, B, C)
  PROVE  Alone(D, E, F)
  BY DEF Alone, Single

\* Run r's token is taken up or handed over by process p; the others stay.
LEMMA TokenMoves ==
  ASSUME TypeInv, TokenInv, NEW p \in Procs, NEW r \in Runs, OnlyProc(p),
         procs'[p].pc # "idle" => procs'[p].run = r,
         procs'[p].pc = "enqueue" => Single(procs'[p].todo),
         \A x \in Runs : x # r => JobsOf(x)' \subseteq JobsOf(x) /\ WaitersOf(x)' \subseteq WaitersOf(x),
         Alone(Movers(r), JobsOf(r), WaitersOf(r))'
  PROVE  TokenInv'
<1>1. OneNext'
  <2>1. \A q \in Procs : q # p => procs'[q] = procs[q]
    BY DEF OnlyProc
  <2>2. \A q \in Procs : procs'[q].pc = "enqueue" => Single(procs'[q].todo)
    BY <2>1 DEF TokenInv, OneNext
  <2> QED
    BY <2>2 DEF OneNext
<1>2. ASSUME NEW x \in Runs, x # r
      PROVE  Alone(Movers(x), JobsOf(x), WaitersOf(x))'
  <2>1. Movers(x)' \subseteq Movers(x)
    BY <1>2 DEF Movers, OnlyProc, MovePCs, HolderPCs
  <2>2. Alone(Movers(x), JobsOf(x), WaitersOf(x))
    BY DEF TokenInv
  <2> QED
    BY <1>2, <2>1, <2>2, AloneShrinks DEF Alone, Single
<1> QED
  BY <1>1, <1>2 DEF TokenInv

\* No token is made.
LEMMA TokenStays ==
  ASSUME TypeInv, TokenInv,
         \A q \in Procs : procs'[q].pc \in MovePCs =>
           procs[q].pc \in MovePCs /\ procs'[q].run = procs[q].run,
         \A q \in Procs : procs'[q].pc = "enqueue" =>
           \/ procs[q].pc = "enqueue" /\ procs'[q].todo \subseteq procs[q].todo
           \/ Single(procs'[q].todo),
         queue' \subseteq queue, SameNodes,
         \A i \in DOMAIN nodeRuns : nodeRuns'[i].status = "waiting" => nodeRuns[i].status = "waiting"
  PROVE  TokenInv'
<1>1. OneNext'
  <2>1. \A q \in Procs : procs'[q].pc = "enqueue" => Single(procs'[q].todo)
    BY DEF TokenInv, OneNext, Single
  <2> QED
    BY <2>1 DEF OneNext
<1>2. ASSUME NEW x \in Runs
      PROVE  Alone(Movers(x), JobsOf(x), WaitersOf(x))'
  <2>1. Movers(x)' \subseteq Movers(x)
    BY DEF Movers
  <2>2. JobsOf(x)' \subseteq JobsOf(x)
    BY Typed DEF JobsOf, RunOf, SameNodes
  <2>3. WaitersOf(x)' \subseteq WaitersOf(x)
    BY DEF WaitersOf, SameNodes
  <2>4. Alone(Movers(x), JobsOf(x), WaitersOf(x))
    BY DEF TokenInv
  <2> QED
    BY <2>1, <2>2, <2>3, <2>4, AloneShrinks DEF Alone, Single
<1> QED
  BY <1>1, <1>2 DEF TokenInv

\* A step of a process that makes no token.
LEMMA TokenGoes ==
  ASSUME TypeInv, TokenInv, NEW p \in Procs, queue' \subseteq queue, SameNodes,
         \/ Ends(p)
         \/ \E c \in PCs : /\ GoesOn(p, c) /\ (c \in MovePCs => procs[p].pc \in MovePCs)
                           /\ c = "enqueue" => Single(procs'[p].todo),
         \A i \in DOMAIN nodeRuns : nodeRuns'[i].status = "waiting" => nodeRuns[i].status = "waiting"
  PROVE  TokenInv'
<1>1. \A q \in Procs : q # p => procs'[q] = procs[q]
  BY DEF Ends, GoesOn, OnlyProc
<1>2. "idle" \notin MovePCs
  BY DEF MovePCs, HolderPCs
<1>3. /\ procs'[p].pc \in MovePCs => procs[p].pc \in MovePCs /\ procs'[p].run = procs[p].run
      /\ procs'[p].pc = "enqueue" => Single(procs'[p].todo)
  BY <1>2 DEF Ends, GoesOn
<1>4. \A q \in Procs : procs'[q].pc \in MovePCs =>
           procs[q].pc \in MovePCs /\ procs'[q].run = procs[q].run
  BY <1>1, <1>3
<1>5. \A q \in Procs : procs'[q].pc = "enqueue" =>
           \/ procs[q].pc = "enqueue" /\ procs'[q].todo \subseteq procs[q].todo
           \/ Single(procs'[q].todo)
  BY <1>1, <1>3
<1> QED
  BY <1>4, <1>5, TokenStays

LEMMA TokenDocs ==
  ASSUME TypeInv, TokenInv, NEW p \in Procs, DocsStay,
         \/ Ends(p)
         \/ \E c \in PCs : /\ GoesOn(p, c) /\ (c \in MovePCs => procs[p].pc \in MovePCs)
                           /\ c = "enqueue" => Single(procs'[p].todo)
  PROVE  TokenInv'
<1>1. /\ queue' \subseteq queue /\ SameNodes
      /\ \A i \in DOMAIN nodeRuns : nodeRuns'[i].status = "waiting" => nodeRuns[i].status = "waiting"
  BY DEF DocsStay, StatusesStay
<1> QED
  BY <1>1, TokenGoes

LEMMA TokenStatus ==
  ASSUME TypeInv, TokenInv, NEW p \in Procs, queue' \subseteq queue,
         NEW i, NEW s, GetsStatus(i, s), s # "waiting",
         \/ Ends(p)
         \/ \E c \in PCs : /\ GoesOn(p, c) /\ (c \in MovePCs => procs[p].pc \in MovePCs)
                           /\ c = "enqueue" => Single(procs'[p].todo)
  PROVE  TokenInv'
<1>1. /\ SameNodes
      /\ \A k \in DOMAIN nodeRuns : nodeRuns'[k].status = "waiting" => nodeRuns[k].status = "waiting"
  BY DEF GetsStatus
<1> QED
  BY <1>1, TokenGoes

LEMMA OneSuccessor ==
  ASSUME Unbranched, TypeInv, NEW p \in Procs, procs[p].pc = "context"
  PROVE  Single(Successors(p))
<1>1. NodeOf(p) \in Nodes
  BY KnownNodeRun DEF NodePCs, NodeOf
<1>2. FailureSuccessors(NodeOf(p)) \subseteq NextNodes(NodeOf(p), "failure")
  BY DEF FailureSuccessors, NextNodes
<1>3. "failure" \in Branches
  BY DEF Branches
<1>4. \A b \in Branches : Single(NextNodes(NodeOf(p), b))
  BY <1>1 DEF Unbranched, Single
<1> QED
  BY <1>2, <1>3, <1>4 DEF Successors, Single

\* All but three steps make no token.
LEMMA TokenPlain ==
  ASSUME TypeInv, Unbranched, TokenInv, NEW p \in Procs,
         \/ LoadJob(p) \/ MarkRunning(p) \/ CountExecution(p) \/ Execute(p)
         \/ ReadLiveStatus(p) \/ InterruptNodeRun(p) \/ ParkRun(p) \/ CompleteNodeRun(p)
         \/ UpdateContext(p) \/ CountOpen(p) \/ FinishRun(p) \/ FailRun(p) \/ ResumeRun(p)
  PROVE  TokenInv'
<1>1. CASE LoadJob(p)
  <2>1. /\ procs[p].pc = "load" /\ DocsStay
        /\ Ends(p) \/ \E c \in {"interrupt", "complete", "mark"} : GoesOn(p, c)
    BY <1>1, LoadShape
  <2> QED
    BY <2>1, TokenDocs DEF PCs, MovePCs, HolderPCs
<1>2. CASE MarkRunning(p)
  <2>1. procs[p].pc = "mark" /\ GoesOn(p, "count") /\ GetsStatus(procs[p].nr, "running")
        /\ queue' = queue
    BY <1>2, MarkShape
  <2> QED
    BY <2>1, TokenStatus DEF PCs, MovePCs, HolderPCs
<1>3. CASE CountExecution(p)
  BY <1>3, CountShape, TokenDocs DEF PCs, MovePCs, HolderPCs
<1>4. CASE Execute(p)
  BY <1>4, ExecuteShape, TokenDocs DEF Execute, DocsStay, PCs, MovePCs, HolderPCs
<1>5. CASE ReadLiveStatus(p)
  <2>1. /\ procs[p].pc = "live" /\ DocsStay
        /\ \E c \in {"interrupt", "wait", "complete"} : GoesOn(p, c)
    BY <1>5, LiveShape
  <2> QED
    BY <2>1, TokenDocs DEF PCs, MovePCs, HolderPCs
<1>6. CASE InterruptNodeRun(p)
  BY <1>6, InterruptShape, TokenStatus
<1>7. CASE ParkRun(p)
  <2>1. DocsStay /\ (Ends(p) \/ GoesOn(p, "interrupt"))
    BY <1>7, ParkShape
  <2> QED
    BY <2>1, TokenDocs DEF PCs, MovePCs, HolderPCs
<1>8. CASE CompleteNodeRun(p)
  <2>1. /\ procs[p].pc = "complete" /\ GetsStatus(procs[p].nr, Outcome(p))
        /\ Outcome(p) # "waiting" /\ queue' \subseteq queue
        /\ \/ GoesOn(p, "context") \/ GoesOn(p, "fail")
           \/ GoesOn(p, "enqueue") /\ procs'[p].todo = {NodeOf(p)}
    BY <1>8, CompleteShape DEF RemoveRun
  <2>2. Single({NodeOf(p)})
    BY DEF Single
  <2> QED
    BY <2>1, <2>2, TokenStatus DEF PCs, MovePCs, HolderPCs
<1>9. CASE UpdateContext(p)
  <2>1. /\ procs[p].pc = "context" /\ DocsStay
        /\ \/ Ends(p) \/ GoesOn(p, "open")
           \/ GoesOn(p, "enqueue") /\ procs'[p].todo = Successors(p)
    BY <1>9, ContextShape
  <2>2. Single(Successors(p))
    BY <2>1, OneSuccessor
  <2> QED
    BY <2>1, <2>2, TokenDocs DEF PCs, MovePCs, HolderPCs
<1>10. CASE CountOpen(p)
  <2>1. DocsStay /\ (Ends(p) \/ GoesOn(p, "finish"))
    BY <1>10, OpenShape
  <2> QED
    BY <2>1, TokenDocs DEF PCs, MovePCs, HolderPCs
<1>11. CASE FinishRun(p) \/ FailRun(p)
  BY <1>11, EndShape, TokenDocs
<1>12. CASE ResumeRun(p)
  <2>1. procs[p].pc = "resume" /\ DocsStay /\ (GoesOn(p, "interrupt") \/ GoesOn(p, "live"))
    BY <1>12, ResumeShape
  <2> QED
    BY <2>1, TokenDocs DEF PCs, MovePCs, HolderPCs
<1> QED
  BY <1>1, <1>2, <1>3, <1>4, <1>5, <1>6, <1>7, <1>8, <1>9, <1>10, <1>11, <1>12

\* A process that moves a run is its only token.
LEMMA MoverAlone ==
  ASSUME TypeInv, TokenInv, NEW p \in Procs, procs[p].pc \in MovePCs
  PROVE  /\ procs[p].run \in Runs
         /\ JobsOf(procs[p].run) = {} /\ WaitersOf(procs[p].run) = {}
         /\ \A q \in Procs : procs[q].pc \in MovePCs /\ procs[q].run = procs[p].run => q = p
<1>1. procs[p].run \in Runs
  BY BusyRun DEF MovePCs, HolderPCs
<1>2. p \in Movers(procs[p].run)
  BY DEF Movers
<1> QED
  BY <1>1, <1>2 DEF TokenInv, Alone, Single, Movers

LEMMA TokenSavesWaiting ==
  ASSUME TypeInv, TokenInv, NEW p \in Procs, SaveWaiting(p) PROVE TokenInv'
<1>1. /\ procs[p].pc = "wait" /\ GoesOn(p, "park") /\ GetsStatus(procs[p].nr, "waiting")
      /\ queue' = queue
  BY SaveWaitingShape
<1>2. PICK r \in Runs, i \in DOMAIN nodeRuns : r = procs[p].run /\ i = procs[p].nr
  BY <1>1, KnownNodeRun DEF NodePCs
<1>3. nodeRuns[i].run = r
  BY <1>1, <1>2, KnownNodeRun DEF NodePCs
<1>4. procs[p].pc \in MovePCs /\ "park" \notin MovePCs
  BY <1>1 DEF MovePCs, HolderPCs
<1>5. /\ JobsOf(r) = {} /\ WaitersOf(r) = {}
      /\ \A q \in Procs : procs[q].pc \in MovePCs /\ procs[q].run = r => q = p
  BY <1>2, <1>4, MoverAlone
<1>6. Movers(r)' = {}
  BY <1>1, <1>4, <1>5 DEF Movers, GoesOn, OnlyProc
<1>7. \A x \in Runs : JobsOf(x)' = JobsOf(x)
  BY <1>1, Typed DEF JobsOf, RunOf, GetsStatus, SameNodes
<1>8. WaitersOf(r)' \subseteq {i}
  BY <1>1, <1>2, <1>5 DEF WaitersOf, GetsStatus, SameNodes
<1>9. \A x \in Runs : x # r => WaitersOf(x)' \subseteq WaitersOf(x)
  BY <1>1, <1>2, <1>3 DEF WaitersOf, GetsStatus, SameNodes
<1>10. Alone(Movers(r), JobsOf(r), WaitersOf(r))'
  BY <1>5, <1>6, <1>7, <1>8 DEF Alone, Single
<1> QED
  BY <1>1, <1>2, <1>7, <1>9, <1>10, TokenMoves DEF GoesOn

LEMMA TokenEnqueues ==
  ASSUME TypeInv, TokenInv, NEW p \in Procs, EnqueueNext(p) PROVE TokenInv'
<1>1. procs[p].pc = "enqueue" /\ procs[p].run \in Runs
  BY EnqueueShape
<1>2. PICK r \in Runs : r = procs[p].run
  BY <1>1
<1>3. PICK n \in procs[p].todo :
        /\ Creates(r, n)
        /\ \/ GoesOn(p, "enqueue") /\ procs[p].todo # {n}
           \/ Ends(p)
           \/ GoesOn(p, "open")
  BY <1>2, EnqueueShape
<1>4. procs[p].todo = {n}
  BY <1>1 DEF TokenInv, OneNext, Single
<1>5. /\ procs[p].pc \in MovePCs /\ "open" \notin MovePCs /\ "idle" \notin MovePCs
  BY <1>1 DEF MovePCs, HolderPCs
<1>6. /\ JobsOf(r) = {} /\ WaitersOf(r) = {}
      /\ \A q \in Procs : procs[q].pc \in MovePCs /\ procs[q].run = r => q = p
  BY <1>2, <1>5, MoverAlone
<1>7. OnlyProc(p) /\ procs'[p].pc \in {"idle", "open"} /\ (procs'[p].pc # "idle" => procs'[p].run = r)
  BY <1>2, <1>3, <1>4 DEF Ends, GoesOn
<1>8. Movers(r)' = {}
  BY <1>5, <1>6, <1>7 DEF Movers, OnlyProc
<1>9. PICK i \in {NewNr} : TRUE
  OBVIOUS
<1>10. PICK x : x.nr = i /\ queue' = queue \cup {x}
  BY <1>3, <1>9 DEF Creates
<1>11. /\ i \notin DOMAIN nodeRuns /\ DOMAIN nodeRuns' = DOMAIN nodeRuns \cup {i}
       /\ \A k \in DOMAIN nodeRuns : nodeRuns'[k] = nodeRuns[k]
       /\ nodeRuns'[i].run = r /\ nodeRuns'[i].status = "queued"
  BY <1>3, <1>9 DEF Creates
<1>12. \A z \in Runs : WaitersOf(z)' = WaitersOf(z)
  BY <1>11 DEF WaitersOf
<1>13. JobsOf(r)' \subseteq {x}
  BY <1>6, <1>10, <1>11, Typed DEF JobsOf, RunOf
<1>14. \A z \in Runs : z # r => JobsOf(z)' \subseteq JobsOf(z)
  BY <1>10, <1>11, Typed DEF JobsOf, RunOf
<1>15. Alone(Movers(r), JobsOf(r), WaitersOf(r))'
  BY <1>6, <1>8, <1>12, <1>13 DEF Alone, Single
<1> QED
  BY <1>7, <1>12, <1>14, <1>15, TokenMoves

LEMMA TokenDispatches ==
  ASSUME TypeInv, TokenInv, NEW p \in Workers, DispatchJob(p) PROVE TokenInv'
<1>1. p \in Procs
  BY WorkersAreProcs
<1>2. procs[p].pc = "idle" /\ OnlyProc(p) /\ StatusesStay
  BY DispatchShape
<1>3. PICK j \in queue : /\ queue' = queue \ {j} /\ procs'[p].pc = "load"
                         /\ procs'[p].nr = j.nr /\ procs'[p].run = RunOf(j)
  BY DispatchShape
<1>4. PICK r \in Runs : r = RunOf(j)
  BY Typed, NodeRunFacts DEF RunOf
<1>5. JobsOf(r) = {j} /\ Movers(r) = {} /\ WaitersOf(r) = {}
  <2>1. j \in JobsOf(r)
    BY <1>4 DEF JobsOf
  <2> QED
    BY <2>1 DEF TokenInv, Alone, Single
<1>6. \A x \in Runs : JobsOf(x)' = JobsOf(x) \ {j} /\ WaitersOf(x)' = WaitersOf(x)
  BY <1>2, <1>3, Typed DEF JobsOf, RunOf, WaitersOf, StatusesStay, SameNodes
<1>7. Movers(r)' \subseteq {p}
  BY <1>2, <1>5 DEF Movers, OnlyProc
<1>8. Alone(Movers(r), JobsOf(r), WaitersOf(r))'
  BY <1>5, <1>6, <1>7 DEF Alone, Single
<1> QED
  BY <1>1, <1>2, <1>3, <1>4, <1>6, <1>8, TokenMoves

LEMMA TokenClaims ==
  ASSUME TypeInv, TokenInv, NEW h \in Handlers, NEW i \in DOMAIN nodeRuns, NEW res,
         ClaimWaiting(h, i, res), nodeRuns[i].status = "waiting", queue' = queue
  PROVE  TokenInv'
<1>1. h \in Procs
  BY HandlersAreProcs
<1>2. /\ procs[h].pc = "idle" /\ OnlyProc(h) /\ GetsStatus(i, "running")
      /\ procs'[h].pc = "resume" /\ procs'[h].run = nodeRuns[i].run
  BY ClaimShape, WakeShape
<1>3. PICK r \in Runs : r = nodeRuns[i].run
  BY Typed, NodeRunFacts
<1>4. JobsOf(r) = {} /\ Movers(r) = {} /\ WaitersOf(r) = {i}
  <2>1. i \in WaitersOf(r)
    BY <1>3 DEF WaitersOf
  <2> QED
    BY <2>1 DEF TokenInv, Alone, Single
<1>5. \A x \in Runs : JobsOf(x)' = JobsOf(x) /\ WaitersOf(x)' = WaitersOf(x) \ {i}
  BY <1>2, Typed DEF JobsOf, RunOf, WaitersOf, GetsStatus, SameNodes
<1>6. Movers(r)' \subseteq {h}
  BY <1>2, <1>4 DEF Movers, OnlyProc
<1>7. Alone(Movers(r), JobsOf(r), WaitersOf(r))'
  BY <1>4, <1>5, <1>6 DEF Alone, Single
<1> QED
  BY <1>1, <1>2, <1>3, <1>5, <1>7, TokenMoves

LEMMA TokenStarts ==
  ASSUME TypeInv, WorkIsStarted, TokenInv, NEW p \in Procs, NEW r \in Runs, Starts(p, r),
         Single(procs'[p].todo)
  PROVE  TokenInv'
<1>1. OnlyProc(p) /\ StatusesStay /\ queue' = queue /\ procs'[p].run = r /\ ~Started(r)
  BY DEF Starts, DocsStay
<1>2. /\ \A q \in Procs : procs[q].pc # "idle" => procs[q].run # r
      /\ \A i \in DOMAIN nodeRuns : nodeRuns[i].run # r
  BY <1>1 DEF WorkIsStarted
<1>3. "idle" \notin MovePCs
  BY DEF MovePCs, HolderPCs
<1>4. JobsOf(r) = {} /\ Movers(r) = {} /\ WaitersOf(r) = {}
  BY <1>2, <1>3, Typed DEF JobsOf, RunOf, Movers, WaitersOf
<1>5. \A x \in Runs : JobsOf(x)' = JobsOf(x) /\ WaitersOf(x)' = WaitersOf(x)
  BY <1>1, Typed DEF JobsOf, RunOf, WaitersOf, StatusesStay, SameNodes
<1>6. Movers(r)' \subseteq {p}
  BY <1>1, <1>4 DEF Movers, OnlyProc
<1>7. Alone(Movers(r), JobsOf(r), WaitersOf(r))'
  BY <1>4, <1>5, <1>6 DEF Alone, Single
<1> QED
  BY <1>1, <1>5, <1>7, TokenMoves

LEMMA TokenRests ==
  ASSUME TypeInv, TokenInv, DocsStay, NEW p \in Procs, OnlyProc(p),
         procs'[p].pc \notin MovePCs
  PROVE  TokenInv'
<1>1. "enqueue" \in MovePCs
  BY DEF MovePCs
<1>2. \A q \in Procs : procs'[q].pc \in MovePCs => procs'[q] = procs[q]
  BY DEF OnlyProc
<1>3. /\ queue' \subseteq queue /\ SameNodes
      /\ \A i \in DOMAIN nodeRuns : nodeRuns'[i].status = "waiting" => nodeRuns[i].status = "waiting"
  BY DEF DocsStay, StatusesStay
<1> QED
  BY <1>1, <1>2, <1>3, TokenStays

LEMMA TokenIdles ==
  ASSUME TypeInv, TokenInv, DocsStay, procs' = procs PROVE TokenInv'
<1>1. /\ queue' \subseteq queue /\ SameNodes
      /\ \A i \in DOMAIN nodeRuns : nodeRuns'[i].status = "waiting" => nodeRuns[i].status = "waiting"
  BY DEF DocsStay, StatusesStay
<1> QED
  BY <1>1, TokenStays

LEMMA TokenCloses ==
  ASSUME TypeInv, TokenInv, NEW p \in Procs, CloseNodeRuns(p) PROVE TokenInv'
<1> DEFINE C == {i \in DOMAIN nodeRuns : nodeRuns[i].run = procs[p].run
                                         /\ nodeRuns[i].status \in OpenNodeRun}
<1>1. /\ procs'[p].pc = "idle"
      /\ \A q \in Procs : q # p =>
           /\ procs'[q].pc = procs[q].pc /\ procs'[q].run = procs[q].run
           /\ procs'[q].todo = procs[q].todo
      /\ Interrupts(C)
  BY CloseShape
<1>2. queue' \subseteq queue
  BY DEF CloseNodeRuns, RemoveRun
<1>3. /\ SameNodes
      /\ \A i \in DOMAIN nodeRuns : nodeRuns'[i].status = "waiting" => nodeRuns[i].status = "waiting"
  BY <1>1 DEF Interrupts
<1>4. "idle" \notin MovePCs
  BY DEF MovePCs, HolderPCs
<1>5. \A q \in Procs : procs'[q].pc \in MovePCs =>
           procs[q].pc \in MovePCs /\ procs'[q].run = procs[q].run
  BY <1>1, <1>4
<1>6. \A q \in Procs : procs'[q].pc = "enqueue" =>
           procs[q].pc = "enqueue" /\ procs'[q].todo \subseteq procs[q].todo
  BY <1>1
<1> QED
  BY <1>2, <1>3, <1>5, <1>6, TokenStays

LEMMA TokenStep ==
  ASSUME TypeInv, WorkIsStarted, Unbranched, TokenInv, NEW p \in Procs, Step(p) PROVE TokenInv'
<1>1. CASE SpawnRetry(p)
  <2>1. CASE Ends(p) /\ DocsStay
    BY <2>1, TokenDocs
  <2>2. ASSUME NEW c \in Runs, NEW n \in Nodes, Starts(p, c), procs'[p].todo = {n}
        PROVE  TokenInv'
    BY <2>2, TokenStarts DEF Single
  <2> QED
    BY <1>1, <2>1, <2>2, SpawnShape
<1> QED
  BY <1>1, TokenPlain, TokenSavesWaiting, TokenEnqueues, TokenCloses DEF Step

LEMMA TokenNext ==
  ASSUME TypeInv, WorkIsStarted, UpInv, Unbranched, OneTrigger, TokenInv, [Next]_vars, NoFault
  PROVE  TokenInv'
<1>1. CASE UNCHANGED vars
  BY <1>1, UnchangedStay, TokenIdles DEF vars, memory, DocsStay
<1>2. ASSUME NEW h \in Handlers, NEW e \in queuedEvents, HandleRunQueued(h, e[1], e[2])
      PROVE  TokenInv'
  <2>1. e[1] \in Runs /\ h \in Procs
    BY HandlersAreProcs DEF TypeInv, TypeOK
  <2>2. Single(Triggers)
    BY DEF OneTrigger, Single
  <2> QED
    BY <1>2, <2>1, <2>2, RunQueuedShape, TokenIdles, TokenStarts
<1>3. ASSUME NEW h \in Handlers, NEW e \in questionEvents, HandleQuestion(h, e) PROVE TokenInv'
  <2>1. e.nr \in DOMAIN nodeRuns
    BY DEF TypeInv, References
  <2>2. CASE UNCHANGED <<nodeRuns, procs>>
    BY <1>3, <2>2, UnchangedStay, TokenIdles DEF HandleQuestion, DocsStay
  <2>3. ASSUME NEW res, ClaimWaiting(h, e.nr, res), nodeRuns[e.nr].status = "waiting" PROVE TokenInv'
    BY <1>3, <2>1, <2>3, TokenClaims DEF HandleQuestion
  <2> QED
    BY <1>3, <2>2, <2>3 DEF HandleQuestion
<1>4. ASSUME NEW h \in Handlers, NEW i \in DOMAIN nodeRuns, ResumeDelayedNode(h, i) PROVE TokenInv'
  BY <1>4, TokenClaims DEF ResumeDelayedNode
<1>5. ASSUME NEW p \in Procs, Step(p) PROVE TokenInv'
  BY <1>5, TokenStep
<1>6. ASSUME NEW r \in Runs, StartRun(r) PROVE TokenInv'
  BY <1>6, UnchangedStay, TokenIdles DEF StartRun, DocsStay
<1>7. ASSUME NEW h \in Handlers, NEW r \in Runs, CancelRun(h, r) \/ ClaimRetry(h, r) PROVE TokenInv'
  <2>1. /\ OnlyProc(h) /\ DocsStay /\ procs'[h].pc \in {"close", "spawn"} /\ h \in Procs
    BY <1>7, RequestShape, HandlersAreProcs
  <2> QED
    BY <2>1, TokenRests DEF MovePCs, HolderPCs
<1>8. CASE Answering
  BY <1>8, AnsweringStays, TokenIdles
<1>9. Users \/ (\E i \in DOMAIN nodeRuns, k \in 1..MaxAnswers : SaveAnswer(i, k))
        \/ (\E i \in DOMAIN nodeRuns : OpenExpiry(i) \/ SaveExpiry(i)) =>
      \/ \E r \in Runs : StartRun(r)
      \/ \E h \in Handlers, r \in Runs : CancelRun(h, r) \/ ClaimRetry(h, r)
      \/ Answering
  BY DEF Users, Answering
<1> QED
  BY <1>1, <1>2, <1>3, <1>4, <1>5, <1>6, <1>7, <1>8, <1>9, TokenDispatches, Undisturbed DEF Next

-----------------------------------------------------------------------------
(* Whatever is open of a cancelled run is looked at once more. *)

Sequential == OneTrigger /\ (NeverWaits \/ Unbranched)

Closing(r) == \E p \in Procs : procs[p].pc = "close" /\ procs[p].run = r

TouchPCs == {"load", "mark", "count", "exec", "live", "wait", "park", "complete", "interrupt",
             "resume"}
Touches(p, i) == procs[p].pc \in TouchPCs /\ procs[p].nr = i
Looked(i) == HasOwnJob(i) \/ \E p \in Procs : Touches(p, i)
Completing(p, r) == procs[p].pc = "complete" /\ procs[p].run = r

\* An unhandled failure takes the run's jobs away: none may be open by then.
WindsUp(r) ==
  /\ \A i \in NodeRunsOf(r) : Open(i) => Looked(i)
  /\ \A p \in Procs : Completing(p, r) => JobsOf(r) = {}

CancelInv == \A r \in Runs : runs[r].status = "cancelled" /\ ~Closing(r) => WindsUp(r)

NoneCancelled == \A r \in Runs : runs'[r].status = "cancelled" => runs[r].status = "cancelled"

LEMMA CancelKept ==
  ASSUME TypeInv, CancelInv, NEW p \in Procs, OnlyProc(p), procs[p].pc # "close",
         \A r \in Runs : runs'[r].status = "cancelled" =>
           runs[r].status = "cancelled" \/ (procs'[p].pc = "close" /\ procs'[p].run = r),
         SameNodes, queue' \subseteq queue,
         \A i \in DOMAIN nodeRuns : Open(i)' => Open(i) \/ Touches(p, i)',
         \A j \in queue : \A r \in Runs : RunOf(j) = r /\ runs[r].status = "cancelled" =>
           j \in queue' \/ Touches(p, j.nr)' \/ \E q \in Procs : Completing(q, r),
         \A i \in DOMAIN nodeRuns : \A r \in Runs :
           Touches(p, i) /\ nodeRuns[i].run = r /\ runs[r].status = "cancelled" =>
             Touches(p, i)' \/ ~Open(i)',
         \A r \in Runs : Completing(p, r)' /\ runs[r].status = "cancelled" => Completing(p, r)
  PROVE  CancelInv'
<1> SUFFICES ASSUME NEW r \in Runs, runs'[r].status = "cancelled", ~Closing(r)'
             PROVE  WindsUp(r)'
  BY DEF CancelInv
<1>1. \A q \in Procs : q # p => procs'[q] = procs[q]
  BY DEF OnlyProc
<1>2. runs[r].status = "cancelled" /\ ~Closing(r)
  BY <1>1 DEF Closing
<1>3. WindsUp(r)
  BY <1>2 DEF CancelInv
<1>4. ASSUME NEW i \in DOMAIN nodeRuns, nodeRuns[i].run = r, Open(i)' PROVE Looked(i)'
  <2>1. CASE Touches(p, i)'
    BY <2>1 DEF Looked
  <2>2. CASE ~Touches(p, i)'
    <3>1. Looked(i)
      BY <1>3, <1>4, <2>2 DEF WindsUp, NodeRunsOf
    <3>2. ASSUME NEW j \in queue, j.nr = i PROVE Looked(i)'
      <4>1. RunOf(j) = r /\ j \in JobsOf(r)
        BY <1>4, <3>2 DEF RunOf, JobsOf
      <4>2. j \in queue'
        BY <1>2, <1>3, <2>2, <3>2, <4>1 DEF WindsUp
      <4> QED
        BY <3>2, <4>2 DEF Looked, HasOwnJob
    <3>3. ASSUME NEW q \in Procs, Touches(q, i) PROVE Looked(i)'
      <4>1. q # p
        BY <1>2, <1>4, <2>2, <3>3
      <4>2. Touches(q, i)'
        BY <1>1, <3>3, <4>1 DEF Touches
      <4> QED
        BY <4>2 DEF Looked
    <3> QED
      BY <3>1, <3>2, <3>3 DEF Looked, HasOwnJob
  <2> QED
    BY <2>1, <2>2
<1>5. ASSUME NEW q \in Procs, Completing(q, r)' PROVE JobsOf(r)' = {}
  <2>1. Completing(q, r)
    BY <1>1, <1>2, <1>5 DEF Completing
  <2>2. JobsOf(r)' \subseteq JobsOf(r)
    BY Typed DEF JobsOf, RunOf, SameNodes
  <2> QED
    BY <1>3, <2>1, <2>2 DEF WindsUp
<1> QED
  BY <1>4, <1>5 DEF WindsUp, NodeRunsOf, SameNodes

\* Where documents and jobs stay,
LEMMA CancelDocs ==
  ASSUME TypeInv, CancelInv, NEW p \in Procs, DocsStay, NoneCancelled, procs[p].pc # "close",
         NEW c, GoesOn(p, c) \/ (Ends(p) /\ c = "idle"),
         \A r \in Runs : procs[p].run = r /\ runs[r].status = "cancelled" =>
           /\ c # "complete"
           /\ procs[p].pc \in TouchPCs => c \in TouchPCs \/ ~Open(procs[p].nr)
  PROVE  CancelInv'
<1>1. SameNodes /\ queue' = queue /\ \A i \in DOMAIN nodeRuns : Open(i)' <=> Open(i)
  BY DEF DocsStay, StatusesStay, Open
<1>2. OnlyProc(p) /\ procs'[p].pc = c
  BY DEF GoesOn, Ends
<1>3. \A i \in DOMAIN nodeRuns : \A r \in Runs :
           Touches(p, i) /\ nodeRuns[i].run = r /\ runs[r].status = "cancelled" =>
             Touches(p, i)' \/ ~Open(i)'
  <2> SUFFICES ASSUME NEW i \in DOMAIN nodeRuns, NEW r \in Runs,
                      Touches(p, i), nodeRuns[i].run = r, runs[r].status = "cancelled"
               PROVE  Touches(p, i)' \/ ~Open(i)'
    OBVIOUS
  <2>1. procs[p].run = r
    <3>1. procs[p].pc \in NodePCs
      BY DEF Touches, TouchPCs, NodePCs
    <3> QED
      BY <3>1, KnownNodeRun DEF Touches
  <2>2. "idle" \notin TouchPCs
    BY DEF TouchPCs
  <2>3. c \in TouchPCs \/ ~Open(i)
    BY <2>1 DEF Touches
  <2> QED
    BY <1>1, <2>2, <2>3 DEF Touches, GoesOn, Ends
<1>4. \A r \in Runs : Completing(p, r)' /\ runs[r].status = "cancelled" => Completing(p, r)
  BY DEF Completing, GoesOn, Ends
<1> QED
  BY <1>1, <1>2, <1>3, <1>4, CancelKept DEF NoneCancelled

\* and where a process gives its NodeRun a status.
LEMMA CancelStatus ==
  ASSUME TypeInv, CancelInv, NEW p \in Procs, procs[p].pc \in NodePCs,
         NEW s, GetsStatus(procs[p].nr, s), runs' = runs,
         NEW c, c # "complete", GoesOn(p, c) \/ (Ends(p) /\ c = "idle"),
         s \in OpenNodeRun => c \in TouchPCs,
         queue' = queue \/ (procs[p].pc = "complete" /\ RemoveRun(procs[p].run))
  PROVE  CancelInv'
<1>1. SameNodes /\ queue' \subseteq queue
  BY DEF GetsStatus, RemoveRun
<1>2. OnlyProc(p) /\ procs'[p].pc = c /\ procs[p].pc # "close"
  BY DEF GoesOn, Ends, NodePCs
<1>3. "idle" \notin TouchPCs
  BY DEF TouchPCs
<1>4. PICK k \in DOMAIN nodeRuns : k = procs[p].nr
  BY KnownNodeRun
<1>5. \A i \in DOMAIN nodeRuns :
        Open(i)' <=> IF i = k THEN s \in OpenNodeRun ELSE Open(i)
  BY <1>4 DEF GetsStatus, Open
<1>6. s \in OpenNodeRun => Touches(p, k)'
  BY <1>3, <1>4 DEF Touches, GoesOn, Ends
<1>7. \A i \in DOMAIN nodeRuns : Open(i)' => Open(i) \/ Touches(p, i)'
  BY <1>5, <1>6
<1>8. \A i \in DOMAIN nodeRuns : Touches(p, i) => Touches(p, i)' \/ ~Open(i)'
  BY <1>4, <1>5, <1>6 DEF Touches
<1>9. \A j \in queue : \A r \in Runs : RunOf(j) = r /\ runs[r].status = "cancelled" =>
           j \in queue' \/ \E q \in Procs : Completing(q, r)
  BY DEF RemoveRun, RunOf, Completing
<1>10. \A r \in Runs : ~Completing(p, r)'
  BY <1>2 DEF Completing
<1> QED
  BY <1>1, <1>2, <1>7, <1>8, <1>9, <1>10, CancelKept

LEMMA SetUncancelled ==
  ASSUME TypeInv, NEW r \in Runs, NEW s \in RunStatus \ {"cancelled"}, SetRun(r, s)
  PROVE  NoneCancelled
<1>1. runs \in [Runs -> RunType] /\ s \in RunStatus
  BY DEF TypeInv, TypeOK
<1>2. /\ \A x \in Runs : x # r => runs'[x] = runs[x]
      /\ runs'[r] = [runs[r] EXCEPT !.status = s]
  BY <1>1, SetRunFacts
<1>3. runs'[r].status = s
  BY <1>1, <1>2 DEF RunType
<1> QED
  BY <1>2, <1>3 DEF NoneCancelled

LEMMA SameUncancelled == runs' = runs => NoneCancelled
  BY DEF NoneCancelled

\* Nothing happens, or a process begins.
LEMMA CancelBegins ==
  ASSUME TypeInv, CancelInv, DocsStay, NEW p \in Procs, OnlyProc(p),
         procs[p].pc \notin TouchPCs \cup {"close"}, procs'[p].pc # "complete",
         \A r \in Runs : runs'[r].status = "cancelled" =>
           runs[r].status = "cancelled" \/ (procs'[p].pc = "close" /\ procs'[p].run = r)
  PROVE  CancelInv'
<1>1. SameNodes /\ queue' = queue /\ \A i \in DOMAIN nodeRuns : Open(i)' <=> Open(i)
  BY DEF DocsStay, StatusesStay, Open
<1>2. /\ \A i \in DOMAIN nodeRuns : ~Touches(p, i)
      /\ \A r \in Runs : ~Completing(p, r)'
  BY DEF Touches, Completing
<1> QED
  BY <1>1, <1>2, CancelKept

LEMMA CancelIdles ==
  ASSUME TypeInv, CancelInv, DocsStay, procs' = procs, NoneCancelled PROVE CancelInv'
<1> SUFFICES ASSUME NEW r \in Runs, runs'[r].status = "cancelled", ~Closing(r)'
             PROVE  WindsUp(r)'
  BY DEF CancelInv
<1>1. WindsUp(r)
  BY DEF CancelInv, NoneCancelled, Closing
<1>2. SameNodes /\ queue' = queue /\ \A i \in DOMAIN nodeRuns : Open(i)' <=> Open(i)
  BY DEF DocsStay, StatusesStay, Open
<1>3. NodeRunsOf(r)' = NodeRunsOf(r) /\ JobsOf(r)' = JobsOf(r)
  BY <1>2, Typed DEF NodeRunsOf, JobsOf, RunOf, SameNodes
<1>4. \A i \in DOMAIN nodeRuns : Looked(i) => Looked(i)'
  BY <1>2 DEF Looked, HasOwnJob, Touches
<1>5. \A p \in Procs : Completing(p, r)' <=> Completing(p, r)
  BY DEF Completing
<1> QED
  BY <1>1, <1>2, <1>3, <1>4, <1>5 DEF WindsUp, NodeRunsOf

\* The steps that neither create, close nor begin anything.
LEMMA CancelPlain ==
  ASSUME TypeInv, CancelInv, NEW p \in Procs,
         \/ LoadJob(p) \/ MarkRunning(p) \/ CountExecution(p) \/ Execute(p)
         \/ ReadLiveStatus(p) \/ InterruptNodeRun(p) \/ SaveWaiting(p) \/ ParkRun(p)
         \/ CompleteNodeRun(p) \/ UpdateContext(p) \/ CountOpen(p) \/ FinishRun(p)
         \/ FailRun(p) \/ ResumeRun(p)
  PROVE  CancelInv'
<1>1. /\ {"load", "mark", "count", "exec", "live", "wait", "park", "complete", "interrupt",
          "resume"} = TouchPCs
      /\ \A r : runs[r].status = "cancelled" => Ended(r) /\ runs[r].status # "running"
  BY DEF TouchPCs, Ended, TerminalRun
<1>2. CASE LoadJob(p)
  <2>1. /\ procs[p].pc = "load" /\ DocsStay /\ runs' = runs
        /\ \/ GoesOn(p, "interrupt")
           \/ Ends(p) /\ ~ (Ended(procs[p].run) /\ Open(procs[p].nr))
           \/ runs[procs[p].run].status = "running" /\ GoesOn(p, "complete")
           \/ runs[procs[p].run].status = "running" /\ GoesOn(p, "mark")
    BY <1>2, LoadShape
  <2> QED
    BY <1>1, <2>1, SameUncancelled, CancelDocs
<1>3. CASE MarkRunning(p)
  <2>1. procs[p].pc = "mark" /\ GoesOn(p, "count") /\ GetsStatus(procs[p].nr, "running")
        /\ queue' = queue /\ runs' = runs
    BY <1>3, MarkShape
  <2> QED
    BY <1>1, <2>1, CancelStatus DEF NodePCs
<1>4. CASE CountExecution(p)
  <2>1. procs[p].pc = "count" /\ GoesOn(p, "exec") /\ DocsStay
    BY <1>4, CountShape
  <2>2. NoneCancelled
    BY <1>4 DEF TypeInv, TypeOK, CountExecution, NoneCancelled, RunType
  <2> QED
    BY <1>1, <2>1, <2>2, CancelDocs
<1>5. CASE Execute(p)
  <2>1. procs[p].pc = "exec" /\ GoesOn(p, "live") /\ DocsStay /\ runs' = runs
    BY <1>5, ExecuteShape DEF Execute, DocsStay
  <2> QED
    BY <1>1, <2>1, SameUncancelled, CancelDocs
<1>6. CASE ReadLiveStatus(p)
  <2>1. /\ procs[p].pc = "live" /\ DocsStay /\ runs' = runs
        /\ \/ GoesOn(p, "interrupt") \/ GoesOn(p, "wait")
           \/ ~Ended(procs[p].run) /\ GoesOn(p, "complete")
    BY <1>6, LiveShape
  <2> QED
    BY <1>1, <2>1, SameUncancelled, CancelDocs
<1>7. CASE InterruptNodeRun(p)
  <2>1. procs[p].pc = "interrupt" /\ Ends(p) /\ GetsStatus(procs[p].nr, "interrupted")
        /\ queue' = queue /\ runs' = runs
    BY <1>7, InterruptShape
  <2>2. procs[p].pc \in NodePCs /\ "interrupted" \notin OpenNodeRun
    BY <2>1 DEF NodePCs, OpenNodeRun
  <2>3. \E c : c = "idle" /\ c # "complete"
    OBVIOUS
  <2> QED
    BY <2>1, <2>2, <2>3, CancelStatus
<1>8. CASE SaveWaiting(p)
  <2>1. procs[p].pc = "wait" /\ GoesOn(p, "park") /\ GetsStatus(procs[p].nr, "waiting")
        /\ queue' = queue /\ runs' = runs
    BY <1>8, SaveWaitingShape
  <2> QED
    BY <1>1, <2>1, CancelStatus DEF NodePCs
<1>9. CASE ParkRun(p)
  <2>1. /\ procs[p].pc = "park" /\ DocsStay
        /\ GoesOn(p, "interrupt") \/ (Ends(p) /\ ~Ended(procs[p].run))
    BY <1>9, ParkShape
  <2>2. NoneCancelled
    <3>1. procs[p].run \in Runs
      BY <2>1, BusyRun
    <3>2. runs' = runs \/ \E s \in WaitingRun : SetRun(procs[p].run, s)
      BY <1>9 DEF ParkRun, WaitingRun
    <3> QED
      BY <3>1, <3>2, SameUncancelled, SetUncancelled DEF WaitingRun, RunStatus
  <2> QED
    BY <1>1, <2>1, <2>2, CancelDocs
<1>10. CASE CompleteNodeRun(p)
  <2>1. /\ procs[p].pc = "complete" /\ runs' = runs /\ GetsStatus(procs[p].nr, Outcome(p))
        /\ Outcome(p) \notin OpenNodeRun
        /\ queue' = queue \/ RemoveRun(procs[p].run)
        /\ \E c \in {"context", "enqueue", "fail"} : GoesOn(p, c)
    BY <1>10, CompleteShape DEF OpenNodeRun
  <2> QED
    BY <2>1, CancelStatus DEF NodePCs
<1>11. CASE UpdateContext(p)
  <2>1. /\ procs[p].pc = "context" /\ DocsStay /\ runs' = runs
        /\ Ends(p) \/ GoesOn(p, "open") \/ GoesOn(p, "enqueue")
    BY <1>11, ContextShape
  <2> QED
    BY <2>1, SameUncancelled, CancelDocs DEF TouchPCs
<1>12. CASE CountOpen(p)
  <2>1. /\ procs[p].pc = "open" /\ DocsStay /\ runs' = runs
        /\ Ends(p) \/ GoesOn(p, "finish")
    BY <1>12, OpenShape
  <2> QED
    BY <2>1, SameUncancelled, CancelDocs DEF TouchPCs
<1>13. CASE FinishRun(p) \/ FailRun(p)
  <2>1. procs[p].pc \in {"finish", "fail"} /\ DocsStay /\ Ends(p)
    BY <1>13, EndShape
  <2>2. NoneCancelled
    <3>1. procs[p].run \in Runs
      BY <2>1, BusyRun
    <3>2. runs' = runs \/ \E s \in {"succeeded", "failed"} : SetRun(procs[p].run, s)
      BY <1>13 DEF FinishRun, FailRun
    <3> QED
      BY <3>1, <3>2, SameUncancelled, SetUncancelled DEF TerminalRun, RunStatus
  <2> QED
    BY <2>1, <2>2, CancelDocs DEF TouchPCs
<1>14. CASE ResumeRun(p)
  <2>1. procs[p].pc = "resume" /\ DocsStay /\ (GoesOn(p, "interrupt") \/ GoesOn(p, "live"))
    BY <1>14, ResumeShape
  <2>2. NoneCancelled
    <3>1. procs[p].run \in Runs
      BY <2>1, BusyRun
    <3>2. runs' = runs \/ SetRun(procs[p].run, "running")
      BY <1>14 DEF ResumeRun
    <3> QED
      BY <3>1, <3>2, SameUncancelled, SetUncancelled DEF RunStatus
  <2> QED
    BY <1>1, <2>1, <2>2, CancelDocs
<1> QED
  BY <1>2, <1>3, <1>4, <1>5, <1>6, <1>7, <1>8, <1>9, <1>10, <1>11, <1>12, <1>13, <1>14

\* No process gives up a run's jobs while another adds to them.
LEMMA NoOther ==
  ASSUME TypeInv, NEW p \in Procs, NEW q \in Procs,
         procs[p].pc = "complete", procs[q].pc = "enqueue", procs[p].run = procs[q].run,
         (LockInv /\ SoloInv) \/ TokenInv
  PROVE  FALSE
<1>1. p # q
  OBVIOUS
<1>2. CASE LockInv /\ SoloInv
  <2>1. p \in Workers
    BY <1>2 DEF SoloInv, HoldsInv, HandlerInv, Procs
  <2>2. q \in Workers \/ (q \in Handlers /\ procs[q].pc \in StartPCs)
    BY DEF Procs, StartPCs
  <2> QED
    BY <1>1, <1>2, <2>1, <2>2, WorksAlone
<1>3. CASE TokenInv
  BY <1>1, <1>3, MoverAlone DEF MovePCs, HolderPCs
<1> QED
  BY <1>2, <1>3

LEMMA CancelEnqueues ==
  ASSUME TypeInv, CancelInv, NEW p \in Procs, EnqueueNext(p), (LockInv /\ SoloInv) \/ TokenInv
  PROVE  CancelInv'
<1>1. procs[p].pc = "enqueue" /\ runs' = runs /\ procs[p].run \in Runs
  BY EnqueueShape
<1>2. PICK r \in Runs : r = procs[p].run
  BY <1>1
<1>3. PICK n \in procs[p].todo : /\ Creates(r, n)
                                 /\ GoesOn(p, "enqueue") \/ Ends(p) \/ GoesOn(p, "open")
  BY <1>2, EnqueueShape
<1>4. PICK i \in {NewNr} : TRUE
  OBVIOUS
<1>5. PICK x : x.nr = i /\ queue' = queue \cup {x}
  BY <1>3, <1>4 DEF Creates
<1>6. /\ i \notin DOMAIN nodeRuns /\ DOMAIN nodeRuns' = DOMAIN nodeRuns \cup {i}
      /\ \A k \in DOMAIN nodeRuns : nodeRuns'[k] = nodeRuns[k]
      /\ nodeRuns'[i].run = r
  BY <1>3, <1>4 DEF Creates
<1>7. /\ \A q \in Procs : q # p => procs'[q] = procs[q]
      /\ procs'[p].pc \in {"idle", "enqueue", "open"}
  BY <1>3 DEF Ends, GoesOn, OnlyProc
<1> SUFFICES ASSUME NEW z \in Runs, runs[z].status = "cancelled", ~Closing(z)'
             PROVE  WindsUp(z)'
  BY <1>1 DEF CancelInv
<1>8. WindsUp(z)
  <2>1. ~Closing(z)
    BY <1>1, <1>7 DEF Closing
  <2> QED
    BY <2>1 DEF CancelInv
<1>9. ASSUME NEW k \in DOMAIN nodeRuns', nodeRuns'[k].run = z, Open(k)' PROVE Looked(k)'
  <2>1. CASE k = i
    <3>1. x \in queue'
      BY <1>5
    <3> QED
      BY <1>5, <2>1, <3>1 DEF Looked, HasOwnJob
  <2>2. CASE k \in DOMAIN nodeRuns
    <3>1. Looked(k)
      BY <1>6, <1>8, <1>9, <2>2 DEF WindsUp, NodeRunsOf, Open
    <3>2. HasOwnJob(k) => HasOwnJob(k)'
      BY <1>5 DEF HasOwnJob
    <3>3. \A q \in Procs : Touches(q, k) => Touches(q, k)'
      BY <1>1, <1>7 DEF Touches, TouchPCs
    <3> QED
      BY <3>1, <3>2, <3>3 DEF Looked
  <2> QED
    BY <1>6, <2>1, <2>2
<1>10. ASSUME NEW q \in Procs, Completing(q, z)' PROVE JobsOf(z)' = {}
  <2>1. Completing(q, z)
    BY <1>7, <1>10 DEF Completing
  <2>2. z # r
    BY <1>1, <1>2, <2>1, NoOther DEF Completing
  <2>3. JobsOf(z)' \subseteq JobsOf(z)
    BY <1>5, <1>6, <2>2, Typed DEF JobsOf, RunOf
  <2> QED
    BY <1>8, <2>1, <2>3 DEF WindsUp
<1> QED
  BY <1>9, <1>10 DEF WindsUp, NodeRunsOf

\* A cancellation leaves nothing of its run open and no job of it.
LEMMA CancelCloses ==
  ASSUME TypeInv, CancelInv, NEW p \in Procs, CloseNodeRuns(p) PROVE CancelInv'
<1> DEFINE C == {i \in DOMAIN nodeRuns : nodeRuns[i].run = procs[p].run
                                         /\ nodeRuns[i].status \in OpenNodeRun}
<1>1. /\ procs'[p].pc = "idle" /\ procs[p].pc = "close"
      /\ \A q \in Procs : q # p =>
           /\ procs'[q].pc = procs[q].pc /\ procs'[q].run = procs[q].run
           /\ procs'[q].nr = procs[q].nr
      /\ Interrupts(C)
  BY CloseShape DEF CloseNodeRuns
<1>2. runs' = runs /\ queue' = {j \in queue : nodeRuns[j.nr].run # procs[p].run}
  BY DEF CloseNodeRuns, RemoveRun
<1>3. SameNodes
  BY <1>1 DEF Interrupts
<1>4. ASSUME NEW k \in DOMAIN nodeRuns, Open(k)' PROVE Open(k) /\ nodeRuns[k].run # procs[p].run
  BY <1>1, <1>4 DEF Interrupts, Open, OpenNodeRun
<1> HIDE DEF C
<1> SUFFICES ASSUME NEW z \in Runs, runs[z].status = "cancelled", ~Closing(z)'
             PROVE  WindsUp(z)'
  BY <1>2 DEF CancelInv
<1>5. CASE z = procs[p].run
  <2>1. JobsOf(z)' = {}
    BY <1>2, <1>3, <1>5, Typed DEF JobsOf, RunOf, SameNodes
  <2> QED
    BY <1>3, <1>4, <1>5, <2>1 DEF WindsUp, NodeRunsOf, SameNodes
<1>6. CASE z # procs[p].run
  <2>1. ~Closing(z)
    BY <1>1, <1>6 DEF Closing
  <2>2. WindsUp(z)
    BY <2>1 DEF CancelInv
  <2>3. ASSUME NEW k \in DOMAIN nodeRuns, nodeRuns[k].run = z, Open(k)' PROVE Looked(k)'
    <3>1. Looked(k)
      BY <1>4, <2>2, <2>3 DEF WindsUp, NodeRunsOf
    <3>2. HasOwnJob(k) => HasOwnJob(k)'
      BY <1>2, <1>6, <2>3 DEF HasOwnJob
    <3>3. \A q \in Procs : Touches(q, k) => Touches(q, k)'
      BY <1>1 DEF Touches, TouchPCs
    <3> QED
      BY <3>1, <3>2, <3>3 DEF Looked
  <2>4. ASSUME NEW q \in Procs, Completing(q, z)' PROVE JobsOf(z)' = {}
    <3>1. Completing(q, z)
      BY <1>1, <2>4 DEF Completing
    <3>2. JobsOf(z)' \subseteq JobsOf(z)
      BY <1>2, <1>3, Typed DEF JobsOf, RunOf, SameNodes
    <3> QED
      BY <2>2, <3>1, <3>2 DEF WindsUp
  <2> QED
    BY <1>3, <2>3, <2>4 DEF WindsUp, NodeRunsOf, SameNodes
<1> QED
  BY <1>5, <1>6

LEMMA CancelSpawns ==
  ASSUME TypeInv, CancelInv, NEW p \in Procs, SpawnRetry(p) PROVE CancelInv'
<1>1. procs[p].pc = "spawn" /\ DocsStay /\ OnlyProc(p) /\ procs'[p].pc # "complete"
  BY SpawnShape DEF Starts, Ends
<1>2. NoneCancelled
  <2>1. PICK c \in Runs :
          runs' = [runs EXCEPT ![c].status = "running", ![c].parent = procs[p].run]
    BY DEF SpawnRetry
  <2>2. runs \in [Runs -> RunType]
    BY DEF TypeInv, TypeOK
  <2> QED
    BY <2>1, <2>2 DEF NoneCancelled, RunType
<1> QED
  BY <1>1, <1>2, CancelBegins DEF NoneCancelled, TouchPCs

LEMMA CancelStep ==
  ASSUME TypeInv, CancelInv, (LockInv /\ SoloInv) \/ TokenInv, NEW p \in Procs, Step(p)
  PROVE  CancelInv'
  BY CancelPlain, CancelEnqueues, CancelCloses, CancelSpawns DEF Step

LEMMA CancelDispatches ==
  ASSUME TypeInv, CancelInv, NEW p \in Workers, DispatchJob(p) PROVE CancelInv'
<1>1. p \in Procs
  BY WorkersAreProcs
<1>2. procs[p].pc = "idle" /\ OnlyProc(p) /\ StatusesStay /\ runs' = runs
  BY DispatchShape
<1>3. PICK j \in queue : /\ queue' = queue \ {j} /\ procs'[p].pc = "load"
                         /\ procs'[p].nr = j.nr
  BY DispatchShape
<1>4. SameNodes /\ \A i \in DOMAIN nodeRuns : Open(i)' <=> Open(i)
  BY <1>2 DEF StatusesStay, Open
<1>5. /\ Touches(p, j.nr)'
      /\ \A i \in DOMAIN nodeRuns : ~Touches(p, i)
      /\ \A r \in Runs : ~Completing(p, r)'
  BY <1>2, <1>3 DEF Touches, TouchPCs, Completing
<1>6. /\ procs[p].pc # "close" /\ queue' \subseteq queue
      /\ \A k \in queue : k \in queue' \/ Touches(p, k.nr)'
  BY <1>2, <1>3, <1>5
<1> QED
  BY <1>1, <1>2, <1>4, <1>5, <1>6, CancelKept

LEMMA CancelClaims ==
  ASSUME TypeInv, CancelInv, NEW h \in Handlers, NEW i \in DOMAIN nodeRuns, NEW res,
         ClaimWaiting(h, i, res), queue' = queue, runs' = runs
  PROVE  CancelInv'
<1>1. h \in Procs
  BY HandlersAreProcs
<1>2. /\ procs[h].pc = "idle" /\ OnlyProc(h) /\ GetsStatus(i, "running")
      /\ procs'[h].pc = "resume" /\ procs'[h].nr = i
  BY ClaimShape
<1>3. SameNodes /\ \A k \in DOMAIN nodeRuns : Open(k)' => Open(k) \/ k = i
  BY <1>2 DEF GetsStatus, Open
<1>4. /\ Touches(h, i)'
      /\ \A k \in DOMAIN nodeRuns : ~Touches(h, k)
      /\ \A r \in Runs : ~Completing(h, r)'
  BY <1>2 DEF Touches, TouchPCs, Completing
<1> QED
  BY <1>1, <1>2, <1>3, <1>4, CancelKept

LEMMA CancelRunQueued ==
  ASSUME TypeInv, CancelInv, NEW h \in Handlers, NEW r \in Runs, NEW o, HandleRunQueued(h, r, o)
  PROVE  CancelInv'
<1>1. CASE DocsStay /\ UNCHANGED <<runs, procs>>
  BY <1>1, SameUncancelled, CancelIdles
<1>2. CASE procs[h].pc = "idle" /\ SetRun(r, "running") /\ Starts(h, r)
  <2>1. NoneCancelled
    BY <1>2, SetUncancelled DEF RunStatus
  <2>2. DocsStay /\ OnlyProc(h) /\ procs'[h].pc # "complete" /\ h \in Procs
    BY <1>2, HandlersAreProcs DEF Starts
  <2> QED
    BY <1>2, <2>1, <2>2, CancelBegins DEF NoneCancelled, TouchPCs
<1> QED
  BY <1>1, <1>2, RunQueuedShape

LEMMA CancelUsers ==
  ASSUME TypeInv, CancelInv,
         \/ \E r \in Runs : StartRun(r)
         \/ \E h \in Handlers, r \in Runs : CancelRun(h, r) \/ ClaimRetry(h, r)
         \/ Answering
  PROVE  CancelInv'
<1>1. ASSUME NEW r \in Runs, StartRun(r) PROVE CancelInv'
  <2>1. NoneCancelled
    BY <1>1, SetUncancelled DEF StartRun, RunStatus
  <2>2. DocsStay /\ procs' = procs
    BY <1>1, UnchangedStay DEF StartRun, DocsStay
  <2> QED
    BY <2>1, <2>2, CancelIdles
<1>2. ASSUME NEW h \in Handlers, NEW r \in Runs, CancelRun(h, r) \/ ClaimRetry(h, r)
      PROVE  CancelInv'
  <2>1. /\ procs[h].pc = "idle" /\ OnlyProc(h) /\ DocsStay /\ h \in Procs
        /\ procs'[h].pc = (IF CancelRun(h, r) THEN "close" ELSE "spawn")
        /\ procs'[h].run = r
    BY <1>2, RequestShape, HandlersAreProcs
  <2>2. runs \in [Runs -> RunType]
    BY DEF TypeInv, TypeOK
  <2>3. \A x \in Runs : runs'[x].status = "cancelled" =>
          runs[x].status = "cancelled" \/ (procs'[h].pc = "close" /\ procs'[h].run = x)
    <3>1. CASE CancelRun(h, r)
      <4>1. \A x \in Runs : x # r => runs'[x] = runs[x]
        BY <2>2, <3>1 DEF CancelRun, SetRun
      <4> QED
        BY <2>1, <3>1, <4>1
    <3>2. CASE ClaimRetry(h, r)
      <4>1. \A x \in Runs : runs'[x].status = runs[x].status
        BY <2>2, <3>2 DEF ClaimRetry, RunType
      <4> QED
        BY <4>1
    <3> QED
      BY <1>2, <3>1, <3>2
  <2>4. procs[h].pc \notin TouchPCs \cup {"close"} /\ procs'[h].pc # "complete"
    BY <2>1 DEF TouchPCs
  <2> QED
    BY <2>1, <2>3, <2>4, CancelBegins
<1>3. CASE Answering
  BY <1>3, AnsweringStays, SameUncancelled, CancelIdles
<1> QED
  BY <1>1, <1>2, <1>3

LEMMA CancelNext ==
  ASSUME TypeInv, UpInv, (LockInv /\ SoloInv) \/ TokenInv, CancelInv, [Next]_vars, NoFault
  PROVE  CancelInv'
<1>1. CASE UNCHANGED vars
  BY <1>1, UnchangedStay, SameUncancelled, CancelIdles DEF vars, memory, DocsStay
<1>2. ASSUME NEW h \in Handlers, NEW e \in queuedEvents, HandleRunQueued(h, e[1], e[2])
      PROVE  CancelInv'
  <2>1. e[1] \in Runs
    BY DEF TypeInv, TypeOK
  <2> QED
    BY <1>2, <2>1, CancelRunQueued
<1>3. ASSUME NEW h \in Handlers, NEW e \in questionEvents, HandleQuestion(h, e) PROVE CancelInv'
  <2>1. e.nr \in DOMAIN nodeRuns
    BY DEF TypeInv, References
  <2>2. CASE UNCHANGED <<nodeRuns, procs>>
    BY <1>3, <2>2, UnchangedStay, SameUncancelled, CancelIdles DEF HandleQuestion, DocsStay
  <2>3. ASSUME NEW res, ClaimWaiting(h, e.nr, res) PROVE CancelInv'
    BY <1>3, <2>1, <2>3, CancelClaims DEF HandleQuestion
  <2> QED
    BY <1>3, <2>2, <2>3 DEF HandleQuestion
<1>4. ASSUME NEW h \in Handlers, NEW i \in DOMAIN nodeRuns, ResumeDelayedNode(h, i)
      PROVE  CancelInv'
  BY <1>4, CancelClaims DEF ResumeDelayedNode
<1>5. Users \/ (\E i \in DOMAIN nodeRuns, k \in 1..MaxAnswers : SaveAnswer(i, k))
        \/ (\E i \in DOMAIN nodeRuns : OpenExpiry(i) \/ SaveExpiry(i)) =>
      \/ \E r \in Runs : StartRun(r)
      \/ \E h \in Handlers, r \in Runs : CancelRun(h, r) \/ ClaimRetry(h, r)
      \/ Answering
  BY DEF Users, Answering
<1> QED
  BY <1>1, <1>2, <1>3, <1>4, <1>5, CancelUsers, CancelStep, CancelDispatches, Undisturbed DEF Next

-----------------------------------------------------------------------------
(* Everything together, as long as nothing has failed. *)

EndsInv ==
  /\ UpInv
  /\ WaitInv
  /\ faults = 0 => /\ OneTrigger /\ NeverWaits => SoloInv
                   /\ OneTrigger /\ Unbranched => TokenInv
                   /\ Sequential => CancelInv

LEMMA EndsInit == Init => EndsInv
<1> SUFFICES ASSUME Init PROVE EndsInv
  OBVIOUS
<1>1. /\ \A p \in Procs : procs[p].pc = "idle" /\ procs[p].result = "none"
      /\ DOMAIN nodeRuns = {} /\ queue = {} /\ backend = "up"
      /\ \A r \in Runs : runs[r].status = "absent"
  BY DEF Init, Idle
<1>2. UpInv /\ WaitInv
  BY <1>1 DEF UpInv, WaitInv
<1>3. SoloInv
  <2>1. HoldsInv
    BY <1>1 DEF HoldsInv, WorkerInv, HandlerInv, JobInv, StartPCs, Procs
  <2>2. Unparked /\ SuccInv /\ TrigInv
    BY <1>1 DEF Unparked, SuccInv, TrigInv, Good, WaitingRun
  <2>3. FinishInv /\ OutInv
    BY <1>1 DEF FinishInv, OutInv, Procs
  <2> QED
    BY <2>1, <2>2, <2>3 DEF SoloInv
<1>4. TokenInv
  <2>1. \A r \in Runs : Movers(r) = {} /\ JobsOf(r) = {} /\ WaitersOf(r) = {}
    BY <1>1 DEF Movers, JobsOf, WaitersOf, MovePCs, HolderPCs
  <2> QED
    BY <1>1, <2>1 DEF TokenInv, OneNext, Alone, Single
<1>5. CancelInv
  BY <1>1 DEF CancelInv
<1> QED
  BY <1>2, <1>3, <1>4, <1>5 DEF EndsInv

\* What has failed has failed; the backend goes down by a crash only.
LEMMA UpNext ==
  ASSUME TypeInv, UpInv, [Next]_vars, faults' = 0
  PROVE  faults = 0 /\ backend' = "up"
<1>1. faults \in Nat
  BY Bounds DEF TypeInv, TypeOK
<1>2. ~Crash /\ \A p \in Procs : ~DatabaseError(p)
  <2>1. faults' # faults + 1
    BY <1>1
  <2>2. (Crash \/ \E p \in Procs : DatabaseError(p)) => faults' = faults + 1
    BY Zenon DEF Crash, DatabaseError
  <2> QED
    BY <2>1, <2>2
<1>3. CASE UNCHANGED control
  BY <1>3 DEF control, UpInv
<1>4. CASE Recovery
  <2>1. faults' = faults /\ backend # "up"
    BY <1>4 DEF Recovery, Restart, RecoverRun, InterruptCut, FailCut, RecoverNode, FinishRecovery
  <2> QED
    BY <2>1 DEF UpInv
<1>5. ASSUME NEW p \in Procs, Step(p) PROVE UNCHANGED control
  BY <1>5 DEF Step, LoadJob, MarkRunning, CountExecution, Execute, ReadLiveStatus,
              InterruptNodeRun, SaveWaiting, ParkRun, CompleteNodeRun, UpdateContext, EnqueueNext,
              CountOpen, FinishRun, FailRun, ResumeRun, CloseNodeRuns, SpawnRetry
<1>6. CASE \/ Users
           \/ \E h \in Handlers, e \in queuedEvents : HandleRunQueued(h, e[1], e[2])
           \/ \E h \in Handlers, e \in questionEvents : HandleQuestion(h, e)
           \/ \E h \in Handlers, i \in DOMAIN nodeRuns : ResumeDelayedNode(h, i)
           \/ \E i \in DOMAIN nodeRuns, k \in 1..MaxAnswers : SaveAnswer(i, k)
           \/ \E i \in DOMAIN nodeRuns : OpenExpiry(i) \/ SaveExpiry(i)
           \/ \E w \in Workers : DispatchJob(w)
  <2>1. UNCHANGED control
    BY <1>6 DEF Users, StartRun, CancelRun, ClaimRetry, OpenAnswer, HandleRunQueued,
                HandleQuestion, ResumeDelayedNode, SaveAnswer, OpenExpiry, SaveExpiry, DispatchJob
  <2> QED
    BY <1>3, <2>1
<1>7. CASE UNCHANGED vars
  BY <1>3, <1>7 DEF vars
<1> QED
  BY <1>2, <1>3, <1>4, <1>5, <1>6, <1>7 DEF Next

LEMMA EndsNext ==
  ASSUME TypeInv, LockInv, WorkIsStarted, EndsInv, [Next]_vars PROVE EndsInv'
<1>1. /\ (OneTrigger' <=> OneTrigger) /\ (NeverWaits' <=> NeverWaits)
      /\ (Unbranched' <=> Unbranched) /\ (Sequential' <=> Sequential)
  BY DEF OneTrigger, NeverWaits, Unbranched, Sequential, NextNodes
<1>2. UpInv' /\ WaitInv'
  BY UpNext, WaitNext DEF EndsInv, UpInv
<1>3. ASSUME faults' = 0
      PROVE  /\ OneTrigger /\ NeverWaits => SoloInv'
             /\ OneTrigger /\ Unbranched => TokenInv'
             /\ Sequential => CancelInv'
  <2>1. NoFault
    BY <1>3, UpNext DEF NoFault, EndsInv
  <2>2. /\ OneTrigger /\ NeverWaits => SoloInv
        /\ OneTrigger /\ Unbranched => TokenInv
        /\ Sequential => CancelInv
    BY <2>1 DEF NoFault, EndsInv
  <2>3. OneTrigger /\ NeverWaits => SoloInv'
    BY <2>1, <2>2, SoloNext DEF EndsInv
  <2>4. OneTrigger /\ Unbranched => TokenInv'
    BY <2>1, <2>2, TokenNext DEF EndsInv
  <2>5. Sequential => CancelInv'
    BY <2>1, <2>2, CancelNext DEF EndsInv, Sequential
  <2> QED
    BY <2>3, <2>4, <2>5
<1> QED
  BY <1>1, <1>2, <1>3 DEF EndsInv

LEMMA EndsInvariant == Spec => []EndsInv
<1>1. LifeInv => WorkIsStarted
  BY DEF LifeInv
<1>2. TypeInv /\ LockInv /\ WorkIsStarted /\ EndsInv /\ [Next]_vars => EndsInv'
  BY EndsNext
<1> QED
  BY <1>1, <1>2, TypeInvariant, LockInvariant, LifeInvariant, EndsInit, PTL DEF Spec

-----------------------------------------------------------------------------
(* The theorems. *)

\* As long as no database operation has failed and the process has not crashed,
\* a run that has succeeded has nothing open, has reached its trigger and the
\* unconditional successors of all that succeeded, and retried or handled all
\* that failed: maybeFinishRun's count of the open NodeRuns finds whatever is
\* left, since only one process at a time works on a run that may finish.  That
\* takes a graph with at most one trigger and no waiting nodes: several triggers
\* are enqueued one by one and the first may be finished before the second is
\* there, and a handler that resumes a node holds no definition lock.
THEOREM SucceededComplete ==
  Spec => [](faults = 0 /\ OneTrigger /\ NeverWaits => SucceededIsComplete)
<1>1. ASSUME TypeInv, SoloInv PROVE SucceededIsComplete
  <2> SUFFICES ASSUME NEW r \in Runs, runs[r].status = "succeeded"
               PROVE  /\ \A i \in NodeRunsOf(r) : nodeRuns[i].status \notin OpenNodeRun
                      /\ runs[r].parent = NoRun => Triggers \subseteq Reached(r)
                      /\ \A i \in NodeRunsOf(r) :
                           /\ nodeRuns[i].status = "succeeded" =>
                                AlwaysNext(nodeRuns[i].node) \subseteq Reached(r)
                           /\ nodeRuns[i].status = "failed" =>
                                \/ HasFailureEdges(nodeRuns[i].node)
                                \/ \E j \in NodeRunsOf(r) :
                                     j > i /\ nodeRuns[j].node = nodeRuns[i].node
    BY DEF SucceededIsComplete
  <2>1. Good(r) /\ ~Working(r)
    BY <1>1 DEF Good, SoloInv, SuccInv
  <2>2. \A p \in Workers \cup Handlers : \A n : ~Brings(p, r, n)
    BY <2>1 DEF Working, Brings, Procs
  <2>3. \A i \in NodeRunsOf(r) : nodeRuns[i].status \notin OpenNodeRun
    BY <1>1 DEF SoloInv, SuccInv, Open
  <2>4. runs[r].parent = NoRun => Triggers \subseteq Reached(r)
    BY <1>1, <2>1, <2>2 DEF SoloInv, TrigInv
  <2>5. ASSUME NEW i \in NodeRunsOf(r), nodeRuns[i].status = "succeeded",
               NEW m \in AlwaysNext(nodeRuns[i].node)
        PROVE  m \in Reached(r)
    <3>1. i \in DOMAIN nodeRuns /\ nodeRuns[i].run = r
      BY DEF NodeRunsOf
    <3>2. Followed(i)
      BY <1>1, <2>1, <2>5, <3>1 DEF SoloInv, OutInv, Fed
    <3>3. ~Spreading(i)
      BY <1>1, <2>1, <3>1 DEF Spreading, Working, SoloInv, HoldsInv, WorkerInv, Procs
    <3> QED
      BY <2>2, <3>1, <3>2, <3>3 DEF Followed
  <2>6. ASSUME NEW i \in NodeRunsOf(r), nodeRuns[i].status = "failed"
        PROVE  \/ HasFailureEdges(nodeRuns[i].node)
               \/ \E j \in NodeRunsOf(r) : j > i /\ nodeRuns[j].node = nodeRuns[i].node
    <3>1. i \in DOMAIN nodeRuns /\ nodeRuns[i].run = r
      BY DEF NodeRunsOf
    <3>2. Answered(i)
      BY <1>1, <2>1, <2>6, <3>1 DEF SoloInv, OutInv, Fed
    <3>3. ~ \E w \in Workers : procs[w].pc = "fail" /\ procs[w].run = r
      BY <2>1 DEF Working, Procs
    <3> QED
      BY <2>2, <3>1, <3>2, <3>3 DEF Answered
  <2> QED
    BY <2>3, <2>4, <2>5, <2>6
<1>2. TypeInv /\ EndsInv => (faults = 0 /\ OneTrigger /\ NeverWaits => SucceededIsComplete)
  BY <1>1 DEF EndsInv
<1> QED
  BY <1>2, TypeInvariant, EndsInvariant, PTL

\* When nothing works on a cancelled run any more, its NodeRuns are all closed:
\* whatever of it is open has a job or a process that looks at the run once more
\* and closes it (WindsUp).  That takes a run with one thing to do at a time, for
\* lack of several triggers and of either waiting nodes or branches: otherwise a
\* node that fails may take away the job that another process has enqueued since.
THEOREM CancelledClose == Spec => [](Sequential => CancelledRunsClose)
<1>1. ASSUME TypeInv, CancelInv PROVE CancelledRunsClose
  <2> SUFFICES ASSUME NEW r \in Runs, runs[r].status = "cancelled", ~Busy(r), ~HasJob(r),
                      NEW i \in NodeRunsOf(r), Open(i)
               PROVE  FALSE
    BY DEF CancelledRunsClose, Open
  <2>1. ~Closing(r)
    BY DEF Closing, Busy
  <2>2. i \in DOMAIN nodeRuns /\ nodeRuns[i].run = r
    BY DEF NodeRunsOf
  <2>3. Looked(i)
    BY <1>1, <2>1 DEF CancelInv, WindsUp
  <2>4. ~HasOwnJob(i)
    BY <2>2 DEF HasJob, HasOwnJob
  <2>5. ASSUME NEW p \in Procs, Touches(p, i) PROVE FALSE
    <3>1. procs[p].pc \in NodePCs /\ procs[p].pc # "idle" /\ procs[p].nr = i
      BY <2>5 DEF Touches, TouchPCs, NodePCs
    <3>2. procs[p].run = r
      BY <1>1, <2>2, <3>1, KnownNodeRun
    <3> QED
      BY <3>1, <3>2 DEF Busy
  <2> QED
    BY <2>3, <2>4, <2>5 DEF Looked
<1>2. TypeInv /\ EndsInv => (Sequential => CancelledRunsClose)
  BY <1>1 DEF EndsInv, CancelledRunsClose
<1> QED
  BY <1>2, TypeInvariant, EndsInvariant, PTL
=============================================================================
