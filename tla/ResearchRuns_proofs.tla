------------------------ MODULE ResearchRuns_proofs -------------------------
(***************************************************************************)
(* Research runs for any documents, owners, handlers and bounds: what runs *)
(* is executed, reports stay, stops arrive, what is queued has a job, and  *)
(* the documents of an owner start in order.                               *)
(***************************************************************************)
EXTENDS ResearchRuns, FiniteSetTheorems, TLAPS

-----------------------------------------------------------------------------
(* The invariant *)

Modes == {"research", "resume", "deepen"}
Researches == [status : Statuses, mode : Modes, content : BOOLEAN, unfinished : BOOLEAN,
               partial : BOOLEAN, cancel : BOOLEAN, pause : BOOLEAN, at : Nat]
Runs == [step : {"none", "claim", "load", "begun", "work", "interrupted", "lost", "after",
                 "complete"},
         mode : Modes, content : BOOLEAN, round : {"none", "on", "over"}]
Requests == [op : Ops \cup {"none", "start"}, doc : Docs,
             step : {"idle", "transition", "flag", "abort", "removeJob", "patch", "enqueue",
                     "end", "delete"},
             seen : Researches]

StoreTyped ==
  /\ doc \in [Docs -> Researches] /\ run \in [Docs -> Runs]
  /\ job \in [Docs -> {"none", "waiting", "active", "failed"}]
  /\ controller \in [Docs -> {"none", "live", "aborted"}]
  /\ stopping \in BOOLEAN
CountsTyped ==
  /\ requests \in 0..MaxRequests /\ faults \in 0..MaxFaults
  /\ overtaken \cup spoilt \cup missed \cup stranded \subseteq Docs
  /\ joined \in [Docs -> SUBSET Docs]
JobsBounded == Cardinality(ActiveJobs) <= Concurrency

\* A request takes the steps of its operation, and never goes on with a document that
\* it has seen running, unless it stops or deletes it.
Steady(h) ==
  /\ request[h].step \in {"transition", "flag", "abort", "removeJob"}
       => Op(h) \in {"cancel", "pause", "remove"}
  /\ ReqAt(h, "removeJob") /\ Op(h) # "remove" => Seen(h).status # "running"
  /\ ReqAt(h, "end") => Seen(h).status # "running"
  /\ ReqAt(h, "patch") =>
       \/ Op(h) = "cancel" /\ Seen(h).status = "paused"
       \/ Op(h) = "resume" /\ Seen(h).status \in {"paused", "failed"}
       \/ Op(h) = "retry" /\ Seen(h).status \in {"failed", "cancelled"}
       \/ Op(h) = "deepen" /\ Seen(h).status = "done"
RequestsTyped == request \in [Handlers -> Requests] /\ \A h \in Handlers : Steady(h)

\* A job is active as long as its document has a worker.
Linked(d) == job[d] = "active" <=> run[d].step # "none"

\* A document that does not exist has no content.
Blank(d) == ~Exists(d) => ~doc[d].content /\ ~doc[d].unfinished

RunsOnlyExecuted(d) ==
  ~stopping /\ doc[d].status = "running" /\ d \notin stranded => Executed(d)

\* Unless it was overtaken, a run knows its document as it is.
Known(d) ==
  d \notin overtaken \cup spoilt =>
    /\ run[d].step # "lost"
    /\ run[d].step \in {"load", "begun", "work", "interrupted"}
         => doc[d].status \in {"running", "gone"}
    /\ run[d].step \in {"begun", "work", "interrupted"} /\ doc[d].status = "running"
         => run[d].mode = doc[d].mode /\ run[d].content = doc[d].content
    /\ run[d].step \in {"begun", "work"} /\ doc[d].status = "running" /\ run[d].round # "on"
         => ~doc[d].unfinished

Shown(d) ==
  d \notin overtaken \cup spoilt =>
    /\ doc[d].content =>
         \/ doc[d].status = "done"
         \/ doc[d].status \in {"queued", "running", "paused"} /\ doc[d].mode = "deepen"
    /\ doc[d].status = "done" => ~doc[d].unfinished

\* A run that works has a controller, and a stop that is over has reached it.
Controlled(d) ==
  d \notin overtaken /\ run[d].step \in {"begun", "work"} /\ doc[d].status = "running"
    => controller[d] \in {"live", "aborted"}
Stopped(d) ==
  /\ d \notin overtaken /\ run[d].step = "work" /\ doc[d].status = "running"
  /\ doc[d].cancel \/ doc[d].pause
  /\ \A h \in Handlers : ~(Of(h) = d /\ ReqAt(h, "abort"))
  => controller[d] = "aborted"

HasJob(d) ==
  d \notin missed /\ doc[d].status = "queued" =>
    \/ job[d] = "waiting"
    \/ job[d] = "active" /\ run[d].step # "complete"
    \/ \E h \in Handlers : Of(h) = d /\ ReqAt(h, "enqueue")

\* What the check found stays true until the claim, but for those that join the queue.
Sure(d) ==
  run[d].step = "claim" /\ doc[d].status = "queued" /\ d \notin joined[d]
    => OlderQueued(d) \subseteq joined[d]

Sound(d) ==
  /\ Linked(d) /\ Blank(d) /\ RunsOnlyExecuted(d) /\ Known(d) /\ Shown(d)
  /\ Controlled(d) /\ Stopped(d) /\ HasJob(d)

ResearchInv ==
  /\ StoreTyped /\ CountsTyped /\ JobsBounded /\ RequestsTyped
  /\ \A d \in Docs : Sound(d) /\ Sure(d)

-----------------------------------------------------------------------------
(* Frames: what a step about one document leaves alone *)

DocFrame(d) ==
  /\ doc' = [doc EXCEPT ![d] = doc'[d]] /\ run' = [run EXCEPT ![d] = run'[d]]
  /\ job' = [job EXCEPT ![d] = job'[d]]
  /\ controller' = [controller EXCEPT ![d] = controller'[d]]
  /\ stopping' = stopping /\ requests' \in 0..MaxRequests /\ faults' \in 0..MaxFaults
HistoryFrame(d) ==
  /\ overtaken \subseteq overtaken' /\ overtaken' \subseteq overtaken \cup {d}
  /\ spoilt \subseteq spoilt' /\ spoilt' \subseteq spoilt \cup {d}
  /\ missed \ {d} \subseteq missed' /\ missed' \subseteq missed \cup {d}
  /\ stranded \ {d} \subseteq stranded' /\ stranded' \subseteq stranded \cup {d}
  /\ joined' \in [Docs -> SUBSET Docs]
  /\ \A e \in Docs \ {d} : joined[e] \subseteq joined'[e]
\* Requests about other documents stay where they are.
RequestFrame(d) ==
  \A h \in Handlers : Of(h) # d /\ ~ReqAt(h, "idle") => request'[h] = request[h]
\* What is put into the queue joins it, and who is about to claim has been checked.
JoinFrame(d) ==
  /\ doc'[d].status = "queued" =>
       \/ doc[d].status = "queued" /\ doc'[d].at = doc[d].at
       \/ \A e \in Docs : run[e].step = "claim" => d \in joined'[e]
  /\ run'[d].step = "claim" =>
       \/ run[d].step = "claim" /\ joined[d] \subseteq joined'[d]
       \/ OlderQueued(d) = {} /\ doc' = doc
JobFrame(d) ==
  job'[d] = "active" => job[d] = "active" \/ Cardinality(ActiveJobs) < Concurrency
Frame(d) ==
  DocFrame(d) /\ HistoryFrame(d) /\ RequestFrame(d) /\ JoinFrame(d) /\ JobFrame(d)

FieldsTyped(d) ==
  /\ doc'[d] \in Researches /\ run'[d] \in Runs
  /\ job'[d] \in {"none", "waiting", "active", "failed"}
  /\ controller'[d] \in {"none", "live", "aborted"}

\* The other documents stay sound.
LEMMA Elsewhere ==
  ASSUME ResearchInv, NEW d \in Docs, Frame(d), FieldsTyped(d), NEW e \in Docs, e # d
  PROVE  Sound(e)'
<1>0. StoreTyped /\ Sound(e)
  BY DEF ResearchInv
<1>1. /\ doc'[e] = doc[e] /\ run'[e] = run[e] /\ job'[e] = job[e]
      /\ controller'[e] = controller[e] /\ stopping' = stopping
  BY <1>0 DEF Frame, DocFrame, StoreTyped
<1>2. (e \in overtaken => e \in overtaken') /\ (e \in spoilt => e \in spoilt')
  BY DEF Frame, HistoryFrame
<1>3. (e \in missed => e \in missed') /\ (e \in stranded => e \in stranded')
  BY DEF Frame, HistoryFrame
<1>4. Linked(e)' /\ Blank(e)' /\ RunsOnlyExecuted(e)'
  BY <1>0, <1>1, <1>3 DEF Sound, Linked, Blank, RunsOnlyExecuted, Exists, Executed
<1>5. Known(e)'
  BY <1>0, <1>1, <1>2 DEF Sound, Known
<1>6. Shown(e)' /\ Controlled(e)'
  BY <1>0, <1>1, <1>2 DEF Sound, Shown, Controlled
<1>7. Stopped(e)'
  <2>1. \A h \in Handlers : Of(h) = e /\ ReqAt(h, "abort") => request'[h] = request[h]
    BY DEF Frame, RequestFrame, ReqAt
  <2> QED
    BY <1>0, <1>1, <1>2, <2>1 DEF Sound, Stopped, Of, ReqAt
<1>8. HasJob(e)'
  <2>1. \A h \in Handlers : Of(h) = e /\ ReqAt(h, "enqueue") => request'[h] = request[h]
    BY DEF Frame, RequestFrame, ReqAt
  <2> QED
    BY <1>0, <1>1, <1>3, <2>1 DEF Sound, HasJob, Of, ReqAt
<1> QED
  BY <1>4, <1>7, <1>8, <1>5, <1>6 DEF Sound

\* Every check stays true until its claim.
LEMMA ChecksStay ==
  ASSUME ResearchInv, NEW d \in Docs, Frame(d), NEW e \in Docs
  PROVE  Sure(e)'
<1>0. StoreTyped /\ Sure(e) /\ joined \in [Docs -> SUBSET Docs]
  BY DEF ResearchInv, CountsTyped
<1>1. \A f \in Docs \ {d} : doc'[f] = doc[f] /\ run'[f] = run[f]
  BY <1>0 DEF Frame, DocFrame, StoreTyped
<1>2. \A f \in Docs \ {d} : joined[f] \subseteq joined'[f]
  BY DEF Frame, HistoryFrame
<1> SUFFICES ASSUME run'[e].step = "claim", doc'[e].status = "queued", e \notin joined'[e],
                    NEW f \in OlderQueued(e)'
             PROVE  f \in joined'[e]
  BY DEF Sure
<1>3. f \in Docs \ {e} /\ Owner[f] = Owner[e] /\ doc'[f].status = "queued" /\ Older(f, e)'
  BY DEF OlderQueued
<1>4. CASE e = d /\ ~(run[d].step = "claim" /\ joined[d] \subseteq joined'[d])
  <2>1. OlderQueued(d) = {} /\ doc' = doc
    BY <1>4 DEF Frame, JoinFrame
  <2>2. f \in OlderQueued(d)
    BY <1>3, <1>4, <2>1 DEF OlderQueued, Older
  <2> QED
    BY <2>1, <2>2
<1>5. CASE run[e].step = "claim" /\ joined[e] \subseteq joined'[e]
  <2>1. doc[e].status = "queued" /\ doc'[e].at = doc[e].at
    BY <1>1, <1>5 DEF Frame, JoinFrame
  <2>2. CASE doc[f].status = "queued" /\ doc'[f].at = doc[f].at
    <3>1. f \in OlderQueued(e)
      BY <1>3, <2>1, <2>2 DEF OlderQueued, Older
    <3> QED
      BY <1>0, <1>5, <2>1, <3>1 DEF Sure
  <2>3. CASE ~(doc[f].status = "queued" /\ doc'[f].at = doc[f].at)
    BY <1>1, <1>3, <1>5, <2>3 DEF Frame, JoinFrame
  <2> QED
    BY <2>2, <2>3
<1> QED
  BY <1>1, <1>2, <1>4, <1>5

LEMMA JobsStayBounded ==
  ASSUME StoreTyped, JobsBounded, NEW d \in Docs, Frame(d)
  PROVE  JobsBounded'
<1>1. ActiveJobs \in SUBSET Docs /\ IsFiniteSet(ActiveJobs) /\ Cardinality(ActiveJobs) \in Nat
  BY DocsAssumption, FS_Subset, FS_CardinalityType DEF ActiveJobs
<1>2. job' = [job EXCEPT ![d] = job'[d]] /\ JobFrame(d)
  BY DEF Frame, DocFrame
<1>3. CASE job[d] = "active" \/ job'[d] # "active"
  <2>1. ActiveJobs' \in SUBSET ActiveJobs
    BY <1>2, <1>3 DEF ActiveJobs, StoreTyped
  <2>2. Cardinality(ActiveJobs') <= Cardinality(ActiveJobs) /\ Cardinality(ActiveJobs') \in Nat
    BY <1>1, <2>1, FS_Subset, FS_CardinalityType
  <2> QED
    BY <1>1, <2>2, NumbersAssumption DEF JobsBounded
<1>4. CASE job[d] # "active" /\ job'[d] = "active"
  <2>1. ActiveJobs' = ActiveJobs \cup {d} /\ d \notin ActiveJobs
    BY <1>2, <1>4 DEF ActiveJobs, StoreTyped
  <2>2. Cardinality(ActiveJobs') = Cardinality(ActiveJobs) + 1
    BY <1>1, <2>1, FS_AddElement
  <2> QED
    BY <1>1, <1>2, <1>4, <2>2, NumbersAssumption DEF JobsBounded, JobFrame
<1> QED
  BY <1>3, <1>4

\* A step about one document needs to be checked there.
LEMMA FramedStep ==
  ASSUME ResearchInv, NEW d \in Docs, Frame(d), FieldsTyped(d), RequestsTyped', Sound(d)'
  PROVE  ResearchInv'
<1>0. StoreTyped /\ CountsTyped /\ JobsBounded
  BY DEF ResearchInv
<1>1. StoreTyped'
  BY <1>0 DEF StoreTyped, Frame, DocFrame, FieldsTyped
<1>2. CountsTyped'
  BY <1>0 DEF CountsTyped, Frame, DocFrame, HistoryFrame
<1>3. JobsBounded'
  BY <1>0, JobsStayBounded
<1>4. \A e \in Docs : Sound(e)' /\ Sure(e)'
  BY Elsewhere, ChecksStay
<1> QED
  BY <1>1, <1>2, <1>3, <1>4 DEF ResearchInv

-----------------------------------------------------------------------------
(* The worker *)

LEMMA RunRecords ==
  /\ NoRun \in Runs /\ [NoRun EXCEPT !.step = "complete"] \in Runs
  /\ \A r \in Runs : /\ [r EXCEPT !.step = "claim"] \in Runs
                     /\ [r EXCEPT !.step = "load"] \in Runs
                     /\ \A s \in {"work", "interrupted", "lost", "after"} :
                          [r EXCEPT !.step = s] \in Runs
<1> QED
  BY DEF Runs, Modes, NoRun

LEMMA FailedTyped ==
  ASSUME StoreTyped, NEW d \in Docs, NEW r
  PROVE  /\ Failed(d, r) \in Researches
         /\ Failed(d, r).status \in {"done", "failed"}
<1> QED
  BY DEF StoreTyped, Failed, NoFlags, Researches, Modes, Statuses

LEMMA Worked ==
  ASSUME ResearchInv, NEW d \in Docs, request' = request, overtaken' = overtaken,
         DocFrame(d), HistoryFrame(d), JoinFrame(d), JobFrame(d), FieldsTyped(d),
         Linked(d)', Blank(d)', RunsOnlyExecuted(d)', Known(d)', Shown(d)', Controlled(d)',
         Stopped(d)', HasJob(d)'
  PROVE  ResearchInv'
<1>1. RequestsTyped' /\ RequestFrame(d)
  BY DEF ResearchInv, RequestsTyped, Steady, RequestFrame, ReqAt, Op, Of, Seen
<1>2. Frame(d) /\ Sound(d)'
  BY <1>1 DEF Frame, Sound
<1> QED
  BY <1>1, <1>2, FramedStep

LEMMA MayStartStep ==
  ASSUME ResearchInv, NEW d \in Docs, MayStart(d)
  PROVE  ResearchInv'
<1>0. StoreTyped /\ CountsTyped /\ Sound(d)
  BY DEF ResearchInv
<1> USE <1>0 DEF MayStart, Taken, HasRoom, Return, Later, NoRun, outside, StoreTyped
<1>1. request' = request /\ overtaken' = overtaken /\ HistoryFrame(d)
  BY DEF CountsTyped, HistoryFrame
<1>2. DocFrame(d)
  <2>1. doc' = [doc EXCEPT ![d] = doc'[d]] /\ run' = [run EXCEPT ![d] = run'[d]]
    OBVIOUS
  <2>2. /\ job' = [job EXCEPT ![d] = job'[d]]
        /\ controller' = [controller EXCEPT ![d] = controller'[d]]
    OBVIOUS
  <2>3. stopping' = stopping /\ requests' \in 0..MaxRequests /\ faults' \in 0..MaxFaults
    BY NumbersAssumption DEF CountsTyped
  <2> QED
    BY <2>1, <2>2, <2>3 DEF DocFrame
<1>3. JoinFrame(d) /\ JobFrame(d)
  BY DEF Researches, JoinFrame, JobFrame, Sound, Linked
<1>4. doc'[d] \in Researches
  BY DEF Researches, Modes, Statuses
<1>5. run'[d] \in Runs
  <2>1. \/ run'[d] = NoRun \/ run'[d] = [NoRun EXCEPT !.step = "complete"]
        \/ run'[d] = [run[d] EXCEPT !.step = "claim"]
    OBVIOUS
  <2>2. run[d] \in Runs /\ doc[d] \in Researches
    OBVIOUS
  <2> HIDE DEF MayStart, Return, Later, NoRun, StoreTyped
  <2> QED
    BY <2>1, <2>2, RunRecords
<1>6. FieldsTyped(d)
  BY <1>4, <1>5 DEF FieldsTyped
<1>7. Linked(d)' /\ RunsOnlyExecuted(d)'
  BY DEF Runs, Sound, Linked, RunsOnlyExecuted, Executed
<1>8. Blank(d)'
  BY DEF Researches, Runs, Sound, Blank, Exists
<1>9. Known(d)'
  BY DEF Researches, Runs, Sound, Known
<1>10. Shown(d)'
  BY DEF Researches, Runs, Sound, Known, Shown
<1>11. Controlled(d)' /\ Stopped(d)'
  BY DEF Researches, Runs, Sound, Controlled, Stopped, Of, ReqAt
<1>12. HasJob(d)'
  BY DEF Researches, Runs, Sound, Linked, HasJob, Of, ReqAt
<1> QED
  BY <1>1, <1>2, <1>3, <1>6, <1>7, <1>8, <1>9, <1>10, <1>11, <1>12, Worked

LEMMA CheckFailsStep ==
  ASSUME ResearchInv, NEW d \in Docs, CheckFails(d)
  PROVE  ResearchInv'
<1>0. StoreTyped /\ CountsTyped /\ Sound(d)
  BY DEF ResearchInv
<1> USE <1>0 DEF CheckFails, Later, Fault, NoRun, StoreTyped
<1>1. request' = request /\ overtaken' = overtaken /\ HistoryFrame(d)
  BY DEF CountsTyped, HistoryFrame
<1>2. DocFrame(d)
  <2>1. doc' = [doc EXCEPT ![d] = doc'[d]] /\ run' = [run EXCEPT ![d] = run'[d]]
    OBVIOUS
  <2>2. /\ job' = [job EXCEPT ![d] = job'[d]]
        /\ controller' = [controller EXCEPT ![d] = controller'[d]]
    OBVIOUS
  <2>3. stopping' = stopping /\ requests' \in 0..MaxRequests /\ faults' \in 0..MaxFaults
    BY NumbersAssumption DEF CountsTyped
  <2> QED
    BY <2>1, <2>2, <2>3 DEF DocFrame
<1>3. JoinFrame(d) /\ JobFrame(d)
  BY DEF Researches, JoinFrame, JobFrame, Sound, Linked
<1>4. doc'[d] \in Researches
  BY DEF Researches, Modes, Statuses
<1>5. run'[d] \in Runs
  BY DEF Researches, Runs, Modes
<1>6. FieldsTyped(d)
  BY <1>4, <1>5 DEF FieldsTyped
<1>7. Linked(d)' /\ RunsOnlyExecuted(d)'
  BY DEF Runs, Sound, Linked, RunsOnlyExecuted, Executed
<1>8. Blank(d)'
  BY DEF Researches, Runs, Sound, Blank, Exists
<1>9. Known(d)'
  BY DEF Researches, Runs, Sound, Known
<1>10. Shown(d)'
  BY DEF Researches, Runs, Sound, Known, Shown
<1>11. Controlled(d)' /\ Stopped(d)'
  BY DEF Researches, Runs, Sound, Controlled, Stopped, Of, ReqAt
<1>12. HasJob(d)'
  BY DEF Researches, Runs, Sound, Linked, HasJob, Of, ReqAt
<1> QED
  BY <1>1, <1>2, <1>3, <1>6, <1>7, <1>8, <1>9, <1>10, <1>11, <1>12, Worked

LEMMA ClaimStep ==
  ASSUME ResearchInv, NEW d \in Docs, Claim(d)
  PROVE  ResearchInv'
<1>0. StoreTyped /\ CountsTyped /\ Sound(d)
  BY DEF ResearchInv
<1> USE <1>0 DEF Claim, Return, NoRun, outside, StoreTyped
<1>1. request' = request /\ overtaken' = overtaken /\ HistoryFrame(d)
  BY DEF CountsTyped, HistoryFrame
<1>2. DocFrame(d)
  <2>1. doc' = [doc EXCEPT ![d] = doc'[d]] /\ run' = [run EXCEPT ![d] = run'[d]]
    OBVIOUS
  <2>2. /\ job' = [job EXCEPT ![d] = job'[d]]
        /\ controller' = [controller EXCEPT ![d] = controller'[d]]
    OBVIOUS
  <2>3. stopping' = stopping /\ requests' \in 0..MaxRequests /\ faults' \in 0..MaxFaults
    BY NumbersAssumption DEF CountsTyped
  <2> QED
    BY <2>1, <2>2, <2>3 DEF DocFrame
<1>3. JoinFrame(d) /\ JobFrame(d)
  <2>1. run'[d].step # "claim" /\ (doc'[d].status = "queued" => doc'[d] = doc[d])
    BY DEF Researches, Runs
  <2>2. JobFrame(d)
    BY DEF JobFrame, Sound, Linked
  <2> HIDE DEF Claim, Return, NoRun, outside, StoreTyped
  <2> QED
    BY <2>1, <2>2 DEF JoinFrame
<1>4. doc'[d] \in Researches
  BY DEF Researches, Modes, Statuses
<1>5. run'[d] \in Runs
  <2>1. \/ run'[d] = [NoRun EXCEPT !.step = "complete"]
        \/ run'[d] = [run[d] EXCEPT !.step = "load"]
    OBVIOUS
  <2>2. run[d] \in Runs /\ doc[d] \in Researches
    OBVIOUS
  <2> HIDE DEF Claim, Return, NoRun, StoreTyped
  <2> QED
    BY <2>1, <2>2, RunRecords
<1>6. FieldsTyped(d)
  BY <1>4, <1>5 DEF FieldsTyped
<1>7. Linked(d)' /\ RunsOnlyExecuted(d)'
  BY DEF Runs, Sound, Linked, RunsOnlyExecuted, Executed
<1>8. Blank(d)'
  BY DEF Researches, Runs, Sound, Blank, Exists
<1>9. Known(d)'
  BY DEF Researches, Runs, Sound, Known
<1>10. Shown(d)'
  BY DEF Researches, Runs, Sound, Known, Shown
<1>11. Controlled(d)' /\ Stopped(d)'
  BY DEF Researches, Runs, Sound, Controlled, Stopped, Of, ReqAt
<1>12. HasJob(d)'
  BY DEF Researches, Runs, Sound, Linked, HasJob, Of, ReqAt
<1> QED
  BY <1>1, <1>2, <1>3, <1>6, <1>7, <1>8, <1>9, <1>10, <1>11, <1>12, Worked

LEMMA AfterRunStep ==
  ASSUME ResearchInv, NEW d \in Docs, AfterRun(d)
  PROVE  ResearchInv'
<1>0. StoreTyped /\ CountsTyped /\ Sound(d)
  BY DEF ResearchInv
<1> USE <1>0 DEF AfterRun, Again, Later, Return, NoRun, outside, StoreTyped
<1>1. request' = request /\ overtaken' = overtaken /\ HistoryFrame(d)
  BY DEF CountsTyped, HistoryFrame
<1>2. DocFrame(d)
  <2>1. doc' = [doc EXCEPT ![d] = doc'[d]] /\ run' = [run EXCEPT ![d] = run'[d]]
    OBVIOUS
  <2>2. /\ job' = [job EXCEPT ![d] = job'[d]]
        /\ controller' = [controller EXCEPT ![d] = controller'[d]]
    OBVIOUS
  <2>3. stopping' = stopping /\ requests' \in 0..MaxRequests /\ faults' \in 0..MaxFaults
    BY NumbersAssumption DEF CountsTyped
  <2> QED
    BY <2>1, <2>2, <2>3 DEF DocFrame
<1>3. JoinFrame(d) /\ JobFrame(d)
  BY DEF Researches, JoinFrame, JobFrame, Sound, Linked
<1>4. doc'[d] \in Researches
  BY DEF Researches, Modes, Statuses
<1>5. run'[d] \in Runs
  <2>1. run'[d] = NoRun \/ run'[d] = [NoRun EXCEPT !.step = "complete"]
    OBVIOUS
  <2>2. run[d] \in Runs /\ doc[d] \in Researches
    OBVIOUS
  <2> HIDE DEF AfterRun, Again, Later, Return, NoRun, StoreTyped
  <2> QED
    BY <2>1, <2>2, RunRecords
<1>6. FieldsTyped(d)
  BY <1>4, <1>5 DEF FieldsTyped
<1>7. Linked(d)' /\ RunsOnlyExecuted(d)'
  BY DEF Runs, Sound, Linked, RunsOnlyExecuted, Executed
<1>8. Blank(d)'
  <2>1. doc' = doc
    OBVIOUS
  <2> HIDE DEF AfterRun
  <2> QED
    BY <2>1 DEF Sound, Blank, Exists
<1>9. Known(d)'
  BY DEF Researches, Runs, Sound, Known
<1>10. Shown(d)'
  BY DEF Researches, Runs, Sound, Known, Shown
<1>11. Controlled(d)' /\ Stopped(d)'
  BY DEF Researches, Runs, Sound, Controlled, Stopped, Of, ReqAt
<1>12. HasJob(d)'
  BY DEF Researches, Runs, Sound, Linked, HasJob, Of, ReqAt
<1> QED
  BY <1>1, <1>2, <1>3, <1>6, <1>7, <1>8, <1>9, <1>10, <1>11, <1>12, Worked

LEMMA JobCompletesStep ==
  ASSUME ResearchInv, NEW d \in Docs, JobCompletes(d)
  PROVE  ResearchInv'
<1>0. StoreTyped /\ CountsTyped /\ Sound(d)
  BY DEF ResearchInv
<1> USE <1>0 DEF JobCompletes, NoRun, outside, StoreTyped
<1>1. request' = request /\ overtaken' = overtaken /\ HistoryFrame(d)
  BY DEF CountsTyped, HistoryFrame
<1>2. DocFrame(d)
  <2>1. doc' = [doc EXCEPT ![d] = doc'[d]] /\ run' = [run EXCEPT ![d] = run'[d]]
    OBVIOUS
  <2>2. /\ job' = [job EXCEPT ![d] = job'[d]]
        /\ controller' = [controller EXCEPT ![d] = controller'[d]]
    OBVIOUS
  <2>3. stopping' = stopping /\ requests' \in 0..MaxRequests /\ faults' \in 0..MaxFaults
    BY NumbersAssumption DEF CountsTyped
  <2> QED
    BY <2>1, <2>2, <2>3 DEF DocFrame
<1>3. JoinFrame(d) /\ JobFrame(d)
  BY DEF Researches, JoinFrame, JobFrame, Sound, Linked
<1>4. doc'[d] \in Researches
  BY DEF Researches, Modes, Statuses
<1>5. run'[d] \in Runs
  BY DEF Researches, Runs, Modes
<1>6. FieldsTyped(d)
  BY <1>4, <1>5 DEF FieldsTyped
<1>7. Linked(d)' /\ RunsOnlyExecuted(d)'
  BY DEF Runs, Sound, Linked, RunsOnlyExecuted, Executed
<1>8. Blank(d)'
  BY DEF Researches, Runs, Sound, Blank, Exists
<1>9. Known(d)'
  BY DEF Researches, Runs, Sound, Known
<1>10. Shown(d)'
  BY DEF Researches, Runs, Sound, Known, Shown
<1>11. Controlled(d)' /\ Stopped(d)'
  BY DEF Researches, Runs, Sound, Controlled, Stopped, Of, ReqAt
<1>12. HasJob(d)'
  BY DEF Researches, Runs, Sound, Linked, HasJob, Of, ReqAt
<1> QED
  BY <1>1, <1>2, <1>3, <1>6, <1>7, <1>8, <1>9, <1>10, <1>11, <1>12, Worked

LEMMA DelayFailsStep ==
  ASSUME ResearchInv, NEW d \in Docs, DelayFails(d)
  PROVE  ResearchInv'
<1>0. StoreTyped /\ CountsTyped /\ Sound(d)
  BY DEF ResearchInv
<1> USE <1>0 DEF DelayFails, Taken, HasRoom, Fault, NoRun, StoreTyped
<1>1. request' = request /\ overtaken' = overtaken /\ HistoryFrame(d)
  BY DEF CountsTyped, HistoryFrame
<1>2. DocFrame(d)
  <2>1. doc' = [doc EXCEPT ![d] = doc'[d]] /\ run' = [run EXCEPT ![d] = run'[d]]
    OBVIOUS
  <2>2. /\ job' = [job EXCEPT ![d] = job'[d]]
        /\ controller' = [controller EXCEPT ![d] = controller'[d]]
    OBVIOUS
  <2>3. stopping' = stopping /\ requests' \in 0..MaxRequests /\ faults' \in 0..MaxFaults
    BY NumbersAssumption DEF CountsTyped
  <2> QED
    BY <2>1, <2>2, <2>3 DEF DocFrame
<1>3. JoinFrame(d) /\ JobFrame(d)
  BY DEF Researches, JoinFrame, JobFrame, Sound, Linked
<1>4. doc'[d] \in Researches
  BY DEF Researches, Modes, Statuses
<1>5. run'[d] \in Runs
  BY DEF Researches, Runs, Modes
<1>6. FieldsTyped(d)
  BY <1>4, <1>5 DEF FieldsTyped
<1>7. Linked(d)' /\ RunsOnlyExecuted(d)'
  BY DEF Runs, Sound, Linked, RunsOnlyExecuted, Executed
<1>8. Blank(d)'
  BY DEF Researches, Runs, Sound, Blank, Exists
<1>9. Known(d)'
  BY DEF Researches, Runs, Sound, Known
<1>10. Shown(d)'
  BY DEF Researches, Runs, Sound, Known, Shown
<1>11. Controlled(d)' /\ Stopped(d)'
  BY DEF Researches, Runs, Sound, Controlled, Stopped, Of, ReqAt
<1>12. HasJob(d)'
  BY DEF Researches, Runs, Sound, Linked, HasJob, Of, ReqAt
<1> QED
  BY <1>1, <1>2, <1>3, <1>6, <1>7, <1>8, <1>9, <1>10, <1>11, <1>12, Worked

LEMMA LoadRunStep ==
  ASSUME ResearchInv, NEW d \in Docs, LoadRun(d)
  PROVE  ResearchInv'
<1>0. StoreTyped /\ CountsTyped /\ Sound(d)
  BY DEF ResearchInv
<1> USE <1>0 DEF LoadRun, Exists, Goto, outside, StoreTyped
<1>1. request' = request /\ overtaken' = overtaken /\ HistoryFrame(d)
  BY DEF CountsTyped, HistoryFrame
<1>2. DocFrame(d)
  <2>1. doc' = [doc EXCEPT ![d] = doc'[d]] /\ run' = [run EXCEPT ![d] = run'[d]]
    OBVIOUS
  <2>2. /\ job' = [job EXCEPT ![d] = job'[d]]
        /\ controller' = [controller EXCEPT ![d] = controller'[d]]
    OBVIOUS
  <2>3. stopping' = stopping /\ requests' \in 0..MaxRequests /\ faults' \in 0..MaxFaults
    BY NumbersAssumption DEF CountsTyped
  <2> QED
    BY <2>1, <2>2, <2>3 DEF DocFrame
<1>3. JoinFrame(d) /\ JobFrame(d)
  <2>1. run'[d].step # "claim" /\ (doc'[d].status = "queued" => doc'[d] = doc[d])
    BY DEF Researches, Runs
  <2>2. JobFrame(d)
    BY DEF JobFrame, Sound, Linked
  <2> HIDE DEF LoadRun, Exists, Goto, outside, StoreTyped
  <2> QED
    BY <2>1, <2>2 DEF JoinFrame
<1>4. doc'[d] \in Researches
  BY DEF Researches, Modes, Statuses
<1>5. run'[d] \in Runs
  <2> DEFINE begun == [step |-> "begun", mode |-> doc[d].mode,
                       content |-> doc[d].content,
                       round |-> IF doc[d].unfinished THEN "on" ELSE "none"]
  <2>1. \/ run'[d] = [run[d] EXCEPT !.step = "after"]
        \/ run'[d] = begun
    OBVIOUS
  <2>2. run[d] \in Runs /\ doc[d] \in Researches
    OBVIOUS
  <2> HIDE DEF LoadRun, Goto, StoreTyped
  <2>3. CASE run'[d] = [run[d] EXCEPT !.step = "after"]
    BY <2>2, <2>3 DEF Runs, Researches
  <2>4. CASE run'[d] = begun
    BY <2>2, <2>4 DEF Runs, Researches
  <2> QED
    BY <2>1, <2>3, <2>4
<1>6. FieldsTyped(d)
  BY <1>4, <1>5 DEF FieldsTyped
<1>7. Linked(d)' /\ RunsOnlyExecuted(d)'
  BY DEF Runs, Sound, Linked, RunsOnlyExecuted, Executed
<1>8. Blank(d)'
  BY DEF Researches, Runs, Sound, Blank, Exists
<1>9. Known(d)'
  BY DEF Researches, Runs, Sound, Known
<1>10. Shown(d)'
  BY DEF Researches, Runs, Sound, Known, Shown
<1>11. Controlled(d)' /\ Stopped(d)'
  BY DEF Researches, Runs, Sound, Controlled, Stopped, Of, ReqAt
<1>12. HasJob(d)'
  BY DEF Researches, Runs, Sound, Linked, HasJob, Of, ReqAt
<1> QED
  BY <1>1, <1>2, <1>3, <1>6, <1>7, <1>8, <1>9, <1>10, <1>11, <1>12, Worked

LEMMA NoOwnerStep ==
  ASSUME ResearchInv, NEW d \in Docs, NoOwner(d)
  PROVE  ResearchInv'
<1>0. StoreTyped /\ CountsTyped /\ Sound(d)
  BY DEF ResearchInv
<1> USE <1>0 DEF NoOwner, Exists, Goto, Failed, NoFlags, Fault, StoreTyped
<1>1. request' = request /\ overtaken' = overtaken /\ HistoryFrame(d)
  BY DEF CountsTyped, HistoryFrame
<1>2. DocFrame(d)
  <2>1. doc' = [doc EXCEPT ![d] = doc'[d]] /\ run' = [run EXCEPT ![d] = run'[d]]
    OBVIOUS
  <2>2. /\ job' = [job EXCEPT ![d] = job'[d]]
        /\ controller' = [controller EXCEPT ![d] = controller'[d]]
    OBVIOUS
  <2>3. stopping' = stopping /\ requests' \in 0..MaxRequests /\ faults' \in 0..MaxFaults
    BY NumbersAssumption DEF CountsTyped
  <2> QED
    BY <2>1, <2>2, <2>3 DEF DocFrame
<1>3. JoinFrame(d) /\ JobFrame(d)
  BY DEF Researches, JoinFrame, JobFrame, Sound, Linked
<1>4. doc'[d] \in Researches
  BY DEF Researches, Modes, Statuses
<1>5. run'[d] \in Runs
  BY DEF Researches, Runs, Modes
<1>6. FieldsTyped(d)
  BY <1>4, <1>5 DEF FieldsTyped
<1>7. Linked(d)' /\ RunsOnlyExecuted(d)'
  BY DEF Runs, Sound, Linked, RunsOnlyExecuted, Executed
<1>8. Blank(d)'
  BY DEF Researches, Runs, Sound, Blank, Exists
<1>9. Known(d)'
  BY DEF Researches, Runs, Sound, Known
<1>10. Shown(d)'
  BY DEF Researches, Runs, Sound, Known, Shown
<1>11. Controlled(d)' /\ Stopped(d)'
  BY DEF Researches, Runs, Sound, Controlled, Stopped, Of, ReqAt
<1>12. HasJob(d)'
  BY DEF Researches, Runs, Sound, Linked, HasJob, Of, ReqAt
<1> QED
  BY <1>1, <1>2, <1>3, <1>6, <1>7, <1>8, <1>9, <1>10, <1>11, <1>12, Worked

LEMMA RereadStep ==
  ASSUME ResearchInv, NEW d \in Docs, Reread(d)
  PROVE  ResearchInv'
<1>0. StoreTyped /\ CountsTyped /\ Sound(d)
  BY DEF ResearchInv
<1> USE <1>0 DEF Reread, MayWork, Exists, Goto, outside, StoreTyped
<1>1. request' = request /\ overtaken' = overtaken /\ HistoryFrame(d)
  BY DEF CountsTyped, HistoryFrame
<1>2. DocFrame(d)
  <2>1. doc' = [doc EXCEPT ![d] = doc'[d]] /\ run' = [run EXCEPT ![d] = run'[d]]
    OBVIOUS
  <2>2. /\ job' = [job EXCEPT ![d] = job'[d]]
        /\ controller' = [controller EXCEPT ![d] = controller'[d]]
    OBVIOUS
  <2>3. stopping' = stopping /\ requests' \in 0..MaxRequests /\ faults' \in 0..MaxFaults
    BY NumbersAssumption DEF CountsTyped
  <2> QED
    BY <2>1, <2>2, <2>3 DEF DocFrame
<1>3. JoinFrame(d) /\ JobFrame(d)
  <2>1. run'[d].step # "claim" /\ (doc'[d].status = "queued" => doc'[d] = doc[d])
    BY DEF Researches, Runs
  <2>2. JobFrame(d)
    BY DEF JobFrame, Sound, Linked
  <2> HIDE DEF Reread, MayWork, Exists, Goto, outside, StoreTyped
  <2> QED
    BY <2>1, <2>2 DEF JoinFrame
<1>4. doc'[d] \in Researches
  BY DEF Researches, Modes, Statuses
<1>5. run'[d] \in Runs
  <2>1. \/ run'[d] = [run[d] EXCEPT !.step = "work"]
        \/ run'[d] = [run[d] EXCEPT !.step = "interrupted"]
    OBVIOUS
  <2>2. run[d] \in Runs /\ doc[d] \in Researches
    OBVIOUS
  <2> HIDE DEF Reread, MayWork, Goto, StoreTyped
  <2>3. CASE run'[d] = [run[d] EXCEPT !.step = "work"]
    BY <2>2, <2>3 DEF Runs
  <2>4. CASE run'[d] = [run[d] EXCEPT !.step = "interrupted"]
    BY <2>2, <2>4 DEF Runs
  <2> QED
    BY <2>1, <2>3, <2>4
<1>6. FieldsTyped(d)
  BY <1>4, <1>5 DEF FieldsTyped
<1>7. Linked(d)' /\ RunsOnlyExecuted(d)'
  BY DEF Runs, Sound, Linked, RunsOnlyExecuted, Executed
<1>8. Blank(d)'
  BY DEF Researches, Runs, Sound, Blank, Exists
<1>9. Known(d)'
  BY DEF Researches, Runs, Sound, Known
<1>10. Shown(d)'
  BY DEF Researches, Runs, Sound, Known, Shown
<1>11. Controlled(d)' /\ Stopped(d)'
  BY DEF Researches, Runs, Sound, Controlled, Stopped, Of, ReqAt
<1>12. HasJob(d)'
  BY DEF Researches, Runs, Sound, Linked, HasJob, Of, ReqAt
<1> QED
  BY <1>1, <1>2, <1>3, <1>6, <1>7, <1>8, <1>9, <1>10, <1>11, <1>12, Worked

LEMMA StartRoundStep ==
  ASSUME ResearchInv, NEW d \in Docs, StartRound(d)
  PROVE  ResearchInv'
<1>0. StoreTyped /\ CountsTyped /\ Sound(d)
  BY DEF ResearchInv
<1> USE <1>0 DEF StartRound, Patch, Exists, outside, StoreTyped
<1>1. request' = request /\ overtaken' = overtaken /\ HistoryFrame(d)
  BY DEF CountsTyped, HistoryFrame
<1>2. DocFrame(d)
  <2>1. doc' = [doc EXCEPT ![d] = doc'[d]] /\ run' = [run EXCEPT ![d] = run'[d]]
    OBVIOUS
  <2>2. /\ job' = [job EXCEPT ![d] = job'[d]]
        /\ controller' = [controller EXCEPT ![d] = controller'[d]]
    OBVIOUS
  <2>3. stopping' = stopping /\ requests' \in 0..MaxRequests /\ faults' \in 0..MaxFaults
    BY NumbersAssumption DEF CountsTyped
  <2> QED
    BY <2>1, <2>2, <2>3 DEF DocFrame
<1>3. JoinFrame(d) /\ JobFrame(d)
  BY DEF Researches, JoinFrame, JobFrame, Sound, Linked
<1>4. doc'[d] \in Researches
  BY DEF Researches, Modes, Statuses
<1>5. run'[d] \in Runs
  BY DEF Researches, Runs, Modes
<1>6. FieldsTyped(d)
  BY <1>4, <1>5 DEF FieldsTyped
<1>7. Linked(d)' /\ RunsOnlyExecuted(d)'
  BY DEF Runs, Sound, Linked, RunsOnlyExecuted, Executed
<1>8. Blank(d)'
  BY DEF Researches, Runs, Sound, Blank, Exists
<1>9. Known(d)'
  BY DEF Researches, Runs, Sound, Known
<1>10. Shown(d)'
  BY DEF Researches, Runs, Sound, Known, Shown
<1>11. Controlled(d)' /\ Stopped(d)'
  BY DEF Researches, Runs, Sound, Controlled, Stopped, Of, ReqAt
<1>12. HasJob(d)'
  BY DEF Researches, Runs, Sound, Linked, HasJob, Of, ReqAt
<1> QED
  BY <1>1, <1>2, <1>3, <1>6, <1>7, <1>8, <1>9, <1>10, <1>11, <1>12, Worked

LEMMA EndRoundStep ==
  ASSUME ResearchInv, NEW d \in Docs, EndRound(d)
  PROVE  ResearchInv'
<1>0. StoreTyped /\ CountsTyped /\ Sound(d)
  BY DEF ResearchInv
<1> USE <1>0 DEF EndRound, RoundSaved, Patch, Exists, outside, StoreTyped
<1>1. request' = request /\ overtaken' = overtaken /\ HistoryFrame(d)
  BY DEF CountsTyped, HistoryFrame
<1>2. DocFrame(d)
  <2>1. doc' = [doc EXCEPT ![d] = doc'[d]] /\ run' = [run EXCEPT ![d] = run'[d]]
    OBVIOUS
  <2>2. /\ job' = [job EXCEPT ![d] = job'[d]]
        /\ controller' = [controller EXCEPT ![d] = controller'[d]]
    OBVIOUS
  <2>3. stopping' = stopping /\ requests' \in 0..MaxRequests /\ faults' \in 0..MaxFaults
    BY NumbersAssumption DEF CountsTyped
  <2> QED
    BY <2>1, <2>2, <2>3 DEF DocFrame
<1>3. JoinFrame(d) /\ JobFrame(d)
  BY DEF Researches, JoinFrame, JobFrame, Sound, Linked
<1>4. doc'[d] \in Researches
  BY DEF Researches, Modes, Statuses
<1>5. run'[d] \in Runs
  BY DEF Researches, Runs, Modes
<1>6. FieldsTyped(d)
  BY <1>4, <1>5 DEF FieldsTyped
<1>7. Linked(d)' /\ RunsOnlyExecuted(d)'
  BY DEF Runs, Sound, Linked, RunsOnlyExecuted, Executed
<1>8. Blank(d)'
  BY DEF Researches, Runs, Sound, Blank, Exists
<1>9. Known(d)'
  BY DEF Researches, Runs, Sound, Known
<1>10. Shown(d)'
  BY DEF Researches, Runs, Sound, Known, Shown
<1>11. Controlled(d)' /\ Stopped(d)'
  BY DEF Researches, Runs, Sound, Controlled, Stopped, Of, ReqAt
<1>12. HasJob(d)'
  BY DEF Researches, Runs, Sound, Linked, HasJob, Of, ReqAt
<1> QED
  BY <1>1, <1>2, <1>3, <1>6, <1>7, <1>8, <1>9, <1>10, <1>11, <1>12, Worked

LEMMA RoundFailsStep ==
  ASSUME ResearchInv, NEW d \in Docs, RoundFails(d)
  PROVE  ResearchInv'
<1>0. StoreTyped /\ CountsTyped /\ Sound(d)
  BY DEF ResearchInv
<1> USE <1>0 DEF RoundFails, RoundSaved, Patch, Exists, outside, StoreTyped
<1>1. request' = request /\ overtaken' = overtaken /\ HistoryFrame(d)
  BY DEF CountsTyped, HistoryFrame
<1>2. DocFrame(d)
  <2>1. doc' = [doc EXCEPT ![d] = doc'[d]] /\ run' = [run EXCEPT ![d] = run'[d]]
    OBVIOUS
  <2>2. /\ job' = [job EXCEPT ![d] = job'[d]]
        /\ controller' = [controller EXCEPT ![d] = controller'[d]]
    OBVIOUS
  <2>3. stopping' = stopping /\ requests' \in 0..MaxRequests /\ faults' \in 0..MaxFaults
    BY NumbersAssumption DEF CountsTyped
  <2> QED
    BY <2>1, <2>2, <2>3 DEF DocFrame
<1>3. JoinFrame(d) /\ JobFrame(d)
  BY DEF Researches, JoinFrame, JobFrame, Sound, Linked
<1>4. doc'[d] \in Researches
  BY DEF Researches, Modes, Statuses
<1>5. run'[d] \in Runs
  BY DEF Researches, Runs, Modes
<1>6. FieldsTyped(d)
  BY <1>4, <1>5 DEF FieldsTyped
<1>7. Linked(d)' /\ RunsOnlyExecuted(d)'
  BY DEF Runs, Sound, Linked, RunsOnlyExecuted, Executed
<1>8. Blank(d)'
  BY DEF Researches, Runs, Sound, Blank, Exists
<1>9. Known(d)'
  BY DEF Researches, Runs, Sound, Known
<1>10. Shown(d)'
  BY DEF Researches, Runs, Sound, Known, Shown
<1>11. Controlled(d)' /\ Stopped(d)'
  BY DEF Researches, Runs, Sound, Controlled, Stopped, Of, ReqAt
<1>12. HasJob(d)'
  BY DEF Researches, Runs, Sound, Linked, HasJob, Of, ReqAt
<1> QED
  BY <1>1, <1>2, <1>3, <1>6, <1>7, <1>8, <1>9, <1>10, <1>11, <1>12, Worked

LEMMA InterruptStep ==
  ASSUME ResearchInv, NEW d \in Docs, Interrupt(d)
  PROVE  ResearchInv'
<1>0. StoreTyped /\ CountsTyped /\ Sound(d)
  BY DEF ResearchInv
<1> USE <1>0 DEF Interrupt, Goto, Patch, Exists, outside, StoreTyped
<1>1. request' = request /\ overtaken' = overtaken /\ HistoryFrame(d)
  BY DEF CountsTyped, HistoryFrame
<1>2. DocFrame(d)
  <2>1. doc' = [doc EXCEPT ![d] = doc'[d]] /\ run' = [run EXCEPT ![d] = run'[d]]
    OBVIOUS
  <2>2. /\ job' = [job EXCEPT ![d] = job'[d]]
        /\ controller' = [controller EXCEPT ![d] = controller'[d]]
    OBVIOUS
  <2>3. stopping' = stopping /\ requests' \in 0..MaxRequests /\ faults' \in 0..MaxFaults
    BY NumbersAssumption DEF CountsTyped
  <2> QED
    BY <2>1, <2>2, <2>3 DEF DocFrame
<1>3. JoinFrame(d) /\ JobFrame(d)
  BY DEF Researches, JoinFrame, JobFrame, Sound, Linked
<1>4. doc'[d] \in Researches
  <2>1. doc'[d] = doc[d] \/ \E found \in BOOLEAN : doc'[d] = [doc[d] EXCEPT !.partial = found]
    BY DEF Researches
  <2>2. run[d] \in Runs /\ doc[d] \in Researches
    OBVIOUS
  <2> HIDE DEF Interrupt, Goto, Patch, StoreTyped
  <2> QED
    BY <2>1, <2>2 DEF Researches
<1>5. run'[d] \in Runs
  BY DEF Researches, Runs, Modes
<1>6. FieldsTyped(d)
  BY <1>4, <1>5 DEF FieldsTyped
<1>7. Linked(d)' /\ RunsOnlyExecuted(d)'
  BY DEF Runs, Sound, Linked, RunsOnlyExecuted, Executed
<1>8. Blank(d)'
  BY DEF Researches, Runs, Sound, Blank, Exists
<1>9. Known(d)'
  BY DEF Researches, Runs, Sound, Known
<1>10. Shown(d)'
  BY DEF Researches, Runs, Sound, Known, Shown
<1>11. Controlled(d)' /\ Stopped(d)'
  BY DEF Researches, Runs, Sound, Controlled, Stopped, Of, ReqAt
<1>12. HasJob(d)'
  BY DEF Researches, Runs, Sound, Linked, HasJob, Of, ReqAt
<1> QED
  BY <1>1, <1>2, <1>3, <1>6, <1>7, <1>8, <1>9, <1>10, <1>11, <1>12, Worked

LEMMA FinishStep ==
  ASSUME ResearchInv, NEW d \in Docs, Finish(d)
  PROVE  ResearchInv'
<1>0. StoreTyped /\ CountsTyped /\ Sound(d)
  BY DEF ResearchInv
<1> USE <1>0 DEF Finish, Settle, Patch, Exists, Goto, NoFlags, outside, StoreTyped
<1>1. request' = request /\ overtaken' = overtaken /\ HistoryFrame(d)
  BY DEF CountsTyped, HistoryFrame
<1>2. DocFrame(d)
  <2>1. doc' = [doc EXCEPT ![d] = doc'[d]] /\ run' = [run EXCEPT ![d] = run'[d]]
    OBVIOUS
  <2>2. /\ job' = [job EXCEPT ![d] = job'[d]]
        /\ controller' = [controller EXCEPT ![d] = controller'[d]]
    OBVIOUS
  <2>3. stopping' = stopping /\ requests' \in 0..MaxRequests /\ faults' \in 0..MaxFaults
    BY NumbersAssumption DEF CountsTyped
  <2> QED
    BY <2>1, <2>2, <2>3 DEF DocFrame
<1>3. JoinFrame(d) /\ JobFrame(d)
  BY DEF Researches, JoinFrame, JobFrame, Sound, Linked
<1>4. doc'[d] \in Researches
  BY DEF Researches, Modes, Statuses
<1>5. run'[d] \in Runs
  BY DEF Researches, Runs, Modes
<1>6. FieldsTyped(d)
  BY <1>4, <1>5 DEF FieldsTyped
<1>7. Linked(d)' /\ RunsOnlyExecuted(d)'
  BY DEF Runs, Sound, Linked, RunsOnlyExecuted, Executed
<1>8. Blank(d)'
  BY DEF Researches, Runs, Sound, Blank, Exists
<1>9. Known(d)'
  BY DEF Researches, Runs, Sound, Known
<1>10. Shown(d)'
  BY DEF Researches, Runs, Sound, Known, Shown
<1>11. Controlled(d)' /\ Stopped(d)'
  BY DEF Researches, Runs, Sound, Controlled, Stopped, Of, ReqAt
<1>12. HasJob(d)'
  BY DEF Researches, Runs, Sound, Linked, HasJob, Of, ReqAt
<1> QED
  BY <1>1, <1>2, <1>3, <1>6, <1>7, <1>8, <1>9, <1>10, <1>11, <1>12, Worked

LEMMA FailStep ==
  ASSUME ResearchInv, NEW d \in Docs, Fail(d)
  PROVE  ResearchInv'
<1>0. StoreTyped /\ CountsTyped /\ Sound(d)
  BY DEF ResearchInv
<1> USE <1>0 DEF Fail, Settle, Patch, Exists, Goto, Failed, NoFlags, outside, StoreTyped
<1>1. request' = request /\ overtaken' = overtaken /\ HistoryFrame(d)
  BY DEF CountsTyped, HistoryFrame
<1>2. DocFrame(d)
  <2>1. doc' = [doc EXCEPT ![d] = doc'[d]] /\ run' = [run EXCEPT ![d] = run'[d]]
    OBVIOUS
  <2>2. /\ job' = [job EXCEPT ![d] = job'[d]]
        /\ controller' = [controller EXCEPT ![d] = controller'[d]]
    OBVIOUS
  <2>3. stopping' = stopping /\ requests' \in 0..MaxRequests /\ faults' \in 0..MaxFaults
    BY NumbersAssumption DEF CountsTyped
  <2> QED
    BY <2>1, <2>2, <2>3 DEF DocFrame
<1>3. JoinFrame(d) /\ JobFrame(d)
  BY DEF Researches, JoinFrame, JobFrame, Sound, Linked
<1>4. doc'[d] \in Researches
  BY DEF Researches, Modes, Statuses
<1>5. run'[d] \in Runs
  BY DEF Researches, Runs, Modes
<1>6. FieldsTyped(d)
  BY <1>4, <1>5 DEF FieldsTyped
<1>7. Linked(d)' /\ RunsOnlyExecuted(d)'
  BY DEF Runs, Sound, Linked, RunsOnlyExecuted, Executed
<1>8. Blank(d)'
  BY DEF Researches, Runs, Sound, Blank, Exists
<1>9. Known(d)'
  BY DEF Researches, Runs, Sound, Known
<1>10. Shown(d)'
  BY DEF Researches, Runs, Sound, Known, Shown
<1>11. Controlled(d)' /\ Stopped(d)'
  BY DEF Researches, Runs, Sound, Controlled, Stopped, Of, ReqAt
<1>12. HasJob(d)'
  BY DEF Researches, Runs, Sound, Linked, HasJob, Of, ReqAt
<1> QED
  BY <1>1, <1>2, <1>3, <1>6, <1>7, <1>8, <1>9, <1>10, <1>11, <1>12, Worked

LEMMA OnInterruptedStep ==
  ASSUME ResearchInv, NEW d \in Docs, OnInterrupted(d)
  PROVE  ResearchInv'
<1>0. StoreTyped /\ CountsTyped /\ Sound(d)
  BY DEF ResearchInv
<1> USE <1>0 DEF OnInterrupted, Settle, Patch, Exists, Goto, Cancelled, NoFlags, outside,
       StoreTyped
<1>1. request' = request /\ overtaken' = overtaken /\ HistoryFrame(d)
  BY DEF CountsTyped, HistoryFrame
<1>2. DocFrame(d)
  <2>1. doc' = [doc EXCEPT ![d] = doc'[d]] /\ run' = [run EXCEPT ![d] = run'[d]]
    OBVIOUS
  <2>2. /\ job' = [job EXCEPT ![d] = job'[d]]
        /\ controller' = [controller EXCEPT ![d] = controller'[d]]
    OBVIOUS
  <2>3. stopping' = stopping /\ requests' \in 0..MaxRequests /\ faults' \in 0..MaxFaults
    BY NumbersAssumption DEF CountsTyped
  <2> QED
    BY <2>1, <2>2, <2>3 DEF DocFrame
<1>3. JoinFrame(d) /\ JobFrame(d)
  BY DEF Researches, JoinFrame, JobFrame, Sound, Linked
<1>4. doc'[d] \in Researches
  BY DEF Researches, Modes, Statuses
<1>5. run'[d] \in Runs
  BY DEF Researches, Runs, Modes
<1>6. FieldsTyped(d)
  BY <1>4, <1>5 DEF FieldsTyped
<1>7. Linked(d)' /\ RunsOnlyExecuted(d)'
  BY DEF Runs, Sound, Linked, RunsOnlyExecuted, Executed
<1>8. Blank(d)'
  BY DEF Researches, Runs, Sound, Blank, Exists
<1>9. Known(d)'
  BY DEF Researches, Runs, Sound, Known
<1>10. Shown(d)'
  BY DEF Researches, Runs, Sound, Known, Shown
<1>11. Controlled(d)' /\ Stopped(d)'
  BY DEF Researches, Runs, Sound, Controlled, Stopped, Of, ReqAt
<1>12. HasJob(d)'
  BY DEF Researches, Runs, Sound, Linked, HasJob, Of, ReqAt
<1> QED
  BY <1>1, <1>2, <1>3, <1>6, <1>7, <1>8, <1>9, <1>10, <1>11, <1>12, Worked

LEMMA StoreFailsStep ==
  ASSUME ResearchInv, NEW d \in Docs, StoreFails(d)
  PROVE  ResearchInv'
<1>0. StoreTyped /\ CountsTyped /\ Sound(d)
  BY DEF ResearchInv
<1> USE <1>0 DEF StoreFails, Patch, Exists, Goto, Failed, NoFlags, Fault, StoreTyped
<1>1. request' = request /\ overtaken' = overtaken /\ HistoryFrame(d)
  BY DEF CountsTyped, HistoryFrame
<1>2. DocFrame(d)
  <2>1. doc' = [doc EXCEPT ![d] = doc'[d]] /\ run' = [run EXCEPT ![d] = run'[d]]
    OBVIOUS
  <2>2. /\ job' = [job EXCEPT ![d] = job'[d]]
        /\ controller' = [controller EXCEPT ![d] = controller'[d]]
    OBVIOUS
  <2>3. stopping' = stopping /\ requests' \in 0..MaxRequests /\ faults' \in 0..MaxFaults
    BY NumbersAssumption DEF CountsTyped
  <2> QED
    BY <2>1, <2>2, <2>3 DEF DocFrame
<1>3. /\ doc'[d] = doc[d] \/ doc'[d] = Failed(d, run[d])
      /\ run'[d].step = "lost" \/ run'[d].step = "after"
      /\ run'[d].step = "after" => ~Exists(d) \/ doc'[d] = Failed(d, run[d])
      /\ (Exists(d) \/ doc'[d] = doc[d])
      /\ job' = job /\ stopping' = stopping /\ run[d].step # "none"
  BY DEF Runs
<1>4. JoinFrame(d) /\ JobFrame(d)
  <2> HIDE DEF StoreFails, Patch, Exists, Goto, Failed, NoFlags, Fault, StoreTyped
  <2> QED
    BY <1>0, <1>3, FailedTyped DEF JoinFrame, JobFrame
<1>5. doc'[d] \in Researches
  <2>1. doc'[d] = doc[d] \/ doc'[d] = Failed(d, run[d])
    OBVIOUS
  <2>2. run[d] \in Runs /\ doc[d] \in Researches
    OBVIOUS
  <2> HIDE DEF StoreFails, Patch, Goto, Failed, NoFlags, StoreTyped
  <2> QED
    BY <2>1, <2>2, FailedTyped, <1>0
<1>6. run'[d] \in Runs
  <2>1. \/ run'[d] = [run[d] EXCEPT !.step = "after"]
        \/ run'[d] = [run[d] EXCEPT !.step = "lost"]
    OBVIOUS
  <2>2. run[d] \in Runs /\ doc[d] \in Researches
    OBVIOUS
  <2> HIDE DEF StoreFails, Patch, Goto, Failed, NoFlags, StoreTyped
  <2>3. CASE run'[d] = [run[d] EXCEPT !.step = "after"]
    BY <2>2, <2>3 DEF Runs
  <2>4. CASE run'[d] = [run[d] EXCEPT !.step = "lost"]
    BY <2>2, <2>4 DEF Runs
  <2> QED
    BY <2>1, <2>3, <2>4
<1>7. FieldsTyped(d)
  BY <1>5, <1>6 DEF FieldsTyped
<1>8. Linked(d)' /\ RunsOnlyExecuted(d)'
  <2> HIDE DEF StoreFails, Patch, Exists, Goto, Failed, NoFlags, Fault, StoreTyped
  <2> QED
    BY <1>0, <1>3, FailedTyped DEF Sound, Linked, RunsOnlyExecuted, Executed, Exists
<1>9. Blank(d)'
  <2> HIDE DEF StoreFails, Patch, Exists, Goto, Failed, NoFlags, Fault, StoreTyped
  <2> QED
    BY <1>0, <1>3, FailedTyped DEF Sound, Blank, Exists
<1>10. Known(d)'
  BY DEF Researches, Runs, Sound, Known
<1>11. Shown(d)'
  BY DEF Researches, Runs, Sound, Known, Shown
<1>12. Controlled(d)' /\ Stopped(d)'
  BY DEF Researches, Runs, Sound, Controlled, Stopped, Of, ReqAt
<1>13. HasJob(d)'
  BY DEF Researches, Runs, Sound, Linked, HasJob, Of, ReqAt
<1> QED
  BY <1>1, <1>2, <1>4, <1>7, <1>8, <1>9, <1>10, <1>11, <1>12, <1>13, Worked

LEMMA RoundNotSavedStep ==
  ASSUME ResearchInv, NEW d \in Docs, RoundNotSaved(d)
  PROVE  ResearchInv'
<1>0. StoreTyped /\ CountsTyped /\ Sound(d)
  BY DEF ResearchInv
<1> USE <1>0 DEF RoundNotSaved, Fault, StoreTyped
<1>1. request' = request /\ overtaken' = overtaken /\ HistoryFrame(d)
  BY DEF CountsTyped, HistoryFrame
<1>2. DocFrame(d)
  <2>1. doc' = [doc EXCEPT ![d] = doc'[d]] /\ run' = [run EXCEPT ![d] = run'[d]]
    OBVIOUS
  <2>2. /\ job' = [job EXCEPT ![d] = job'[d]]
        /\ controller' = [controller EXCEPT ![d] = controller'[d]]
    OBVIOUS
  <2>3. stopping' = stopping /\ requests' \in 0..MaxRequests /\ faults' \in 0..MaxFaults
    BY NumbersAssumption DEF CountsTyped
  <2> QED
    BY <2>1, <2>2, <2>3 DEF DocFrame
<1>3. JoinFrame(d) /\ JobFrame(d)
  BY DEF Researches, JoinFrame, JobFrame, Sound, Linked
<1>4. doc'[d] \in Researches
  BY DEF Researches, Modes, Statuses
<1>5. run'[d] \in Runs
  BY DEF Researches, Runs, Modes
<1>6. FieldsTyped(d)
  BY <1>4, <1>5 DEF FieldsTyped
<1>7. Linked(d)' /\ RunsOnlyExecuted(d)'
  BY DEF Runs, Sound, Linked, RunsOnlyExecuted, Executed
<1>8. Blank(d)'
  BY DEF Researches, Runs, Sound, Blank, Exists
<1>9. Known(d)'
  BY DEF Researches, Runs, Sound, Known
<1>10. Shown(d)'
  BY DEF Researches, Runs, Sound, Known, Shown
<1>11. Controlled(d)' /\ Stopped(d)'
  BY DEF Researches, Runs, Sound, Controlled, Stopped, Of, ReqAt
<1>12. HasJob(d)'
  BY DEF Researches, Runs, Sound, Linked, HasJob, Of, ReqAt
<1> QED
  BY <1>1, <1>2, <1>3, <1>6, <1>7, <1>8, <1>9, <1>10, <1>11, <1>12, Worked

LEMMA LastResortStep ==
  ASSUME ResearchInv, NEW d \in Docs, LastResort(d)
  PROVE  ResearchInv'
<1>0. StoreTyped /\ CountsTyped /\ Sound(d)
  BY DEF ResearchInv
<1> USE <1>0 DEF LastResort, Patch, Exists, Goto, Failed, NoFlags, NoRun, outside, StoreTyped
<1>1. request' = request /\ overtaken' = overtaken /\ HistoryFrame(d)
  BY DEF CountsTyped, HistoryFrame
<1>2. DocFrame(d)
  <2>1. doc' = [doc EXCEPT ![d] = doc'[d]] /\ run' = [run EXCEPT ![d] = run'[d]]
    OBVIOUS
  <2>2. /\ job' = [job EXCEPT ![d] = job'[d]]
        /\ controller' = [controller EXCEPT ![d] = controller'[d]]
    OBVIOUS
  <2>3. stopping' = stopping /\ requests' \in 0..MaxRequests /\ faults' \in 0..MaxFaults
    BY NumbersAssumption DEF CountsTyped
  <2> QED
    BY <2>1, <2>2, <2>3 DEF DocFrame
<1>3. JoinFrame(d) /\ JobFrame(d)
  <2>1. run'[d].step # "claim" /\ (doc'[d].status = "queued" => doc'[d] = doc[d])
    <3>1. run'[d].step = "after"
      BY DEF Runs
    <3>2. doc'[d] = doc[d] \/ \E r \in {doc[d], NoRun} : doc'[d] = Failed(d, r)
      OBVIOUS
    <3> HIDE DEF LastResort, Patch, Exists, Goto, Failed, NoFlags, NoRun, outside, StoreTyped
    <3> QED
      BY <1>0, <3>1, <3>2, FailedTyped
  <2>2. JobFrame(d)
    BY DEF JobFrame, Sound, Linked
  <2> HIDE DEF LastResort, Patch, Exists, Goto, Failed, NoFlags, NoRun, outside, StoreTyped
  <2> QED
    BY <2>1, <2>2 DEF JoinFrame
<1>4. doc'[d] \in Researches
  <2>1. doc'[d] = doc[d] \/ \E r \in {doc[d], NoRun} : doc'[d] = Failed(d, r)
    OBVIOUS
  <2>2. run[d] \in Runs /\ doc[d] \in Researches
    OBVIOUS
  <2> HIDE DEF LastResort, Patch, Goto, Failed, NoFlags, NoRun, StoreTyped
  <2> QED
    BY <2>1, <2>2, FailedTyped, <1>0
<1>5. run'[d] \in Runs
  BY DEF Researches, Runs, Modes
<1>6. FieldsTyped(d)
  BY <1>4, <1>5 DEF FieldsTyped
<1>7. /\ run'[d].step = "after" /\ job' = job /\ stopping' = stopping /\ run[d].step = "lost"
      /\ \/ doc'[d] = doc[d] /\ (stopping \/ ~Exists(d) \/ d \in stranded')
         \/ Exists(d) /\ \E r \in {doc[d], NoRun} : doc'[d] = Failed(d, r)
  BY DEF Runs
<1>8. Linked(d)' /\ RunsOnlyExecuted(d)' /\ Blank(d)'
  <2> HIDE DEF LastResort, Patch, Exists, Goto, Failed, NoFlags, NoRun, outside, StoreTyped
  <2>1. CASE doc'[d] = doc[d] /\ (stopping \/ ~Exists(d) \/ d \in stranded')
    BY <1>0, <1>7, <2>1 DEF Sound, Linked, RunsOnlyExecuted, Blank, Exists
  <2>2. CASE Exists(d) /\ \E r \in {doc[d], NoRun} : doc'[d] = Failed(d, r)
    <3>1. doc'[d].status \in {"done", "failed"}
      BY <1>0, <2>2, FailedTyped
    <3> QED
      BY <1>0, <1>7, <3>1 DEF Sound, Linked, RunsOnlyExecuted, Blank, Exists
  <2> QED
    BY <1>7, <2>1, <2>2
<1>9. Known(d)'
  BY DEF Researches, Runs, Sound, Known
<1>10. Shown(d)'
  BY DEF Researches, Runs, Sound, Known, Shown
<1>11. Controlled(d)' /\ Stopped(d)'
  BY DEF Researches, Runs, Sound, Controlled, Stopped, Of, ReqAt
<1>12. HasJob(d)'
  BY DEF Researches, Runs, Sound, Linked, HasJob, Of, ReqAt
<1> QED
  BY <1>1, <1>2, <1>3, <1>6, <1>7, <1>8, <1>9, <1>10, <1>11, <1>12, Worked

-----------------------------------------------------------------------------
(* Requests *)

LEMMA IdleTyped == Idle \in Requests /\ Idle.step = "idle" /\ Absent \in Researches
<1>1. Absent \in Researches
  BY DEF Absent, Researches, Modes, Statuses
<1>2. (CHOOSE d \in Docs : TRUE) \in Docs
  BY DocsAssumption
<1> QED
  BY <1>1, <1>2 DEF Idle, Requests

LEMMA Requested ==
  ASSUME ResearchInv, NEW h \in Handlers, NEW d \in Docs, Of(h) = d \/ ReqAt(h, "idle"),
         request' = [request EXCEPT ![h] = request'[h]], request'[h] \in Requests, Steady(h)',
         DocFrame(d), HistoryFrame(d), JoinFrame(d), JobFrame(d), FieldsTyped(d),
         Linked(d)', Blank(d)', RunsOnlyExecuted(d)', Known(d)', Shown(d)', Controlled(d)',
         Stopped(d)', HasJob(d)'
  PROVE  ResearchInv'
<1>0. RequestsTyped
  BY DEF ResearchInv
<1>1. \A k \in Handlers : k # h => request'[k] = request[k]
  BY <1>0 DEF RequestsTyped
<1>2. RequestsTyped'
  <2>1. request' \in [Handlers -> Requests]
    BY <1>0 DEF RequestsTyped
  <2>2. \A k \in Handlers : Steady(k)'
    BY <1>0, <1>1 DEF RequestsTyped, Steady, ReqAt, Op, Seen
  <2> QED
    BY <2>1, <2>2 DEF RequestsTyped
<1>3. RequestFrame(d)
  BY <1>1 DEF RequestFrame
<1>4. Frame(d) /\ Sound(d)'
  BY <1>3 DEF Frame, Sound
<1> QED
  BY <1>2, <1>4, FramedStep

LEMMA Joined ==
  ASSUME CountsTyped, NEW d \in Docs, Joins(d)
  PROVE  /\ joined' \in [Docs -> SUBSET Docs]
         /\ \A e \in Docs : /\ joined[e] \subseteq joined'[e]
                            /\ run[e].step = "claim" => d \in joined'[e]
<1> QED
  BY DEF CountsTyped, Joins

LEMMA StartStep ==
  ASSUME ResearchInv, NEW h \in Handlers, NEW d \in Docs, NEW at \in Stamps, Start(h, d, at)
  PROVE  ResearchInv'
<1>0. /\ StoreTyped /\ CountsTyped /\ Sound(d)
      /\ request \in [Handlers -> Requests] /\ Steady(h)
  BY DEF ResearchInv, RequestsTyped
<1> USE <1>0 DEF Start, outside, Exists, Absent, StoreTyped, Op, Of, Seen, ReqAt
<1>1. HistoryFrame(d) /\ (Of(h) = d \/ ReqAt(h, "idle"))
  BY Joined DEF CountsTyped, HistoryFrame
<1>2. DocFrame(d)
  <2>1. doc' = [doc EXCEPT ![d] = doc'[d]] /\ run' = [run EXCEPT ![d] = run'[d]]
    OBVIOUS
  <2>2. /\ job' = [job EXCEPT ![d] = job'[d]]
        /\ controller' = [controller EXCEPT ![d] = controller'[d]]
    OBVIOUS
  <2>3. stopping' = stopping /\ requests' \in 0..MaxRequests /\ faults' \in 0..MaxFaults
    BY NumbersAssumption DEF CountsTyped
  <2> QED
    BY <2>1, <2>2, <2>3 DEF DocFrame
<1>3. JoinFrame(d) /\ JobFrame(d)
  <2>1. run' = run /\ job' = job /\ joined[d] \subseteq joined'[d]
    BY Joined
  <2>2. \A e \in Docs : run[e].step = "claim" => d \in joined'[e]
    BY Joined
  <2> HIDE DEF Start, Joins, outside, Exists, Absent, StoreTyped
  <2> QED
    BY <2>1, <2>2 DEF JoinFrame, JobFrame
<1>4. doc'[d] \in Researches
  <2>1. at \in Nat
    BY StampsAssumption
  <2> QED
    BY <2>1 DEF Researches, Modes, Statuses
<1>5. run'[d] \in Runs
  BY DEF Researches, Runs, Modes
<1>6. FieldsTyped(d)
  BY <1>4, <1>5 DEF FieldsTyped
<1>7. request' = [request EXCEPT ![h] = request'[h]]
  OBVIOUS
<1>8. request'[h] \in Requests
  BY <1>4, IdleTyped DEF Requests
<1>9. Steady(h)'
  BY IdleTyped DEF Steady, Researches
<1>10. Linked(d)' /\ RunsOnlyExecuted(d)'
  BY DEF Researches, Runs, Sound, Linked, RunsOnlyExecuted, Executed
<1>11. Blank(d)'
  BY DEF Researches, Runs, Sound, Blank, Exists
<1>12. Known(d)'
  BY DEF Researches, Runs, Sound, Known, Steady
<1>13. Shown(d)'
  BY DEF Researches, Runs, Sound, Known, Shown, Steady
<1>14. Controlled(d)' /\ Stopped(d)'
  BY DEF Researches, Runs, Sound, Controlled, Stopped, Steady
<1>15. HasJob(d)'
  BY DEF Researches, Runs, Sound, Linked, HasJob
<1> QED
  BY <1>1, <1>2, <1>3, <1>6, <1>7, <1>8, <1>9, <1>10, <1>11, <1>12, <1>13, <1>14, <1>15, Requested

LEMMA FirstSteps ==
  ASSUME NEW op \in Ops, NEW r \in Researches, FirstStep(op, r) # "conflict"
  PROVE  \/ /\ FirstStep(op, r) \in {"transition", "flag", "removeJob"}
            /\ op \in {"cancel", "pause", "remove"}
            /\ op # "remove" /\ FirstStep(op, r) = "removeJob" => r.status # "running"
         \/ /\ FirstStep(op, r) = "patch"
            /\ \/ op = "resume" /\ r.status \in {"paused", "failed"}
               \/ op = "retry" /\ r.status \in {"failed", "cancelled"}
               \/ op = "deepen" /\ r.status = "done"
<1> QED
  BY DEF FirstStep, Ops, Researches

LEMMA LoadStep ==
  ASSUME ResearchInv, NEW h \in Handlers, NEW d \in Docs, NEW op \in Ops, Load(h, d, op)
  PROVE  ResearchInv'
<1>0. /\ StoreTyped /\ CountsTyped /\ Sound(d)
      /\ request \in [Handlers -> Requests] /\ Steady(h)
  BY DEF ResearchInv, RequestsTyped
<1> USE <1>0 DEF Load, Exists, StoreTyped, Op, Of, Seen, ReqAt
<1>1. HistoryFrame(d) /\ (Of(h) = d \/ ReqAt(h, "idle"))
  BY DEF CountsTyped, HistoryFrame
<1>2. DocFrame(d)
  <2>1. doc' = [doc EXCEPT ![d] = doc'[d]] /\ run' = [run EXCEPT ![d] = run'[d]]
    OBVIOUS
  <2>2. /\ job' = [job EXCEPT ![d] = job'[d]]
        /\ controller' = [controller EXCEPT ![d] = controller'[d]]
    OBVIOUS
  <2>3. stopping' = stopping /\ requests' \in 0..MaxRequests /\ faults' \in 0..MaxFaults
    BY NumbersAssumption DEF CountsTyped
  <2> QED
    BY <2>1, <2>2, <2>3 DEF DocFrame
<1>3. JoinFrame(d) /\ JobFrame(d)
  BY DEF Researches, JoinFrame, JobFrame, Sound, Linked
<1>4. doc'[d] \in Researches
  BY DEF Researches, Requests, Modes, Statuses
<1>5. run'[d] \in Runs
  BY DEF Researches, Runs, Modes
<1>6. FieldsTyped(d)
  BY <1>4, <1>5 DEF FieldsTyped
<1>7. request' = [request EXCEPT ![h] = request'[h]]
  OBVIOUS
<1>8. /\ request'[h] = [op |-> op, doc |-> d, step |-> FirstStep(op, doc[d]), seen |-> doc[d]]
      /\ doc[d] \in Researches /\ FirstStep(op, doc[d]) # "conflict"
  OBVIOUS
<1>9. request'[h] \in Requests
  <2> HIDE DEF Load
  <2> QED
    BY <1>8, FirstSteps DEF Requests
<1>10. Steady(h)'
  <2> HIDE DEF Load
  <2> QED
    BY <1>8, FirstSteps DEF Steady
<1>11. Linked(d)' /\ RunsOnlyExecuted(d)'
  BY DEF Researches, Runs, Sound, Linked, RunsOnlyExecuted, Executed
<1>12. Blank(d)'
  BY DEF Researches, Runs, Sound, Blank, Exists
<1>13. Known(d)'
  BY DEF Researches, Runs, Sound, Known, Steady
<1>14. Shown(d)'
  BY DEF Researches, Runs, Sound, Known, Shown, Steady
<1>15. Controlled(d)' /\ Stopped(d)'
  BY DEF Researches, Runs, Sound, Controlled, Stopped, Steady
<1>16. HasJob(d)'
  BY DEF Researches, Runs, Sound, Linked, HasJob
<1> QED
  BY <1>1, <1>2, <1>3, <1>6, <1>7, <1>9, <1>10, <1>11, <1>12, <1>13, <1>14, <1>15, <1>16, Requested

Leaves(op, r, seen) == [Withdrawn(op, r, seen) EXCEPT !.at = 0]
LEMMA LeavesTheQueue ==
  ASSUME NEW op \in {"cancel", "pause", "remove"}, NEW r \in Researches, NEW seen \in Researches,
         NEW w, w = Leaves(op, r, seen)
  PROVE  /\ w \in Researches /\ w.at = 0 /\ w.content = r.content
         /\ w.status \in {"done", "cancelled", "paused"}
         /\ w.status = "done" => op = "cancel" /\ seen.content /\ ~w.unfinished
         /\ op = "cancel" /\ w.status # "done" => ~seen.content
         /\ op = "pause" => w.status = "paused" /\ w.mode = r.mode
<1>1. CASE op = "cancel"
  BY <1>1 DEF Leaves, Withdrawn, Cancelled, NoFlags, Researches, Modes, Statuses
<1>2. CASE op = "pause"
  BY <1>2 DEF Leaves, Withdrawn, Researches, Statuses
<1>3. CASE op = "remove"
  BY <1>3 DEF Leaves, Withdrawn, NoFlags, Researches, Statuses
<1> QED
  BY <1>1, <1>2, <1>3

LEMMA TransitionStep ==
  ASSUME ResearchInv, NEW h \in Handlers, NEW d \in Docs, d = Of(h), Transition(h)
  PROVE  ResearchInv'
<1>0. /\ StoreTyped /\ CountsTyped /\ Sound(d)
      /\ request \in [Handlers -> Requests] /\ Steady(h)
  BY DEF ResearchInv, RequestsTyped
<1>1. /\ ReqAt(h, "transition") /\ Op(h) \in {"cancel", "pause", "remove"}
      /\ doc[d] \in Researches /\ Seen(h) \in Researches
      /\ UNCHANGED <<job, run, controller, stopping, requests, faults, spoilt, missed, stranded,
                     joined>>
  BY <1>0 DEF Transition, StoreTyped, Steady, ReqAt, Requests, Op, Seen
<1>2. PICK w : w = Leaves(Op(h), doc[d], Seen(h))
  OBVIOUS
<1>3. \/ /\ doc[d].status = "queued"
         /\ doc' = [doc EXCEPT ![d] = w]
         /\ overtaken' = overtaken \/ overtaken' = overtaken \cup {d}
         /\ d \notin overtaken' => Op(h) # "remove" /\ doc[d] = Seen(h)
         /\ request' = [request EXCEPT ![h].step = "removeJob", ![h].seen = w]
      \/ /\ doc[d].status # "queued" /\ doc' = doc /\ overtaken' = overtaken
         /\ request' = [request EXCEPT ![h].step = "flag", ![h].seen = Absent]
  BY <1>0, <1>2 DEF Leaves, Transition, StoreTyped, Patch, Exists, Then, Overtakes, Of
<1>4. /\ w \in Researches /\ w.at = 0 /\ w.content = doc[d].content
      /\ w.status \in {"done", "cancelled", "paused"}
      /\ w.status = "done" => Op(h) = "cancel" /\ Seen(h).content /\ ~w.unfinished
      /\ Op(h) = "cancel" /\ w.status # "done" => ~Seen(h).content
      /\ Op(h) = "pause" => w.status = "paused" /\ w.mode = doc[d].mode
  <2>1. PICK op \in {"cancel", "pause", "remove"}, r \in Researches, seen \in Researches :
          op = Op(h) /\ r = doc[d] /\ seen = Seen(h)
    BY <1>1
  <2>2. w = Leaves(op, r, seen)
    BY <1>2, <2>1
  <2>3. /\ w \in Researches /\ w.at = 0 /\ w.content = r.content
        /\ w.status \in {"done", "cancelled", "paused"}
        /\ w.status = "done" => op = "cancel" /\ seen.content /\ ~w.unfinished
        /\ op = "cancel" /\ w.status # "done" => ~seen.content
        /\ op = "pause" => w.status = "paused" /\ w.mode = r.mode
    BY <2>2, LeavesTheQueue
  <2> QED
    BY <2>1, <2>3
<1> USE <1>0, <1>1, <1>3, <1>4 DEF Exists, StoreTyped, Op, Of, Seen, ReqAt
<1>5. HistoryFrame(d) /\ (Of(h) = d \/ ReqAt(h, "idle"))
  BY DEF CountsTyped, HistoryFrame
<1>6. DocFrame(d)
  <2>1. doc' = [doc EXCEPT ![d] = doc'[d]] /\ run' = [run EXCEPT ![d] = run'[d]]
    OBVIOUS
  <2>2. /\ job' = [job EXCEPT ![d] = job'[d]]
        /\ controller' = [controller EXCEPT ![d] = controller'[d]]
    OBVIOUS
  <2>3. stopping' = stopping /\ requests' \in 0..MaxRequests /\ faults' \in 0..MaxFaults
    BY NumbersAssumption DEF CountsTyped
  <2> QED
    BY <2>1, <2>2, <2>3 DEF DocFrame
<1>7. JoinFrame(d) /\ JobFrame(d)
  BY DEF Researches, JoinFrame, JobFrame, Sound, Linked
<1>8. doc'[d] \in Researches
  BY DEF Researches, Requests, Modes, Statuses
<1>9. run'[d] \in Runs
  BY DEF Researches, Runs, Modes
<1>10. FieldsTyped(d)
  BY <1>8, <1>9 DEF FieldsTyped
<1>11. request' = [request EXCEPT ![h] = request'[h]]
  OBVIOUS
<1>12. request'[h] \in Requests
  BY <1>8, IdleTyped DEF Requests
<1>13. Steady(h)'
  <2>1. /\ request'[h].op = Op(h)
        /\ \/ request'[h].step = "removeJob" /\ request'[h].seen.status # "running"
           \/ request'[h].step = "flag"
    BY DEF Requests
  <2> QED
    BY <2>1 DEF Steady
<1>14. Linked(d)' /\ RunsOnlyExecuted(d)'
  BY DEF Researches, Runs, Sound, Linked, RunsOnlyExecuted, Executed
<1>15. Blank(d)'
  BY DEF Researches, Runs, Sound, Blank, Exists
<1>16. Known(d)'
  BY DEF Researches, Runs, Sound, Known, Steady
<1>17. Shown(d)'
  BY DEF Researches, Runs, Sound, Known, Shown, Steady
<1>18. Controlled(d)' /\ Stopped(d)'
  <2>1. CASE doc[d].status = "queued"
    BY <2>1 DEF Controlled, Stopped
  <2>2. CASE doc[d].status # "queued"
    <3>1. \A k \in Handlers : Of(k) = d /\ ReqAt(k, "abort") => request'[k] = request[k]
      BY <2>2
    <3> QED
      BY <2>2, <3>1 DEF Sound, Controlled, Stopped
  <2> QED
    BY <2>1, <2>2
<1>19. HasJob(d)'
  BY DEF Researches, Runs, Sound, Linked, HasJob
<1> QED
  BY <1>5, <1>6, <1>7, <1>10, <1>11, <1>12, <1>13, <1>14, <1>15, <1>16, <1>17, <1>18, <1>19, Requested

LEMMA FlagStep ==
  ASSUME ResearchInv, NEW h \in Handlers, NEW d \in Docs, d = Of(h), Flag(h)
  PROVE  ResearchInv'
<1>0. /\ StoreTyped /\ CountsTyped /\ Sound(d)
      /\ request \in [Handlers -> Requests] /\ Steady(h)
  BY DEF ResearchInv, RequestsTyped
<1> USE <1>0 DEF Flag, Patch, Exists, Then, Absent, outside, StoreTyped, Op, Of, Seen, ReqAt
<1>1. HistoryFrame(d) /\ (Of(h) = d \/ ReqAt(h, "idle"))
  BY DEF CountsTyped, HistoryFrame
<1>2. DocFrame(d)
  <2>1. doc' = [doc EXCEPT ![d] = doc'[d]] /\ run' = [run EXCEPT ![d] = run'[d]]
    OBVIOUS
  <2>2. /\ job' = [job EXCEPT ![d] = job'[d]]
        /\ controller' = [controller EXCEPT ![d] = controller'[d]]
    OBVIOUS
  <2>3. stopping' = stopping /\ requests' \in 0..MaxRequests /\ faults' \in 0..MaxFaults
    BY NumbersAssumption DEF CountsTyped
  <2> QED
    BY <2>1, <2>2, <2>3 DEF DocFrame
<1>3. JoinFrame(d) /\ JobFrame(d)
  BY DEF Researches, JoinFrame, JobFrame, Sound, Linked
<1>4. doc'[d] \in Researches
  <2>1. \/ doc'[d] = doc[d] \/ doc'[d] = [doc[d] EXCEPT !.pause = TRUE]
        \/ doc'[d] = [doc[d] EXCEPT !.cancel = TRUE]
    OBVIOUS
  <2>2. doc[d] \in Researches
    OBVIOUS
  <2> HIDE DEF Flag, Patch, StoreTyped
  <2>3. CASE doc'[d] = [doc[d] EXCEPT !.pause = TRUE]
    BY <2>2, <2>3 DEF Researches
  <2>4. CASE doc'[d] = [doc[d] EXCEPT !.cancel = TRUE]
    BY <2>2, <2>4 DEF Researches
  <2> QED
    BY <2>1, <2>2, <2>3, <2>4
<1>5. run'[d] \in Runs
  BY DEF Researches, Runs, Modes
<1>6. FieldsTyped(d)
  BY <1>4, <1>5 DEF FieldsTyped
<1>7. request' = [request EXCEPT ![h] = request'[h]]
  OBVIOUS
<1>8. request'[h] \in Requests
  BY <1>4, IdleTyped DEF Requests
<1>9. Steady(h)'
  BY IdleTyped DEF Steady, Researches
<1>10. Linked(d)' /\ RunsOnlyExecuted(d)'
  BY DEF Researches, Runs, Sound, Linked, RunsOnlyExecuted, Executed
<1>11. Blank(d)'
  BY DEF Researches, Runs, Sound, Blank, Exists
<1>12. Known(d)'
  BY DEF Researches, Runs, Sound, Known, Steady
<1>13. Shown(d)'
  BY DEF Researches, Runs, Sound, Known, Shown, Steady
<1>14. Controlled(d)' /\ Stopped(d)'
  BY DEF Researches, Runs, Sound, Controlled, Stopped, Steady
<1>15. HasJob(d)'
  BY DEF Researches, Runs, Sound, Linked, HasJob
<1> QED
  BY <1>1, <1>2, <1>3, <1>6, <1>7, <1>8, <1>9, <1>10, <1>11, <1>12, <1>13, <1>14, <1>15, Requested

LEMMA AbortStep ==
  ASSUME ResearchInv, NEW h \in Handlers, NEW d \in Docs, d = Of(h), Abort(h)
  PROVE  ResearchInv'
<1>0. /\ StoreTyped /\ CountsTyped /\ Sound(d)
      /\ request \in [Handlers -> Requests] /\ Steady(h)
  BY DEF ResearchInv, RequestsTyped
<1> USE <1>0 DEF Abort, Then, Over, outside, StoreTyped, Op, Of, Seen, ReqAt
<1>1. HistoryFrame(d) /\ (Of(h) = d \/ ReqAt(h, "idle"))
  BY DEF CountsTyped, HistoryFrame
<1>2. DocFrame(d)
  <2>1. doc' = [doc EXCEPT ![d] = doc'[d]] /\ run' = [run EXCEPT ![d] = run'[d]]
    OBVIOUS
  <2>2. /\ job' = [job EXCEPT ![d] = job'[d]]
        /\ controller' = [controller EXCEPT ![d] = controller'[d]]
    OBVIOUS
  <2>3. stopping' = stopping /\ requests' \in 0..MaxRequests /\ faults' \in 0..MaxFaults
    BY NumbersAssumption DEF CountsTyped
  <2> QED
    BY <2>1, <2>2, <2>3 DEF DocFrame
<1>3. JoinFrame(d) /\ JobFrame(d)
  BY DEF Researches, JoinFrame, JobFrame, Sound, Linked
<1>4. doc'[d] \in Researches
  BY DEF Researches, Requests, Modes, Statuses
<1>5. run'[d] \in Runs
  BY DEF Researches, Runs, Modes
<1>6. FieldsTyped(d)
  BY <1>4, <1>5 DEF FieldsTyped
<1>7. request' = [request EXCEPT ![h] = request'[h]]
  OBVIOUS
<1>8. request'[h] \in Requests
  BY <1>4, IdleTyped DEF Requests
<1>9. Steady(h)'
  <2>1. \/ request'[h] = Idle
        \/ Op(h) = "remove" /\ request'[h].op = "remove" /\ request'[h].step = "removeJob"
    BY DEF Requests
  <2> HIDE DEF Abort, Then, Over
  <2> QED
    BY <2>1, IdleTyped DEF Steady
<1>10. Linked(d)' /\ RunsOnlyExecuted(d)'
  BY DEF Researches, Runs, Sound, Linked, RunsOnlyExecuted, Executed
<1>11. Blank(d)'
  BY DEF Researches, Runs, Sound, Blank, Exists
<1>12. Known(d)'
  BY DEF Researches, Runs, Sound, Known, Steady
<1>13. Shown(d)'
  BY DEF Researches, Runs, Sound, Known, Shown, Steady
<1>14. Controlled(d)' /\ Stopped(d)'
  BY DEF Researches, Runs, Sound, Controlled, Stopped, Steady
<1>15. HasJob(d)'
  BY DEF Researches, Runs, Sound, Linked, HasJob
<1> QED
  BY <1>1, <1>2, <1>3, <1>6, <1>7, <1>8, <1>9, <1>10, <1>11, <1>12, <1>13, <1>14, <1>15, Requested

LEMMA RemoveQueuedStep ==
  ASSUME ResearchInv, NEW h \in Handlers, NEW d \in Docs, d = Of(h), RemoveQueued(h)
  PROVE  ResearchInv'
<1>0. /\ StoreTyped /\ CountsTyped /\ Sound(d)
      /\ request \in [Handlers -> Requests] /\ Steady(h)
  BY DEF ResearchInv, RequestsTyped
<1> USE <1>0 DEF RemoveQueued, RemoveJob, Over, StoreTyped, Op, Of, Seen, ReqAt
<1>1. HistoryFrame(d) /\ (Of(h) = d \/ ReqAt(h, "idle"))
  BY DEF CountsTyped, HistoryFrame
<1>2. DocFrame(d)
  <2>1. doc' = [doc EXCEPT ![d] = doc'[d]] /\ run' = [run EXCEPT ![d] = run'[d]]
    OBVIOUS
  <2>2. /\ job' = [job EXCEPT ![d] = job'[d]]
        /\ controller' = [controller EXCEPT ![d] = controller'[d]]
    OBVIOUS
  <2>3. stopping' = stopping /\ requests' \in 0..MaxRequests /\ faults' \in 0..MaxFaults
    BY NumbersAssumption DEF CountsTyped
  <2> QED
    BY <2>1, <2>2, <2>3 DEF DocFrame
<1>3. JoinFrame(d) /\ JobFrame(d)
  BY DEF Researches, JoinFrame, JobFrame, Sound, Linked
<1>4. doc'[d] \in Researches
  BY DEF Researches, Requests, Modes, Statuses
<1>5. run'[d] \in Runs
  BY DEF Researches, Runs, Modes
<1>6. FieldsTyped(d)
  BY <1>4, <1>5 DEF FieldsTyped
<1>7. request' = [request EXCEPT ![h] = request'[h]]
  OBVIOUS
<1>8. request'[h] \in Requests
  BY <1>4, IdleTyped DEF Requests
<1>9. Steady(h)'
  <2>1. \/ request'[h] = Idle
        \/ /\ request'[h].op = Op(h) /\ request'[h].seen = Seen(h)
           /\ \/ Op(h) = "remove" /\ request'[h].step = "delete"
              \/ Op(h) = "cancel" /\ Seen(h).status = "paused" /\ request'[h].step = "patch"
              \/ Op(h) # "remove" /\ Seen(h).status # "running" /\ request'[h].step = "end"
    BY DEF Requests, Steady
  <2> HIDE DEF RemoveQueued, RemoveJob, Over
  <2> QED
    BY <2>1, IdleTyped DEF Steady
<1>10. Linked(d)' /\ RunsOnlyExecuted(d)'
  BY DEF Researches, Runs, Sound, Linked, RunsOnlyExecuted, Executed
<1>11. Blank(d)'
  BY DEF Researches, Runs, Sound, Blank, Exists
<1>12. Known(d)'
  BY DEF Researches, Runs, Sound, Known, Steady
<1>13. Shown(d)'
  BY DEF Researches, Runs, Sound, Known, Shown, Steady
<1>14. Controlled(d)' /\ Stopped(d)'
  BY DEF Researches, Runs, Sound, Controlled, Stopped, Steady
<1>15. HasJob(d)'
  <2>1. \A k \in Handlers : k # h => request'[k] = request[k]
    OBVIOUS
  <2>2. /\ doc' = doc /\ run' = run /\ request[h].step = "removeJob" /\ HasJob(d)
        /\ doc[d].status = "queued" =>
             IF job[d] = "active" THEN job' = job /\ missed' = missed ELSE d \in missed'
    BY DEF Sound
  <2> HIDE DEF RemoveQueued, RemoveJob, Over, StoreTyped
  <2>3. CASE doc[d].status = "queued" /\ job[d] = "active"
    BY <2>1, <2>2, <2>3 DEF HasJob
  <2>4. CASE ~(doc[d].status = "queued" /\ job[d] = "active")
    BY <2>2, <2>4 DEF HasJob
  <2> QED
    BY <2>3, <2>4
<1> QED
  BY <1>1, <1>2, <1>3, <1>6, <1>7, <1>8, <1>9, <1>10, <1>11, <1>12, <1>13, <1>14, <1>15, Requested

Returns(op, r, m, n) ==
  [NoFlags(Continued(op, [r EXCEPT !.mode = m])) EXCEPT !.status = "queued", !.at = n]
LEMMA ReturnsToTheQueue ==
  ASSUME NEW op \in {"resume", "retry", "deepen"}, NEW r \in Researches, NEW m \in Modes,
         NEW n \in Nat, NEW w, w = Returns(op, r, m, n)
  PROVE  /\ w \in Researches /\ w.status = "queued" /\ w.at = n
         /\ w.content = (op # "retry" /\ r.content)
         /\ w.mode = IF op = "deepen" THEN "deepen"
                     ELSE IF op = "retry" THEN "research"
                     ELSE IF m = "deepen" THEN "deepen" ELSE "resume"
<1>1. CASE op = "resume"
  BY <1>1 DEF Returns, Continued, NoFlags, Researches, Modes, Statuses
<1>2. CASE op = "retry"
  BY <1>2 DEF Returns, Continued, NoFlags, Researches, Modes, Statuses
<1>3. CASE op = "deepen"
  BY <1>3 DEF Returns, Continued, NoFlags, Researches, Modes, Statuses
<1> QED
  BY <1>1, <1>2, <1>3

LEMMA RequeueStep ==
  ASSUME ResearchInv, NEW h \in Handlers, NEW d \in Docs, d = Of(h), NEW at \in Stamps,
         Requeue(h, at)
  PROVE  ResearchInv'
<1>0. /\ StoreTyped /\ CountsTyped /\ Sound(d)
      /\ request \in [Handlers -> Requests] /\ Steady(h)
  BY DEF ResearchInv, RequestsTyped
<1>1. /\ ReqAt(h, "patch") /\ Op(h) \in {"resume", "retry", "deepen"}
      /\ doc[d] \in Researches /\ Seen(h) \in Researches /\ Seen(h).mode \in Modes
      /\ UNCHANGED <<job, controller, stopping, requests, faults, spoilt, missed>>
      /\ run' = run /\ stranded' = stranded /\ Joins(d)
      /\ request' = [request EXCEPT ![h].step = "enqueue", ![h].seen = Absent]
  BY <1>0 DEF Requeue, Then, StoreTyped, Steady, ReqAt, Requests, Researches, Op, Of, Seen
<1>2. PICK w : w = Returns(Op(h), doc[d], Seen(h).mode, at)
  OBVIOUS
<1>3. /\ doc' = IF Exists(d) THEN [doc EXCEPT ![d] = w] ELSE doc
      /\ overtaken' = IF doc[d] = Seen(h) THEN overtaken ELSE overtaken \cup {d}
  BY <1>2 DEF Returns, Requeue, Patch, Overtakes, Of
<1>4. /\ w \in Researches /\ w.status = "queued" /\ w.at = at
      /\ w.content = (Op(h) # "retry" /\ doc[d].content)
      /\ w.mode = IF Op(h) = "deepen" THEN "deepen"
                   ELSE IF Op(h) = "retry" THEN "research"
                   ELSE IF Seen(h).mode = "deepen" THEN "deepen" ELSE "resume"
  <2>1. at \in Nat
    BY StampsAssumption
  <2> QED
    BY <1>1, <1>2, <2>1, ReturnsToTheQueue
<1>6. run'[d] \in Runs
  BY <1>0, <1>1 DEF StoreTyped
<1> USE <1>0, <1>1, <1>3, <1>4 DEF Exists, StoreTyped, Op, Of, Seen, ReqAt
<1>7. HistoryFrame(d) /\ (Of(h) = d \/ ReqAt(h, "idle"))
  BY Joined DEF CountsTyped, HistoryFrame
<1>8. DocFrame(d)
  <2>1. doc' = [doc EXCEPT ![d] = doc'[d]] /\ run' = [run EXCEPT ![d] = run'[d]]
    OBVIOUS
  <2>2. /\ job' = [job EXCEPT ![d] = job'[d]]
        /\ controller' = [controller EXCEPT ![d] = controller'[d]]
    OBVIOUS
  <2>3. stopping' = stopping /\ requests' \in 0..MaxRequests /\ faults' \in 0..MaxFaults
    BY NumbersAssumption DEF CountsTyped
  <2> QED
    BY <2>1, <2>2, <2>3 DEF DocFrame
<1>9. JoinFrame(d) /\ JobFrame(d)
  <2>1. run' = run /\ job' = job /\ joined[d] \subseteq joined'[d]
    BY Joined
  <2>2. \A e \in Docs : run[e].step = "claim" => d \in joined'[e]
    BY Joined
  <2> HIDE DEF Exists, StoreTyped
  <2> QED
    BY <2>1, <2>2 DEF JoinFrame, JobFrame
<1>10. doc'[d] \in Researches
  BY DEF Researches, Requests, Modes, Statuses
<1>11. FieldsTyped(d)
  BY <1>10, <1>6 DEF FieldsTyped
<1>12. request' = [request EXCEPT ![h] = request'[h]]
  OBVIOUS
<1>13. request'[h] \in Requests
  BY <1>10, IdleTyped DEF Requests
<1>14. Steady(h)'
  BY IdleTyped DEF Steady, Researches
<1>15. Linked(d)' /\ RunsOnlyExecuted(d)'
  BY DEF Researches, Runs, Sound, Linked, RunsOnlyExecuted, Executed
<1>16. Blank(d)'
  BY DEF Researches, Runs, Sound, Blank, Exists
<1>17. Known(d)'
  BY DEF Researches, Runs, Sound, Known, Steady
<1>18. Shown(d)'
  BY DEF Researches, Runs, Sound, Known, Shown, Steady
<1>19. Controlled(d)' /\ Stopped(d)'
  BY DEF Researches, Runs, Sound, Controlled, Stopped, Steady
<1>20. HasJob(d)'
  BY DEF Researches, Runs, Sound, Linked, HasJob
<1> QED
  BY <1>7, <1>8, <1>9, <1>11, <1>12, <1>13, <1>14, <1>15, <1>16, <1>17, <1>18, <1>19, <1>20, Requested

LEMMA AddStep ==
  ASSUME ResearchInv, NEW h \in Handlers, NEW d \in Docs, d = Of(h), Add(h)
  PROVE  ResearchInv'
<1>0. /\ StoreTyped /\ CountsTyped /\ Sound(d)
      /\ request \in [Handlers -> Requests] /\ Steady(h)
  BY DEF ResearchInv, RequestsTyped
<1> USE <1>0 DEF Add, Enqueue, Over, StoreTyped, Op, Of, Seen, ReqAt
<1>1. HistoryFrame(d) /\ (Of(h) = d \/ ReqAt(h, "idle"))
  BY DEF CountsTyped, HistoryFrame
<1>2. DocFrame(d)
  <2>1. doc' = [doc EXCEPT ![d] = doc'[d]] /\ run' = [run EXCEPT ![d] = run'[d]]
    OBVIOUS
  <2>2. /\ job' = [job EXCEPT ![d] = job'[d]]
        /\ controller' = [controller EXCEPT ![d] = controller'[d]]
    OBVIOUS
  <2>3. stopping' = stopping /\ requests' \in 0..MaxRequests /\ faults' \in 0..MaxFaults
    BY NumbersAssumption DEF CountsTyped
  <2> QED
    BY <2>1, <2>2, <2>3 DEF DocFrame
<1>3. JoinFrame(d) /\ JobFrame(d)
  BY DEF Researches, JoinFrame, JobFrame, Sound, Linked
<1>4. doc'[d] \in Researches
  BY DEF Researches, Requests, Modes, Statuses
<1>5. run'[d] \in Runs
  BY DEF Researches, Runs, Modes
<1>6. FieldsTyped(d)
  BY <1>4, <1>5 DEF FieldsTyped
<1>7. request' = [request EXCEPT ![h] = request'[h]]
  OBVIOUS
<1>8. request'[h] \in Requests
  BY <1>4, IdleTyped DEF Requests
<1>9. Steady(h)'
  BY IdleTyped DEF Steady, Researches
<1>10. Linked(d)' /\ RunsOnlyExecuted(d)'
  BY DEF Researches, Runs, Sound, Linked, RunsOnlyExecuted, Executed
<1>11. Blank(d)'
  BY DEF Researches, Runs, Sound, Blank, Exists
<1>12. Known(d)'
  BY DEF Researches, Runs, Sound, Known, Steady
<1>13. Shown(d)'
  BY DEF Researches, Runs, Sound, Known, Shown, Steady
<1>14. Controlled(d)' /\ Stopped(d)'
  BY DEF Researches, Runs, Sound, Controlled, Stopped, Steady
<1>15. HasJob(d)'
  BY DEF Researches, Runs, Sound, Linked, HasJob
<1> QED
  BY <1>1, <1>2, <1>3, <1>6, <1>7, <1>8, <1>9, <1>10, <1>11, <1>12, <1>13, <1>14, <1>15, Requested

LEMMA AddFailsStep ==
  ASSUME ResearchInv, NEW h \in Handlers, NEW d \in Docs, d = Of(h), AddFails(h)
  PROVE  ResearchInv'
<1>0. /\ StoreTyped /\ CountsTyped /\ Sound(d)
      /\ request \in [Handlers -> Requests] /\ Steady(h)
  BY DEF ResearchInv, RequestsTyped
<1> USE <1>0 DEF AddFails, Fault, Over, StoreTyped, Op, Of, Seen, ReqAt
<1>1. HistoryFrame(d) /\ (Of(h) = d \/ ReqAt(h, "idle"))
  BY DEF CountsTyped, HistoryFrame
<1>2. DocFrame(d)
  <2>1. doc' = [doc EXCEPT ![d] = doc'[d]] /\ run' = [run EXCEPT ![d] = run'[d]]
    OBVIOUS
  <2>2. /\ job' = [job EXCEPT ![d] = job'[d]]
        /\ controller' = [controller EXCEPT ![d] = controller'[d]]
    OBVIOUS
  <2>3. stopping' = stopping /\ requests' \in 0..MaxRequests /\ faults' \in 0..MaxFaults
    BY NumbersAssumption DEF CountsTyped
  <2> QED
    BY <2>1, <2>2, <2>3 DEF DocFrame
<1>3. JoinFrame(d) /\ JobFrame(d)
  BY DEF Researches, JoinFrame, JobFrame, Sound, Linked
<1>4. doc'[d] \in Researches
  BY DEF Researches, Requests, Modes, Statuses
<1>5. run'[d] \in Runs
  BY DEF Researches, Runs, Modes
<1>6. FieldsTyped(d)
  BY <1>4, <1>5 DEF FieldsTyped
<1>7. request' = [request EXCEPT ![h] = request'[h]]
  OBVIOUS
<1>8. request'[h] \in Requests
  BY <1>4, IdleTyped DEF Requests
<1>9. Steady(h)'
  BY IdleTyped DEF Steady, Researches
<1>10. Linked(d)' /\ RunsOnlyExecuted(d)'
  BY DEF Researches, Runs, Sound, Linked, RunsOnlyExecuted, Executed
<1>11. Blank(d)'
  BY DEF Researches, Runs, Sound, Blank, Exists
<1>12. Known(d)'
  BY DEF Researches, Runs, Sound, Known, Steady
<1>13. Shown(d)'
  BY DEF Researches, Runs, Sound, Known, Shown, Steady
<1>14. Controlled(d)' /\ Stopped(d)'
  BY DEF Researches, Runs, Sound, Controlled, Stopped, Steady
<1>15. HasJob(d)'
  BY DEF Researches, Runs, Sound, Linked, HasJob
<1> QED
  BY <1>1, <1>2, <1>3, <1>6, <1>7, <1>8, <1>9, <1>10, <1>11, <1>12, <1>13, <1>14, <1>15, Requested

LEMMA CancelPausedStep ==
  ASSUME ResearchInv, NEW h \in Handlers, NEW d \in Docs, d = Of(h), CancelPaused(h)
  PROVE  ResearchInv'
<1>0. /\ StoreTyped /\ CountsTyped /\ Sound(d)
      /\ request \in [Handlers -> Requests] /\ Steady(h)
  BY DEF ResearchInv, RequestsTyped
<1> USE <1>0 DEF CancelPaused, Patch, Exists, Then, Overtakes, Cancelled, NoFlags, StoreTyped,
       Op, Of, Seen, ReqAt
<1>1. HistoryFrame(d) /\ (Of(h) = d \/ ReqAt(h, "idle"))
  BY DEF CountsTyped, HistoryFrame
<1>2. DocFrame(d)
  <2>1. doc' = [doc EXCEPT ![d] = doc'[d]] /\ run' = [run EXCEPT ![d] = run'[d]]
    OBVIOUS
  <2>2. /\ job' = [job EXCEPT ![d] = job'[d]]
        /\ controller' = [controller EXCEPT ![d] = controller'[d]]
    OBVIOUS
  <2>3. stopping' = stopping /\ requests' \in 0..MaxRequests /\ faults' \in 0..MaxFaults
    BY NumbersAssumption DEF CountsTyped
  <2> QED
    BY <2>1, <2>2, <2>3 DEF DocFrame
<1>3. JoinFrame(d) /\ JobFrame(d)
  BY DEF Researches, JoinFrame, JobFrame, Sound, Linked
<1>4. doc'[d] \in Researches
  BY DEF Researches, Requests, Modes, Statuses
<1>5. run'[d] \in Runs
  BY DEF Researches, Runs, Modes
<1>6. FieldsTyped(d)
  BY <1>4, <1>5 DEF FieldsTyped
<1>7. request' = [request EXCEPT ![h] = request'[h]]
  <2>1. PICK r : request' = [request EXCEPT ![h].step = "end", ![h].seen = r]
    OBVIOUS
  <2> HIDE DEF CancelPaused, Then
  <2> QED
    BY <2>1
<1>8. request'[h] \in Requests
  BY <1>4, IdleTyped DEF Requests
<1>9. Steady(h)'
  BY IdleTyped DEF Steady, Researches
<1>10. Linked(d)' /\ RunsOnlyExecuted(d)'
  BY DEF Researches, Runs, Sound, Linked, RunsOnlyExecuted, Executed
<1>11. Blank(d)'
  BY DEF Researches, Runs, Sound, Blank, Exists
<1>12. Known(d)'
  BY DEF Researches, Runs, Sound, Known, Steady
<1>13. Shown(d)'
  BY DEF Researches, Runs, Sound, Known, Shown, Steady
<1>14. Controlled(d)' /\ Stopped(d)'
  BY DEF Researches, Runs, Sound, Controlled, Stopped, Steady
<1>15. HasJob(d)'
  BY DEF Researches, Runs, Sound, Linked, HasJob
<1> QED
  BY <1>1, <1>2, <1>3, <1>6, <1>7, <1>8, <1>9, <1>10, <1>11, <1>12, <1>13, <1>14, <1>15, Requested

LEMMA EndLiveStep ==
  ASSUME ResearchInv, NEW h \in Handlers, NEW d \in Docs, d = Of(h), EndLive(h)
  PROVE  ResearchInv'
<1>0. /\ StoreTyped /\ CountsTyped /\ Sound(d)
      /\ request \in [Handlers -> Requests] /\ Steady(h)
  BY DEF ResearchInv, RequestsTyped
<1> USE <1>0 DEF EndLive, Overtakes, Over, StoreTyped, Op, Of, Seen, ReqAt
<1>1. HistoryFrame(d) /\ (Of(h) = d \/ ReqAt(h, "idle"))
  BY DEF CountsTyped, HistoryFrame
<1>2. DocFrame(d)
  <2>1. doc' = [doc EXCEPT ![d] = doc'[d]] /\ run' = [run EXCEPT ![d] = run'[d]]
    OBVIOUS
  <2>2. /\ job' = [job EXCEPT ![d] = job'[d]]
        /\ controller' = [controller EXCEPT ![d] = controller'[d]]
    OBVIOUS
  <2>3. stopping' = stopping /\ requests' \in 0..MaxRequests /\ faults' \in 0..MaxFaults
    BY NumbersAssumption DEF CountsTyped
  <2> QED
    BY <2>1, <2>2, <2>3 DEF DocFrame
<1>3. JoinFrame(d) /\ JobFrame(d)
  BY DEF Researches, JoinFrame, JobFrame, Sound, Linked
<1>4. doc'[d] \in Researches
  BY DEF Researches, Requests, Modes, Statuses
<1>5. run'[d] \in Runs
  BY DEF Researches, Runs, Modes
<1>6. FieldsTyped(d)
  BY <1>4, <1>5 DEF FieldsTyped
<1>7. request' = [request EXCEPT ![h] = request'[h]]
  OBVIOUS
<1>8. request'[h] \in Requests
  BY <1>4, IdleTyped DEF Requests
<1>9. Steady(h)'
  BY IdleTyped DEF Steady, Researches
<1>10. Linked(d)' /\ RunsOnlyExecuted(d)'
  BY DEF Researches, Runs, Sound, Linked, RunsOnlyExecuted, Executed
<1>11. Blank(d)'
  BY DEF Researches, Runs, Sound, Blank, Exists
<1>12. Known(d)'
  BY DEF Researches, Runs, Sound, Known, Steady
<1>13. Shown(d)'
  BY DEF Researches, Runs, Sound, Known, Shown, Steady
<1>14. Controlled(d)' /\ Stopped(d)'
  BY DEF Researches, Runs, Sound, Controlled, Stopped, Steady
<1>15. HasJob(d)'
  BY DEF Researches, Runs, Sound, Linked, HasJob
<1> QED
  BY <1>1, <1>2, <1>3, <1>6, <1>7, <1>8, <1>9, <1>10, <1>11, <1>12, <1>13, <1>14, <1>15, Requested

LEMMA DeleteStep ==
  ASSUME ResearchInv, NEW h \in Handlers, NEW d \in Docs, d = Of(h), Delete(h)
  PROVE  ResearchInv'
<1>0. /\ StoreTyped /\ CountsTyped /\ Sound(d)
      /\ request \in [Handlers -> Requests] /\ Steady(h)
  BY DEF ResearchInv, RequestsTyped
<1> USE <1>0 DEF Delete, Overtakes, Over, Absent, StoreTyped, Op, Of, Seen, ReqAt
<1>1. HistoryFrame(d) /\ (Of(h) = d \/ ReqAt(h, "idle"))
  BY DEF CountsTyped, HistoryFrame
<1>2. DocFrame(d)
  <2>1. doc' = [doc EXCEPT ![d] = doc'[d]] /\ run' = [run EXCEPT ![d] = run'[d]]
    OBVIOUS
  <2>2. /\ job' = [job EXCEPT ![d] = job'[d]]
        /\ controller' = [controller EXCEPT ![d] = controller'[d]]
    OBVIOUS
  <2>3. stopping' = stopping /\ requests' \in 0..MaxRequests /\ faults' \in 0..MaxFaults
    BY NumbersAssumption DEF CountsTyped
  <2> QED
    BY <2>1, <2>2, <2>3 DEF DocFrame
<1>3. JoinFrame(d) /\ JobFrame(d)
  BY DEF Researches, JoinFrame, JobFrame, Sound, Linked
<1>4. doc'[d] \in Researches
  BY DEF Researches, Requests, Modes, Statuses
<1>5. run'[d] \in Runs
  BY DEF Researches, Runs, Modes
<1>6. FieldsTyped(d)
  BY <1>4, <1>5 DEF FieldsTyped
<1>7. request' = [request EXCEPT ![h] = request'[h]]
  OBVIOUS
<1>8. request'[h] \in Requests
  BY <1>4, IdleTyped DEF Requests
<1>9. Steady(h)'
  BY IdleTyped DEF Steady, Researches
<1>10. Linked(d)' /\ RunsOnlyExecuted(d)'
  BY DEF Researches, Runs, Sound, Linked, RunsOnlyExecuted, Executed
<1>11. Blank(d)'
  BY DEF Researches, Runs, Sound, Blank, Exists
<1>12. Known(d)'
  BY DEF Researches, Runs, Sound, Known, Steady
<1>13. Shown(d)'
  BY DEF Researches, Runs, Sound, Known, Shown, Steady
<1>14. Controlled(d)' /\ Stopped(d)'
  BY DEF Researches, Runs, Sound, Controlled, Stopped, Steady
<1>15. HasJob(d)'
  BY DEF Researches, Runs, Sound, Linked, HasJob
<1> QED
  BY <1>1, <1>2, <1>3, <1>6, <1>7, <1>8, <1>9, <1>10, <1>11, <1>12, <1>13, <1>14, <1>15, Requested

-----------------------------------------------------------------------------
(* The process ends and begins anew *)

LEMMA StopStep ==
  ASSUME ResearchInv, Stop
  PROVE  ResearchInv'
<1>0. StoreTyped /\ CountsTyped /\ JobsBounded /\ RequestsTyped /\ \A d \in Docs : Sound(d)
  BY DEF ResearchInv
<1>1. /\ UNCHANGED <<doc, job, run, request, requests, overtaken, spoilt, missed, stranded, joined>>
      /\ stopping' = TRUE /\ faults' \in 0..MaxFaults
      /\ controller' = [d \in Docs |-> IF controller[d] = "live" THEN "aborted" ELSE controller[d]]
  BY <1>0, NumbersAssumption DEF Stop, CountsTyped
<1>2. StoreTyped' /\ CountsTyped'
  BY <1>0, <1>1 DEF StoreTyped, CountsTyped
<1>3. JobsBounded' /\ RequestsTyped'
  BY <1>0, <1>1 DEF JobsBounded, ActiveJobs, RequestsTyped, Steady, ReqAt, Op, Seen
<1>4. ASSUME NEW d \in Docs PROVE Sound(d)' /\ Sure(d)'
  <2>1. Linked(d)' /\ Blank(d)' /\ RunsOnlyExecuted(d)' /\ Known(d)' /\ Shown(d)'
    BY <1>0, <1>1 DEF Sound, Linked, Blank, RunsOnlyExecuted, Known, Shown, Exists
  <2>2. Controlled(d)' /\ Stopped(d)'
    BY <1>0, <1>1 DEF Sound, Controlled, Stopped, Of, ReqAt
  <2>3. HasJob(d)'
    BY <1>0, <1>1 DEF Sound, HasJob, Of, ReqAt
  <2>4. Sure(d)'
    <3>1. OlderQueued(d)' = OlderQueued(d)
      BY <1>1 DEF OlderQueued, Older
    <3>2. Sure(d)
      BY DEF ResearchInv
    <3> QED
      BY <1>1, <3>1, <3>2 DEF Sure
  <2> QED
    BY <2>1, <2>2, <2>3, <2>4 DEF Sound
<1> QED
  BY <1>2, <1>3, <1>4 DEF ResearchInv

\* A restart pauses what was running, or leaves it stranded.
LEMMA Paused ==
  ASSUME StoreTyped, PauseAll
  PROVE  /\ doc' \in [Docs -> Researches] /\ stranded' \subseteq Docs
         /\ \A d \in Docs : /\ doc[d].status # "running" => doc'[d] = doc[d]
                            /\ doc'[d].status = "running" => d \in stranded'
                            /\ doc[d].status = "running" =>
                                 /\ doc'[d].status \in {"running", "paused"}
                                 /\ doc'[d].content = doc[d].content
                                 /\ doc'[d].mode = doc[d].mode
<1>1. CASE UNCHANGED doc /\ stranded' = Running
  BY <1>1 DEF StoreTyped, Running
<1>2. CASE /\ doc' = [d \in Docs |-> IF doc[d].status = "running"
                                    THEN [NoFlags(doc[d]) EXCEPT !.status = "paused"]
                                    ELSE doc[d]]
           /\ stranded' = {}
  <2>1. \A r \in Researches : LET q == [NoFlags(r) EXCEPT !.status = "paused"] IN
          /\ q \in Researches /\ q.status = "paused" /\ q.content = r.content
          /\ q.mode = r.mode
    BY DEF NoFlags, Researches, Statuses
  <2>2. \A d \in Docs : doc[d] \in Researches
    BY DEF StoreTyped
  <2> HIDE DEF PauseAll, StoreTyped, NoFlags, Researches
  <2> QED
    BY <1>2, <2>1, <2>2
<1> QED
  BY <1>1, <1>2 DEF PauseAll

LEMMA RestartStep ==
  ASSUME ResearchInv, Restart
  PROVE  ResearchInv'
<1>0. StoreTyped /\ CountsTyped /\ JobsBounded /\ RequestsTyped /\ \A d \in Docs : Sound(d)
  BY DEF ResearchInv
<1>1. /\ stopping' = FALSE /\ UNCHANGED <<requests, overtaken, spoilt>>
      /\ faults' \in 0..MaxFaults
      /\ run' = [d \in Docs |-> NoRun] /\ controller' = [d \in Docs |-> "none"]
      /\ request' = [h \in Handlers |-> Idle] /\ joined' = [d \in Docs |-> {}]
  BY <1>0, NumbersAssumption DEF Restart, CountsTyped
<1>2. PICK left \in SUBSET Jobless :
        /\ job' = JobsAfterRestart(left)
        /\ missed' = (missed \ {d \in Docs : doc[d].status = "queued"}) \cup left
  BY DEF Restart
<1>3. \A d \in Docs :
        /\ job'[d] \in {"none", "waiting", "failed"}
        /\ doc[d].status = "queued" => job'[d] = "waiting" \/ d \in left
  BY <1>0, <1>2 DEF JobsAfterRestart, Jobless, StoreTyped
<1>4. job' \in [Docs -> {"none", "waiting", "failed"}]
  BY <1>2, <1>3 DEF JobsAfterRestart
<1>5. left \subseteq missed' /\ missed' \subseteq Docs
  BY <1>0, <1>2 DEF CountsTyped, Jobless
<1>6. /\ doc' \in [Docs -> Researches] /\ stranded' \subseteq Docs
      /\ \A d \in Docs : /\ doc[d].status # "running" => doc'[d] = doc[d]
                         /\ doc'[d].status = "running" => d \in stranded'
                         /\ doc[d].status = "running" =>
                              /\ doc'[d].status \in {"running", "paused"}
                              /\ doc'[d].content = doc[d].content
                              /\ doc'[d].mode = doc[d].mode
  BY <1>0, Paused DEF Restart
<1>7. StoreTyped'
  BY <1>1, <1>4, <1>6, RunRecords DEF StoreTyped
<1>8. CountsTyped'
  BY <1>0, <1>1, <1>5, <1>6 DEF CountsTyped
<1>9. JobsBounded'
  <2>1. ActiveJobs' = {}
    BY <1>3 DEF ActiveJobs
  <2> QED
    BY <2>1, FS_EmptySet, NumbersAssumption DEF JobsBounded
<1>10. RequestsTyped'
  BY <1>1, IdleTyped DEF RequestsTyped, Steady, ReqAt
<1>11. ASSUME NEW d \in Docs PROVE Sound(d)' /\ Sure(d)'
  <2>1. run'[d].step = "none"
    BY <1>1 DEF NoRun
  <2>2. Linked(d)' /\ RunsOnlyExecuted(d)'
    BY <1>3, <1>6, <2>1 DEF Linked, RunsOnlyExecuted
  <2>3. Blank(d)'
    BY <1>0, <1>6, <2>1 DEF Sound, Blank, Exists
  <2>4. Known(d)' /\ Controlled(d)' /\ Stopped(d)' /\ Sure(d)'
    BY <2>1 DEF Known, Controlled, Stopped, Sure
  <2>5. Shown(d)'
    BY <1>0, <1>1, <1>6 DEF Sound, Shown
  <2>6. HasJob(d)'
    BY <1>3, <1>5, <1>6 DEF HasJob
  <2> QED
    BY <2>2, <2>3, <2>4, <2>5, <2>6 DEF Sound
<1> QED
  BY <1>7, <1>8, <1>9, <1>10, <1>11 DEF ResearchInv

-----------------------------------------------------------------------------
(* The theorems *)

LEMMA ResearchInitially == Init => ResearchInv
<1> SUFFICES ASSUME Init PROVE ResearchInv
  OBVIOUS
<1>1. StoreTyped /\ CountsTyped
  <2>1. StoreTyped
    BY IdleTyped, RunRecords DEF Init, StoreTyped
  <2>2. CountsTyped
    BY NumbersAssumption DEF Init, CountsTyped
  <2> QED
    BY <2>1, <2>2
<1>2. JobsBounded
  <2>1. ActiveJobs = {}
    BY DEF Init, ActiveJobs
  <2> QED
    BY <2>1, FS_EmptySet, NumbersAssumption DEF JobsBounded
<1>3. RequestsTyped
  BY IdleTyped DEF Init, RequestsTyped, Steady, ReqAt
<1>4. ASSUME NEW d \in Docs PROVE Sound(d) /\ Sure(d)
  BY DEF Init, Sound, Linked, Blank, RunsOnlyExecuted, Known, Shown, Controlled, Stopped,
     HasJob, Sure, NoRun, Absent, Exists
<1> QED
  BY <1>1, <1>2, <1>3, <1>4 DEF ResearchInv

LEMMA ResearchStep == ResearchInv /\ [Next]_vars => ResearchInv'
<1> SUFFICES ASSUME ResearchInv, [Next]_vars PROVE ResearchInv'
  OBVIOUS
<1>0. /\ Targets \subseteq Docs
      /\ \A h \in Handlers : Of(h) \in Docs
  BY OwnerAssumption DEF ResearchInv, RequestsTyped, Requests, Of
<1>1. ASSUME NEW d \in Docs, Work(d) \/ Interrupt(d) PROVE ResearchInv'
  BY <1>1, MayStartStep, ClaimStep, AfterRunStep, JobCompletesStep, LoadRunStep, RereadStep,
     StartRoundStep, EndRoundStep, FinishStep, OnInterruptedStep, LastResortStep,
     InterruptStep DEF Work
<1>2. ASSUME NEW d \in Targets, Errors(d) PROVE ResearchInv'
  BY <1>0, <1>2, CheckFailsStep, DelayFailsStep, NoOwnerStep, StoreFailsStep,
     RoundNotSavedStep, RoundFailsStep, FailStep DEF Errors
<1>3. ASSUME NEW h \in Handlers, Proceed(h) \/ AddFails(h) PROVE ResearchInv'
  <2>1. PICK d \in Docs : d = Of(h)
    BY <1>0
  <2> QED
    BY <1>3, <2>1, TransitionStep, FlagStep, AbortStep, RemoveQueuedStep,
       AddStep, AddFailsStep, CancelPausedStep, EndLiveStep, DeleteStep DEF Proceed
<1>4. ASSUME NEW h \in Handlers, NEW at \in Stamps,
             Requeue(h, at) \/ \E d \in Docs : Start(h, d, at)
      PROVE  ResearchInv'
  <2>1. CASE Requeue(h, at)
    <3>1. PICK d \in Docs : d = Of(h)
      BY <1>0
    <3> QED
      BY <2>1, <3>1, RequeueStep
  <2>2. CASE \E d \in Docs : Start(h, d, at)
    BY <2>2, StartStep
  <2> QED
    BY <1>4, <2>1, <2>2
<1>5. ASSUME NEW h \in Handlers, NEW d \in Targets, NEW op \in Ops, Load(h, d, op)
      PROVE  ResearchInv'
  BY <1>0, <1>5, LoadStep
<1>6. CASE UNCHANGED vars
  <2>1. StoreTyped' /\ CountsTyped' /\ JobsBounded' /\ RequestsTyped'
    BY <1>6 DEF ResearchInv, vars, outside, StoreTyped, CountsTyped, JobsBounded, ActiveJobs,
       RequestsTyped, Steady, ReqAt, Op, Seen
  <2>2. ASSUME NEW d \in Docs PROVE Sound(d)' /\ Sure(d)'
    <3>1. Sound(d) /\ Sure(d)
      BY DEF ResearchInv
    <3> QED
      BY <1>6, <3>1 DEF vars, outside, Sound, Linked, Blank, RunsOnlyExecuted, Executed, Known,
         Shown, Controlled, Stopped, HasJob, Sure, OlderQueued, Older, Exists, Of,
         ReqAt
  <2> QED
    BY <2>1, <2>2 DEF ResearchInv
<1> QED
  BY <1>1, <1>2, <1>3, <1>4, <1>5, <1>6, StopStep, RestartStep DEF Next

LEMMA ResearchInvariant == Spec => []ResearchInv
<1> QED
  BY ResearchInitially, ResearchStep, PTL DEF Spec

\* For any documents, owners, handlers and bounds every variable keeps its type: a
\* document has a job that is active exactly while it has a worker, and never more
\* jobs are active than the worker takes at once.
THEOREM TypeCorrect == Spec => []TypeOK
<1>1. ResearchInv => TypeOK
  BY DEF ResearchInv, StoreTyped, CountsTyped, JobsBounded, RequestsTyped, Requests, Sound,
     Linked, Researches, Runs, Modes, TypeOK, Op, Of
<1> QED
  BY <1>1, ResearchInvariant, PTL

\* A document that counts as running has a worker that will end it, whatever requests
\* come in between and although calls to the store fail, except where the last resort,
\* the recovery at a start or a claim fails itself and leaves it stranded.
THEOREM Executes == Spec => []RunningIsExecuted
<1>1. ResearchInv => RunningIsExecuted
  BY DEF ResearchInv, Sound, RunsOnlyExecuted, RunningIsExecuted, Running
<1> QED
  BY <1>1, ResearchInvariant, PTL

\* The report of a deepening stays reachable, unless requests overtook each other or
\* the store failed.
THEOREM KeepsReport == Spec => []ReportStays
<1>1. ResearchInv => ReportStays
  BY DEF ResearchInv, Sound, Shown, ReportStays
<1> QED
  BY <1>1, ResearchInvariant, PTL

\* No way to be done leaves tasks that count as running.
THEOREM LeavesNoTasks == Spec => []DoneIsClean
<1>1. ResearchInv => DoneIsClean
  BY DEF ResearchInv, Sound, Shown, DoneIsClean
<1> QED
  BY <1>1, ResearchInvariant, PTL

\* A stop between the claim and the controller is not missed.
THEOREM StopsReach == Spec => []StopReaches
<1>1. ResearchInv => StopReaches
  BY DEF ResearchInv, Sound, Stopped, StopReaches
<1> QED
  BY <1>1, ResearchInvariant, PTL

\* What is queued has a job, about to be added or about to be seen by its worker, except
\* where the code loses it.
THEOREM HasAJob == Spec => []QueuedHasJob
<1>1. ResearchInv => QueuedHasJob
  BY DEF ResearchInv, Sound, HasJob, QueuedHasJob
<1> QED
  BY <1>1, ResearchInvariant, PTL

\* A document is claimed before an older one of its owner only if that one, or itself,
\* was put into the queue between its check and its claim, whatever stamps are taken and
\* however late they are written.
THEOREM KeepsOrder == Spec => StartsInOrder
<1>1. ResearchInv => \A d \in Docs :
        Claim(d) /\ doc[d].status = "queued" /\ d \notin joined[d]
          => OlderQueued(d) \subseteq joined[d]
  BY DEF ResearchInv, Sure, Claim
<1> QED
  BY <1>1, ResearchInvariant, PTL DEF StartsInOrder
=============================================================================
