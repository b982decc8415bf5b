----------------------- MODULE WorkflowEngine_proofs -----------------------
(***************************************************************************)
(* Proofs about WorkflowEngine, for every graph, number of runs, workers   *)
(* and handlers: its types and references, the exclusion of two workers    *)
(* per definition, the budget of a run, which that exclusion keeps         *)
(* although it is read two database operations before the execution is     *)
(* counted, and the refinement of WorkflowRunLifecycle: an end is final,   *)
(* and a run is retried once.  The invariants are the named parts of the   *)
(* section "The inductive invariant" of WorkflowEngine.                    *)
(***************************************************************************)
EXTENDS WorkflowEngine, SequenceTheorems, TLAPS

-----------------------------------------------------------------------------
(* What the helpers of the actions do. *)

\* No NodeRun disappears or changes its run.
NodeRunsKept ==
  /\ DOMAIN nodeRuns \subseteq DOMAIN nodeRuns'
  /\ \A i \in DOMAIN nodeRuns : nodeRuns'[i].run = nodeRuns[i].run

\* Only process p changes.
OnlyProc(p) == \A q \in Procs : q # p => procs'[q] = procs[q]

LEMMA Disjoint == Workers \cap Handlers = {} /\ NoRun \notin Runs
  BY ConstantsAssumption

LEMMA Bounds == MaxFaults \in Nat /\ MaxAnswers \in Nat /\ MaxNodesPerRun \in Nat
  BY ConstantsAssumption

LEMMA Graph ==
  /\ Triggers \subseteq Nodes /\ NamedStarts \subseteq Nodes
  /\ \A e \in Edges : e.to \in Nodes
  /\ \A n \in Nodes : Results[n] \subseteq NodeResults
  /\ AnswerBranches \subseteq Branches
  BY ConstantsAssumption

LEMMA IdleType == Idle \in ProcType /\ Idle.pc = "idle"
  BY DEF Idle, ProcType, PCs

LEMMA GotoFacts ==
  ASSUME procs \in [Procs -> ProcType], NEW p \in Procs, NEW c \in PCs, Goto(p, c)
  PROVE  /\ procs' \in [Procs -> ProcType]
         /\ locks' = locks
         /\ OnlyProc(p)
         /\ procs'[p].pc = c
         /\ procs'[p].run = procs[p].run
         /\ procs'[p].nr = procs[p].nr
         /\ procs'[p].result = procs[p].result
<1> DEFINE x == [procs[p] EXCEPT !.pc = c]
<1>1. /\ x \in ProcType
      /\ x.pc = c /\ x.run = procs[p].run /\ x.nr = procs[p].nr /\ x.result = procs[p].result
  BY DEF ProcType
<1>2. procs' = [procs EXCEPT ![p] = x] /\ locks' = locks
  BY Zenon DEF Goto
<1> HIDE DEF x
<1> QED
  BY <1>1, <1>2 DEF OnlyProc

LEMMA ReturnFacts ==
  ASSUME procs \in [Procs -> ProcType], locks \subseteq Definitions, NEW p \in Procs, Return(p)
  PROVE  /\ procs' \in [Procs -> ProcType]
         /\ locks' \subseteq Definitions
         /\ OnlyProc(p)
         /\ procs'[p] = Idle
         /\ procs'[p].pc = "idle"
<1>1. procs' = [procs EXCEPT ![p] = Idle] /\ locks' \subseteq locks
  BY DEF Return
<1> QED
  BY <1>1, IdleType DEF OnlyProc

LEMMA SetRunFacts ==
  ASSUME runs \in [Runs -> RunType], NEW r \in Runs, NEW st \in RunStatus, SetRun(r, st)
  PROVE  /\ runs' \in [Runs -> RunType]
         /\ \A x \in Runs : x # r => runs'[x] = runs[x]
         /\ runs'[r] = [runs[r] EXCEPT !.status = st]
  BY DEF SetRun, RunType

LEMMA SetNodeRunFacts ==
  ASSUME nodeRuns \in Seq(NodeRunType), NEW i \in DOMAIN nodeRuns,
         NEW st \in NodeRunStatus, SetNodeRun(i, st)
  PROVE  /\ nodeRuns' \in Seq(NodeRunType)
         /\ DOMAIN nodeRuns' = DOMAIN nodeRuns
         /\ NodeRunsKept
<1> DEFINE x == [nodeRuns[i] EXCEPT !.status = st]
<1>1. nodeRuns[i] \in NodeRunType
  OBVIOUS
<1>2. x \in NodeRunType /\ x.run = nodeRuns[i].run
  BY <1>1 DEF NodeRunType
<1>3. nodeRuns' = [nodeRuns EXCEPT ![i] = x]
  BY Zenon DEF SetNodeRun
<1> HIDE DEF x
<1> QED
  BY <1>2, <1>3 DEF NodeRunsKept

LEMMA NodeRunBecomes ==
  ASSUME nodeRuns \in Seq(NodeRunType), NEW i \in DOMAIN nodeRuns, NEW x \in NodeRunType,
         x.run = nodeRuns[i].run, nodeRuns' = [nodeRuns EXCEPT ![i] = x]
  PROVE  /\ nodeRuns' \in Seq(NodeRunType)
         /\ DOMAIN nodeRuns' = DOMAIN nodeRuns
         /\ NodeRunsKept
  BY DEF NodeRunsKept

LEMMA EnqueueFacts ==
  ASSUME nodeRuns \in Seq(NodeRunType), queue \subseteq JobType,
         \A j \in queue : j.nr \in DOMAIN nodeRuns,
         NEW r \in Runs, NEW n \in Nodes, NEW a \in Nat, NEW d \in BOOLEAN,
         EnqueueNode(r, n, a, d)
  PROVE  /\ nodeRuns' \in Seq(NodeRunType)
         /\ NodeRunsKept
         /\ \A i \in DOMAIN nodeRuns' : i \notin DOMAIN nodeRuns => nodeRuns'[i].run = r
         /\ queue' \subseteq JobType
         /\ \A j \in queue' : j.nr \in DOMAIN nodeRuns'
<1> DEFINE x == [run |-> r, node |-> n, attempt |-> a, status |-> "queued",
                 waitsFor |-> "none", question |-> "none"]
<1>1. x \in NodeRunType
  BY DEF NodeRunType, NodeRunStatus, OpenNodeRun
<1>2. x.run = r
  OBVIOUS
<1>3. /\ nodeRuns' = Append(nodeRuns, x)
      /\ queue' = queue \cup {[nr |-> Len(nodeRuns) + 1, delayed |-> d]}
  BY DEF EnqueueNode
<1> HIDE DEF x
<1>4. /\ nodeRuns' \in Seq(NodeRunType)
      /\ Len(nodeRuns) \in Nat
      /\ DOMAIN nodeRuns' = 1..Len(nodeRuns) + 1
      /\ DOMAIN nodeRuns = 1..Len(nodeRuns)
      /\ \A i \in DOMAIN nodeRuns : nodeRuns'[i] = nodeRuns[i]
      /\ nodeRuns'[Len(nodeRuns) + 1] = x
  BY <1>1, <1>3
<1>5. NodeRunsKept
  BY <1>4 DEF NodeRunsKept
<1>6. \A i \in DOMAIN nodeRuns' : i \notin DOMAIN nodeRuns => nodeRuns'[i].run = r
  BY <1>2, <1>4
<1> QED
  BY <1>3, <1>4, <1>5, <1>6 DEF JobType

LEMMA NodeRunFacts ==
  ASSUME nodeRuns \in Seq(NodeRunType), NEW i \in DOMAIN nodeRuns
  PROVE  /\ i \in Nat
         /\ nodeRuns[i] \in NodeRunType
         /\ nodeRuns[i].run \in Runs /\ nodeRuns[i].node \in Nodes
         /\ nodeRuns[i].attempt \in Nat
<1>1. nodeRuns[i] \in NodeRunType /\ i \in Nat
  OBVIOUS
<1> QED
  BY <1>1 DEF NodeRunType

LEMMA KnowsKept ==
  ASSUME NEW q \in Procs, Knows(q), procs'[q] = procs[q], NodeRunsKept
  PROVE  Knows(q)'
  BY DEF Knows, NodeRunsKept

LEMMA AllKnow ==
  ASSUME References, NEW p \in Procs, OnlyProc(p), NodeRunsKept, Knows(p)'
  PROVE  \A q \in Procs : Knows(q)'
<1> SUFFICES ASSUME NEW q \in Procs PROVE Knows(q)'
  OBVIOUS
<1>1. CASE q = p
  BY <1>1
<1>2. CASE q # p
  BY <1>2, KnowsKept DEF References, OnlyProc
<1> QED
  BY <1>1, <1>2

LEMMA KeptWhenUnchanged == nodeRuns' = nodeRuns => NodeRunsKept
  BY DEF NodeRunsKept

-----------------------------------------------------------------------------
(* Every document and process stays well formed. *)

TypeInv == TypeOK /\ References

\* TypeInv, split into the documents with what refers to them, the control
\* state, and the processes.
StoresOK ==
  /\ runs \in [Runs -> RunType]
  /\ nodeRuns \in Seq(NodeRunType)
  /\ queue \subseteq JobType
  /\ \A j \in queue : j.nr \in DOMAIN nodeRuns
  /\ queuedEvents \subseteq Runs \X {"start", "recovery"}
  /\ questionEvents \subseteq [type : {"answered", "expired"}, nr : Nat]
  /\ \A e \in questionEvents : e.nr \in DOMAIN nodeRuns
  /\ replies \subseteq Nat \X (0..MaxAnswers)

ControlOK ==
  /\ backend \in {"up", "recovering", "down"}
  /\ recovery \in [stale : SUBSET Runs, run : Runs \cup {NoRun}, closed : BOOLEAN,
                   resume : SUBSET Nat]
  /\ recovery.resume \subseteq DOMAIN nodeRuns
  /\ faults \in 0..MaxFaults

ProcsOK ==
  /\ procs \in [Procs -> ProcType]
  /\ locks \subseteq Definitions
  /\ \A p \in Procs : Knows(p)

LEMMA TypeInvParts == TypeInv <=> StoresOK /\ ControlOK /\ ProcsOK
  BY DEF TypeInv, TypeOK, References, StoresOK, ControlOK, ProcsOK

LEMMA TypeInvPartsNext == TypeInv' <=> StoresOK' /\ ControlOK' /\ ProcsOK'
  BY DEF TypeInv, TypeOK, References, StoresOK, ControlOK, ProcsOK

\* What process p may do to the processes and the locks.
Sound(p) ==
  /\ procs' \in [Procs -> ProcType]
  /\ locks' \subseteq Definitions
  /\ OnlyProc(p)
  /\ Knows(p)'

LEMMA SoundStep ==
  ASSUME TypeInv, NEW p \in Procs, Sound(p), StoresOK', NodeRunsKept, UNCHANGED control
  PROVE  TypeInv'
<1>1. \A q \in Procs : Knows(q)'
  BY AllKnow DEF Sound, TypeInv
<1>2. ProcsOK'
  BY <1>1 DEF Sound, ProcsOK
<1>3. ControlOK'
  BY DEF TypeInv, TypeOK, References, ControlOK, NodeRunsKept, control
<1> QED
  BY <1>2, <1>3, TypeInvPartsNext

LEMMA GotoSound ==
  ASSUME TypeInv, NEW p \in Procs, NEW c \in PCs, Goto(p, c), NodeRunsKept,
         procs[p].pc # "idle", c \in NodePCs => procs[p].pc \in NodePCs,
         c \in {"wait", "park"} => procs[p].result \in {"timer", "question"}
  PROVE  Sound(p)
<1>1. procs \in [Procs -> ProcType] /\ locks \subseteq Definitions /\ Knows(p)
  BY DEF TypeInv, TypeOK, References
<1>2. Knows(p)'
  BY <1>1, GotoFacts DEF Knows, NodeRunsKept
<1> QED
  BY <1>1, <1>2, GotoFacts DEF Sound

LEMMA ReturnSound ==
  ASSUME TypeInv, NEW p \in Procs, Return(p)
  PROVE  Sound(p)
<1>1. procs \in [Procs -> ProcType] /\ locks \subseteq Definitions
  BY DEF TypeInv, TypeOK
<1>2. Knows(p)'
  BY <1>1, ReturnFacts DEF Knows, NodePCs
<1> QED
  BY <1>1, <1>2, ReturnFacts DEF Sound

\* The process becomes x, and the locks stay.
LEMMA BecomesSound ==
  ASSUME TypeInv, NEW p \in Procs, NEW x \in ProcType,
         procs' = [procs EXCEPT ![p] = x], locks' \subseteq Definitions, NodeRunsKept,
         x.pc # "idle" => x.run \in Runs,
         x.pc \in NodePCs => x.nr \in DOMAIN nodeRuns' /\ nodeRuns'[x.nr].run = x.run,
         x.pc \in {"wait", "park"} => x.result \in {"timer", "question"}
  PROVE  Sound(p)
<1>1. procs \in [Procs -> ProcType]
  BY DEF TypeInv, TypeOK
<1>2. procs'[p] = x /\ procs' \in [Procs -> ProcType] /\ OnlyProc(p)
  BY <1>1 DEF OnlyProc
<1>3. Knows(p)'
  BY <1>2 DEF Knows
<1> QED
  BY <1>2, <1>3 DEF Sound

LEMMA StoresKept ==
  ASSUME TypeInv, runs' \in [Runs -> RunType],
         nodeRuns' \in Seq(NodeRunType), NodeRunsKept,
         queue' \subseteq queue,
         UNCHANGED <<queuedEvents, questionEvents, replies>>
  PROVE  StoresOK'
  BY DEF TypeInv, TypeOK, References, StoresOK, NodeRunsKept

LEMMA TypeInit == Init => TypeInv
<1> SUFFICES ASSUME Init PROVE TypeInv
  OBVIOUS
<1>1. /\ \A p \in Procs : procs[p] = Idle
      /\ nodeRuns = <<>> /\ queue = {} /\ questionEvents = {}
  BY DEF Init
<1>2. TypeOK
  <2>1. runs \in [Runs -> RunType]
    BY DEF Init, RunType, RunStatus
  <2>2. procs \in [Procs -> ProcType]
    BY IdleType DEF Init
  <2>3. recovery \in [stale : SUBSET Runs, run : Runs \cup {NoRun}, closed : BOOLEAN,
                      resume : SUBSET Nat]
    BY DEF Init, NoRecovery
  <2>4. faults \in 0..MaxFaults
    BY Bounds DEF Init
  <2>5. nodeRuns \in Seq(NodeRunType)
    BY <1>1
  <2> QED
    BY <1>1, <2>1, <2>2, <2>3, <2>4, <2>5 DEF Init, TypeOK
<1>3. References
  <2>1. \A p \in Procs : Knows(p)
    BY <1>1, IdleType DEF Knows, NodePCs
  <2>2. recovery.resume = {}
    BY DEF Init, NoRecovery
  <2> QED
    BY <1>1, <2>1, <2>2 DEF References
<1> QED
  BY <1>2, <1>3 DEF TypeInv

LEMMA TypeStartRun == ASSUME TypeInv, NEW r \in Runs, StartRun(r) PROVE TypeInv'
<1>1. runs' \in [Runs -> RunType]
  BY SetRunFacts DEF TypeInv, TypeOK, StartRun, RunStatus
<1>2. queuedEvents' \subseteq Runs \X {"start", "recovery"}
  BY DEF TypeInv, TypeOK, StartRun
<1>3. UNCHANGED <<nodeRuns, queue, locks, procs, questionEvents, replies, control>>
  BY DEF StartRun
<1>4. \A p \in Procs : Knows(p)'
  BY <1>3 DEF TypeInv, References, Knows
<1> QED
  BY <1>1, <1>2, <1>3, <1>4 DEF TypeInv, TypeOK, References, control

LEMMA TypeHandleRunQueued ==
  ASSUME TypeInv, NEW h \in Handlers, NEW e \in queuedEvents, HandleRunQueued(h, e[1], e[2])
  PROVE  TypeInv'
<1> DEFINE r == e[1]
<1> DEFINE x == [Idle EXCEPT !.pc = IF Triggers = {} THEN "fail" ELSE "enqueue",
                             !.run = r, !.result = "trigger", !.todo = Triggers]
<1>1. r \in Runs /\ h \in Procs
  BY DEF TypeInv, TypeOK, Procs
<1>2. UNCHANGED <<nodeRuns, queue, locks, questionEvents, replies, control>>
  BY DEF HandleRunQueued
<1>3. queuedEvents' \subseteq Runs \X {"start", "recovery"}
  BY DEF TypeInv, TypeOK, HandleRunQueued
<1>4. runs' \in [Runs -> RunType]
  BY <1>1, SetRunFacts DEF TypeInv, TypeOK, HandleRunQueued, RunStatus
<1>5. x \in ProcType /\ x.pc \in {"fail", "enqueue"} /\ x.run = r
  BY <1>1, Graph DEF ProcType, Idle, PCs
<1>6. procs' = procs \/ procs' = [procs EXCEPT ![h] = x]
  BY Zenon DEF HandleRunQueued, Begin
<1>7. NodeRunsKept
  BY <1>2, KeptWhenUnchanged
<1>8. StoresOK'
  BY <1>2, <1>3, <1>4 DEF TypeInv, TypeOK, References, StoresOK
<1>9. Sound(h)
  <2>1. locks' \subseteq Definitions
    BY <1>2 DEF TypeInv, TypeOK
  <2> HIDE DEF x
  <2>2. CASE procs' = procs
    BY <1>1, <1>2, <2>1, <2>2 DEF TypeInv, TypeOK, References, Sound, OnlyProc, Knows
  <2>3. CASE procs' = [procs EXCEPT ![h] = x]
    BY <1>1, <1>5, <1>7, <2>1, <2>3, BecomesSound DEF NodePCs
  <2> QED
    BY <1>6, <2>2, <2>3
<1> QED
  BY <1>1, <1>2, <1>7, <1>8, <1>9, SoundStep

LEMMA TypeDispatchJob == ASSUME TypeInv, NEW w \in Workers, DispatchJob(w) PROVE TypeInv'
<1>1. PICK j \in queue :
        /\ locks' = locks \cup {DefinitionOfJob(j)}
        /\ queue' = queue \ {j}
        /\ procs' = [procs EXCEPT ![w] =
             [Idle EXCEPT !.pc = "load", !.nr = j.nr, !.run = nodeRuns[j.nr].run]]
  BY Zenon DEF DispatchJob, Begin
<1> DEFINE x == [Idle EXCEPT !.pc = "load", !.nr = j.nr, !.run = nodeRuns[j.nr].run]
<1>2. UNCHANGED <<runs, nodeRuns, queuedEvents, questionEvents, replies, control>>
  BY DEF DispatchJob
<1>3. j.nr \in Nat /\ j.nr \in DOMAIN nodeRuns /\ nodeRuns[j.nr].run \in Runs /\ w \in Procs
  <2>1. j \in JobType /\ j.nr \in DOMAIN nodeRuns /\ nodeRuns \in Seq(NodeRunType)
    BY DEF TypeInv, TypeOK, References
  <2> QED
    BY <2>1, NodeRunFacts DEF JobType, Procs
<1>4. x \in ProcType /\ x.pc = "load" /\ x.run = nodeRuns[j.nr].run /\ x.nr = j.nr
  BY <1>3 DEF ProcType, Idle, PCs
<1>5. DefinitionOfJob(j) \in Definitions
  BY <1>3, ConstantsAssumption DEF DefinitionOfJob
<1>6. locks' \subseteq Definitions
  BY <1>1, <1>5 DEF TypeInv, TypeOK
<1>7. NodeRunsKept
  BY <1>2, KeptWhenUnchanged
<1>8. StoresOK'
  BY <1>1, <1>2, <1>7, StoresKept DEF TypeInv, TypeOK
<1>9. Sound(w)
  <2>1. procs' = [procs EXCEPT ![w] = x]
    BY <1>1
  <2> HIDE DEF x
  <2> QED
    BY <1>2, <1>3, <1>4, <1>6, <1>7, <2>1, BecomesSound
<1> QED
  BY <1>2, <1>3, <1>7, <1>8, <1>9, SoundStep

LEMMA TypeLoadJob == ASSUME TypeInv, NEW p \in Procs, LoadJob(p) PROVE TypeInv'
<1>1. procs[p].pc = "load" /\ "load" \in NodePCs
  BY DEF LoadJob, NodePCs
<1>2. UNCHANGED <<runs, nodeRuns, queue, queuedEvents, questionEvents, replies, control>>
  BY DEF LoadJob
<1>3. NodeRunsKept
  BY <1>2, KeptWhenUnchanged
<1>4. Sound(p)
  <2>1. CASE Abandon(p)
    BY <1>1, <1>3, <2>1, GotoSound DEF Abandon, PCs
  <2>2. CASE Return(p)
    BY <2>2, ReturnSound
  <2>3. CASE Goto(p, "mark")
    BY <1>1, <1>3, <2>3, GotoSound DEF PCs
  <2>4. CASE /\ procs' = [procs EXCEPT ![p].pc = "complete", ![p].result = "refused"]
             /\ UNCHANGED locks
    <3> DEFINE x == [procs[p] EXCEPT !.pc = "complete", !.result = "refused"]
    <3>1. procs[p] \in ProcType /\ Knows(p) /\ locks \subseteq Definitions
      BY DEF TypeInv, TypeOK, References
    <3>2. x \in ProcType /\ x.pc = "complete" /\ x.run = procs[p].run /\ x.nr = procs[p].nr
      BY <3>1 DEF ProcType, PCs
    <3>3. procs' = [procs EXCEPT ![p] = x]
      BY Zenon, <2>4
    <3> HIDE DEF x
    <3> QED
      BY <1>1, <1>2, <1>3, <2>4, <3>1, <3>2, <3>3, BecomesSound DEF Knows
  <2> QED
    BY <2>1, <2>2, <2>3, <2>4 DEF LoadJob
<1>5. StoresOK'
  BY <1>2, <1>3, StoresKept DEF TypeInv, TypeOK
<1> QED
  BY <1>2, <1>3, <1>4, <1>5, SoundStep

LEMMA TypeMarkRunning == ASSUME TypeInv, NEW p \in Procs, MarkRunning(p) PROVE TypeInv'
<1>1. /\ procs[p].pc = "mark" /\ SetNodeRun(procs[p].nr, "running") /\ Goto(p, "count")
      /\ UNCHANGED <<runs, queue, queuedEvents, questionEvents, replies, control>>
  BY DEF MarkRunning
<1>2. procs[p].nr \in DOMAIN nodeRuns
  BY <1>1 DEF TypeInv, References, Knows, NodePCs
<1>3. nodeRuns' \in Seq(NodeRunType) /\ NodeRunsKept
  BY <1>1, <1>2, SetNodeRunFacts DEF TypeInv, TypeOK, NodeRunStatus, OpenNodeRun
<1>4. Sound(p)
  BY <1>1, <1>3, GotoSound DEF PCs, NodePCs
<1>5. StoresOK'
  BY <1>1, <1>3, StoresKept DEF TypeInv, TypeOK
<1> QED
  BY <1>1, <1>3, <1>4, <1>5, SoundStep

LEMMA TypeCountExecution == ASSUME TypeInv, NEW p \in Procs, CountExecution(p) PROVE TypeInv'
<1>1. /\ procs[p].pc = "count" /\ Goto(p, "exec")
      /\ runs' = [runs EXCEPT ![procs[p].run].executed = @ + 1]
      /\ UNCHANGED <<nodeRuns, queue, queuedEvents, questionEvents, replies, control>>
  BY DEF CountExecution
<1>2. runs' \in [Runs -> RunType]
  <2> DEFINE r == procs[p].run
  <2> DEFINE x == [runs[r] EXCEPT !.executed = @ + 1]
  <2>1. r \in Runs /\ runs \in [Runs -> RunType]
    BY <1>1 DEF TypeInv, TypeOK, References, Knows
  <2>2. x \in RunType
    BY <2>1 DEF RunType
  <2>3. runs' = [runs EXCEPT ![r] = x]
    BY Zenon, <1>1
  <2> HIDE DEF x
  <2> QED
    BY <2>1, <2>2, <2>3
<1>3. NodeRunsKept
  BY <1>1, KeptWhenUnchanged
<1>4. Sound(p)
  BY <1>1, <1>3, GotoSound DEF PCs, NodePCs
<1>5. StoresOK'
  BY <1>1, <1>2, <1>3, StoresKept DEF TypeInv, TypeOK
<1> QED
  BY <1>1, <1>3, <1>4, <1>5, SoundStep

LEMMA TypeExecute == ASSUME TypeInv, NEW p \in Procs, Execute(p) PROVE TypeInv'
<1>1. procs[p].pc = "exec" /\ UNCHANGED <<runs, queue, locks, queuedEvents, questionEvents, replies, control>>
  BY DEF Execute
<1>2. PICK res \in Results[NodeOf(p)] :
        /\ procs' = [procs EXCEPT ![p].pc = "live", ![p].result = res]
        /\ nodeRuns' = IF res = "question"
                         THEN [nodeRuns EXCEPT ![procs[p].nr].question = "pending"]
                         ELSE nodeRuns
  BY DEF Execute
<1>3. /\ procs[p] \in ProcType /\ nodeRuns \in Seq(NodeRunType) /\ locks \subseteq Definitions
      /\ procs[p].nr \in DOMAIN nodeRuns /\ procs[p].run \in Runs
      /\ nodeRuns[procs[p].nr].run = procs[p].run
  BY <1>1 DEF TypeInv, TypeOK, References, Knows, NodePCs
<1>4. res \in NodeResults
  BY <1>3, NodeRunFacts, Graph DEF NodeOf
<1>5. nodeRuns' \in Seq(NodeRunType) /\ NodeRunsKept /\ DOMAIN nodeRuns' = DOMAIN nodeRuns
  <2> DEFINE i == procs[p].nr
  <2> DEFINE y == [nodeRuns[i] EXCEPT !.question = "pending"]
  <2>1. y \in NodeRunType /\ y.run = nodeRuns[i].run
    BY <1>3, NodeRunFacts DEF NodeRunType
  <2>2. CASE nodeRuns' = nodeRuns
    BY <1>3, <2>2, KeptWhenUnchanged
  <2>3. CASE nodeRuns' = [nodeRuns EXCEPT ![i].question = "pending"]
    <3>1. nodeRuns' = [nodeRuns EXCEPT ![i] = y]
      BY Zenon, <2>3
    <3> HIDE DEF y
    <3> QED
      BY <1>3, <2>1, <3>1, NodeRunBecomes
  <2> QED
    BY <1>2, <2>2, <2>3
<1>6. Sound(p)
  <2> DEFINE x == [procs[p] EXCEPT !.pc = "live", !.result = res]
  <2>1. x \in ProcType /\ x.pc = "live" /\ x.run = procs[p].run /\ x.nr = procs[p].nr
    BY <1>3, <1>4 DEF ProcType, PCs
  <2>2. procs' = [procs EXCEPT ![p] = x]
    BY Zenon, <1>2
  <2> HIDE DEF x
  <2>3. nodeRuns'[x.nr].run = x.run /\ x.nr \in DOMAIN nodeRuns'
    BY <1>3, <1>5, <2>1 DEF NodeRunsKept
  <2> QED
    BY <1>1, <1>3, <1>5, <2>1, <2>2, <2>3, BecomesSound
<1>7. StoresOK'
  BY <1>1, <1>5, StoresKept DEF TypeInv, TypeOK
<1> QED
  BY <1>1, <1>5, <1>6, <1>7, SoundStep

LEMMA TypeReadLiveStatus == ASSUME TypeInv, NEW p \in Procs, ReadLiveStatus(p) PROVE TypeInv'
<1>1. /\ procs[p].pc = "live"
      /\ UNCHANGED <<runs, nodeRuns, queue, queuedEvents, questionEvents, replies, control>>
  BY DEF ReadLiveStatus
<1>2. NodeRunsKept
  BY <1>1, KeptWhenUnchanged
<1>3. \/ Goto(p, "interrupt")
      \/ Goto(p, "wait") /\ procs[p].result \in {"timer", "question"}
      \/ Goto(p, "complete")
  BY DEF ReadLiveStatus
<1>4. Sound(p)
  BY <1>1, <1>2, <1>3, GotoSound DEF PCs, NodePCs
<1>5. StoresOK'
  BY <1>1, <1>2, StoresKept DEF TypeInv, TypeOK
<1> QED
  BY <1>1, <1>2, <1>4, <1>5, SoundStep

LEMMA TypeInterruptNodeRun == ASSUME TypeInv, NEW p \in Procs, InterruptNodeRun(p) PROVE TypeInv'
<1>1. /\ procs[p].pc = "interrupt" /\ SetNodeRun(procs[p].nr, "interrupted") /\ Return(p)
      /\ UNCHANGED <<runs, queue, queuedEvents, questionEvents, replies, control>>
  BY DEF InterruptNodeRun
<1>2. procs[p].nr \in DOMAIN nodeRuns
  BY <1>1 DEF TypeInv, References, Knows, NodePCs
<1>3. nodeRuns' \in Seq(NodeRunType) /\ NodeRunsKept
  BY <1>1, <1>2, SetNodeRunFacts DEF TypeInv, TypeOK, NodeRunStatus, OpenNodeRun
<1>4. StoresOK'
  BY <1>1, <1>3, StoresKept DEF TypeInv, TypeOK
<1> QED
  BY <1>1, <1>3, <1>4, ReturnSound, SoundStep

LEMMA TypeSaveWaiting == ASSUME TypeInv, NEW p \in Procs, SaveWaiting(p) PROVE TypeInv'
<1> DEFINE i == procs[p].nr
<1> DEFINE y == [nodeRuns[i] EXCEPT !.status = "waiting", !.waitsFor = procs[p].result]
<1>1. /\ procs[p].pc = "wait" /\ Goto(p, "park")
      /\ UNCHANGED <<runs, queue, queuedEvents, questionEvents, replies, control>>
  BY DEF SaveWaiting
<1>2. i \in DOMAIN nodeRuns /\ procs[p].result \in {"timer", "question"}
  BY <1>1 DEF TypeInv, References, Knows, NodePCs
<1>3. nodeRuns \in Seq(NodeRunType)
  BY DEF TypeInv, TypeOK
<1>4. y \in NodeRunType /\ y.run = nodeRuns[i].run
  BY <1>2, <1>3, NodeRunFacts DEF NodeRunType, NodeRunStatus, OpenNodeRun
<1>5. nodeRuns' = [nodeRuns EXCEPT ![i] = y]
  BY Zenon DEF SaveWaiting
<1> HIDE DEF y
<1>6. nodeRuns' \in Seq(NodeRunType) /\ NodeRunsKept
  BY <1>2, <1>3, <1>4, <1>5, NodeRunBecomes
<1>7. Sound(p)
  BY <1>1, <1>2, <1>6, GotoSound DEF PCs, NodePCs
<1>8. StoresOK'
  BY <1>1, <1>6, StoresKept DEF TypeInv, TypeOK
<1> QED
  BY <1>1, <1>6, <1>7, <1>8, SoundStep

\* A step that changes a run's status, if anything, of the documents.
LEMMA StatusStep ==
  ASSUME TypeInv, NEW p \in Procs, NEW r \in Runs, NEW st \in RunStatus, Sound(p),
         SetRun(r, st) \/ UNCHANGED runs,
         UNCHANGED <<nodeRuns, queue, queuedEvents, questionEvents, replies, control>>
  PROVE  TypeInv'
<1>1. runs' \in [Runs -> RunType]
  BY SetRunFacts DEF TypeInv, TypeOK
<1>2. StoresOK'
  BY <1>1, KeptWhenUnchanged, StoresKept DEF TypeInv, TypeOK
<1> QED
  BY <1>2, KeptWhenUnchanged, SoundStep

LEMMA TypeParkRun == ASSUME TypeInv, NEW p \in Procs, ParkRun(p) PROVE TypeInv'
<1> DEFINE st == IF procs[p].result = "timer" THEN "waiting_for_timer" ELSE "waiting_for_user"
<1>1. /\ procs[p].pc = "park"
      /\ UNCHANGED <<nodeRuns, queue, queuedEvents, questionEvents, replies, control>>
      /\ \/ Goto(p, "interrupt") /\ UNCHANGED runs
         \/ SetRun(procs[p].run, st) /\ Return(p)
  BY DEF ParkRun, Abandon
<1>2. procs[p].run \in Runs /\ st \in RunStatus
  BY <1>1 DEF TypeInv, References, Knows, RunStatus, WaitingRun
<1>3. Sound(p)
  BY <1>1, ReturnSound, GotoSound, KeptWhenUnchanged DEF PCs, NodePCs
<1> QED
  BY <1>1, <1>2, <1>3, StatusStep

LEMMA TypeCompleteNodeRun == ASSUME TypeInv, NEW p \in Procs, CompleteNodeRun(p) PROVE TypeInv'
<1>1. /\ procs[p].pc = "complete" /\ SetNodeRun(procs[p].nr, Outcome(p))
      /\ UNCHANGED <<runs, queuedEvents, questionEvents, replies, control>>
  BY DEF CompleteNodeRun
<1>2. /\ procs[p] \in ProcType /\ nodeRuns \in Seq(NodeRunType) /\ locks \subseteq Definitions
      /\ procs[p].nr \in DOMAIN nodeRuns /\ procs[p].run \in Runs
  BY <1>1 DEF TypeInv, TypeOK, References, Knows, NodePCs
<1>3. Outcome(p) \in NodeRunStatus
  BY DEF Outcome, NodeRunStatus
<1>4. nodeRuns' \in Seq(NodeRunType) /\ NodeRunsKept
  BY <1>1, <1>2, <1>3, SetNodeRunFacts
<1>5. queue' \subseteq queue
  BY DEF CompleteNodeRun, RemoveRun
<1>6. Sound(p)
  <2>1. CASE Goto(p, "context") \/ Goto(p, "fail")
    BY <1>1, <1>4, <2>1, GotoSound DEF PCs, NodePCs
  <2>2. CASE /\ procs' = [procs EXCEPT ![p].pc = "enqueue", ![p].result = "retry",
                                       ![p].todo = {NodeOf(p)},
                                       ![p].attempt = nodeRuns[procs[p].nr].attempt + 1]
             /\ UNCHANGED locks
    <3> DEFINE x == [procs[p] EXCEPT !.pc = "enqueue", !.result = "retry",
                                     !.todo = {NodeOf(p)},
                                     !.attempt = nodeRuns[procs[p].nr].attempt + 1]
    <3>1. NodeOf(p) \in Nodes /\ nodeRuns[procs[p].nr].attempt + 1 \in Nat
      BY <1>2, NodeRunFacts DEF NodeOf
    <3>2. x \in ProcType /\ x.pc = "enqueue" /\ x.run = procs[p].run
      BY <1>2, <3>1 DEF ProcType, PCs
    <3>3. procs' = [procs EXCEPT ![p] = x]
      BY Zenon, <2>2
    <3> HIDE DEF x
    <3> QED
      BY <1>2, <1>4, <2>2, <3>2, <3>3, BecomesSound DEF NodePCs
  <2> QED
    BY <2>1, <2>2 DEF CompleteNodeRun
<1>7. StoresOK'
  BY <1>1, <1>4, <1>5, StoresKept DEF TypeInv, TypeOK
<1> QED
  BY <1>1, <1>4, <1>6, <1>7, SoundStep

LEMMA SuccessorsAreNodes ==
  ASSUME NEW n, NEW b
  PROVE  NextNodes(n, b) \subseteq Nodes /\ FailureSuccessors(n) \subseteq Nodes
  BY Graph DEF NextNodes, FailureSuccessors

LEMMA TypeUpdateContext == ASSUME TypeInv, NEW p \in Procs, UpdateContext(p) PROVE TypeInv'
<1> DEFINE succs == IF procs[p].result \in Branches
                      THEN NextNodes(NodeOf(p), procs[p].result)
                      ELSE FailureSuccessors(NodeOf(p))
<1> DEFINE x == [procs[p] EXCEPT !.todo = succs, !.attempt = 1,
                                 !.pc = IF succs = {} THEN "open" ELSE "enqueue"]
<1>1. /\ procs[p].pc = "context"
      /\ UNCHANGED <<runs, nodeRuns, queue, queuedEvents, questionEvents, replies, control>>
  BY DEF UpdateContext
<1>2. procs[p] \in ProcType /\ locks \subseteq Definitions /\ procs[p].run \in Runs
  BY <1>1 DEF TypeInv, TypeOK, References, Knows
<1>3. succs \subseteq Nodes
  BY SuccessorsAreNodes
<1>4. \/ procs' = [procs EXCEPT ![p] = x] /\ UNCHANGED locks
      \/ Return(p)
  BY Zenon DEF UpdateContext
<1> HIDE DEF succs
<1>5. x \in ProcType /\ x.pc \in {"open", "enqueue"} /\ x.run = procs[p].run
  BY <1>2, <1>3 DEF ProcType, PCs
<1> HIDE DEF x
<1>6. Sound(p)
  BY <1>1, <1>2, <1>4, <1>5, ReturnSound, BecomesSound, KeptWhenUnchanged DEF NodePCs
<1> QED
  BY <1>1, <1>2, <1>6, StatusStep DEF RunStatus

LEMMA TypeEnqueueNext == ASSUME TypeInv, NEW p \in Procs, EnqueueNext(p) PROVE TypeInv'
<1>1. /\ procs[p].pc = "enqueue"
      /\ UNCHANGED <<runs, queuedEvents, questionEvents, replies, control>>
  BY DEF EnqueueNext
<1>2. PICK n \in procs[p].todo :
        /\ EnqueueNode(procs[p].run, n, procs[p].attempt, procs[p].result = "retry")
        /\ \/ /\ procs' = [procs EXCEPT ![p].todo = @ \ {n}]
              /\ UNCHANGED locks
           \/ Return(p)
           \/ /\ procs' = [procs EXCEPT ![p].todo = {}, ![p].pc = "open"]
              /\ UNCHANGED locks
  BY DEF EnqueueNext
<1>3. procs[p] \in ProcType /\ locks \subseteq Definitions /\ procs[p].run \in Runs
  BY <1>1 DEF TypeInv, TypeOK, References, Knows
<1>4. procs[p].attempt \in Nat /\ n \in Nodes
  BY <1>3 DEF ProcType
<1>5. /\ nodeRuns' \in Seq(NodeRunType) /\ NodeRunsKept
      /\ queue' \subseteq JobType /\ \A j \in queue' : j.nr \in DOMAIN nodeRuns'
  <2>1. nodeRuns \in Seq(NodeRunType) /\ queue \subseteq JobType /\ \A j \in queue : j.nr \in DOMAIN nodeRuns
    BY DEF TypeInv, TypeOK, References
  <2> QED
    BY <1>2, <1>3, <1>4, <2>1, EnqueueFacts
<1>6. StoresOK'
  BY <1>1, <1>5 DEF TypeInv, TypeOK, References, StoresOK, NodeRunsKept
<1>7. Sound(p)
  <2>1. CASE procs' = [procs EXCEPT ![p].todo = @ \ {n}] /\ UNCHANGED locks
    <3> DEFINE x == [procs[p] EXCEPT !.todo = @ \ {n}]
    <3>1. x \in ProcType /\ x.pc = "enqueue" /\ x.run = procs[p].run
      BY <1>1, <1>3 DEF ProcType
    <3>2. procs' = [procs EXCEPT ![p] = x]
      BY Zenon, <2>1
    <3> HIDE DEF x
    <3> QED
      BY <1>3, <1>5, <2>1, <3>1, <3>2, BecomesSound DEF NodePCs
  <2>2. CASE procs' = [procs EXCEPT ![p].todo = {}, ![p].pc = "open"] /\ UNCHANGED locks
    <3> DEFINE x == [procs[p] EXCEPT !.todo = {}, !.pc = "open"]
    <3>1. x \in ProcType /\ x.pc = "open" /\ x.run = procs[p].run
      BY <1>1, <1>3 DEF ProcType, PCs
    <3>2. procs' = [procs EXCEPT ![p] = x]
      BY Zenon, <2>2
    <3> HIDE DEF x
    <3> QED
      BY <1>3, <1>5, <2>2, <3>1, <3>2, BecomesSound DEF NodePCs
  <2> QED
    BY <1>2, <2>1, <2>2, ReturnSound
<1> QED
  BY <1>1, <1>5, <1>6, <1>7, SoundStep

LEMMA TypeCountOpen == ASSUME TypeInv, NEW p \in Procs, CountOpen(p) PROVE TypeInv'
<1>1. /\ procs[p].pc = "open"
      /\ UNCHANGED <<runs, nodeRuns, queue, queuedEvents, questionEvents, replies, control>>
      /\ Return(p) \/ Goto(p, "finish")
  BY DEF CountOpen
<1>2. Sound(p) /\ procs[p].run \in Runs
  BY <1>1, ReturnSound, GotoSound, KeptWhenUnchanged DEF PCs, NodePCs, TypeInv, References, Knows
<1> QED
  BY <1>1, <1>2, StatusStep DEF RunStatus

LEMMA TypeFinishRun == ASSUME TypeInv, NEW p \in Procs, FinishRun(p) PROVE TypeInv'
<1>1. /\ procs[p].pc = "finish" /\ Return(p)
      /\ SetRun(procs[p].run, "succeeded") \/ UNCHANGED runs
      /\ UNCHANGED <<nodeRuns, queue, queuedEvents, questionEvents, replies, control>>
  BY DEF FinishRun
<1>2. procs[p].run \in Runs /\ "succeeded" \in RunStatus
  BY <1>1 DEF TypeInv, References, Knows, RunStatus, TerminalRun
<1> QED
  BY <1>1, <1>2, ReturnSound, StatusStep

LEMMA TypeFailRun == ASSUME TypeInv, NEW p \in Procs, FailRun(p) PROVE TypeInv'
<1>1. /\ procs[p].pc = "fail" /\ Return(p)
      /\ SetRun(procs[p].run, "failed") \/ UNCHANGED runs
      /\ UNCHANGED <<nodeRuns, queue, queuedEvents, questionEvents, replies, control>>
  BY DEF FailRun
<1>2. procs[p].run \in Runs /\ "failed" \in RunStatus
  BY <1>1 DEF TypeInv, References, Knows, RunStatus, TerminalRun
<1> QED
  BY <1>1, <1>2, ReturnSound, StatusStep

LEMMA TypeResumeRun == ASSUME TypeInv, NEW p \in Procs, ResumeRun(p) PROVE TypeInv'
<1>1. /\ procs[p].pc = "resume"
      /\ UNCHANGED <<nodeRuns, queue, queuedEvents, questionEvents, replies, control>>
      /\ \/ Goto(p, "live") /\ SetRun(procs[p].run, "running")
         \/ Goto(p, "interrupt") /\ UNCHANGED runs
  BY DEF ResumeRun, Abandon
<1>2. procs[p].run \in Runs /\ "running" \in RunStatus
  BY <1>1 DEF TypeInv, References, Knows, RunStatus
<1>3. Sound(p)
  BY <1>1, GotoSound, KeptWhenUnchanged DEF PCs, NodePCs
<1> QED
  BY <1>1, <1>2, <1>3, StatusStep

\* A step of no process.
LEMMA NoProcStep ==
  ASSUME TypeInv, StoresOK', ControlOK', NodeRunsKept, UNCHANGED <<procs, locks>>
  PROVE  TypeInv'
<1>1. procs \in [Procs -> ProcType] /\ locks \subseteq Definitions /\ \A q \in Procs : Knows(q)
  BY DEF TypeInv, TypeOK, References
<1>2. \A q \in Procs : Knows(q)'
  BY <1>1, KnowsKept
<1> QED
  BY <1>1, <1>2, TypeInvPartsNext DEF ProcsOK

LEMMA ControlKept ==
  ASSUME TypeInv, NodeRunsKept, UNCHANGED control
  PROVE  ControlOK'
  BY DEF TypeInv, TypeOK, References, ControlOK, NodeRunsKept, control

LEMMA TypeReplies ==
  ASSUME TypeInv, NEW i \in DOMAIN nodeRuns, NEW k \in 0..MaxAnswers,
         replies' \subseteq replies \cup {<<i, k>>},
         UNCHANGED <<runs, nodeRuns, queue, locks, procs, queuedEvents, questionEvents, control>>
  PROVE  TypeInv'
<1>1. replies' \subseteq Nat \X (0..MaxAnswers)
  <2>1. i \in Nat
    BY NodeRunFacts DEF TypeInv, TypeOK
  <2> QED
    BY <2>1 DEF TypeInv, TypeOK
<1>2. StoresOK'
  BY <1>1 DEF TypeInv, TypeOK, References, StoresOK
<1> QED
  BY <1>2, KeptWhenUnchanged, ControlKept, NoProcStep

LEMMA TypeQuestionSaved ==
  ASSUME TypeInv, NEW i \in DOMAIN nodeRuns, NEW t \in {"answered", "expired"},
         replies' \subseteq replies,
         nodeRuns' = [nodeRuns EXCEPT ![i].question = t],
         questionEvents' = questionEvents \cup {[type |-> t, nr |-> i]},
         UNCHANGED <<runs, queue, locks, procs, queuedEvents, control>>
  PROVE  TypeInv'
<1> DEFINE y == [nodeRuns[i] EXCEPT !.question = t]
<1>1. nodeRuns \in Seq(NodeRunType)
  BY DEF TypeInv, TypeOK
<1>2. y \in NodeRunType /\ y.run = nodeRuns[i].run
  BY <1>1, NodeRunFacts DEF NodeRunType
<1>3. nodeRuns' = [nodeRuns EXCEPT ![i] = y]
  BY Zenon
<1> HIDE DEF y
<1>4. nodeRuns' \in Seq(NodeRunType) /\ DOMAIN nodeRuns' = DOMAIN nodeRuns /\ NodeRunsKept
  BY <1>1, <1>2, <1>3, NodeRunBecomes
<1>5. questionEvents' \subseteq [type : {"answered", "expired"}, nr : Nat]
  BY <1>1, NodeRunFacts DEF TypeInv, TypeOK
<1>6. \A e \in questionEvents' : e.nr \in DOMAIN nodeRuns'
  BY <1>4 DEF TypeInv, References
<1>7. StoresOK'
  BY <1>4, <1>5, <1>6 DEF TypeInv, TypeOK, References, StoresOK
<1> QED
  BY <1>4, <1>7, ControlKept, NoProcStep

\* What the three resuming handlers do.
LEMMA TypeClaimWaiting ==
  ASSUME TypeInv, NEW h \in Handlers, NEW i \in DOMAIN nodeRuns, NEW res \in NodeResults,
         ClaimWaiting(h, i, res), questionEvents' \subseteq questionEvents,
         UNCHANGED <<runs, queue, locks, queuedEvents, replies, control>>
  PROVE  TypeInv'
<1> DEFINE y == [nodeRuns[i] EXCEPT !.status = "running", !.waitsFor = "none"]
<1> DEFINE x == [Idle EXCEPT !.pc = "resume", !.run = nodeRuns[i].run, !.nr = i, !.result = res]
<1>1. nodeRuns \in Seq(NodeRunType) /\ locks \subseteq Definitions /\ h \in Procs
  BY DEF TypeInv, TypeOK, Procs
<1>2. y \in NodeRunType /\ y.run = nodeRuns[i].run
  BY <1>1, NodeRunFacts DEF NodeRunType, NodeRunStatus, OpenNodeRun
<1>3. nodeRuns' = [nodeRuns EXCEPT ![i] = y]
  BY Zenon DEF ClaimWaiting
<1> HIDE DEF y
<1>4. nodeRuns' \in Seq(NodeRunType) /\ DOMAIN nodeRuns' = DOMAIN nodeRuns /\ NodeRunsKept
  BY <1>1, <1>2, <1>3, NodeRunBecomes
<1>5. nodeRuns[i].run \in Runs /\ i \in Nat
  BY <1>1, NodeRunFacts
<1>6. x \in ProcType /\ x.pc = "resume" /\ x.run = nodeRuns[i].run /\ x.nr = i
  BY <1>5 DEF ProcType, Idle, PCs
<1>7. procs' = [procs EXCEPT ![h] = x]
  BY Zenon DEF ClaimWaiting, Begin
<1> HIDE DEF x
<1>8. Sound(h)
  <2>1. nodeRuns'[x.nr].run = x.run
    BY <1>4, <1>6 DEF NodeRunsKept
  <2> QED
    BY <1>1, <1>4, <1>5, <1>6, <1>7, <2>1, BecomesSound
<1>9. StoresOK'
  BY <1>4 DEF TypeInv, TypeOK, References, StoresOK
<1> QED
  BY <1>1, <1>4, <1>8, <1>9, SoundStep

LEMMA TypeHandleQuestion ==
  ASSUME TypeInv, NEW h \in Handlers, NEW e \in questionEvents, HandleQuestion(h, e)
  PROVE  TypeInv'
<1>1. /\ questionEvents' \subseteq questionEvents
      /\ UNCHANGED <<runs, queue, locks, queuedEvents, replies, control>>
      /\ \/ \E res \in AnswerBranches \cup {"error"} : ClaimWaiting(h, e.nr, res)
         \/ UNCHANGED <<nodeRuns, procs>>
  BY DEF HandleQuestion
<1>2. e.nr \in DOMAIN nodeRuns
  BY DEF TypeInv, References
<1>3. CASE \E res \in AnswerBranches \cup {"error"} : ClaimWaiting(h, e.nr, res)
  BY <1>1, <1>2, <1>3, Graph, TypeClaimWaiting DEF NodeResults, Branches
<1>4. CASE UNCHANGED <<nodeRuns, procs>>
  <2>1. StoresOK'
    BY <1>1, <1>4 DEF TypeInv, TypeOK, References, StoresOK
  <2> QED
    BY <1>1, <1>4, <2>1, KeptWhenUnchanged, ControlKept, NoProcStep
<1> QED
  BY <1>1, <1>3, <1>4

LEMMA TypeResumeDelayedNode ==
  ASSUME TypeInv, NEW h \in Handlers, NEW i \in DOMAIN nodeRuns, ResumeDelayedNode(h, i)
  PROVE  TypeInv'
  BY TypeClaimWaiting DEF ResumeDelayedNode, NodeResults, Branches

\* The NodeRuns of C are closed at once.
LEMMA InterruptAll ==
  ASSUME nodeRuns \in Seq(NodeRunType), NEW C,
         nodeRuns' = [i \in DOMAIN nodeRuns |->
                        IF i \in C THEN [nodeRuns[i] EXCEPT !.status = "interrupted"]
                        ELSE nodeRuns[i]]
  PROVE  /\ nodeRuns' \in Seq(NodeRunType)
         /\ DOMAIN nodeRuns' = DOMAIN nodeRuns
         /\ NodeRunsKept
<1> DEFINE F(i) == IF i \in C THEN [nodeRuns[i] EXCEPT !.status = "interrupted"] ELSE nodeRuns[i]
<1>1. \A i \in DOMAIN nodeRuns : F(i) \in NodeRunType /\ F(i).run = nodeRuns[i].run
  <2> SUFFICES ASSUME NEW i \in DOMAIN nodeRuns
               PROVE  F(i) \in NodeRunType /\ F(i).run = nodeRuns[i].run
    OBVIOUS
  <2>1. [nodeRuns[i] EXCEPT !.status = "interrupted"] \in NodeRunType
    BY NodeRunFacts DEF NodeRunType, NodeRunStatus
  <2>2. [nodeRuns[i] EXCEPT !.status = "interrupted"].run = nodeRuns[i].run
    BY NodeRunFacts DEF NodeRunType
  <2> QED
    BY <2>1, <2>2, NodeRunFacts
<1>2. nodeRuns' = [i \in DOMAIN nodeRuns |-> F(i)]
  OBVIOUS
<1>3. DOMAIN nodeRuns = 1..Len(nodeRuns) /\ Len(nodeRuns) \in Nat
  OBVIOUS
<1> HIDE DEF F
<1>4. nodeRuns' \in [1..Len(nodeRuns) -> NodeRunType]
  BY <1>1, <1>2, <1>3
<1>5. nodeRuns' \in Seq(NodeRunType)
  BY <1>3, <1>4, SeqDef
<1> QED
  BY <1>1, <1>2, <1>5 DEF NodeRunsKept

LEMMA TypeCancelRun ==
  ASSUME TypeInv, NEW h \in Handlers, NEW r \in Runs, CancelRun(h, r) PROVE TypeInv'
<1> DEFINE x == [Idle EXCEPT !.pc = "close", !.run = r]
<1>1. /\ SetRun(r, "cancelled") /\ h \in Procs /\ locks \subseteq Definitions
      /\ UNCHANGED <<nodeRuns, queue, locks, queuedEvents, questionEvents, replies, control>>
  BY DEF CancelRun, Procs, TypeInv, TypeOK
<1>2. x \in ProcType /\ x.pc = "close" /\ x.run = r
  BY DEF ProcType, Idle, PCs
<1>3. procs' = [procs EXCEPT ![h] = x]
  BY Zenon DEF CancelRun, Begin
<1> HIDE DEF x
<1>4. Sound(h)
  BY <1>1, <1>2, <1>3, BecomesSound, KeptWhenUnchanged DEF NodePCs
<1>5. "cancelled" \in RunStatus
  BY DEF RunStatus, TerminalRun
<1> QED
  BY <1>1, <1>4, <1>5, StatusStep

LEMMA TypeCloseNodeRuns ==
  ASSUME TypeInv, NEW p \in Procs, CloseNodeRuns(p) PROVE TypeInv'
<1> DEFINE C == {i \in DOMAIN nodeRuns :
                   nodeRuns[i].run = procs[p].run /\ nodeRuns[i].status \in OpenNodeRun}
<1>1. /\ queue' \subseteq queue
      /\ UNCHANGED <<runs, locks, queuedEvents, questionEvents, replies, control>>
  BY DEF CloseNodeRuns, RemoveRun
<1>2. /\ nodeRuns \in Seq(NodeRunType) /\ procs \in [Procs -> ProcType]
      /\ locks \subseteq Definitions /\ runs \in [Runs -> RunType] /\ \A q \in Procs : Knows(q)
  BY DEF TypeInv, TypeOK, References
<1>3. nodeRuns' \in Seq(NodeRunType) /\ DOMAIN nodeRuns' = DOMAIN nodeRuns /\ NodeRunsKept
  <2>1. nodeRuns' = [i \in DOMAIN nodeRuns |->
                       IF i \in C THEN [nodeRuns[i] EXCEPT !.status = "interrupted"]
                       ELSE nodeRuns[i]]
    BY DEF CloseNodeRuns
  <2> HIDE DEF C
  <2> QED
    BY <1>2, <2>1, InterruptAll
<1>4. \A q \in Procs :
        \/ procs'[q] = Idle
        \/ procs'[q] = procs[q]
        \/ procs'[q] = [procs[q] EXCEPT !.aborted = TRUE]
  BY DEF CloseNodeRuns
<1>5. \A q \in Procs : procs'[q] \in ProcType /\ Knows(q)'
  <2> SUFFICES ASSUME NEW q \in Procs PROVE procs'[q] \in ProcType /\ Knows(q)'
    OBVIOUS
  <2>1. procs[q] \in ProcType
    BY <1>2
  <2>2. CASE procs'[q] = Idle
    BY <2>2, IdleType DEF Knows, NodePCs
  <2>3. CASE procs'[q] = procs[q]
    BY <1>2, <1>3, <2>1, <2>3, KnowsKept
  <2>4. CASE procs'[q] = [procs[q] EXCEPT !.aborted = TRUE]
    <3>1. /\ procs'[q] \in ProcType
          /\ procs'[q].pc = procs[q].pc /\ procs'[q].run = procs[q].run
          /\ procs'[q].nr = procs[q].nr /\ procs'[q].result = procs[q].result
      BY <2>1, <2>4 DEF ProcType
    <3> QED
      BY <1>2, <1>3, <3>1 DEF Knows, NodeRunsKept
  <2> QED
    BY <1>4, <2>2, <2>3, <2>4
<1>6. procs' \in [Procs -> ProcType]
  <2>1. \E f : procs' = [q \in Procs |-> f[q]]
    <3>1. procs' = [q \in Procs |-> procs'[q]]
      BY DEF CloseNodeRuns
    <3> QED
      BY Zenon, <3>1
  <2> QED
    BY <1>5, <2>1
<1>7. ProcsOK'
  BY <1>1, <1>2, <1>5, <1>6 DEF ProcsOK
<1>8. StoresOK'
  BY <1>1, <1>2, <1>3, StoresKept
<1> QED
  BY <1>1, <1>3, <1>7, <1>8, ControlKept, TypeInvPartsNext

LEMMA TypeClaimRetry ==
  ASSUME TypeInv, NEW h \in Handlers, NEW r \in Runs, ClaimRetry(h, r) PROVE TypeInv'
<1> DEFINE x == [Idle EXCEPT !.pc = "spawn", !.run = r]
<1> DEFINE y == [runs[r] EXCEPT !.retryClaimed = TRUE]
<1>1. /\ h \in Procs /\ locks \subseteq Definitions /\ runs \in [Runs -> RunType]
      /\ UNCHANGED <<nodeRuns, queue, locks, queuedEvents, questionEvents, replies, control>>
  BY DEF ClaimRetry, Procs, TypeInv, TypeOK
<1>2. x \in ProcType /\ x.pc = "spawn" /\ x.run = r
  BY DEF ProcType, Idle, PCs
<1>3. procs' = [procs EXCEPT ![h] = x]
  BY Zenon DEF ClaimRetry, Begin
<1>4. y \in RunType
  BY <1>1 DEF RunType
<1>5. runs' = [runs EXCEPT ![r] = y]
  BY Zenon DEF ClaimRetry
<1> HIDE DEF x, y
<1>6. runs' \in [Runs -> RunType]
  BY <1>1, <1>4, <1>5
<1>7. Sound(h)
  BY <1>1, <1>2, <1>3, BecomesSound, KeptWhenUnchanged DEF NodePCs
<1>8. StoresOK'
  BY <1>1, <1>6, KeptWhenUnchanged, StoresKept DEF TypeInv, TypeOK
<1> QED
  BY <1>1, <1>7, <1>8, KeptWhenUnchanged, SoundStep

LEMMA RetryStartsAreNodes ==
  ASSUME nodeRuns \in Seq(NodeRunType), NEW r \in Runs
  PROVE  RetryStarts(r) \subseteq Nodes
<1>1. \A i \in DOMAIN nodeRuns : nodeRuns[i].node \in Nodes
  BY NodeRunFacts
<1> QED
  BY <1>1, Graph DEF RetryStarts

LEMMA TypeSpawnRetry == ASSUME TypeInv, NEW p \in Procs, SpawnRetry(p) PROVE TypeInv'
<1>1. /\ procs[p].pc = "spawn"
      /\ UNCHANGED <<nodeRuns, queue, queuedEvents, questionEvents, replies, control>>
  BY DEF SpawnRetry
<1>2. /\ procs[p] \in ProcType /\ procs[p].run \in Runs /\ runs \in [Runs -> RunType]
      /\ locks \subseteq Definitions /\ nodeRuns \in Seq(NodeRunType)
  BY <1>1 DEF TypeInv, TypeOK, References, Knows
<1>3. PICK child \in Runs :
        /\ runs' = [runs EXCEPT ![child].status = "running", ![child].parent = procs[p].run]
        /\ \/ Return(p)
           \/ \E n \in RetryStarts(procs[p].run) :
                /\ procs' = [procs EXCEPT ![p].pc = "enqueue", ![p].run = child,
                                          ![p].result = "spawn", ![p].todo = {n}]
                /\ UNCHANGED locks
  BY DEF SpawnRetry
<1>4. runs' \in [Runs -> RunType]
  <2> DEFINE y == [runs[child] EXCEPT !.status = "running", !.parent = procs[p].run]
  <2>1. y \in RunType
    BY <1>2 DEF RunType, RunStatus
  <2>2. runs' = [runs EXCEPT ![child] = y]
    BY Zenon, <1>3
  <2> HIDE DEF y
  <2> QED
    BY <1>2, <2>1, <2>2
<1>5. Sound(p)
  <2>1. ASSUME NEW n \in RetryStarts(procs[p].run),
               procs' = [procs EXCEPT ![p].pc = "enqueue", ![p].run = child,
                                      ![p].result = "spawn", ![p].todo = {n}],
               UNCHANGED locks
        PROVE  Sound(p)
    <3> DEFINE x == [procs[p] EXCEPT !.pc = "enqueue", !.run = child,
                                     !.result = "spawn", !.todo = {n}]
    <3>1. n \in Nodes
      BY <1>2, RetryStartsAreNodes
    <3>2. x \in ProcType /\ x.pc = "enqueue" /\ x.run \in Runs
      BY <1>2, <3>1 DEF ProcType, PCs
    <3>3. procs' = [procs EXCEPT ![p] = x]
      BY Zenon, <2>1
    <3> HIDE DEF x
    <3> QED
      BY <1>1, <1>2, <2>1, <3>2, <3>3, BecomesSound, KeptWhenUnchanged DEF NodePCs
  <2> QED
    BY <1>3, <2>1, ReturnSound
<1>6. StoresOK'
  BY <1>1, <1>4, KeptWhenUnchanged, StoresKept DEF TypeInv, TypeOK
<1> QED
  BY <1>1, <1>5, <1>6, KeptWhenUnchanged, SoundStep

LEMMA TypeDatabaseError == ASSUME TypeInv, NEW p \in Procs, DatabaseError(p) PROVE TypeInv'
<1>1. /\ Return(p) /\ faults < MaxFaults /\ faults' = faults + 1
      /\ UNCHANGED <<runs, nodeRuns, queue, queuedEvents, questionEvents, replies, backend, recovery>>
  BY DEF DatabaseError
<1>2. faults' \in 0..MaxFaults
  BY <1>1, Bounds DEF TypeInv, TypeOK
<1>3. ControlOK'
  BY <1>1, <1>2 DEF TypeInv, TypeOK, References, ControlOK
<1>4. StoresOK'
  BY <1>1, KeptWhenUnchanged, StoresKept DEF TypeInv, TypeOK
<1>5. Sound(p)
  BY <1>1, ReturnSound
<1>6. ProcsOK'
  BY <1>1, <1>5, KeptWhenUnchanged, AllKnow DEF Sound, TypeInv, ProcsOK
<1> QED
  BY <1>3, <1>4, <1>6, TypeInvPartsNext

LEMMA TypeCrash == ASSUME TypeInv, Crash PROVE TypeInv'
<1>1. /\ queue' = {} /\ locks' = {} /\ procs' = [p \in Procs |-> Idle]
      /\ queuedEvents' = {} /\ questionEvents' = {} /\ replies' = {}
      /\ backend' = "down" /\ recovery' = NoRecovery
      /\ faults < MaxFaults /\ faults' = faults + 1
      /\ UNCHANGED <<runs, nodeRuns>>
  BY DEF Crash
<1>2. StoresOK'
  BY <1>1 DEF TypeInv, TypeOK, StoresOK
<1>3. ProcsOK'
  <2>1. \A p \in Procs : procs'[p].pc = "idle" /\ procs' \in [Procs -> ProcType]
    BY <1>1, IdleType
  <2> QED
    BY <1>1, <2>1, IdleType DEF ProcsOK, Knows, NodePCs
<1>4. ControlOK'
  BY <1>1, Bounds DEF TypeInv, TypeOK, ControlOK, NoRecovery
<1> QED
  BY <1>2, <1>3, <1>4, TypeInvPartsNext

LEMMA TypeRestart == ASSUME TypeInv, Restart PROVE TypeInv'
<1>1. /\ backend' = "recovering"
      /\ \E s \in SUBSET Runs : recovery' = [NoRecovery EXCEPT !.stale = s]
      /\ UNCHANGED <<runs, nodeRuns, memory, faults>>
  BY DEF Restart
<1>2. ControlOK'
  BY <1>1 DEF TypeInv, TypeOK, ControlOK, NoRecovery
<1>3. StoresOK'
  BY <1>1 DEF TypeInv, TypeOK, References, StoresOK, memory
<1> QED
  BY <1>1, <1>2, <1>3, NoProcStep, KeptWhenUnchanged DEF memory

LEMMA TypeRecoverRun == ASSUME TypeInv, NEW r \in Runs, RecoverRun(r) PROVE TypeInv'
<1>1. /\ recovery' = [stale |-> recovery.stale \ {r}, run |-> r, closed |-> FALSE,
                      resume |-> CutOff(r)]
      /\ UNCHANGED <<runs, nodeRuns, memory, backend, faults>>
  BY DEF RecoverRun
<1>2. CutOff(r) \subseteq DOMAIN nodeRuns /\ DOMAIN nodeRuns \subseteq Nat
  BY NodeRunFacts DEF CutOff, TypeInv, TypeOK
<1>3. ControlOK'
  BY <1>1, <1>2 DEF TypeInv, TypeOK, ControlOK
<1>4. StoresOK'
  BY <1>1 DEF TypeInv, TypeOK, References, StoresOK, memory
<1> QED
  BY <1>1, <1>3, <1>4, NoProcStep, KeptWhenUnchanged DEF memory

LEMMA TypeInterruptCut == ASSUME TypeInv, InterruptCut PROVE TypeInv'
<1>1. /\ queue' \subseteq queue /\ recovery' = [recovery EXCEPT !.closed = TRUE]
      /\ UNCHANGED <<runs, locks, procs, queuedEvents, questionEvents, replies, backend, faults>>
  BY DEF InterruptCut, RemoveRun
<1>2. nodeRuns' \in Seq(NodeRunType) /\ DOMAIN nodeRuns' = DOMAIN nodeRuns /\ NodeRunsKept
  <2> DEFINE C == recovery.resume
  <2>1. nodeRuns' = [i \in DOMAIN nodeRuns |->
                       IF i \in C THEN [nodeRuns[i] EXCEPT !.status = "interrupted"]
                       ELSE nodeRuns[i]]
    BY DEF InterruptCut
  <2>2. nodeRuns \in Seq(NodeRunType)
    BY DEF TypeInv, TypeOK
  <2> HIDE DEF C
  <2> QED
    BY <2>1, <2>2, InterruptAll
<1>3. ControlOK'
  BY <1>1, <1>2 DEF TypeInv, TypeOK, References, ControlOK
<1>4. StoresOK'
  BY <1>1, <1>2, StoresKept DEF TypeInv, TypeOK
<1> QED
  BY <1>1, <1>2, <1>3, <1>4, NoProcStep

LEMMA TypeFailCut == ASSUME TypeInv, FailCut PROVE TypeInv'
<1>1. /\ recovery' = [NoRecovery EXCEPT !.stale = recovery.stale]
      /\ SetRun(recovery.run, "failed") \/ UNCHANGED runs
      /\ recovery.run # NoRun
      /\ UNCHANGED <<nodeRuns, memory, backend, faults>>
  BY DEF FailCut
<1>2. recovery.run \in Runs /\ "failed" \in RunStatus
  BY <1>1 DEF TypeInv, TypeOK, RunStatus, TerminalRun
<1>3. runs' \in [Runs -> RunType]
  BY <1>1, <1>2, SetRunFacts DEF TypeInv, TypeOK
<1>4. ControlOK'
  BY <1>1 DEF TypeInv, TypeOK, ControlOK, NoRecovery
<1>5. StoresOK'
  BY <1>1, <1>3 DEF TypeInv, TypeOK, References, StoresOK, memory
<1> QED
  BY <1>1, <1>4, <1>5, NoProcStep, KeptWhenUnchanged DEF memory

LEMMA TypeRecoverNode ==
  ASSUME TypeInv, NEW i \in recovery.resume, RecoverNode(i) PROVE TypeInv'
<1>1. /\ EnqueueNode(nodeRuns[i].run, nodeRuns[i].node, nodeRuns[i].attempt + 1, FALSE)
      /\ \/ recovery' = [NoRecovery EXCEPT !.stale = recovery.stale]
         \/ recovery' = [recovery EXCEPT !.resume = @ \ {i}]
      /\ UNCHANGED <<runs, locks, procs, queuedEvents, questionEvents, replies, backend, faults>>
  BY DEF RecoverNode
<1>2. /\ i \in DOMAIN nodeRuns /\ nodeRuns \in Seq(NodeRunType)
      /\ queue \subseteq JobType /\ \A j \in queue : j.nr \in DOMAIN nodeRuns
  BY DEF TypeInv, TypeOK, References
<1>3. /\ nodeRuns' \in Seq(NodeRunType) /\ NodeRunsKept
      /\ queue' \subseteq JobType /\ \A j \in queue' : j.nr \in DOMAIN nodeRuns'
  <2>1. nodeRuns[i].run \in Runs /\ nodeRuns[i].node \in Nodes /\ nodeRuns[i].attempt + 1 \in Nat
    BY <1>2, NodeRunFacts
  <2> QED
    BY <1>1, <1>2, <2>1, EnqueueFacts
<1>4. ControlOK'
  <2>1. recovery' \in [stale : SUBSET Runs, run : Runs \cup {NoRun}, closed : BOOLEAN,
                       resume : SUBSET Nat]
    BY <1>1 DEF TypeInv, TypeOK, NoRecovery
  <2>2. recovery'.resume \subseteq recovery.resume
    BY <1>1 DEF TypeInv, TypeOK, NoRecovery
  <2> QED
    BY <1>1, <1>3, <2>1, <2>2 DEF TypeInv, TypeOK, References, ControlOK, NodeRunsKept
<1>5. StoresOK'
  BY <1>1, <1>3 DEF TypeInv, TypeOK, References, StoresOK, NodeRunsKept
<1> QED
  BY <1>1, <1>3, <1>4, <1>5, NoProcStep

LEMMA TypeFinishRecovery == ASSUME TypeInv, FinishRecovery PROVE TypeInv'
<1>1. /\ backend' = "up" /\ queuedEvents' = queuedEvents \cup Unannounced
      /\ UNCHANGED <<runs, nodeRuns, queue, locks, procs, questionEvents, replies, recovery, faults>>
  BY DEF FinishRecovery
<1>2. queuedEvents' \subseteq Runs \X {"start", "recovery"}
  BY <1>1 DEF TypeInv, TypeOK, Unannounced
<1>3. StoresOK'
  BY <1>1, <1>2 DEF TypeInv, TypeOK, References, StoresOK
<1>4. ControlOK'
  BY <1>1 DEF TypeInv, TypeOK, References, ControlOK
<1> QED
  BY <1>1, <1>3, <1>4, NoProcStep, KeptWhenUnchanged

LEMMA TypeStep == ASSUME TypeInv, NEW p \in Procs, Step(p) PROVE TypeInv'
<1>1. CASE LoadJob(p) \/ MarkRunning(p) \/ CountExecution(p) \/ Execute(p)
  BY <1>1, TypeLoadJob, TypeMarkRunning, TypeCountExecution, TypeExecute
<1>2. CASE ReadLiveStatus(p) \/ InterruptNodeRun(p) \/ SaveWaiting(p) \/ ParkRun(p)
  BY <1>2, TypeReadLiveStatus, TypeInterruptNodeRun, TypeSaveWaiting, TypeParkRun
<1>3. CASE CompleteNodeRun(p) \/ UpdateContext(p) \/ EnqueueNext(p) \/ CountOpen(p)
  BY <1>3, TypeCompleteNodeRun, TypeUpdateContext, TypeEnqueueNext, TypeCountOpen
<1>4. CASE FinishRun(p) \/ FailRun(p) \/ ResumeRun(p) \/ CloseNodeRuns(p) \/ SpawnRetry(p)
  BY <1>4, TypeFinishRun, TypeFailRun, TypeResumeRun, TypeCloseNodeRuns, TypeSpawnRetry
<1> QED
  BY <1>1, <1>2, <1>3, <1>4 DEF Step

LEMMA TypeUsers == ASSUME TypeInv, Users PROVE TypeInv'
<1>1. ASSUME NEW i \in DOMAIN nodeRuns, NEW k \in 1..MaxAnswers, OpenAnswer(i, k)
      PROVE  TypeInv'
  <2>1. k \in 0..MaxAnswers
    BY Bounds
  <2>2. /\ replies' \subseteq replies \cup {<<i, k>>}
        /\ UNCHANGED <<runs, nodeRuns, queue, locks, procs, queuedEvents, questionEvents, control>>
    BY <1>1 DEF OpenAnswer
  <2> QED
    BY <2>1, <2>2, TypeReplies
<1> QED
  BY <1>1, TypeStartRun, TypeCancelRun, TypeClaimRetry DEF Users

LEMMA TypeAnswers ==
  ASSUME TypeInv, NEW i \in DOMAIN nodeRuns,
         \/ \E k \in 1..MaxAnswers : SaveAnswer(i, k)
         \/ OpenExpiry(i) \/ SaveExpiry(i)
  PROVE  TypeInv'
<1>1. ASSUME NEW k \in 1..MaxAnswers, SaveAnswer(i, k) PROVE TypeInv'
  BY <1>1, TypeQuestionSaved DEF SaveAnswer
<1>2. CASE OpenExpiry(i)
  BY <1>2, Bounds, TypeReplies DEF OpenExpiry
<1>3. CASE SaveExpiry(i)
  BY <1>3, TypeQuestionSaved DEF SaveExpiry
<1> QED
  BY <1>1, <1>2, <1>3

LEMMA TypeRecovery == ASSUME TypeInv, Recovery PROVE TypeInv'
  BY TypeRestart, TypeRecoverRun, TypeInterruptCut, TypeFailCut, TypeRecoverNode,
     TypeFinishRecovery DEF Recovery

LEMMA TypeNext == TypeInv /\ [Next]_vars => TypeInv'
<1> SUFFICES ASSUME TypeInv, [Next]_vars PROVE TypeInv'
  OBVIOUS
<1>1. CASE Users
  BY <1>1, TypeUsers
<1>2. CASE \E h \in Handlers :
             \/ \E e \in queuedEvents : HandleRunQueued(h, e[1], e[2])
             \/ \E e \in questionEvents : HandleQuestion(h, e)
             \/ \E i \in DOMAIN nodeRuns : ResumeDelayedNode(h, i)
  BY <1>2, TypeHandleRunQueued, TypeHandleQuestion, TypeResumeDelayedNode
<1>3. CASE \E i \in DOMAIN nodeRuns :
             \/ \E k \in 1..MaxAnswers : SaveAnswer(i, k)
             \/ OpenExpiry(i) \/ SaveExpiry(i)
  BY <1>3, TypeAnswers
<1>4. CASE \E w \in Workers : DispatchJob(w)
  BY <1>4, TypeDispatchJob
<1>5. CASE \E p \in Procs : Step(p) \/ DatabaseError(p)
  BY <1>5, TypeStep, TypeDatabaseError
<1>6. CASE Crash \/ Recovery
  BY <1>6, TypeCrash, TypeRecovery
<1>7. CASE UNCHANGED vars
  <2>1. UNCHANGED <<runs, nodeRuns, queue, locks, procs, queuedEvents, questionEvents, replies, control>>
    BY <1>7 DEF vars, memory
  <2>2. StoresOK'
    BY <2>1 DEF TypeInv, TypeOK, References, StoresOK
  <2> QED
    BY <2>1, <2>2, KeptWhenUnchanged, ControlKept, NoProcStep
<1> QED
  BY <1>1, <1>2, <1>3, <1>4, <1>5, <1>6, <1>7 DEF Next

LEMMA TypeInvariant == Spec => []TypeInv
  BY TypeInit, TypeNext, PTL DEF Spec

\* Every reachable state is well formed: whatever the engine's handlers, its
\* workers, a crash and the recovery do, and in whatever order, no document,
\* job or event gets a value its schema does not allow.
THEOREM TypeCorrect == Spec => []TypeOK
<1>1. TypeInv => TypeOK
  BY DEF TypeInv
<1> QED
  BY <1>1, TypeInvariant, PTL

\* No job, event or recovery step refers to a NodeRun that does not exist, and
\* a process that works on a NodeRun works on the run it belongs to.
THEOREM ReferencesHold == Spec => []References
<1>1. TypeInv => References
  BY DEF TypeInv
<1> QED
  BY <1>1, TypeInvariant, PTL

-----------------------------------------------------------------------------
(* What a step does to its process. *)

\* The process goes on with its run, or ends and gives its lock back.
Proceeds(p) ==
  /\ procs[p].pc # "idle"
  /\ OnlyProc(p)
  /\ \/ /\ procs'[p].pc = "idle"
        /\ locks' = IF p \in Workers THEN locks \ {DefinitionOf[procs[p].run]} ELSE locks
     \/ /\ locks' = locks
        /\ procs'[p].run = procs[p].run
        /\ procs'[p].pc \notin {"idle", "load", "resume", "close", "spawn"}
        /\ procs'[p].pc = "mark" => procs[p].pc = "load" /\ ~Exhausted(procs[p].run)
        /\ procs'[p].pc = "count" => procs[p].pc = "mark"
        /\ procs'[p].pc = "exec" => procs[p].pc = "count"

\* Some handler begins or ends something that is not the execution of a job.
HandlerActs ==
  /\ locks' = locks
  /\ \E h \in Handlers : OnlyProc(h) /\ procs'[h].pc \notin {"load", "mark", "count", "exec"}

LEMMA GotoProceeds ==
  ASSUME TypeInv, NEW p \in Procs,
         NEW c \in PCs \ {"idle", "load", "resume", "close", "spawn"}, Goto(p, c),
         procs[p].pc # "idle",
         c = "mark" => procs[p].pc = "load" /\ ~Exhausted(procs[p].run),
         c = "count" => procs[p].pc = "mark",
         c = "exec" => procs[p].pc = "count"
  PROVE  Proceeds(p)
<1>1. procs \in [Procs -> ProcType]
  BY DEF TypeInv, TypeOK
<1> QED
  BY <1>1, GotoFacts DEF Proceeds

LEMMA ReturnProceeds ==
  ASSUME TypeInv, NEW p \in Procs, Return(p), procs[p].pc # "idle"
  PROVE  Proceeds(p)
<1>1. procs \in [Procs -> ProcType] /\ locks \subseteq Definitions
  BY DEF TypeInv, TypeOK
<1> QED
  BY <1>1, ReturnFacts DEF Proceeds, Return

LEMMA BecomesProceeds ==
  ASSUME TypeInv, NEW p \in Procs, NEW x, procs' = [procs EXCEPT ![p] = x], locks' = locks,
         procs[p].pc # "idle", x.run = procs[p].run,
         x.pc \in PCs \ {"idle", "load", "mark", "count", "exec", "resume", "close", "spawn"}
  PROVE  Proceeds(p)
<1>1. procs \in [Procs -> ProcType]
  BY DEF TypeInv, TypeOK
<1>2. procs'[p] = x /\ OnlyProc(p)
  BY <1>1 DEF OnlyProc
<1> QED
  BY <1>2 DEF Proceeds

LEMMA ProcessFields ==
  ASSUME TypeInv, NEW p \in Procs
  PROVE  procs[p] \in ProcType
  BY DEF TypeInv, TypeOK

\* Every step of a process but a cancellation's and a retry's is of this form.
LEMMA StepProceeds ==
  ASSUME TypeInv, NEW p \in Procs, Step(p), ~CloseNodeRuns(p), ~SpawnRetry(p)
  PROVE  Proceeds(p)
<1>1. CASE LoadJob(p)
  <2>1. procs[p].pc = "load"
    BY <1>1 DEF LoadJob
  <2>2. CASE Goto(p, "interrupt") \/ Return(p)
    BY <2>1, <2>2, GotoProceeds, ReturnProceeds DEF PCs
  <2>3. CASE Goto(p, "mark") /\ ~Exhausted(procs[p].run)
    BY <2>1, <2>3, GotoProceeds DEF PCs
  <2>4. CASE /\ procs' = [procs EXCEPT ![p].pc = "complete", ![p].result = "refused"]
             /\ UNCHANGED locks
    <3> DEFINE x == [procs[p] EXCEPT !.pc = "complete", !.result = "refused"]
    <3>1. x.pc = "complete" /\ x.run = procs[p].run
      BY ProcessFields DEF ProcType
    <3>2. procs' = [procs EXCEPT ![p] = x]
      BY Zenon, <2>4
    <3> HIDE DEF x
    <3> QED
      BY <2>1, <2>4, <3>1, <3>2, BecomesProceeds DEF PCs
  <2> QED
    BY <1>1, <2>2, <2>3, <2>4 DEF LoadJob, Abandon
<1>2. CASE MarkRunning(p) \/ CountExecution(p)
  BY <1>2, GotoProceeds DEF MarkRunning, CountExecution, PCs
<1>3. CASE Execute(p)
  <2>1. PICK res \in Results[NodeOf(p)] :
          procs' = [procs EXCEPT ![p].pc = "live", ![p].result = res]
    BY <1>3 DEF Execute
  <2> DEFINE x == [procs[p] EXCEPT !.pc = "live", !.result = res]
  <2>2. x.pc = "live" /\ x.run = procs[p].run
    BY ProcessFields DEF ProcType
  <2>3. procs' = [procs EXCEPT ![p] = x] /\ procs[p].pc = "exec" /\ locks' = locks
    BY Zenon, <1>3, <2>1 DEF Execute
  <2> HIDE DEF x
  <2> QED
    BY <2>2, <2>3, BecomesProceeds DEF PCs
<1>4. CASE ReadLiveStatus(p)
  <2>1. /\ procs[p].pc = "live"
        /\ Goto(p, "interrupt") \/ Goto(p, "wait") \/ Goto(p, "complete")
    BY <1>4 DEF ReadLiveStatus
  <2> QED
    BY <2>1, GotoProceeds DEF PCs
<1>5. CASE InterruptNodeRun(p) \/ CountOpen(p) \/ FinishRun(p) \/ FailRun(p)
  BY <1>5, GotoProceeds, ReturnProceeds
     DEF InterruptNodeRun, CountOpen, FinishRun, FailRun, PCs
<1>6. CASE SaveWaiting(p) \/ ParkRun(p) \/ ResumeRun(p)
  BY <1>6, GotoProceeds, ReturnProceeds DEF SaveWaiting, ParkRun, ResumeRun, Abandon, PCs
<1>7. CASE CompleteNodeRun(p)
  <2>1. procs[p].pc = "complete"
    BY <1>7 DEF CompleteNodeRun
  <2>2. CASE Goto(p, "context") \/ Goto(p, "fail")
    BY <2>1, <2>2, GotoProceeds DEF PCs
  <2>3. CASE /\ procs' = [procs EXCEPT ![p].pc = "enqueue", ![p].result = "retry",
                                       ![p].todo = {NodeOf(p)},
                                       ![p].attempt = nodeRuns[procs[p].nr].attempt + 1]
             /\ UNCHANGED locks
    <3> DEFINE x == [procs[p] EXCEPT !.pc = "enqueue", !.result = "retry",
                                     !.todo = {NodeOf(p)},
                                     !.attempt = nodeRuns[procs[p].nr].attempt + 1]
    <3>1. x.pc = "enqueue" /\ x.run = procs[p].run
      BY ProcessFields DEF ProcType
    <3>2. procs' = [procs EXCEPT ![p] = x]
      BY Zenon, <2>3
    <3> HIDE DEF x
    <3> QED
      BY <2>1, <2>3, <3>1, <3>2, BecomesProceeds DEF PCs
  <2> QED
    BY <1>7, <2>2, <2>3 DEF CompleteNodeRun
<1>8. CASE UpdateContext(p)
  <2> DEFINE succs == IF procs[p].result \in Branches
                        THEN NextNodes(NodeOf(p), procs[p].result)
                        ELSE FailureSuccessors(NodeOf(p))
  <2> DEFINE x == [procs[p] EXCEPT !.todo = succs, !.attempt = 1,
                                   !.pc = IF succs = {} THEN "open" ELSE "enqueue"]
  <2>1. \/ procs' = [procs EXCEPT ![p] = x] /\ UNCHANGED locks
        \/ Return(p)
    BY Zenon, <1>8 DEF UpdateContext
  <2> HIDE DEF succs
  <2>2. x.pc \in {"open", "enqueue"} /\ x.run = procs[p].run
    BY ProcessFields DEF ProcType
  <2>3. procs[p].pc = "context"
    BY <1>8 DEF UpdateContext
  <2> HIDE DEF x
  <2> QED
    BY <2>1, <2>2, <2>3, ReturnProceeds, BecomesProceeds DEF PCs
<1>9. CASE EnqueueNext(p)
  <2>1. PICK n \in procs[p].todo :
          \/ procs' = [procs EXCEPT ![p].todo = @ \ {n}] /\ UNCHANGED locks
          \/ Return(p)
          \/ procs' = [procs EXCEPT ![p].todo = {}, ![p].pc = "open"] /\ UNCHANGED locks
    BY <1>9 DEF EnqueueNext
  <2> DEFINE x == [procs[p] EXCEPT !.todo = @ \ {n}]
  <2> DEFINE y == [procs[p] EXCEPT !.todo = {}, !.pc = "open"]
  <2>2. procs[p].pc = "enqueue"
    BY <1>9 DEF EnqueueNext
  <2>3. /\ x.pc = "enqueue" /\ x.run = procs[p].run
        /\ y.pc = "open" /\ y.run = procs[p].run
    BY <2>2, ProcessFields DEF ProcType
  <2>4. \/ procs' = [procs EXCEPT ![p] = x] /\ UNCHANGED locks
        \/ Return(p)
        \/ procs' = [procs EXCEPT ![p] = y] /\ UNCHANGED locks
    BY Zenon, <2>1
  <2> HIDE DEF x, y
  <2> QED
    BY <2>2, <2>3, <2>4, ReturnProceeds, BecomesProceeds DEF PCs
<1> QED
  BY <1>1, <1>2, <1>3, <1>4, <1>5, <1>6, <1>7, <1>8, <1>9 DEF Step

-----------------------------------------------------------------------------
(* The other steps of the system. *)

LEMMA HandlersAreProcs == \A h \in Handlers : h \in Procs /\ h \notin Workers
  BY Disjoint DEF Procs

LEMMA BeginActs ==
  ASSUME TypeInv, NEW h \in Handlers, NEW x, Begin(h, x), locks' = locks,
         x.pc \notin {"load", "mark", "count", "exec"}
  PROVE  HandlerActs
<1>1. procs \in [Procs -> ProcType] /\ h \in Procs
  BY HandlersAreProcs DEF TypeInv, TypeOK
<1>2. procs'[h] = x /\ OnlyProc(h)
  BY <1>1 DEF Begin, OnlyProc
<1> QED
  BY <1>2 DEF HandlerActs

LEMMA BeginnersAct ==
  ASSUME TypeInv, NEW h \in Handlers,
         \/ \E r \in Runs : CancelRun(h, r) \/ ClaimRetry(h, r)
         \/ \E e \in queuedEvents : HandleRunQueued(h, e[1], e[2])
         \/ \E e \in questionEvents : HandleQuestion(h, e)
         \/ \E i \in DOMAIN nodeRuns : ResumeDelayedNode(h, i)
  PROVE  HandlerActs \/ UNCHANGED <<procs, locks>>
<1>1. ASSUME NEW r \in Runs, CancelRun(h, r) \/ ClaimRetry(h, r)
      PROVE  HandlerActs
  <2>1. [Idle EXCEPT !.pc = "close", !.run = r].pc = "close"
    BY DEF Idle
  <2>2. [Idle EXCEPT !.pc = "spawn", !.run = r].pc = "spawn"
    BY DEF Idle
  <2> QED
    BY <1>1, <2>1, <2>2, BeginActs DEF CancelRun, ClaimRetry
<1>2. ASSUME NEW e \in queuedEvents, HandleRunQueued(h, e[1], e[2])
      PROVE  HandlerActs \/ UNCHANGED <<procs, locks>>
  <2> DEFINE x == [Idle EXCEPT !.pc = IF Triggers = {} THEN "fail" ELSE "enqueue",
                               !.run = e[1], !.result = "trigger", !.todo = Triggers]
  <2>1. x.pc \in {"fail", "enqueue"}
    BY DEF Idle
  <2>2. locks' = locks /\ (UNCHANGED procs \/ Begin(h, x))
    BY Zenon, <1>2 DEF HandleRunQueued
  <2> HIDE DEF x
  <2> QED
    BY <2>1, <2>2, BeginActs
<1>3. ASSUME NEW i, NEW res, ClaimWaiting(h, i, res), locks' = locks
      PROVE  HandlerActs
  <2>1. [Idle EXCEPT !.pc = "resume", !.run = nodeRuns[i].run, !.nr = i, !.result = res].pc
          = "resume"
    BY DEF Idle
  <2> QED
    BY <1>3, <2>1, BeginActs DEF ClaimWaiting
<1>4. ASSUME NEW e \in questionEvents, HandleQuestion(h, e)
      PROVE  HandlerActs \/ UNCHANGED <<procs, locks>>
  BY <1>3, <1>4 DEF HandleQuestion
<1>5. ASSUME NEW i \in DOMAIN nodeRuns, ResumeDelayedNode(h, i)
      PROVE  HandlerActs
  BY <1>3, <1>5 DEF ResumeDelayedNode
<1> QED
  BY <1>1, <1>2, <1>4, <1>5

LEMMA RetryActs ==
  ASSUME TypeInv, Roles, NEW p \in Procs, SpawnRetry(p)
  PROVE  HandlerActs
<1>1. p \in Handlers
  BY DEF Roles, SpawnRetry, Procs
<1>2. procs \in [Procs -> ProcType]
  BY DEF TypeInv, TypeOK
<1>3. CASE Return(p)
  BY <1>1, <1>2, <1>3, HandlersAreProcs, ReturnFacts DEF HandlerActs, Return, TypeInv, TypeOK
<1>4. ASSUME NEW c, NEW n, procs' = [procs EXCEPT ![p].pc = "enqueue", ![p].run = c,
                                     ![p].result = "spawn", ![p].todo = {n}],
             UNCHANGED locks
      PROVE  HandlerActs
  <2> DEFINE x == [procs[p] EXCEPT !.pc = "enqueue", !.run = c,
                                   !.result = "spawn", !.todo = {n}]
  <2>1. x.pc = "enqueue"
    BY ProcessFields DEF ProcType
  <2>2. procs' = [procs EXCEPT ![p] = x]
    BY Zenon, <1>4
  <2> HIDE DEF x
  <2>3. procs'[p].pc = "enqueue" /\ OnlyProc(p)
    BY <1>2, <2>1, <2>2 DEF OnlyProc
  <2> QED
    BY <1>1, <1>4, <2>3 DEF HandlerActs
<1> QED
  BY <1>3, <1>4 DEF SpawnRetry

\* A cancellation aborts executors and ends; everybody else goes on as before.
LEMMA CloseFacts ==
  ASSUME TypeInv, Roles, NEW p \in Procs, CloseNodeRuns(p)
  PROVE  /\ p \in Handlers
         /\ procs'[p].pc = "idle"
         /\ locks' = locks
         /\ \A q \in Procs : q # p => procs'[q].pc = procs[q].pc /\ procs'[q].run = procs[q].run
<1>1. p \in Handlers
  BY DEF Roles, CloseNodeRuns, Procs
<1>2. procs'[p].pc = "idle" /\ locks' = locks
  BY IdleType DEF CloseNodeRuns
<1>3. ASSUME NEW q \in Procs, q # p
      PROVE  procs'[q].pc = procs[q].pc /\ procs'[q].run = procs[q].run
  <2>1. procs'[q] = procs[q] \/ procs'[q] = [procs[q] EXCEPT !.aborted = TRUE]
    BY <1>3 DEF CloseNodeRuns
  <2> QED
    BY <2>1, ProcessFields DEF ProcType
<1> QED
  BY <1>1, <1>2, <1>3

-----------------------------------------------------------------------------
(* The locks. *)

LockInv == Roles /\ LocksHeld /\ OneJobPerDefinition

\* When only handlers act, the locks stay good.
LEMMA WorkersUntouched ==
  ASSUME LockInv, locks' = locks, Roles',
         \A w \in Workers : procs'[w].pc = procs[w].pc /\ procs'[w].run = procs[w].run
  PROVE  LockInv'
  BY DEF LockInv, LocksHeld, OneJobPerDefinition

LEMMA LocksHandlerActs ==
  ASSUME TypeInv, LockInv, HandlerActs
  PROVE  LockInv'
<1>1. PICK h \in Handlers : OnlyProc(h) /\ procs'[h].pc \notin {"load", "mark", "count", "exec"}
  BY DEF HandlerActs
<1>2. \A q \in Procs : q # h => procs'[q] = procs[q]
  BY <1>1 DEF OnlyProc
<1>3. Roles'
  BY <1>1, <1>2, HandlersAreProcs DEF LockInv, Roles, Procs
<1>4. \A w \in Workers : procs'[w] = procs[w]
  BY <1>2, HandlersAreProcs DEF Procs
<1> QED
  BY <1>3, <1>4, WorkersUntouched DEF HandlerActs

LEMMA LocksProceed ==
  ASSUME TypeInv, LockInv, NEW p \in Procs, Proceeds(p)
  PROVE  LockInv'
<1>1. \A q \in Procs : q # p => procs'[q] = procs[q]
  BY DEF Proceeds, OnlyProc
<1>2. Roles'
  BY <1>1 DEF Proceeds, LockInv, Roles, Procs
<1>3. OneJobPerDefinition'
  BY <1>1 DEF Proceeds, LockInv, OneJobPerDefinition, Procs
<1>4. LocksHeld'
  <2> SUFFICES ASSUME NEW w \in Workers, procs'[w].pc # "idle"
               PROVE  DefinitionOf[procs'[w].run] \in locks'
    BY DEF LocksHeld
  <2>1. CASE w = p
    BY <2>1 DEF Proceeds, LockInv, LocksHeld
  <2>2. CASE w # p
    BY <1>1, <2>2 DEF Proceeds, LockInv, LocksHeld, OneJobPerDefinition, Procs
  <2> QED
    BY <2>1, <2>2
<1> QED
  BY <1>2, <1>3, <1>4 DEF LockInv

LEMMA LocksDispatch ==
  ASSUME TypeInv, LockInv, NEW w \in Workers, DispatchJob(w)
  PROVE  LockInv'
<1>1. PICK j \in queue :
        /\ DefinitionOfJob(j) \notin locks
        /\ locks' = locks \cup {DefinitionOfJob(j)}
        /\ procs' = [procs EXCEPT ![w] =
             [Idle EXCEPT !.pc = "load", !.nr = j.nr, !.run = nodeRuns[j.nr].run]]
  BY Zenon DEF DispatchJob, Begin, Locked
<1> DEFINE x == [Idle EXCEPT !.pc = "load", !.nr = j.nr, !.run = nodeRuns[j.nr].run]
<1>2. x.pc = "load" /\ DefinitionOf[x.run] = DefinitionOfJob(j)
  BY DEF Idle, DefinitionOfJob
<1>3. procs' = [procs EXCEPT ![w] = x] /\ procs \in [Procs -> ProcType] /\ w \in Procs
  BY <1>1 DEF TypeInv, TypeOK, Procs
<1> HIDE DEF x
<1>4. procs'[w] = x /\ \A q \in Procs : q # w => procs'[q] = procs[q]
  BY <1>3
<1>5. Roles'
  BY <1>2, <1>4, Disjoint DEF LockInv, Roles, Procs
<1>6. LocksHeld'
  <2> SUFFICES ASSUME NEW v \in Workers, procs'[v].pc # "idle"
               PROVE  DefinitionOf[procs'[v].run] \in locks'
    BY DEF LocksHeld
  <2>1. DefinitionOf[x.run] \in locks' /\ locks \subseteq locks'
    BY Zenon, <1>1, <1>2
  <2>2. CASE v = w
    BY Zenon, <1>4, <2>1, <2>2
  <2>3. CASE v # w
    BY <1>4, <2>1, <2>3 DEF LockInv, LocksHeld, Procs
  <2> QED
    BY <2>2, <2>3
<1>7. \A v \in Workers : v # w /\ procs[v].pc # "idle" => DefinitionOf[procs[v].run] # DefinitionOf[x.run]
  BY <1>1, <1>2 DEF LockInv, LocksHeld
<1>8. OneJobPerDefinition'
  <2> SUFFICES ASSUME NEW u \in Workers, NEW v \in Workers, u # v,
                      procs'[u].pc # "idle", procs'[v].pc # "idle"
               PROVE  DefinitionOf[procs'[u].run] # DefinitionOf[procs'[v].run]
    BY DEF OneJobPerDefinition
  <2>1. u \in Procs /\ v \in Procs
    BY DEF Procs
  <2>2. CASE u = w \/ v = w
    BY <1>4, <1>7, <2>1, <2>2
  <2>3. CASE u # w /\ v # w
    BY <1>4, <2>1, <2>3 DEF LockInv, OneJobPerDefinition
  <2> QED
    BY <2>2, <2>3
<1> QED
  BY <1>5, <1>6, <1>8 DEF LockInv

LEMMA LocksInit == Init => LockInv
  BY IdleType DEF Init, LockInv, Roles, LocksHeld, OneJobPerDefinition, Procs

LEMMA LocksNext == TypeInv /\ LockInv /\ [Next]_vars => LockInv'
<1> SUFFICES ASSUME TypeInv, LockInv, [Next]_vars PROVE LockInv'
  OBVIOUS
<1>1. ASSUME UNCHANGED <<procs, locks>> PROVE LockInv'
  BY <1>1 DEF LockInv, Roles, LocksHeld, OneJobPerDefinition
<1>2. ASSUME NEW h \in Handlers,
             \/ \E r \in Runs : CancelRun(h, r) \/ ClaimRetry(h, r)
             \/ \E e \in queuedEvents : HandleRunQueued(h, e[1], e[2])
             \/ \E e \in questionEvents : HandleQuestion(h, e)
             \/ \E i \in DOMAIN nodeRuns : ResumeDelayedNode(h, i)
      PROVE  LockInv'
  BY <1>1, <1>2, BeginnersAct, LocksHandlerActs
<1>3. CASE Users
  BY <1>1, <1>2, <1>3 DEF Users, StartRun, OpenAnswer
<1>4. CASE \E i \in DOMAIN nodeRuns :
             \/ \E k \in 1..MaxAnswers : SaveAnswer(i, k)
             \/ OpenExpiry(i) \/ SaveExpiry(i)
  BY <1>1, <1>4 DEF SaveAnswer, OpenExpiry, SaveExpiry
<1>5. CASE \E w \in Workers : DispatchJob(w)
  BY <1>5, LocksDispatch
<1>6. ASSUME NEW p \in Procs, Step(p) PROVE LockInv'
  <2>1. CASE CloseNodeRuns(p)
    <3>1. /\ p \in Handlers /\ procs'[p].pc = "idle" /\ locks' = locks
          /\ \A q \in Procs : q # p => procs'[q].pc = procs[q].pc /\ procs'[q].run = procs[q].run
      BY <2>1, CloseFacts DEF LockInv
    <3>2. Roles'
      BY <3>1 DEF LockInv, Roles, Procs
    <3> QED
      BY <3>1, <3>2, HandlersAreProcs, WorkersUntouched DEF Procs
  <2>2. CASE SpawnRetry(p)
    BY <2>2, RetryActs, LocksHandlerActs DEF LockInv
  <2>3. CASE ~CloseNodeRuns(p) /\ ~SpawnRetry(p)
    BY <1>6, <2>3, StepProceeds, LocksProceed
  <2> QED
    BY <2>1, <2>2, <2>3
<1>7. ASSUME NEW p \in Procs, DatabaseError(p) PROVE LockInv'
  BY <1>7, ReturnProceeds, LocksProceed DEF DatabaseError
<1>8. CASE Crash
  BY <1>8, IdleType DEF Crash, LockInv, Roles, LocksHeld, OneJobPerDefinition, Procs
<1>9. CASE Recovery
  BY <1>1, <1>9 DEF Recovery, Restart, RecoverRun, InterruptCut, FailCut, RecoverNode,
     FinishRecovery, memory
<1>10. CASE UNCHANGED vars
  BY <1>1, <1>10 DEF vars, memory
<1> QED
  BY <1>2, <1>3, <1>4, <1>5, <1>6, <1>7, <1>8, <1>9, <1>10 DEF Next

LEMMA LockInvariant == Spec => []LockInv
  BY TypeInvariant, LocksInit, LocksNext, PTL DEF Spec

\* Two workers never execute nodes of one definition at the same time: a
\* definition's lock is taken with its job and given back only by the worker
\* that holds it, whatever ends that worker's job.
THEOREM OneJob == Spec => []OneJobPerDefinition
<1>1. LockInv => OneJobPerDefinition
  BY DEF LockInv
<1> QED
  BY <1>1, LockInvariant, PTL

-----------------------------------------------------------------------------
(* The budget. *)

ExecutedKept == \A r \in Runs : runs'[r].executed = runs[r].executed

\* Only CountExecution counts.
LEMMA StatusKeepsExecuted ==
  ASSUME TypeInv, NEW r \in Runs, NEW st, SetRun(r, st)
  PROVE  ExecutedKept
<1>1. runs \in [Runs -> RunType]
  BY DEF TypeInv, TypeOK
<1>2. runs' = [runs EXCEPT ![r] = [runs[r] EXCEPT !.status = st]]
  BY Zenon DEF SetRun
<1>3. [runs[r] EXCEPT !.status = st].executed = runs[r].executed
  BY <1>1 DEF RunType
<1> QED
  BY <1>1, <1>2, <1>3 DEF ExecutedKept

LEMMA BusyRun ==
  ASSUME TypeInv, NEW p \in Procs, procs[p].pc # "idle"
  PROVE  procs[p].run \in Runs
  BY DEF TypeInv, References, Knows

LEMMA StepExecuted ==
  ASSUME TypeInv, NEW p \in Procs, Step(p), ~CountExecution(p)
  PROVE  ExecutedKept
<1>1. CASE UNCHANGED runs
  BY <1>1 DEF ExecutedKept
<1>2. CASE ParkRun(p) \/ FinishRun(p) \/ FailRun(p) \/ ResumeRun(p)
  <2>1. procs[p].run \in Runs
    BY <1>2, BusyRun DEF ParkRun, FinishRun, FailRun, ResumeRun
  <2>2. UNCHANGED runs \/ \E st : SetRun(procs[p].run, st)
    BY Zenon, <1>2 DEF ParkRun, FinishRun, FailRun, ResumeRun
  <2> QED
    BY <1>1, <2>1, <2>2, StatusKeepsExecuted
<1>3. CASE SpawnRetry(p)
  <2>1. PICK c \in Runs :
          runs' = [runs EXCEPT ![c].status = "running", ![c].parent = procs[p].run]
    BY <1>3 DEF SpawnRetry
  <2> DEFINE y == [runs[c] EXCEPT !.status = "running", !.parent = procs[p].run]
  <2>2. runs \in [Runs -> RunType]
    BY DEF TypeInv, TypeOK
  <2>3. y.executed = runs[c].executed
    BY <2>2 DEF RunType
  <2>4. runs' = [runs EXCEPT ![c] = y]
    BY Zenon, <2>1
  <2> HIDE DEF y
  <2> QED
    BY <2>2, <2>3, <2>4 DEF ExecutedKept
<1> QED
  BY <1>1, <1>2, <1>3
     DEF Step, LoadJob, MarkRunning, Execute, ReadLiveStatus, InterruptNodeRun, SaveWaiting,
         CompleteNodeRun, UpdateContext, EnqueueNext, CountOpen, CloseNodeRuns

BudgetInv == BudgetLeft /\ BudgetHolds

\* Nothing is counted, and whoever comes to a point before the count came from
\* one or has just read that the budget is not exhausted.
LEMMA BudgetKept ==
  ASSUME TypeInv, BudgetInv, ExecutedKept,
         \A w \in Workers : procs'[w].pc \in {"mark", "count"} =>
           /\ procs'[w].run = procs[w].run
           /\ \/ procs[w].pc \in {"mark", "count"}
              \/ procs[w].pc = "load" /\ ~Exhausted(procs[w].run)
  PROVE  BudgetInv'
<1>1. BudgetHolds'
  BY DEF BudgetInv, BudgetHolds, ExecutedKept
<1>2. BudgetLeft'
  <2> SUFFICES ASSUME NEW w \in Workers, procs'[w].pc \in {"mark", "count"}
               PROVE  runs'[procs'[w].run].executed < MaxNodesPerRun
    BY DEF BudgetLeft
  <2>1. procs'[w].run = procs[w].run
    OBVIOUS
  <2>2. procs[w].pc # "idle" /\ w \in Procs
    BY DEF Procs
  <2>3. runs[procs[w].run].executed < MaxNodesPerRun
    <3>1. runs[procs[w].run].executed \in Nat
      BY <2>2, BusyRun DEF TypeInv, TypeOK, RunType
    <3> QED
      BY <3>1, Bounds DEF BudgetInv, BudgetLeft, Exhausted
  <2> QED
    BY <2>1, <2>2, <2>3, BusyRun DEF ExecutedKept
<1> QED
  BY <1>1, <1>2 DEF BudgetInv

LEMMA BudgetWhenStill ==
  ASSUME TypeInv, BudgetInv, ExecutedKept,
         \A w \in Workers : procs'[w].pc = procs[w].pc /\ procs'[w].run = procs[w].run
  PROVE  BudgetInv'
  BY BudgetKept

LEMMA BudgetProceeds ==
  ASSUME TypeInv, BudgetInv, ExecutedKept, NEW p \in Procs, Proceeds(p)
  PROVE  BudgetInv'
<1>1. ASSUME NEW w \in Workers, procs'[w].pc \in {"mark", "count"}
      PROVE  /\ procs'[w].run = procs[w].run
             /\ \/ procs[w].pc \in {"mark", "count"}
                \/ procs[w].pc = "load" /\ ~Exhausted(procs[w].run)
  <2>1. CASE w = p
    BY <1>1, <2>1 DEF Proceeds
  <2>2. CASE w # p
    BY <1>1, <2>2 DEF Proceeds, OnlyProc, Procs
  <2> QED
    BY <2>1, <2>2
<1> QED
  BY <1>1, BudgetKept

LEMMA BudgetHandlerActs ==
  ASSUME TypeInv, BudgetInv, ExecutedKept, HandlerActs
  PROVE  BudgetInv'
<1>1. \A w \in Workers : procs'[w] = procs[w]
  BY HandlersAreProcs DEF HandlerActs, OnlyProc, Procs
<1> QED
  BY <1>1, BudgetWhenStill

\* The one step that counts: the lock keeps every other worker away from the run.
LEMMA BudgetCount ==
  ASSUME TypeInv, LockInv, BudgetInv, NEW p \in Procs, CountExecution(p)
  PROVE  BudgetInv'
<1> DEFINE r == procs[p].run
<1> DEFINE y == [runs[r] EXCEPT !.executed = @ + 1]
<1>1. procs[p].pc = "count" /\ Goto(p, "exec") /\ p \in Workers
  BY DEF CountExecution, LockInv, Roles, Procs
<1>2. r \in Runs /\ runs \in [Runs -> RunType] /\ procs \in [Procs -> ProcType]
  BY <1>1, BusyRun DEF TypeInv, TypeOK
<1>3. y.executed = runs[r].executed + 1 /\ runs[r].executed \in Nat
  BY <1>2 DEF RunType
<1>4. runs' = [runs EXCEPT ![r] = y]
  BY Zenon DEF CountExecution
<1> HIDE DEF y
<1>5. /\ runs'[r].executed = runs[r].executed + 1
      /\ \A x \in Runs : x # r => runs'[x].executed = runs[x].executed
  BY <1>2, <1>3, <1>4
<1>6. runs[r].executed < MaxNodesPerRun
  BY <1>1 DEF BudgetInv, BudgetLeft
<1>7. BudgetHolds'
  BY <1>3, <1>5, <1>6, Bounds DEF BudgetInv, BudgetHolds
<1>8. BudgetLeft'
  <2> SUFFICES ASSUME NEW w \in Workers, procs'[w].pc \in {"mark", "count"}
               PROVE  runs'[procs'[w].run].executed < MaxNodesPerRun
    BY DEF BudgetLeft
  <2>1. w # p /\ w \in Procs
    BY <1>1, <1>2, GotoFacts DEF PCs, Procs
  <2>2. procs'[w] = procs[w]
    BY <1>1, <1>2, <2>1, GotoFacts DEF OnlyProc, PCs
  <2>3. procs[w].run # r /\ procs[w].run \in Runs
    BY <1>1, <2>1, <2>2, BusyRun DEF LockInv, OneJobPerDefinition
  <2> QED
    BY <1>5, <2>2, <2>3 DEF BudgetInv, BudgetLeft
<1> QED
  BY <1>7, <1>8 DEF BudgetInv

LEMMA BudgetInit == Init => BudgetInv
  BY IdleType, Bounds DEF Init, BudgetInv, BudgetLeft, BudgetHolds, Procs

LEMMA BeginnersExecuted ==
  ASSUME TypeInv, NEW h \in Handlers,
         \/ \E r \in Runs : CancelRun(h, r) \/ ClaimRetry(h, r)
         \/ \E e \in queuedEvents : HandleRunQueued(h, e[1], e[2])
         \/ \E e \in questionEvents : HandleQuestion(h, e)
         \/ \E i \in DOMAIN nodeRuns : ResumeDelayedNode(h, i)
  PROVE  ExecutedKept
<1>1. ASSUME UNCHANGED runs PROVE ExecutedKept
  BY <1>1 DEF ExecutedKept
<1>2. ASSUME NEW r \in Runs, ClaimRetry(h, r) PROVE ExecutedKept
  <2> DEFINE y == [runs[r] EXCEPT !.retryClaimed = TRUE]
  <2>1. runs \in [Runs -> RunType]
    BY DEF TypeInv, TypeOK
  <2>2. y.executed = runs[r].executed
    BY <2>1 DEF RunType
  <2>3. runs' = [runs EXCEPT ![r] = y]
    BY Zenon, <1>2 DEF ClaimRetry
  <2> HIDE DEF y
  <2> QED
    BY <2>1, <2>2, <2>3 DEF ExecutedKept
<1>3. ASSUME NEW e \in queuedEvents, HandleRunQueued(h, e[1], e[2]) PROVE ExecutedKept
  <2>1. e[1] \in Runs
    BY DEF TypeInv, TypeOK
  <2> QED
    BY <1>1, <1>3, <2>1, StatusKeepsExecuted DEF HandleRunQueued
<1> QED
  BY <1>1, <1>2, <1>3, StatusKeepsExecuted DEF CancelRun, HandleQuestion, ResumeDelayedNode

LEMMA BudgetNext == TypeInv /\ LockInv /\ BudgetInv /\ [Next]_vars => BudgetInv'
<1> SUFFICES ASSUME TypeInv, LockInv, BudgetInv, [Next]_vars PROVE BudgetInv'
  OBVIOUS
<1>1. ASSUME UNCHANGED procs, ExecutedKept PROVE BudgetInv'
  BY <1>1, BudgetWhenStill
<1>2. ASSUME UNCHANGED runs PROVE ExecutedKept
  BY <1>2 DEF ExecutedKept
<1>3. ASSUME NEW h \in Handlers,
             \/ \E r \in Runs : CancelRun(h, r) \/ ClaimRetry(h, r)
             \/ \E e \in queuedEvents : HandleRunQueued(h, e[1], e[2])
             \/ \E e \in questionEvents : HandleQuestion(h, e)
             \/ \E i \in DOMAIN nodeRuns : ResumeDelayedNode(h, i)
      PROVE  BudgetInv'
  BY <1>1, <1>3, BeginnersAct, BeginnersExecuted, BudgetHandlerActs
<1>4. CASE Users
  <2>1. ASSUME NEW r \in Runs, StartRun(r) PROVE BudgetInv'
    BY <1>1, <2>1, StatusKeepsExecuted DEF StartRun
  <2>2. ASSUME NEW i, NEW k, OpenAnswer(i, k) PROVE BudgetInv'
    BY <1>1, <1>2, <2>2 DEF OpenAnswer
  <2> QED
    BY <1>3, <1>4, <2>1, <2>2 DEF Users
<1>5. CASE \E i \in DOMAIN nodeRuns :
             \/ \E k \in 1..MaxAnswers : SaveAnswer(i, k)
             \/ OpenExpiry(i) \/ SaveExpiry(i)
  BY <1>1, <1>2, <1>5 DEF SaveAnswer, OpenExpiry, SaveExpiry
<1>6. ASSUME NEW w \in Workers, DispatchJob(w) PROVE BudgetInv'
  <2>1. PICK j \in queue : procs' = [procs EXCEPT ![w] =
             [Idle EXCEPT !.pc = "load", !.nr = j.nr, !.run = nodeRuns[j.nr].run]]
    BY Zenon, <1>6 DEF DispatchJob, Begin
  <2> DEFINE x == [Idle EXCEPT !.pc = "load", !.nr = j.nr, !.run = nodeRuns[j.nr].run]
  <2>2. x.pc = "load"
    BY DEF Idle
  <2>3. procs' = [procs EXCEPT ![w] = x] /\ procs \in [Procs -> ProcType] /\ w \in Procs
    BY <2>1 DEF TypeInv, TypeOK, Procs
  <2> HIDE DEF x
  <2>4. procs'[w].pc = "load" /\ \A q \in Procs : q # w => procs'[q] = procs[q]
    BY <2>2, <2>3
  <2>5. ExecutedKept
    BY <1>2, <1>6 DEF DispatchJob
  <2> QED
    BY <2>4, <2>5, BudgetKept DEF Procs
<1>7. ASSUME NEW p \in Procs, Step(p) PROVE BudgetInv'
  <2>1. CASE CountExecution(p)
    BY <2>1, BudgetCount
  <2>2. CASE CloseNodeRuns(p)
    <3>1. /\ p \in Handlers
          /\ \A q \in Procs : q # p => procs'[q].pc = procs[q].pc /\ procs'[q].run = procs[q].run
      BY <2>2, CloseFacts DEF LockInv
    <3>2. ExecutedKept
      BY <1>2, <2>2 DEF CloseNodeRuns
    <3> QED
      BY <3>1, <3>2, HandlersAreProcs, BudgetWhenStill DEF Procs
  <2>3. CASE SpawnRetry(p)
    <3>1. ~CountExecution(p)
      BY <2>3 DEF SpawnRetry, CountExecution
    <3> QED
      BY <1>7, <2>3, <3>1, RetryActs, StepExecuted, BudgetHandlerActs DEF LockInv
  <2>4. CASE ~CountExecution(p) /\ ~CloseNodeRuns(p) /\ ~SpawnRetry(p)
    BY <1>7, <2>4, StepProceeds, StepExecuted, BudgetProceeds
  <2> QED
    BY <2>1, <2>2, <2>3, <2>4
<1>8. ASSUME NEW p \in Procs, DatabaseError(p) PROVE BudgetInv'
  BY <1>2, <1>8, ReturnProceeds, BudgetProceeds DEF DatabaseError
<1>9. CASE Crash
  <2>1. \A p \in Procs : procs'[p].pc = "idle"
    BY <1>9, IdleType DEF Crash
  <2>2. ExecutedKept
    BY <1>2, <1>9 DEF Crash
  <2> QED
    BY <2>1, <2>2, BudgetKept DEF Procs
<1>10. CASE Recovery
  <2>1. UNCHANGED procs
    BY <1>10 DEF Recovery, Restart, RecoverRun, InterruptCut, FailCut, RecoverNode,
       FinishRecovery, memory
  <2>2. ExecutedKept
    <3>1. CASE FailCut
      <4>1. UNCHANGED runs \/ SetRun(recovery.run, "failed")
        BY <3>1 DEF FailCut
      <4>2. recovery.run \in Runs
        BY <3>1 DEF FailCut, TypeInv, TypeOK
      <4> QED
        BY <1>2, <4>1, <4>2, StatusKeepsExecuted
    <3>2. CASE ~FailCut
      BY <1>2, <1>10, <3>2 DEF Recovery, Restart, RecoverRun, InterruptCut, RecoverNode,
         FinishRecovery
    <3> QED
      BY <3>1, <3>2
  <2> QED
    BY <1>1, <2>1, <2>2
<1>11. CASE UNCHANGED vars
  BY <1>1, <1>2, <1>11 DEF vars, memory
<1> QED
  BY <1>3, <1>4, <1>5, <1>6, <1>7, <1>8, <1>9, <1>10, <1>11 DEF Next

\* No run executes more nodes than its budget allows, however many workers
\* there are and however its jobs are interleaved with crashes and retries.
THEOREM Budget == Spec => []BudgetHolds
<1>1. BudgetInv => BudgetHolds
  BY DEF BudgetInv
<1>2. Spec => []BudgetInv
  BY TypeInvariant, LockInvariant, BudgetInit, BudgetNext, PTL DEF Spec
<1> QED
  BY <1>1, <1>2, PTL

-----------------------------------------------------------------------------
(* The lifecycle of a run: the engine implements WorkflowRunLifecycle.  Every
   step changes the status of at most one run, and in one of the ways below;
   that it does depends on what works on a run (WorkIsStarted) and on who may
   create the child of a retried one (RetryClaims).                        *)

LiveRun == {"running"} \cup WaitingRun

ClaimsKept ==
  \A x \in Runs : /\ runs'[x].retryClaimed = runs[x].retryClaimed
                  /\ runs'[x].parent = runs[x].parent

StatusKept == \A x \in Runs : runs'[x].status = runs[x].status

\* Run r goes from one of the states `from' to the state s.
Moves(r, from, s) ==
  /\ runs[r].status \in from
  /\ runs'[r].status = s
  /\ \A x \in Runs : x # r => runs'[x].status = runs[x].status
  /\ ClaimsKept

\* The retry of run r is claimed.
Claims(r) ==
  /\ runs[r].status \in {"failed", "cancelled"}
  /\ ~runs[r].retryClaimed
  /\ StatusKept
  /\ runs'[r].retryClaimed
  /\ \A x \in Runs : /\ x # r => runs'[x].retryClaimed = runs[x].retryClaimed
                     /\ runs'[x].parent = runs[x].parent

\* Run c becomes the child of run r.
Spawns(r, c) ==
  /\ runs[c].status = "absent"
  /\ runs'[c].status = "running"
  /\ runs'[c].parent = r
  /\ \A x \in Runs : x # c => /\ runs'[x].status = runs[x].status
                              /\ runs'[x].parent = runs[x].parent
  /\ \A x \in Runs : runs'[x].retryClaimed = runs[x].retryClaimed

RunsMove ==
  \/ StatusKept /\ ClaimsKept
  \/ \E r \in Runs :
       \/ Moves(r, {"absent"}, "queued")
       \/ Moves(r, {"queued"}, "running")
       \/ \E s \in WaitingRun : Moves(r, LiveRun, s)
       \/ Moves(r, LiveRun, "running")
       \/ Moves(r, {"running"}, "succeeded")
       \/ Moves(r, LiveRun, "failed")
       \/ Moves(r, {"queued"} \cup LiveRun, "cancelled")
       \/ Claims(r)
       \/ \E c \in Runs : /\ runs[r].retryClaimed
                          /\ \A x \in Runs : runs[x].parent # r
                          /\ Spawns(r, c)

LEMMA RunsUnchanged == UNCHANGED runs => RunsMove
  BY DEF RunsMove, StatusKept, ClaimsKept

LEMMA SetRunMoves ==
  ASSUME TypeInv, NEW r \in Runs, NEW from, NEW s \in RunStatus,
         runs[r].status \in from, SetRun(r, s)
  PROVE  Moves(r, from, s)
<1>1. /\ runs \in [Runs -> RunType]
      /\ \A x \in Runs : x # r => runs'[x] = runs[x]
      /\ runs'[r] = [runs[r] EXCEPT !.status = s]
  BY SetRunFacts DEF TypeInv, TypeOK
<1>2. /\ runs'[r].status = s
      /\ runs'[r].retryClaimed = runs[r].retryClaimed
      /\ runs'[r].parent = runs[r].parent
  BY <1>1 DEF RunType
<1> QED
  BY <1>1, <1>2 DEF Moves, ClaimsKept

LEMMA LiveStatus ==
  ASSUME TypeInv, NEW r \in Runs, Started(r), ~Ended(r)
  PROVE  runs[r].status \in LiveRun
<1>1. runs[r].status \in RunStatus
  BY DEF TypeInv, TypeOK, RunType
<1> QED
  BY <1>1 DEF Started, Ended, RunStatus, LiveRun

LEMMA WorkedOn ==
  ASSUME TypeInv, WorkIsStarted, NEW p \in Procs, procs[p].pc # "idle"
  PROVE  procs[p].run \in Runs /\ Started(procs[p].run)
  BY BusyRun DEF WorkIsStarted

-----------------------------------------------------------------------------
(* Every step is a move. *)

LEMMA MoveParkRun ==
  ASSUME TypeInv, WorkIsStarted, NEW p \in Procs, ParkRun(p) PROVE RunsMove
<1> DEFINE r == procs[p].run
<1>1. r \in Runs /\ Started(r)
  BY WorkedOn DEF ParkRun
<1>2. CASE UNCHANGED runs
  BY <1>2, RunsUnchanged
<1>3. CASE ~Ended(r) /\ \E s \in WaitingRun : SetRun(r, s)
  <2>1. WaitingRun \subseteq RunStatus
    BY DEF RunStatus
  <2>2. runs[r].status \in LiveRun
    BY <1>1, <1>3, LiveStatus
  <2> HIDE DEF r
  <2>3. \E s \in WaitingRun : Moves(r, LiveRun, s)
    BY <1>1, <1>3, <2>1, <2>2, SetRunMoves
  <2> QED
    BY <1>1, <2>3 DEF RunsMove
<1> QED
  BY <1>2, <1>3 DEF ParkRun, WaitingRun

LEMMA MoveFinishRun ==
  ASSUME TypeInv, WorkIsStarted, NEW p \in Procs, FinishRun(p) PROVE RunsMove
<1> DEFINE r == procs[p].run
<1>1. r \in Runs
  BY WorkedOn DEF FinishRun
<1>2. CASE UNCHANGED runs
  BY <1>2, RunsUnchanged
<1>3. CASE runs[r].status = "running" /\ SetRun(r, "succeeded")
  <2>1. "succeeded" \in RunStatus
    BY DEF RunStatus, TerminalRun
  <2> HIDE DEF r
  <2>2. Moves(r, {"running"}, "succeeded")
    BY <1>1, <1>3, <2>1, SetRunMoves
  <2> QED
    BY <1>1, <2>2 DEF RunsMove
<1> QED
  BY <1>2, <1>3 DEF FinishRun, Finishable

LEMMA MoveFails ==
  ASSUME TypeInv, NEW r \in Runs, Started(r), ~Ended(r), SetRun(r, "failed") PROVE RunsMove
<1>1. "failed" \in RunStatus /\ runs[r].status \in LiveRun
  BY LiveStatus DEF RunStatus, TerminalRun
<1>2. Moves(r, LiveRun, "failed")
  BY <1>1, SetRunMoves
<1> QED
  BY <1>2 DEF RunsMove

LEMMA MoveFailRun ==
  ASSUME TypeInv, WorkIsStarted, NEW p \in Procs, FailRun(p) PROVE RunsMove
<1>1. procs[p].run \in Runs /\ Started(procs[p].run)
  BY WorkedOn DEF FailRun
<1> QED
  BY <1>1, RunsUnchanged, MoveFails DEF FailRun

LEMMA MoveFailCut == ASSUME TypeInv, WorkIsStarted, FailCut PROVE RunsMove
<1>1. recovery.run \in Runs /\ Started(recovery.run)
  BY DEF FailCut, WorkIsStarted, TypeInv, TypeOK
<1> QED
  BY <1>1, RunsUnchanged, MoveFails DEF FailCut

LEMMA MoveResumeRun ==
  ASSUME TypeInv, WorkIsStarted, NEW p \in Procs, ResumeRun(p) PROVE RunsMove
<1> DEFINE r == procs[p].run
<1>1. r \in Runs /\ Started(r)
  BY WorkedOn DEF ResumeRun
<1>2. CASE UNCHANGED runs
  BY <1>2, RunsUnchanged
<1>3. CASE ~Ended(r) /\ SetRun(r, "running")
  <2>1. "running" \in RunStatus /\ runs[r].status \in LiveRun
    BY <1>1, <1>3, LiveStatus DEF RunStatus
  <2> HIDE DEF r
  <2>2. Moves(r, LiveRun, "running")
    BY <1>1, <1>3, <2>1, SetRunMoves
  <2> QED
    BY <1>1, <2>2 DEF RunsMove
<1> QED
  BY <1>2, <1>3 DEF ResumeRun, Resumable

LEMMA MoveStartRun == ASSUME TypeInv, NEW r \in Runs, StartRun(r) PROVE RunsMove
<1>1. "queued" \in RunStatus /\ runs[r].status \in {"absent"} /\ SetRun(r, "queued")
  BY DEF StartRun, RunStatus
<1>2. Moves(r, {"absent"}, "queued")
  BY <1>1, SetRunMoves
<1> QED
  BY <1>2 DEF RunsMove

LEMMA MoveHandleRunQueued ==
  ASSUME TypeInv, NEW h, NEW r \in Runs, NEW o, HandleRunQueued(h, r, o) PROVE RunsMove
<1>1. CASE UNCHANGED runs
  BY <1>1, RunsUnchanged
<1>2. CASE runs[r].status = "queued" /\ SetRun(r, "running")
  <2>1. "running" \in RunStatus /\ runs[r].status \in {"queued"}
    BY <1>2 DEF RunStatus
  <2>2. Moves(r, {"queued"}, "running")
    BY <1>2, <2>1, SetRunMoves
  <2> QED
    BY <2>2 DEF RunsMove
<1> QED
  BY <1>1, <1>2 DEF HandleRunQueued

LEMMA MoveCancelRun ==
  ASSUME TypeInv, NEW h, NEW r \in Runs, CancelRun(h, r) PROVE RunsMove
<1> DEFINE from == {"queued"} \cup LiveRun
<1>1. runs[r].status # "absent" /\ ~Ended(r) /\ SetRun(r, "cancelled")
  BY DEF CancelRun
<1>2. runs[r].status \in RunStatus /\ "cancelled" \in RunStatus
  BY DEF TypeInv, TypeOK, RunType, RunStatus, TerminalRun
<1>3. runs[r].status \in from
  BY <1>1, <1>2 DEF Ended, RunStatus, LiveRun
<1> HIDE DEF from
<1>4. Moves(r, from, "cancelled")
  BY <1>1, <1>2, <1>3, SetRunMoves
<1> QED
  BY <1>4 DEF RunsMove, from

LEMMA MoveCountExecution ==
  ASSUME TypeInv, NEW p \in Procs, CountExecution(p) PROVE StatusKept /\ ClaimsKept
<1> DEFINE r == procs[p].run
<1> DEFINE y == [runs[r] EXCEPT !.executed = @ + 1]
<1>1. r \in Runs /\ runs \in [Runs -> RunType]
  BY BusyRun DEF CountExecution, TypeInv, TypeOK
<1>2. /\ y.status = runs[r].status /\ y.retryClaimed = runs[r].retryClaimed
      /\ y.parent = runs[r].parent
  BY <1>1 DEF RunType
<1>3. runs' = [runs EXCEPT ![r] = y]
  BY Zenon DEF CountExecution
<1> HIDE DEF y, r
<1> QED
  BY <1>1, <1>2, <1>3 DEF StatusKept, ClaimsKept

LEMMA MoveClaimRetry ==
  ASSUME TypeInv, NEW h, NEW r \in Runs, ClaimRetry(h, r) PROVE Claims(r)
<1> DEFINE y == [runs[r] EXCEPT !.retryClaimed = TRUE]
<1>1. runs \in [Runs -> RunType] /\ Retryable(r)
  BY DEF ClaimRetry, TypeInv, TypeOK
<1>2. y.status = runs[r].status /\ y.retryClaimed /\ y.parent = runs[r].parent
  BY <1>1 DEF RunType
<1>3. runs' = [runs EXCEPT ![r] = y]
  BY Zenon DEF ClaimRetry
<1> HIDE DEF y
<1> QED
  BY <1>1, <1>2, <1>3 DEF Claims, StatusKept, Retryable

LEMMA MoveSpawnRetry ==
  ASSUME TypeInv, NEW p \in Procs, SpawnRetry(p)
  PROVE  procs[p].run \in Runs /\ \E c \in Runs : Spawns(procs[p].run, c)
<1> DEFINE r == procs[p].run
<1>1. PICK c \in Runs :
        /\ runs[c].status = "absent"
        /\ runs' = [runs EXCEPT ![c].status = "running", ![c].parent = r]
  BY DEF SpawnRetry
<1> DEFINE y == [runs[c] EXCEPT !.status = "running", !.parent = r]
<1>2. r \in Runs /\ runs \in [Runs -> RunType]
  BY BusyRun DEF SpawnRetry, TypeInv, TypeOK
<1>3. y.status = "running" /\ y.retryClaimed = runs[c].retryClaimed /\ y.parent = r
  BY <1>2 DEF RunType
<1>4. runs' = [runs EXCEPT ![c] = y]
  BY Zenon, <1>1
<1> HIDE DEF y, r
<1>5. Spawns(r, c)
  BY <1>1, <1>2, <1>3, <1>4 DEF Spawns
<1> QED
  BY <1>2, <1>5 DEF r

LEMMA StepMoves ==
  ASSUME TypeInv, WorkIsStarted, RetryClaims, NEW p \in Procs, Step(p) PROVE RunsMove
<1>1. CASE UNCHANGED runs
  BY <1>1, RunsUnchanged
<1>2. CASE SpawnRetry(p)
  <2>1. PICK c \in Runs : Spawns(procs[p].run, c)
    BY <1>2, MoveSpawnRetry
  <2>2. /\ procs[p].run \in Runs
        /\ runs[procs[p].run].retryClaimed
        /\ \A x \in Runs : runs[x].parent # procs[p].run
    BY <1>2, MoveSpawnRetry DEF SpawnRetry, RetryClaims
  <2> QED
    BY <2>1, <2>2 DEF RunsMove
<1>3. CASE CountExecution(p) \/ ParkRun(p) \/ FinishRun(p) \/ FailRun(p) \/ ResumeRun(p)
  <2>1. CASE CountExecution(p)
    BY <2>1, MoveCountExecution DEF RunsMove
  <2> QED
    BY <1>3, <2>1, MoveParkRun, MoveFinishRun, MoveFailRun, MoveResumeRun
<1> QED
  BY <1>1, <1>2, <1>3
     DEF Step, LoadJob, MarkRunning, Execute, ReadLiveStatus, InterruptNodeRun, SaveWaiting,
         CompleteNodeRun, UpdateContext, EnqueueNext, CountOpen, CloseNodeRuns

LEMMA NextMoves ==
  ASSUME TypeInv, WorkIsStarted, RetryClaims, [Next]_vars PROVE RunsMove
<1>1. CASE Users
  <2>1. ASSUME NEW h, NEW r \in Runs, ClaimRetry(h, r) PROVE RunsMove
    BY <2>1, MoveClaimRetry DEF RunsMove
  <2> QED
    BY <1>1, <2>1, MoveStartRun, MoveCancelRun, RunsUnchanged DEF Users, OpenAnswer
<1>2. CASE \E h \in Handlers, e \in queuedEvents : HandleRunQueued(h, e[1], e[2])
  <2>1. \A e \in queuedEvents : e[1] \in Runs
    BY DEF TypeInv, TypeOK
  <2> QED
    BY <1>2, <2>1, MoveHandleRunQueued
<1>3. CASE \/ \E h \in Handlers, e \in questionEvents : HandleQuestion(h, e)
           \/ \E h \in Handlers, i \in DOMAIN nodeRuns : ResumeDelayedNode(h, i)
           \/ \E i \in DOMAIN nodeRuns :
                \/ \E k \in 1..MaxAnswers : SaveAnswer(i, k)
                \/ OpenExpiry(i) \/ SaveExpiry(i)
           \/ \E w \in Workers : DispatchJob(w)
           \/ \E p \in Procs : DatabaseError(p)
           \/ Crash
           \/ UNCHANGED vars
  BY <1>3, RunsUnchanged
     DEF HandleQuestion, ResumeDelayedNode, SaveAnswer, OpenExpiry, SaveExpiry, DispatchJob,
         DatabaseError, Crash, vars
<1>4. CASE \E p \in Procs : Step(p)
  BY <1>4, StepMoves
<1>5. CASE Recovery
  BY <1>5, MoveFailCut, RunsUnchanged
     DEF Recovery, Restart, RecoverRun, InterruptCut, RecoverNode, FinishRecovery
<1> QED
  BY <1>1, <1>2, <1>3, <1>4, <1>5 DEF Next

-----------------------------------------------------------------------------
(* What follows from it. *)

\* What has started stays started.
LEMMA StartedStays ==
  ASSUME RunsMove, NEW r \in Runs, Started(r)
  PROVE  runs'[r].status \notin {"absent", "queued"}
  BY DEF RunsMove, Moves, Claims, Spawns, StatusKept, Started, LiveRun, WaitingRun

LEMMA EndedStays ==
  ASSUME RunsMove, NEW r \in Runs, Ended(r)
  PROVE  runs'[r].status = runs[r].status
  BY DEF RunsMove, Moves, Claims, Spawns, StatusKept, Ended, TerminalRun, LiveRun, WaitingRun

-----------------------------------------------------------------------------
(* A move of the engine is a step of the lifecycle. *)

Phase(status) == IF status \in WaitingRun THEN "waiting" ELSE status
PhaseOf == [r \in Runs |-> Phase(runs[r].status)]
ClaimedSet == {r \in Runs : runs[r].retryClaimed}
ParentOf == [r \in Runs |-> runs[r].parent]

LEMMA Phases ==
  /\ Phase("absent") = "absent" /\ Phase("queued") = "queued" /\ Phase("running") = "running"
  /\ Phase("succeeded") = "succeeded" /\ Phase("failed") = "failed"
  /\ Phase("cancelled") = "cancelled"
  /\ \A s \in WaitingRun : Phase(s) = "waiting"
  /\ \A s \in LiveRun : Phase(s) \in {"running", "waiting"}
  BY DEF Phase, WaitingRun, LiveRun

LEMMA ClaimsUnchanged == ASSUME ClaimsKept PROVE ClaimedSet' = ClaimedSet /\ ParentOf' = ParentOf
  BY DEF ClaimsKept, ClaimedSet, ParentOf

LEMMA PhaseKept == ASSUME StatusKept PROVE PhaseOf' = PhaseOf
  BY DEF StatusKept, PhaseOf

LEMMA PhaseMoves ==
  ASSUME NEW r \in Runs, NEW from, NEW s, Moves(r, from, s)
  PROVE  /\ PhaseOf' = [PhaseOf EXCEPT ![r] = Phase(s)]
         /\ PhaseOf[r] = Phase(runs[r].status) /\ runs[r].status \in from
         /\ ClaimedSet' = ClaimedSet /\ ParentOf' = ParentOf
  BY ClaimsUnchanged DEF Moves, PhaseOf

\* The move r: from -> s of the engine is the move of the lifecycle between the phases.
LEMMA MoveRefines ==
  ASSUME NEW r \in Runs, NEW from, NEW s, NEW phases, Moves(r, from, s),
         \A x \in from : Phase(x) \in phases
  PROVE  Lifecycle!Move(r, phases, Phase(s))
<1>1. /\ PhaseOf[r] \in phases
      /\ PhaseOf' = [PhaseOf EXCEPT ![r] = Phase(s)]
      /\ ClaimedSet' = ClaimedSet /\ ParentOf' = ParentOf
  BY PhaseMoves
<1> QED
  BY <1>1 DEF Lifecycle!Move, PhaseOf, ClaimedSet, ParentOf, Phase

\* A move that stays within a phase is a stutter of the lifecycle.
LEMMA SamePhase ==
  ASSUME NEW r \in Runs, NEW from, NEW s, Moves(r, from, s), Phase(runs[r].status) = Phase(s)
  PROVE  UNCHANGED Lifecycle!vars
<1>1. /\ PhaseOf[r] = Phase(s)
      /\ PhaseOf' = [PhaseOf EXCEPT ![r] = Phase(s)]
      /\ ClaimedSet' = ClaimedSet /\ ParentOf' = ParentOf
  BY PhaseMoves
<1>2. PhaseOf' = PhaseOf
  BY <1>1 DEF PhaseOf
<1> QED
  BY <1>1, <1>2 DEF Lifecycle!vars, PhaseOf, ClaimedSet, ParentOf, Phase

LEMMA ClaimRefines == ASSUME NEW r \in Runs, Claims(r) PROVE Lifecycle!ClaimRetry(r)
<1>1. PhaseOf' = PhaseOf /\ PhaseOf[r] \in {"failed", "cancelled"}
  BY PhaseKept, Phases DEF Claims, PhaseOf
<1>2. ClaimedSet' = ClaimedSet \cup {r} /\ r \notin ClaimedSet
  BY DEF Claims, ClaimedSet
<1>3. ParentOf' = ParentOf
  BY DEF Claims, ParentOf
<1> QED
  BY <1>1, <1>2, <1>3
     DEF Lifecycle!ClaimRetry, Lifecycle!Retryable, PhaseOf, ClaimedSet, ParentOf, Phase

LEMMA SpawnRefines ==
  ASSUME NEW r \in Runs, NEW c \in Runs, runs[r].retryClaimed,
         \A x \in Runs : runs[x].parent # r, Spawns(r, c)
  PROVE  Lifecycle!Retry(r, c)
<1>1. PhaseOf[c] = "absent" /\ PhaseOf' = [PhaseOf EXCEPT ![c] = "running"]
  BY Phases DEF Spawns, PhaseOf
<1>2. ClaimedSet' = ClaimedSet /\ r \in ClaimedSet
  BY DEF Spawns, ClaimedSet
<1>3. ParentOf' = [ParentOf EXCEPT ![c] = r] /\ \A x \in Runs : ParentOf[x] # r
  BY DEF Spawns, ParentOf
<1> QED
  BY <1>1, <1>2, <1>3 DEF Lifecycle!Retry, PhaseOf, ClaimedSet, ParentOf, Phase

LEMMA MovesRefine == ASSUME RunsMove PROVE [Lifecycle!Next]_(Lifecycle!vars)
<1>1. CASE StatusKept /\ ClaimsKept
  <2>1. PhaseOf' = PhaseOf /\ ClaimedSet' = ClaimedSet /\ ParentOf' = ParentOf
    BY <1>1, PhaseKept, ClaimsUnchanged
  <2> QED
    BY <2>1 DEF Lifecycle!vars, PhaseOf, ClaimedSet, ParentOf, Phase
<1>2. ASSUME NEW r \in Runs, Moves(r, {"absent"}, "queued") PROVE Lifecycle!Next
  <2>1. Lifecycle!Move(r, {"absent"}, Phase("queued"))
    BY <1>2, Phases, MoveRefines
  <2> QED
    BY <2>1, Phases DEF Lifecycle!Next, Lifecycle!Start
<1>3. ASSUME NEW r \in Runs, Moves(r, {"queued"}, "running") PROVE Lifecycle!Next
  <2>1. Lifecycle!Move(r, {"queued"}, Phase("running"))
    BY <1>3, Phases, MoveRefines
  <2> QED
    BY <2>1, Phases DEF Lifecycle!Next, Lifecycle!Claim
<1>4. ASSUME NEW r \in Runs, NEW s \in WaitingRun, Moves(r, LiveRun, s)
      PROVE  [Lifecycle!Next]_(Lifecycle!vars)
  <2>1. CASE runs[r].status \in WaitingRun
    BY <1>4, <2>1, Phases, SamePhase
  <2>2. CASE runs[r].status = "running"
    <3>1. Moves(r, {"running"}, s)
      BY <1>4, <2>2 DEF Moves
    <3>2. Lifecycle!Move(r, {"running"}, Phase(s))
      BY <3>1, Phases, MoveRefines
    <3> QED
      BY <3>2, Phases DEF Lifecycle!Next, Lifecycle!Park
  <2> QED
    BY <1>4, <2>1, <2>2 DEF Moves, LiveRun
<1>5. ASSUME NEW r \in Runs, Moves(r, LiveRun, "running")
      PROVE  [Lifecycle!Next]_(Lifecycle!vars)
  <2>1. CASE runs[r].status = "running"
    BY <1>5, <2>1, SamePhase
  <2>2. CASE runs[r].status \in WaitingRun
    <3>1. Moves(r, WaitingRun, "running")
      BY <1>5, <2>2 DEF Moves
    <3>2. Lifecycle!Move(r, {"waiting"}, Phase("running"))
      BY <3>1, Phases, MoveRefines
    <3> QED
      BY <3>2, Phases DEF Lifecycle!Next, Lifecycle!Wake
  <2> QED
    BY <1>5, <2>1, <2>2 DEF Moves, LiveRun
<1>6. ASSUME NEW r \in Runs, Moves(r, {"running"}, "succeeded") PROVE Lifecycle!Next
  <2>1. Lifecycle!Move(r, {"running"}, Phase("succeeded"))
    BY <1>6, Phases, MoveRefines
  <2> QED
    BY <2>1, Phases DEF Lifecycle!Next, Lifecycle!Succeed
<1>7. ASSUME NEW r \in Runs, Moves(r, LiveRun, "failed") PROVE Lifecycle!Next
  <2>1. Lifecycle!Move(r, {"running", "waiting"}, Phase("failed"))
    BY <1>7, Phases, MoveRefines
  <2> QED
    BY <2>1, Phases DEF Lifecycle!Next, Lifecycle!Fail, Lifecycle!Active
<1>8. ASSUME NEW r \in Runs, Moves(r, {"queued"} \cup LiveRun, "cancelled") PROVE Lifecycle!Next
  <2>1. Lifecycle!Move(r, {"queued"} \cup {"running", "waiting"}, Phase("cancelled"))
    BY <1>8, Phases, MoveRefines
  <2> QED
    BY <2>1, Phases DEF Lifecycle!Next, Lifecycle!Cancel, Lifecycle!Active
<1>9. ASSUME NEW r \in Runs, Claims(r) PROVE Lifecycle!Next
  BY <1>9, ClaimRefines DEF Lifecycle!Next
<1>10. ASSUME NEW r \in Runs, NEW c \in Runs, runs[r].retryClaimed,
              \A x \in Runs : runs[x].parent # r, Spawns(r, c)
       PROVE  Lifecycle!Next
  BY <1>10, SpawnRefines DEF Lifecycle!Next
<1> QED
  BY <1>1, <1>2, <1>3, <1>4, <1>5, <1>6, <1>7, <1>8, <1>9, <1>10 DEF RunsMove

-----------------------------------------------------------------------------
(* Who works on which run after a step. *)

\* Whoever is busy was busy with the same run, or with one that has started.
ProcsFollow ==
  \A q \in Procs : procs'[q].pc # "idle" =>
    \/ procs[q].pc # "idle" /\ procs'[q].run = procs[q].run
    \/ runs'[procs'[q].run].status \notin {"absent", "queued"}

\* Nobody begins to create a child.
SpawnersKept ==
  \A q \in Procs : procs'[q].pc = "spawn" =>
    procs[q].pc = "spawn" /\ procs'[q].run = procs[q].run

LEMMA ProceedsFollows ==
  ASSUME NEW p \in Procs, Proceeds(p) PROVE ProcsFollow /\ SpawnersKept
<1>1. \A q \in Procs : q # p => procs'[q] = procs[q]
  BY DEF Proceeds, OnlyProc
<1> QED
  BY <1>1 DEF Proceeds, ProcsFollow, SpawnersKept

LEMMA CloseFollows ==
  ASSUME TypeInv, Roles, NEW p \in Procs, CloseNodeRuns(p) PROVE ProcsFollow /\ SpawnersKept
  BY CloseFacts DEF ProcsFollow, SpawnersKept

LEMMA BeginFollows ==
  ASSUME TypeInv, NEW p \in Procs, NEW x, procs' = [procs EXCEPT ![p] = x],
         runs'[x.run].status \notin {"absent", "queued"}
  PROVE  ProcsFollow /\ (x.pc # "spawn" => SpawnersKept)
<1>1. procs \in [Procs -> ProcType]
  BY DEF TypeInv, TypeOK
<1>2. procs'[p] = x /\ \A q \in Procs : q # p => procs'[q] = procs[q]
  BY <1>1
<1> QED
  BY <1>2 DEF ProcsFollow, SpawnersKept

\* A process takes over a NodeRun, as a job or from its waiting.
LEMMA TakeFollows ==
  ASSUME TypeInv, WorkIsStarted, UNCHANGED runs, NEW p \in Procs, NEW i \in DOMAIN nodeRuns,
         NEW x, procs' = [procs EXCEPT ![p] = x], x.run = nodeRuns[i].run, x.pc # "spawn"
  PROVE  ProcsFollow /\ SpawnersKept
<1>1. runs[x.run].status \notin {"absent", "queued"}
  BY DEF WorkIsStarted, Started
<1> QED
  BY <1>1, BeginFollows

LEMMA DispatchFollows ==
  ASSUME TypeInv, WorkIsStarted, NEW w \in Workers, DispatchJob(w)
  PROVE  ProcsFollow /\ SpawnersKept
<1>1. PICK j \in queue : procs' = [procs EXCEPT ![w] =
             [Idle EXCEPT !.pc = "load", !.nr = j.nr, !.run = nodeRuns[j.nr].run]]
  BY Zenon DEF DispatchJob, Begin
<1> DEFINE x == [Idle EXCEPT !.pc = "load", !.nr = j.nr, !.run = nodeRuns[j.nr].run]
<1>2. x.pc = "load" /\ x.run = nodeRuns[j.nr].run
  BY DEF Idle
<1>3. procs' = [procs EXCEPT ![w] = x] /\ w \in Procs
  BY <1>1 DEF Procs
<1>4. j.nr \in DOMAIN nodeRuns /\ UNCHANGED runs
  BY DEF TypeInv, References, DispatchJob
<1> HIDE DEF x
<1> QED
  BY <1>2, <1>3, <1>4, TakeFollows

LEMMA ClaimWaitingFollows ==
  ASSUME TypeInv, WorkIsStarted, UNCHANGED runs, NEW h \in Handlers, NEW i \in DOMAIN nodeRuns,
         NEW res, ClaimWaiting(h, i, res)
  PROVE  ProcsFollow /\ SpawnersKept
<1> DEFINE x == [Idle EXCEPT !.pc = "resume", !.run = nodeRuns[i].run, !.nr = i, !.result = res]
<1>1. x.pc = "resume" /\ x.run = nodeRuns[i].run
  BY DEF Idle
<1>2. procs' = [procs EXCEPT ![h] = x] /\ h \in Procs
  BY HandlersAreProcs DEF ClaimWaiting, Begin
<1> HIDE DEF x
<1> QED
  BY <1>1, <1>2, TakeFollows

LEMMA ResumersFollow ==
  ASSUME TypeInv, WorkIsStarted, NEW h \in Handlers,
         \/ \E e \in questionEvents : HandleQuestion(h, e)
         \/ \E i \in DOMAIN nodeRuns : ResumeDelayedNode(h, i)
  PROVE  (ProcsFollow /\ SpawnersKept) \/ UNCHANGED procs
<1>1. \A e \in questionEvents : e.nr \in DOMAIN nodeRuns
  BY DEF TypeInv, References
<1> QED
  BY <1>1, ClaimWaitingFollows DEF HandleQuestion, ResumeDelayedNode

LEMMA StatusSet ==
  ASSUME TypeInv, NEW r \in Runs, NEW s \in RunStatus, SetRun(r, s)
  PROVE  runs'[r].status = s
<1>1. runs[r].status \in RunStatus
  BY DEF TypeInv, TypeOK, RunType
<1> QED
  BY <1>1, SetRunMoves DEF Moves

LEMMA StartFollows ==
  ASSUME TypeInv, NEW h \in Handlers, NEW r \in Runs, NEW o, HandleRunQueued(h, r, o)
  PROVE  (ProcsFollow /\ SpawnersKept) \/ UNCHANGED procs
<1> DEFINE x == [Idle EXCEPT !.pc = IF Triggers = {} THEN "fail" ELSE "enqueue",
                             !.run = r, !.result = "trigger", !.todo = Triggers]
<1>1. x.pc \in {"fail", "enqueue"} /\ x.run = r
  BY DEF Idle
<1>2. \/ UNCHANGED procs
      \/ SetRun(r, "running") /\ procs' = [procs EXCEPT ![h] = x]
  BY Zenon DEF HandleRunQueued, Begin
<1> HIDE DEF x
<1>3. SetRun(r, "running") => runs'[r].status = "running"
  BY StatusSet DEF RunStatus
<1> QED
  BY <1>1, <1>2, <1>3, HandlersAreProcs, BeginFollows

LEMMA CancelFollows ==
  ASSUME TypeInv, NEW h \in Handlers, NEW r \in Runs, CancelRun(h, r)
  PROVE  ProcsFollow /\ SpawnersKept
<1> DEFINE x == [Idle EXCEPT !.pc = "close", !.run = r]
<1>1. x.pc = "close" /\ x.run = r
  BY DEF Idle
<1>2. SetRun(r, "cancelled") /\ procs' = [procs EXCEPT ![h] = x]
  BY Zenon DEF CancelRun, Begin
<1> HIDE DEF x
<1>3. runs'[r].status = "cancelled"
  BY <1>2, StatusSet DEF RunStatus, TerminalRun
<1> QED
  BY <1>1, <1>2, <1>3, HandlersAreProcs, BeginFollows

LEMMA ClaimRetryFollows ==
  ASSUME TypeInv, NEW h \in Handlers, NEW r \in Runs, ClaimRetry(h, r)
  PROVE  /\ ProcsFollow
         /\ procs'[h].pc = "spawn" /\ procs'[h].run = r
         /\ \A q \in Procs : q # h => procs'[q] = procs[q]
<1> DEFINE x == [Idle EXCEPT !.pc = "spawn", !.run = r]
<1>1. x.pc = "spawn" /\ x.run = r
  BY DEF Idle
<1>2. procs' = [procs EXCEPT ![h] = x] /\ h \in Procs /\ procs \in [Procs -> ProcType]
  BY HandlersAreProcs DEF ClaimRetry, Begin, TypeInv, TypeOK
<1> HIDE DEF x
<1>3. runs'[r].status \notin {"absent", "queued"}
  BY MoveClaimRetry DEF Claims, StatusKept
<1> QED
  BY <1>1, <1>2, <1>3, BeginFollows

LEMMA SpawnFollows ==
  ASSUME TypeInv, NEW p \in Procs, SpawnRetry(p)
  PROVE  /\ ProcsFollow
         /\ procs'[p].pc # "spawn"
         /\ \A q \in Procs : q # p => procs'[q] = procs[q]
<1>1. procs \in [Procs -> ProcType]
  BY DEF TypeInv, TypeOK
<1>2. CASE Return(p)
  BY <1>1, <1>2, ReturnFacts DEF OnlyProc, ProcsFollow, TypeInv, TypeOK
<1>3. ASSUME NEW c \in Runs, NEW n,
             runs' = [runs EXCEPT ![c].status = "running", ![c].parent = procs[p].run],
             procs' = [procs EXCEPT ![p].pc = "enqueue", ![p].run = c,
                                    ![p].result = "spawn", ![p].todo = {n}]
      PROVE  /\ ProcsFollow
             /\ procs'[p].pc # "spawn"
             /\ \A q \in Procs : q # p => procs'[q] = procs[q]
  <2> DEFINE x == [procs[p] EXCEPT !.pc = "enqueue", !.run = c,
                                   !.result = "spawn", !.todo = {n}]
  <2> DEFINE y == [runs[c] EXCEPT !.status = "running", !.parent = procs[p].run]
  <2>1. x.pc = "enqueue" /\ x.run = c
    BY ProcessFields DEF ProcType
  <2>2. procs' = [procs EXCEPT ![p] = x]
    BY Zenon, <1>3
  <2>3. runs \in [Runs -> RunType]
    BY DEF TypeInv, TypeOK
  <2>4. y.status = "running"
    BY <2>3 DEF RunType
  <2>5. runs' = [runs EXCEPT ![c] = y]
    BY Zenon, <1>3
  <2> HIDE DEF x, y
  <2>6. runs'[c].status = "running"
    BY <2>3, <2>4, <2>5
  <2> QED
    BY <1>1, <2>1, <2>2, <2>6, BeginFollows
<1> QED
  BY <1>2, <1>3 DEF SpawnRetry

-----------------------------------------------------------------------------
(* Which NodeRuns there are after a step. *)

\* NodeRuns of runs that have started are created, and no others.
NodeRunsFollow ==
  \A i \in DOMAIN nodeRuns' :
    \/ i \in DOMAIN nodeRuns /\ nodeRuns'[i].run = nodeRuns[i].run
    \/ runs'[nodeRuns'[i].run].status \notin {"absent", "queued"}

LEMMA SameNodeRunsFollow == UNCHANGED nodeRuns => NodeRunsFollow
  BY DEF NodeRunsFollow

LEMMA KeptFollow ==
  ASSUME NodeRunsKept, DOMAIN nodeRuns' = DOMAIN nodeRuns
  PROVE  NodeRunsFollow
  BY DEF NodeRunsKept, NodeRunsFollow

\* NodeRun i becomes y.
LEMMA BecomesFollows ==
  ASSUME TypeInv, NEW i \in DOMAIN nodeRuns, NEW y, y.run = nodeRuns[i].run,
         nodeRuns' = [nodeRuns EXCEPT ![i] = y]
  PROVE  NodeRunsFollow
<1>1. nodeRuns \in Seq(NodeRunType)
  BY DEF TypeInv, TypeOK
<1>2. /\ DOMAIN nodeRuns' = DOMAIN nodeRuns
      /\ \A j \in DOMAIN nodeRuns : nodeRuns'[j].run = nodeRuns[j].run
  BY <1>1
<1> QED
  BY <1>2 DEF NodeRunsFollow

LEMMA StatusFollows ==
  ASSUME TypeInv, NEW i \in DOMAIN nodeRuns, NEW s, SetNodeRun(i, s)
  PROVE  NodeRunsFollow
<1> DEFINE y == [nodeRuns[i] EXCEPT !.status = s]
<1>1. y.run = nodeRuns[i].run
  BY NodeRunFacts DEF TypeInv, TypeOK, NodeRunType
<1>2. nodeRuns' = [nodeRuns EXCEPT ![i] = y]
  BY Zenon DEF SetNodeRun
<1> HIDE DEF y
<1> QED
  BY <1>1, <1>2, BecomesFollows

LEMMA QuestionFollows ==
  ASSUME TypeInv, NEW i \in DOMAIN nodeRuns, NEW s,
         nodeRuns' = [nodeRuns EXCEPT ![i].question = s]
  PROVE  NodeRunsFollow
<1> DEFINE y == [nodeRuns[i] EXCEPT !.question = s]
<1>1. y.run = nodeRuns[i].run
  BY NodeRunFacts DEF TypeInv, TypeOK, NodeRunType
<1>2. nodeRuns' = [nodeRuns EXCEPT ![i] = y]
  BY Zenon
<1> HIDE DEF y
<1> QED
  BY <1>1, <1>2, BecomesFollows

LEMMA WaitingFollows ==
  ASSUME TypeInv, NEW i \in DOMAIN nodeRuns, NEW s, NEW w,
         nodeRuns' = [nodeRuns EXCEPT ![i].status = s, ![i].waitsFor = w]
  PROVE  NodeRunsFollow
<1> DEFINE y == [nodeRuns[i] EXCEPT !.status = s, !.waitsFor = w]
<1>1. y.run = nodeRuns[i].run
  BY NodeRunFacts DEF TypeInv, TypeOK, NodeRunType
<1>2. nodeRuns' = [nodeRuns EXCEPT ![i] = y]
  BY Zenon
<1> HIDE DEF y
<1> QED
  BY <1>1, <1>2, BecomesFollows

LEMMA InterruptFollows ==
  ASSUME TypeInv, NEW C,
         nodeRuns' = [i \in DOMAIN nodeRuns |->
                        IF i \in C THEN [nodeRuns[i] EXCEPT !.status = "interrupted"]
                        ELSE nodeRuns[i]]
  PROVE  NodeRunsFollow
  BY InterruptAll, KeptFollow DEF TypeInv, TypeOK

LEMMA EnqueueFollows ==
  ASSUME TypeInv, NEW r \in Runs, NEW n \in Nodes, NEW a \in Nat, NEW d \in BOOLEAN,
         EnqueueNode(r, n, a, d), runs'[r].status \notin {"absent", "queued"}
  PROVE  NodeRunsFollow
<1>1. /\ NodeRunsKept
      /\ \A i \in DOMAIN nodeRuns' : i \notin DOMAIN nodeRuns => nodeRuns'[i].run = r
  BY EnqueueFacts DEF TypeInv, TypeOK, References
<1> QED
  BY <1>1 DEF NodeRunsKept, NodeRunsFollow

LEMMA StepNodeRuns ==
  ASSUME TypeInv, WorkIsStarted, NEW p \in Procs, Step(p) PROVE NodeRunsFollow
<1> DEFINE i == procs[p].nr
<1>1. CASE UNCHANGED nodeRuns
  BY <1>1, SameNodeRunsFollow
<1>2. procs[p].pc \in NodePCs => i \in DOMAIN nodeRuns
  BY DEF TypeInv, References, Knows
<1>3. CASE MarkRunning(p) \/ InterruptNodeRun(p) \/ CompleteNodeRun(p)
  BY <1>2, <1>3, StatusFollows DEF MarkRunning, InterruptNodeRun, CompleteNodeRun, NodePCs
<1>4. CASE Execute(p)
  BY <1>1, <1>2, <1>4, QuestionFollows DEF Execute, NodePCs
<1>5. CASE SaveWaiting(p)
  BY <1>2, <1>5, WaitingFollows DEF SaveWaiting, NodePCs
<1>6. CASE EnqueueNext(p)
  <2>1. PICK n \in procs[p].todo :
          EnqueueNode(procs[p].run, n, procs[p].attempt, procs[p].result = "retry")
    BY <1>6 DEF EnqueueNext
  <2>2. n \in Nodes /\ procs[p].attempt \in Nat /\ (procs[p].result = "retry") \in BOOLEAN
    BY ProcessFields DEF ProcType
  <2>3. procs[p].run \in Runs /\ Started(procs[p].run) /\ UNCHANGED runs
    BY <1>6, WorkedOn DEF EnqueueNext
  <2> QED
    BY <2>1, <2>2, <2>3, EnqueueFollows DEF Started
<1>7. CASE CloseNodeRuns(p)
  <2> DEFINE C == {k \in DOMAIN nodeRuns :
                     nodeRuns[k].run = procs[p].run /\ nodeRuns[k].status \in OpenNodeRun}
  <2>1. nodeRuns' = [k \in DOMAIN nodeRuns |->
                       IF k \in C THEN [nodeRuns[k] EXCEPT !.status = "interrupted"]
                       ELSE nodeRuns[k]]
    BY <1>7 DEF CloseNodeRuns
  <2> HIDE DEF C
  <2> QED
    BY <2>1, InterruptFollows
<1> QED
  BY <1>1, <1>3, <1>4, <1>5, <1>6, <1>7
     DEF Step, LoadJob, CountExecution, ReadLiveStatus, ParkRun, UpdateContext, CountOpen,
         FinishRun, FailRun, ResumeRun, SpawnRetry

LEMMA NextNodeRuns ==
  ASSUME TypeInv, WorkIsStarted, [Next]_vars PROVE NodeRunsFollow
<1>1. ASSUME UNCHANGED nodeRuns PROVE NodeRunsFollow
  BY <1>1, SameNodeRunsFollow
<1>2. ASSUME NEW h, NEW i \in DOMAIN nodeRuns, NEW res, ClaimWaiting(h, i, res)
      PROVE  NodeRunsFollow
  BY <1>2, WaitingFollows DEF ClaimWaiting
<1>3. ASSUME NEW h, NEW e \in questionEvents, HandleQuestion(h, e) PROVE NodeRunsFollow
  <2>1. e.nr \in DOMAIN nodeRuns
    BY DEF TypeInv, References
  <2> QED
    BY <1>1, <1>2, <1>3, <2>1 DEF HandleQuestion
<1>4. ASSUME NEW h, NEW i \in DOMAIN nodeRuns, ResumeDelayedNode(h, i) PROVE NodeRunsFollow
  BY <1>2, <1>4 DEF ResumeDelayedNode
<1>5. ASSUME NEW i \in DOMAIN nodeRuns,
             \/ \E k \in 1..MaxAnswers : SaveAnswer(i, k)
             \/ OpenExpiry(i) \/ SaveExpiry(i)
      PROVE  NodeRunsFollow
  BY <1>1, <1>5, QuestionFollows DEF SaveAnswer, OpenExpiry, SaveExpiry
<1>6. CASE Recovery
  <2>1. CASE InterruptCut
    <3> DEFINE C == recovery.resume
    <3>1. nodeRuns' = [k \in DOMAIN nodeRuns |->
                         IF k \in C THEN [nodeRuns[k] EXCEPT !.status = "interrupted"]
                         ELSE nodeRuns[k]]
      BY <2>1 DEF InterruptCut
    <3> HIDE DEF C
    <3> QED
      BY <3>1, InterruptFollows
  <2>2. ASSUME NEW i \in recovery.resume, RecoverNode(i) PROVE NodeRunsFollow
    <3>1. i \in DOMAIN nodeRuns /\ nodeRuns \in Seq(NodeRunType)
      BY DEF TypeInv, TypeOK, References
    <3>2. nodeRuns[i].run \in Runs /\ nodeRuns[i].node \in Nodes /\ nodeRuns[i].attempt + 1 \in Nat
      BY <3>1, NodeRunFacts
    <3>3. runs'[nodeRuns[i].run].status \notin {"absent", "queued"}
      BY <2>2, <3>1 DEF RecoverNode, WorkIsStarted, Started
    <3> QED
      BY <2>2, <3>2, <3>3, EnqueueFollows DEF RecoverNode
  <2> QED
    BY <1>1, <1>6, <2>1, <2>2
       DEF Recovery, Restart, RecoverRun, FailCut, FinishRecovery
<1>7. ASSUME NEW p \in Procs, Step(p) \/ DatabaseError(p) PROVE NodeRunsFollow
  BY <1>1, <1>7, StepNodeRuns DEF DatabaseError
<1>8. CASE Users \/ Crash \/ UNCHANGED vars \/ \E w \in Workers : DispatchJob(w)
  BY <1>1, <1>8 DEF Users, StartRun, CancelRun, ClaimRetry, OpenAnswer, Crash, DispatchJob, vars
<1>9. CASE \E h \in Handlers, e \in queuedEvents : HandleRunQueued(h, e[1], e[2])
  BY <1>1, <1>9 DEF HandleRunQueued
<1> QED
  BY <1>3, <1>4, <1>5, <1>6, <1>7, <1>8, <1>9 DEF Next

-----------------------------------------------------------------------------
(* The invariant. *)

RecoveryFollows ==
  /\ recovery'.stale \subseteq recovery.stale \cup {r \in Runs : runs[r].status = "running"}
  /\ recovery'.run \in {NoRun, recovery.run} \cup recovery.stale

LEMMA NextRecovery == ASSUME TypeInv, [Next]_vars PROVE RecoveryFollows
<1>1. CASE UNCHANGED recovery
  BY <1>1 DEF RecoveryFollows
<1>2. CASE Crash
  BY <1>2 DEF Crash, NoRecovery, RecoveryFollows
<1>3. CASE Recovery
  <2>1. recovery.stale \subseteq Runs
    BY DEF TypeInv, TypeOK
  <2>2. CASE Restart
    BY <2>2 DEF Restart, NoRecovery, RecoveryFollows
  <2>3. ASSUME NEW r \in Runs, RecoverRun(r) PROVE RecoveryFollows
    BY <2>3 DEF RecoverRun, RecoveryFollows
  <2>4. CASE InterruptCut \/ FailCut \/ \E i \in recovery.resume : RecoverNode(i)
    <3>1. \/ recovery' = [NoRecovery EXCEPT !.stale = recovery.stale]
          \/ recovery' = [recovery EXCEPT !.closed = TRUE]
          \/ \E i : recovery' = [recovery EXCEPT !.resume = @ \ {i}]
      BY Zenon, <2>4 DEF InterruptCut, FailCut, RecoverNode
    <3> QED
      BY <3>1 DEF NoRecovery, RecoveryFollows, TypeInv, TypeOK
  <2>5. CASE FinishRecovery
    BY <1>1, <2>5 DEF FinishRecovery
  <2> QED
    BY <1>3, <2>2, <2>3, <2>4, <2>5 DEF Recovery
<1>4. ASSUME NEW p \in Procs, Step(p) PROVE UNCHANGED recovery
  BY <1>4
     DEF Step, LoadJob, MarkRunning, CountExecution, Execute, ReadLiveStatus, InterruptNodeRun,
         SaveWaiting, ParkRun, CompleteNodeRun, UpdateContext, EnqueueNext, CountOpen, FinishRun,
         FailRun, ResumeRun, CloseNodeRuns, SpawnRetry, control
<1>5. ASSUME NEW p \in Procs, DatabaseError(p) PROVE UNCHANGED recovery
  BY <1>5 DEF DatabaseError
<1>6. CASE \/ Users
           \/ \E h \in Handlers, e \in queuedEvents : HandleRunQueued(h, e[1], e[2])
           \/ \E h \in Handlers, e \in questionEvents : HandleQuestion(h, e)
           \/ \E h \in Handlers, i \in DOMAIN nodeRuns : ResumeDelayedNode(h, i)
           \/ \E i \in DOMAIN nodeRuns, k \in 1..MaxAnswers : SaveAnswer(i, k)
           \/ \E i \in DOMAIN nodeRuns : OpenExpiry(i) \/ SaveExpiry(i)
           \/ \E w \in Workers : DispatchJob(w)
  BY <1>1, <1>6
     DEF Users, StartRun, CancelRun, ClaimRetry, OpenAnswer, HandleRunQueued, HandleQuestion,
         ResumeDelayedNode, SaveAnswer, OpenExpiry, SaveExpiry, DispatchJob, control
<1>7. CASE UNCHANGED vars
  BY <1>1, <1>7 DEF vars, control
<1> QED
  BY <1>1, <1>2, <1>3, <1>4, <1>5, <1>6, <1>7 DEF Next

\* Everybody follows, and so does the invariant.
LEMMA WorkStaysStarted ==
  ASSUME TypeInv, TypeInv', WorkIsStarted, RunsMove, ProcsFollow, NodeRunsFollow, RecoveryFollows
  PROVE  WorkIsStarted'
<1>1. \A r \in Runs : Started(r) => runs'[r].status \notin {"absent", "queued"}
  BY StartedStays
<1>2. \A p \in Procs : procs'[p].pc # "idle" => runs'[procs'[p].run].status \notin {"absent", "queued"}
  BY <1>1, BusyRun DEF ProcsFollow, WorkIsStarted
<1>3. \A i \in DOMAIN nodeRuns' : runs'[nodeRuns'[i].run].status \notin {"absent", "queued"}
  <2>1. \A i \in DOMAIN nodeRuns : nodeRuns[i].run \in Runs
    BY NodeRunFacts DEF TypeInv, TypeOK
  <2> QED
    BY <1>1, <2>1 DEF NodeRunsFollow, WorkIsStarted
<1>4. /\ recovery.stale \subseteq Runs
      /\ recovery.run \in Runs \cup {NoRun}
  BY DEF TypeInv, TypeOK
<1>5. \A r \in recovery'.stale : runs'[r].status \notin {"absent", "queued"}
  BY <1>1, <1>4 DEF RecoveryFollows, WorkIsStarted, Started
<1>6. recovery'.run # NoRun => runs'[recovery'.run].status \notin {"absent", "queued"}
  BY <1>1, <1>4 DEF RecoveryFollows, WorkIsStarted
<1> QED
  BY <1>2, <1>3, <1>5, <1>6 DEF WorkIsStarted, Started

LEMMA ClaimsStay ==
  ASSUME TypeInv, RetryClaims, ClaimsKept, SpawnersKept
  PROVE  RetryClaims'
<1>1. \A x \in Runs : /\ runs'[x].retryClaimed = runs[x].retryClaimed
                      /\ runs'[x].parent = runs[x].parent
                      /\ runs[x].parent \in Runs \cup {NoRun}
  BY DEF ClaimsKept, TypeInv, TypeOK, RunType
<1>2. \A q \in Procs : procs'[q].pc = "spawn" =>
        procs[q].pc = "spawn" /\ procs'[q].run = procs[q].run /\ procs[q].run \in Runs
  BY BusyRun DEF SpawnersKept
<1> QED
  BY <1>1, <1>2 DEF RetryClaims

LEMMA ClaimRetryClaims ==
  ASSUME TypeInv, RetryClaims, NEW h \in Handlers, NEW r \in Runs, ClaimRetry(h, r)
  PROVE  RetryClaims'
<1>1. Claims(r)
  BY MoveClaimRetry
<1>2. /\ procs'[h].pc = "spawn" /\ procs'[h].run = r
      /\ \A q \in Procs : q # h => procs'[q] = procs[q]
  BY ClaimRetryFollows
<1>3. \A x \in Runs : runs'[x].parent = runs[x].parent /\ runs[x].parent \in Runs \cup {NoRun}
  BY <1>1 DEF Claims, TypeInv, TypeOK, RunType
<1>4. \A x \in Runs : runs[x].retryClaimed => runs'[x].retryClaimed
  BY <1>1 DEF Claims
<1>5. \A c \in Runs : runs[c].parent # r
  BY <1>1, Disjoint DEF Claims, RetryClaims
<1>6. \A q \in Procs : procs[q].pc = "spawn" => procs[q].run # r /\ procs[q].run \in Runs
  BY <1>1, BusyRun DEF Claims, RetryClaims
<1>7. runs'[r].retryClaimed
  BY <1>1 DEF Claims
<1>8. \A c \in Runs : runs'[c].parent # NoRun =>
        /\ runs'[runs'[c].parent].retryClaimed
        /\ \A d \in Runs : runs'[d].parent = runs'[c].parent => d = c
  BY <1>3, <1>4 DEF RetryClaims
<1>9. ASSUME NEW p \in Procs, procs'[p].pc = "spawn"
      PROVE  /\ runs'[procs'[p].run].retryClaimed
             /\ \A c \in Runs : runs'[c].parent # procs'[p].run
             /\ \A q \in Procs : procs'[q].pc = "spawn" /\ procs'[q].run = procs'[p].run => q = p
  <2>1. CASE p = h
    BY <1>2, <1>3, <1>5, <1>6, <1>7, <2>1
  <2>2. CASE p # h
    BY <1>2, <1>3, <1>4, <1>6, <1>9, <2>2 DEF RetryClaims
  <2> QED
    BY <2>1, <2>2
<1> QED
  BY <1>8, <1>9 DEF RetryClaims

LEMMA SpawnRetryClaims ==
  ASSUME TypeInv, RetryClaims, NEW p \in Procs, SpawnRetry(p)
  PROVE  RetryClaims'
<1> DEFINE r == procs[p].run
<1>1. PICK c \in Runs : Spawns(r, c)
  BY MoveSpawnRetry
<1>2. procs'[p].pc # "spawn" /\ \A q \in Procs : q # p => procs'[q] = procs[q]
  BY SpawnFollows
<1>3. /\ r \in Runs /\ runs[r].retryClaimed
      /\ \A x \in Runs : runs[x].parent # r
      /\ \A q \in Procs : procs[q].pc = "spawn" /\ q # p => procs[q].run # r /\ procs[q].run \in Runs
  BY BusyRun DEF SpawnRetry, RetryClaims
<1>4. \A x \in Runs : runs[x].parent \in Runs \cup {NoRun}
  BY DEF TypeInv, TypeOK, RunType
<1> HIDE DEF r
<1>5. /\ runs'[c].parent = r
      /\ \A x \in Runs : x # c => runs'[x].parent = runs[x].parent
      /\ \A x \in Runs : runs'[x].retryClaimed = runs[x].retryClaimed
  BY <1>1 DEF Spawns
<1>6. ASSUME NEW x \in Runs, runs'[x].parent # NoRun
      PROVE  /\ runs'[runs'[x].parent].retryClaimed
             /\ \A d \in Runs : runs'[d].parent = runs'[x].parent => d = x
  <2>1. CASE x = c
    BY <1>3, <1>5, <2>1
  <2>2. CASE x # c
    BY <1>3, <1>4, <1>5, <1>6, <2>2 DEF RetryClaims
  <2> QED
    BY <2>1, <2>2
<1>7. ASSUME NEW q \in Procs, procs'[q].pc = "spawn"
      PROVE  /\ runs'[procs'[q].run].retryClaimed
             /\ \A x \in Runs : runs'[x].parent # procs'[q].run
             /\ \A u \in Procs : procs'[u].pc = "spawn" /\ procs'[u].run = procs'[q].run => u = q
  <2>1. q # p /\ procs'[q] = procs[q]
    BY <1>2, <1>7
  <2> QED
    BY <1>2, <1>3, <1>5, <1>7, <2>1 DEF RetryClaims
<1> QED
  BY <1>6, <1>7 DEF RetryClaims

LifeInv == WorkIsStarted /\ RetryClaims

LEMMA StatusKeepsClaims ==
  ASSUME TypeInv, NEW r \in Runs, NEW s \in RunStatus, SetRun(r, s) PROVE ClaimsKept
<1>1. Moves(r, {runs[r].status}, s)
  BY SetRunMoves
<1> QED
  BY <1>1 DEF Moves

LEMMA StepClaims ==
  ASSUME TypeInv, Roles, NEW p \in Procs, Step(p), ~SpawnRetry(p)
  PROVE  ProcsFollow /\ SpawnersKept /\ ClaimsKept
<1>1. ProcsFollow /\ SpawnersKept
  BY StepProceeds, ProceedsFollows, CloseFollows
<1>2. CASE UNCHANGED runs
  BY <1>1, <1>2 DEF ClaimsKept
<1>3. CASE CountExecution(p)
  BY <1>1, <1>3, MoveCountExecution
<1>4. CASE ParkRun(p) \/ FinishRun(p) \/ FailRun(p) \/ ResumeRun(p)
  <2>1. procs[p].run \in Runs
    BY <1>4, BusyRun DEF ParkRun, FinishRun, FailRun, ResumeRun
  <2>2. UNCHANGED runs \/ \E s \in RunStatus : SetRun(procs[p].run, s)
    <3>1. \A s \in {"waiting_for_timer", "waiting_for_user", "succeeded", "failed", "running"} :
            s \in RunStatus
      BY DEF RunStatus, WaitingRun, TerminalRun
    <3> QED
      BY <1>4, <3>1 DEF ParkRun, FinishRun, FailRun, ResumeRun
  <2> QED
    BY <1>1, <1>2, <2>1, <2>2, StatusKeepsClaims
<1> QED
  BY <1>2, <1>3, <1>4
     DEF Step, LoadJob, MarkRunning, Execute, ReadLiveStatus, InterruptNodeRun, SaveWaiting,
         CompleteNodeRun, UpdateContext, EnqueueNext, CountOpen, CloseNodeRuns

LEMMA NextClaims ==
  ASSUME TypeInv, Roles, LifeInv, [Next]_vars
  PROVE  ProcsFollow /\ RetryClaims'
<1>1. ASSUME ProcsFollow, SpawnersKept, ClaimsKept PROVE ProcsFollow /\ RetryClaims'
  BY <1>1, ClaimsStay DEF LifeInv
<1>2. ASSUME UNCHANGED procs PROVE ProcsFollow /\ SpawnersKept
  BY <1>2 DEF ProcsFollow, SpawnersKept
<1>3. ASSUME UNCHANGED runs PROVE ClaimsKept
  BY <1>3 DEF ClaimsKept
<1>4. ASSUME NEW r \in Runs, \E s \in {"queued", "running", "failed", "cancelled"} : SetRun(r, s)
      PROVE  ClaimsKept
  BY <1>4, StatusKeepsClaims DEF RunStatus, TerminalRun
<1>5. CASE Users
  <2>1. ASSUME NEW r \in Runs, StartRun(r) PROVE ProcsFollow /\ RetryClaims'
    BY <1>1, <1>2, <1>4, <2>1 DEF StartRun
  <2>2. ASSUME NEW h \in Handlers, NEW r \in Runs, CancelRun(h, r) PROVE ProcsFollow /\ RetryClaims'
    BY <1>1, <1>4, <2>2, CancelFollows DEF CancelRun
  <2>3. ASSUME NEW h \in Handlers, NEW r \in Runs, ClaimRetry(h, r) PROVE ProcsFollow /\ RetryClaims'
    BY <2>3, ClaimRetryFollows, ClaimRetryClaims DEF LifeInv
  <2>4. ASSUME NEW i, NEW k, OpenAnswer(i, k) PROVE ProcsFollow /\ RetryClaims'
    BY <1>1, <1>2, <1>3, <2>4 DEF OpenAnswer
  <2> QED
    BY <1>5, <2>1, <2>2, <2>3, <2>4 DEF Users
<1>6. ASSUME NEW h \in Handlers, NEW e \in queuedEvents, HandleRunQueued(h, e[1], e[2])
      PROVE  ProcsFollow /\ RetryClaims'
  <2>1. e[1] \in Runs
    BY DEF TypeInv, TypeOK
  <2>2. ClaimsKept
    BY <1>3, <1>4, <1>6, <2>1 DEF HandleRunQueued
  <2> QED
    BY <1>1, <1>2, <1>6, <2>1, <2>2, StartFollows
<1>7. ASSUME NEW h \in Handlers,
             \/ \E e \in questionEvents : HandleQuestion(h, e)
             \/ \E i \in DOMAIN nodeRuns : ResumeDelayedNode(h, i)
      PROVE  ProcsFollow /\ RetryClaims'
  <2>1. UNCHANGED runs
    BY <1>7 DEF HandleQuestion, ResumeDelayedNode
  <2> QED
    BY <1>1, <1>2, <1>3, <1>7, <2>1, ResumersFollow DEF LifeInv
<1>8. CASE \E i \in DOMAIN nodeRuns :
             \/ \E k \in 1..MaxAnswers : SaveAnswer(i, k)
             \/ OpenExpiry(i) \/ SaveExpiry(i)
  BY <1>1, <1>2, <1>3, <1>8 DEF SaveAnswer, OpenExpiry, SaveExpiry
<1>9. ASSUME NEW w \in Workers, DispatchJob(w) PROVE ProcsFollow /\ RetryClaims'
  <2>1. UNCHANGED runs
    BY <1>9 DEF DispatchJob
  <2> QED
    BY <1>1, <1>3, <1>9, <2>1, DispatchFollows DEF LifeInv
<1>10. ASSUME NEW p \in Procs, Step(p) PROVE ProcsFollow /\ RetryClaims'
  <2>1. CASE SpawnRetry(p)
    BY <2>1, SpawnFollows, SpawnRetryClaims DEF LifeInv
  <2>2. CASE ~SpawnRetry(p)
    BY <1>1, <1>10, <2>2, StepClaims
  <2> QED
    BY <2>1, <2>2
<1>11. ASSUME NEW p \in Procs, DatabaseError(p) PROVE ProcsFollow /\ RetryClaims'
  BY <1>1, <1>3, <1>11, ReturnProceeds, ProceedsFollows DEF DatabaseError
<1>12. CASE Crash
  <2>1. ProcsFollow /\ SpawnersKept
    BY <1>12, IdleType DEF Crash, ProcsFollow, SpawnersKept
  <2> QED
    BY <1>1, <1>3, <1>12, <2>1 DEF Crash
<1>13. CASE Recovery
  <2>1. CASE FailCut
    <3>1. recovery.run \in Runs
      BY <2>1 DEF FailCut, TypeInv, TypeOK
    <3>2. UNCHANGED procs /\ (UNCHANGED runs \/ SetRun(recovery.run, "failed"))
      BY <2>1 DEF FailCut, memory
    <3> QED
      BY <1>1, <1>2, <1>3, <1>4, <3>1, <3>2
  <2>2. CASE ~FailCut
    <3>1. UNCHANGED procs /\ UNCHANGED runs
      BY <1>13, <2>2 DEF Recovery, Restart, RecoverRun, InterruptCut, RecoverNode,
         FinishRecovery, memory
    <3> QED
      BY <1>1, <1>2, <1>3, <3>1
  <2> QED
    BY <2>1, <2>2
<1>14. CASE UNCHANGED vars
  BY <1>1, <1>2, <1>3, <1>14 DEF vars, memory
<1> QED
  BY <1>5, <1>6, <1>7, <1>8, <1>9, <1>10, <1>11, <1>12, <1>13, <1>14 DEF Next

LEMMA LifeInit == Init => LifeInv
<1> SUFFICES ASSUME Init PROVE LifeInv
  OBVIOUS
<1>1. /\ \A p \in Procs : procs[p].pc = "idle"
      /\ \A r \in Runs : runs[r].parent = NoRun
      /\ DOMAIN nodeRuns = {}
      /\ recovery.stale = {} /\ recovery.run = NoRun
  BY IdleType DEF Init, NoRecovery
<1> QED
  BY <1>1 DEF LifeInv, WorkIsStarted, RetryClaims

LEMMA LifeNext == TypeInv /\ TypeInv' /\ Roles /\ LifeInv /\ [Next]_vars => LifeInv'
<1> SUFFICES ASSUME TypeInv, TypeInv', Roles, LifeInv, [Next]_vars PROVE LifeInv'
  OBVIOUS
<1>1. RunsMove
  BY NextMoves DEF LifeInv
<1>2. ProcsFollow /\ RetryClaims'
  BY NextClaims
<1>3. NodeRunsFollow /\ RecoveryFollows
  BY NextNodeRuns, NextRecovery DEF LifeInv
<1>4. WorkIsStarted'
  BY <1>1, <1>2, <1>3, WorkStaysStarted DEF LifeInv
<1> QED
  BY <1>2, <1>4 DEF LifeInv

LEMMA LifeInvariant == Spec => []LifeInv
<1>1. LockInv => Roles
  BY DEF LockInv
<1> QED
  BY <1>1, TypeInvariant, LockInvariant, LifeInit, LifeNext, PTL DEF Spec

-----------------------------------------------------------------------------
(* The theorems. *)

\* A run that has ended keeps its status: whatever a worker, a resuming handler,
\* a cancellation or the recovery still wants to do with the run, each of their
\* writes is conditional on what the document says by then.
THEOREM EndedStay == Spec => EndedRunsStay
<1>1. TypeInv /\ LifeInv /\ [Next]_vars =>
        [\A r \in Runs : Ended(r) => runs'[r].status = runs[r].status]_vars
  BY NextMoves, EndedStays DEF LifeInv
<1> QED
  BY <1>1, TypeInvariant, LifeInvariant, PTL DEF Spec, EndedRunsStay

\* A failed or cancelled run has one child, or one handler about to create it,
\* however many callers ask for its retry.
THEOREM OneRetry == Spec => []OneRetryPerRun
<1>1. TypeInv /\ LifeInv => OneRetryPerRun
  <2> SUFFICES ASSUME TypeInv, LifeInv, NEW r \in Runs,
                      NEW x \in Children(r) \cup Spawning(r), NEW y \in Children(r) \cup Spawning(r)
               PROVE  x = y
    BY DEF OneRetryPerRun
  <2>1. r # NoRun
    BY Disjoint
  <2> QED
    BY <2>1 DEF LifeInv, RetryClaims, Children, Spawning
<1> QED
  BY <1>1, TypeInvariant, LifeInvariant, PTL

\* The engine implements the lifecycle of runs: each of its steps, of workers,
\* handlers, crashes and recovery alike, is one of the lifecycle's or leaves
\* the lifecycle of every run alone.
THEOREM Implements == Spec => ImplementsLifecycle
<1>1. Init => Lifecycle!Init
  BY DEF Init, Lifecycle!Init, WaitingRun
<1>2. TypeInv /\ LifeInv /\ [Next]_vars => [Lifecycle!Next]_(Lifecycle!vars)
  BY NextMoves, MovesRefine DEF LifeInv
<1> QED
  BY <1>1, <1>2, TypeInvariant, LifeInvariant, PTL DEF Spec, ImplementsLifecycle, Lifecycle!Spec
=============================================================================
