------------------------ MODULE WorkflowNodes_proofs ------------------------
(***************************************************************************)
(* The NodeRuns of WorkflowEngine: no node of a run succeeds twice.        *)
(***************************************************************************)
EXTENDS WorkflowEngine_proofs

-----------------------------------------------------------------------------
(* What the steps do to documents, queue and processes. *)

\* The process goes on at c, or it ends.
GoesOn(p, c) ==
  /\ OnlyProc(p)
  /\ procs'[p].pc = c /\ procs'[p].run = procs[p].run /\ procs'[p].nr = procs[p].nr
Ends(p) == OnlyProc(p) /\ procs'[p].pc = "idle"

\* NodeRun i gets status s; the NodeRuns of C are interrupted.
SameNodes ==
  /\ DOMAIN nodeRuns' = DOMAIN nodeRuns
  /\ \A k \in DOMAIN nodeRuns :
       nodeRuns'[k].run = nodeRuns[k].run /\ nodeRuns'[k].node = nodeRuns[k].node
GetsStatus(i, s) ==
  /\ SameNodes
  /\ \A k \in DOMAIN nodeRuns : nodeRuns'[k].status = IF k = i THEN s ELSE nodeRuns[k].status
Interrupts(C) ==
  /\ SameNodes
  /\ \A k \in DOMAIN nodeRuns :
       nodeRuns'[k].status = IF k \in C THEN "interrupted" ELSE nodeRuns[k].status
StatusesStay ==
  SameNodes /\ \A k \in DOMAIN nodeRuns : nodeRuns'[k].status = nodeRuns[k].status

\* A NodeRun of node n is created, with its job.
NewNr == Len(nodeRuns) + 1
Creates(r, n) ==
  /\ NewNr \notin DOMAIN nodeRuns /\ DOMAIN nodeRuns' = DOMAIN nodeRuns \cup {NewNr}
  /\ \A k \in DOMAIN nodeRuns : k < NewNr /\ nodeRuns'[k] = nodeRuns[k]
  /\ nodeRuns'[NewNr].run = r /\ nodeRuns'[NewNr].node = n /\ nodeRuns'[NewNr].status = "queued"
  /\ \E d \in BOOLEAN : queue' = queue \cup {[nr |-> NewNr, delayed |-> d]}

LEMMA Typed ==
  ASSUME TypeInv
  PROVE  /\ procs \in [Procs -> ProcType] /\ nodeRuns \in Seq(NodeRunType)
         /\ locks \subseteq Definitions /\ queue \subseteq JobType
         /\ \A j \in queue : j.nr \in DOMAIN nodeRuns
  BY DEF TypeInv, TypeOK, References

LEMMA GotoGoesOn ==
  ASSUME TypeInv, NEW p \in Procs, NEW c \in PCs, Goto(p, c)
  PROVE  GoesOn(p, c) /\ locks' = locks
  BY Typed, GotoFacts DEF GoesOn

LEMMA ReturnEnds ==
  ASSUME TypeInv, NEW p \in Procs, Return(p)
  PROVE  Ends(p)
  BY Typed, ReturnFacts DEF Ends

\* The process becomes x.
LEMMA BecomesOnly ==
  ASSUME TypeInv, NEW p \in Procs, NEW x, procs' = [procs EXCEPT ![p] = x]
  PROVE  OnlyProc(p) /\ procs'[p] = x
<1>1. procs \in [Procs -> ProcType]
  BY Typed
<1> QED
  BY <1>1 DEF OnlyProc

LEMMA UnchangedStay == nodeRuns' = nodeRuns => StatusesStay
  BY DEF StatusesStay, SameNodes

LEMMA NodeRunBecomesStatus ==
  ASSUME TypeInv, NEW i \in DOMAIN nodeRuns, NEW y, nodeRuns' = [nodeRuns EXCEPT ![i] = y],
         y.run = nodeRuns[i].run, y.node = nodeRuns[i].node
  PROVE  GetsStatus(i, y.status)
<1>1. nodeRuns \in Seq(NodeRunType)
  BY Typed
<1> QED
  BY <1>1 DEF GetsStatus, SameNodes

LEMMA SetGetsStatus ==
  ASSUME TypeInv, NEW i \in DOMAIN nodeRuns, NEW s, SetNodeRun(i, s)
  PROVE  GetsStatus(i, s)
<1> DEFINE y == [nodeRuns[i] EXCEPT !.status = s]
<1>1. nodeRuns[i] \in NodeRunType
  BY Typed
<1>2. y.run = nodeRuns[i].run /\ y.node = nodeRuns[i].node /\ y.status = s
  BY <1>1 DEF NodeRunType
<1>3. nodeRuns' = [nodeRuns EXCEPT ![i] = y]
  BY Zenon DEF SetNodeRun
<1> HIDE DEF y
<1> QED
  BY <1>2, <1>3, NodeRunBecomesStatus

LEMMA WaitsGetsStatus ==
  ASSUME TypeInv, NEW i \in DOMAIN nodeRuns, NEW s, NEW w,
         nodeRuns' = [nodeRuns EXCEPT ![i].status = s, ![i].waitsFor = w]
  PROVE  GetsStatus(i, s)
<1> DEFINE y == [nodeRuns[i] EXCEPT !.status = s, !.waitsFor = w]
<1>1. nodeRuns[i] \in NodeRunType
  BY Typed
<1>2. y.run = nodeRuns[i].run /\ y.node = nodeRuns[i].node /\ y.status = s
  BY <1>1 DEF NodeRunType
<1>3. nodeRuns' = [nodeRuns EXCEPT ![i] = y]
  BY Zenon
<1> HIDE DEF y
<1> QED
  BY <1>2, <1>3, NodeRunBecomesStatus

LEMMA QuestionStatusesStay ==
  ASSUME TypeInv, NEW i \in DOMAIN nodeRuns, NEW q,
         nodeRuns' = [nodeRuns EXCEPT ![i].question = q]
  PROVE  StatusesStay
<1> DEFINE y == [nodeRuns[i] EXCEPT !.question = q]
<1>1. nodeRuns[i] \in NodeRunType
  BY Typed
<1>2. y.run = nodeRuns[i].run /\ y.node = nodeRuns[i].node /\ y.status = nodeRuns[i].status
  BY <1>1 DEF NodeRunType
<1>3. nodeRuns' = [nodeRuns EXCEPT ![i] = y]
  BY Zenon
<1> HIDE DEF y
<1>4. GetsStatus(i, y.status)
  BY <1>2, <1>3, NodeRunBecomesStatus
<1> QED
  BY <1>2, <1>4 DEF GetsStatus, StatusesStay

LEMMA ManyInterrupted ==
  ASSUME TypeInv, NEW C,
         nodeRuns' = [i \in DOMAIN nodeRuns |->
                        IF i \in C THEN [nodeRuns[i] EXCEPT !.status = "interrupted"]
                        ELSE nodeRuns[i]]
  PROVE  Interrupts(C)
<1>1. nodeRuns \in Seq(NodeRunType)
  BY Typed
<1>2. DOMAIN nodeRuns' = DOMAIN nodeRuns
  OBVIOUS
<1>3. ASSUME NEW k \in DOMAIN nodeRuns
      PROVE  /\ nodeRuns'[k].run = nodeRuns[k].run /\ nodeRuns'[k].node = nodeRuns[k].node
             /\ nodeRuns'[k].status = IF k \in C THEN "interrupted" ELSE nodeRuns[k].status
  <2>1. nodeRuns[k] \in NodeRunType
    BY <1>1
  <2> QED
    BY <2>1 DEF NodeRunType
<1> QED
  BY <1>2, <1>3 DEF Interrupts, SameNodes

LEMMA EnqueueCreates ==
  ASSUME TypeInv, NEW r \in Runs, NEW n \in Nodes, NEW a \in Nat, NEW d \in BOOLEAN,
         EnqueueNode(r, n, a, d)
  PROVE  Creates(r, n)
<1> DEFINE x == [run |-> r, node |-> n, attempt |-> a, status |-> "queued",
                 waitsFor |-> "none", question |-> "none"]
<1>1. /\ nodeRuns' = Append(nodeRuns, x)
      /\ queue' = queue \cup {[nr |-> NewNr, delayed |-> d]}
  BY DEF EnqueueNode, NewNr
<1>2. x \in NodeRunType /\ x.run = r /\ x.node = n /\ x.status = "queued"
  BY DEF NodeRunType, NodeRunStatus, OpenNodeRun
<1> HIDE DEF x
<1>3. nodeRuns \in Seq(NodeRunType)
  BY Typed
<1>4. /\ Len(nodeRuns) \in Nat /\ DOMAIN nodeRuns = 1..Len(nodeRuns)
      /\ DOMAIN nodeRuns' = 1..Len(nodeRuns) + 1
      /\ \A k \in DOMAIN nodeRuns : nodeRuns'[k] = nodeRuns[k]
      /\ nodeRuns'[Len(nodeRuns) + 1] = x
  BY <1>1, <1>2, <1>3
<1>5. /\ NewNr \notin DOMAIN nodeRuns /\ DOMAIN nodeRuns' = DOMAIN nodeRuns \cup {NewNr}
      /\ \A k \in DOMAIN nodeRuns : k < NewNr
  BY <1>4 DEF NewNr
<1> QED
  BY <1>1, <1>2, <1>4, <1>5 DEF Creates, NewNr

-----------------------------------------------------------------------------
(* The invariant of the NodeRuns. *)

HolderPCs == {"load", "mark", "count", "exec", "live", "wait", "complete", "context", "resume"}

Holds(p, i) == procs[p].pc \in HolderPCs /\ procs[p].nr = i
HasOwnJob(i) == \E j \in queue : j.nr = i
Held(i) == HasOwnJob(i) \/ i \in recovery.resume \/ \E p \in Procs : Holds(p, i)

\* A process is about to enqueue the node.
Brings(p, r, n) == procs[p].pc = "enqueue" /\ procs[p].run = r /\ n \in procs[p].todo

Of(i, r, n) == nodeRuns[i].run = r /\ nodeRuns[i].node = n
Open(i) == nodeRuns[i].status \in OpenNodeRun

\* Nothing comes of the NodeRun any more.
Spent(i) == nodeRuns[i].status \in {"failed", "interrupted"} /\ ~Held(i)

Touched(r, n) ==
  \/ \E i \in DOMAIN nodeRuns : Of(i, r, n)
  \/ \E p \in Procs : Brings(p, r, n)

\* One at a time has a NodeRun in hand, and nobody while it waits; when it goes
\* on to its successors, it is closed.
OneHolder ==
  /\ \A p, q \in Procs : \A i \in DOMAIN nodeRuns : Holds(p, i) /\ Holds(q, i) => p = q
  /\ \A p \in Procs : \A i \in DOMAIN nodeRuns :
       Holds(p, i) => ~HasOwnJob(i) /\ i \notin recovery.resume
  /\ \A j, k \in queue : j.nr = k.nr => j = k
  /\ \A j \in queue : j.nr \notin recovery.resume
  /\ \A i \in DOMAIN nodeRuns : nodeRuns[i].status = "waiting" => ~Held(i)
  /\ \A p \in Procs : procs[p].pc = "context" => ~Open(procs[p].nr)

\* A node is tried again only when nothing comes of its earlier tries.
OneAttempt ==
  /\ \A i, j \in DOMAIN nodeRuns :
       i < j /\ Of(i, nodeRuns[j].run, nodeRuns[j].node) => Spent(i)
  /\ \A p \in Procs : \A i \in DOMAIN nodeRuns :
       Brings(p, nodeRuns[i].run, nodeRuns[i].node) => Spent(i)
  /\ \A p, q \in Procs : \A r \in Runs, n \in Nodes : Brings(p, r, n) /\ Brings(q, r, n) => p = q

\* A node with something in hand has no successor yet; and a run that has begun
\* below a node never comes to it.
Rank == CHOOSE rank \in [Nodes -> 0..Cardinality(Nodes)] : Precedes(rank)

Downwards ==
  \A e \in Edges :
    /\ \A i \in DOMAIN nodeRuns : nodeRuns[i].node = e.from /\ (Open(i) \/ Held(i)) =>
         ~Touched(nodeRuns[i].run, e.to)
    /\ \A p \in Procs : \A r \in Runs : Brings(p, r, e.from) => ~Touched(r, e.to)
    /\ \A r \in Runs : \A m \in Nodes :
         Touched(r, e.to) /\ ~Touched(r, e.from) /\ Touched(r, m) => Rank[e.from] < Rank[m]

TokensInv == OneHolder /\ OneAttempt /\ Downwards

-----------------------------------------------------------------------------
(* What keeps it: nothing new is taken in hand. *)

\* Processes let go or go on with what they have,
ProcsEbb ==
  \A q \in Procs :
    /\ procs'[q].pc \in HolderPCs => procs[q].pc \in HolderPCs /\ procs'[q].nr = procs[q].nr
    /\ procs'[q].pc = "enqueue" =>
         /\ procs[q].pc = "enqueue" /\ procs'[q].run = procs[q].run
         /\ procs'[q].todo \subseteq procs[q].todo
    /\ procs'[q].pc = "context" =>
         procs[q].pc = "context" \/ nodeRuns'[procs[q].nr].status \notin OpenNodeRun

\* and a NodeRun is interrupted or gets a status from whoever has it in hand.
StatusesEbb ==
  /\ SameNodes
  /\ \A i \in DOMAIN nodeRuns :
       \/ nodeRuns'[i].status \in {nodeRuns[i].status, "interrupted"}
       \/ \E p \in Procs : /\ Holds(p, i) /\ procs[p].pc # "context"
                           /\ nodeRuns'[i].status = "waiting" => procs'[p].pc \notin HolderPCs

Ebbs ==
  /\ ProcsEbb /\ StatusesEbb
  /\ queue' \subseteq queue /\ recovery'.resume \subseteq recovery.resume

LEMMA EbbFacts ==
  ASSUME TypeInv, Ebbs
  PROVE  /\ \A p \in Procs : \A i : Holds(p, i)' => Holds(p, i)
         /\ \A i : HasOwnJob(i)' => HasOwnJob(i)
         /\ \A i : Held(i)' => Held(i)
         /\ \A p \in Procs : \A r, n : Brings(p, r, n)' => Brings(p, r, n)
         /\ \A i \in DOMAIN nodeRuns : \A r, n : Of(i, r, n)' <=> Of(i, r, n)
         /\ \A r, n : Touched(r, n)' => Touched(r, n)
         /\ \A i \in DOMAIN nodeRuns : Open(i)' \/ Held(i)' => Open(i) \/ Held(i)
<1>1. \A p \in Procs : \A i : Holds(p, i)' => Holds(p, i)
  BY DEF Ebbs, ProcsEbb, Holds
<1>2. \A i : HasOwnJob(i)' => HasOwnJob(i)
  BY DEF Ebbs, HasOwnJob
<1>3. \A i : Held(i)' => Held(i)
  BY <1>1, <1>2 DEF Ebbs, Held
<1>4. \A p \in Procs : \A r, n : Brings(p, r, n)' => Brings(p, r, n)
  BY DEF Ebbs, ProcsEbb, Brings
<1>5. \A i \in DOMAIN nodeRuns : \A r, n : Of(i, r, n)' <=> Of(i, r, n)
  BY DEF Ebbs, StatusesEbb, SameNodes, Of
<1>6. \A r, n : Touched(r, n)' => Touched(r, n)
  BY <1>4, <1>5 DEF Ebbs, StatusesEbb, SameNodes, Touched
<1>7. ASSUME NEW i \in DOMAIN nodeRuns, Open(i)' \/ Held(i)' PROVE Open(i) \/ Held(i)
  <2>1. "interrupted" \notin OpenNodeRun
    BY DEF OpenNodeRun
  <2> QED
    BY <1>3, <1>7, <2>1 DEF Ebbs, StatusesEbb, Open, Held
<1> QED
  BY <1>1, <1>2, <1>3, <1>4, <1>5, <1>6, <1>7

LEMMA EbbsHolder ==
  ASSUME TypeInv, Ebbs, OneHolder PROVE OneHolder'
<1>1. DOMAIN nodeRuns' = DOMAIN nodeRuns /\ queue' \subseteq queue
      /\ recovery'.resume \subseteq recovery.resume
  BY DEF Ebbs, StatusesEbb, SameNodes
<1>2. ASSUME NEW i \in DOMAIN nodeRuns, nodeRuns'[i].status = "waiting"
      PROVE  ~Held(i)'
  <2>1. CASE nodeRuns[i].status = "waiting"
    BY <2>1, EbbFacts DEF OneHolder
  <2>2. CASE nodeRuns[i].status # "waiting"
    <3>1. PICK p \in Procs : Holds(p, i) /\ procs'[p].pc \notin HolderPCs
      BY <1>2, <2>2 DEF Ebbs, StatusesEbb
    <3>2. ~Holds(p, i)' /\ \A q \in Procs : Holds(q, i)' => q = p
      BY <3>1, EbbFacts DEF OneHolder, Holds
    <3>3. ~HasOwnJob(i) /\ i \notin recovery.resume
      BY <3>1 DEF OneHolder
    <3> QED
      BY <1>1, <3>2, <3>3, EbbFacts DEF Held
  <2> QED
    BY <2>1, <2>2
<1>3. ASSUME NEW q \in Procs, procs'[q].pc = "context"
      PROVE  ~Open(procs[q].nr)' /\ procs'[q].nr = procs[q].nr
  <2>1. procs[q].pc \in HolderPCs /\ procs'[q].nr = procs[q].nr
    BY <1>3 DEF Ebbs, ProcsEbb, HolderPCs
  <2>2. procs[q].nr \in DOMAIN nodeRuns
    BY <2>1 DEF TypeInv, References, Knows, HolderPCs, NodePCs
  <2>3. CASE procs[q].pc = "context"
    <3>1. ~Open(procs[q].nr) /\ Holds(q, procs[q].nr)
      BY <2>1, <2>3 DEF OneHolder, Holds
    <3>2. \A p \in Procs : Holds(p, procs[q].nr) => p = q
      BY <2>2, <3>1 DEF OneHolder
    <3>3. nodeRuns'[procs[q].nr].status \in {nodeRuns[procs[q].nr].status, "interrupted"}
      BY <2>2, <2>3, <3>2 DEF Ebbs, StatusesEbb
    <3> QED
      BY <2>1, <3>1, <3>3 DEF Open, OpenNodeRun
  <2>4. CASE procs[q].pc # "context"
    BY <1>3, <2>1, <2>4 DEF Ebbs, ProcsEbb, Open
  <2> QED
    BY <2>1, <2>3, <2>4
<1>4. \A p, q \in Procs : \A i \in DOMAIN nodeRuns : Holds(p, i)' /\ Holds(q, i)' => p = q
  BY EbbFacts DEF OneHolder
<1>5. \A p \in Procs : \A i \in DOMAIN nodeRuns :
        Holds(p, i)' => ~HasOwnJob(i)' /\ i \notin recovery'.resume
  BY <1>1, EbbFacts DEF OneHolder
<1>6. \A j, k \in queue' : j.nr = k.nr => j = k
  BY <1>1 DEF OneHolder
<1>7. \A j \in queue' : j.nr \notin recovery'.resume
  BY <1>1 DEF OneHolder
<1>8. \A q \in Procs : procs'[q].pc = "context" => ~Open(procs[q].nr)' /\ procs'[q].nr = procs[q].nr
  BY <1>3
<1>9. \A q \in Procs : procs'[q].pc = "context" => nodeRuns'[procs'[q].nr].status \notin OpenNodeRun
  BY <1>8 DEF Open
<1> QED
  BY <1>1, <1>2, <1>4, <1>5, <1>6, <1>7, <1>9 DEF OneHolder, Open

LEMMA EbbsAttempt ==
  ASSUME TypeInv, Ebbs, OneHolder, OneAttempt PROVE OneAttempt'
<1>1. DOMAIN nodeRuns' = DOMAIN nodeRuns
  BY DEF Ebbs, StatusesEbb, SameNodes
<1>2. ASSUME NEW i \in DOMAIN nodeRuns, Spent(i) PROVE Spent(i)'
  BY <1>2, EbbFacts DEF Ebbs, StatusesEbb, Spent, Held
<1>3. ASSUME NEW i \in DOMAIN nodeRuns, NEW j \in DOMAIN nodeRuns, i < j,
             Of(i, nodeRuns[j].run, nodeRuns[j].node)'
      PROVE  Spent(i)'
  <2>1. Of(i, nodeRuns[j].run, nodeRuns[j].node)
    BY <1>3 DEF Ebbs, StatusesEbb, SameNodes, Of
  <2> QED
    BY <1>2, <1>3, <2>1 DEF OneAttempt
<1>4. ASSUME NEW p \in Procs, NEW i \in DOMAIN nodeRuns,
             Brings(p, nodeRuns[i].run, nodeRuns[i].node)'
      PROVE  Spent(i)'
  <2>1. Brings(p, nodeRuns[i].run, nodeRuns[i].node)
    BY <1>4 DEF Ebbs, ProcsEbb, StatusesEbb, SameNodes, Brings
  <2> QED
    BY <1>2, <2>1 DEF OneAttempt
<1>5. \A p, q \in Procs : \A r \in Runs, n \in Nodes :
        Brings(p, r, n)' /\ Brings(q, r, n)' => p = q
  BY EbbFacts DEF OneAttempt
<1> QED
  BY <1>1, <1>3, <1>4, <1>5 DEF OneAttempt

\* What is no longer touched was about to be enqueued, and has no successor yet.
LEMMA EbbsDownwards ==
  ASSUME TypeInv, Ebbs, Downwards PROVE Downwards'
<1>1. DOMAIN nodeRuns' = DOMAIN nodeRuns
  BY DEF Ebbs, StatusesEbb, SameNodes
<1> SUFFICES ASSUME NEW e \in Edges
             PROVE  /\ \A i \in DOMAIN nodeRuns : nodeRuns'[i].node = e.from /\ (Open(i) \/ Held(i))' =>
                         ~Touched(nodeRuns[i].run, e.to)'
                    /\ \A p \in Procs : \A r \in Runs : Brings(p, r, e.from)' => ~Touched(r, e.to)'
                    /\ \A r \in Runs : \A m \in Nodes :
                         Touched(r, e.to)' /\ ~Touched(r, e.from)' /\ Touched(r, m)'
                           => Rank[e.from] < Rank[m]
  BY <1>1 DEF Downwards
<1>2. ASSUME NEW i \in DOMAIN nodeRuns, nodeRuns'[i].node = e.from, (Open(i) \/ Held(i))'
      PROVE  ~Touched(nodeRuns[i].run, e.to)'
  <2>1. Open(i)' \/ Held(i)'
    BY <1>2
  <2>2. nodeRuns[i].node = e.from /\ (Open(i) \/ Held(i)) /\ nodeRuns'[i].run = nodeRuns[i].run
    BY <1>2, <2>1, EbbFacts DEF Ebbs, StatusesEbb, SameNodes
  <2>3. ~Touched(nodeRuns[i].run, e.to)
    BY <2>2 DEF Downwards
  <2>4. nodeRuns'[i].run \in Runs
    BY <2>2, Typed, NodeRunFacts
  <2> QED
    BY <2>2, <2>3, <2>4, EbbFacts
<1>3. ASSUME NEW p \in Procs, NEW r \in Runs, Brings(p, r, e.from)'
      PROVE  ~Touched(r, e.to)'
  BY <1>3, EbbFacts DEF Downwards
<1>4. ASSUME NEW r \in Runs, NEW m \in Nodes,
             Touched(r, e.to)', ~Touched(r, e.from)', Touched(r, m)'
      PROVE  Rank[e.from] < Rank[m]
  <2>1. Touched(r, e.to) /\ Touched(r, m)
    BY <1>4, EbbFacts
  <2>2. ~Touched(r, e.from)
    <3>1. SUFFICES ASSUME Touched(r, e.from) PROVE FALSE
      OBVIOUS
    <3>2. \A i \in DOMAIN nodeRuns : ~Of(i, r, e.from)
      BY <1>1, <1>4, EbbFacts DEF Touched
    <3>3. \E p \in Procs : Brings(p, r, e.from)
      BY <3>1, <3>2 DEF Touched
    <3> QED
      BY <2>1, <3>3 DEF Downwards
  <2> QED
    BY <2>1, <2>2 DEF Downwards
<1> QED
  BY <1>2, <1>3, <1>4

LEMMA EbbsKeep ==
  ASSUME TypeInv, Ebbs, TokensInv PROVE TokensInv'
  BY EbbsHolder, EbbsAttempt, EbbsDownwards DEF TokensInv
-----------------------------------------------------------------------------
(* What keeps it: a NodeRun is taken in hand, or created. *)

LEMMA HoldersWork ==
  ASSUME TypeInv, NEW p \in Procs, NEW i, Holds(p, i)
  PROVE  i \in DOMAIN nodeRuns /\ nodeRuns[i].run = procs[p].run
  BY DEF Holds, HolderPCs, NodePCs, TypeInv, References, Knows

LEMMA HeldExist ==
  ASSUME TypeInv, NEW i, Held(i) PROVE i \in DOMAIN nodeRuns
<1>1. HasOwnJob(i) => i \in DOMAIN nodeRuns
  BY Typed DEF HasOwnJob
<1>2. recovery.resume \subseteq DOMAIN nodeRuns
  BY DEF TypeInv, References
<1> QED
  BY <1>1, <1>2, HoldersWork DEF Held

\* A job or a waiting NodeRun passes to an idle process; then everybody touches
\* the same nodes.
LEMMA TakenKeeps ==
  ASSUME TypeInv, TokensInv, NEW p \in Procs, NEW i \in DOMAIN nodeRuns, OnlyProc(p),
         procs[p].pc = "idle", procs'[p].pc \in {"load", "resume"}, procs'[p].nr = i,
         SameNodes, \A k \in DOMAIN nodeRuns : k # i => nodeRuns'[k].status = nodeRuns[k].status,
         recovery' = recovery, queue' \subseteq queue,
         \/ \E j \in queue : j.nr = i /\ j \notin queue' /\ nodeRuns'[i].status = nodeRuns[i].status
         \/ nodeRuns[i].status = "waiting" /\ nodeRuns'[i].status = "running"
  PROVE  TokensInv'
<1>1. /\ \A q \in Procs : q # p => procs'[q] = procs[q]
      /\ DOMAIN nodeRuns' = DOMAIN nodeRuns
      /\ OneHolder /\ OneAttempt /\ Downwards
  BY DEF OnlyProc, SameNodes, TokensInv
<1>2. /\ ~HasOwnJob(i)' /\ i \notin recovery.resume /\ \A q \in Procs : ~Holds(q, i)
      /\ nodeRuns'[i].status # "waiting" /\ (Open(i) \/ Held(i)) /\ ~Spent(i)
  <2>1. CASE nodeRuns[i].status = "waiting" /\ nodeRuns'[i].status = "running"
    BY <1>1, <2>1 DEF OneHolder, Held, HasOwnJob, Open, OpenNodeRun, Spent
  <2>2. ASSUME NEW j \in queue, j.nr = i, j \notin queue', nodeRuns'[i].status = nodeRuns[i].status
        PROVE  /\ ~HasOwnJob(i)' /\ i \notin recovery.resume /\ \A q \in Procs : ~Holds(q, i)
               /\ nodeRuns'[i].status # "waiting" /\ (Open(i) \/ Held(i)) /\ ~Spent(i)
    BY <1>1, <2>2 DEF OneHolder, Held, HasOwnJob, Spent
  <2> QED
    BY <2>1, <2>2
<1>3. /\ \A q \in Procs : \A k : Holds(q, k)' => Holds(q, k) \/ (q = p /\ k = i)
      /\ \A k : Held(k)' => Held(k) \/ k = i
      /\ \A q \in Procs : \A r, n : Brings(q, r, n)' <=> Brings(q, r, n)
      /\ \A k \in DOMAIN nodeRuns : \A r, n : Of(k, r, n)' <=> Of(k, r, n)
  <2>1. \A q \in Procs : \A k : Holds(q, k)' => Holds(q, k) \/ (q = p /\ k = i)
    BY <1>1 DEF Holds
  <2>2. \A k : HasOwnJob(k)' => HasOwnJob(k)
    BY DEF HasOwnJob
  <2>3. \A q \in Procs : \A r, n : Brings(q, r, n)' <=> Brings(q, r, n)
    BY <1>1 DEF Brings
  <2>4. \A k \in DOMAIN nodeRuns : \A r, n : Of(k, r, n)' <=> Of(k, r, n)
    BY DEF SameNodes, Of
  <2> QED
    BY <2>1, <2>2, <2>3, <2>4 DEF Held
<1>4. \A r, n : Touched(r, n)' <=> Touched(r, n)
  BY <1>1, <1>3 DEF Touched
<1>5. OneHolder'
  <2>1. \A q, s \in Procs : \A k \in DOMAIN nodeRuns : Holds(q, k)' /\ Holds(s, k)' => q = s
    BY <1>1, <1>2, <1>3 DEF OneHolder
  <2>2. \A q \in Procs : \A k \in DOMAIN nodeRuns :
          Holds(q, k)' => ~HasOwnJob(k)' /\ k \notin recovery.resume
    BY <1>1, <1>2, <1>3 DEF OneHolder, HasOwnJob
  <2>3. \A k \in DOMAIN nodeRuns : nodeRuns'[k].status = "waiting" => ~Held(k)'
    BY <1>1, <1>2, <1>3 DEF OneHolder
  <2>4. ASSUME NEW q \in Procs, procs'[q].pc = "context"
        PROVE  nodeRuns'[procs'[q].nr].status \notin OpenNodeRun
    <3>1. q # p /\ procs'[q] = procs[q] /\ Holds(q, procs[q].nr)
      BY <1>1, <2>4 DEF Holds, HolderPCs
    <3>2. procs[q].nr \in DOMAIN nodeRuns /\ procs[q].nr # i /\ ~Open(procs[q].nr)
      BY <1>1, <1>2, <2>4, <3>1, HoldersWork DEF OneHolder
    <3> QED
      BY <3>1, <3>2 DEF Open
  <2>5. \A q \in Procs : procs'[q].pc = "context" => nodeRuns'[procs'[q].nr].status \notin OpenNodeRun
    BY <2>4
  <2> QED
    BY <1>1, <2>1, <2>2, <2>3, <2>5 DEF OneHolder, Open
<1>6. OneAttempt'
  <2>1. \A k \in DOMAIN nodeRuns : Spent(k) => Spent(k)'
    BY <1>2, <1>3 DEF Spent
  <2>2. ASSUME NEW j \in DOMAIN nodeRuns, NEW k \in DOMAIN nodeRuns, j < k,
               Of(j, nodeRuns[k].run, nodeRuns[k].node)'
        PROVE  Spent(j)'
    <3>1. Of(j, nodeRuns[k].run, nodeRuns[k].node)
      BY <2>2 DEF SameNodes, Of
    <3> QED
      BY <1>1, <2>1, <2>2, <3>1 DEF OneAttempt
  <2>3. ASSUME NEW q \in Procs, NEW k \in DOMAIN nodeRuns,
               Brings(q, nodeRuns[k].run, nodeRuns[k].node)'
        PROVE  Spent(k)'
    <3>1. Brings(q, nodeRuns[k].run, nodeRuns[k].node)
      BY <1>1, <2>3 DEF SameNodes, Brings
    <3> QED
      BY <1>1, <2>1, <3>1 DEF OneAttempt
  <2> QED
    BY <1>1, <1>3, <2>2, <2>3 DEF OneAttempt
<1>7. Downwards'
  <2> SUFFICES ASSUME NEW e \in Edges
               PROVE  /\ \A k \in DOMAIN nodeRuns : nodeRuns'[k].node = e.from /\ (Open(k) \/ Held(k))' =>
                           ~Touched(nodeRuns[k].run, e.to)'
                      /\ \A q \in Procs : \A r \in Runs : Brings(q, r, e.from)' => ~Touched(r, e.to)'
                      /\ \A r \in Runs : \A m \in Nodes :
                           Touched(r, e.to)' /\ ~Touched(r, e.from)' /\ Touched(r, m)'
                             => Rank[e.from] < Rank[m]
    BY <1>1 DEF Downwards
  <2>1. ASSUME NEW k \in DOMAIN nodeRuns, nodeRuns'[k].node = e.from, (Open(k) \/ Held(k))'
        PROVE  ~Touched(nodeRuns[k].run, e.to)'
    <3>1. nodeRuns[k].node = e.from /\ nodeRuns'[k].run = nodeRuns[k].run
      BY <2>1 DEF SameNodes
    <3>2. Open(k) \/ Held(k)
      BY <1>2, <1>3, <2>1 DEF Open
    <3> QED
      BY <1>1, <1>4, <3>1, <3>2 DEF Downwards
  <2> QED
    BY <1>1, <1>3, <1>4, <2>1 DEF Downwards
<1> QED
  BY <1>5, <1>6, <1>7 DEF TokensInv

\* The recovery takes the NodeRuns of a run that nobody works on.
LEMMA RecoveredKeeps ==
  ASSUME TypeInv, TokensInv, UNCHANGED <<procs, nodeRuns, queue>>, recovery.resume = {},
         \A i \in recovery'.resume :
           Open(i) /\ nodeRuns[i].status # "waiting" /\ ~HasOwnJob(i) /\ \A p \in Procs : ~Holds(p, i)
  PROVE  TokensInv'
<1>1. /\ \A p \in Procs : \A i : Holds(p, i)' <=> Holds(p, i)
      /\ \A i : HasOwnJob(i)' <=> HasOwnJob(i)
      /\ \A i : Held(i)' => Held(i) \/ i \in recovery'.resume
      /\ \A i : Open(i)' <=> Open(i)
      /\ \A r, n : Touched(r, n)' <=> Touched(r, n)
      /\ \A p \in Procs : \A r, n : Brings(p, r, n)' <=> Brings(p, r, n)
      /\ \A i : \A r, n : Of(i, r, n)' <=> Of(i, r, n)
  BY DEF Holds, HasOwnJob, Held, Open, Touched, Brings, Of
<1>2. \A i : Spent(i) => Spent(i)'
  BY <1>1 DEF Spent, Open, OpenNodeRun
<1>3. OneHolder'
  <2>1. \A i \in DOMAIN nodeRuns : nodeRuns[i].status = "waiting" => ~Held(i)'
    BY <1>1 DEF TokensInv, OneHolder
  <2>2. \A j \in queue : j.nr \notin recovery'.resume
    BY DEF HasOwnJob
  <2> QED
    BY <1>1, <2>1, <2>2 DEF TokensInv, OneHolder
<1>4. OneAttempt'
  <2>1. \A i, j \in DOMAIN nodeRuns :
          i < j /\ Of(i, nodeRuns[j].run, nodeRuns[j].node) => Spent(i)'
    BY <1>2 DEF TokensInv, OneAttempt
  <2>2. \A p \in Procs : \A i \in DOMAIN nodeRuns :
          Brings(p, nodeRuns[i].run, nodeRuns[i].node) => Spent(i)'
    BY <1>2 DEF TokensInv, OneAttempt
  <2>3. \A i, j : Of(i, nodeRuns[j].run, nodeRuns[j].node)' <=> Of(i, nodeRuns[j].run, nodeRuns[j].node)
    BY DEF Of
  <2>4. \A p \in Procs : \A i : Brings(p, nodeRuns[i].run, nodeRuns[i].node)'
                                  <=> Brings(p, nodeRuns[i].run, nodeRuns[i].node)
    BY DEF Brings
  <2> QED
    BY <1>1, <2>1, <2>2, <2>3, <2>4 DEF TokensInv, OneAttempt
<1>5. Downwards'
  <2>1. \A i : (Open(i) \/ Held(i))' => Open(i) \/ Held(i)
    BY <1>1
  <2>2. ASSUME NEW e \in Edges, NEW i \in DOMAIN nodeRuns, nodeRuns[i].node = e.from,
               (Open(i) \/ Held(i))'
        PROVE  ~Touched(nodeRuns[i].run, e.to)'
    BY <1>1, <2>1, <2>2 DEF TokensInv, Downwards
  <2> QED
    BY <1>1, <2>2 DEF TokensInv, Downwards
<1> QED
  BY <1>3, <1>4, <1>5 DEF TokensInv

\* A NodeRun of node n is created, where nothing comes of the earlier ones.
LEMMA CreatedKeeps ==
  ASSUME TypeInv, TokensInv, NEW r \in Runs, NEW n \in Nodes, Creates(r, n),
         \A q \in Procs : procs'[q].pc \in HolderPCs => procs'[q] = procs[q],
         \A q \in Procs : \A x, m : Brings(q, x, m)' => Brings(q, x, m) /\ ~(x = r /\ m = n),
         \A q \in Procs : \A x, m : Brings(q, x, m) => Brings(q, x, m)' \/ (x = r /\ m = n),
         recovery'.resume \subseteq recovery.resume, Touched(r, n),
         \A i \in DOMAIN nodeRuns : Of(i, r, n) => Spent(i)',
         \A e \in Edges : e.from = n => ~Touched(r, e.to)
  PROVE  TokensInv'
<1>0. PICK new : new = NewNr
  OBVIOUS
<1>1. /\ new \notin DOMAIN nodeRuns /\ DOMAIN nodeRuns' = DOMAIN nodeRuns \cup {new}
      /\ \A k \in DOMAIN nodeRuns : k < new /\ nodeRuns'[k] = nodeRuns[k]
      /\ nodeRuns'[new].run = r /\ nodeRuns'[new].node = n
      /\ nodeRuns'[new].status = "queued"
      /\ OneHolder /\ OneAttempt /\ Downwards
      /\ \A i \in DOMAIN nodeRuns : i \in Nat
      /\ new \in Nat
  BY <1>0, Typed DEF Creates, TokensInv, NewNr
<1>2. PICK d \in BOOLEAN : queue' = queue \cup {[nr |-> new, delayed |-> d]}
  BY <1>0 DEF Creates
<1>3. /\ \A q \in Procs : \A k : Holds(q, k)' => Holds(q, k)
      /\ \A k : HasOwnJob(k)' => HasOwnJob(k) \/ k = new
      /\ \A k \in DOMAIN nodeRuns : Held(k)' => Held(k)
      /\ \A k \in DOMAIN nodeRuns : \A x, m : Of(k, x, m)' <=> Of(k, x, m)
      /\ \A k \in DOMAIN nodeRuns : Open(k)' <=> Open(k)
  <2>1. \A q \in Procs : \A k : Holds(q, k)' => Holds(q, k)
    BY DEF Holds
  <2>2. \A k : HasOwnJob(k)' => HasOwnJob(k) \/ k = new
    BY <1>2 DEF HasOwnJob
  <2>3. \A k \in DOMAIN nodeRuns : Held(k)' => Held(k)
    BY <1>1, <2>1, <2>2 DEF Held
  <2> QED
    BY <1>1, <2>1, <2>2, <2>3 DEF Of, Open
<1>4. \A x, m : Touched(x, m)' <=> Touched(x, m)
  <2>1. \A x, m : Of(new, x, m)' <=> (x = r /\ m = n)
    BY <1>1 DEF Of
  <2>2. \A x, m : Touched(x, m)' => Touched(x, m)
    BY <1>1, <1>3, <2>1 DEF Touched
  <2>3. ASSUME NEW x, NEW m, Touched(x, m) PROVE Touched(x, m)'
    BY <1>1, <1>3, <2>1, <2>3 DEF Touched
  <2> QED
    BY <2>2, <2>3
<1>5. ~ (new \in recovery.resume) /\ \A q \in Procs : ~Holds(q, new)
  BY <1>1, HeldExist DEF Held
<1>6. OneHolder'
  <2>1. \A q, s \in Procs : \A k \in DOMAIN nodeRuns' : Holds(q, k)' /\ Holds(s, k)' => q = s
    BY <1>1, <1>3, <1>5 DEF OneHolder
  <2>2. \A q \in Procs : \A k \in DOMAIN nodeRuns' :
          Holds(q, k)' => ~HasOwnJob(k)' /\ k \notin recovery'.resume
    BY <1>1, <1>3, <1>5 DEF OneHolder
  <2>3. \A j \in queue : j.nr # new
    BY <1>1, Typed
  <2>4. \A j, k \in queue' : j.nr = k.nr => j = k
    BY <1>1, <1>2, <2>3 DEF OneHolder
  <2>5. \A j \in queue' : j.nr \notin recovery'.resume
    BY <1>1, <1>2, <1>5 DEF OneHolder
  <2>6. \A k \in DOMAIN nodeRuns' : nodeRuns'[k].status = "waiting" => ~Held(k)'
    BY <1>1, <1>3 DEF OneHolder
  <2>7. ASSUME NEW q \in Procs, procs'[q].pc = "context"
        PROVE  nodeRuns'[procs'[q].nr].status \notin OpenNodeRun
    <3>1. procs'[q] = procs[q] /\ Holds(q, procs[q].nr)
      BY <2>7 DEF Holds, HolderPCs
    <3>2. procs[q].nr \in DOMAIN nodeRuns /\ ~Open(procs[q].nr)
      BY <1>1, <2>7, <3>1, HoldersWork DEF OneHolder
    <3> QED
      BY <1>1, <3>1, <3>2 DEF Open
  <2> QED
    BY <2>1, <2>2, <2>4, <2>5, <2>6, <2>7 DEF OneHolder, Open
<1>7. OneAttempt'
  <2>1. \A k \in DOMAIN nodeRuns : Spent(k) => Spent(k)'
    BY <1>1, <1>3 DEF Spent
  <2>2. ASSUME NEW j \in DOMAIN nodeRuns', NEW k \in DOMAIN nodeRuns', j < k,
               Of(j, nodeRuns[k].run, nodeRuns[k].node)'
        PROVE  Spent(j)'
    <3>1. j \in DOMAIN nodeRuns
      BY <1>1, <2>2
    <3>2. CASE k = new
      <4>1. Of(j, r, n)
        BY <1>1, <2>2, <3>1, <3>2 DEF Of
      <4> QED
        BY <3>1, <4>1
    <3>3. CASE k # new
      <4>1. k \in DOMAIN nodeRuns /\ Of(j, nodeRuns[k].run, nodeRuns[k].node)
        BY <1>1, <2>2, <3>1, <3>3 DEF Of
      <4> QED
        BY <1>1, <2>1, <2>2, <3>1, <4>1 DEF OneAttempt
    <3> QED
      BY <3>2, <3>3
  <2>3. ASSUME NEW q \in Procs, NEW k \in DOMAIN nodeRuns',
               Brings(q, nodeRuns[k].run, nodeRuns[k].node)'
        PROVE  Spent(k)'
    <3> DEFINE x == nodeRuns'[k].run
               m == nodeRuns'[k].node
    <3>1. procs'[q].pc = "enqueue" /\ procs'[q].run = x /\ m \in procs'[q].todo
      BY <2>3 DEF Brings
    <3> HIDE DEF x, m
    <3>2. Brings(q, x, m) /\ ~(x = r /\ m = n)
      BY <3>1 DEF Brings
    <3>3. k \in DOMAIN nodeRuns /\ x = nodeRuns[k].run /\ m = nodeRuns[k].node
      BY <1>1, <3>2 DEF x, m
    <3> QED
      BY <1>1, <2>1, <3>2, <3>3 DEF OneAttempt
  <2> QED
    BY <1>1, <2>2, <2>3 DEF OneAttempt
<1>8. Downwards'
  <2> SUFFICES ASSUME NEW e \in Edges
               PROVE  /\ \A k \in DOMAIN nodeRuns' : nodeRuns'[k].node = e.from /\ (Open(k) \/ Held(k))' =>
                           ~Touched(nodeRuns[k].run, e.to)'
                      /\ \A q \in Procs : \A x \in Runs : Brings(q, x, e.from)' => ~Touched(x, e.to)'
                      /\ \A x \in Runs : \A m \in Nodes :
                           Touched(x, e.to)' /\ ~Touched(x, e.from)' /\ Touched(x, m)'
                             => Rank[e.from] < Rank[m]
    BY DEF Downwards
  <2>1. ASSUME NEW k \in DOMAIN nodeRuns', nodeRuns'[k].node = e.from, (Open(k) \/ Held(k))'
        PROVE  ~Touched(nodeRuns[k].run, e.to)'
    <3>1. CASE k = new
      <4>1. ~Touched(r, e.to) /\ nodeRuns'[k].run = r
        BY <1>1, <2>1, <3>1
      <4> QED
        BY <1>4, <4>1
    <3>2. CASE k # new
      <4>1. k \in DOMAIN nodeRuns /\ nodeRuns[k].node = e.from /\ nodeRuns'[k].run = nodeRuns[k].run
        BY <1>1, <2>1, <3>2
      <4>2. Open(k)' \/ Held(k)'
        BY <2>1
      <4>3. Open(k) \/ Held(k)
        BY <1>3, <4>1, <4>2
      <4>4. ~Touched(nodeRuns[k].run, e.to)
        BY <1>1, <4>1, <4>3 DEF Downwards
      <4> QED
        BY <1>4, <4>1, <4>4
    <3> QED
      BY <3>1, <3>2
  <2> QED
    BY <1>1, <1>4, <2>1 DEF Downwards
<1> QED
  BY <1>6, <1>7, <1>8 DEF TokensInv
\* Process p turns to enqueueing the nodes S of run r; the NodeRun that it had
\* in hand may have failed.
Turns(p, r, S) ==
  /\ OnlyProc(p) /\ procs[p].pc # "enqueue"
  /\ procs'[p].pc = "enqueue" /\ procs'[p].run = r /\ procs'[p].todo = S
  /\ SameNodes /\ queue' = queue /\ recovery' = recovery
  /\ \A k \in DOMAIN nodeRuns :
       \/ nodeRuns'[k].status = nodeRuns[k].status
       \/ Holds(p, k) /\ nodeRuns'[k].status = "failed"

LEMMA TurnFacts ==
  ASSUME TypeInv, OneHolder, NEW p \in Procs, NEW r \in Runs, NEW S \in SUBSET Nodes,
         Turns(p, r, S)
  PROVE  /\ \A q \in Procs : \A k : Holds(q, k)' <=> Holds(q, k) /\ q # p
         /\ \A k : HasOwnJob(k)' <=> HasOwnJob(k)
         /\ \A k \in DOMAIN nodeRuns : Held(k)' => Held(k) /\ ~Holds(p, k)
         /\ \A q \in Procs : q # p => \A x, m : Brings(q, x, m)' <=> Brings(q, x, m)
         /\ \A x, m : ~Brings(p, x, m) /\ (Brings(p, x, m)' <=> x = r /\ m \in S)
         /\ \A k \in DOMAIN nodeRuns : \A x, m : Of(k, x, m)' <=> Of(k, x, m)
         /\ \A x, m : Touched(x, m)' <=> Touched(x, m) \/ (x = r /\ m \in S)
         /\ \A k \in DOMAIN nodeRuns : Open(k)' => Open(k)
         /\ \A k \in DOMAIN nodeRuns : Spent(k) => Spent(k)'
<1>1. /\ \A q \in Procs : q # p => procs'[q] = procs[q]
      /\ DOMAIN nodeRuns' = DOMAIN nodeRuns
  BY DEF Turns, OnlyProc, SameNodes
<1>2. \A q \in Procs : \A k : Holds(q, k)' <=> Holds(q, k) /\ q # p
  <2>1. \A k : ~Holds(p, k)'
    BY DEF Turns, Holds, HolderPCs
  <2> QED
    BY <1>1, <2>1 DEF Holds
<1>3. \A k : HasOwnJob(k)' <=> HasOwnJob(k)
  BY DEF Turns, HasOwnJob
<1>4. \A k \in DOMAIN nodeRuns : Held(k)' => Held(k) /\ ~Holds(p, k)
  BY <1>2, <1>3 DEF Turns, Held, OneHolder
<1>5. \A q \in Procs : q # p => \A x, m : Brings(q, x, m)' <=> Brings(q, x, m)
  BY <1>1 DEF Brings
<1>6. \A x, m : ~Brings(p, x, m) /\ (Brings(p, x, m)' <=> x = r /\ m \in S)
  BY DEF Turns, Brings
<1>7. \A k \in DOMAIN nodeRuns : \A x, m : Of(k, x, m)' <=> Of(k, x, m)
  BY DEF Turns, SameNodes, Of
<1>8. \A x, m : Touched(x, m)' <=> Touched(x, m) \/ (x = r /\ m \in S)
  BY <1>1, <1>5, <1>6, <1>7 DEF Touched
<1>9. \A k \in DOMAIN nodeRuns : Open(k)' => Open(k)
  BY DEF Turns, Open, OpenNodeRun
<1>10. \A k \in DOMAIN nodeRuns : Spent(k) => Spent(k)'
  BY <1>4 DEF Turns, Spent, Held
<1> QED
  BY <1>2, <1>3, <1>4, <1>5, <1>6, <1>7, <1>8, <1>9, <1>10

LEMMA TurnKeeps ==
  ASSUME TypeInv, TokensInv, NEW p \in Procs, NEW r \in Runs, NEW S \in SUBSET Nodes,
         Turns(p, r, S),
         \A k \in DOMAIN nodeRuns : \A n \in S : Of(k, r, n) => Spent(k)',
         \A q \in Procs : \A n \in S : q # p => ~Brings(q, r, n),
         \A e \in Edges : e.from \in S => ~Touched(r, e.to)',
         \A e \in Edges : e.to \in S =>
           /\ \A k \in DOMAIN nodeRuns : Of(k, r, e.from) => ~(Open(k)' \/ Held(k)')
           /\ \A q \in Procs : ~Brings(q, r, e.from),
         \A e \in Edges : \A m \in Nodes :
           Touched(r, e.to)' /\ ~Touched(r, e.from)' /\ Touched(r, m)' => Rank[e.from] < Rank[m]
  PROVE  TokensInv'
<1>1. /\ \A q \in Procs : q # p => procs'[q] = procs[q]
      /\ DOMAIN nodeRuns' = DOMAIN nodeRuns
      /\ \A k \in DOMAIN nodeRuns :
           nodeRuns'[k].run = nodeRuns[k].run /\ nodeRuns'[k].node = nodeRuns[k].node
      /\ OneHolder /\ OneAttempt /\ Downwards
  BY DEF Turns, OnlyProc, SameNodes, TokensInv
<1>2. /\ \A q \in Procs : \A k : Holds(q, k)' <=> Holds(q, k) /\ q # p
      /\ \A k : HasOwnJob(k)' <=> HasOwnJob(k)
      /\ \A k \in DOMAIN nodeRuns : Held(k)' => Held(k) /\ ~Holds(p, k)
      /\ \A q \in Procs : q # p => \A x, m : Brings(q, x, m)' <=> Brings(q, x, m)
      /\ \A x, m : ~Brings(p, x, m) /\ (Brings(p, x, m)' <=> x = r /\ m \in S)
      /\ \A x, m : Touched(x, m)' <=> Touched(x, m) \/ (x = r /\ m \in S)
      /\ \A k \in DOMAIN nodeRuns : Open(k)' => Open(k)
      /\ \A k \in DOMAIN nodeRuns : Spent(k) => Spent(k)'
  BY <1>1, TurnFacts
<1>3. OneHolder'
  <2>1. ASSUME NEW k \in DOMAIN nodeRuns, nodeRuns'[k].status = "waiting" PROVE ~Held(k)'
    <3>1. nodeRuns[k].status = "waiting"
      BY <2>1 DEF Turns
    <3> QED
      BY <1>1, <1>2, <3>1 DEF OneHolder
  <2>2. ASSUME NEW q \in Procs, procs'[q].pc = "context"
        PROVE  nodeRuns'[procs'[q].nr].status \notin OpenNodeRun
    <3>1. q # p /\ procs'[q] = procs[q] /\ Holds(q, procs[q].nr)
      BY <1>1, <2>2 DEF Turns, Holds, HolderPCs
    <3>2. procs[q].nr \in DOMAIN nodeRuns /\ ~Open(procs[q].nr)
      BY <1>1, <2>2, <3>1, HoldersWork DEF OneHolder
    <3>3. ~Open(procs[q].nr)'
      BY <1>1, <1>2, <3>1, <3>2 DEF Turns, Open, OpenNodeRun
    <3> QED
      BY <3>1, <3>3 DEF Open
  <2>3. \A j, k \in queue' : j.nr = k.nr => j = k
    BY <1>1 DEF Turns, OneHolder
  <2>4. \A j \in queue' : j.nr \notin recovery'.resume
    BY <1>1 DEF Turns, OneHolder
  <2>5. recovery' = recovery
    BY DEF Turns
  <2> QED
    BY <1>1, <1>2, <2>1, <2>2, <2>3, <2>4, <2>5 DEF OneHolder, Open
<1>4. OneAttempt'
  <2>1. ASSUME NEW j \in DOMAIN nodeRuns, NEW k \in DOMAIN nodeRuns, j < k,
               Of(j, nodeRuns[k].run, nodeRuns[k].node)'
        PROVE  Spent(j)'
    <3>1. Of(j, nodeRuns[k].run, nodeRuns[k].node)
      BY <1>1, <2>1 DEF Of
    <3> QED
      BY <1>1, <1>2, <2>1, <3>1 DEF OneAttempt
  <2>2. ASSUME NEW q \in Procs, NEW k \in DOMAIN nodeRuns,
               Brings(q, nodeRuns[k].run, nodeRuns[k].node)'
        PROVE  Spent(k)'
    <3>1. CASE q = p
      <4>1. Of(k, r, nodeRuns[k].node) /\ nodeRuns[k].node \in S
        BY <1>1, <2>2, <3>1 DEF Turns, Brings, Of
      <4> QED
        BY <4>1
    <3>2. CASE q # p
      <4>1. Brings(q, nodeRuns[k].run, nodeRuns[k].node)
        BY <1>1, <2>2, <3>2 DEF Brings
      <4> QED
        BY <1>1, <1>2, <4>1 DEF OneAttempt
    <3> QED
      BY <3>1, <3>2
  <2>3. \A q, s \in Procs : \A x \in Runs, n \in Nodes : Brings(q, x, n)' /\ Brings(s, x, n)' => q = s
    BY <1>1, <1>2 DEF OneAttempt
  <2> QED
    BY <1>1, <2>1, <2>2, <2>3 DEF OneAttempt
<1>5. Downwards'
  <2> SUFFICES ASSUME NEW e \in Edges
               PROVE  /\ \A k \in DOMAIN nodeRuns' : nodeRuns'[k].node = e.from /\ (Open(k) \/ Held(k))' =>
                           ~Touched(nodeRuns[k].run, e.to)'
                      /\ \A q \in Procs : \A x \in Runs : Brings(q, x, e.from)' => ~Touched(x, e.to)'
                      /\ \A x \in Runs : \A m \in Nodes :
                           Touched(x, e.to)' /\ ~Touched(x, e.from)' /\ Touched(x, m)'
                             => Rank[e.from] < Rank[m]
    BY DEF Downwards
  <2>1. ASSUME NEW k \in DOMAIN nodeRuns', nodeRuns'[k].node = e.from, (Open(k) \/ Held(k))'
        PROVE  ~Touched(nodeRuns[k].run, e.to)'
    <3>1. Open(k)' \/ Held(k)'
      BY <2>1
    <3>2. /\ k \in DOMAIN nodeRuns /\ nodeRuns[k].node = e.from /\ nodeRuns'[k].run = nodeRuns[k].run
          /\ (Open(k) \/ Held(k))
      BY <1>1, <1>2, <2>1, <3>1
    <3>3. ~Touched(nodeRuns[k].run, e.to)
      BY <1>1, <3>2 DEF Downwards
    <3>4. ~ (nodeRuns[k].run = r /\ e.to \in S)
      BY <3>1, <3>2 DEF Of
    <3> QED
      BY <1>2, <3>2, <3>3, <3>4
  <2>2. ASSUME NEW q \in Procs, NEW x \in Runs, Brings(q, x, e.from)' PROVE ~Touched(x, e.to)'
    <3>1. CASE q = p
      <4>1. x = r /\ e.from \in S
        BY <1>2, <2>2, <3>1
      <4> QED
        BY <4>1
    <3>2. CASE q # p
      <4>1. Brings(q, x, e.from)
        BY <1>2, <2>2, <3>2
      <4> QED
        BY <1>1, <1>2, <4>1 DEF Downwards
    <3> QED
      BY <3>1, <3>2
  <2>3. ASSUME NEW x \in Runs, NEW m \in Nodes,
               Touched(x, e.to)', ~Touched(x, e.from)', Touched(x, m)'
        PROVE  Rank[e.from] < Rank[m]
    BY <1>1, <1>2, <2>3 DEF Downwards
  <2> QED
    BY <2>1, <2>2, <2>3
<1> QED
  BY <1>3, <1>4, <1>5 DEF TokensInv
-----------------------------------------------------------------------------
(* The steps of the processes, one by one. *)

\* Nothing but the process changes.
LEMMA QuietEbbs ==
  ASSUME TypeInv, NEW p \in Procs, StatusesStay, queue' \subseteq queue,
         recovery' = recovery,
         \/ Ends(p)
         \/ \E c \in PCs \ {"enqueue", "context"} :
              GoesOn(p, c) /\ (c \in HolderPCs => procs[p].pc \in HolderPCs)
  PROVE  Ebbs
<1>1. \A q \in Procs : q # p => procs'[q] = procs[q]
  BY DEF Ends, GoesOn, OnlyProc
<1>2. /\ procs'[p].pc \notin {"enqueue", "context"}
      /\ procs'[p].pc \in HolderPCs => procs[p].pc \in HolderPCs /\ procs'[p].nr = procs[p].nr
  BY DEF Ends, GoesOn, HolderPCs
<1>3. ProcsEbb
  BY <1>1, <1>2 DEF ProcsEbb
<1>4. StatusesEbb
  BY DEF StatusesStay, StatusesEbb
<1> QED
  BY <1>3, <1>4 DEF Ebbs

\* The process gives its NodeRun a status.
LEMMA MarkEbbs ==
  ASSUME TypeInv, NEW p \in Procs, NEW s, procs[p].pc \in HolderPCs \ {"context"},
         GetsStatus(procs[p].nr, s), queue' \subseteq queue, recovery' = recovery,
         NEW c \in PCs \ {"enqueue"}, GoesOn(p, c),
         c = "context" => s \notin OpenNodeRun,
         s = "waiting" => c \notin HolderPCs
  PROVE  Ebbs
<1>1. /\ \A q \in Procs : q # p => procs'[q] = procs[q]
      /\ procs'[p].pc = c /\ procs'[p].nr = procs[p].nr /\ Holds(p, procs[p].nr)
  BY DEF GoesOn, OnlyProc, Holds
<1>2. procs[p].nr \in DOMAIN nodeRuns
  BY <1>1, HoldersWork
<1>3. ProcsEbb
  BY <1>1, <1>2 DEF ProcsEbb, GetsStatus
<1>4. StatusesEbb
  BY <1>1, <1>2 DEF GetsStatus, StatusesEbb
<1> QED
  BY <1>3, <1>4 DEF Ebbs

LEMMA EbbsLoadJob == ASSUME TypeInv, NEW p \in Procs, LoadJob(p) PROVE Ebbs
<1>1. procs[p].pc = "load" /\ StatusesStay /\ queue' = queue /\ recovery' = recovery
  BY UnchangedStay DEF LoadJob, control
<1>2. CASE Goto(p, "interrupt")
  BY <1>1, <1>2, GotoGoesOn, QuietEbbs DEF PCs, HolderPCs
<1>3. CASE Goto(p, "mark")
  BY <1>1, <1>3, GotoGoesOn, QuietEbbs DEF PCs, HolderPCs
<1>4. CASE Return(p)
  BY <1>1, <1>4, ReturnEnds, QuietEbbs
<1>5. CASE procs' = [procs EXCEPT ![p].pc = "complete", ![p].result = "refused"]
  <2> DEFINE x == [procs[p] EXCEPT !.pc = "complete", !.result = "refused"]
  <2>1. x.pc = "complete" /\ x.run = procs[p].run /\ x.nr = procs[p].nr
    BY ProcessFields DEF ProcType
  <2>2. procs' = [procs EXCEPT ![p] = x]
    BY Zenon, <1>5
  <2> HIDE DEF x
  <2>3. GoesOn(p, "complete")
    BY <2>1, <2>2, BecomesOnly DEF GoesOn
  <2> QED
    BY <1>1, <2>3, QuietEbbs DEF PCs, HolderPCs
<1> QED
  BY <1>2, <1>3, <1>4, <1>5 DEF LoadJob, Abandon

LEMMA EbbsMarkRunning == ASSUME TypeInv, NEW p \in Procs, MarkRunning(p) PROVE Ebbs
<1>1. /\ procs[p].pc \in HolderPCs \ {"context"} /\ queue' = queue /\ recovery' = recovery
      /\ procs[p].nr \in DOMAIN nodeRuns
  BY DEF MarkRunning, HolderPCs, control, TypeInv, References, Knows, NodePCs
<1>2. GetsStatus(procs[p].nr, "running") /\ GoesOn(p, "count")
  BY <1>1, SetGetsStatus, GotoGoesOn DEF MarkRunning, PCs
<1> QED
  BY <1>1, <1>2, MarkEbbs DEF PCs

LEMMA EbbsCountExecution == ASSUME TypeInv, NEW p \in Procs, CountExecution(p) PROVE Ebbs
<1>1. procs[p].pc = "count" /\ StatusesStay /\ queue' = queue /\ recovery' = recovery
  BY UnchangedStay DEF CountExecution, control
<1>2. GoesOn(p, "exec")
  BY GotoGoesOn DEF CountExecution, PCs
<1> QED
  BY <1>1, <1>2, QuietEbbs DEF PCs, HolderPCs

LEMMA ExecuteShape ==
  ASSUME TypeInv, NEW p \in Procs, Execute(p)
  PROVE  /\ procs[p].pc = "exec" /\ StatusesStay /\ GoesOn(p, "live")
         /\ procs[p].nr \in DOMAIN nodeRuns /\ procs'[p].result \in Results[NodeOf(p)]
<1>1. procs[p].pc = "exec" /\ procs[p].nr \in DOMAIN nodeRuns
  BY DEF Execute, TypeInv, References, Knows, NodePCs
<1>2. PICK res \in Results[NodeOf(p)] :
        /\ procs' = [procs EXCEPT ![p].pc = "live", ![p].result = res]
        /\ \/ nodeRuns' = [nodeRuns EXCEPT ![procs[p].nr].question = "pending"]
           \/ nodeRuns' = nodeRuns
  BY DEF Execute
<1>3. StatusesStay
  BY <1>1, <1>2, UnchangedStay, QuestionStatusesStay
<1> DEFINE x == [procs[p] EXCEPT !.pc = "live", !.result = res]
<1>4. x.pc = "live" /\ x.run = procs[p].run /\ x.nr = procs[p].nr /\ x.result = res
  BY ProcessFields DEF ProcType
<1>5. procs' = [procs EXCEPT ![p] = x]
  BY Zenon, <1>2
<1> HIDE DEF x
<1>6. GoesOn(p, "live") /\ procs'[p].result = res
  BY <1>4, <1>5, BecomesOnly DEF GoesOn
<1> QED
  BY <1>1, <1>3, <1>6

LEMMA EbbsExecute == ASSUME TypeInv, NEW p \in Procs, Execute(p) PROVE Ebbs
<1>1. queue' = queue /\ recovery' = recovery
  BY DEF Execute, control
<1> QED
  BY <1>1, ExecuteShape, QuietEbbs DEF PCs, HolderPCs

LEMMA EbbsReadLiveStatus == ASSUME TypeInv, NEW p \in Procs, ReadLiveStatus(p) PROVE Ebbs
<1>1. procs[p].pc = "live" /\ StatusesStay /\ queue' = queue /\ recovery' = recovery
  BY UnchangedStay DEF ReadLiveStatus, control
<1>2. \E c \in {"interrupt", "wait", "complete"} : Goto(p, c)
  BY DEF ReadLiveStatus
<1>3. \E c \in {"interrupt", "wait", "complete"} : GoesOn(p, c)
  BY <1>2, GotoGoesOn DEF PCs
<1> QED
  BY <1>1, <1>3, QuietEbbs DEF PCs, HolderPCs

LEMMA EbbsInterruptNodeRun == ASSUME TypeInv, NEW p \in Procs, InterruptNodeRun(p) PROVE Ebbs
<1>1. /\ procs[p].nr \in DOMAIN nodeRuns /\ queue' = queue /\ recovery' = recovery
  BY DEF InterruptNodeRun, control, TypeInv, References, Knows, NodePCs
<1>2. GetsStatus(procs[p].nr, "interrupted") /\ Ends(p)
  BY <1>1, SetGetsStatus, ReturnEnds DEF InterruptNodeRun
<1>3. ProcsEbb
  BY <1>2 DEF Ends, OnlyProc, ProcsEbb, HolderPCs
<1>4. StatusesEbb
  BY <1>2 DEF GetsStatus, StatusesEbb
<1> QED
  BY <1>1, <1>3, <1>4 DEF Ebbs

LEMMA EbbsSaveWaiting == ASSUME TypeInv, NEW p \in Procs, SaveWaiting(p) PROVE Ebbs
<1>1. /\ procs[p].pc \in HolderPCs \ {"context"} /\ queue' = queue /\ recovery' = recovery
      /\ procs[p].nr \in DOMAIN nodeRuns
  BY DEF SaveWaiting, HolderPCs, control, TypeInv, References, Knows, NodePCs
<1>2. GetsStatus(procs[p].nr, "waiting") /\ GoesOn(p, "park")
  BY <1>1, WaitsGetsStatus, GotoGoesOn DEF SaveWaiting, PCs
<1>3. "park" \in PCs \ {"enqueue"} /\ "park" \notin HolderPCs
  BY DEF PCs, HolderPCs
<1> QED
  BY <1>1, <1>2, <1>3, MarkEbbs

LEMMA EbbsParkRun == ASSUME TypeInv, NEW p \in Procs, ParkRun(p) PROVE Ebbs
<1>1. StatusesStay /\ queue' = queue /\ recovery' = recovery
  BY UnchangedStay DEF ParkRun, control
<1>2. GoesOn(p, "interrupt") \/ Ends(p)
  BY GotoGoesOn, ReturnEnds DEF ParkRun, Abandon, PCs
<1> QED
  BY <1>1, <1>2, QuietEbbs DEF PCs, HolderPCs

LEMMA EbbsRunSteps ==
  ASSUME TypeInv, NEW p \in Procs, CountOpen(p) \/ FinishRun(p) \/ FailRun(p)
  PROVE  Ebbs
<1>1. StatusesStay /\ queue' = queue /\ recovery' = recovery
  BY UnchangedStay DEF CountOpen, FinishRun, FailRun, control
<1>2. GoesOn(p, "finish") \/ Ends(p)
  BY GotoGoesOn, ReturnEnds DEF CountOpen, FinishRun, FailRun, PCs
<1> QED
  BY <1>1, <1>2, QuietEbbs DEF PCs, HolderPCs

LEMMA EbbsResumeRun == ASSUME TypeInv, NEW p \in Procs, ResumeRun(p) PROVE Ebbs
<1>1. procs[p].pc = "resume" /\ StatusesStay /\ queue' = queue /\ recovery' = recovery
  BY UnchangedStay DEF ResumeRun, control
<1>2. GoesOn(p, "live") \/ GoesOn(p, "interrupt")
  BY GotoGoesOn DEF ResumeRun, Abandon, PCs
<1> QED
  BY <1>1, <1>2, QuietEbbs DEF PCs, HolderPCs

\* A cancellation closes the open NodeRuns of its run and aborts executors.
LEMMA CloseShape ==
  ASSUME TypeInv, NEW p \in Procs, CloseNodeRuns(p)
  PROVE  /\ procs'[p].pc = "idle"
         /\ \A q \in Procs : q # p =>
              /\ procs'[q].pc = procs[q].pc /\ procs'[q].run = procs[q].run
              /\ procs'[q].nr = procs[q].nr /\ procs'[q].todo = procs[q].todo
              /\ procs'[q].result = procs[q].result
         /\ Interrupts({i \in DOMAIN nodeRuns : nodeRuns[i].run = procs[p].run
                                                /\ nodeRuns[i].status \in OpenNodeRun})
<1>1. procs'[p].pc = "idle"
  BY IdleType DEF CloseNodeRuns
<1>2. ASSUME NEW q \in Procs, q # p
      PROVE  /\ procs'[q].pc = procs[q].pc /\ procs'[q].run = procs[q].run
             /\ procs'[q].nr = procs[q].nr /\ procs'[q].todo = procs[q].todo
             /\ procs'[q].result = procs[q].result
  <2>1. procs'[q] = procs[q] \/ procs'[q] = [procs[q] EXCEPT !.aborted = TRUE]
    BY <1>2 DEF CloseNodeRuns
  <2> QED
    BY <2>1, ProcessFields DEF ProcType
<1> DEFINE C == {i \in DOMAIN nodeRuns : nodeRuns[i].run = procs[p].run
                                         /\ nodeRuns[i].status \in OpenNodeRun}
<1>3. nodeRuns' = [i \in DOMAIN nodeRuns |->
                     IF i \in C THEN [nodeRuns[i] EXCEPT !.status = "interrupted"]
                     ELSE nodeRuns[i]]
  BY DEF CloseNodeRuns
<1> HIDE DEF C
<1>4. Interrupts(C)
  BY <1>3, ManyInterrupted
<1> QED
  BY <1>1, <1>2, <1>4 DEF C

LEMMA EbbsCloseNodeRuns == ASSUME TypeInv, NEW p \in Procs, CloseNodeRuns(p) PROVE Ebbs
<1>1. queue' \subseteq queue /\ recovery' = recovery
  BY DEF CloseNodeRuns, RemoveRun, control
<1> DEFINE C == {i \in DOMAIN nodeRuns : nodeRuns[i].run = procs[p].run
                                         /\ nodeRuns[i].status \in OpenNodeRun}
<1>2. Interrupts(C)
  BY CloseShape
<1> HIDE DEF C
<1>3. StatusesEbb
  BY <1>2 DEF Interrupts, StatusesEbb
<1>4. ProcsEbb
  BY CloseShape DEF ProcsEbb, HolderPCs
<1> QED
  BY <1>1, <1>3, <1>4 DEF Ebbs
\* The NodeRun is tried again, goes on to its successors, or fails the run.
LEMMA NodesComplete ==
  ASSUME TypeInv, TokensInv, NEW p \in Procs, CompleteNodeRun(p) PROVE TokensInv'
<1> DEFINE i == procs[p].nr
           r == procs[p].run
<1>1. /\ procs[p].pc = "complete" /\ Holds(p, i) /\ i \in DOMAIN nodeRuns /\ r \in Runs
      /\ nodeRuns[i].run = r /\ nodeRuns[i].node \in Nodes /\ recovery' = recovery
  <2>1. procs[p].pc = "complete" /\ recovery' = recovery
    BY DEF CompleteNodeRun, control
  <2>2. Holds(p, i)
    BY <2>1 DEF Holds, HolderPCs
  <2> QED
    BY <2>1, <2>2, HoldersWork, Typed, NodeRunFacts
<1>2. GetsStatus(i, Outcome(p))
  BY <1>1, SetGetsStatus DEF CompleteNodeRun
<1>3. CASE Goto(p, "context") /\ queue' = queue
  <2>1. GoesOn(p, "context") /\ Outcome(p) \notin OpenNodeRun
    BY <1>3, GotoGoesOn DEF PCs, Outcome, OpenNodeRun
  <2>2. Ebbs
    <3>1. "context" \in PCs \ {"enqueue"} /\ procs[p].pc \in HolderPCs \ {"context"}
          /\ Outcome(p) # "waiting"
      BY <1>1 DEF PCs, HolderPCs, Outcome
    <3> QED
      BY <1>1, <1>2, <1>3, <2>1, <3>1, MarkEbbs
  <2> QED
    BY <2>2, EbbsKeep
<1>4. CASE Goto(p, "fail") /\ RemoveRun(r)
  <2>1. GoesOn(p, "fail") /\ queue' \subseteq queue
    BY <1>4, GotoGoesOn DEF PCs, RemoveRun
  <2>2. Ebbs
    <3>1. "fail" \in PCs \ {"enqueue"} /\ procs[p].pc \in HolderPCs \ {"context"}
          /\ Outcome(p) # "waiting"
      BY <1>1 DEF PCs, HolderPCs, Outcome
    <3> QED
      BY <1>1, <1>2, <2>1, <3>1, MarkEbbs
  <2> QED
    BY <2>2, EbbsKeep
<1>5. CASE /\ Retries(p) /\ queue' = queue
           /\ procs' = [procs EXCEPT ![p].pc = "enqueue", ![p].result = "retry",
                                     ![p].todo = {NodeOf(p)},
                                     ![p].attempt = nodeRuns[procs[p].nr].attempt + 1]
  <2> DEFINE n == nodeRuns[i].node
             x == [procs[p] EXCEPT !.pc = "enqueue", !.result = "retry", !.todo = {NodeOf(p)},
                                   !.attempt = nodeRuns[procs[p].nr].attempt + 1]
  <2>1. x.pc = "enqueue" /\ x.run = r /\ x.todo = {n}
    BY ProcessFields DEF ProcType, NodeOf
  <2>2. procs' = [procs EXCEPT ![p] = x]
    BY Zenon, <1>5
  <2>3. Outcome(p) = "failed"
    BY <1>5 DEF Retries, Outcome, Branches
  <2>4. PICK j : j = i
    OBVIOUS
  <2>5. PICK m : m = n
    OBVIOUS
  <2>6. PICK s : s = r
    OBVIOUS
  <2>7. procs[p].pc = "complete" /\ Holds(p, j) /\ j \in DOMAIN nodeRuns /\ s \in Runs
        /\ nodeRuns[j].run = s /\ nodeRuns[j].node = m /\ m \in Nodes
    BY <1>1, <2>4, <2>5, <2>6
  <2>8. SameNodes /\ \A k \in DOMAIN nodeRuns :
          nodeRuns'[k].status = IF k = j THEN "failed" ELSE nodeRuns[k].status
    BY <1>2, <2>3, <2>4 DEF GetsStatus
  <2> HIDE DEF x
  <2>9. Turns(p, s, {m})
    BY <1>1, <1>5, <2>1, <2>2, <2>5, <2>6, <2>7, <2>8, BecomesOnly DEF Turns
  <2> HIDE DEF i, r, n
  <2>10. /\ OneHolder /\ OneAttempt /\ Downwards
         /\ Of(j, s, m) /\ Held(j) /\ ~Spent(j)
    BY <2>7 DEF TokensInv, Of, Held, Spent
  <2>11. /\ ~Held(j)' /\ Spent(j)'
         /\ \A k \in DOMAIN nodeRuns : Spent(k) => Spent(k)'
         /\ \A x1, m1 : Touched(x1, m1)' <=> Touched(x1, m1)
         /\ \A k \in DOMAIN nodeRuns : Open(k)' \/ Held(k)' => k # j /\ (Open(k) \/ Held(k))
    <3>1. {m} \in SUBSET Nodes
      BY <2>7
    <3>2. Touched(s, m)
      BY <2>7, <2>10 DEF Touched
    <3>3. ~Held(j)'
      BY <2>7, <2>9, <2>10, <3>1, TurnFacts
    <3>4. Spent(j)'
      BY <2>7, <2>8, <3>3 DEF Spent
    <3>5. ~Open(j)'
      BY <2>7, <2>8 DEF Open, OpenNodeRun
    <3> QED
      BY <2>7, <2>9, <2>10, <3>1, <3>2, <3>3, <3>4, <3>5, TurnFacts
  <2>12. \A k \in DOMAIN nodeRuns : Of(k, s, m) => Spent(k)'
    <3>1. \A k \in DOMAIN nodeRuns : Of(k, s, m) /\ k < j => Spent(k)
      BY <2>7, <2>10 DEF OneAttempt
    <3>2. \A k \in DOMAIN nodeRuns : Of(k, s, m) => ~ (j < k)
      BY <2>7, <2>10 DEF OneAttempt, Of
    <3>3. \A k \in DOMAIN nodeRuns : k \in Nat
      BY Typed
    <3> QED
      BY <2>7, <2>11, <3>1, <3>2, <3>3
  <2>13. \A q \in Procs : ~Brings(q, s, m)
    BY <2>7, <2>10 DEF OneAttempt
  <2>14. \A e \in Edges : e.from = m => ~Touched(s, e.to)'
    BY <2>7, <2>10, <2>11 DEF Downwards
  <2>15. \A e \in Edges : e.to = m =>
           /\ \A k \in DOMAIN nodeRuns : Of(k, s, e.from) => ~(Open(k)' \/ Held(k)')
           /\ \A q \in Procs : ~Brings(q, s, e.from)
    <3>1. Touched(s, m)
      BY <2>7, <2>10 DEF Touched
    <3>2. \A e \in Edges : e.to = m =>
            \A k \in DOMAIN nodeRuns : Of(k, s, e.from) => ~(Open(k) \/ Held(k))
      BY <2>10, <3>1 DEF Downwards, Of
    <3>3. \A e \in Edges : e.to = m => \A q \in Procs : ~Brings(q, s, e.from)
      BY <2>7, <2>10, <3>1 DEF Downwards
    <3> QED
      BY <2>11, <3>2, <3>3
  <2>16. \A e \in Edges : \A n1 \in Nodes :
           Touched(s, e.to)' /\ ~Touched(s, e.from)' /\ Touched(s, n1)' => Rank[e.from] < Rank[n1]
    BY <2>7, <2>10, <2>11 DEF Downwards
  <2> QED
    BY <2>7, <2>9, <2>12, <2>13, <2>14, <2>15, <2>16, TurnKeeps
<1> QED
  BY <1>3, <1>4, <1>5 DEF CompleteNodeRun
LEMMA Ranked ==
  ASSUME Tree
  PROVE  /\ \A n \in Nodes : Rank[n] \in Int
         /\ \A e \in Edges : e.from \in Nodes /\ e.to \in Nodes /\ Rank[e.from] < Rank[e.to]
<1>1. \E rank \in [Nodes -> 0..Cardinality(Nodes)] : Precedes(rank)
  BY DEF Tree
<1>2. Rank \in [Nodes -> 0..Cardinality(Nodes)] /\ Precedes(Rank)
  BY Zenon, <1>1 DEF Rank
<1>3. 0..Cardinality(Nodes) \subseteq Int
  OBVIOUS
<1>4. \A e \in Edges : e.from \in Nodes /\ e.to \in Nodes
  BY ConstantsAssumption
<1> QED
  BY <1>2, <1>3, <1>4 DEF Precedes

\* A NodeRun that is closed hands over to successors of its node.
LEMMA SpreadKeeps ==
  ASSUME TypeInv, TokensInv, Tree, NEW p \in Procs, NEW i \in DOMAIN nodeRuns,
         NEW r \in Runs, NEW S \in SUBSET Nodes,
         procs[p].pc = "context", procs[p].nr = i, nodeRuns[i].run = r, nodeRuns' = nodeRuns,
         Turns(p, r, S), \A m \in S : \E d \in Edges : d.from = nodeRuns[i].node /\ d.to = m
  PROVE  TokensInv'
<1> DEFINE n == nodeRuns[i].node
<1>1. /\ OneHolder /\ OneAttempt /\ Downwards /\ n \in Nodes
      /\ Holds(p, i) /\ Held(i) /\ ~Open(i) /\ ~Spent(i) /\ Of(i, r, n) /\ Touched(r, n)
  BY Typed, NodeRunFacts DEF TokensInv, OneHolder, Holds, HolderPCs, Held, Spent, Of, Touched
<1>2. \A m \in S : ~Touched(r, m)
  BY <1>1 DEF Downwards
<1>3. \A x, m : Touched(x, m)' <=> Touched(x, m) \/ (x = r /\ m \in S)
  BY <1>1, TurnFacts
<1>4. \A k \in DOMAIN nodeRuns : Of(k, r, n) /\ (Open(k) \/ Held(k)) => k = i
  <2>1. \A k \in DOMAIN nodeRuns : Of(k, r, n) /\ k < i => Spent(k)
    BY <1>1 DEF OneAttempt
  <2>2. \A k \in DOMAIN nodeRuns : Of(k, r, n) => ~ (i < k)
    BY <1>1 DEF OneAttempt, Of
  <2>3. \A k \in DOMAIN nodeRuns : k \in Nat
    BY Typed
  <2>4. \A k \in DOMAIN nodeRuns : Spent(k) => ~Open(k) /\ ~Held(k)
    BY DEF Spent, Open, OpenNodeRun
  <2> QED
    BY <2>1, <2>2, <2>3, <2>4
<1>5. \A q \in Procs : ~Brings(q, r, n)
  BY <1>1 DEF OneAttempt
<1>6. n \notin S
  BY <1>1, <1>2
<1>7. \A k \in DOMAIN nodeRuns : Open(k)' \/ Held(k)' => k # i /\ (Open(k) \/ Held(k))
  BY <1>1, TurnFacts DEF Open
<1>8. \A k \in DOMAIN nodeRuns : \A m \in S : Of(k, r, m) => Spent(k)'
  BY <1>2 DEF Touched
<1>9. \A q \in Procs : \A m \in S : q # p => ~Brings(q, r, m)
  BY <1>2 DEF Touched
<1>10. ASSUME NEW e \in Edges, e.from \in S PROVE ~Touched(r, e.to)'
  <2>1. PICK d \in Edges : d.from = n /\ d.to = e.from
    BY <1>10
  <2>2. /\ Rank[n] < Rank[e.from] /\ Rank[n] \in Int /\ Rank[e.from] \in Int
        /\ Rank[e.from] < Rank[e.to] /\ e.to \in Nodes
    BY <1>1, <2>1, Ranked
  <2>3. ~Touched(r, e.to)
    BY <1>1, <1>2, <1>10, <2>2 DEF Downwards
  <2>4. e.to \notin S
    <3>1. SUFFICES ASSUME e.to \in S PROVE FALSE
      OBVIOUS
    <3>2. PICK f \in Edges : f.from = n /\ f.to = e.to
      BY <3>1
    <3>3. f = e
      BY <3>2 DEF Tree
    <3> QED
      BY <1>6, <1>10, <3>2, <3>3
  <2> QED
    BY <1>3, <2>3, <2>4
<1>11. ASSUME NEW e \in Edges, e.to \in S
       PROVE  /\ \A k \in DOMAIN nodeRuns : Of(k, r, e.from) => ~(Open(k)' \/ Held(k)')
              /\ \A q \in Procs : ~Brings(q, r, e.from)
  <2>1. PICK d \in Edges : d.from = n /\ d.to = e.to
    BY <1>11
  <2>2. e.from = n
    BY <2>1 DEF Tree
  <2> QED
    BY <1>4, <1>5, <1>7, <2>2
<1>12. ASSUME NEW e \in Edges, NEW m \in Nodes,
              Touched(r, e.to)', ~Touched(r, e.from)', Touched(r, m)'
       PROVE  Rank[e.from] < Rank[m]
  <2>1. ~Touched(r, e.from) /\ e.from # n
    BY <1>1, <1>3, <1>12
  <2>2. Touched(r, e.to)
    <3>1. SUFFICES ASSUME e.to \in S PROVE FALSE
      BY <1>3, <1>12
    <3>2. PICK d \in Edges : d.from = n /\ d.to = e.to
      BY <3>1
    <3> QED
      BY <2>1, <3>2 DEF Tree
  <2>3. Rank[e.from] < Rank[n]
    BY <1>1, <2>1, <2>2 DEF Downwards
  <2>4. CASE Touched(r, m)
    BY <1>1, <2>1, <2>2, <2>4 DEF Downwards
  <2>5. CASE m \in S
    <3>1. PICK d \in Edges : d.from = n /\ d.to = m
      BY <2>5
    <3>2. Rank[n] < Rank[m] /\ Rank[n] \in Int /\ Rank[m] \in Int /\ Rank[e.from] \in Int
      BY <1>1, <3>1, Ranked
    <3> QED
      BY <2>3, <3>2
  <2> QED
    BY <1>3, <1>12, <2>4, <2>5
<1> QED
  BY <1>8, <1>9, <1>10, <1>11, <1>12, TurnKeeps

LEMMA NodesContext ==
  ASSUME TypeInv, TokensInv, Tree, NEW p \in Procs, UpdateContext(p) PROVE TokensInv'
<1> DEFINE n == NodeOf(p)
           succs == IF procs[p].result \in Branches THEN NextNodes(n, procs[p].result)
                                                    ELSE FailureSuccessors(n)
           x == [procs[p] EXCEPT !.todo = succs, !.attempt = 1,
                                 !.pc = IF succs = {} THEN "open" ELSE "enqueue"]
<1>1. /\ procs[p].pc = "context" /\ nodeRuns' = nodeRuns /\ queue' = queue /\ recovery' = recovery
      /\ procs[p].nr \in DOMAIN nodeRuns /\ procs[p].run \in Runs
      /\ nodeRuns[procs[p].nr].run = procs[p].run
  BY DEF UpdateContext, control, TypeInv, References, Knows, NodePCs
<1>2. \/ procs' = [procs EXCEPT ![p] = x]
      \/ Return(p)
  BY Zenon DEF UpdateContext
<1>3. succs \subseteq Nodes
  BY SuccessorsAreNodes
<1>4. \A m \in succs : \E d \in Edges : d.from = n /\ d.to = m
  BY DEF NextNodes, FailureSuccessors
<1> HIDE DEF succs
<1>5. x.pc \in {"open", "enqueue"} /\ x.run = procs[p].run /\ x.nr = procs[p].nr /\ x.todo = succs
  BY ProcessFields DEF ProcType
<1> HIDE DEF x
<1>6. CASE Return(p)
  BY <1>1, <1>6, ReturnEnds, UnchangedStay, QuietEbbs, EbbsKeep
<1>7. CASE procs' = [procs EXCEPT ![p] = x] /\ x.pc = "open"
  <2>1. GoesOn(p, "open")
    BY <1>5, <1>7, BecomesOnly DEF GoesOn
  <2>2. Ebbs
    BY <1>1, <2>1, UnchangedStay, QuietEbbs DEF PCs, HolderPCs
  <2> QED
    BY <2>2, EbbsKeep
<1>8. CASE procs' = [procs EXCEPT ![p] = x] /\ x.pc = "enqueue"
  <2>1. Turns(p, procs[p].run, succs)
    BY <1>1, <1>5, <1>8, BecomesOnly, UnchangedStay DEF Turns, StatusesStay
  <2> QED
    BY <1>1, <1>3, <1>4, <2>1, SpreadKeeps DEF NodeOf
<1> QED
  BY <1>2, <1>5, <1>6, <1>7, <1>8

LEMMA NodesEnqueue ==
  ASSUME TypeInv, TokensInv, NEW p \in Procs, EnqueueNext(p) PROVE TokensInv'
<1>1. procs[p].pc = "enqueue" /\ procs[p].run \in Runs /\ recovery' = recovery
  BY DEF EnqueueNext, control, TypeInv, References, Knows
<1>2. PICK n \in procs[p].todo :
        /\ EnqueueNode(procs[p].run, n, procs[p].attempt, procs[p].result = "retry")
        /\ \/ procs' = [procs EXCEPT ![p].todo = @ \ {n}]
           \/ procs[p].todo = {n} /\ Return(p)
           \/ procs[p].todo = {n} /\ procs' = [procs EXCEPT ![p].todo = {}, ![p].pc = "open"]
  BY DEF EnqueueNext
<1>3. procs[p].attempt \in Nat /\ n \in Nodes /\ procs[p].todo \subseteq Nodes
  BY ProcessFields DEF ProcType
<1>4. PICK r : r = procs[p].run
  OBVIOUS
<1>5. Creates(r, n)
  BY <1>1, <1>2, <1>3, <1>4, EnqueueCreates
<1>6. /\ OnlyProc(p) /\ procs'[p].pc \notin HolderPCs
      /\ procs'[p].pc = "enqueue" => procs'[p].run = r /\ procs'[p].todo = procs[p].todo \ {n}
      /\ procs'[p].pc # "enqueue" => procs[p].todo = {n}
  <2> DEFINE x == [procs[p] EXCEPT !.todo = @ \ {n}]
             y == [procs[p] EXCEPT !.todo = {}, !.pc = "open"]
  <2>1. /\ x.pc = "enqueue" /\ x.run = r /\ x.todo = procs[p].todo \ {n}
        /\ y.pc = "open"
    BY <1>1, <1>4, ProcessFields DEF ProcType
  <2>2. \/ procs' = [procs EXCEPT ![p] = x]
        \/ procs[p].todo = {n} /\ Return(p)
        \/ procs[p].todo = {n} /\ procs' = [procs EXCEPT ![p] = y]
    BY Zenon, <1>2
  <2> HIDE DEF x, y
  <2>3. CASE procs' = [procs EXCEPT ![p] = x]
    BY <2>1, <2>3, BecomesOnly DEF HolderPCs
  <2>4. CASE procs[p].todo = {n} /\ Return(p)
    BY <2>4, ReturnEnds DEF Ends, HolderPCs
  <2>5. CASE procs[p].todo = {n} /\ procs' = [procs EXCEPT ![p] = y]
    BY <2>1, <2>5, BecomesOnly DEF HolderPCs
  <2> QED
    BY <2>2, <2>3, <2>4, <2>5
<1>7. \A q \in Procs : procs'[q].pc \in HolderPCs => procs'[q] = procs[q]
  BY <1>6 DEF OnlyProc
<1>8. Brings(p, r, n) /\ Touched(r, n)
  BY <1>1, <1>4 DEF Brings, Touched
<1>9. OneHolder /\ OneAttempt /\ Downwards
  BY DEF TokensInv
<1>10. ASSUME NEW q \in Procs, NEW x, NEW m, Brings(q, x, m)'
       PROVE  Brings(q, x, m) /\ ~(x = r /\ m = n)
  <2>1. CASE q = p
    BY <1>1, <1>4, <1>6, <1>10, <2>1 DEF Brings
  <2>2. CASE q # p
    BY <1>1, <1>3, <1>4, <1>6, <1>8, <1>9, <1>10, <2>2 DEF OnlyProc, Brings, OneAttempt
  <2> QED
    BY <2>1, <2>2
<1>11. \A q \in Procs : \A x, m : Brings(q, x, m) => Brings(q, x, m)' \/ (x = r /\ m = n)
  BY <1>1, <1>4, <1>6 DEF OnlyProc, Brings
<1>12. ASSUME NEW i \in DOMAIN nodeRuns, Of(i, r, n) PROVE Spent(i)'
  <2>1. Spent(i)
    BY <1>8, <1>9, <1>12 DEF OneAttempt, Of
  <2>2. i # NewNr /\ nodeRuns'[i] = nodeRuns[i] /\ ~Held(i)
    BY <1>5, <2>1 DEF Creates, Spent
  <2>3. ~HasOwnJob(i)'
    BY <1>5, <2>2 DEF Creates, Held, HasOwnJob
  <2>4. \A q \in Procs : ~Holds(q, i)'
    BY <1>7, <2>2 DEF Held, Holds
  <2> QED
    BY <1>1, <2>1, <2>2, <2>3, <2>4 DEF Spent, Held
<1>13. \A e \in Edges : e.from = n => ~Touched(r, e.to)
  BY <1>1, <1>4, <1>8, <1>9 DEF Downwards
<1>14. r \in Runs
  BY <1>1, <1>4
<1> QED
  BY <1>1, <1>3, <1>5, <1>7, <1>8, <1>10, <1>11, <1>12, <1>13, <1>14, CreatedKeeps
-----------------------------------------------------------------------------
(* The runs that begin, and the other steps of the system. *)

LEMMA Untouched ==
  ASSUME TypeInv, WorkIsStarted, NEW r \in Runs, ~Started(r)
  PROVE  \A n : ~Touched(r, n)
  BY DEF WorkIsStarted, Touched, Of, Brings

LEMMA NewTurnKeeps ==
  ASSUME TypeInv, TokensInv, WorkIsStarted, Tree, NEW p \in Procs, NEW r \in Runs, ~Started(r),
         NEW S \in SUBSET Nodes, Turns(p, r, S), nodeRuns' = nodeRuns,
         S = Triggers \/ \E n \in Nodes : S = {n}
  PROVE  TokensInv'
<1>1. \A n : ~Touched(r, n)
  BY Untouched
<1>2. \A x, m : Touched(x, m)' <=> Touched(x, m) \/ (x = r /\ m \in S)
  BY TurnFacts DEF TokensInv
<1>3. \A e \in Edges : e.to \in S => e.from \notin S /\ \A m \in S : Rank[e.from] < Rank[m]
  <2>1. CASE S = Triggers
    BY <2>1 DEF Tree
  <2>2. ASSUME NEW n \in Nodes, S = {n}
        PROVE  \A e \in Edges : e.to \in S => e.from \notin S /\ \A m \in S : Rank[e.from] < Rank[m]
    <3> SUFFICES ASSUME NEW e \in Edges, e.to = n PROVE e.from # n /\ Rank[e.from] < Rank[n]
      BY <2>2
    <3>1. Rank[e.from] < Rank[n] /\ Rank[n] \in Int
      BY Ranked
    <3> QED
      BY <3>1
  <2> QED
    BY <2>1, <2>2
<1>4. \A k \in DOMAIN nodeRuns : \A n : ~Of(k, r, n)
  BY <1>1 DEF Touched
<1>5. \A q \in Procs : \A n : ~Brings(q, r, n)
  BY <1>1 DEF Touched
<1> QED
  BY <1>1, <1>2, <1>3, <1>4, <1>5, TurnKeeps

LEMMA NodesRunQueued ==
  ASSUME TypeInv, TokensInv, WorkIsStarted, Tree, NEW h \in Handlers, NEW r \in Runs, NEW o,
         HandleRunQueued(h, r, o)
  PROVE  TokensInv'
<1> DEFINE x == [Idle EXCEPT !.pc = IF Triggers = {} THEN "fail" ELSE "enqueue",
                             !.run = r, !.result = "trigger", !.todo = Triggers]
<1>1. /\ procs[h].pc = "idle" /\ nodeRuns' = nodeRuns /\ queue' = queue /\ recovery' = recovery
      /\ h \in Procs
  BY HandlersAreProcs DEF HandleRunQueued, control
<1>2. \/ UNCHANGED procs
      \/ runs[r].status = "queued" /\ procs' = [procs EXCEPT ![h] = x]
  BY Zenon DEF HandleRunQueued, Begin
<1>3. x.pc \in {"fail", "enqueue"} /\ x.run = r /\ x.todo = Triggers
  BY DEF Idle
<1> HIDE DEF x
<1>4. StatusesStay /\ StatusesEbb
  BY <1>1, UnchangedStay DEF StatusesStay, StatusesEbb
<1>5. CASE UNCHANGED procs
  <2>1. ProcsEbb
    BY <1>5 DEF ProcsEbb
  <2> QED
    BY <1>1, <1>4, <2>1, EbbsKeep DEF Ebbs
<1>6. CASE procs' = [procs EXCEPT ![h] = x] /\ x.pc = "fail"
  <2>1. ProcsEbb
    BY <1>1, <1>6, BecomesOnly DEF OnlyProc, ProcsEbb, HolderPCs
  <2> QED
    BY <1>1, <1>4, <2>1, EbbsKeep DEF Ebbs
<1>7. CASE runs[r].status = "queued" /\ procs' = [procs EXCEPT ![h] = x] /\ x.pc = "enqueue"
  <2>1. Turns(h, r, Triggers)
    BY <1>1, <1>3, <1>4, <1>7, BecomesOnly DEF Turns, StatusesStay
  <2>2. ~Started(r) /\ Triggers \in SUBSET Nodes
    BY <1>7, Graph DEF Started
  <2> QED
    BY <1>1, <2>1, <2>2, NewTurnKeeps
<1> QED
  BY <1>2, <1>3, <1>5, <1>6, <1>7

LEMMA NodesSpawn ==
  ASSUME TypeInv, TokensInv, WorkIsStarted, Tree, NEW p \in Procs, SpawnRetry(p)
  PROVE  TokensInv'
<1>1. /\ procs[p].pc = "spawn" /\ nodeRuns' = nodeRuns /\ queue' = queue /\ recovery' = recovery
      /\ procs[p].run \in Runs
  BY DEF SpawnRetry, control, TypeInv, References, Knows
<1>2. CASE Return(p)
  BY <1>1, <1>2, ReturnEnds, UnchangedStay, QuietEbbs, EbbsKeep
<1>3. ASSUME NEW c \in Runs, NEW n \in RetryStarts(procs[p].run), runs[c].status = "absent",
             procs' = [procs EXCEPT ![p].pc = "enqueue", ![p].run = c,
                                    ![p].result = "spawn", ![p].todo = {n}]
      PROVE  TokensInv'
  <2> DEFINE x == [procs[p] EXCEPT !.pc = "enqueue", !.run = c, !.result = "spawn", !.todo = {n}]
  <2>1. x.pc = "enqueue" /\ x.run = c /\ x.todo = {n}
    BY ProcessFields DEF ProcType
  <2>2. procs' = [procs EXCEPT ![p] = x]
    BY Zenon, <1>3
  <2> HIDE DEF x
  <2>3. Turns(p, c, {n})
    BY <1>1, <2>1, <2>2, BecomesOnly, UnchangedStay DEF Turns, StatusesStay
  <2>4. ~Started(c) /\ n \in Nodes
    BY <1>1, <1>3, Typed, RetryStartsAreNodes DEF Started
  <2> QED
    BY <1>1, <2>3, <2>4, NewTurnKeeps
<1> QED
  BY <1>2, <1>3 DEF SpawnRetry

LEMMA NodesDispatch ==
  ASSUME TypeInv, TokensInv, NEW w \in Workers, DispatchJob(w) PROVE TokensInv'
<1>1. PICK j \in queue :
        /\ queue' = queue \ {j} /\ procs[w].pc = "idle"
        /\ procs' = [procs EXCEPT ![w] =
             [Idle EXCEPT !.pc = "load", !.nr = j.nr, !.run = nodeRuns[j.nr].run]]
  BY Zenon DEF DispatchJob, Begin
<1> DEFINE x == [Idle EXCEPT !.pc = "load", !.nr = j.nr, !.run = nodeRuns[j.nr].run]
<1>2. x.pc = "load" /\ x.nr = j.nr
  BY DEF Idle
<1>3. procs' = [procs EXCEPT ![w] = x] /\ w \in Procs
  BY <1>1 DEF Procs
<1>4. j.nr \in DOMAIN nodeRuns /\ nodeRuns' = nodeRuns /\ recovery' = recovery
  BY DEF TypeInv, References, DispatchJob, control
<1> HIDE DEF x
<1>5. OnlyProc(w) /\ procs'[w].pc = "load" /\ procs'[w].nr = j.nr
  BY <1>2, <1>3, BecomesOnly
<1>6. SameNodes /\ queue' \subseteq queue /\ j \notin queue'
  BY <1>1, <1>4, UnchangedStay DEF StatusesStay
<1> QED
  BY <1>1, <1>3, <1>4, <1>5, <1>6, TakenKeeps

LEMMA ClaimShape ==
  ASSUME TypeInv, NEW h \in Handlers, NEW i \in DOMAIN nodeRuns, NEW res, ClaimWaiting(h, i, res)
  PROVE  /\ procs[h].pc = "idle" /\ OnlyProc(h) /\ GetsStatus(i, "running")
         /\ procs'[h].pc = "resume" /\ procs'[h].nr = i /\ procs'[h].result = res
<1> DEFINE x == [Idle EXCEPT !.pc = "resume", !.run = nodeRuns[i].run, !.nr = i, !.result = res]
<1>1. x.pc = "resume" /\ x.nr = i /\ x.result = res
  BY DEF Idle
<1>2. procs[h].pc = "idle" /\ procs' = [procs EXCEPT ![h] = x] /\ h \in Procs
  BY HandlersAreProcs DEF ClaimWaiting, Begin
<1> HIDE DEF x
<1>3. GetsStatus(i, "running")
  BY WaitsGetsStatus DEF ClaimWaiting
<1> QED
  BY <1>1, <1>2, <1>3, BecomesOnly

LEMMA NodesResume ==
  ASSUME TypeInv, TokensInv, NEW h \in Handlers,
         \/ \E e \in questionEvents : HandleQuestion(h, e)
         \/ \E i \in DOMAIN nodeRuns : ResumeDelayedNode(h, i)
  PROVE  TokensInv'
<1>1. queue' = queue /\ recovery' = recovery /\ h \in Procs
  BY HandlersAreProcs DEF HandleQuestion, ResumeDelayedNode, control
<1>2. ASSUME NEW i \in DOMAIN nodeRuns, NEW res, nodeRuns[i].status = "waiting",
             ClaimWaiting(h, i, res)
      PROVE  TokensInv'
  <2>1. /\ procs[h].pc = "idle" /\ OnlyProc(h) /\ GetsStatus(i, "running")
        /\ procs'[h].pc = "resume" /\ procs'[h].nr = i
    BY <1>2, ClaimShape
  <2>2. SameNodes /\ nodeRuns'[i].status = "running"
        /\ \A k \in DOMAIN nodeRuns : k # i => nodeRuns'[k].status = nodeRuns[k].status
    BY <2>1 DEF GetsStatus
  <2> QED
    BY <1>1, <1>2, <2>1, <2>2, TakenKeeps
<1>3. ASSUME UNCHANGED <<nodeRuns, procs>> PROVE TokensInv'
  <2>1. ProcsEbb /\ StatusesEbb
    BY <1>3, UnchangedStay DEF ProcsEbb, StatusesEbb, StatusesStay
  <2> QED
    BY <1>1, <2>1, EbbsKeep DEF Ebbs
<1>4. \A e \in questionEvents : e.nr \in DOMAIN nodeRuns
  BY DEF TypeInv, References
<1> QED
  BY <1>2, <1>3, <1>4 DEF HandleQuestion, ResumeDelayedNode

LEMMA NodesStep ==
  ASSUME TypeInv, TokensInv, WorkIsStarted, Tree, NEW p \in Procs, Step(p) PROVE TokensInv'
<1>1. CASE CompleteNodeRun(p)
  BY <1>1, NodesComplete
<1>2. CASE UpdateContext(p) \/ EnqueueNext(p)
  BY <1>2, NodesContext, NodesEnqueue
<1>3. CASE SpawnRetry(p)
  BY <1>3, NodesSpawn
<1>4. CASE LoadJob(p) \/ MarkRunning(p) \/ CountExecution(p) \/ Execute(p) \/ ReadLiveStatus(p)
  BY <1>4, EbbsLoadJob, EbbsMarkRunning, EbbsCountExecution, EbbsExecute, EbbsReadLiveStatus,
     EbbsKeep
<1>5. CASE \/ InterruptNodeRun(p) \/ SaveWaiting(p) \/ ParkRun(p) \/ ResumeRun(p)
           \/ CountOpen(p) \/ FinishRun(p) \/ FailRun(p) \/ CloseNodeRuns(p)
  BY <1>5, EbbsInterruptNodeRun, EbbsSaveWaiting, EbbsParkRun, EbbsResumeRun, EbbsRunSteps,
     EbbsCloseNodeRuns, EbbsKeep
<1> QED
  BY <1>1, <1>2, <1>3, <1>4, <1>5 DEF Step

\* What users do, and what ends a handler or every process.
LEMMA NodesOthers ==
  ASSUME TypeInv, TokensInv,
         \/ Users
         \/ \E i \in DOMAIN nodeRuns :
              \/ \E k \in 1..MaxAnswers : SaveAnswer(i, k)
              \/ OpenExpiry(i) \/ SaveExpiry(i)
         \/ \E p \in Procs : DatabaseError(p)
         \/ Crash
  PROVE  TokensInv'
<1>1. ASSUME StatusesStay, queue' \subseteq queue, recovery' = recovery, UNCHANGED procs
      PROVE  TokensInv'
  <2>1. ProcsEbb /\ StatusesEbb
    BY <1>1 DEF ProcsEbb, StatusesEbb, StatusesStay
  <2> QED
    BY <1>1, <2>1, EbbsKeep DEF Ebbs
<1>2. ASSUME NEW r \in Runs, StartRun(r) PROVE TokensInv'
  BY <1>1, <1>2, UnchangedStay DEF StartRun, control
<1>3. ASSUME NEW h \in Handlers, NEW r \in Runs, CancelRun(h, r) \/ ClaimRetry(h, r)
      PROVE  TokensInv'
  <2> DEFINE x(c) == [Idle EXCEPT !.pc = c, !.run = r]
  <2>1. PICK c \in {"close", "spawn"} : procs' = [procs EXCEPT ![h] = x(c)]
    BY Zenon, <1>3 DEF CancelRun, ClaimRetry, Begin
  <2>2. x(c).pc = c
    BY DEF Idle
  <2> HIDE DEF x
  <2>3. /\ procs'[h].pc \notin HolderPCs \cup {"enqueue", "context"}
        /\ \A q \in Procs : q # h => procs'[q] = procs[q]
    BY <2>1, <2>2, BecomesOnly, HandlersAreProcs DEF OnlyProc, HolderPCs
  <2>4. ProcsEbb
    BY <2>3 DEF ProcsEbb
  <2>5. StatusesStay /\ queue' = queue /\ recovery' = recovery
    BY <1>3, UnchangedStay DEF CancelRun, ClaimRetry, control
  <2> QED
    BY <2>4, <2>5, EbbsKeep DEF Ebbs, StatusesEbb, StatusesStay
<1>4. ASSUME NEW i \in DOMAIN nodeRuns,
             \/ \E k \in 1..MaxAnswers : OpenAnswer(i, k) \/ SaveAnswer(i, k)
             \/ OpenExpiry(i) \/ SaveExpiry(i)
      PROVE  TokensInv'
  <2>1. queue' = queue /\ recovery' = recovery /\ UNCHANGED procs
    BY <1>4 DEF OpenAnswer, SaveAnswer, OpenExpiry, SaveExpiry, control
  <2>2. UNCHANGED nodeRuns \/ \E s : nodeRuns' = [nodeRuns EXCEPT ![i].question = s]
    BY <1>4 DEF OpenAnswer, SaveAnswer, OpenExpiry, SaveExpiry
  <2> QED
    BY <1>1, <2>1, <2>2, UnchangedStay, QuestionStatusesStay
<1>5. ASSUME NEW p \in Procs, DatabaseError(p) PROVE TokensInv'
  <2>1. StatusesStay /\ queue' = queue /\ recovery' = recovery /\ Ends(p)
    BY <1>5, UnchangedStay, ReturnEnds DEF DatabaseError
  <2> QED
    BY <2>1, QuietEbbs, EbbsKeep
<1>6. CASE Crash
  <2>1. StatusesStay /\ queue' = {} /\ recovery'.resume = {} /\ \A p \in Procs : procs'[p].pc = "idle"
    BY <1>6, UnchangedStay, IdleType DEF Crash, NoRecovery
  <2>2. ProcsEbb /\ StatusesEbb
    BY <2>1 DEF ProcsEbb, StatusesEbb, StatusesStay, HolderPCs
  <2> QED
    BY <2>1, <2>2, EbbsKeep DEF Ebbs
<1> QED
  BY <1>2, <1>3, <1>4, <1>5, <1>6 DEF Users
-----------------------------------------------------------------------------
(* Where no executor waits, no NodeRun ever does. *)

WaitInv ==
  NeverWaits =>
    /\ \A p \in Procs : procs[p].result \notin {"timer", "question"}
    /\ \A i \in DOMAIN nodeRuns : nodeRuns[i].status # "waiting"

\* Nobody gets a result from an executor; no NodeRun starts to wait.
ResultsStay ==
  \A q \in Procs :
    procs'[q].result \in {procs[q].result, "none", "refused", "retry", "trigger", "spawn"}

NoneWaits ==
  \A i \in DOMAIN nodeRuns' :
    nodeRuns'[i].status = "waiting" => i \in DOMAIN nodeRuns /\ nodeRuns[i].status = "waiting"

LEMMA WaitKept ==
  ASSUME TypeInv, WaitInv, ResultsStay, NoneWaits PROVE WaitInv'
  BY DEF WaitInv, ResultsStay, NoneWaits, NeverWaits

LEMMA GotoResult ==
  ASSUME TypeInv, NEW p \in Procs, NEW c \in PCs, Goto(p, c) PROVE ResultsStay
  BY Typed, GotoFacts DEF OnlyProc, ResultsStay

LEMMA ReturnResult ==
  ASSUME TypeInv, NEW p \in Procs, Return(p) PROVE ResultsStay
<1>1. Idle.result = "none"
  BY DEF Idle
<1> QED
  BY <1>1, Typed, ReturnFacts DEF OnlyProc, ResultsStay

LEMMA BecomesResult ==
  ASSUME TypeInv, NEW p \in Procs, NEW x, procs' = [procs EXCEPT ![p] = x],
         x.result \in {procs[p].result, "none", "refused", "retry", "trigger", "spawn"}
  PROVE  ResultsStay
  BY BecomesOnly DEF OnlyProc, ResultsStay

LEMMA StepResults ==
  ASSUME TypeInv, NEW p \in Procs, Step(p), ~Execute(p) PROVE ResultsStay
<1>1. CASE LoadJob(p)
  <2>1. CASE Goto(p, "interrupt") \/ Goto(p, "mark") \/ Return(p)
    BY <2>1, GotoResult, ReturnResult DEF PCs
  <2>2. CASE procs' = [procs EXCEPT ![p].pc = "complete", ![p].result = "refused"]
    <3> DEFINE x == [procs[p] EXCEPT !.pc = "complete", !.result = "refused"]
    <3>1. x.result = "refused"
      BY ProcessFields DEF ProcType
    <3>2. procs' = [procs EXCEPT ![p] = x]
      BY Zenon, <2>2
    <3> HIDE DEF x
    <3> QED
      BY <3>1, <3>2, BecomesResult
  <2> QED
    BY <1>1, <2>1, <2>2 DEF LoadJob, Abandon
<1>2. CASE \/ MarkRunning(p) \/ CountExecution(p) \/ ReadLiveStatus(p) \/ InterruptNodeRun(p)
           \/ SaveWaiting(p) \/ ParkRun(p) \/ ResumeRun(p) \/ CountOpen(p) \/ FinishRun(p)
           \/ FailRun(p)
  <2>1. Return(p) \/ \E c \in PCs : Goto(p, c)
    BY <1>2 DEF MarkRunning, CountExecution, ReadLiveStatus, InterruptNodeRun, SaveWaiting,
                ParkRun, ResumeRun, CountOpen, FinishRun, FailRun, Abandon, PCs
  <2> QED
    BY <2>1, GotoResult, ReturnResult
<1>3. CASE CompleteNodeRun(p)
  <2>1. CASE Goto(p, "context") \/ Goto(p, "fail")
    BY <2>1, GotoResult DEF PCs
  <2>2. CASE procs' = [procs EXCEPT ![p].pc = "enqueue", ![p].result = "retry",
                                    ![p].todo = {NodeOf(p)},
                                    ![p].attempt = nodeRuns[procs[p].nr].attempt + 1]
    <3> DEFINE x == [procs[p] EXCEPT !.pc = "enqueue", !.result = "retry", !.todo = {NodeOf(p)},
                                     !.attempt = nodeRuns[procs[p].nr].attempt + 1]
    <3>1. x.result = "retry"
      BY ProcessFields DEF ProcType
    <3>2. procs' = [procs EXCEPT ![p] = x]
      BY Zenon, <2>2
    <3> HIDE DEF x
    <3> QED
      BY <3>1, <3>2, BecomesResult
  <2> QED
    BY <1>3, <2>1, <2>2 DEF CompleteNodeRun
<1>4. CASE UpdateContext(p)
  <2> DEFINE succs == IF procs[p].result \in Branches
                        THEN NextNodes(NodeOf(p), procs[p].result)
                        ELSE FailureSuccessors(NodeOf(p))
             x == [procs[p] EXCEPT !.todo = succs, !.attempt = 1,
                                   !.pc = IF succs = {} THEN "open" ELSE "enqueue"]
  <2>1. procs' = [procs EXCEPT ![p] = x] \/ Return(p)
    BY Zenon, <1>4 DEF UpdateContext
  <2> HIDE DEF succs
  <2>2. x.result = procs[p].result
    BY ProcessFields DEF ProcType
  <2> HIDE DEF x
  <2> QED
    BY <2>1, <2>2, ReturnResult, BecomesResult
<1>5. CASE EnqueueNext(p)
  <2>1. PICK n \in procs[p].todo :
          \/ procs' = [procs EXCEPT ![p].todo = @ \ {n}]
          \/ Return(p)
          \/ procs' = [procs EXCEPT ![p].todo = {}, ![p].pc = "open"]
    BY <1>5 DEF EnqueueNext
  <2> DEFINE x == [procs[p] EXCEPT !.todo = @ \ {n}]
             y == [procs[p] EXCEPT !.todo = {}, !.pc = "open"]
  <2>2. x.result = procs[p].result /\ y.result = procs[p].result
    BY ProcessFields DEF ProcType
  <2>3. procs' = [procs EXCEPT ![p] = x] \/ Return(p) \/ procs' = [procs EXCEPT ![p] = y]
    BY Zenon, <2>1
  <2> HIDE DEF x, y
  <2> QED
    BY <2>2, <2>3, ReturnResult, BecomesResult
<1>6. CASE CloseNodeRuns(p)
  <2>1. procs'[p] = Idle /\ Idle.result = "none"
    BY <1>6 DEF CloseNodeRuns, Idle
  <2> QED
    BY <1>6, <2>1, CloseShape DEF ResultsStay
<1>7. CASE SpawnRetry(p)
  <2>1. ASSUME NEW c, NEW n, procs' = [procs EXCEPT ![p].pc = "enqueue", ![p].run = c,
                                       ![p].result = "spawn", ![p].todo = {n}]
        PROVE  ResultsStay
    <3> DEFINE x == [procs[p] EXCEPT !.pc = "enqueue", !.run = c, !.result = "spawn", !.todo = {n}]
    <3>1. x.result = "spawn"
      BY ProcessFields DEF ProcType
    <3>2. procs' = [procs EXCEPT ![p] = x]
      BY Zenon, <2>1
    <3> HIDE DEF x
    <3> QED
      BY <3>1, <3>2, BecomesResult
  <2> QED
    BY <1>7, <2>1, ReturnResult DEF SpawnRetry
<1> QED
  BY <1>1, <1>2, <1>3, <1>4, <1>5, <1>6, <1>7 DEF Step

\* What the steps of a process do to the NodeRuns.
LEMMA StepStatuses ==
  ASSUME TypeInv, NEW p \in Procs, Step(p)
  PROVE  \/ StatusesStay
         \/ procs[p].nr \in DOMAIN nodeRuns /\ procs[p].pc \in {"mark", "interrupt", "complete", "wait"}
            /\ \E s : GetsStatus(procs[p].nr, s) /\ (s = "waiting" <=> procs[p].pc = "wait")
         \/ procs[p].pc = "close" /\ \E C : Interrupts(C)
         \/ procs[p].pc = "enqueue" /\ \E n \in procs[p].todo : Creates(procs[p].run, n)
<1>1. CASE UNCHANGED nodeRuns \/ Execute(p)
  BY <1>1, UnchangedStay, ExecuteShape
<1>2. CASE MarkRunning(p) \/ InterruptNodeRun(p) \/ CompleteNodeRun(p) \/ SaveWaiting(p)
  <2>1. procs[p].nr \in DOMAIN nodeRuns
    BY <1>2 DEF MarkRunning, InterruptNodeRun, CompleteNodeRun, SaveWaiting,
                TypeInv, References, Knows, NodePCs
  <2>2. CASE MarkRunning(p) \/ InterruptNodeRun(p)
    BY <2>1, <2>2, SetGetsStatus DEF MarkRunning, InterruptNodeRun
  <2>3. CASE CompleteNodeRun(p)
    <3>1. procs[p].pc = "complete" /\ GetsStatus(procs[p].nr, Outcome(p)) /\ Outcome(p) # "waiting"
      BY <2>1, <2>3, SetGetsStatus DEF CompleteNodeRun, Outcome
    <3> QED
      BY <2>1, <3>1
  <2>4. CASE SaveWaiting(p)
    <3>1. procs[p].pc = "wait" /\ GetsStatus(procs[p].nr, "waiting")
      BY <2>1, <2>4, WaitsGetsStatus DEF SaveWaiting
    <3> QED
      BY <2>1, <3>1
  <2> QED
    BY <1>2, <2>2, <2>3, <2>4
<1>3. CASE CloseNodeRuns(p)
  BY <1>3, CloseShape DEF CloseNodeRuns
<1>4. CASE EnqueueNext(p)
  <2>1. PICK n \in procs[p].todo :
          EnqueueNode(procs[p].run, n, procs[p].attempt, procs[p].result = "retry")
    BY <1>4 DEF EnqueueNext
  <2>2. procs[p].attempt \in Nat /\ n \in Nodes /\ procs[p].run \in Runs /\ procs[p].pc = "enqueue"
    BY <1>4, ProcessFields DEF ProcType, EnqueueNext, TypeInv, References, Knows
  <2> QED
    BY <2>1, <2>2, EnqueueCreates
<1> QED
  BY <1>1, <1>2, <1>3, <1>4
     DEF Step, LoadJob, CountExecution, ReadLiveStatus, ParkRun, UpdateContext, CountOpen,
         FinishRun, FailRun, ResumeRun, SpawnRetry

LEMMA StatusesTame ==
  ASSUME \/ StatusesStay
         \/ \E i \in DOMAIN nodeRuns : \E s : GetsStatus(i, s) /\ s # "waiting"
         \/ \E C : Interrupts(C)
         \/ \E r, n : Creates(r, n)
  PROVE  NoneWaits
<1>1. CASE StatusesStay
  BY <1>1 DEF StatusesStay, SameNodes, NoneWaits
<1>2. CASE \E i \in DOMAIN nodeRuns : \E s : GetsStatus(i, s) /\ s # "waiting"
  BY <1>2 DEF GetsStatus, SameNodes, NoneWaits
<1>3. CASE \E C : Interrupts(C)
  BY <1>3 DEF Interrupts, SameNodes, NoneWaits
<1>4. CASE \E r, n : Creates(r, n)
  <2>1. PICK new : new = NewNr
    OBVIOUS
  <2>2. /\ DOMAIN nodeRuns' = DOMAIN nodeRuns \cup {new}
        /\ \A k \in DOMAIN nodeRuns : nodeRuns'[k] = nodeRuns[k]
        /\ nodeRuns'[new].status = "queued"
    BY <1>4, <2>1 DEF Creates
  <2> QED
    BY <2>2 DEF NoneWaits
<1> QED
  BY <1>1, <1>2, <1>3, <1>4

LEMMA WaitStep ==
  ASSUME TypeInv, WaitInv, NEW p \in Procs, Step(p) PROVE WaitInv'
<1> SUFFICES ASSUME NeverWaits PROVE WaitInv'
  BY DEF WaitInv, NeverWaits
<1>1. procs[p].pc # "wait"
  BY DEF WaitInv, TypeInv, References, Knows
<1>2. NoneWaits
  BY <1>1, StepStatuses, StatusesTame
<1>3. CASE Execute(p)
  <2>1. procs[p].nr \in DOMAIN nodeRuns /\ procs'[p].result \in Results[NodeOf(p)]
        /\ \A q \in Procs : q # p => procs'[q] = procs[q]
    BY <1>3, ExecuteShape DEF GoesOn, OnlyProc
  <2>2. NodeOf(p) \in Nodes
    BY <2>1, Typed, NodeRunFacts DEF NodeOf
  <2>3. procs'[p].result \notin {"timer", "question"}
    BY <2>1, <2>2 DEF NeverWaits
  <2> QED
    BY <1>2, <2>1, <2>3 DEF WaitInv, NoneWaits, NeverWaits
<1> QED
  BY <1>2, <1>3, StepResults, WaitKept
\* A handler becomes busy with something that is not an executor's result.
LEMMA BeginResult ==
  ASSUME TypeInv, NEW h \in Handlers, NEW x, Begin(h, x),
         x.result \in {"none", "trigger"}
  PROVE  ResultsStay
  BY HandlersAreProcs, BecomesResult DEF Begin

LEMMA WaitBegins ==
  ASSUME TypeInv, WaitInv, NeverWaits,
         \/ Users
         \/ \E h \in Handlers, e \in queuedEvents : HandleRunQueued(h, e[1], e[2])
         \/ \E h \in Handlers, e \in questionEvents : HandleQuestion(h, e)
         \/ \E h \in Handlers, i \in DOMAIN nodeRuns : ResumeDelayedNode(h, i)
         \/ \E i \in DOMAIN nodeRuns :
              \/ \E k \in 1..MaxAnswers : SaveAnswer(i, k)
              \/ OpenExpiry(i) \/ SaveExpiry(i)
         \/ \E w \in Workers : DispatchJob(w)
  PROVE  StatusesStay /\ ResultsStay
<1>1. ASSUME UNCHANGED procs PROVE ResultsStay
  BY <1>1 DEF ResultsStay
<1>2. ASSUME NEW r \in Runs, StartRun(r) PROVE StatusesStay /\ ResultsStay
  BY <1>1, <1>2, UnchangedStay DEF StartRun
<1>3. ASSUME NEW h \in Handlers, NEW r \in Runs, CancelRun(h, r) \/ ClaimRetry(h, r)
      PROVE  StatusesStay /\ ResultsStay
  <2> DEFINE x(c) == [Idle EXCEPT !.pc = c, !.run = r]
  <2>1. PICK c \in {"close", "spawn"} : Begin(h, x(c))
    BY Zenon, <1>3 DEF CancelRun, ClaimRetry
  <2>2. x(c).result = "none"
    BY DEF Idle
  <2> HIDE DEF x
  <2>3. ResultsStay
    BY <2>1, <2>2, BeginResult
  <2> QED
    BY <1>3, <2>3, UnchangedStay DEF CancelRun, ClaimRetry
<1>4. ASSUME NEW i \in DOMAIN nodeRuns,
             \/ \E k \in 1..MaxAnswers : OpenAnswer(i, k) \/ SaveAnswer(i, k)
             \/ OpenExpiry(i) \/ SaveExpiry(i)
      PROVE  StatusesStay /\ ResultsStay
  <2>1. UNCHANGED procs
    BY <1>4 DEF OpenAnswer, SaveAnswer, OpenExpiry, SaveExpiry
  <2>2. UNCHANGED nodeRuns \/ \E s : nodeRuns' = [nodeRuns EXCEPT ![i].question = s]
    BY <1>4 DEF OpenAnswer, SaveAnswer, OpenExpiry, SaveExpiry
  <2> QED
    BY <1>1, <2>1, <2>2, UnchangedStay, QuestionStatusesStay
<1>5. ASSUME NEW h \in Handlers, NEW e \in queuedEvents, HandleRunQueued(h, e[1], e[2])
      PROVE  StatusesStay /\ ResultsStay
  <2> DEFINE x == [Idle EXCEPT !.pc = IF Triggers = {} THEN "fail" ELSE "enqueue",
                               !.run = e[1], !.result = "trigger", !.todo = Triggers]
  <2>1. x.result = "trigger"
    BY DEF Idle
  <2>2. nodeRuns' = nodeRuns /\ (UNCHANGED procs \/ Begin(h, x))
    BY Zenon, <1>5 DEF HandleRunQueued
  <2> HIDE DEF x
  <2> QED
    BY <1>1, <2>1, <2>2, BeginResult, UnchangedStay
<1>6. ASSUME NEW h \in Handlers,
             \/ \E e \in questionEvents : HandleQuestion(h, e)
             \/ \E i \in DOMAIN nodeRuns : ResumeDelayedNode(h, i)
      PROVE  StatusesStay /\ ResultsStay
  <2>1. \A e \in questionEvents : e.nr \in DOMAIN nodeRuns
    BY DEF TypeInv, References
  <2>2. \A i \in DOMAIN nodeRuns : nodeRuns[i].status # "waiting"
    BY DEF WaitInv
  <2>3. UNCHANGED <<nodeRuns, procs>>
    BY <1>6, <2>1, <2>2 DEF HandleQuestion, ResumeDelayedNode
  <2> QED
    BY <1>1, <2>3, UnchangedStay
<1>7. ASSUME NEW w \in Workers, DispatchJob(w) PROVE StatusesStay /\ ResultsStay
  <2>1. PICK j \in queue : procs' = [procs EXCEPT ![w] =
               [Idle EXCEPT !.pc = "load", !.nr = j.nr, !.run = nodeRuns[j.nr].run]]
    BY Zenon, <1>7 DEF DispatchJob, Begin
  <2> DEFINE x == [Idle EXCEPT !.pc = "load", !.nr = j.nr, !.run = nodeRuns[j.nr].run]
  <2>2. x.result = "none"
    BY DEF Idle
  <2>3. procs' = [procs EXCEPT ![w] = x] /\ w \in Procs
    BY <2>1 DEF Procs
  <2> HIDE DEF x
  <2>4. ResultsStay
    BY <2>2, <2>3, BecomesResult
  <2> QED
    BY <1>7, <2>4, UnchangedStay DEF DispatchJob
<1> QED
  BY <1>2, <1>3, <1>4, <1>5, <1>6, <1>7 DEF Users

LEMMA CutShape ==
  ASSUME TypeInv, InterruptCut PROVE Interrupts(recovery.resume)
  BY ManyInterrupted DEF InterruptCut

LEMMA RecoverNodeShape ==
  ASSUME TypeInv, NEW i \in recovery.resume, RecoverNode(i)
  PROVE  i \in DOMAIN nodeRuns /\ Creates(nodeRuns[i].run, nodeRuns[i].node)
<1>1. i \in DOMAIN nodeRuns
  BY DEF TypeInv, References
<1>2. /\ nodeRuns[i].run \in Runs /\ nodeRuns[i].node \in Nodes /\ nodeRuns[i].attempt + 1 \in Nat
  BY <1>1, Typed, NodeRunFacts
<1> QED
  BY <1>1, <1>2, EnqueueCreates DEF RecoverNode

LEMMA WaitNext ==
  ASSUME TypeInv, WaitInv, [Next]_vars PROVE WaitInv'
<1> SUFFICES ASSUME NeverWaits PROVE WaitInv'
  BY DEF WaitInv, NeverWaits
<1>1. CASE \/ Users
           \/ \E h \in Handlers, e \in queuedEvents : HandleRunQueued(h, e[1], e[2])
           \/ \E h \in Handlers, e \in questionEvents : HandleQuestion(h, e)
           \/ \E h \in Handlers, i \in DOMAIN nodeRuns : ResumeDelayedNode(h, i)
           \/ \E i \in DOMAIN nodeRuns :
                \/ \E k \in 1..MaxAnswers : SaveAnswer(i, k)
                \/ OpenExpiry(i) \/ SaveExpiry(i)
           \/ \E w \in Workers : DispatchJob(w)
  BY <1>1, WaitBegins, StatusesTame, WaitKept
<1>2. ASSUME NEW p \in Procs, Step(p) PROVE WaitInv'
  BY <1>2, WaitStep
<1>3. ASSUME NEW p \in Procs, DatabaseError(p) PROVE WaitInv'
  BY <1>3, ReturnResult, UnchangedStay, StatusesTame, WaitKept DEF DatabaseError
<1>4. CASE Crash
  <2>1. Idle.result = "none"
    BY DEF Idle
  <2>2. ResultsStay /\ nodeRuns' = nodeRuns
    BY <1>4, <2>1 DEF Crash, ResultsStay
  <2> QED
    BY <2>2, UnchangedStay, StatusesTame, WaitKept
<1>5. CASE Recovery
  <2>1. ResultsStay
    BY <1>5 DEF Recovery, Restart, RecoverRun, InterruptCut, FailCut, RecoverNode,
                FinishRecovery, memory, ResultsStay
  <2>2. CASE InterruptCut
    BY <2>1, <2>2, CutShape, StatusesTame, WaitKept
  <2>3. ASSUME NEW i \in recovery.resume, RecoverNode(i) PROVE WaitInv'
    BY <2>1, <2>3, RecoverNodeShape, StatusesTame, WaitKept
  <2>4. CASE UNCHANGED nodeRuns
    BY <2>1, <2>4, UnchangedStay, StatusesTame, WaitKept
  <2> QED
    BY <1>5, <2>2, <2>3, <2>4 DEF Recovery, Restart, RecoverRun, FailCut, FinishRecovery
<1>6. CASE UNCHANGED vars
  BY <1>6 DEF vars, memory, WaitInv, NeverWaits
<1> QED
  BY <1>1, <1>2, <1>3, <1>4, <1>5, <1>6 DEF Next
-----------------------------------------------------------------------------
(* Before the workers start, only the recovery touches what a crash cut off. *)

AsidePCs == {"idle", "enqueue", "open", "finish", "fail"}

RecoveryInv ==
  /\ backend # "recovering" => recovery = NoRecovery
  /\ recovery.run = NoRun => recovery.resume = {}
  /\ recovery.run \notin recovery.stale
  /\ \A i \in recovery.resume :
       /\ nodeRuns[i].run = recovery.run
       /\ recovery.closed => nodeRuns[i].status = "interrupted"
  /\ backend = "down" => queue = {} /\ \A p \in Procs : procs[p].pc = "idle"
  /\ backend # "up" =>
       /\ \A p \in Procs : procs[p].pc # "idle" =>
            /\ procs[p].pc \in AsidePCs
            /\ procs[p].run \notin recovery.stale /\ procs[p].run # recovery.run
       /\ \A j \in queue : nodeRuns[j.nr].run \notin recovery.stale

LEMMA NothingToRecover ==
  /\ NoRecovery.run = NoRun /\ NoRecovery.resume = {} /\ NoRecovery.stale = {}
  /\ ~NoRecovery.closed
  BY DEF NoRecovery

\* While the workers run there is nothing to recover.
LEMMA UpKept ==
  ASSUME RecoveryInv, backend = "up", backend' = "up", recovery' = recovery
  PROVE  RecoveryInv'
<1>1. recovery' = NoRecovery
  BY DEF RecoveryInv
<1> QED
  BY <1>1, NothingToRecover DEF RecoveryInv

\* Before, processes go on or begin aside of the recovery.
LEMMA AsideKept ==
  ASSUME TypeInv, RecoveryInv, backend # "up", backend' = backend, recovery' = recovery,
         \A i \in DOMAIN nodeRuns :
           nodeRuns'[i].run = nodeRuns[i].run /\ nodeRuns'[i].status = nodeRuns[i].status,
         \A q \in Procs : procs'[q].pc # "idle" =>
           /\ procs'[q].pc \in AsidePCs
           /\ \/ procs[q].pc # "idle" /\ procs'[q].run = procs[q].run
              \/ /\ backend = "recovering"
                 /\ procs'[q].run \notin recovery.stale /\ procs'[q].run # recovery.run,
         \A j \in queue' :
           \/ j \in queue
           \/ backend = "recovering" /\ nodeRuns'[j.nr].run \notin recovery.stale
  PROVE  RecoveryInv'
<1>1. \A j \in queue : j.nr \in DOMAIN nodeRuns
  BY Typed
<1>2. recovery.resume \subseteq DOMAIN nodeRuns
  BY DEF TypeInv, References
<1>3. backend' = "down" => queue' = {} /\ \A p \in Procs : procs'[p].pc = "idle"
  BY DEF RecoveryInv
<1>4. \A i \in recovery'.resume :
        /\ nodeRuns'[i].run = recovery'.run
        /\ recovery'.closed => nodeRuns'[i].status = "interrupted"
  BY <1>2 DEF RecoveryInv
<1>5. \A p \in Procs : procs'[p].pc # "idle" =>
            /\ procs'[p].pc \in AsidePCs
            /\ procs'[p].run \notin recovery'.stale /\ procs'[p].run # recovery'.run
  BY DEF RecoveryInv
<1>6. \A j \in queue' : nodeRuns'[j.nr].run \notin recovery'.stale
  BY <1>1 DEF RecoveryInv
<1> QED
  BY <1>3, <1>4, <1>5, <1>6 DEF RecoveryInv

LEMMA RecoveryStep ==
  ASSUME TypeInv, RecoveryInv, NEW p \in Procs, Step(p) PROVE RecoveryInv'
<1>1. backend' = backend /\ recovery' = recovery /\ procs[p].pc # "idle"
  BY DEF Step, LoadJob, MarkRunning, CountExecution, Execute, ReadLiveStatus, InterruptNodeRun,
         SaveWaiting, ParkRun, CompleteNodeRun, UpdateContext, EnqueueNext, CountOpen, FinishRun,
         FailRun, ResumeRun, CloseNodeRuns, SpawnRetry, control
<1>2. CASE backend = "up"
  BY <1>1, <1>2, UpKept
<1>3. CASE backend # "up"
  <2>1. procs[p].pc \in {"enqueue", "open", "finish", "fail"} /\ backend = "recovering"
    BY <1>1, <1>3 DEF RecoveryInv, AsidePCs, TypeInv, TypeOK
  <2>2. EnqueueNext(p) \/ CountOpen(p) \/ FinishRun(p) \/ FailRun(p)
    BY <2>1 DEF Step, LoadJob, MarkRunning, CountExecution, Execute, ReadLiveStatus,
         InterruptNodeRun, SaveWaiting, ParkRun, CompleteNodeRun, UpdateContext, ResumeRun,
         CloseNodeRuns, SpawnRetry
  <2>3. Proceeds(p)
    BY <2>1, StepProceeds DEF CloseNodeRuns, SpawnRetry
  <2>4. procs'[p].pc \in AsidePCs
    <3>1. CASE EnqueueNext(p)
      <4>1. PICK n \in procs[p].todo :
              \/ procs' = [procs EXCEPT ![p].todo = @ \ {n}]
              \/ Return(p)
              \/ procs' = [procs EXCEPT ![p].todo = {}, ![p].pc = "open"]
        BY <3>1 DEF EnqueueNext
      <4> DEFINE x == [procs[p] EXCEPT !.todo = @ \ {n}]
                 y == [procs[p] EXCEPT !.todo = {}, !.pc = "open"]
      <4>2. x.pc = procs[p].pc /\ y.pc = "open" /\ procs[p].pc = "enqueue"
        BY <3>1, ProcessFields DEF ProcType, EnqueueNext
      <4>3. procs' = [procs EXCEPT ![p] = x] \/ Return(p) \/ procs' = [procs EXCEPT ![p] = y]
        BY Zenon, <4>1
      <4> HIDE DEF x, y
      <4> QED
        BY <4>2, <4>3, ReturnEnds, BecomesOnly DEF Ends, AsidePCs
    <3>2. CASE CountOpen(p) \/ FinishRun(p) \/ FailRun(p)
      <4>1. GoesOn(p, "finish") \/ Ends(p)
        BY <3>2, GotoGoesOn, ReturnEnds DEF CountOpen, FinishRun, FailRun, PCs
      <4> QED
        BY <4>1 DEF GoesOn, Ends, AsidePCs
    <3> QED
      BY <2>2, <3>1, <3>2
  <2>5. \A q \in Procs : procs'[q].pc # "idle" =>
          /\ procs'[q].pc \in AsidePCs
          /\ procs[q].pc # "idle" /\ procs'[q].run = procs[q].run
    BY <1>1, <1>3, <2>3, <2>4 DEF Proceeds, OnlyProc, RecoveryInv
  <2>6. StatusesStay \/ \E n \in procs[p].todo : Creates(procs[p].run, n)
    BY <2>1, StepStatuses
  <2>7. \A i \in DOMAIN nodeRuns :
          nodeRuns'[i].run = nodeRuns[i].run /\ nodeRuns'[i].status = nodeRuns[i].status
    BY <2>6 DEF StatusesStay, SameNodes, Creates
  <2>8. CASE queue' = queue
    BY <1>1, <1>3, <2>5, <2>7, <2>8, AsideKept
  <2>9. CASE EnqueueNext(p)
    <3>1. PICK n \in procs[p].todo :
            EnqueueNode(procs[p].run, n, procs[p].attempt, procs[p].result = "retry")
      BY <2>9 DEF EnqueueNext
    <3>2. procs[p].attempt \in Nat /\ n \in Nodes /\ procs[p].run \in Runs
      BY <2>1, ProcessFields DEF ProcType, TypeInv, References, Knows
    <3>3. PICK new : new = NewNr
      OBVIOUS
    <3>4. /\ nodeRuns'[new].run = procs[p].run
          /\ \E d \in BOOLEAN : queue' = queue \cup {[nr |-> new, delayed |-> d]}
      BY <3>1, <3>2, <3>3, EnqueueCreates DEF Creates
    <3>5. procs[p].run \notin recovery.stale
      BY <1>1, <1>3 DEF RecoveryInv
    <3>6. \A j \in queue' :
            j \in queue \/ (backend = "recovering" /\ nodeRuns'[j.nr].run \notin recovery.stale)
      BY <2>1, <3>4, <3>5
    <3> QED
      BY <1>1, <1>3, <2>5, <2>7, <3>6, AsideKept
  <2> QED
    BY <2>2, <2>8, <2>9 DEF CountOpen, FinishRun, FailRun
<1> QED
  BY <1>2, <1>3

LEMMA RecoveryBegins ==
  ASSUME TypeInv, WaitInv, RecoveryInv, WorkIsStarted, NoEarlyResume,
         \/ Users
         \/ \E h \in Handlers, e \in queuedEvents : HandleRunQueued(h, e[1], e[2])
         \/ \E h \in Handlers, e \in questionEvents : HandleQuestion(h, e)
         \/ \E h \in Handlers, i \in DOMAIN nodeRuns : ResumeDelayedNode(h, i)
         \/ \E i \in DOMAIN nodeRuns :
              \/ \E k \in 1..MaxAnswers : SaveAnswer(i, k)
              \/ OpenExpiry(i) \/ SaveExpiry(i)
         \/ \E w \in Workers : DispatchJob(w)
  PROVE  RecoveryInv'
<1>1. backend' = backend /\ recovery' = recovery
  BY DEF Users, StartRun, CancelRun, ClaimRetry, OpenAnswer, HandleRunQueued, HandleQuestion,
         ResumeDelayedNode, SaveAnswer, OpenExpiry, SaveExpiry, DispatchJob, control
<1>2. CASE backend = "up"
  BY <1>1, <1>2, UpKept
<1>3. CASE backend # "up"
  <2> SUFFICES /\ \A i \in DOMAIN nodeRuns :
                    nodeRuns'[i].run = nodeRuns[i].run /\ nodeRuns'[i].status = nodeRuns[i].status
               /\ queue' = queue
               /\ \/ UNCHANGED procs
                  \/ \E h \in Procs : \E x :
                       /\ procs' = [procs EXCEPT ![h] = x] /\ x.pc \in AsidePCs
                       /\ backend = "recovering"
                       /\ x.run \notin recovery.stale /\ x.run # recovery.run
    <3>1. CASE UNCHANGED procs
      <4>1. \A q \in Procs : procs'[q].pc # "idle" => procs'[q].pc \in AsidePCs
        BY <1>3, <3>1 DEF RecoveryInv
      <4> QED
        BY <1>1, <1>3, <3>1, <4>1, AsideKept
    <3>2. ASSUME NEW h \in Procs, NEW x, procs' = [procs EXCEPT ![h] = x], x.pc \in AsidePCs,
                 backend = "recovering", x.run \notin recovery.stale, x.run # recovery.run
          PROVE  RecoveryInv'
      <4>1. procs'[h] = x /\ \A q \in Procs : q # h => procs'[q] = procs[q]
        BY <3>2, BecomesOnly DEF OnlyProc
      <4>2. \A q \in Procs : procs'[q].pc # "idle" =>
              /\ procs'[q].pc \in AsidePCs
              /\ \/ procs[q].pc # "idle" /\ procs'[q].run = procs[q].run
                 \/ /\ backend = "recovering"
                    /\ procs'[q].run \notin recovery.stale /\ procs'[q].run # recovery.run
        BY <1>3, <3>2, <4>1 DEF RecoveryInv
      <4> QED
        BY <1>1, <1>3, <4>2, AsideKept
    <3> QED
      BY <3>1, <3>2
  <2>1. \A r \in Runs : ~Started(r) => r \notin recovery.stale /\ r # recovery.run
    BY Disjoint DEF WorkIsStarted
  <2>2. ASSUME StatusesStay
        PROVE  \A i \in DOMAIN nodeRuns :
                 nodeRuns'[i].run = nodeRuns[i].run /\ nodeRuns'[i].status = nodeRuns[i].status
    BY <2>2 DEF StatusesStay, SameNodes
  <2>3. ~ (\E w \in Workers : DispatchJob(w))
    BY <1>3 DEF DispatchJob, Listening
  <2>4. ASSUME Users PROVE UNCHANGED <<nodeRuns, queue, procs>>
    BY <1>3, <2>4 DEF Users, StartRun, CancelRun, ClaimRetry, OpenAnswer, Listening
  <2>5. ASSUME NEW i \in DOMAIN nodeRuns,
               \/ \E k \in 1..MaxAnswers : SaveAnswer(i, k)
               \/ OpenExpiry(i) \/ SaveExpiry(i)
        PROVE  StatusesStay /\ UNCHANGED <<queue, procs>>
    <3>1. UNCHANGED <<queue, procs>>
      BY <2>5 DEF SaveAnswer, OpenExpiry, SaveExpiry
    <3>2. UNCHANGED nodeRuns \/ \E s : nodeRuns' = [nodeRuns EXCEPT ![i].question = s]
      BY <2>5 DEF SaveAnswer, OpenExpiry, SaveExpiry
    <3> QED
      BY <3>1, <3>2, UnchangedStay, QuestionStatusesStay
  <2>6. ASSUME NEW h \in Handlers,
               \/ \E e \in questionEvents : HandleQuestion(h, e)
               \/ \E i \in DOMAIN nodeRuns : ResumeDelayedNode(h, i)
        PROVE  UNCHANGED <<nodeRuns, queue, procs>>
    <3>1. NeverWaits
      BY <1>3, <2>6 DEF HandleQuestion, ResumeDelayedNode, Ticking, NoEarlyResume
    <3>2. \A i \in DOMAIN nodeRuns : nodeRuns[i].status # "waiting"
      BY <3>1 DEF WaitInv
    <3>3. \A e \in questionEvents : e.nr \in DOMAIN nodeRuns
      BY DEF TypeInv, References
    <3> QED
      BY <2>6, <3>2, <3>3 DEF HandleQuestion, ResumeDelayedNode
  <2>7. ASSUME NEW h \in Handlers, NEW e \in queuedEvents, HandleRunQueued(h, e[1], e[2])
        PROVE  /\ UNCHANGED <<nodeRuns, queue>>
               /\ \/ UNCHANGED procs
                  \/ \E q \in Procs : \E x :
                       /\ procs' = [procs EXCEPT ![q] = x] /\ x.pc \in AsidePCs
                       /\ backend = "recovering"
                       /\ x.run \notin recovery.stale /\ x.run # recovery.run
    <3> DEFINE x == [Idle EXCEPT !.pc = IF Triggers = {} THEN "fail" ELSE "enqueue",
                                 !.run = e[1], !.result = "trigger", !.todo = Triggers]
    <3>1. x.pc \in AsidePCs /\ x.run = e[1]
      BY DEF Idle, AsidePCs
    <3>2. \/ UNCHANGED procs
          \/ runs[e[1]].status = "queued" /\ procs' = [procs EXCEPT ![h] = x]
      BY Zenon, <2>7 DEF HandleRunQueued, Begin
    <3> HIDE DEF x
    <3>3. e[1] \in Runs /\ h \in Procs /\ UNCHANGED <<nodeRuns, queue>> /\ backend = "recovering"
      BY <1>3, <2>7, HandlersAreProcs DEF TypeInv, TypeOK, HandleRunQueued, Ticking
    <3>4. runs[e[1]].status = "queued" => e[1] \notin recovery.stale /\ e[1] # recovery.run
      BY <2>1, <3>3 DEF Started
    <3> QED
      BY <3>1, <3>2, <3>3, <3>4
  <2> QED
    BY <2>2, <2>3, <2>4, <2>5, <2>6, <2>7
<1> QED
  BY <1>2, <1>3
LEMMA CutFacts ==
  ASSUME TypeInv, NEW r \in Runs, NEW i \in CutOff(r)
  PROVE  /\ i \in DOMAIN nodeRuns /\ nodeRuns[i].run = r
         /\ Open(i) /\ nodeRuns[i].status # "waiting"
  BY DEF CutOff, Open, OpenNodeRun

LEMMA RecoveryRecovers ==
  ASSUME TypeInv, RecoveryInv, Recovery PROVE RecoveryInv'
<1>1. CASE Restart
  <2>1. PICK stale \in SUBSET Runs : recovery' = [NoRecovery EXCEPT !.stale = stale]
    BY <1>1 DEF Restart
  <2>2. recovery'.run = NoRun /\ recovery'.resume = {} /\ recovery'.stale \subseteq Runs
    BY <2>1 DEF NoRecovery
  <2>3. queue' = {} /\ backend' = "recovering" /\ \A p \in Procs : procs'[p].pc = "idle"
    BY <1>1 DEF Restart, memory, RecoveryInv
  <2> QED
    BY <2>2, <2>3, Disjoint DEF RecoveryInv
<1>2. ASSUME NEW r \in Runs, RecoverRun(r) PROVE RecoveryInv'
  <2>1. /\ backend = "recovering" /\ backend' = "recovering" /\ r \in recovery.stale
        /\ UNCHANGED <<nodeRuns, queue, procs>>
    BY <1>2 DEF RecoverRun, memory
  <2>2. /\ recovery'.run = r /\ recovery'.stale = recovery.stale \ {r}
        /\ ~recovery'.closed /\ recovery'.resume = CutOff(r)
    BY <1>2 DEF RecoverRun
  <2>3. \A i \in recovery'.resume : nodeRuns[i].run = r
    BY <2>2, CutFacts
  <2>4. \A p \in Procs : procs[p].pc # "idle" =>
          /\ procs[p].pc \in AsidePCs /\ procs[p].run \notin recovery.stale
    BY <2>1 DEF RecoveryInv
  <2>5. \A j \in queue : nodeRuns[j.nr].run \notin recovery.stale
    BY <2>1 DEF RecoveryInv
  <2> QED
    BY <2>1, <2>2, <2>3, <2>4, <2>5, Disjoint DEF RecoveryInv
<1>3. CASE InterruptCut
  <2>1. /\ backend = "recovering" /\ backend' = "recovering" /\ queue' \subseteq queue
        /\ UNCHANGED procs /\ recovery.run # NoRun
    BY <1>3 DEF InterruptCut, RemoveRun
  <2>2. /\ recovery'.run = recovery.run /\ recovery'.stale = recovery.stale
        /\ recovery'.resume = recovery.resume
    BY <1>3 DEF InterruptCut, TypeInv, TypeOK
  <2>3. /\ recovery.resume \subseteq DOMAIN nodeRuns
        /\ \A j \in queue : j.nr \in DOMAIN nodeRuns
    BY DEF TypeInv, References
  <2>4. Interrupts(recovery.resume)
    BY <1>3, CutShape
  <2>5. \A i \in recovery.resume : nodeRuns'[i].run = recovery.run /\ nodeRuns'[i].status = "interrupted"
    BY <2>3, <2>4 DEF Interrupts, SameNodes, RecoveryInv
  <2>6. \A j \in queue' : nodeRuns'[j.nr].run \notin recovery.stale
    BY <2>1, <2>3, <2>4 DEF Interrupts, SameNodes, RecoveryInv
  <2>7. \A p \in Procs : procs'[p].pc # "idle" =>
          /\ procs'[p].pc \in AsidePCs
          /\ procs'[p].run \notin recovery.stale /\ procs'[p].run # recovery.run
    BY <2>1 DEF RecoveryInv
  <2>8. recovery.run \notin recovery.stale
    BY DEF RecoveryInv
  <2> QED
    BY <2>1, <2>2, <2>5, <2>6, <2>7, <2>8 DEF RecoveryInv
<1>4. CASE FailCut
  <2>1. /\ backend = "recovering" /\ backend' = "recovering" /\ UNCHANGED <<nodeRuns, queue, procs>>
    BY <1>4 DEF FailCut, memory
  <2>2. /\ recovery'.run = NoRun /\ recovery'.resume = {} /\ recovery'.stale = recovery.stale
    BY <1>4 DEF FailCut, NoRecovery
  <2>3. recovery.stale \subseteq Runs /\ \A p \in Procs : procs[p].pc # "idle" => procs[p].run \in Runs
    BY DEF TypeInv, TypeOK, References, Knows
  <2>4. \A p \in Procs : procs[p].pc # "idle" =>
          /\ procs[p].pc \in AsidePCs /\ procs[p].run \notin recovery.stale
    BY <2>1 DEF RecoveryInv
  <2>5. \A j \in queue : nodeRuns[j.nr].run \notin recovery.stale
    BY <2>1 DEF RecoveryInv
  <2> QED
    BY <2>1, <2>2, <2>3, <2>4, <2>5, Disjoint DEF RecoveryInv
<1>5. ASSUME NEW i \in recovery.resume, RecoverNode(i) PROVE RecoveryInv'
  <2>1. /\ backend = "recovering" /\ backend' = "recovering" /\ UNCHANGED procs /\ recovery.closed
    BY <1>5 DEF RecoverNode
  <2>2. i \in DOMAIN nodeRuns /\ Creates(nodeRuns[i].run, nodeRuns[i].node)
    BY <1>5, RecoverNodeShape
  <2>3. PICK new : new = NewNr
    OBVIOUS
  <2>4. /\ \A k \in DOMAIN nodeRuns : nodeRuns'[k] = nodeRuns[k]
        /\ nodeRuns'[new].run = recovery.run
        /\ \E d \in BOOLEAN : queue' = queue \cup {[nr |-> new, delayed |-> d]}
    BY <2>2, <2>3 DEF Creates, RecoveryInv
  <2>5. /\ recovery.resume \subseteq DOMAIN nodeRuns /\ recovery.stale \subseteq Runs
        /\ \A j \in queue : j.nr \in DOMAIN nodeRuns
        /\ \A p \in Procs : procs[p].pc # "idle" => procs[p].run \in Runs
    BY DEF TypeInv, TypeOK, References, Knows
  <2>6. \A j \in queue' : nodeRuns'[j.nr].run \notin recovery.stale
    BY <2>1, <2>4, <2>5 DEF RecoveryInv
  <2>7. \A p \in Procs : procs'[p].pc # "idle" =>
          /\ procs'[p].pc \in AsidePCs
          /\ procs'[p].run \notin recovery.stale /\ procs'[p].run # recovery.run
    BY <2>1 DEF RecoveryInv
  <2>8. CASE recovery' = [NoRecovery EXCEPT !.stale = recovery.stale]
    <3>1. recovery'.run = NoRun /\ recovery'.resume = {} /\ recovery'.stale = recovery.stale
      BY <2>8 DEF NoRecovery
    <3> QED
      BY <2>1, <2>5, <2>6, <2>7, <3>1, Disjoint DEF RecoveryInv
  <2>9. CASE recovery' = [recovery EXCEPT !.resume = @ \ {i}]
    <3>1. /\ recovery'.run = recovery.run /\ recovery'.stale = recovery.stale
          /\ recovery'.resume \subseteq recovery.resume /\ recovery'.closed = recovery.closed
      BY <2>9 DEF TypeInv, TypeOK
    <3>2. \A k \in recovery'.resume :
            nodeRuns'[k].run = recovery.run /\ nodeRuns'[k].status = "interrupted"
      BY <2>1, <2>4, <2>5, <3>1 DEF RecoveryInv
    <3>3. recovery.run \notin recovery.stale /\ (recovery.run = NoRun => recovery'.resume = {})
      BY <3>1 DEF RecoveryInv
    <3> QED
      BY <2>1, <2>6, <2>7, <3>1, <3>2, <3>3 DEF RecoveryInv
  <2> QED
    BY <1>5, <2>8, <2>9 DEF RecoverNode
<1>6. CASE FinishRecovery
  <2>1. recovery' = NoRecovery /\ backend' = "up"
    BY <1>6 DEF FinishRecovery
  <2> QED
    BY <2>1, NothingToRecover DEF RecoveryInv
<1> QED
  BY <1>1, <1>2, <1>3, <1>4, <1>5, <1>6 DEF Recovery

LEMMA RecoveryNext ==
  ASSUME TypeInv, WaitInv, RecoveryInv, WorkIsStarted, NoEarlyResume, [Next]_vars
  PROVE  RecoveryInv'
<1>1. ASSUME NEW p \in Procs, DatabaseError(p) PROVE RecoveryInv'
  <2>1. Ends(p) /\ UNCHANGED <<nodeRuns, queue, backend, recovery>>
    BY <1>1, ReturnEnds DEF DatabaseError
  <2>2. \A q \in Procs : procs'[q].pc # "idle" => procs'[q] = procs[q]
    BY <2>1 DEF Ends, OnlyProc
  <2>3. CASE backend = "up"
    BY <2>1, <2>3, UpKept
  <2>4. CASE backend # "up"
    <3>1. \A q \in Procs : procs'[q].pc # "idle" => procs'[q].pc \in AsidePCs
      BY <2>2, <2>4 DEF RecoveryInv
    <3> QED
      BY <2>1, <2>2, <2>4, <3>1, AsideKept
  <2> QED
    BY <2>3, <2>4
<1>2. CASE Crash
  <2>1. /\ backend' = "down" /\ recovery' = NoRecovery /\ queue' = {}
        /\ \A p \in Procs : procs'[p].pc = "idle"
    BY <1>2, IdleType DEF Crash
  <2> QED
    BY <2>1, NothingToRecover DEF RecoveryInv
<1>3. CASE UNCHANGED vars
  BY <1>3 DEF vars, memory, control, RecoveryInv
<1> QED
  BY <1>1, <1>2, <1>3, RecoveryBegins, RecoveryStep, RecoveryRecovers DEF Next

-----------------------------------------------------------------------------
(* The recovery does not run again what is under way or done. *)

LEMMA NodesRecovery ==
  ASSUME TypeInv, TokensInv, RecoveryInv, Recovery PROVE TokensInv'
<1>1. ASSUME StatusesEbb, queue' \subseteq queue, recovery'.resume \subseteq recovery.resume,
             UNCHANGED procs
      PROVE  TokensInv'
  <2>1. ProcsEbb
    BY <1>1 DEF ProcsEbb
  <2> QED
    BY <1>1, <2>1, EbbsKeep DEF Ebbs
<1>2. StatusesStay => StatusesEbb
  BY DEF StatusesStay, StatusesEbb
<1>3. CASE Restart
  <2>1. recovery'.resume = {}
    BY <1>3 DEF Restart, NoRecovery
  <2> QED
    BY <1>1, <1>2, <1>3, <2>1, UnchangedStay DEF Restart, memory
<1>4. ASSUME NEW r \in Runs, RecoverRun(r) PROVE TokensInv'
  <2>1. /\ backend = "recovering" /\ r \in recovery.stale /\ recovery.run = NoRun
        /\ UNCHANGED <<nodeRuns, queue, procs>> /\ recovery'.resume = CutOff(r)
    BY <1>4 DEF RecoverRun, memory
  <2>2. ASSUME NEW i \in recovery'.resume
        PROVE  Open(i) /\ nodeRuns[i].status # "waiting" /\ ~HasOwnJob(i) /\ \A p \in Procs : ~Holds(p, i)
    <3>1. Open(i) /\ nodeRuns[i].status # "waiting" /\ nodeRuns[i].run = r
      BY <2>1, <2>2, CutFacts
    <3>2. ~HasOwnJob(i)
      BY <2>1, <3>1 DEF RecoveryInv, HasOwnJob
    <3>3. \A p \in Procs : ~Holds(p, i)
      BY <2>1 DEF RecoveryInv, Holds, HolderPCs, AsidePCs
    <3> QED
      BY <3>1, <3>2, <3>3
  <2>3. recovery.resume = {}
    BY <2>1 DEF RecoveryInv
  <2> QED
    BY <2>1, <2>2, <2>3, RecoveredKeeps
<1>5. CASE InterruptCut
  <2>1. StatusesEbb
    BY <1>5, CutShape DEF Interrupts, StatusesEbb
  <2>2. queue' \subseteq queue /\ UNCHANGED procs /\ recovery'.resume = recovery.resume
    BY <1>5 DEF InterruptCut, RemoveRun, TypeInv, TypeOK
  <2> QED
    BY <1>1, <2>1, <2>2
<1>6. CASE FailCut \/ FinishRecovery
  <2>1. recovery'.resume \subseteq recovery.resume
    BY <1>6 DEF FailCut, FinishRecovery, NoRecovery
  <2> QED
    BY <1>1, <1>2, <1>6, <2>1, UnchangedStay DEF FailCut, FinishRecovery, memory
<1>7. ASSUME NEW i \in recovery.resume, RecoverNode(i) PROVE TokensInv'
  <2>1. i \in DOMAIN nodeRuns /\ Creates(nodeRuns[i].run, nodeRuns[i].node)
    BY <1>7, RecoverNodeShape
  <2>2. /\ UNCHANGED procs /\ recovery.closed
        /\ recovery'.resume \subseteq recovery.resume /\ i \notin recovery'.resume
    BY <1>7 DEF RecoverNode, NoRecovery, TypeInv, TypeOK
  <2>3. PICK r : r = nodeRuns[i].run
    OBVIOUS
  <2>4. PICK n : n = nodeRuns[i].node
    OBVIOUS
  <2>5. /\ OneHolder /\ OneAttempt /\ Downwards /\ r \in Runs /\ n \in Nodes
        /\ Creates(r, n) /\ Of(i, r, n) /\ Held(i) /\ Touched(r, n) /\ ~Spent(i)
        /\ nodeRuns[i].status = "interrupted"
    BY <2>1, <2>2, <2>3, <2>4, Typed, NodeRunFacts
       DEF TokensInv, Of, Held, Touched, Spent, RecoveryInv
  <2>6. \A k \in DOMAIN nodeRuns : k \in Nat /\ k # NewNr /\ nodeRuns'[k] = nodeRuns[k]
    BY <2>5, Typed DEF Creates
  <2>7. /\ \A q \in Procs : \A k : Holds(q, k)' <=> Holds(q, k)
        /\ \A q \in Procs : \A x, m : Brings(q, x, m)' <=> Brings(q, x, m)
    BY <2>2 DEF Holds, Brings
  <2>8. \A k \in DOMAIN nodeRuns : HasOwnJob(k)' => HasOwnJob(k)
    BY <2>5, <2>6 DEF Creates, HasOwnJob
  <2>9. ASSUME NEW k \in DOMAIN nodeRuns, Of(k, r, n) PROVE Spent(k)'
    <3>1. CASE k = i
      <4>1. ~HasOwnJob(i) /\ \A q \in Procs : ~Holds(q, i)
        BY <2>1, <2>5 DEF OneHolder, HasOwnJob
      <4> QED
        BY <2>1, <2>2, <2>5, <2>6, <2>7, <2>8, <3>1, <4>1 DEF Spent, Held
    <3>2. CASE k # i
      <4>1. ~ (i < k)
        BY <2>1, <2>5, <2>9 DEF OneAttempt, Of
      <4>2. k < i
        BY <2>1, <2>6, <3>2, <4>1
      <4>3. Spent(k)
        BY <2>1, <2>5, <2>9, <4>2 DEF OneAttempt, Of
      <4> QED
        BY <2>2, <2>6, <2>7, <2>8, <4>3 DEF Spent, Held
    <3> QED
      BY <3>1, <3>2
  <2>10. \A q \in Procs : ~Brings(q, r, n)
    BY <2>1, <2>3, <2>4, <2>5 DEF OneAttempt
  <2>11. \A e \in Edges : e.from = n => ~Touched(r, e.to)
    BY <2>1, <2>3, <2>4, <2>5 DEF Downwards
  <2> QED
    BY <2>2, <2>5, <2>7, <2>9, <2>10, <2>11, CreatedKeeps
<1> QED
  BY <1>3, <1>4, <1>5, <1>6, <1>7 DEF Recovery

-----------------------------------------------------------------------------
(* The invariant and the theorem. *)

NodeInv == NoEarlyResume => WaitInv /\ RecoveryInv /\ (Tree => TokensInv)

LEMMA NodesNext ==
  ASSUME TypeInv, WorkIsStarted, RecoveryInv, Tree, TokensInv, [Next]_vars PROVE TokensInv'
<1>1. ASSUME NEW h \in Handlers, NEW e \in queuedEvents, HandleRunQueued(h, e[1], e[2])
      PROVE  TokensInv'
  <2>1. e[1] \in Runs
    BY DEF TypeInv, TypeOK
  <2> QED
    BY <1>1, <2>1, NodesRunQueued
<1>2. CASE UNCHANGED vars
  <2>1. ProcsEbb /\ StatusesEbb /\ queue' = queue /\ recovery' = recovery
    BY <1>2, UnchangedStay DEF vars, memory, control, ProcsEbb, StatusesStay, StatusesEbb
  <2> QED
    BY <2>1, EbbsKeep DEF Ebbs
<1> QED
  BY <1>1, <1>2, NodesResume, NodesOthers, NodesDispatch, NodesStep, NodesRecovery DEF Next

LEMMA NodesInit == Init => NodeInv
<1> SUFFICES ASSUME Init PROVE NodeInv
  OBVIOUS
<1>1. /\ \A p \in Procs : procs[p].pc = "idle" /\ procs[p].result = "none"
      /\ DOMAIN nodeRuns = {} /\ queue = {} /\ backend = "up" /\ recovery = NoRecovery
  BY DEF Init, Idle
<1>2. WaitInv
  BY <1>1 DEF WaitInv
<1>3. RecoveryInv
  BY <1>1, NothingToRecover DEF RecoveryInv
<1>4. TokensInv
  <2>1. /\ \A p \in Procs : \A i : ~Holds(p, i)
        /\ \A p \in Procs : \A r, n : ~Brings(p, r, n)
        /\ \A r, n : ~Touched(r, n)
    BY <1>1 DEF Holds, HolderPCs, Brings, Touched
  <2>2. OneHolder
    BY <1>1, <2>1 DEF OneHolder
  <2>3. OneAttempt
    BY <1>1, <2>1 DEF OneAttempt
  <2>4. Downwards
    BY <1>1, <2>1 DEF Downwards
  <2> QED
    BY <2>2, <2>3, <2>4 DEF TokensInv
<1> QED
  BY <1>2, <1>3, <1>4 DEF NodeInv

LEMMA NodesInductive == TypeInv /\ WorkIsStarted /\ NodeInv /\ [Next]_vars => NodeInv'
<1> SUFFICES ASSUME TypeInv, WorkIsStarted, NodeInv, [Next]_vars PROVE NodeInv'
  OBVIOUS
<1>1. NoEarlyResume' <=> NoEarlyResume
  BY DEF NoEarlyResume, NeverWaits
<1>2. Tree' <=> Tree
  BY DEF Tree, Precedes
<1> QED
  BY <1>1, <1>2, WaitNext, RecoveryNext, NodesNext DEF NodeInv

LEMMA NodesInvariant == Spec => []NodeInv
<1>1. LifeInv => WorkIsStarted
  BY DEF LifeInv
<1> QED
  BY <1>1, TypeInvariant, LifeInvariant, NodesInit, NodesInductive, PTL DEF Spec

\* In a forest no node of a run succeeds twice, whatever is retried, crashes, is
\* recovered, answered again or resumed late: a node is tried again only when
\* nothing comes of its earlier tries (OneAttempt), which nobody can then have in
\* hand any more (OneHolder), and before any of its successors (Downwards).
THEOREM SucceedsOnce == Spec => []EachNodeSucceedsOnce
<1>1. TypeInv /\ NodeInv => EachNodeSucceedsOnce
  <2> SUFFICES ASSUME TypeInv, NodeInv, Tree, NoEarlyResume,
                      NEW i \in DOMAIN nodeRuns, NEW j \in DOMAIN nodeRuns,
                      nodeRuns[i].status = "succeeded", nodeRuns[j].status = "succeeded",
                      nodeRuns[i].run = nodeRuns[j].run, nodeRuns[i].node = nodeRuns[j].node
               PROVE  i = j
    BY DEF EachNodeSucceedsOnce
  <2>1. i \in Nat /\ j \in Nat
    BY Typed
  <2>2. ~ (i < j) /\ ~ (j < i)
    BY DEF NodeInv, TokensInv, OneAttempt, Of, Spent
  <2> QED
    BY <2>1, <2>2
<1> QED
  BY <1>1, TypeInvariant, NodesInvariant, PTL
=============================================================================
