-------------------- MODULE ReplicationConvergence_proofs --------------------
(***************************************************************************)
(* The two sides of ReplicationSync agree, for any documents, bounds and   *)
(* faults: a document nobody deleted converges to the newest version any   *)
(* user wrote, and one whose deletions came after every version is gone.   *)
(*                                                                         *)
(* The argument follows one document that no accident has touched.  At     *)
(* each instance its versions go up in the order of last write wins, and   *)
(* every change the log has is one the peer has reached or an entry still  *)
(* to be handed over.                                                      *)
(***************************************************************************)
EXTENDS ReplicationSync_proofs

-----------------------------------------------------------------------------
(* The invariant *)

Other(i) == IF i = Active THEN Passive ELSE Active

\* The changes of a document at an instance, and the versions they made.
Numbers(i, d) == {n \in 1..Len(changes[i]) : changes[i][n].doc = d}
VersionsAt(i, d) == {changes[i][n].version : n \in Numbers(i, d)}

\* Last write wins, as an order of the versions.
NotAfter(u, w) == u.at < w.at \/ (u.at = w.at /\ w.by \in {Winner, u.by})

\* Entries on their way: being applied, sent, or kept as a deadletter.
Carried ==
  (UNION {Unfinished(applier[a].todo) : a \in Appliers})
    \cup {letters[v].entry : v \in DOMAIN letters} \cup driver.sent
Written == UNION {log[i] : i \in Instances}

InStream(v) == v.src \in Instances /\ v.n \in 1..Len(changes[v.src])
Cause(e) == changes[e.event.src][e.event.n]

Linked(e) ==
  /\ InStream(e.event) /\ e.doc = Cause(e).doc
  /\ e.op = "delete" => Cause(e).version = Missing /\ e.version = Missing /\ e.at = Cause(e).clusterMs
  /\ e.op = "upsert" => Cause(e).version # Missing /\ e.at = TimeOf(e.version)

EventsInv == \A v \in logged \cup handled \cup dropped : InStream(v)

\* A document is what its last change made it.
LastInv ==
  \A i \in Instances, d \in Docs :
    IF Numbers(i, d) = {} THEN docs[i][d] = Missing
    ELSE \E n \in Numbers(i, d) :
           docs[i][d] = changes[i][n].version /\ \A m \in Numbers(i, d) : m <= n

PastInv == \A i \in Instances : \A n \in 1..Len(changes[i]) : changes[i][n].clusterMs <= now

TaggedInv == \A i \in Instances : DOMAIN tags[i] \subseteq Docs \X (Nat \ {0})

LinkedInv ==
  /\ \A e \in Written \cup Carried : Linked(e)
  /\ \A e \in Carried : e.origin = e.event.src
  /\ \A i \in Instances : \A e \in log[i] : e.event.src = i
  /\ \A v \in DOMAIN letters : letters[v].entry.event = v

\* A loop that writes has checked its entry.
WriteInv ==
  \A a \in Appliers :
    applier[a].step = "write" =>
      LET e == Head(applier[a].todo) IN
        /\ e.origin # Site(a) /\ e.doc \in Enabled[Site(a)]
        /\ e.op = "delete" \/ e.version # Missing

BaseInv == EventsInv /\ LastInv /\ PastInv /\ TaggedInv /\ LinkedInv /\ WriteInv

\* What Undisturbed says, of the past as well: a retry may be forgotten, the rest not.
Calm(d) ==
  /\ \A i \in Instances : d \in Enabled[i]
  /\ d \notin clobbered
  /\ \A v \in dropped : changes[v.src][v.n].doc # d
  /\ \A v \in DOMAIN letters : letters[v].status # "retrying" => letters[v].entry.doc # d

\* The entry of a change is still to be handed over.
Waiting(i, n) == \E e \in log[i] : e.event = Event(i, n) /\ Sendable(i, e)

Kept(d) == \A i \in Instances : Missing \notin VersionsAt(i, d)
Reached(i, d, v) == docs[i][d] # Missing /\ NotAfter(v, docs[i][d])

\* Each instance goes up in the order, one of them strictly.
RisingInv(d) ==
  /\ \A i \in Instances : \A u \in VersionsAt(i, d) : Reached(i, d, u)
  /\ \A u, w \in VersionsAt(Winner, d) : u.at = w.at => u = w
  /\ \A i \in Instances : \A u \in VersionsAt(i, d) : u \in VersionsAt(u.by, d)
\* An entry carries a version at least as new as its change.
CarriesInv(d) ==
  \A e \in Written \cup Carried :
    e.doc = d => e.version \in VersionsAt(e.event.src, d) /\ NotAfter(Cause(e).version, e.version)
\* A tag is of a version the peer has reached, and not of one of the winner's.
TagsInv(d) ==
  \A i \in Instances : \A tag \in DOMAIN tags[i] :
    tag[1] = d =>
      /\ docs[Other(i)][d] # Missing /\ tag[2] <= docs[Other(i)][d].at
      /\ i = Winner => \A u \in VersionsAt(i, d) : u.by = i => u.at # tag[2]
HandledInv(d) ==
  \A i \in Instances : \A n \in Numbers(i, d) :
    Event(i, n) \in handled => Reached(Other(i), d, changes[i][n].version)
DeliveredInv(d) ==
  \A i \in Instances : \A n \in Numbers(i, d) :
    Event(i, n) \in logged => Reached(Other(i), d, changes[i][n].version) \/ Waiting(i, n)

Converging(d) ==
  RisingInv(d) /\ CarriesInv(d) /\ TagsInv(d) /\ HandledInv(d) /\ DeliveredInv(d)
ConvergeInv == \A d \in Docs : Calm(d) /\ Kept(d) => Converging(d)

\* Deletions.
Deletions(i, d) == {n \in Numbers(i, d) : changes[i][n].version = Missing}
\* Each in a later second than every version.
Final(d) ==
  \A i, j \in Instances : \A u \in VersionsAt(i, d), n \in Deletions(j, d) :
    u # Missing => u.at < changes[j][n].clusterMs
\* There is a deletion of the peer that i has not handled.
Open(i, d) == \E n \in Deletions(Other(i), d) : Event(Other(i), n) \notin handled
\* A deletion in the log is handed over.  A document that is back at i will be deleted, by
\* a deletion of the peer, or by one the peer makes when it handles one of i.
DeletingInv(d) ==
  /\ \A i \in Instances : \A n \in Deletions(i, d) :
       Event(i, n) \in logged => Event(i, n) \in handled \/ Waiting(i, n)
  /\ ~Kept(d) => \A i \in Instances :
       docs[i][d] # Missing => Open(i, d) \/ (docs[Other(i)][d] # Missing /\ Open(Other(i), d))
DeleteInv == \A d \in Docs : Calm(d) /\ Final(d) => DeletingInv(d)

\* The changes of a step: an instance's stream goes on.
Grown ==
  \A i \in Instances :
    /\ Len(changes[i]) \in Nat /\ Len(changes'[i]) \in Nat /\ Len(changes[i]) <= Len(changes'[i])
    /\ \A n \in 1..Len(changes[i]) : changes'[i][n] = changes[i][n]

-----------------------------------------------------------------------------
(* Documents and the changes of their writes *)

LEMMA Others ==
  \A i \in Instances : Other(i) \in Instances /\ Other(i) # i /\ Other(Other(i)) = i
                       /\ \A j \in Instances : j = i \/ j = Other(i)
<1> QED
  BY InstancesAssumption DEF Instances, Other

LEMMA ChangesTyped ==
  ASSUME DocsTyped, NEW i \in Instances
  PROVE  /\ Len(changes[i]) \in Nat
         /\ \A n \in 1..Len(changes[i]) :
              /\ changes[i][n].doc \in Docs /\ changes[i][n].version \in Versions \cup {Missing}
              /\ changes[i][n].clusterMs \in Nat
         /\ \A d \in Docs : docs[i][d] \in Versions \cup {Missing}
                            /\ VersionsAt(i, d) \subseteq Versions \cup {Missing}
                            /\ Numbers(i, d) \subseteq Nat
<1>1. changes[i] \in Seq(Changes) /\ Len(changes[i]) \in Nat
  BY LenProperties DEF DocsTyped
<1>2. \A n \in 1..Len(changes[i]) : changes[i][n] \in Changes
  BY <1>1, ElementOfSeq
<1>3. \A n \in 1..Len(changes[i]) :
        /\ changes[i][n].doc \in Docs /\ changes[i][n].version \in Versions \cup {Missing}
        /\ changes[i][n].clusterMs \in Nat
  BY <1>2 DEF Changes
<1>4. \A d \in Docs : VersionsAt(i, d) \subseteq Versions \cup {Missing} /\ Numbers(i, d) \subseteq Nat
  BY <1>1, <1>3 DEF VersionsAt, Numbers
<1> QED
  BY <1>1, <1>3, <1>4 DEF DocsTyped

\* The change of a write.
ChangeOf(d, version, ms) ==
  [doc |-> d, version |-> version, clusterMs |-> (ms \div SecondLength) * SecondLength]

LEMMA PutGives ==
  ASSUME DocsTyped, NEW i \in Instances, NEW d \in Docs, NEW version, NEW ms, Put(i, d, version, ms)
  PROVE  /\ \A j \in Instances, f \in Docs :
              docs'[j][f] = IF j = i /\ f = d THEN version ELSE docs[j][f]
         /\ \A j \in Instances : j # i => changes'[j] = changes[j]
         /\ version = docs[i][d] => changes' = changes
         /\ version # docs[i][d] =>
              /\ Len(changes'[i]) = Len(changes[i]) + 1
              /\ \A n \in 1..Len(changes[i]) : changes'[i][n] = changes[i][n]
              /\ changes'[i][Len(changes[i]) + 1] = ChangeOf(d, version, ms)
<1> DEFINE c == ChangeOf(d, version, ms)
<1>1. docs' = [docs EXCEPT ![i][d] = version]
      /\ changes' = IF version = docs[i][d] THEN changes ELSE [changes EXCEPT ![i] = Append(@, c)]
  BY DEF Put, ChangeOf
<1> HIDE DEF c
<1>2. \A j \in Instances, f \in Docs :
        docs'[j][f] = IF j = i /\ f = d THEN version ELSE docs[j][f]
  BY <1>1 DEF DocsTyped
<1>3. ASSUME version # docs[i][d]
      PROVE  /\ changes'[i] = Append(changes[i], c)
             /\ \A j \in Instances : j # i => changes'[j] = changes[j]
  BY <1>1, <1>3 DEF DocsTyped
<1>4. changes[i] \in Seq(Changes)
  BY DEF DocsTyped
<1>5. /\ Len(Append(changes[i], c)) = Len(changes[i]) + 1
      /\ \A n \in 1..Len(changes[i]) : Append(changes[i], c)[n] = changes[i][n]
      /\ Append(changes[i], c)[Len(changes[i]) + 1] = c
  <2>1. changes[i] \in Seq(Changes \cup {c})
    BY <1>4, SeqMonotonic
  <2>2. c \in Changes \cup {c}
    OBVIOUS
  <2> QED
    BY <2>1, <2>2, AppendProperties
<1>6. version = docs[i][d] => changes' = changes
  BY <1>1
<1> QED
  BY <1>2, <1>3, <1>5, <1>6 DEF c

\* A write adds a change of its document at its instance, unless it changes nothing.
LEMMA PutNumbers ==
  ASSUME DocsTyped, NEW i \in Instances, NEW d \in Docs, NEW version, NEW ms, Put(i, d, version, ms)
  PROVE  /\ Grown
         /\ \A j \in Instances, f \in Docs :
              j # i \/ f # d \/ version = docs[i][d] => /\ Numbers(j, f)' = Numbers(j, f)
                                                        /\ VersionsAt(j, f)' = VersionsAt(j, f)
         /\ version # docs[i][d] =>
              /\ Len(changes[i]) + 1 \notin Numbers(i, d)
              /\ Numbers(i, d)' = Numbers(i, d) \cup {Len(changes[i]) + 1}
              /\ VersionsAt(i, d)' = VersionsAt(i, d) \cup {version}
<1> DEFINE k == Len(changes[i]) + 1
<1>1. \A j \in Instances : Len(changes[j]) \in Nat
  BY ChangesTyped
<1>2. /\ \A j \in Instances : j # i => changes'[j] = changes[j]
      /\ version = docs[i][d] => changes' = changes
      /\ version # docs[i][d] =>
           /\ Len(changes'[i]) = k
           /\ \A n \in 1..Len(changes[i]) : changes'[i][n] = changes[i][n]
           /\ changes'[i][k].doc = d /\ changes'[i][k].version = version
  <2>1. ChangeOf(d, version, ms).doc = d /\ ChangeOf(d, version, ms).version = version
    BY DEF ChangeOf
  <2> QED
    BY <2>1, PutGives
<1>3. 1..k = 1..Len(changes[i]) \cup {k} /\ k \notin 1..Len(changes[i])
  <2>1. \A n \in Nat : /\ \A m : m \in 1..(n + 1) <=> m \in 1..n \/ m = n + 1
                       /\ n + 1 \notin 1..n
    OBVIOUS
  <2> QED
    BY <1>1, <2>1
<1> HIDE DEF k
<1>4. Grown
  <2>1. k \in Nat /\ Len(changes[i]) <= k
    BY <1>1 DEF k
  <2>2. ASSUME NEW j \in Instances
        PROVE  /\ Len(changes[j]) \in Nat /\ Len(changes'[j]) \in Nat
               /\ Len(changes[j]) <= Len(changes'[j])
               /\ \A n \in 1..Len(changes[j]) : changes'[j][n] = changes[j][n]
    BY <1>1, <1>2, <2>1
  <2> QED
    BY <2>2 DEF Grown
<1>5. ASSUME NEW j \in Instances, NEW f \in Docs, j # i \/ f # d \/ version = docs[i][d]
      PROVE  Numbers(j, f)' = Numbers(j, f) /\ VersionsAt(j, f)' = VersionsAt(j, f)
  <2>1. CASE changes'[j] = changes[j]
    BY <2>1 DEF Numbers, VersionsAt
  <2>2. CASE j = i /\ f # d /\ version # docs[i][d]
    <3>1. Numbers(j, f)' = Numbers(j, f)
      BY <1>2, <1>3, <2>2 DEF Numbers
    <3>2. \A n \in Numbers(j, f) : changes'[j][n] = changes[j][n]
      BY <1>2, <2>2 DEF Numbers
    <3> QED
      BY <3>1, <3>2 DEF VersionsAt
  <2> QED
    BY <1>2, <1>5, <2>1, <2>2
<1>6. ASSUME version # docs[i][d]
      PROVE  /\ k \notin Numbers(i, d) /\ Numbers(i, d)' = Numbers(i, d) \cup {k}
             /\ VersionsAt(i, d)' = VersionsAt(i, d) \cup {version}
  <2>1. k \notin Numbers(i, d)
    BY <1>3 DEF Numbers
  <2>2. Numbers(i, d)' = Numbers(i, d) \cup {k}
    BY <1>2, <1>3, <1>6 DEF Numbers
  <2>3. \A n \in Numbers(i, d) : changes'[i][n].version = changes[i][n].version
    BY <1>2, <1>6 DEF Numbers
  <2>4. VersionsAt(i, d)' = {changes'[i][n].version : n \in Numbers(i, d)'}
    BY DEF VersionsAt
  <2>5. VersionsAt(i, d)' = {changes[i][n].version : n \in Numbers(i, d)} \cup {version}
    BY <1>2, <1>6, <2>2, <2>3, <2>4
  <2> QED
    BY <2>1, <2>2, <2>5 DEF VersionsAt
<1> QED
  BY <1>4, <1>5, <1>6 DEF k

\* What is in the stream stays there.
LEMMA GrownKeeps ==
  ASSUME Grown
  PROVE  /\ \A v : InStream(v) => InStream(v)' /\ changes'[v.src][v.n] = changes[v.src][v.n]
         /\ \A i \in Instances, d \in Docs :
              /\ Numbers(i, d) \subseteq Numbers(i, d)'
              /\ \A n \in Numbers(i, d) : changes'[i][n] = changes[i][n]
              /\ VersionsAt(i, d) \subseteq VersionsAt(i, d)'
<1>1. \A i \in Instances : \A n \in 1..Len(changes[i]) :
        n \in 1..Len(changes'[i]) /\ changes'[i][n] = changes[i][n]
  BY DEF Grown
<1>2. \A v : InStream(v) => InStream(v)' /\ changes'[v.src][v.n] = changes[v.src][v.n]
  BY <1>1 DEF InStream
<1>3. ASSUME NEW i \in Instances, NEW d \in Docs
      PROVE  /\ Numbers(i, d) \subseteq Numbers(i, d)'
             /\ \A n \in Numbers(i, d) : changes'[i][n] = changes[i][n]
             /\ VersionsAt(i, d) \subseteq VersionsAt(i, d)'
  <2>1. Numbers(i, d) \subseteq Numbers(i, d)' /\ \A n \in Numbers(i, d) : changes'[i][n] = changes[i][n]
    BY <1>1 DEF Numbers
  <2> QED
    BY <2>1 DEF VersionsAt
<1> QED
  BY <1>2, <1>3

LEMMA SecondsPassed ==
  ASSUME NEW ms \in Nat
  PROVE  (ms \div SecondLength) * SecondLength \in Nat /\ (ms \div SecondLength) * SecondLength <= ms
<1>1. SecondLength \in Nat /\ SecondLength > 0
  BY BoundsAssumption
<1>2. ms \div SecondLength \in Nat
  BY <1>1
<1>3. ms = SecondLength * (ms \div SecondLength) + (ms % SecondLength)
      /\ ms % SecondLength \in Nat
  BY <1>1
<1>4. (ms \div SecondLength) * SecondLength = SecondLength * (ms \div SecondLength)
  BY <1>1, <1>2
<1>5. (ms \div SecondLength) * SecondLength \in Nat
  BY <1>1, <1>2
<1> QED
  BY <1>3, <1>4, <1>5

LEMMA StillGrown ==
  ASSUME DocsTyped, changes' = changes
  PROVE  Grown
<1> QED
  BY ChangesTyped DEF Grown

-----------------------------------------------------------------------------
(* What a step does with the entries on their way *)

\* Entries a step may put on their way.
Offered == Carried \cup {e \in Written : Sendable(e.event.src, e)}

LEMMA CarriedHas ==
  /\ \A a \in Appliers : Unfinished(applier[a].todo) \subseteq Carried
  /\ \A v \in DOMAIN letters : letters[v].entry \in Carried
  /\ driver.sent \subseteq Carried
<1> QED
  BY DEF Carried

LEMMA AdvanceTail ==
  ASSUME Typed, NEW a \in Appliers, NEW terminal, Advance(a, terminal),
         applier[a].step \in {"read", "write"}
  PROVE  /\ \A b \in Appliers : b # a => applier'[b] = applier[b]
         /\ applier'[a].step # "write"
         /\ Unfinished(applier'[a].todo) \subseteq Unfinished(applier[a].todo)
<1>1. applier[a].todo \in Seq(Entries) /\ applier[a].todo # <<>>
  BY DEF Typed, AppliersTyped, Loops
<1>2. PICK through, failed, step :
        step \in {"done", "read"} /\ applier' = [applier EXCEPT ![a] =
          [step |-> step, todo |-> Tail(applier[a].todo), through |-> through, failed |-> failed]]
  <2> DEFINE step == IF Len(applier[a].todo) = 1 THEN "done" ELSE "read"
             through == IF terminal /\ applier[a].failed = 0 THEN Head(applier[a].todo).seq
                        ELSE applier[a].through
             failed == IF ~terminal /\ applier[a].failed = 0 THEN Head(applier[a].todo).seq
                       ELSE applier[a].failed
  <2>1. applier' = [applier EXCEPT ![a] =
          [step |-> step, todo |-> Tail(applier[a].todo), through |-> through, failed |-> failed]]
    BY Zenon DEF Advance
  <2>2. step \in {"done", "read"}
    OBVIOUS
  <2> HIDE DEF step, through, failed
  <2> QED
    BY <2>1, <2>2, Zenon
<1>3. /\ \A b \in Appliers : b # a => applier'[b] = applier[b]
      /\ applier'[a].step = step /\ applier'[a].todo = Tail(applier[a].todo)
  BY <1>2 DEF Typed, AppliersTyped
<1>4. Unfinished(Tail(applier[a].todo)) \subseteq Unfinished(applier[a].todo)
  BY <1>1, HeadAndTail
<1> QED
  BY <1>2, <1>3, <1>4

\* A loop that is given a batch.
LEMMA BatchOf ==
  ASSUME Typed, NEW a \in Appliers, NEW S, IsFiniteSet(S), S \subseteq Entries, ByNumber(S),
         applier' = [applier EXCEPT ![a] = Applying(InSeqOrder(S))]
  PROVE  /\ \A b \in Appliers : b # a => applier'[b] = applier[b]
         /\ applier'[a].step # "write" /\ Unfinished(applier'[a].todo) = S
<1> DEFINE s == InSeqOrder(S)
<1>1. s \in Seq(S) /\ Unfinished(s) = S
  BY Listed
<1>2. s \in Seq(Entries)
  BY <1>1, SeqMonotonic
<1> HIDE DEF s
<1>3. Applying(s).todo = s /\ Applying(s).step \in {"done", "read"}
  BY <1>2, ApplyingTyped
<1>4. applier'[a] = Applying(s) /\ \A b \in Appliers : b # a => applier'[b] = applier[b]
  BY DEF Typed, AppliersTyped, s
<1> QED
  BY <1>1, <1>3, <1>4

LEMMA NothingUnfinished == Unfinished(IdleApplier.todo) = {} /\ IdleApplier.step = "idle"
<1> QED
  BY EmptySeq DEF IdleApplier, Unfinished

\* A loop rests, goes on to write its entry, or is left with entries on their way.
LEMMA LoopsMove ==
  ASSUME SyncInv, LinkedInv, [Next]_vars, NEW b \in Appliers
  PROVE  \/ applier'[b] = applier[b]
         \/ ApplyReads(b) /\ applier'[b].todo = applier[b].todo
         \/ applier'[b].step # "write" /\ Unfinished(applier'[b].todo) \subseteq Offered
<1> DEFINE Moved == \/ applier'[b] = applier[b]
                    \/ ApplyReads(b) /\ applier'[b].todo = applier[b].todo
                    \/ applier'[b].step # "write" /\ Unfinished(applier'[b].todo) \subseteq Offered
<1> SUFFICES Moved
  OBVIOUS
<1>0. Typed /\ CursorInv /\ AppliersTyped /\ LettersTyped /\ LogTyped /\ DriverTyped
  BY DEF SyncInv, Typed
<1>1. Unfinished(applier[b].todo) \subseteq Offered /\ Carried \subseteq Offered
  BY CarriedHas DEF Offered
<1>2. ASSUME NEW a \in Appliers, Apply(a)
      PROVE  Moved
  <2>1. CASE ApplyReads(a)
    <3> DEFINE p == [applier[a] EXCEPT !.step = "write"]
    <3>1. applier' = [applier EXCEPT ![a] = p] /\ p.todo = applier[a].todo
      BY <1>0, <2>1 DEF ApplyReads, AppliersTyped, Loops
    <3> HIDE DEF p
    <3>2. applier'[a] = p /\ \A c \in Appliers : c # a => applier'[c] = applier[c]
      BY <1>0, <3>1 DEF AppliersTyped
    <3> QED
      BY <2>1, <3>1, <3>2
  <2>2. CASE ApplySkips(a) \/ ApplyWrites(a) \/ ApplyFails(a)
    <3>1. PICK terminal : Advance(a, terminal)
      BY <2>2 DEF ApplySkips, ApplyWrites, ApplyFails
    <3>2. applier[a].step \in {"read", "write"}
      BY <2>2 DEF ApplySkips, ApplyWrites, ApplyFails
    <3> QED
      BY <1>0, <1>1, <3>1, <3>2, AdvanceTail
  <2> QED
    BY <1>2, <2>1, <2>2 DEF Apply
<1>3. ASSUME NEW h \in Handlers, Push(h)
      PROVE  Moved
  <2>1. /\ SendSet \subseteq log[Active] /\ IsFiniteSet(SendSet)
        /\ SendSet \subseteq Entries /\ ByNumber(SendSet)
    BY <1>0, Windows, FS_Subset DEF ByNumber
  <2>2. applier' = [applier EXCEPT ![h] = Applying(InSeqOrder(SendSet))] /\ h \in Appliers
    BY <1>3, Sites DEF Push
  <2>3. \A e \in SendSet : Sendable(Active, e)
    BY DEF SendSet
  <2>4. SendSet \subseteq Offered
    BY <2>1, <2>3, Different DEF Offered, Written, LinkedInv
  <2> QED
    BY <1>0, <2>1, <2>2, <2>4, BatchOf
<1>4. CASE PullPage
  <2> DEFINE W == Above(log[Passive], cursorIn, BatchLimit)
             S == {e \in W : Sendable(Passive, e)}
  <2>1. applier' = [applier EXCEPT ![Puller] = Applying(InSeqOrder(S))]
    BY <1>4 DEF PullPage
  <2>2. S \subseteq log[Passive] /\ \A e \in S : Sendable(Passive, e)
    BY DEF Above
  <2>3. IsFiniteSet(log[Passive]) /\ ByNumber(log[Passive]) /\ log[Passive] \subseteq Entries
    BY <1>0, Different DEF CursorInv, LogNumbered, LogTyped
  <2> HIDE DEF S
  <2>4. IsFiniteSet(S) /\ ByNumber(S) /\ S \subseteq Entries
    BY <2>2, <2>3, FS_Subset DEF ByNumber
  <2>5. S \subseteq Offered
    BY <2>2, Different DEF Offered, Written, LinkedInv
  <2> QED
    BY <1>0, <2>1, <2>4, <2>5, BatchOf, Sites
<1>5. ASSUME NEW event \in DOMAIN letters, Replay(event)
      PROVE  Moved
  <2> DEFINE s == <<letters[event].entry>>
  <2>1. letters[event].entry \in Entries /\ letters[event].entry \in Carried
    BY <1>0, CarriedHas DEF LettersTyped, Letters
  <2>2. s \in Seq(Entries) /\ Unfinished(s) \subseteq Carried
    BY <2>1 DEF Unfinished
  <2>3. applier' = [applier EXCEPT ![Replayer] = Applying(s)]
    BY <1>5 DEF Replay
  <2> HIDE DEF s
  <2>4. Applying(s).todo = s /\ Applying(s).step \in {"done", "read"}
    BY <2>2, ApplyingTyped
  <2> QED
    BY <1>0, <1>1, <2>2, <2>3, <2>4, Sites DEF AppliersTyped
<1>6. ASSUME NEW a \in Appliers, applier' = [applier EXCEPT ![a] = IdleApplier]
      PROVE  Moved
  BY <1>0, <1>6, NothingUnfinished DEF AppliersTyped
<1>7. ASSUME NEW i \in Instances, Restart(i)
      PROVE  Moved
  <2>1. applier' = [a \in Appliers |-> IF Site(a) = i THEN IdleApplier ELSE applier[a]]
    BY <1>7 DEF Restart
  <2> QED
    BY <2>1, NothingUnfinished
<1>8. CASE UNCHANGED applier
  BY <1>8
<1> HIDE DEF Moved
<1>9. CASE Cycle \/ Clean
  <2>1. PushAnswered => driver.handler \in Appliers
    BY <1>0, Sites DEF PushAnswered, CursorInv, SentInv
  <2>2. PushAnswered => applier' = [applier EXCEPT ![driver.handler] = IdleApplier]
    BY DEF PushAnswered
  <2>3. PullApplied => applier' = [applier EXCEPT ![Puller] = IdleApplier]
    BY DEF PullApplied
  <2>4. ReplayEnds => applier' = [applier EXCEPT ![Replayer] = IdleApplier]
    BY DEF ReplayEnds
  <2>5. \A h \in Handlers : AnswerUnread(h) => applier' = [applier EXCEPT ![h] = IdleApplier]
    BY DEF AnswerUnread
  <2>6. StartCycle \/ NothingToPush => UNCHANGED applier
    BY DEF StartCycle, NothingToPush
  <2> QED
    BY <1>3, <1>4, <1>6, <1>8, <1>9, <2>1, <2>2, <2>3, <2>4, <2>5, <2>6, Sites DEF Cycle, Clean
<1>10. ASSUME NEW i \in Instances, Writer(i)
       PROVE  Moved
  <2>1. UNCHANGED applier
    BY <1>10 DEF Writer, LogChange, PersistToken, syncVars
  <2> QED
    BY <1>8, <2>1
<1>11. CASE Disturb
  <2>1. PushRefused \/ GiveUp \/ PullRefused => UNCHANGED applier
    BY DEF PushRefused, GiveUp, PullRefused
  <2>2. \A i \in Instances :
          UserWrites(i) \/ SwallowChange(i) \/ StreamDies(i) \/ RestartWithoutToken(i)
            \/ CollectLog(i) \/ ExpireTag(i) => UNCHANGED applier
    BY DEF UserWrites, SwallowChange, StreamDies, RestartWithoutToken, CollectLog, ExpireTag, syncVars
  <2>3. \A event : Discard(event) => UNCHANGED applier
    BY DEF Discard
  <2> QED
    BY <1>5, <1>7, <1>8, <1>11, <2>1, <2>2, <2>3 DEF Disturb
<1>12. CASE UNCHANGED vars
  BY <1>8, <1>12 DEF vars, syncVars
<1> QED
  BY <1>2, <1>9, <1>10, <1>11, <1>12 DEF Next

\* What a step does with the deadletters.
LEMMA LettersMove ==
  ASSUME SyncInv, [Next]_vars
  PROVE  /\ LettersKept
         /\ \/ letters' = letters
            \/ \E e \in Carried : letters' = RecordFailure(e)
            \/ \E S : letters' = Clear(S)
            \/ \E v, status : letters' = Resolve(v, status)
<1> DEFINE Goal == /\ LettersKept
                   /\ \/ letters' = letters
                      \/ \E e \in Carried : letters' = RecordFailure(e)
                      \/ \E S : letters' = Clear(S)
                      \/ \E v, status : letters' = Resolve(v, status)
<1> SUFFICES Goal
  OBVIOUS
<1>0. Typed /\ CursorInv /\ LettersTyped /\ AppliersTyped
  BY DEF SyncInv, Typed
<1>1. CASE UNCHANGED letters
  BY <1>0, <1>1, Rests
<1>2. ASSUME NEW e \in Carried, e \in Entries, letters' = RecordFailure(e)
      PROVE  Goal
  BY <1>0, <1>2, RecordTyped
<1>3. ASSUME NEW S, letters' = Clear(S)
      PROVE  Goal
  BY <1>0, <1>3, ClearTyped
<1>4. ASSUME NEW v, NEW status \in {"replayed", "discarded"}, letters' = Resolve(v, status)
      PROVE  Goal
  BY <1>0, <1>4, ResolveTyped
<1> HIDE DEF Goal
<1>5. ASSUME NEW a \in Appliers, Apply(a)
      PROVE  Goal
  <2> DEFINE e == Head(applier[a].todo)
  <2>1. CASE ApplyReads(a)
    BY <1>1, <2>1 DEF ApplyReads
  <2>2. CASE ApplySkips(a) \/ ApplyWrites(a)
    <3>1. PICK applied : AfterTerminal(a, e, applied)
      BY <2>2 DEF ApplySkips, ApplyWrites
    <3>2. \/ letters' = Clear({e.event} \cap DOMAIN letters)
          \/ letters' = Resolve(e.event, "replayed")
          \/ letters' = letters
      BY <3>1 DEF AfterTerminal
    <3> HIDE DEF e
    <3> QED
      BY <1>1, <1>3, <1>4, <3>2
  <2>3. CASE ApplyFails(a)
    <3>1. e \in Carried /\ e \in Entries
      BY <1>0, <2>3, Reading, CarriedHas DEF ApplyFails
    <3>2. letters' = RecordFailure(e) \/ letters' = letters
      BY <2>3 DEF ApplyFails
    <3> HIDE DEF e
    <3> QED
      BY <1>1, <1>2, <3>1, <3>2
  <2> QED
    BY <1>5, <2>1, <2>2, <2>3 DEF Apply
<1>6. CASE PushAnswered
  <2> DEFINE p == applier[driver.handler]
             m == MaxSeq(driver.sent)
             e == CHOOSE x \in driver.sent : x.seq = p.failed
             S == {v \in DOMAIN letters : Outbound(v) /\ letters[v].entry.seq <= p.through}
  <2>1. /\ driver.handler \in Handlers /\ driver.sent # {} /\ IsFiniteSet(driver.sent)
        /\ Progress(p, driver.sent, Active, SettledEvents) /\ p.step = "done"
    BY <1>0, <1>6 DEF PushAnswered, CursorInv, SentInv
  <2>2. letters' = (IF p.through < m THEN RecordFailure(e) ELSE Clear(S))
    BY <1>6 DEF PushAnswered
  <2>3. p \in Loops /\ p.through \in Nat /\ driver.sent \subseteq Entries /\ ByNumber(driver.sent)
    BY <1>0, <2>1, Sites DEF AppliersTyped, Loops, Progress
  <2> HIDE DEF p, S
  <2>4. \E x \in driver.sent : x.seq = m
    BY <2>1, <2>3, Highest
  <2> HIDE DEF m
  <2>5. p.through < m => \E x \in driver.sent : x.seq = p.failed
    BY <2>1, <2>3, <2>4, Answers
  <2>6. p.through < m => e \in driver.sent
    BY <2>5
  <2> HIDE DEF e
  <2>7. p.through < m => e \in Carried /\ e \in Entries
    BY <2>3, <2>6, CarriedHas
  <2> QED
    BY <1>2, <1>3, <2>2, <2>7
<1>7. CASE StartCycle \/ NothingToPush \/ PullPage \/ PullApplied \/ Clean \/ \E h \in Handlers : Push(h)
  <2>1. UNCHANGED letters
    BY <1>7 DEF StartCycle, NothingToPush, PullPage, PullApplied, Push, Clean, ReplayEnds, AnswerUnread
  <2> QED
    BY <1>1, <2>1
<1>8. ASSUME NEW i \in Instances, Writer(i)
      PROVE  Goal
  <2>1. UNCHANGED letters
    BY <1>8 DEF Writer, LogChange, PersistToken, syncVars
  <2> QED
    BY <1>1, <2>1
<1>9. ASSUME NEW event, Discard(event)
      PROVE  Goal
  BY <1>4, <1>9 DEF Discard
<1>10. CASE Disturb
  <2>1. PushRefused \/ GiveUp \/ PullRefused => UNCHANGED letters
    BY DEF PushRefused, GiveUp, PullRefused
  <2>2. \A i \in Instances :
          UserWrites(i) \/ SwallowChange(i) \/ StreamDies(i) \/ RestartWithoutToken(i)
            \/ CollectLog(i) \/ ExpireTag(i) \/ Restart(i) => UNCHANGED letters
    BY DEF UserWrites, SwallowChange, StreamDies, RestartWithoutToken, CollectLog, ExpireTag, Restart,
           syncVars
  <2>3. \A event : Replay(event) => UNCHANGED letters
    BY DEF Replay
  <2> QED
    BY <1>1, <1>9, <1>10, <2>1, <2>2, <2>3 DEF Disturb
<1>11. CASE UNCHANGED vars
  <2>1. UNCHANGED letters
    BY <1>11 DEF vars, syncVars
  <2> QED
    BY <1>1, <2>1
<1> QED
  BY <1>5, <1>6, <1>7, <1>8, <1>10, <1>11 DEF Next, Cycle

\* A letter keeps the entry of an event.
LEMMA LettersHold ==
  ASSUME SyncInv, LinkedInv, [Next]_vars
  PROVE  \A v \in DOMAIN letters' : letters'[v].entry \in Carried /\ letters'[v].entry.event = v
<1>1. \A v \in DOMAIN letters : letters[v].entry \in Carried /\ letters[v].entry.event = v
  BY CarriedHas DEF LinkedInv
<1>2. CASE letters' = letters
  BY <1>1, <1>2
<1>3. ASSUME NEW e \in Carried, letters' = RecordFailure(e)
      PROVE  \A v \in DOMAIN letters' : letters'[v].entry \in Carried /\ letters'[v].entry.event = v
  <2>1. PICK attempts, status :
          letters' = Upsert(letters, e.event, [entry |-> e, attempts |-> attempts, status |-> status])
    <3> DEFINE old == IF e.event \in DOMAIN letters THEN letters[e.event]
                      ELSE [entry |-> e, attempts |-> 0, status |-> "retrying"]
               attempts == IF old.attempts < MaxAttempts THEN old.attempts + 1 ELSE old.attempts
               status == IF old.status = "retrying" /\ attempts >= MaxAttempts THEN "pending"
                         ELSE old.status
    <3>1. letters' = Upsert(letters, e.event, [entry |-> e, attempts |-> attempts, status |-> status])
      BY <1>3 DEF RecordFailure
    <3> HIDE DEF attempts, status
    <3> QED
      BY <3>1
  <2> DEFINE new == [entry |-> e, attempts |-> attempts, status |-> status]
  <2>2. new.entry = e
    OBVIOUS
  <2>3. letters' = [v \in DOMAIN letters \cup {e.event} |-> IF v = e.event THEN new ELSE letters[v]]
    BY <2>1 DEF Upsert
  <2> HIDE DEF new
  <2> QED
    BY <1>1, <2>2, <2>3
<1>4. ASSUME NEW S, letters' = Clear(S)
      PROVE  \A v \in DOMAIN letters' : letters'[v].entry \in Carried /\ letters'[v].entry.event = v
  <2>1. PICK gone : letters' = [v \in DOMAIN letters \ gone |-> letters[v]]
    BY <1>4 DEF Clear
  <2> QED
    BY <1>1, <2>1
<1>5. ASSUME NEW w, NEW status, letters' = Resolve(w, status)
      PROVE  \A v \in DOMAIN letters' : letters'[v].entry \in Carried /\ letters'[v].entry.event = v
  <2>1. letters' = [letters EXCEPT ![w].status = status]
    BY <1>5 DEF Resolve
  <2>2. \A v \in DOMAIN letters : letters[v] \in Letters
    BY DEF SyncInv, Typed, LettersTyped
  <2>3. CASE w \in DOMAIN letters
    <3> DEFINE new == [letters[w] EXCEPT !.status = status]
    <3>1. new.entry = letters[w].entry
      BY <2>2, <2>3 DEF Letters
    <3>2. letters' = [letters EXCEPT ![w] = new]
      BY <2>1
    <3> HIDE DEF new
    <3>3. /\ DOMAIN letters' = DOMAIN letters
          /\ \A v \in DOMAIN letters : letters'[v] = IF v = w THEN new ELSE letters[v]
      BY <3>2
    <3> QED
      BY <1>1, <3>1, <3>3
  <2>4. CASE w \notin DOMAIN letters
    <3>1. DOMAIN letters' = DOMAIN letters /\ \A v \in DOMAIN letters : letters'[v] = letters[v]
      BY <2>1, <2>4
    <3> QED
      BY <1>1, <3>1
  <2> QED
    BY <2>3, <2>4
<1> QED
  BY <1>2, <1>3, <1>4, <1>5, LettersMove

\* The driver sends entries of its own log.
LEMMA SentMoves ==
  ASSUME SyncInv, LinkedInv, [Next]_vars
  PROVE  driver'.sent \subseteq Offered
<1>0. Typed /\ CursorInv /\ driver \in Drivers /\ driver.sent \subseteq Offered
  BY CarriedHas DEF SyncInv, Typed, DriverTyped, Offered
<1>1. \A limit : IdleDriver(limit).sent = {}
  BY DEF IdleDriver
<1>2. \A limit : ToPull(limit) => driver'.sent = {}
  BY DEF ToPull, IdleDriver
<1>3. \A new, full : MoveOutbound(new, full) => driver'.sent = {}
  <2> SUFFICES ASSUME NEW new, NEW full, MoveOutbound(new, full) PROVE driver'.sent = {}
    OBVIOUS
  <2>1. CASE ToPull(BatchLimit)
    BY <1>2, <2>1
  <2>2. CASE ~ToPull(BatchLimit)
    <3>1. driver' = [IdleDriver(driver.limit) EXCEPT !.step = "push", !.excluded = driver.excluded]
      BY <2>2 DEF MoveOutbound
    <3> QED
      BY <3>1 DEF IdleDriver
  <2> QED
    BY <2>1, <2>2
<1>4. CASE UNCHANGED driver
  BY <1>0, <1>4
<1>5. CASE Cycle
  <2>1. CASE StartCycle
    <3>1. driver'.sent = driver.sent
      BY <1>0, <2>1 DEF StartCycle, Drivers
    <3> QED
      BY <1>0, <3>1
  <2>2. CASE NothingToPush
    BY <1>2, <1>3, <2>2 DEF NothingToPush
  <2>3. CASE PushAnswered
    BY <1>3, <2>3 DEF PushAnswered
  <2>4. CASE PullPage
    <3>1. driver'.sent = driver.sent
      BY <1>0, <2>4 DEF PullPage, Drivers
    <3> QED
      BY <1>0, <3>1
  <2>5. CASE PullApplied
    <3> DEFINE idle == IdleDriver(driver.limit)
    <3>1. \E step : driver' = [idle EXCEPT !.step = step]
      BY <2>5 DEF PullApplied
    <3>2. driver'.sent = {}
      BY <3>1 DEF IdleDriver
    <3> QED
      BY <3>2
  <2>6. ASSUME NEW h \in Handlers, Push(h)
        PROVE  driver'.sent \subseteq Offered
    <3>1. driver'.sent = SendSet
      BY <1>0, <2>6 DEF Push, Drivers
    <3>2. SendSet \subseteq log[Active] /\ \A e \in SendSet : Sendable(Active, e)
      BY <1>0, Windows DEF SendSet
    <3> QED
      BY <3>1, <3>2, Different DEF Offered, Written, LinkedInv
  <2> QED
    BY <1>5, <2>1, <2>2, <2>3, <2>4, <2>5, <2>6 DEF Cycle
<1>6. CASE Clean
  BY <1>4, <1>6 DEF Clean, ReplayEnds, AnswerUnread
<1>7. ASSUME NEW i \in Instances, Writer(i)
      PROVE  driver'.sent \subseteq Offered
  <2>1. UNCHANGED driver
    BY <1>7 DEF Writer, LogChange, PersistToken, syncVars
  <2> QED
    BY <1>4, <2>1
<1>8. ASSUME NEW a \in Appliers, Apply(a)
      PROVE  driver'.sent \subseteq Offered
  <2>1. UNCHANGED driver
    BY <1>8 DEF Apply, ApplySkips, ApplyReads, ApplyWrites, ApplyFails
  <2> QED
    BY <1>4, <2>1
<1>9. CASE Disturb
  <2>1. PushRefused \/ GiveUp => driver'.sent = {}
    BY <1>2 DEF PushRefused, GiveUp
  <2>2. PullRefused => driver'.sent = {}
    BY <1>1 DEF PullRefused
  <2>3. \A i \in Instances :
          UserWrites(i) \/ SwallowChange(i) \/ StreamDies(i) \/ RestartWithoutToken(i)
            \/ CollectLog(i) \/ ExpireTag(i) => UNCHANGED driver
    BY DEF UserWrites, SwallowChange, StreamDies, RestartWithoutToken, CollectLog, ExpireTag, syncVars
  <2>4. \A i \in Instances : Restart(i) => UNCHANGED driver \/ driver'.sent = {}
    BY <1>1, <1>2 DEF Restart
  <2>5. \A event : Replay(event) \/ Discard(event) => UNCHANGED driver
    BY DEF Replay, Discard
  <2> QED
    BY <1>4, <1>9, <2>1, <2>2, <2>3, <2>4, <2>5 DEF Disturb
<1>10. CASE UNCHANGED vars
  <2>1. UNCHANGED driver
    BY <1>10 DEF vars, syncVars
  <2> QED
    BY <1>4, <2>1
<1> QED
  BY <1>5, <1>6, <1>7, <1>8, <1>9, <1>10 DEF Next

LEMMA CarriedMoves ==
  ASSUME SyncInv, LinkedInv, [Next]_vars
  PROVE  Carried' \subseteq Offered
<1>1. Carried \subseteq Offered
  BY DEF Offered
<1>2. ASSUME NEW a \in Appliers
      PROVE  Unfinished(applier'[a].todo) \subseteq Offered
  BY <1>1, LoopsMove, CarriedHas
<1>3. \A v \in DOMAIN letters' : letters'[v].entry \in Offered
  BY <1>1, LettersHold
<1>4. driver'.sent \subseteq Offered
  BY SentMoves
<1> QED
  BY <1>2, <1>3, <1>4 DEF Carried

-----------------------------------------------------------------------------
(* The base of the invariant is kept *)

\* Neither documents, changes, log entries nor outcomes.
Quietly ==
  /\ UNCHANGED <<now, docs, changes, log, logged, handled, clobbered>>
  /\ \A i \in Instances : DOMAIN tags'[i] \subseteq DOMAIN tags[i]

LEMMA StepKinds ==
  ASSUME TagsTyped, [Next]_vars
  PROVE  \/ \E i \in Instances : UserWrites(i) \/ LogChange(i) \/ CollectLog(i)
         \/ \E a \in Appliers : ApplySkips(a) \/ ApplyWrites(a) \/ ApplyFails(a)
         \/ Quietly
<1>1. CASE Cycle \/ Clean
  BY <1>1 DEF Cycle, Clean, StartCycle, NothingToPush, Push, PushAnswered, PullPage, PullApplied,
              ReplayEnds, AnswerUnread, streamVars, dataVars, Quietly
<1>2. CASE PushRefused \/ GiveUp \/ PullRefused
  BY <1>2 DEF PushRefused, GiveUp, PullRefused, streamVars, dataVars, Quietly
<1>3. \A i \in Instances : PersistToken(i) => Quietly
  BY DEF PersistToken, dataVars, Quietly
<1>4. \A i \in Instances :
        SwallowChange(i) \/ StreamDies(i) \/ RestartWithoutToken(i) \/ Restart(i) => Quietly
  BY DEF SwallowChange, StreamDies, RestartWithoutToken, Restart, dataVars, Quietly
<1>5. ASSUME NEW i \in Instances, ExpireTag(i)
      PROVE  Quietly
  <2>1. PICK new : tags' = [tags EXCEPT ![i] = new] /\ DOMAIN new \subseteq DOMAIN tags[i]
    BY <1>5 DEF ExpireTag
  <2>2. \A j \in Instances : DOMAIN tags'[j] \subseteq DOMAIN tags[j]
    BY <2>1 DEF TagsTyped
  <2> QED
    BY <1>5, <2>2 DEF ExpireTag, streamVars, Quietly
<1>6. \A event : Replay(event) \/ Discard(event) => Quietly
  BY DEF Replay, Discard, streamVars, dataVars, Quietly
<1>7. \A a \in Appliers : ApplyReads(a) => Quietly
  BY DEF ApplyReads, streamVars, dataVars, Quietly
<1>8. CASE UNCHANGED vars
  BY <1>8 DEF vars, streamVars, dataVars, Quietly
<1> QED
  BY <1>1, <1>2, <1>3, <1>4, <1>5, <1>6, <1>7, <1>8 DEF Next, Writer, Apply, Disturb

LEMMA StepGrows ==
  ASSUME SyncInv, [Next]_vars
  PROVE  Grown /\ now \in Nat /\ now' \in Nat /\ now <= now'
<1>0. Typed /\ DocsTyped /\ TagsTyped /\ TimeTyped
  BY DEF SyncInv, Typed
<1>1. SyncInv'
  BY SyncStep
<1>2. now \in Nat /\ now' \in Nat
  BY <1>0, <1>1 DEF SyncInv, Typed, TimeTyped
<1>3. ASSUME NEW i \in Instances, UserWrites(i)
      PROVE  Grown /\ now <= now'
  <2>1. PICK d \in Docs, version \in {Missing, [at |-> now', by |-> i]} : Put(i, d, version, now')
    BY <1>3 DEF UserWrites
  <2> QED
    BY <1>0, <1>2, <1>3, <2>1, PutNumbers DEF UserWrites
<1>4. ASSUME NEW a \in Appliers, ApplyWrites(a)
      PROVE  Grown /\ now <= now'
  <2> DEFINE e == Head(applier[a].todo)
  <2>1. e \in Entries /\ Site(a) \in Instances
    BY <1>0, <1>4, Reading DEF ApplyWrites
  <2>2. Put(Site(a), e.doc, e.version, now) /\ now' = now
    BY <1>4 DEF ApplyWrites
  <2> HIDE DEF e
  <2>3. e.doc \in Docs
    BY <2>1 DEF Entries
  <2> QED
    BY <1>0, <1>2, <2>1, <2>2, <2>3, PutNumbers
<1>5. ASSUME UNCHANGED <<now, changes>>
      PROVE  Grown /\ now <= now'
  BY <1>0, <1>2, <1>5, StillGrown
<1>6. \A i \in Instances : LogChange(i) \/ CollectLog(i) => UNCHANGED <<now, changes>>
  BY DEF LogChange, CollectLog, dataVars
<1>7. \A a \in Appliers : ApplySkips(a) \/ ApplyFails(a) => UNCHANGED <<now, changes>>
  BY DEF ApplySkips, ApplyFails, streamVars
<1>8. Quietly => UNCHANGED <<now, changes>>
  BY DEF Quietly
<1> QED
  BY <1>0, <1>2, <1>3, <1>4, <1>5, <1>6, <1>7, <1>8, StepKinds

\* A change is dropped for good, and was in the stream.
LEMMA DroppedMoves ==
  ASSUME SyncInv, StreamInv, LinkedInv, [Next]_vars
  PROVE  dropped \subseteq dropped' /\ \A v \in dropped' \ dropped : InStream(v)
<1> DEFINE Goal == dropped \subseteq dropped' /\ \A v \in dropped' \ dropped : InStream(v)
<1> SUFFICES Goal
  OBVIOUS
<1>0. DocsTyped /\ WriterTyped
  BY DEF SyncInv, Typed
<1>1. CASE UNCHANGED dropped
  BY <1>1
<1>2. ASSUME NEW i \in Instances, SwallowChange(i)
      PROVE  Goal
  <2> DEFINE n == writer[i].at + 1
  <2>1. dropped' = dropped \cup {Event(i, n)} /\ writer[i].at < Len(changes[i])
    BY <1>2 DEF SwallowChange
  <2>2. writer[i].at \in Nat /\ Len(changes[i]) \in Nat
    BY <1>0, ChangesTyped DEF WriterTyped
  <2>3. n \in 1..Len(changes[i])
    BY <2>1, <2>2
  <2>4. InStream(Event(i, n))
    BY <2>3 DEF InStream, Event
  <2> QED
    BY <2>1, <2>4
<1>3. ASSUME NEW i \in Instances, NEW t, WatchFrom(i, t)
      PROVE  Goal
  <2>1. PICK S : S \subseteq {Event(i, n) : n \in 1..Len(changes[i])} /\ dropped' = dropped \cup S
    <3>1. CASE t = NoToken
      BY <1>3, <3>1 DEF WatchFrom
    <3>2. CASE t # NoToken
      BY <1>3, <3>2 DEF WatchFrom
    <3> QED
      BY <3>1, <3>2
  <2>2. \A n \in 1..Len(changes[i]) : InStream(Event(i, n))
    BY DEF InStream, Event
  <2> QED
    BY <2>1, <2>2
<1>4. ASSUME NEW i \in Instances, CollectLog(i)
      PROVE  Goal
  <2>1. PICK S : S \subseteq log[i] /\ dropped' = dropped \cup {f.event : f \in S}
    BY <1>4 DEF CollectLog
  <2>2. \A f \in log[i] : InStream(f.event)
    BY DEF LinkedInv, Written, Linked
  <2> QED
    BY <2>1, <2>2
<1> HIDE DEF Goal
<1>5. CASE Cycle \/ Clean
  <2>1. UNCHANGED dropped
    BY <1>5 DEF Cycle, Clean, StartCycle, NothingToPush, Push, PushAnswered, PullPage, PullApplied,
                ReplayEnds, AnswerUnread, streamVars
  <2> QED
    BY <1>1, <2>1
<1>6. ASSUME NEW a \in Appliers, Apply(a)
      PROVE  Goal
  <2>1. UNCHANGED dropped
    BY <1>6 DEF Apply, ApplySkips, ApplyReads, ApplyWrites, ApplyFails, streamVars
  <2> QED
    BY <1>1, <2>1
<1>7. ASSUME NEW i \in Instances, Writer(i)
      PROVE  Goal
  <2>1. UNCHANGED dropped
    BY <1>7 DEF Writer, LogChange, PersistToken
  <2> QED
    BY <1>1, <2>1
<1>8. CASE Disturb
  <2>1. PushRefused \/ GiveUp \/ PullRefused => UNCHANGED dropped
    BY DEF PushRefused, GiveUp, PullRefused, streamVars
  <2>2. \A i \in Instances : UserWrites(i) \/ StreamDies(i) \/ ExpireTag(i) => UNCHANGED dropped
    BY DEF UserWrites, StreamDies, ExpireTag, streamVars
  <2>3. \A i \in Instances : RestartWithoutToken(i) => WatchFrom(i, NoToken)
    BY DEF RestartWithoutToken
  <2>4. \A i \in Instances : Restart(i) => WatchFrom(i, token[i])
    BY DEF Restart
  <2>5. \A event : Replay(event) \/ Discard(event) => UNCHANGED dropped
    BY DEF Replay, Discard, streamVars
  <2> QED
    BY <1>1, <1>2, <1>3, <1>4, <1>8, <2>1, <2>2, <2>3, <2>4, <2>5 DEF Disturb
<1>9. CASE UNCHANGED vars
  <2>1. UNCHANGED dropped
    BY <1>9 DEF vars, streamVars
  <2> QED
    BY <1>1, <2>1
<1> QED
  BY <1>5, <1>6, <1>7, <1>8, <1>9 DEF Next

-----------------------------------------------------------------------------
(* The log, the events and the last changes *)

\* A log loses entries, or its writer adds the one of the change it has reached.
LEMMA LogMoves ==
  ASSUME SyncInv, StreamInv, [Next]_vars
  PROVE  /\ \A i \in Instances : \A e \in log'[i] :
              e \in log[i] \/ (LogChange(i) /\ e = NewEntry(i, writer[i].at + 1))
         /\ logged \subseteq logged'
         /\ \A v \in logged' :
              v \in logged \/ \E i \in Instances : LogChange(i) /\ v = Event(i, writer[i].at + 1)
<1>0. LogTyped /\ TagsTyped /\ EntriesInv
  BY DEF SyncInv, Typed, StreamInv
<1>1. ASSUME UNCHANGED <<log, logged>>
      PROVE  /\ \A i \in Instances : log'[i] \subseteq log[i]
             /\ UNCHANGED logged
  BY <1>1
<1>2. ASSUME NEW i \in Instances, CollectLog(i)
      PROVE  /\ \A j \in Instances : log'[j] \subseteq log[j]
             /\ UNCHANGED logged
  BY <1>0, <1>2 DEF CollectLog, LogTyped
<1>3. ASSUME NEW i \in Instances, LogChange(i)
      PROVE  /\ \A j \in Instances : j # i => log'[j] = log[j]
             /\ \A e \in log'[i] : e \in log[i] \/ e = NewEntry(i, writer[i].at + 1)
             /\ logged \subseteq logged'
             /\ \A v \in logged' : v \in logged \/ v = Event(i, writer[i].at + 1)
  <2> DEFINE new == NewEntry(i, writer[i].at + 1)
  <2>1. /\ log' = IF AlreadyLogged(i, new) THEN log ELSE [log EXCEPT ![i] = @ \cup {new}]
        /\ logged' = logged \cup {f.event : f \in log'[i]}
    BY <1>3 DEF LogChange
  <2>2. new.event = Event(i, writer[i].at + 1)
    BY DEF NewEntry, EntryOf
  <2> HIDE DEF new
  <2>3. /\ \A j \in Instances : j # i => log'[j] = log[j]
        /\ \A e \in log'[i] : e \in log[i] \/ e = new
    BY <1>0, <2>1 DEF LogTyped
  <2>4. \A f \in log[i] : f.event \in logged
    BY <1>0 DEF EntriesInv
  <2> QED
    BY <2>1, <2>2, <2>3, <2>4 DEF new
<1>4. \A i \in Instances : UserWrites(i) => UNCHANGED <<log, logged>>
  BY DEF UserWrites
<1>5. \A a \in Appliers : ApplySkips(a) \/ ApplyWrites(a) \/ ApplyFails(a) => UNCHANGED <<log, logged>>
  BY DEF ApplySkips, ApplyWrites, ApplyFails, streamVars
<1>6. Quietly => UNCHANGED <<log, logged>>
  BY DEF Quietly
<1>7. CASE \E i \in Instances : LogChange(i)
  BY <1>3, <1>7
<1>8. CASE ~ \E i \in Instances : LogChange(i)
  <2>1. (\A i \in Instances : log'[i] \subseteq log[i]) /\ UNCHANGED logged
    BY <1>0, <1>1, <1>2, <1>4, <1>5, <1>6, <1>8, StepKinds
  <2> QED
    BY <2>1
<1> QED
  BY <1>7, <1>8

\* The entry a writer makes belongs to its change.
EntryFits(e, i, n) ==
  /\ Linked(e) /\ e.event = Event(i, n) /\ e.doc = changes[i][n].doc
  /\ changes[i][n].version = Missing =>
       e.op = "delete" /\ e.hasProject = TRUE /\ e.origin = i
  /\ changes[i][n].version # Missing =>
       /\ e.op = "upsert" /\ e.version = docs[i][e.doc]
       /\ e.version # Missing => e.hasProject = TRUE
       /\ <<e.doc, TimeOf(e.version)>> \notin DOMAIN tags[i] => e.origin = i

LEMMA EntryFitting ==
  ASSUME DocsTyped, TaggedInv, NEW i \in Instances, NEW n \in 1..Len(changes[i]), NEW seq
  PROVE  EntryFits(EntryOf(i, n, seq), i, n)
<1> DEFINE c == changes[i][n]
           op == IF c.version = Missing THEN "delete" ELSE "upsert"
           version == IF op = "delete" THEN Missing ELSE docs[i][c.doc]
           tag == <<c.doc, TimeOf(version)>>
           at == IF op = "delete" THEN c.clusterMs ELSE TimeOf(version)
           origin == IF tag \in DOMAIN tags[i] THEN tags[i][tag] ELSE i
           e == EntryOf(i, n, seq)
<1>1. e = [seq |-> seq, event |-> Event(i, n), doc |-> c.doc, op |-> op, version |-> version,
           at |-> at, hasProject |-> op = "delete" \/ version # Missing, origin |-> origin]
  BY DEF EntryOf
<1> HIDE DEF e
<1>2. /\ e.event = Event(i, n) /\ e.doc = c.doc /\ e.op = op /\ e.version = version /\ e.at = at
      /\ e.origin = origin /\ e.hasProject = (op = "delete" \/ version # Missing)
      /\ e.event.src = i /\ e.event.n = n
  BY <1>1 DEF Event
<1>3. Cause(e) = c /\ InStream(e.event)
  BY <1>2 DEF Cause, InStream
<1>4. c.version = Missing => op = "delete" /\ version = Missing /\ at = c.clusterMs
  OBVIOUS
<1>5. c.version # Missing => op = "upsert" /\ version = docs[i][c.doc] /\ at = TimeOf(version)
  OBVIOUS
<1>6. Linked(e)
  BY <1>2, <1>3, <1>4, <1>5 DEF Linked
<1>7. c.version = Missing => origin = i
  <2>1. ASSUME c.version = Missing, tag \in DOMAIN tags[i]
        PROVE  FALSE
    <3>1. tag = <<c.doc, 0>>
      BY <1>4, <2>1 DEF TimeOf, NoTime
    <3>2. <<c.doc, 0>> \in Docs \X (Nat \ {0})
      BY <2>1, <3>1 DEF TaggedInv
    <3> QED
      BY <3>2
  <2> QED
    BY <2>1
<1>8. tag \notin DOMAIN tags[i] => origin = i
  OBVIOUS
<1> HIDE DEF op, version, at, origin, c
<1>9. EntryFits(e, i, n)
  BY <1>2, <1>4, <1>5, <1>6, <1>7, <1>8 DEF c, EntryFits
<1> QED
  BY <1>9 DEF e

LEMMA LinkedKept ==
  ASSUME SyncInv, StreamInv, LinkedInv, TaggedInv, [Next]_vars
  PROVE  LinkedInv'
<1>0. DocsTyped /\ WriterTyped /\ Grown
  BY StepGrows DEF SyncInv, Typed
<1>1. \A e : Linked(e) => Linked(e)'
  <2> SUFFICES ASSUME NEW e, Linked(e) PROVE Linked(e)'
    OBVIOUS
  <2>1. InStream(e.event) /\ InStream(e.event)' /\ Cause(e)' = Cause(e)
    BY <1>0, GrownKeeps DEF Linked, Cause
  <2> QED
    BY <2>1 DEF Linked, Cause
<1>2. ASSUME NEW i \in Instances, LogChange(i)
      PROVE  Linked(NewEntry(i, writer[i].at + 1)) /\ NewEntry(i, writer[i].at + 1).event.src = i
  <2> DEFINE n == writer[i].at + 1
             seq == counter[i] + 1
  <2>1. n \in 1..Len(changes[i])
    <3>1. writer[i].at \in Nat /\ Len(changes[i]) \in Nat /\ writer[i].at < Len(changes[i])
      BY <1>0, <1>2, ChangesTyped DEF LogChange, WriterTyped
    <3> QED
      BY <3>1
  <2>2. NewEntry(i, n) = EntryOf(i, n, seq)
    BY DEF NewEntry
  <2> HIDE DEF n, seq
  <2>3. EntryFits(NewEntry(i, n), i, n)
    BY <1>0, <2>1, <2>2, EntryFitting
  <2> QED
    BY <2>3 DEF n, EntryFits, Event
<1>3. ASSUME NEW i \in Instances, NEW e \in log'[i]
      PROVE  Linked(e)' /\ e.event.src = i
  <2>1. CASE e \in log[i]
    BY <1>1, <2>1 DEF LinkedInv, Written
  <2>2. CASE LogChange(i) /\ e = NewEntry(i, writer[i].at + 1)
    BY <1>1, <1>2, <2>2
  <2> QED
    BY <1>3, <2>1, <2>2, LogMoves
<1>4. ASSUME NEW e \in Carried'
      PROVE  Linked(e)' /\ e.origin = e.event.src
  <2>1. e \in Offered
    BY <1>4, CarriedMoves
  <2>2. Linked(e) /\ e.origin = e.event.src
    BY <2>1 DEF Offered, LinkedInv, Sendable
  <2> QED
    BY <1>1, <2>2
<1>5. \A v \in DOMAIN letters' : letters'[v].entry.event = v
  BY LettersHold
<1>6. \A e \in Written' : Linked(e)'
  BY <1>3 DEF Written
<1> QED
  BY <1>3, <1>4, <1>5, <1>6 DEF LinkedInv

LEMMA HandledMoves ==
  ASSUME SyncInv, [Next]_vars
  PROVE  /\ handled \subseteq handled'
         /\ \A v \in handled' \ handled : \E e \in Carried : v = e.event
<1>0. Typed /\ TagsTyped
  BY DEF SyncInv, Typed
<1>1. ASSUME NEW a \in Appliers, ApplySkips(a) \/ ApplyWrites(a)
      PROVE  /\ handled \subseteq handled'
             /\ \A v \in handled' \ handled : \E e \in Carried : v = e.event
  <2> DEFINE e == Head(applier[a].todo)
  <2>1. handled' = handled \/ handled' = handled \cup {e.event}
    BY <1>1 DEF ApplySkips, ApplyWrites
  <2>2. e \in Carried
    BY <1>0, <1>1, Reading, CarriedHas DEF ApplySkips, ApplyWrites
  <2> QED
    BY <2>1, <2>2
<1>2. \A i \in Instances : UserWrites(i) \/ LogChange(i) \/ CollectLog(i) => handled' = handled
  BY DEF UserWrites, LogChange, CollectLog, dataVars
<1>3. \A a \in Appliers : ApplyFails(a) => handled' = handled
  BY DEF ApplyFails
<1>4. Quietly => handled' = handled
  BY DEF Quietly
<1> QED
  BY <1>0, <1>1, <1>2, <1>3, <1>4, StepKinds

LEMMA EventsKept ==
  ASSUME SyncInv, StreamInv, LinkedInv, EventsInv, [Next]_vars
  PROVE  EventsInv'
<1>0. Grown /\ DocsTyped /\ WriterTyped
  BY StepGrows DEF SyncInv, Typed
<1>1. \A v : InStream(v) => InStream(v)'
  BY <1>0, GrownKeeps
<1>2. \A v \in logged' : InStream(v)'
  <2> SUFFICES ASSUME NEW v \in logged', v \notin logged PROVE InStream(v)'
    BY <1>1 DEF EventsInv
  <2>1. PICK i \in Instances : LogChange(i) /\ v = Event(i, writer[i].at + 1)
    BY LogMoves
  <2>2. writer[i].at \in Nat /\ Len(changes[i]) \in Nat /\ writer[i].at < Len(changes[i])
    BY <1>0, <2>1, ChangesTyped DEF LogChange, WriterTyped
  <2>3. InStream(v)
    BY <2>1, <2>2 DEF InStream, Event
  <2> QED
    BY <1>1, <2>3
<1>3. \A v \in handled' : InStream(v)'
  BY <1>1, HandledMoves DEF EventsInv, LinkedInv, Linked
<1>4. \A v \in dropped' : InStream(v)'
  BY <1>1, DroppedMoves DEF EventsInv
<1> QED
  BY <1>2, <1>3, <1>4 DEF EventsInv

\* A document is what its last change made it.
LEMMA PutLast ==
  ASSUME DocsTyped, LastInv, NEW i \in Instances, NEW d \in Docs, NEW version, NEW ms,
         Put(i, d, version, ms)
  PROVE  LastInv'
<1> SUFFICES ASSUME NEW j \in Instances, NEW f \in Docs
             PROVE  IF Numbers(j, f)' = {} THEN docs'[j][f] = Missing
                    ELSE \E n \in Numbers(j, f)' :
                           docs'[j][f] = changes'[j][n].version /\ \A m \in Numbers(j, f)' : m <= n
  BY DEF LastInv
<1>1. Grown
  BY PutNumbers
<1>2. docs'[j][f] = IF j = i /\ f = d THEN version ELSE docs[j][f]
  BY PutGives
<1>3. \A n \in Numbers(j, f) : changes'[j][n] = changes[j][n]
  BY <1>1, GrownKeeps
<1>4. CASE j # i \/ f # d \/ version = docs[i][d]
  <2>1. Numbers(j, f)' = Numbers(j, f) /\ docs'[j][f] = docs[j][f]
    BY <1>2, <1>4, PutNumbers
  <2> QED
    BY <1>3, <2>1 DEF LastInv
<1>5. CASE j = i /\ f = d /\ version # docs[i][d]
  <2> DEFINE k == Len(changes[i]) + 1
  <2>1. Numbers(i, d)' = Numbers(i, d) \cup {k}
    BY <1>5, PutNumbers
  <2>2. changes'[i][k].version = version
    <3>1. changes'[i][k] = ChangeOf(d, version, ms)
      BY <1>5, PutGives
    <3> QED
      BY <3>1 DEF ChangeOf
  <2>3. Len(changes[i]) \in Nat
    BY ChangesTyped
  <2>4. \A m \in Numbers(i, d) : m <= k
    BY <2>3 DEF Numbers
  <2>5. k <= k
    BY <2>3
  <2> HIDE DEF k
  <2>6. k \in Numbers(i, d)' /\ docs'[i][d] = changes'[i][k].version
        /\ \A m \in Numbers(i, d)' : m <= k
    BY <1>2, <1>5, <2>1, <2>2, <2>4, <2>5
  <2>7. Numbers(j, f)' = Numbers(i, d)' /\ docs'[j][f] = docs'[i][d] /\ changes'[j] = changes'[i]
    BY <1>5
  <2> QED
    BY <2>6, <2>7
<1> QED
  BY <1>4, <1>5

LEMMA LastKept ==
  ASSUME SyncInv, LastInv, [Next]_vars
  PROVE  LastInv'
<1>0. Typed /\ DocsTyped /\ TagsTyped
  BY DEF SyncInv, Typed
<1>1. ASSUME UNCHANGED <<docs, changes>>
      PROVE  LastInv'
  BY <1>1 DEF LastInv, Numbers
<1>2. \A i \in Instances : UserWrites(i) => LastInv'
  BY <1>0, PutLast DEF UserWrites
<1>3. ASSUME NEW a \in Appliers, ApplyWrites(a)
      PROVE  LastInv'
  <2> DEFINE e == Head(applier[a].todo)
  <2>1. e \in Entries /\ Site(a) \in Instances
    BY <1>0, <1>3, Reading DEF ApplyWrites
  <2>2. Put(Site(a), e.doc, e.version, now) /\ e.doc \in Docs
    BY <1>3, <2>1 DEF ApplyWrites, Entries
  <2> QED
    BY <1>0, <2>1, <2>2, PutLast
<1>4. \A i \in Instances : LogChange(i) \/ CollectLog(i) => UNCHANGED <<docs, changes>>
  BY DEF LogChange, CollectLog, dataVars
<1>5. \A a \in Appliers : ApplySkips(a) \/ ApplyFails(a) => UNCHANGED <<docs, changes>>
  BY DEF ApplySkips, ApplyFails, streamVars
<1>6. Quietly => UNCHANGED <<docs, changes>>
  BY DEF Quietly
<1> QED
  BY <1>0, <1>1, <1>2, <1>3, <1>4, <1>5, <1>6, StepKinds

\* What a loop that writes is about to write.
Writes(a, i, e) ==
  /\ applier[a].step = "write" /\ i = Site(a) /\ e = Head(applier[a].todo)
  /\ i \in Instances /\ e \in Entries /\ e \in Carried /\ e.doc \in Enabled[i]
  /\ e.event.src = Other(i) /\ e.origin = Other(i) /\ Linked(e)
  /\ e.op = "delete" => e.version = Missing /\ e.at = Cause(e).clusterMs
  /\ e.op = "upsert" => e.version \in Versions /\ e.at = e.version.at /\ e.at \in Nat \ {0}

LEMMA Writing ==
  ASSUME SyncInv, LinkedInv, WriteInv, NEW a \in Appliers, applier[a].step = "write"
  PROVE  Writes(a, Site(a), Head(applier[a].todo))
<1> DEFINE e == Head(applier[a].todo)
           i == Site(a)
<1>1. Typed
  BY DEF SyncInv
<1>2. e \in Entries /\ e \in Carried /\ i \in Instances
  BY <1>1, Reading, CarriedHas
<1>3. e.origin # i /\ e.doc \in Enabled[i] /\ (e.op = "delete" \/ e.version # Missing)
  BY DEF WriteInv
<1> HIDE DEF e, i
<1>4. Linked(e) /\ e.origin = e.event.src
  BY <1>2 DEF LinkedInv
<1>5. e.event.src \in Instances /\ e.origin \in Instances
  BY <1>4, <1>2 DEF Linked, InStream, Entries
<1>6. e.origin = Other(i) /\ e.event.src = Other(i)
  BY <1>2, <1>3, <1>4, <1>5, Others
<1>7. e.op = "delete" => e.version = Missing /\ e.at = Cause(e).clusterMs
  BY <1>4 DEF Linked
<1>8. e.op = "upsert" => e.version \in Versions /\ e.at = e.version.at /\ e.at \in Nat \ {0}
  <2> SUFFICES ASSUME e.op = "upsert"
               PROVE  e.version \in Versions /\ e.at = e.version.at /\ e.at \in Nat \ {0}
    OBVIOUS
  <2>1. e.version \in Versions
    BY <1>2, <1>3 DEF Entries
  <2>2. e.version # Missing /\ e.at = TimeOf(e.version)
    BY <1>3, <1>4 DEF Linked
  <2> QED
    BY <2>1, <2>2 DEF TimeOf, Versions
<1>9. applier[a].step = "write" /\ i = Site(a) /\ e = Head(applier[a].todo)
  BY DEF e, i
<1>10. Writes(a, i, e)
  BY <1>2, <1>3, <1>4, <1>6, <1>7, <1>8, <1>9 DEF Writes
<1> QED
  BY <1>10 DEF e, i

\* A tag is that of an entry a loop writes, or fails to write.
LEMMA TagsMove ==
  ASSUME SyncInv, LinkedInv, WriteInv, [Next]_vars,
         NEW i \in Instances, NEW tag \in DOMAIN tags'[i], tag \notin DOMAIN tags[i]
  PROVE  \E a \in Appliers, e \in Entries :
           /\ ApplyWrites(a) \/ ApplyFails(a)
           /\ Writes(a, i, e) /\ e.op = "upsert" /\ tag = <<e.doc, e.at>>
           /\ ~TooLate(i, e) \/ e.doc \in clobbered'
<1>0. TagsTyped /\ Typed
  BY DEF SyncInv, Typed
<1>1. ASSUME NEW a \in Appliers, ApplyWrites(a) \/ ApplyFails(a)
      PROVE  \E e \in Entries :
               /\ Writes(a, i, e) /\ e.op = "upsert" /\ tag = <<e.doc, e.at>>
               /\ ~TooLate(i, e) \/ e.doc \in clobbered'
  <2> DEFINE e == Head(applier[a].todo)
             j == Site(a)
  <2>1. applier[a].step = "write" /\ tags' = Tagged(j, e) /\ Clobber(j, e)
    BY <1>1 DEF ApplyWrites, ApplyFails
  <2>2. Writes(a, j, e)
    BY <2>1, Writing
  <2> HIDE DEF e, j
  <2>3. e.op \in {"upsert", "delete"} /\ j \in Instances /\ e \in Entries
    BY <2>2 DEF Writes, Entries
  <2>4. e.op # "delete"
    BY <2>1 DEF Tagged
  <2>5. tags' = [tags EXCEPT ![j] = Upsert(@, <<e.doc, e.at>>, e.origin)]
    BY <2>1, <2>4 DEF Tagged
  <2>6. \A m \in Instances : m # j => tags'[m] = tags[m]
    BY <2>5, <1>0 DEF TagsTyped
  <2>7. i = j
    BY <2>6
  <2>8. tags'[j] = Upsert(tags[j], <<e.doc, e.at>>, e.origin)
    BY <2>3, <2>5, <1>0 DEF TagsTyped
  <2>9. DOMAIN tags'[j] = DOMAIN tags[j] \cup {<<e.doc, e.at>>}
    BY <2>8 DEF Upsert
  <2>10. tag = <<e.doc, e.at>>
    BY <2>7, <2>9
  <2>11. ~TooLate(j, e) \/ e.doc \in clobbered'
    BY <2>1 DEF Clobber
  <2> QED
    BY <2>2, <2>3, <2>4, <2>7, <2>10, <2>11
<1>2. \A j \in Instances : UserWrites(j) \/ LogChange(j) \/ CollectLog(j) => tags' = tags
  BY DEF UserWrites, LogChange, CollectLog, dataVars
<1>3. \A a \in Appliers : ApplySkips(a) => tags' = tags
  BY DEF ApplySkips
<1>4. Quietly => DOMAIN tags'[i] \subseteq DOMAIN tags[i]
  BY DEF Quietly
<1>5. PICK a \in Appliers : ApplyWrites(a) \/ ApplyFails(a)
  BY <1>0, <1>2, <1>3, <1>4, StepKinds
<1> QED
  BY <1>1, <1>5

LEMMA TaggedKept ==
  ASSUME SyncInv, LinkedInv, WriteInv, TaggedInv, [Next]_vars
  PROVE  TaggedInv'
<1> SUFFICES ASSUME NEW i \in Instances, NEW tag \in DOMAIN tags'[i]
             PROVE  tag \in Docs \X (Nat \ {0})
  BY DEF TaggedInv
<1>1. CASE tag \in DOMAIN tags[i]
  BY <1>1 DEF TaggedInv
<1>2. CASE tag \notin DOMAIN tags[i]
  <2>1. PICK a \in Appliers, e \in Entries : Writes(a, i, e) /\ e.op = "upsert" /\ tag = <<e.doc, e.at>>
    BY <1>2, TagsMove
  <2>2. e.doc \in Docs /\ e.at \in Nat \ {0}
    BY <2>1 DEF Writes, Entries
  <2> QED
    BY <2>1, <2>2
<1> QED
  BY <1>1, <1>2

LEMMA PastKept ==
  ASSUME SyncInv, PastInv, LinkedInv, WriteInv, [Next]_vars
  PROVE  PastInv'
<1>0. DocsTyped /\ TagsTyped /\ TimeTyped /\ Typed
  BY DEF SyncInv, Typed
<1>1. Grown /\ now \in Nat /\ now' \in Nat /\ now <= now'
  BY StepGrows
<1>2. ASSUME NEW i \in Instances, NEW d \in Docs, NEW version, NEW ms \in Nat, Put(i, d, version, ms),
             ms <= now'
      PROVE  PastInv'
  <2> SUFFICES ASSUME NEW j \in Instances, NEW n \in 1..Len(changes'[j])
               PROVE  changes'[j][n].clusterMs <= now'
    BY DEF PastInv
  <2>1. CASE n \in 1..Len(changes[j])
    <3>1. changes[j][n].clusterMs \in Nat /\ changes[j][n].clusterMs <= now /\ changes'[j][n] = changes[j][n]
      BY <1>0, <1>1, <2>1, ChangesTyped DEF PastInv, Grown
    <3> QED
      BY <1>1, <3>1
  <2>2. CASE n \notin 1..Len(changes[j])
    <3>1. j = i /\ version # docs[i][d] /\ n = Len(changes[i]) + 1
      <4>1. changes'[j] # changes[j]
        BY <2>2
      <4>2. j = i /\ version # docs[i][d] /\ Len(changes'[i]) = Len(changes[i]) + 1
        BY <1>0, <1>2, <4>1, PutGives
      <4>3. Len(changes[i]) \in Nat
        BY <1>1 DEF Grown
      <4> QED
        BY <2>2, <4>2, <4>3
    <3>2. changes'[j][n] = ChangeOf(d, version, ms)
      BY <1>0, <1>2, <3>1, PutGives
    <3>3. changes'[j][n].clusterMs = (ms \div SecondLength) * SecondLength
      BY <3>2 DEF ChangeOf
    <3> QED
      BY <1>1, <1>2, <3>3, SecondsPassed
  <2> QED
    BY <2>1, <2>2
<1>3. ASSUME UNCHANGED changes
      PROVE  PastInv'
  <2> SUFFICES ASSUME NEW j \in Instances, NEW n \in 1..Len(changes[j])
               PROVE  changes[j][n].clusterMs <= now'
    BY <1>3 DEF PastInv
  <2>1. changes[j][n].clusterMs \in Nat /\ changes[j][n].clusterMs <= now
    BY <1>0, ChangesTyped DEF PastInv
  <2> QED
    BY <1>1, <2>1
<1>4. \A i \in Instances : UserWrites(i) => PastInv'
  <2> SUFFICES ASSUME NEW i \in Instances, UserWrites(i) PROVE PastInv'
    OBVIOUS
  <2>1. PICK d \in Docs, version \in {Missing, [at |-> now', by |-> i]} : Put(i, d, version, now')
    BY DEF UserWrites
  <2>2. now' <= now'
    BY <1>1
  <2> QED
    BY <1>1, <1>2, <2>1, <2>2
<1>5. \A a \in Appliers : ApplyWrites(a) => PastInv'
  <2> SUFFICES ASSUME NEW a \in Appliers, ApplyWrites(a) PROVE PastInv'
    OBVIOUS
  <2> DEFINE e == Head(applier[a].todo)
  <2>1. applier[a].step = "write" /\ Put(Site(a), e.doc, e.version, now)
    BY DEF ApplyWrites
  <2>2. e.doc \in Docs /\ Site(a) \in Instances
    BY <2>1, <1>0, Reading DEF Entries
  <2> HIDE DEF e
  <2> QED
    BY <1>1, <1>2, <2>1, <2>2
<1>6. \A i \in Instances : LogChange(i) \/ CollectLog(i) => UNCHANGED changes
  BY DEF LogChange, CollectLog
<1>7. \A a \in Appliers : ApplySkips(a) \/ ApplyFails(a) => UNCHANGED changes
  BY DEF ApplySkips, ApplyFails, streamVars
<1>8. Quietly => UNCHANGED changes
  BY DEF Quietly
<1> QED
  BY <1>0, <1>3, <1>4, <1>5, <1>6, <1>7, <1>8, StepKinds

LEMMA WriteKept ==
  ASSUME SyncInv, LinkedInv, WriteInv, [Next]_vars
  PROVE  WriteInv'
<1> DEFINE Checked(i, e) == /\ e.origin # i /\ e.doc \in Enabled[i]
                            /\ e.op = "delete" \/ e.version # Missing
<1> SUFFICES ASSUME NEW a \in Appliers, applier'[a].step = "write"
             PROVE  Checked(Site(a), Head(applier'[a].todo))
  BY DEF WriteInv
<1>1. CASE applier'[a] = applier[a]
  BY <1>1 DEF WriteInv
<1>2. CASE ApplyReads(a) /\ applier'[a].todo = applier[a].todo
  BY <1>2 DEF ApplyReads
<1> QED
  BY <1>1, <1>2, LoopsMove

LEMMA BaseInitially == Init => BaseInv
<1> SUFFICES ASSUME Init PROVE BaseInv
  OBVIOUS
<1>1. /\ docs = [i \in Instances |-> [d \in Docs |-> Missing]]
      /\ changes = [i \in Instances |-> <<>>] /\ log = [i \in Instances |-> {}]
      /\ tags = [i \in Instances |-> <<>>] /\ letters = <<>>
      /\ driver = IdleDriver(BatchLimit) /\ applier = [a \in Appliers |-> IdleApplier]
      /\ logged = {} /\ handled = {} /\ dropped = {}
  BY DEF Init
<1>2. DOMAIN (<<>>) = {} /\ Len(<<>>) = 0
  BY EmptySeq
<1>3. \A i \in Instances : changes[i] = <<>> /\ log[i] = {} /\ tags[i] = <<>>
  BY <1>1
<1>4. \A i \in Instances, d \in Docs : Numbers(i, d) = {} /\ docs[i][d] = Missing
  BY <1>1, <1>2, <1>3 DEF Numbers
<1>5. Carried = {} /\ Written = {}
  <2>1. \A a \in Appliers : Unfinished(applier[a].todo) = {}
    BY <1>1, NothingUnfinished
  <2>2. driver.sent = {}
    BY <1>1 DEF IdleDriver
  <2> QED
    BY <1>1, <1>2, <1>3, <2>1, <2>2 DEF Carried, Written
<1>6. EventsInv
  BY <1>1 DEF EventsInv
<1>7. LastInv /\ PastInv /\ TaggedInv
  BY <1>2, <1>3, <1>4 DEF LastInv, PastInv, TaggedInv
<1>8. LinkedInv
  BY <1>1, <1>2, <1>3, <1>5 DEF LinkedInv
<1>9. WriteInv
  BY <1>1, NothingUnfinished DEF WriteInv
<1> QED
  BY <1>6, <1>7, <1>8, <1>9 DEF BaseInv

\* What the proofs below know of a state.
Base == SyncInv /\ StreamInv /\ BaseInv

LEMMA BaseStep == Base /\ [Next]_vars => Base'
<1> SUFFICES ASSUME Base, [Next]_vars PROVE Base'
  OBVIOUS
<1>1. SyncInv /\ StreamInv /\ EventsInv /\ LastInv /\ PastInv /\ TaggedInv /\ LinkedInv /\ WriteInv
  BY DEF Base, BaseInv
<1>2. SyncInv' /\ StreamInv'
  BY <1>1, SyncStep, StreamStep
<1>3. EventsInv' /\ LastInv' /\ PastInv' /\ TaggedInv' /\ LinkedInv' /\ WriteInv'
  BY <1>1, EventsKept, LastKept, PastKept, TaggedKept, LinkedKept, WriteKept
<1> QED
  BY <1>2, <1>3 DEF Base, BaseInv

LEMMA BaseInvariant == Spec => []Base
<1>1. Init => Base
  BY SyncInitially, StreamInitially, BaseInitially DEF Base
<1> QED
  BY <1>1, BaseStep, PTL DEF Spec

-----------------------------------------------------------------------------
(* A step back *)

LEMMA StepBase ==
  ASSUME Base, [Next]_vars
  PROVE  /\ Base' /\ SyncInv /\ StreamInv /\ SyncInv' /\ Typed /\ DocsTyped /\ DocsTyped' /\ TagsTyped
         /\ EventsInv /\ LastInv /\ PastInv /\ TaggedInv /\ LinkedInv /\ WriteInv
         /\ EventsInv' /\ LastInv' /\ PastInv' /\ LinkedInv'
         /\ Grown /\ now \in Nat /\ now' \in Nat /\ now <= now'
<1>1. Base'
  BY BaseStep
<1>2. SyncInv /\ StreamInv
  BY DEF Base
<1> QED
  BY <1>1, <1>2, StepGrows DEF Base, BaseInv, SyncInv, Typed

\* Nobody has disturbed the document before, if nobody has after.
LEMMA CalmBefore ==
  ASSUME Base, [Next]_vars, NEW d \in Docs, Calm(d)'
  PROVE  Calm(d)
<1>0. /\ SyncInv /\ StreamInv /\ LinkedInv /\ LinkedInv' /\ EventsInv /\ Grown /\ TagsTyped
  BY StepBase
<1>1. \A i \in Instances : d \in Enabled[i]
  BY DEF Calm
<1>2. clobbered \subseteq clobbered'
  <2>1. \A a \in Appliers : ApplyWrites(a) \/ ApplyFails(a) => clobbered \subseteq clobbered'
    BY DEF ApplyWrites, ApplyFails, Clobber
  <2>2. \A a \in Appliers : ApplySkips(a) => UNCHANGED clobbered
    BY DEF ApplySkips
  <2>3. \A i \in Instances : UserWrites(i) \/ LogChange(i) \/ CollectLog(i) => UNCHANGED clobbered
    BY DEF UserWrites, LogChange, CollectLog, dataVars
  <2> QED
    BY <1>0, <2>1, <2>2, <2>3, StepKinds DEF Quietly
<1>3. d \notin clobbered
  BY <1>2 DEF Calm
<1>4. \A v \in dropped : changes[v.src][v.n].doc # d
  <2> SUFFICES ASSUME NEW v \in dropped PROVE changes[v.src][v.n].doc # d
    OBVIOUS
  <2>1. v \in dropped' /\ InStream(v)
    BY <1>0, DroppedMoves DEF EventsInv
  <2>2. changes'[v.src][v.n] = changes[v.src][v.n]
    BY <1>0, <2>1, GrownKeeps
  <2> QED
    BY <2>1, <2>2 DEF Calm
<1>5. ASSUME NEW v \in DOMAIN letters, letters[v].status # "retrying"
      PROVE  letters[v].entry.doc # d
  <2>1. v \in DOMAIN letters' /\ letters'[v].status # "retrying"
    BY <1>0, <1>5, LettersMove DEF LettersKept
  <2>2. PICK e, f : e = letters[v].entry /\ f = letters'[v].entry
    OBVIOUS
  <2>3. e \in Carried /\ f \in Carried' /\ e.event = v /\ f.event = v
    BY <1>0, <2>1, <2>2 DEF LinkedInv, Carried
  <2>4. Linked(e) /\ Linked(f)'
    BY <1>0, <2>3 DEF LinkedInv
  <2>5. InStream(v) /\ e.doc = changes[v.src][v.n].doc
    BY <2>3, <2>4 DEF Linked, Cause
  <2>6. f.doc = changes'[v.src][v.n].doc
    BY <2>3, <2>4 DEF Linked, Cause
  <2>7. changes'[v.src][v.n] = changes[v.src][v.n]
    BY <1>0, <2>5, GrownKeeps
  <2>8. f.doc # d
    BY <2>1, <2>2 DEF Calm
  <2> QED
    BY <2>2, <2>5, <2>6, <2>7, <2>8
<1> QED
  BY <1>1, <1>3, <1>4, <1>5 DEF Calm

LEMMA KeptBefore ==
  ASSUME Base, [Next]_vars, NEW d \in Docs
  PROVE  (Kept(d)' => Kept(d)) /\ (Final(d)' => Final(d))
<1>1. Grown
  BY StepBase
<1>2. \A i \in Instances : /\ VersionsAt(i, d) \subseteq VersionsAt(i, d)'
                           /\ Numbers(i, d) \subseteq Numbers(i, d)'
  BY <1>1, GrownKeeps
<1>3. \A i \in Instances : \A n \in Numbers(i, d) : changes'[i][n] = changes[i][n]
  BY <1>1, GrownKeeps
<1>4. Kept(d)' => Kept(d)
  BY <1>2 DEF Kept
<1>5. Final(d)' => Final(d)
  <2> SUFFICES ASSUME Final(d)', NEW i \in Instances, NEW j \in Instances, NEW u \in VersionsAt(i, d),
                      NEW n \in Deletions(j, d), u # Missing
               PROVE  u.at < changes[j][n].clusterMs
    BY DEF Final
  <2>1. u \in VersionsAt(i, d)' /\ n \in Deletions(j, d)' /\ changes'[j][n] = changes[j][n]
    BY <1>2, <1>3 DEF Deletions
  <2> QED
    BY <2>1 DEF Final
<1> QED
  BY <1>4, <1>5

-----------------------------------------------------------------------------
(* What a step does to a document *)

\* The document d of i becomes version; the peer's stays.
Becomes(i, d, version) ==
  /\ docs'[i][d] = version /\ docs'[Other(i)][d] = docs[Other(i)][d]
  /\ VersionsAt(i, d)' \subseteq VersionsAt(i, d) \cup {version}
  /\ VersionsAt(Other(i), d)' = VersionsAt(Other(i), d)
  /\ \A n \in Numbers(i, d)' \ Numbers(i, d) :
       /\ changes'[i][n].version = version
       /\ \E ms \in {now, now'} : changes'[i][n].clusterMs = (ms \div SecondLength) * SecondLength
  /\ Numbers(Other(i), d)' = Numbers(Other(i), d)

Stays(d) ==
  \A i \in Instances : /\ docs'[i][d] = docs[i][d]
                       /\ VersionsAt(i, d)' = VersionsAt(i, d) /\ Numbers(i, d)' = Numbers(i, d)

\* Somebody saves or deletes the document.
UserPuts(i, d, version) ==
  /\ Becomes(i, d, version) /\ docs[i][d] # version
  /\ version = Missing \/ /\ version \in Versions /\ version.by = i /\ version.at = now'
                          /\ TimeOf(docs[i][d]) < version.at
                          /\ <<d, version.at>> \notin DOMAIN tags[i]
  /\ UNCHANGED <<tags, log, logged, handled>>

ApplyPuts(a, i, e) ==
  /\ ApplyWrites(a) /\ Writes(a, i, e) /\ Becomes(i, e.doc, e.version)
  /\ ~TooLate(i, e) \/ e.doc \in clobbered'
  /\ handled' = handled \cup {e.event} /\ UNCHANGED <<log, logged>>

LEMMA PutBecomes ==
  ASSUME DocsTyped, NEW i \in Instances, NEW d \in Docs, NEW version, NEW ms \in {now, now'},
         Put(i, d, version, ms)
  PROVE  Becomes(i, d, version) /\ \A f \in Docs : f # d => Stays(f)
<1>1. Other(i) \in Instances /\ Other(i) # i /\ \A j \in Instances : j = i \/ j = Other(i)
  BY Others
<1>2. docs'[i][d] = version /\ docs'[Other(i)][d] = docs[Other(i)][d]
  BY <1>1, PutGives
<1>3. VersionsAt(Other(i), d)' = VersionsAt(Other(i), d) /\ Numbers(Other(i), d)' = Numbers(Other(i), d)
  BY <1>1, PutNumbers
<1>4. VersionsAt(i, d)' \subseteq VersionsAt(i, d) \cup {version}
  BY PutNumbers
<1>5. ASSUME NEW n \in Numbers(i, d)' \ Numbers(i, d)
      PROVE  /\ changes'[i][n].version = version
             /\ changes'[i][n].clusterMs = (ms \div SecondLength) * SecondLength
  <2>1. version # docs[i][d] /\ n = Len(changes[i]) + 1
    BY <1>5, PutNumbers
  <2>2. changes'[i][n] = ChangeOf(d, version, ms)
    BY <2>1, PutGives
  <2> QED
    BY <2>2 DEF ChangeOf
<1>6. Becomes(i, d, version)
  BY <1>2, <1>3, <1>4, <1>5 DEF Becomes
<1>7. ASSUME NEW f \in Docs, f # d
      PROVE  Stays(f)
  <2> SUFFICES ASSUME NEW j \in Instances
               PROVE  /\ docs'[j][f] = docs[j][f]
                      /\ VersionsAt(j, f)' = VersionsAt(j, f) /\ Numbers(j, f)' = Numbers(j, f)
    BY DEF Stays
  <2> QED
    BY <1>7, PutGives, PutNumbers
<1> QED
  BY <1>6, <1>7

LEMMA DocumentMoves ==
  ASSUME Base, [Next]_vars, NEW d \in Docs
  PROVE  \/ Stays(d)
         \/ \E i \in Instances : \E version : UserPuts(i, d, version)
         \/ \E i \in Instances, a \in Appliers, e \in Entries : ApplyPuts(a, i, e) /\ e.doc = d
<1>0. /\ SyncInv /\ DocsTyped /\ TagsTyped /\ LinkedInv /\ WriteInv
      /\ now' \in Nat
  BY StepBase
<1>1. ASSUME UNCHANGED <<docs, changes>>
      PROVE  Stays(d)
  BY <1>1 DEF Stays, VersionsAt, Numbers
<1>2. ASSUME NEW i \in Instances, UserWrites(i)
      PROVE  Stays(d) \/ \E version : UserPuts(i, d, version)
  <2>1. PICK f \in Docs, version \in {Missing, [at |-> now', by |-> i]} :
          /\ docs[i][f] # version /\ Put(i, f, version, now')
          /\ version # Missing => TimeOf(docs[i][f]) < now' /\ <<f, now'>> \notin DOMAIN tags[i]
    BY <1>2 DEF UserWrites
  <2>2. Becomes(i, f, version) /\ (f # d => Stays(d))
    BY <1>0, <2>1, PutBecomes
  <2>3. UNCHANGED <<tags, log, logged, handled>>
    BY <1>2 DEF UserWrites
  <2>4. version # Missing => /\ version \in Versions /\ version.by = i /\ version.at = now'
                             /\ TimeOf(docs[i][f]) < version.at /\ <<f, version.at>> \notin DOMAIN tags[i]
    <3> SUFFICES ASSUME version # Missing
                 PROVE  /\ version \in Versions /\ version.by = i /\ version.at = now'
                        /\ TimeOf(docs[i][f]) < version.at /\ <<f, version.at>> \notin DOMAIN tags[i]
      OBVIOUS
    <3>1. version = [at |-> now', by |-> i] /\ TimeOf(docs[i][f]) < now' /\ <<f, now'>> \notin DOMAIN tags[i]
      BY <2>1
    <3>2. version.at = now' /\ version.by = i
      BY <3>1
    <3>3. TimeTyped'
      BY StepBase DEF SyncInv, Typed
    <3>4. version \in Versions
      BY <3>1, <3>3 DEF Versions, TimeTyped
    <3> QED
      BY <3>1, <3>2, <3>4
  <2>5. UserPuts(i, f, version)
    BY <2>1, <2>2, <2>3, <2>4 DEF UserPuts
  <2> QED
    BY <2>2, <2>5
<1>3. ASSUME NEW a \in Appliers, ApplyWrites(a)
      PROVE  Stays(d) \/ \E i \in Instances, e \in Entries : ApplyPuts(a, i, e) /\ e.doc = d
  <2> DEFINE e == Head(applier[a].todo)
             i == Site(a)
  <2>1. applier[a].step = "write" /\ Put(i, e.doc, e.version, now) /\ Clobber(i, e)
        /\ handled' = handled \cup {e.event} /\ UNCHANGED <<log, logged>>
    BY <1>3 DEF ApplyWrites
  <2>2. Writes(a, i, e)
    BY <1>0, <2>1, Writing
  <2> HIDE DEF e, i
  <2>3. i \in Instances /\ e \in Entries /\ e.doc \in Docs
    BY <2>2 DEF Writes, Entries
  <2>4. Becomes(i, e.doc, e.version) /\ (e.doc # d => Stays(d))
    BY <1>0, <2>1, <2>3, PutBecomes
  <2>5. ~TooLate(i, e) \/ e.doc \in clobbered'
    BY <2>1 DEF Clobber
  <2>6. ApplyPuts(a, i, e)
    BY <1>3, <2>1, <2>2, <2>4, <2>5 DEF ApplyPuts
  <2> QED
    BY <2>3, <2>4, <2>6
<1>4. \A i \in Instances : LogChange(i) \/ CollectLog(i) => UNCHANGED <<docs, changes>>
  BY DEF LogChange, CollectLog, dataVars
<1>5. \A a \in Appliers : ApplySkips(a) \/ ApplyFails(a) => UNCHANGED <<docs, changes>>
  BY DEF ApplySkips, ApplyFails, streamVars
<1>6. Quietly => UNCHANGED <<docs, changes>>
  BY DEF Quietly
<1> QED
  BY <1>0, <1>1, <1>2, <1>3, <1>4, <1>5, <1>6, StepKinds

-----------------------------------------------------------------------------
(* Convergence: versions go up *)

LEMMA CarriedTyped ==
  ASSUME Typed
  PROVE  Carried \subseteq Entries /\ Written \subseteq Entries
<1>1. \A a \in Appliers : Unfinished(applier[a].todo) \subseteq Entries
  BY DEF Typed, AppliersTyped, Loops, Unfinished
<1>2. \A v \in DOMAIN letters : letters[v].entry \in Entries
  BY DEF Typed, LettersTyped, Letters
<1>3. driver.sent \subseteq Entries
  BY DEF Typed, DriverTyped, Drivers
<1>4. Written \subseteq Entries
  BY DEF Typed, LogTyped, Written
<1> QED
  BY <1>1, <1>2, <1>3, <1>4 DEF Carried

LEMMA OrderHolds ==
  /\ \A u \in Versions : NotAfter(u, u)
  /\ \A u, v, w \in Versions : NotAfter(u, v) /\ NotAfter(v, w) => NotAfter(u, w)
  /\ \A u, v \in Versions : NotAfter(u, v) /\ NotAfter(v, u) => u = v
<1>1. \A u \in Versions : u.at \in Nat /\ u.by \in Instances
  BY DEF Versions
<1>2. \A u, v \in Versions : u.at = v.at /\ u.by = v.by => u = v
  BY DEF Versions
<1> QED
  BY <1>1, <1>2 DEF NotAfter

\* A document that nobody deleted, before the step.
Going(d) == Base /\ Calm(d) /\ Kept(d) /\ Converging(d)

LEMMA GoingHas ==
  ASSUME NEW d \in Docs, Going(d)
  PROVE  /\ Base /\ RisingInv(d) /\ CarriesInv(d) /\ TagsInv(d) /\ HandledInv(d) /\ DeliveredInv(d)
         /\ \A i \in Instances :
              /\ VersionsAt(i, d) \subseteq Versions
              /\ docs[i][d] # Missing => docs[i][d] \in Versions /\ docs[i][d] \in VersionsAt(i, d)
              /\ docs[i][d] = Missing => VersionsAt(i, d) = {} /\ Numbers(i, d) = {}
<1>1. /\ RisingInv(d) /\ CarriesInv(d) /\ TagsInv(d) /\ HandledInv(d) /\ DeliveredInv(d)
  BY DEF Going, Converging
<1>2. DocsTyped /\ LastInv
  BY DEF Going, Base, BaseInv, SyncInv, Typed
<1>3. ASSUME NEW i \in Instances
      PROVE  /\ VersionsAt(i, d) \subseteq Versions
             /\ docs[i][d] # Missing => docs[i][d] \in Versions /\ docs[i][d] \in VersionsAt(i, d)
             /\ docs[i][d] = Missing => VersionsAt(i, d) = {} /\ Numbers(i, d) = {}
  <2>1. VersionsAt(i, d) \subseteq Versions /\ docs[i][d] \in Versions \cup {Missing}
    BY <1>2, ChangesTyped DEF Going, Kept
  <2>2. docs[i][d] # Missing => docs[i][d] \in VersionsAt(i, d)
    BY <1>2 DEF LastInv, VersionsAt
  <2>3. docs[i][d] = Missing => VersionsAt(i, d) = {}
    BY <1>1 DEF RisingInv, Reached
  <2>4. VersionsAt(i, d) = {} => Numbers(i, d) = {}
    BY DEF VersionsAt
  <2> QED
    BY <2>1, <2>2, <2>3, <2>4
<1> QED
  BY <1>1, <1>3 DEF Going

\* What an entry of the document says.
Entered(d, e) ==
  /\ e.event.src \in Instances /\ e.event.n \in Numbers(e.event.src, d)
  /\ e.op = "upsert" /\ e.at = e.version.at
  /\ Cause(e) = changes[e.event.src][e.event.n]
  /\ Cause(e).version \in Versions /\ Cause(e).version \in VersionsAt(e.event.src, d)
  /\ e.version \in Versions /\ e.version \in VersionsAt(e.event.src, d)
  /\ NotAfter(Cause(e).version, e.version)

LEMMA EntryEntered ==
  ASSUME NEW d \in Docs, Going(d), NEW e \in Written \cup Carried, e.doc = d
  PROVE  Entered(d, e)
<1>1. CarriesInv(d) /\ LinkedInv /\ Typed /\ \A i \in Instances : VersionsAt(i, d) \subseteq Versions
  BY GoingHas DEF Going, Base, BaseInv, SyncInv
<1>2. Linked(e) /\ e \in Entries
  BY <1>1, CarriedTyped DEF LinkedInv
<1>3. e.event.src \in Instances /\ e.event.n \in Numbers(e.event.src, d)
  BY <1>2 DEF Linked, InStream, Cause, Numbers
<1>4. Cause(e).version \in VersionsAt(e.event.src, d)
  BY <1>3 DEF Cause, VersionsAt
<1>5. Cause(e).version # Missing
  BY <1>3, <1>4 DEF Going, Kept
<1>6. e.op = "upsert" /\ e.at = TimeOf(e.version)
  BY <1>2, <1>5 DEF Linked, Entries
<1>7. e.version \in VersionsAt(e.event.src, d) /\ NotAfter(Cause(e).version, e.version)
  BY <1>1 DEF CarriesInv
<1>8. e.version # Missing
  BY <1>3, <1>7 DEF Going, Kept
<1>9. e.at = e.version.at
  BY <1>6, <1>8 DEF TimeOf
<1>10. Cause(e) = changes[e.event.src][e.event.n]
  BY DEF Cause
<1> QED
  BY <1>1, <1>3, <1>4, <1>6, <1>7, <1>9, <1>10 DEF Entered

\* A version made at i is later than the one i had; at the same millisecond the winner's
\* takes the place of the other's.
Higher(i, d, version) ==
  /\ version \in Versions
  /\ docs[i][d] = Missing \/ NotAfter(docs[i][d], version)
  /\ i = Winner => docs[i][d] = Missing \/ docs[i][d].at < version.at
  /\ version.by \in Instances /\ version \in VersionsAt(version.by, d)'
  /\ i = Winner /\ version.by = i =>
       version \in VersionsAt(i, d) \/ (UNCHANGED tags /\ <<d, version.at>> \notin DOMAIN tags[i])

LEMMA UserHigher ==
  ASSUME NEW d \in Docs, Going(d), [Next]_vars, Kept(d)', NEW i \in Instances, NEW version,
         UserPuts(i, d, version)
  PROVE  Higher(i, d, version)
<1>1. LastInv' /\ docs'[i][d] = version /\ version \in Versions \cup {Missing}
  BY StepBase DEF UserPuts, Becomes, Going
<1>2. version # Missing
  <2>1. SUFFICES ASSUME version = Missing PROVE FALSE
    OBVIOUS
  <2>2. docs[i][d] # Missing
    BY <2>1 DEF UserPuts
  <2>3. Numbers(i, d) # {}
    BY <2>2 DEF Going, Base, BaseInv, LastInv
  <2>4. Grown
    BY StepBase DEF Going
  <2>5. Numbers(i, d)' # {}
    BY <2>3, <2>4, GrownKeeps
  <2>6. PICK n \in Numbers(i, d)' : Missing = changes'[i][n].version
    BY <1>1, <2>1, <2>5 DEF LastInv
  <2>7. Missing \in VersionsAt(i, d)'
    BY <2>6 DEF VersionsAt
  <2> QED
    BY <2>7 DEF Kept
<1>3. version \in Versions /\ version.by = i /\ version.at \in Nat
      /\ TimeOf(docs[i][d]) < version.at /\ <<d, version.at>> \notin DOMAIN tags[i] /\ UNCHANGED tags
  BY <1>2 DEF UserPuts, Versions
<1>4. docs[i][d] = Missing \/ docs[i][d].at < version.at
  BY <1>3 DEF TimeOf
<1>5. version \in VersionsAt(i, d)'
  BY <1>1, <1>2 DEF LastInv, VersionsAt
<1> QED
  BY <1>3, <1>4, <1>5 DEF Higher, NotAfter

\* Applies, of versions.
LEMMA AppliesUp ==
  ASSUME NEW i \in Instances, NEW u \in Versions \cup {Missing}, NEW w \in Versions,
         Applies(TimeOf(u), w.at, i, Other(i))
  PROVE  u = Missing \/ u.at < w.at \/ (u.at = w.at /\ Other(i) = Winner)
<1>1. w.at \in Nat \ {0} /\ Other(i) # i
  BY Others DEF Versions
<1>2. u # Missing => TimeOf(u) = u.at /\ u.at \in Nat \ {0}
  BY DEF Versions, TimeOf
<1> QED
  BY <1>1, <1>2 DEF Applies, NoTime

LEMMA ApplyHigher ==
  ASSUME NEW d \in Docs, Going(d), [Next]_vars, Calm(d)', NEW i \in Instances, NEW a \in Appliers,
         NEW e \in Entries, ApplyPuts(a, i, e), e.doc = d
  PROVE  Higher(i, d, e.version) /\ e \in Carried /\ e.event.src = Other(i)
<1> DEFINE v == e.version
           o == Other(i)
<1>1. o \in Instances /\ o # i /\ \A j \in Instances : j = i \/ j = o
  BY Others
<1>2. e \in Carried /\ e.event.src = o /\ e.origin = o
  BY DEF ApplyPuts, Writes
<1>3. Entered(d, e)
  BY <1>2, EntryEntered
<1>4. v \in Versions /\ e.at = v.at /\ v \in VersionsAt(o, d)
  BY <1>2, <1>3 DEF Entered
<1>5. /\ RisingInv(d)
      /\ docs[i][d] # Missing => docs[i][d] \in Versions /\ docs[i][d] \in VersionsAt(i, d)
  BY GoingHas
<1>6. Applies(TimeOf(docs[i][d]), v.at, i, o)
  <2>1. ~TooLate(i, e)
    BY DEF ApplyPuts, Calm
  <2> QED
    BY <1>2, <1>4, <2>1 DEF TooLate
<1>7. docs[i][d] = Missing \/ docs[i][d].at < v.at \/ (docs[i][d].at = v.at /\ o = Winner)
  BY <1>4, <1>5, <1>6, AppliesUp
<1>8. v.by \in Instances /\ v \in VersionsAt(v.by, d)
  BY <1>1, <1>4, <1>5 DEF RisingInv, Versions
<1>9. v \in VersionsAt(v.by, d)'
  BY <1>8, StepBase, GrownKeeps DEF Going
<1>10. docs[i][d] = Missing \/ NotAfter(docs[i][d], v)
  <2> SUFFICES ASSUME docs[i][d] # Missing, docs[i][d].at = v.at, o = Winner
               PROVE  v.by \in {Winner, docs[i][d].by}
    BY <1>7 DEF NotAfter
  <2>1. docs[i][d].by \in Instances /\ docs[i][d] \in VersionsAt(docs[i][d].by, d)
    BY <1>5 DEF Versions, RisingInv
  <2>2. CASE docs[i][d].by = Winner
    <3>1. docs[i][d] = v
      BY <1>4, <1>5, <2>1, <2>2 DEF RisingInv
    <3> QED
      BY <2>2, <3>1
  <2>3. CASE docs[i][d].by = i
    BY <1>1, <1>8, <2>3
  <2> QED
    BY <1>1, <2>1, <2>2, <2>3
<1>11. i = Winner => docs[i][d] = Missing \/ docs[i][d].at < v.at
  BY <1>1, <1>7
<1>12. i = Winner /\ v.by = i => v \in VersionsAt(i, d)
  BY <1>8
<1>13. Higher(i, d, v)
  BY <1>4, <1>8, <1>9, <1>10, <1>11, <1>12 DEF Higher
<1> QED
  BY <1>2, <1>13

\* A step takes a document that nobody disturbs or deletes up in the order, if it moves it.
LEMMA GoesUp ==
  ASSUME NEW d \in Docs, Going(d), [Next]_vars, Calm(d)', Kept(d)'
  PROVE  Stays(d) \/ \E i \in Instances, version \in Versions :
                       Becomes(i, d, version) /\ Higher(i, d, version)
<1>1. \A i \in Instances : \A version : UserPuts(i, d, version) =>
        Becomes(i, d, version) /\ Higher(i, d, version) /\ version \in Versions
  BY UserHigher DEF UserPuts, Higher
<1>2. \A i \in Instances, a \in Appliers, e \in Entries : ApplyPuts(a, i, e) /\ e.doc = d =>
        Becomes(i, d, e.version) /\ Higher(i, d, e.version) /\ e.version \in Versions
  BY ApplyHigher DEF ApplyPuts, Higher
<1> QED
  BY <1>1, <1>2, DocumentMoves DEF Going

LEMMA ReachedKept ==
  ASSUME NEW d \in Docs, Going(d), [Next]_vars, Calm(d)', Kept(d)'
  PROVE  \A i \in Instances :
           /\ docs[i][d] # Missing => /\ docs'[i][d] # Missing /\ docs[i][d] \in Versions
                                      /\ docs'[i][d] \in Versions /\ NotAfter(docs[i][d], docs'[i][d])
                                      /\ docs[i][d].at <= docs'[i][d].at
           /\ \A v \in Versions : Reached(i, d, v) => Reached(i, d, v)'
<1> SUFFICES ASSUME NEW i \in Instances
             PROVE  /\ docs[i][d] # Missing => /\ docs'[i][d] # Missing /\ docs[i][d] \in Versions
                                               /\ docs'[i][d] \in Versions /\ NotAfter(docs[i][d], docs'[i][d])
                                               /\ docs[i][d].at <= docs'[i][d].at
                    /\ \A v \in Versions : Reached(i, d, v) => Reached(i, d, v)'
  OBVIOUS
<1>1. docs[i][d] # Missing => docs[i][d] \in Versions
  BY GoingHas
<1>2. \/ docs'[i][d] = docs[i][d]
      \/ /\ docs'[i][d] \in Versions
         /\ docs[i][d] = Missing \/ NotAfter(docs[i][d], docs'[i][d])
  <2>1. CASE Stays(d)
    BY <2>1 DEF Stays
  <2>2. ASSUME NEW j \in Instances, NEW version \in Versions, Becomes(j, d, version), Higher(j, d, version)
        PROVE  \/ docs'[i][d] = docs[i][d]
               \/ docs'[i][d] \in Versions /\ (docs[i][d] = Missing \/ NotAfter(docs[i][d], docs'[i][d]))
    <3>1. docs'[j][d] = version /\ docs'[Other(j)][d] = docs[Other(j)][d]
      BY <2>2 DEF Becomes
    <3>2. docs[j][d] = Missing \/ NotAfter(docs[j][d], version)
      BY <2>2 DEF Higher
    <3> QED
      BY <3>1, <3>2, Others
  <2> QED
    BY <2>1, <2>2, GoesUp
<1>3. docs'[i][d] = docs[i][d] \/ docs'[i][d] # Missing
  <2> SUFFICES ASSUME docs'[i][d] # docs[i][d], docs'[i][d] = Missing PROVE FALSE
    OBVIOUS
  <2>1. docs[i][d] # Missing
    OBVIOUS
  <2>2. Numbers(i, d) # {} /\ Grown /\ LastInv'
    BY <2>1, StepBase DEF Going, Base, BaseInv, LastInv
  <2>3. Numbers(i, d)' # {}
    BY <2>2, GrownKeeps
  <2>4. PICK n \in Numbers(i, d)' : Missing = changes'[i][n].version
    BY <2>2, <2>3 DEF LastInv
  <2>5. Missing \in VersionsAt(i, d)'
    BY <2>4 DEF VersionsAt
  <2> QED
    BY <2>5 DEF Kept
<1>4. docs[i][d] # Missing => /\ docs'[i][d] # Missing /\ docs'[i][d] \in Versions
                              /\ NotAfter(docs[i][d], docs'[i][d])
  BY <1>1, <1>2, <1>3, OrderHolds
<1>5. docs[i][d] # Missing => docs[i][d].at <= docs'[i][d].at
  BY <1>1, <1>4 DEF NotAfter, Versions
<1>6. \A v \in Versions : Reached(i, d, v) => Reached(i, d, v)'
  BY <1>1, <1>4, OrderHolds DEF Reached
<1> QED
  BY <1>1, <1>4, <1>5, <1>6

LEMMA RisingKept ==
  ASSUME NEW d \in Docs, Going(d), [Next]_vars, Calm(d)', Kept(d)'
  PROVE  RisingInv(d)'
<1>0. RisingInv(d) /\ \A i \in Instances : VersionsAt(i, d) \subseteq Versions
  BY GoingHas
<1>1. CASE Stays(d)
  <2>1. \A i \in Instances : VersionsAt(i, d)' = VersionsAt(i, d) /\ docs'[i][d] = docs[i][d]
    BY <1>1 DEF Stays
  <2>2. \A i \in Instances : \A u \in VersionsAt(i, d)' : Reached(i, d, u)'
    BY <1>0, <2>1 DEF RisingInv, Reached
  <2>3. \A u, w \in VersionsAt(Winner, d)' : u.at = w.at => u = w
    BY <1>0, <2>1, InstancesAssumption DEF RisingInv
  <2>4. \A i \in Instances : \A u \in VersionsAt(i, d)' : u \in VersionsAt(u.by, d)'
    BY <1>0, <2>1 DEF RisingInv, Versions
  <2> QED
    BY <2>2, <2>3, <2>4 DEF RisingInv
<1>2. ASSUME NEW i \in Instances, NEW version \in Versions, Becomes(i, d, version), Higher(i, d, version)
      PROVE  RisingInv(d)'
  <2> DEFINE o == Other(i)
  <2>1. o \in Instances /\ o # i /\ \A j \in Instances : j = i \/ j = o
    BY Others
  <2>2. /\ docs'[i][d] = version /\ VersionsAt(i, d)' \subseteq VersionsAt(i, d) \cup {version}
        /\ docs'[o][d] = docs[o][d] /\ VersionsAt(o, d)' = VersionsAt(o, d)
    BY <1>2 DEF Becomes
  <2>3. version # Missing
    <3>1. Numbers(i, d)' # {} => docs'[i][d] \in VersionsAt(i, d)'
      BY StepBase DEF Going, LastInv, VersionsAt
    <3>2. version \in VersionsAt(version.by, d)' /\ version.by \in Instances
      BY <1>2 DEF Higher
    <3> QED
      BY <3>2 DEF Kept
  <2>4. \A u \in VersionsAt(i, d) : Reached(i, d, u)'
    BY <1>0, ReachedKept DEF RisingInv
  <2>5. Reached(i, d, version)'
    BY <2>2, <2>3, OrderHolds DEF Reached
  <2>6. \A u \in VersionsAt(o, d) : Reached(o, d, u)'
    BY <1>0, <2>1, ReachedKept DEF RisingInv
  <2>7. \A j \in Instances : \A u \in VersionsAt(j, d)' : Reached(j, d, u)'
    BY <2>1, <2>2, <2>4, <2>5, <2>6
  <2>8. \A u, w \in VersionsAt(Winner, d)' : u.at = w.at => u = w
    <3>1. CASE i = Winner
      <4>1. \A u \in VersionsAt(i, d) : u.at \in Nat /\ version.at \in Nat /\ u.at < version.at
        <5> SUFFICES ASSUME NEW u \in VersionsAt(i, d)
                     PROVE  u.at \in Nat /\ version.at \in Nat /\ u.at < version.at
          OBVIOUS
        <5>1. docs[i][d] # Missing /\ NotAfter(u, docs[i][d]) /\ docs[i][d] \in Versions /\ u \in Versions
          BY <1>0, GoingHas DEF RisingInv, Reached
        <5>2. docs[i][d].at < version.at
          BY <1>2, <3>1, <5>1 DEF Higher
        <5> QED
          BY <5>1, <5>2 DEF NotAfter, Versions
      <4> QED
        BY <1>0, <2>2, <3>1, <4>1 DEF RisingInv
    <3>2. CASE o = Winner
      BY <1>0, <2>2, <3>2 DEF RisingInv
    <3> QED
      BY <2>1, <3>1, <3>2, InstancesAssumption
  <2>9. \A j \in Instances : \A u \in VersionsAt(j, d)' : u \in VersionsAt(u.by, d)'
    <3>1. \A j \in Instances : VersionsAt(j, d) \subseteq VersionsAt(j, d)'
      BY StepBase, GrownKeeps DEF Going
    <3>2. \A j \in Instances : \A u \in VersionsAt(j, d) : u.by \in Instances /\ u \in VersionsAt(u.by, d)'
      BY <1>0, <3>1 DEF RisingInv, Versions
    <3>3. version \in VersionsAt(version.by, d)'
      BY <1>2 DEF Higher
    <3> QED
      BY <2>1, <2>2, <3>2, <3>3
  <2> QED
    BY <2>7, <2>8, <2>9 DEF RisingInv
<1> QED
  BY <1>1, <1>2, GoesUp

-----------------------------------------------------------------------------
(* Convergence: entries and tags *)

\* The entry the writer of i makes next.
LEMMA NextEntry ==
  ASSUME Base, NEW i \in Instances, LogChange(i)
  PROVE  \E n \in 1..Len(changes[i]) :
           /\ n = writer[i].at + 1 /\ EntryFits(NewEntry(i, n), i, n)
           /\ AlreadyLogged(i, NewEntry(i, n)) <=> \E f \in log[i] : f.event = Event(i, n)
           /\ log' = IF AlreadyLogged(i, NewEntry(i, n)) THEN log
                     ELSE [log EXCEPT ![i] = @ \cup {NewEntry(i, n)}]
<1> DEFINE n == writer[i].at + 1
           seq == counter[i] + 1
<1>0. DocsTyped /\ WriterTyped /\ TaggedInv
  BY DEF Base, BaseInv, SyncInv, Typed
<1>1. n \in 1..Len(changes[i])
  <2>1. writer[i].at \in Nat /\ Len(changes[i]) \in Nat /\ writer[i].at < Len(changes[i])
    BY <1>0, ChangesTyped DEF LogChange, WriterTyped
  <2> QED
    BY <2>1
<1>2. NewEntry(i, n) = EntryOf(i, n, seq)
  BY DEF NewEntry
<1>3. log' = IF AlreadyLogged(i, NewEntry(i, n)) THEN log
             ELSE [log EXCEPT ![i] = @ \cup {NewEntry(i, n)}]
  BY DEF LogChange
<1> HIDE DEF seq
<1>4. n = writer[i].at + 1
  OBVIOUS
<1> HIDE DEF n
<1>5. EntryFits(NewEntry(i, n), i, n)
  BY <1>0, <1>1, <1>2, EntryFitting
<1>6. AlreadyLogged(i, NewEntry(i, n)) <=> \E f \in log[i] : f.event = Event(i, n)
  BY <1>5 DEF AlreadyLogged, EntryFits
<1> QED
  BY <1>1, <1>3, <1>4, <1>5, <1>6

LEMMA CarriesKept ==
  ASSUME NEW d \in Docs, Going(d), [Next]_vars, Calm(d)', Kept(d)'
  PROVE  CarriesInv(d)'
<1> SUFFICES ASSUME NEW e \in Written' \cup Carried', e.doc = d
             PROVE  e.version \in VersionsAt(e.event.src, d)' /\ NotAfter(Cause(e)'.version, e.version)
  BY DEF CarriesInv
<1>0. /\ SyncInv /\ StreamInv /\ LinkedInv /\ Grown /\ Base
      /\ \A i \in Instances : VersionsAt(i, d) \subseteq VersionsAt(i, d)'
  BY StepBase, GrownKeeps DEF Going
<1>1. CASE e \in Written \cup Carried
  <2>1. Entered(d, e) /\ Linked(e)
    BY <1>0, <1>1, EntryEntered DEF LinkedInv
  <2>2. Cause(e)' = Cause(e)
    BY <1>0, <2>1, GrownKeeps DEF Linked, Cause
  <2> QED
    BY <1>0, <2>1, <2>2 DEF Entered
<1>2. CASE e \notin Written \cup Carried
  <2>1. e \in Written'
    BY <1>0, <1>2, CarriedMoves DEF Offered
  <2>2. PICK i \in Instances : e \in log'[i]
    BY <2>1 DEF Written
  <2>3. LogChange(i) /\ e = NewEntry(i, writer[i].at + 1)
    BY <1>0, <1>2, <2>2, LogMoves DEF Written
  <2>4. PICK n \in 1..Len(changes[i]) : e = NewEntry(i, n) /\ EntryFits(e, i, n)
    BY <1>0, <2>3, NextEntry
  <2>5. e.event = Event(i, n) /\ n \in Numbers(i, d) /\ e.event.src = i /\ e.event.n = n
    BY <2>4 DEF EntryFits, Numbers, Event
  <2>6. changes[i][n].version \in VersionsAt(i, d) /\ docs[i][d] \in VersionsAt(i, d)
    BY <2>5, GoingHas DEF VersionsAt
  <2>7. e.version = docs[i][d]
    BY <2>4, <2>6 DEF EntryFits, Going, Kept
  <2>8. NotAfter(changes[i][n].version, docs[i][d])
    BY <2>6, GoingHas DEF RisingInv, Reached
  <2>9. Cause(e)' = changes[i][n]
    BY <1>0, <2>4, <2>5, GrownKeeps DEF Cause, EntryFits, Linked
  <2> QED
    BY <1>0, <2>5, <2>6, <2>7, <2>8, <2>9
<1> QED
  BY <1>1, <1>2

LEMMA TagsKept ==
  ASSUME NEW d \in Docs, Going(d), [Next]_vars, Calm(d)', Kept(d)'
  PROVE  TagsInv(d)'
<1> SUFFICES ASSUME NEW i \in Instances, NEW tag \in DOMAIN tags'[i], tag[1] = d
             PROVE  /\ docs'[Other(i)][d] # Missing /\ tag[2] <= docs'[Other(i)][d].at
                    /\ i = Winner => \A u \in VersionsAt(i, d)' : u.by = i => u.at # tag[2]
  BY DEF TagsInv
<1> DEFINE o == Other(i)
<1>0. /\ SyncInv /\ LinkedInv /\ WriteInv /\ TaggedInv /\ RisingInv(d) /\ TagsInv(d)
      /\ o \in Instances /\ o # i /\ \A j \in Instances : j = i \/ j = o
  BY StepBase, GoingHas, Others DEF Going
<1>1. docs[o][d] # Missing => /\ docs'[o][d] # Missing /\ docs[o][d].at <= docs'[o][d].at
                              /\ docs[o][d].at \in Nat /\ docs'[o][d].at \in Nat
  BY <1>0, ReachedKept DEF Versions
<1>2. \A u \in VersionsAt(i, d)' : u \in VersionsAt(i, d) \/ Higher(i, d, u)
  <2>1. CASE Stays(d)
    BY <2>1 DEF Stays
  <2>2. ASSUME NEW j \in Instances, NEW version \in Versions, Becomes(j, d, version), Higher(j, d, version)
        PROVE  \A u \in VersionsAt(i, d)' : u \in VersionsAt(i, d) \/ Higher(i, d, u)
    <3>1. /\ VersionsAt(j, d)' \subseteq VersionsAt(j, d) \cup {version}
          /\ VersionsAt(Other(j), d)' = VersionsAt(Other(j), d)
      BY <2>2 DEF Becomes
    <3> QED
      BY <2>2, <3>1, Others
  <2> QED
    BY <2>1, <2>2, GoesUp
<1>3. CASE tag \in DOMAIN tags[i]
  <2>1. tag = <<d, tag[2]>> /\ tag[2] \in Nat
    BY <1>0, <1>3 DEF TaggedInv
  <2>2. docs[o][d] # Missing /\ tag[2] <= docs[o][d].at
    BY <1>0, <1>3 DEF TagsInv
  <2>3. docs'[o][d] # Missing /\ tag[2] <= docs'[o][d].at
    BY <1>1, <2>1, <2>2
  <2>4. ASSUME i = Winner, NEW u \in VersionsAt(i, d)', u.by = i
        PROVE  u.at # tag[2]
    <3>1. CASE u \in VersionsAt(i, d)
      BY <1>0, <1>3, <2>4, <3>1 DEF TagsInv
    <3>2. CASE u \notin VersionsAt(i, d)
      <4>1. <<d, u.at>> \notin DOMAIN tags[i]
        BY <1>2, <2>4, <3>2 DEF Higher
      <4> QED
        BY <1>3, <2>1, <4>1
    <3> QED
      BY <3>1, <3>2
  <2> QED
    BY <2>3, <2>4
<1>4. CASE tag \notin DOMAIN tags[i]
  <2>1. PICK a \in Appliers, e \in Entries :
          /\ Writes(a, i, e) /\ tag = <<e.doc, e.at>>
          /\ ~TooLate(i, e) \/ e.doc \in clobbered'
    BY <1>0, <1>4, TagsMove
  <2>2. e \in Carried /\ e.doc = d /\ e.event.src = o /\ e.origin = o /\ ~TooLate(i, e) /\ tag[2] = e.at
    <3>1. e.doc = d /\ tag[2] = e.at
      BY <2>1
    <3> QED
      BY <2>1, <3>1 DEF Writes, Calm
  <2>3. Entered(d, e)
    BY <2>2, EntryEntered
  <2>4. e.version \in VersionsAt(o, d) /\ e.version \in Versions /\ e.at = e.version.at /\ e.at \in Nat
    BY <2>2, <2>3 DEF Entered, Versions
  <2>5. docs[o][d] # Missing /\ docs[o][d] \in Versions /\ NotAfter(e.version, docs[o][d])
    BY <1>0, <2>4, GoingHas DEF RisingInv, Reached
  <2>6. e.at <= docs[o][d].at
    BY <2>4, <2>5 DEF NotAfter, Versions
  <2>7. docs'[o][d] # Missing /\ tag[2] <= docs'[o][d].at
    BY <1>1, <2>2, <2>4, <2>5, <2>6
  <2>8. ASSUME i = Winner
        PROVE  \A u \in VersionsAt(i, d) : u.at # e.at
    <3> SUFFICES ASSUME NEW u \in VersionsAt(i, d) PROVE u.at # e.at
      OBVIOUS
    <3>1. /\ docs[i][d] # Missing /\ docs[i][d] \in Versions /\ u \in Versions /\ NotAfter(u, docs[i][d])
      BY <1>0, GoingHas DEF RisingInv, Reached
    <3>2. Applies(TimeOf(docs[i][d]), e.version.at, i, o)
      BY <2>2, <2>4 DEF TooLate
    <3>3. docs[i][d].at < e.version.at
      BY <1>0, <2>4, <2>8, <3>1, <3>2, AppliesUp
    <3> QED
      BY <2>4, <3>1, <3>3 DEF NotAfter, Versions
  <2>9. ASSUME i = Winner, NEW u \in VersionsAt(i, d)', u.by = i
        PROVE  u \in VersionsAt(i, d)
    <3>1. tags' # tags
      BY <1>4
    <3> QED
      BY <1>2, <2>9, <3>1 DEF Higher
  <2> QED
    BY <2>2, <2>7, <2>8, <2>9
<1> QED
  BY <1>3, <1>4

-----------------------------------------------------------------------------
(* Convergence: what has been handed over *)

\* An entry that applyEntry skips has nothing newer to say.
LEMMA SkippedReached ==
  ASSUME NEW d \in Docs, Going(d), NEW a \in Appliers, ApplySkips(a),
         NEW e, e = Head(applier[a].todo), e.doc = d, e.origin # Site(a)
  PROVE  Reached(Site(a), d, e.version) /\ Site(a) = Other(e.event.src) /\ Entered(d, e)
<1> DEFINE i == Site(a)
           o == Other(i)
           l == docs[i][d]
           v == e.version
<1>0. Typed /\ LinkedInv /\ RisingInv(d)
  BY GoingHas DEF Going, Base, BaseInv, SyncInv
<1>1. e \in Carried /\ i \in Instances
  BY <1>0, Reading, CarriedHas DEF ApplySkips
<1>2. Entered(d, e) /\ e.origin = e.event.src
  BY <1>0, <1>1, EntryEntered DEF LinkedInv
<1>3. o \in Instances /\ o # i /\ (\A j \in Instances : j = i \/ j = o) /\ Other(o) = i
  BY <1>1, Others
<1>4. e.origin = o /\ e.event.src = o
  BY <1>2, <1>3 DEF Entered
<1>5. v \in Versions /\ v \in VersionsAt(o, d) /\ e.at = v.at /\ v # Missing
  BY <1>2, <1>3, <1>4 DEF Entered, Going, Kept
<1>6. ~Applies(TimeOf(l), e.at, i, o)
  <2>1. e.doc \in Enabled[i]
    BY <1>1 DEF Going, Calm
  <2> QED
    BY <1>4, <1>5, <2>1 DEF ApplySkips
<1>7. l # Missing
  BY <1>6 DEF Applies, TimeOf
<1>8. l \in Versions /\ l \in VersionsAt(i, d)
  BY <1>1, <1>7, GoingHas
<1>9. v.at < l.at \/ (v.at = l.at /\ o # Winner)
  <2>1. TimeOf(l) = l.at /\ l.at \in Nat /\ v.at \in Nat
    BY <1>5, <1>7, <1>8 DEF TimeOf, Versions
  <2> QED
    BY <1>5, <1>6, <2>1 DEF Applies
<1>10. NotAfter(v, l)
  <2>1. CASE v.at < l.at
    BY <2>1 DEF NotAfter
  <2>2. CASE v.at = l.at /\ o # Winner
    <3>1. i = Winner
      BY <1>3, <2>2, InstancesAssumption
    <3>2. CASE v.by = i
      <4>1. v \in VersionsAt(i, d)
        BY <1>0, <1>3, <1>5, <3>2 DEF RisingInv
      <4>2. v = l
        BY <1>0, <1>8, <2>2, <3>1, <4>1 DEF RisingInv
      <4> QED
        BY <1>5, <4>2, OrderHolds
    <3>3. CASE v.by # i
      <4>1. v.by = o /\ l.by \in {i, o}
        BY <1>3, <1>5, <1>8, <3>3 DEF Versions
      <4> QED
        BY <2>2, <3>1, <4>1 DEF NotAfter
    <3> QED
      BY <3>2, <3>3
  <2> QED
    BY <1>9, <2>1, <2>2
<1> QED
  BY <1>2, <1>3, <1>4, <1>7, <1>10 DEF Reached

LEMMA HandledKept ==
  ASSUME NEW d \in Docs, Going(d), [Next]_vars, Calm(d)', Kept(d)'
  PROVE  HandledInv(d)'
<1> SUFFICES ASSUME NEW i \in Instances, NEW n \in Numbers(i, d)', Event(i, n) \in handled'
             PROVE  /\ docs'[Other(i)][d] # Missing
                    /\ NotAfter(changes'[i][n].version, docs'[Other(i)][d])
  BY DEF HandledInv, Reached
<1>0. /\ SyncInv /\ Grown /\ EventsInv /\ TagsTyped /\ Base /\ HandledInv(d) /\ LinkedInv /\ Typed
      /\ \A j \in Instances : VersionsAt(j, d) \subseteq Versions
  BY StepBase, GoingHas DEF Going
<1>1. Event(i, n).src = i /\ Event(i, n).n = n /\ changes'[i][n].doc = d
  BY DEF Event, Numbers
<1>2. ASSUME NEW v \in Versions, Reached(Other(i), d, v), NEW c \in Versions, NotAfter(c, v)
      PROVE  docs'[Other(i)][d] # Missing /\ NotAfter(c, docs'[Other(i)][d])
  <2>1. docs'[Other(i)][d] # Missing /\ NotAfter(v, docs'[Other(i)][d]) /\ docs'[Other(i)][d] \in Versions
    BY <1>2, ReachedKept, Others DEF Reached
  <2> QED
    BY <1>2, <2>1, OrderHolds
<1>3. ASSUME InStream(Event(i, n))
      PROVE  /\ n \in Numbers(i, d) /\ changes'[i][n] = changes[i][n]
             /\ changes[i][n].version \in VersionsAt(i, d) /\ changes[i][n].version \in Versions
  <2>1. n \in 1..Len(changes[i]) /\ changes'[i][n] = changes[i][n]
    BY <1>0, <1>1, <1>3, GrownKeeps DEF InStream
  <2>2. n \in Numbers(i, d)
    BY <1>1, <2>1 DEF Numbers
  <2> QED
    BY <1>0, <2>1, <2>2 DEF VersionsAt
<1>4. CASE Event(i, n) \in handled
  <2>1. InStream(Event(i, n))
    BY <1>0, <1>4 DEF EventsInv
  <2>2. Reached(Other(i), d, changes[i][n].version)
    BY <1>0, <1>3, <1>4, <2>1 DEF HandledInv
  <2> QED
    BY <1>2, <1>3, <2>1, <2>2, OrderHolds
<1>5. CASE Event(i, n) \notin handled
  <2>1. \A j \in Instances : UserWrites(j) \/ LogChange(j) \/ CollectLog(j) => handled' = handled
    BY DEF UserWrites, LogChange, CollectLog, dataVars
  <2>2. \A a \in Appliers : ApplyFails(a) => handled' = handled
    BY DEF ApplyFails
  <2>3. Quietly => handled' = handled
    BY DEF Quietly
  <2>4. PICK a \in Appliers : ApplySkips(a) \/ ApplyWrites(a)
    BY <1>0, <1>5, <2>1, <2>2, <2>3, StepKinds
  <2>5. PICK e : e = Head(applier[a].todo)
    OBVIOUS
  <2>6. applier[a].step \in {"read", "write"} /\ e.event = Event(i, n)
        /\ (ApplySkips(a) => e.origin # Site(a))
    BY <1>5, <2>4, <2>5 DEF ApplySkips, ApplyWrites
  <2>7. e \in Carried /\ e \in Entries
    BY <1>0, <2>5, <2>6, Reading, CarriedHas
  <2>8. Linked(e) /\ Cause(e) = changes[i][n] /\ InStream(Event(i, n)) /\ e.doc = changes[i][n].doc
    BY <1>0, <1>1, <2>6, <2>7 DEF LinkedInv, Linked, Cause
  <2>9. e.doc = d
    BY <1>1, <1>3, <2>8
  <2>10. Entered(d, e)
    BY <2>7, <2>9, EntryEntered
  <2>11. /\ e.version \in Versions /\ NotAfter(changes[i][n].version, e.version)
    BY <2>8, <2>10 DEF Entered
  <2>12. CASE ApplySkips(a)
    <3>1. Reached(Other(i), d, e.version)
      BY <1>1, <2>5, <2>6, <2>9, <2>12, SkippedReached
    <3> QED
      BY <1>2, <1>3, <2>8, <2>11, <3>1
  <2>13. CASE ApplyWrites(a)
    <3>1. Writes(a, Site(a), e)
      BY <1>0, <2>5, <2>13, Writing, StepBase DEF ApplyWrites
    <3>2. Put(Site(a), d, e.version, now)
      BY <2>5, <2>9, <2>13 DEF ApplyWrites
    <3>3. docs'[Site(a)][d] = e.version
      BY <1>0, <3>1, <3>2, PutGives DEF Writes, Typed
    <3>4. Site(a) = Other(i)
      BY <1>1, <2>6, <3>1, Others DEF Writes
    <3>5. e.version # Missing
      BY <2>10 DEF Entered, Going, Kept
    <3> QED
      BY <1>3, <2>8, <2>11, <3>3, <3>4, <3>5
  <2> QED
    BY <2>4, <2>12, <2>13
<1> QED
  BY <1>4, <1>5

\* An entry of a document nobody has disturbed that is settled has been handled.
LEMMA SettledHandled ==
  ASSUME Base, NEW d \in Docs, Calm(d), NEW i \in Instances, NEW n \in Numbers(i, d),
         Settled(Event(i, n))
  PROVE  Event(i, n) \in handled
<1> DEFINE v == Event(i, n)
<1> SUFFICES ASSUME v \notin handled PROVE FALSE
  OBVIOUS
<1>1. v \in DOMAIN letters /\ letters[v].status # "retrying"
  BY DEF Settled
<1>2. v.src = i /\ v.n = n /\ changes[i][n].doc = d
  BY DEF Event, Numbers
<1> HIDE DEF v
<1>3. LinkedInv
  BY DEF Base, BaseInv
<1>4. letters[v].entry \in Carried /\ letters[v].entry.event = v
  BY <1>1, <1>3, CarriedHas DEF LinkedInv
<1>5. letters[v].entry.doc = changes[i][n].doc
  BY <1>2, <1>3, <1>4 DEF LinkedInv, Linked, Cause
<1> QED
  BY <1>1, <1>2, <1>5 DEF Calm

\* Collection takes an entry its cursor has passed, or drops it.
LEMMA EntryCollected ==
  ASSUME Base, [Next]_vars, NEW i \in Instances, NEW e \in log[i], e \notin log'[i]
  PROVE  e.seq <= CursorOf(i) \/ e.event \in dropped'
<1>0. Typed /\ TagsTyped /\ LogTyped /\ Typed
  BY DEF Base, SyncInv, Typed
<1>1. \A j \in Instances : LogChange(j) => log[i] \subseteq log'[i]
  <2> SUFFICES ASSUME NEW j \in Instances, LogChange(j) PROVE log[i] \subseteq log'[i]
    OBVIOUS
  <2>1. PICK new : log' = log \/ log' = [log EXCEPT ![j] = @ \cup {new}]
    BY DEF LogChange
  <2> QED
    BY <1>0, <2>1 DEF LogTyped
<1>2. \A j \in Instances : UserWrites(j) => log' = log
  BY DEF UserWrites
<1>3. \A a \in Appliers : ApplySkips(a) \/ ApplyWrites(a) \/ ApplyFails(a) => log' = log
  BY DEF ApplySkips, ApplyWrites, ApplyFails, streamVars
<1>4. Quietly => log' = log
  BY DEF Quietly
<1>5. PICK j \in Instances : CollectLog(j)
  BY <1>0, <1>1, <1>2, <1>3, <1>4, StepKinds
<1>6. PICK g \in log[j] :
        LET old == {f \in log[j] : f.seq <= g.seq /\ (j = Active => f.seq <= cursorOut)}
            unsent == {f \in old : j = Passive /\ f.seq > cursorIn}
        IN  /\ log' = [log EXCEPT ![j] = @ \ old]
            /\ dropped' = dropped \cup {f.event : f \in unsent}
  BY <1>5 DEF CollectLog
<1> DEFINE old == {f \in log[j] : f.seq <= g.seq /\ (j = Active => f.seq <= cursorOut)}
<1>7. log' = [log EXCEPT ![j] = @ \ old]
  BY <1>6
<1>8. dropped' = dropped \cup {f.event : f \in {f \in old : j = Passive /\ f.seq > cursorIn}}
  BY <1>6
<1>9. j = i /\ e \in old
  <2> HIDE DEF old
  <2> QED
    BY <1>0, <1>7 DEF LogTyped
<1>10. e.seq \in Nat /\ cursorIn \in Nat /\ cursorOut \in Nat
  BY <1>0 DEF Typed, LogTyped, Entries, DriverTyped
<1>11. CASE i = Active
  BY <1>9, <1>11 DEF CursorOf
<1>12. CASE i # Active
  <2>1. i = Passive
    BY <1>12 DEF Instances
  <2>2. e.seq > cursorIn => e.event \in dropped'
    BY <1>8, <1>9, <2>1
  <2> QED
    BY <1>10, <1>12, <2>2 DEF CursorOf
<1> QED
  BY <1>11, <1>12

\* A change that has an entry after the step was in the stream before it.
LEMMA LoggedBefore ==
  ASSUME Base, [Next]_vars, NEW d \in Docs, NEW i \in Instances, NEW n \in Numbers(i, d)',
         Event(i, n) \in logged'
  PROVE  n \in Numbers(i, d) /\ changes'[i][n] = changes[i][n]
<1>0. SyncInv /\ StreamInv /\ Grown /\ EventsInv
  BY StepBase
<1>1. Event(i, n).src = i /\ Event(i, n).n = n /\ changes'[i][n].doc = d
  BY DEF Event, Numbers
<1>2. InStream(Event(i, n))
  <2>1. CASE Event(i, n) \in logged
    BY <1>0, <2>1 DEF EventsInv
  <2>2. CASE Event(i, n) \notin logged
    <3>1. PICK j \in Instances : LogChange(j) /\ Event(i, n) = Event(j, writer[j].at + 1)
      BY <1>0, <2>2, LogMoves
    <3>2. PICK m \in 1..Len(changes[j]) : m = writer[j].at + 1
      BY <1>0, <3>1, NextEntry
    <3>3. Event(i, n) = Event(j, m)
      BY <3>1, <3>2
    <3> QED
      BY <3>2, <3>3 DEF InStream, Event
  <2> QED
    BY <2>1, <2>2
<1>3. n \in 1..Len(changes[i]) /\ changes'[i][n] = changes[i][n]
  BY <1>0, <1>1, <1>2, GrownKeeps DEF InStream
<1> QED
  BY <1>1, <1>3 DEF Numbers

\* A change that gets its entry in the step has it in the log, made from the state before.
LEMMA LoggedNow ==
  ASSUME Base, [Next]_vars, NEW i \in Instances, NEW n, Event(i, n) \in logged',
         Event(i, n) \notin logged
  PROVE  \E e \in log'[i] : EntryFits(e, i, n)
<1>0. SyncInv /\ StreamInv /\ LogTyped
  BY StepBase DEF Typed
<1>1. PICK j \in Instances : LogChange(j) /\ Event(i, n) = Event(j, writer[j].at + 1)
  BY <1>0, LogMoves
<1>2. j = i /\ n = writer[i].at + 1
  <2> DEFINE m == writer[j].at + 1
  <2>1. Event(i, n) = Event(j, m)
    BY <1>1
  <2> HIDE DEF m
  <2>2. i = j /\ n = m
    BY <2>1 DEF Event
  <2> QED
    BY <2>2 DEF m
<1>3. /\ EntryFits(NewEntry(i, n), i, n)
      /\ AlreadyLogged(i, NewEntry(i, n)) <=> \E f \in log[i] : f.event = Event(i, n)
      /\ log' = IF AlreadyLogged(i, NewEntry(i, n)) THEN log
                ELSE [log EXCEPT ![i] = @ \cup {NewEntry(i, n)}]
  BY <1>1, <1>2, NextEntry
<1>4. ~ \E f \in log[i] : f.event = Event(i, n)
  BY <1>0 DEF StreamInv, EntriesInv
<1>5. PICK e : e = NewEntry(i, n)
  OBVIOUS
<1>6. e \in log'[i] /\ EntryFits(e, i, n)
  BY <1>0, <1>3, <1>4, <1>5 DEF LogTyped
<1> QED
  BY <1>6

LEMMA DeliveredKept ==
  ASSUME NEW d \in Docs, Going(d), [Next]_vars, Calm(d)', Kept(d)'
  PROVE  DeliveredInv(d)'
<1> SUFFICES ASSUME NEW i \in Instances, NEW n \in Numbers(i, d)', Event(i, n) \in logged'
             PROVE  \/ /\ docs'[Other(i)][d] # Missing
                       /\ NotAfter(changes'[i][n].version, docs'[Other(i)][d])
                    \/ \E e \in log'[i] : e.event = Event(i, n) /\ Sendable(i, e)
  BY DEF DeliveredInv, Reached, Waiting
<1> DEFINE o == Other(i)
           c == changes[i][n]
<1>0. /\ Base /\ SyncInv /\ Calm(d) /\ Kept(d)
      /\ RisingInv(d) /\ TagsInv(d) /\ HandledInv(d) /\ DeliveredInv(d)
      /\ \A j \in Instances : VersionsAt(j, d) \subseteq Versions
      /\ o \in Instances /\ o # i /\ \A j \in Instances : j = i \/ j = o
  BY StepBase, GoingHas, Others DEF Going
<1>1. Event(i, n).src = i /\ Event(i, n).n = n /\ changes'[i][n].doc = d
  BY DEF Event, Numbers
<1>3. n \in Numbers(i, d) /\ changes'[i][n] = c
  BY <1>0, LoggedBefore
<1>4. c.version \in VersionsAt(i, d) /\ c.version \in Versions /\ c.version # Missing
  BY <1>0, <1>3 DEF VersionsAt, Kept
<1>5. ASSUME Reached(o, d, c.version)
      PROVE  docs'[o][d] # Missing /\ NotAfter(changes'[i][n].version, docs'[o][d])
  <2>1. PICK v \in Versions : v = c.version
    BY <1>4
  <2>2. Reached(o, d, v)'
    BY <1>0, <1>5, <2>1, ReachedKept
  <2> QED
    BY <1>3, <2>1, <2>2 DEF Reached
<1>6. CASE Event(i, n) \in logged
  <2>1. Reached(o, d, c.version) \/ Waiting(i, n)
    BY <1>0, <1>3, <1>6 DEF DeliveredInv
  <2>2. ASSUME NEW e \in log[i], e.event = Event(i, n), Sendable(i, e), e \notin log'[i]
        PROVE  Reached(o, d, c.version)
    <3>1. e.event \notin dropped'
      BY <1>1, <2>2 DEF Calm
    <3>2. e.seq <= CursorOf(i)
      BY <1>0, <2>2, <3>1, EntryCollected
    <3>3. Settled(Event(i, n))
      BY <1>0, <2>2, <3>2 DEF SyncInv, CursorInv, NothingSkipped
    <3>4. Event(i, n) \in handled
      BY <1>0, <1>3, <3>3, SettledHandled
    <3> QED
      BY <1>0, <1>3, <3>4 DEF HandledInv
  <2> QED
    BY <1>5, <2>1, <2>2 DEF Waiting
<1>7. CASE Event(i, n) \notin logged
  <2>6. PICK e \in log'[i] : EntryFits(e, i, n)
    BY <1>0, <1>7, LoggedNow
  <2>7. /\ e.event = Event(i, n) /\ e.doc = d /\ e.op = "upsert" /\ e.version = docs[i][d]
        /\ e.version # Missing => e.hasProject = TRUE
        /\ <<d, TimeOf(e.version)>> \notin DOMAIN tags[i] => e.origin = i
    BY <1>3, <1>4, <2>6 DEF EntryFits, Numbers
  <2>8. /\ docs[i][d] # Missing /\ docs[i][d] \in Versions /\ NotAfter(c.version, docs[i][d])
    BY <1>0, <1>4, GoingHas DEF RisingInv, Reached
  <2> DEFINE t == docs[i][d].at
  <2>9. CASE <<d, t>> \notin DOMAIN tags[i]
    <3>1. e.origin = i /\ e.hasProject = TRUE
      BY <2>7, <2>8, <2>9 DEF TimeOf
    <3>2. Sendable(i, e)
      BY <1>0, <2>7, <3>1 DEF Sendable, Calm
    <3> QED
      BY <2>6, <2>7, <3>2
  <2>10. CASE <<d, t>> \in DOMAIN tags[i]
    <3> DEFINE p == docs[o][d]
               tag == <<d, t>>
    <3>1. tag[1] = d /\ tag[2] = t
      OBVIOUS
    <3>2. p # Missing /\ t <= p.at /\ (i = Winner => \A u \in VersionsAt(i, d) : u.by = i => u.at # t)
      BY <1>0, <2>10, <3>1 DEF TagsInv
    <3>3. p \in Versions /\ p \in VersionsAt(o, d)
      BY <1>0, <3>2, GoingHas
    <3>4. c.version.at <= t /\ c.version.at \in Nat /\ t \in Nat /\ p.at \in Nat
      BY <1>4, <2>8, <3>3 DEF NotAfter, Versions
    <3>5. CASE c.version.at < p.at
      BY <1>5, <3>2, <3>5 DEF Reached, NotAfter
    <3>6. CASE c.version.at = p.at
      <4>1. c.version.at = t /\ t = p.at
        BY <3>2, <3>4, <3>6
      <4>2. p.by \in {Winner, c.version.by}
        <5> SUFFICES ASSUME p.by # Winner, p.by # c.version.by PROVE FALSE
          OBVIOUS
        <5>1. c.version.by = Winner
          BY <1>0, <1>4, <3>3, InstancesAssumption DEF Versions
        <5>2. c.version \in VersionsAt(Winner, d)
          BY <1>0, <1>4, <5>1 DEF RisingInv
        <5>3. i # Winner
          BY <1>4, <3>2, <4>1, <5>1
        <5>4. o = Winner
          BY <1>0, <5>3, InstancesAssumption
        <5>5. c.version = p
          BY <1>0, <3>3, <3>6, <5>2, <5>4 DEF RisingInv
        <5> QED
          BY <5>5
      <4> QED
        BY <1>5, <3>2, <3>6, <4>2 DEF Reached, NotAfter
    <3> QED
      BY <3>2, <3>4, <3>5, <3>6
  <2> QED
    BY <2>9, <2>10
<1> QED
  BY <1>6, <1>7

-----------------------------------------------------------------------------
(* Convergence: the theorem *)

LEMMA ConvergeStep == Base /\ ConvergeInv /\ [Next]_vars => ConvergeInv'
<1> SUFFICES ASSUME Base, ConvergeInv, [Next]_vars, NEW d \in Docs, Calm(d)', Kept(d)'
             PROVE  Converging(d)'
  BY DEF ConvergeInv
<1>1. Calm(d) /\ Kept(d)
  BY CalmBefore, KeptBefore
<1>2. Going(d)
  BY <1>1 DEF Going, ConvergeInv
<1>3. RisingInv(d)' /\ CarriesInv(d)' /\ TagsInv(d)' /\ HandledInv(d)' /\ DeliveredInv(d)'
  BY <1>2, RisingKept, CarriesKept, TagsKept, HandledKept, DeliveredKept
<1> QED
  BY <1>3 DEF Converging

LEMMA ConvergeInvariant == Spec => [](Base /\ ConvergeInv)
<1>1. Init => Base
  BY SyncInitially, StreamInitially, BaseInitially DEF Base
<1>2. Init => ConvergeInv
  <2> SUFFICES ASSUME Init, NEW d \in Docs PROVE Converging(d)
    BY DEF ConvergeInv
  <2>1. /\ \A i \in Instances : changes[i] = <<>> /\ log[i] = {} /\ tags[i] = <<>>
        /\ letters = <<>> /\ driver = IdleDriver(BatchLimit)
        /\ applier = [a \in Appliers |-> IdleApplier]
    BY DEF Init
  <2>2. DOMAIN (<<>>) = {} /\ Len(<<>>) = 0
    BY EmptySeq
  <2>3. \A i \in Instances : Numbers(i, d) = {} /\ VersionsAt(i, d) = {}
    BY <2>1, <2>2 DEF Numbers, VersionsAt
  <2>4. Carried = {} /\ Written = {}
    BY <2>1, <2>2, NothingUnfinished DEF Carried, Written, IdleDriver
  <2> QED
    BY <2>1, <2>2, <2>3, <2>4, InstancesAssumption
       DEF Converging, RisingInv, CarriesInv, TagsInv, HandledInv, DeliveredInv
<1> QED
  BY <1>1, <1>2, BaseStep, ConvergeStep, PTL DEF Spec

\* When everything has settled, the peer has handled or reached each change.
LEMMA QuietDelivers ==
  ASSUME Base, Quiet, NEW d \in Docs, Calm(d), NEW i \in Instances, NEW n \in Numbers(i, d)
  PROVE  /\ Event(i, n) \in logged
         /\ Waiting(i, n) => Event(i, n) \in handled
<1>1. StreamInv /\ SyncInv /\ DocsTyped
  BY DEF Base, SyncInv, Typed
<1>2. n \in 1..Made(i)
  <2>1. writer[i].step = "next" /\ writer[i].at = Len(changes[i])
    BY DEF Quiet, WriterDone
  <2> QED
    BY <2>1 DEF Made, Numbers
<1>3. Event(i, n) \in logged \cup dropped
  BY <1>1, <1>2 DEF StreamInv, LoggedInv
<1>4. Event(i, n) \notin dropped
  <2>1. Event(i, n).src = i /\ Event(i, n).n = n /\ changes[i][n].doc = d
    BY DEF Event, Numbers
  <2> QED
    BY <2>1 DEF Calm
<1>5. ASSUME Waiting(i, n)
      PROVE  Event(i, n) \in handled
  <2>1. PICK e \in log[i] : e.event = Event(i, n) /\ Sendable(i, e)
    BY <1>5 DEF Waiting
  <2>2. e.seq <= CursorOf(i)
    BY DEF Quiet, CursorsDone
  <2>3. Settled(Event(i, n))
    BY <1>1, <2>1, <2>2 DEF SyncInv, CursorInv, NothingSkipped
  <2> QED
    BY <2>3, SettledHandled
<1> QED
  BY <1>3, <1>4, <1>5

\* Last write wins converges, for any documents, bounds and faults: when everything has
\* settled, a document nobody deleted and no accident touched is on both sides the newest
\* version any user wrote, whatever was repeated, reordered or lost on the way.
THEOREM Converges == Spec => []SidesConverge
<1>1. Base /\ ConvergeInv => SidesConverge
  <2> SUFFICES ASSUME Base, ConvergeInv, Quiet, NEW d \in Docs, Undisturbed(d), ~Deleted(d),
                      ChangesOf(d) # {}
               PROVE  docs[Active][d] = Newest(d) /\ docs[Passive][d] = Newest(d)
    BY DEF SidesConverge
  <2>1. Calm(d)
    BY DEF Undisturbed, Calm
  <2>2. \A i \in Instances : \A n \in Numbers(i, d) : changes[i][n] \in ChangesOf(d)
    BY DEF ChangesOf, Numbers
  <2>3. \A c \in ChangesOf(d) : \E i \in Instances : \E n \in Numbers(i, d) : c = changes[i][n]
    BY DEF ChangesOf, Numbers
  <2>4. Kept(d)
    BY <2>2 DEF Kept, VersionsAt, Deleted
  <2>5. Going(d)
    BY <2>1, <2>4 DEF Going, ConvergeInv
  <2>6. \A i \in Instances : \A n \in Numbers(i, d) :
          Reached(i, d, changes[i][n].version) /\ Reached(Other(i), d, changes[i][n].version)
    <3> SUFFICES ASSUME NEW i \in Instances, NEW n \in Numbers(i, d)
                 PROVE  Reached(i, d, changes[i][n].version) /\ Reached(Other(i), d, changes[i][n].version)
      OBVIOUS
    <3>1. RisingInv(d) /\ HandledInv(d) /\ DeliveredInv(d)
      BY <2>5, GoingHas
    <3>2. Event(i, n) \in logged /\ (Waiting(i, n) => Event(i, n) \in handled)
      BY <2>1, QuietDelivers
    <3>3. changes[i][n].version \in VersionsAt(i, d)
      BY DEF VersionsAt
    <3> QED
      BY <3>1, <3>2, <3>3 DEF RisingInv, HandledInv, DeliveredInv
  <2>7. \A i \in Instances : \A c \in ChangesOf(d) : Reached(i, d, c.version)
    BY <2>3, <2>6, Others
  <2>8. \A i \in Instances : docs[i][d] \in Versions /\ \E c \in ChangesOf(d) : docs[i][d] = c.version
    <3> SUFFICES ASSUME NEW i \in Instances
                 PROVE  docs[i][d] \in Versions /\ \E c \in ChangesOf(d) : docs[i][d] = c.version
      OBVIOUS
    <3>1. docs[i][d] # Missing
      BY <2>7 DEF Reached
    <3>2. docs[i][d] \in Versions /\ docs[i][d] \in VersionsAt(i, d)
      BY <2>5, <3>1, GoingHas
    <3> QED
      BY <2>2, <3>2 DEF VersionsAt
  <2>9. \A i, j \in Instances : docs[i][d] = docs[j][d]
    BY <2>7, <2>8, OrderHolds DEF Reached
  <2>10. \A i \in Instances : docs[i][d] = Newest(d)
    <3> SUFFICES ASSUME NEW i \in Instances PROVE docs[i][d] = Newest(d)
      OBVIOUS
    <3> DEFINE S == {c.version : c \in ChangesOf(d)}
               Beats(v) == \A c \in ChangesOf(d) :
                 c.version.at < v.at \/ (c.version.at = v.at /\ v.by \in {Winner, c.version.by})
               best == docs[i][d]
    <3>1. Newest(d) = CHOOSE v \in S : Beats(v)
      BY DEF Newest
    <3>2. best \in S /\ Beats(best)
      BY <2>7, <2>8 DEF Reached, NotAfter
    <3>3. \A v \in S : Beats(v) => v = best
      <4> SUFFICES ASSUME NEW c \in ChangesOf(d), Beats(c.version) PROVE c.version = best
        OBVIOUS
      <4>1. NotAfter(c.version, best) /\ best \in Versions
        BY <2>7, <2>8 DEF Reached
      <4>2. NotAfter(best, c.version)
        BY <2>8 DEF NotAfter
      <4>3. c.version \in Versions
        BY <2>3, <2>5, GoingHas DEF VersionsAt
      <4> QED
        BY <4>1, <4>2, <4>3, OrderHolds
    <3> HIDE DEF S, Beats, best
    <3>4. Newest(d) = best
      BY <3>1, <3>2, <3>3
    <3> QED
      BY <3>4 DEF best
  <2> QED
    BY <2>10, Different
<1> QED
  BY <1>1, ConvergeInvariant, PTL

-----------------------------------------------------------------------------
(* Deletions: a step *)

\* A document of which no deletion came too early, before the step.
Deleting(d) == Base /\ Calm(d) /\ Final(d) /\ DeletingInv(d)

LEMMA WriteIsPut ==
  ASSUME Base, [Next]_vars, NEW a \in Appliers, ApplyWrites(a)
  PROVE  \E e \in Entries : /\ e = Head(applier[a].todo) /\ e.doc \in Docs
                            /\ Site(a) \in Instances /\ ApplyPuts(a, Site(a), e)
<1> DEFINE e == Head(applier[a].todo)
           i == Site(a)
<1>0. SyncInv /\ LinkedInv /\ WriteInv /\ DocsTyped
  BY StepBase
<1>1. applier[a].step = "write" /\ Put(i, e.doc, e.version, now) /\ Clobber(i, e)
      /\ handled' = handled \cup {e.event} /\ UNCHANGED <<log, logged>>
  BY DEF ApplyWrites
<1>2. Writes(a, i, e)
  BY <1>0, <1>1, Writing
<1>3. e = Head(applier[a].todo)
  OBVIOUS
<1> HIDE DEF e, i
<1>4. i \in Instances /\ e \in Entries /\ e.doc \in Docs
  BY <1>2 DEF Writes, Entries
<1>5. Becomes(i, e.doc, e.version)
  BY <1>0, <1>1, <1>4, PutBecomes
<1>6. ~TooLate(i, e) \/ e.doc \in clobbered'
  BY <1>1 DEF Clobber
<1>7. ApplyPuts(a, i, e)
  BY <1>1, <1>2, <1>5, <1>6 DEF ApplyPuts
<1> QED
  BY <1>3, <1>4, <1>7 DEF i

\* Last write wins never skips a deletion that came after every version.
LEMMA NoDeletionSkipped ==
  ASSUME NEW d \in Docs, Deleting(d), NEW a \in Appliers, ApplySkips(a),
         NEW e, e = Head(applier[a].todo), e.doc = d, Cause(e).version = Missing
  PROVE  handled' = handled
<1> DEFINE i == Site(a)
           l == docs[i][d]
<1> SUFFICES ASSUME e.origin # i PROVE FALSE
  BY DEF ApplySkips
<1>0. Typed /\ LinkedInv /\ LastInv /\ DocsTyped
  BY DEF Deleting, Base, BaseInv, SyncInv, Typed
<1>1. e \in Carried /\ e \in Entries /\ i \in Instances
  BY <1>0, Reading, CarriedHas DEF ApplySkips
<1>2. Linked(e) /\ e.op = "delete" /\ e.at = Cause(e).clusterMs
  BY <1>0, <1>1 DEF LinkedInv, Linked, Entries
<1>3. e.doc \in Enabled[i]
  BY <1>1 DEF Deleting, Calm
<1>4. ~Applies(TimeOf(l), e.at, i, e.origin)
  BY <1>2, <1>3 DEF ApplySkips
<1>5. l # Missing
  BY <1>4 DEF Applies, TimeOf
<1>6. l \in VersionsAt(i, d) /\ l \in Versions
  <2>1. l \in VersionsAt(i, d)
    BY <1>0, <1>1, <1>5 DEF LastInv, VersionsAt
  <2> QED
    BY <1>0, <1>1, <1>5, <2>1 DEF DocsTyped
<1>7. e.event.src \in Instances /\ e.event.n \in Deletions(e.event.src, d)
      /\ Cause(e) = changes[e.event.src][e.event.n]
  BY <1>2 DEF Linked, InStream, Cause, Deletions, Numbers
<1>8. l.at < e.at
  BY <1>1, <1>2, <1>5, <1>6, <1>7 DEF Deleting, Final
<1>9. TimeOf(l) = l.at
  BY <1>5 DEF TimeOf
<1> QED
  BY <1>4, <1>8, <1>9 DEF Applies

\* A deletion that some apply handled was written.
LEMMA DeletionHandled ==
  ASSUME NEW d \in Docs, Deleting(d), [Next]_vars, NEW i \in Instances, NEW n \in Deletions(i, d),
         Event(i, n) \in handled', Event(i, n) \notin handled
  PROVE  \E a \in Appliers, e \in Entries :
           ApplyPuts(a, Other(i), e) /\ e.doc = d /\ e.event = Event(i, n) /\ e.version = Missing
<1>0. /\ SyncInv /\ TagsTyped /\ Base /\ LinkedInv /\ Typed
  BY StepBase DEF Deleting
<1>1. Event(i, n).src = i /\ Event(i, n).n = n /\ changes[i][n].doc = d /\ changes[i][n].version = Missing
  BY DEF Event, Deletions, Numbers
<1>2. \A j \in Instances : UserWrites(j) \/ LogChange(j) \/ CollectLog(j) => handled' = handled
  BY DEF UserWrites, LogChange, CollectLog, dataVars
<1>3. \A a \in Appliers : ApplyFails(a) => handled' = handled
  BY DEF ApplyFails
<1>4. Quietly => handled' = handled
  BY DEF Quietly
<1>5. PICK a \in Appliers : ApplySkips(a) \/ ApplyWrites(a)
  BY <1>0, <1>2, <1>3, <1>4, StepKinds
<1>6. PICK e : e = Head(applier[a].todo)
  OBVIOUS
<1>7. applier[a].step \in {"read", "write"} /\ e.event = Event(i, n)
  BY <1>5, <1>6 DEF ApplySkips, ApplyWrites
<1>8. e \in Carried /\ e \in Entries
  BY <1>0, <1>6, <1>7, Reading, CarriedHas
<1>9. e.doc = d /\ Cause(e).version = Missing /\ Linked(e)
  BY <1>0, <1>1, <1>7, <1>8 DEF LinkedInv, Linked, Cause
<1>10. ~ApplySkips(a)
  BY <1>6, <1>9, NoDeletionSkipped
<1>11. ApplyPuts(a, Site(a), e) /\ Site(a) \in Instances
  BY <1>0, <1>5, <1>6, <1>10, WriteIsPut
<1>12. Site(a) = Other(i)
  BY <1>1, <1>7, <1>11, Others DEF ApplyPuts, Writes
<1>13. e.version = Missing
  BY <1>8, <1>9 DEF Linked, Entries
<1> QED
  BY <1>7, <1>8, <1>9, <1>11, <1>12, <1>13

\* A document that goes leaves a deletion the peer has not handled.
LEMMA DeletionMade ==
  ASSUME NEW d \in Docs, Base, [Next]_vars, NEW i \in Instances, docs[i][d] # Missing,
         Becomes(i, d, Missing), \A n : Event(i, n) \in handled' => Event(i, n) \in handled
  PROVE  Open(Other(i), d)'
<1>0. LastInv /\ LastInv' /\ EventsInv /\ Grown
  BY StepBase
<1>1. PICK m \in Numbers(i, d) : docs[i][d] = changes[i][m].version /\ \A k \in Numbers(i, d) : k <= m
  BY <1>0 DEF LastInv
<1>2. Numbers(i, d) \subseteq Numbers(i, d)' /\ \A k \in Numbers(i, d) : changes'[i][k] = changes[i][k]
  BY <1>0, GrownKeeps
<1>3. PICK n \in Numbers(i, d)' : changes'[i][n].version = Missing /\ \A k \in Numbers(i, d)' : k <= n
  BY <1>0, <1>1, <1>2 DEF LastInv, Becomes
<1>4. n \notin Numbers(i, d)
  <2>1. SUFFICES ASSUME n \in Numbers(i, d) PROVE FALSE
    OBVIOUS
  <2>2. n <= m /\ m <= n /\ n \in Nat /\ m \in Nat
    BY <1>1, <1>2, <1>3, <2>1 DEF Numbers
  <2>3. n = m
    BY <2>2
  <2> QED
    BY <1>1, <1>2, <1>3, <2>3
<1>5. Event(i, n) \notin handled
  <2>1. SUFFICES ASSUME Event(i, n) \in handled PROVE FALSE
    OBVIOUS
  <2>2. InStream(Event(i, n)) /\ Event(i, n).src = i /\ Event(i, n).n = n
    BY <1>0, <2>1 DEF EventsInv, Event
  <2>3. n \in 1..Len(changes[i]) /\ changes'[i][n] = changes[i][n]
    BY <1>0, <2>2, GrownKeeps DEF InStream
  <2>4. n \in Numbers(i, d)
    BY <1>3, <2>3 DEF Numbers
  <2> QED
    BY <1>4, <2>4
<1>6. n \in Deletions(i, d)' /\ Event(i, n) \notin handled'
  BY <1>3, <1>5 DEF Deletions
<1> QED
  BY <1>6, Others DEF Open

\* A deletion stays unhandled unless its entry is written.
LEMMA OpenKept ==
  ASSUME NEW d \in Docs, Deleting(d), [Next]_vars, NEW i \in Instances, Open(i, d),
         \A n \in Deletions(Other(i), d) :
           Event(Other(i), n) \in handled' => Event(Other(i), n) \in handled
  PROVE  Open(i, d)'
<1>1. Grown /\ Other(i) \in Instances
  BY StepBase, Others DEF Deleting
<1>2. PICK n \in Deletions(Other(i), d) : Event(Other(i), n) \notin handled
  BY DEF Open
<1>3. n \in Numbers(Other(i), d)' /\ changes'[Other(i)][n].version = Missing
  BY <1>1, GrownKeeps DEF Deletions
<1>4. n \in Deletions(Other(i), d)'
  BY <1>3 DEF Deletions
<1> QED
  BY <1>2, <1>4 DEF Open

\* What DeletingInv says of a document that is back.
BackInv(d) ==
  \A i \in Instances :
    docs[i][d] # Missing => Open(i, d) \/ (docs[Other(i)][d] # Missing /\ Open(Other(i), d))

\* Nobody saves a document once it has been deleted.
LEMMA BackAfterUser ==
  ASSUME NEW d \in Docs, Deleting(d), [Next]_vars, Final(d)', ~Kept(d)',
         NEW j \in Instances, NEW version, UserPuts(j, d, version)
  PROVE  BackInv(d)'
<1> DEFINE o == Other(j)
<1>0. /\ Base /\ LastInv /\ LastInv' /\ PastInv /\ Grown /\ DocsTyped
      /\ now \in Nat /\ now' \in Nat /\ now <= now'
      /\ o \in Instances /\ o # j /\ \A k \in Instances : k = j \/ k = o
      /\ docs'[j][d] = version /\ docs'[o][d] = docs[o][d] /\ Becomes(j, d, version)
  BY StepBase, Others DEF Deleting, UserPuts, Becomes
<1>1. CASE version # Missing
  <2>1. PICK k \in Instances : Missing \in VersionsAt(k, d)'
    BY DEF Kept
  <2>2. Missing \in VersionsAt(k, d)
    BY <1>0, <1>1, <2>1 DEF Becomes
  <2>3. PICK n \in Numbers(k, d) : changes[k][n].version = Missing
    BY <2>2 DEF VersionsAt
  <2>4. changes[k][n].clusterMs <= now /\ changes[k][n].clusterMs \in Nat
    BY <1>0, ChangesTyped DEF PastInv, Numbers
  <2>5. n \in Deletions(k, d)' /\ changes'[k][n] = changes[k][n]
    BY <1>0, <2>3, GrownKeeps DEF Deletions
  <2>6. version \in VersionsAt(j, d)'
    <3>1. Numbers(j, d)' # {} => docs'[j][d] \in VersionsAt(j, d)'
      BY <1>0 DEF LastInv, VersionsAt
    <3>2. Numbers(j, d)' # {}
      BY <1>0, <1>1 DEF LastInv
    <3> QED
      BY <1>0, <3>1, <3>2
  <2>7. version.at < changes[k][n].clusterMs
    BY <1>1, <2>5, <2>6 DEF Final
  <2>8. version.at = now'
    BY <1>1 DEF UserPuts
  <2> QED
    BY <1>0, <2>4, <2>7, <2>8
<1>2. CASE version = Missing
  <2>1. docs[j][d] # Missing /\ handled' = handled
    BY <1>2 DEF UserPuts
  <2>2. Open(o, d)'
    BY <1>0, <1>2, <2>1, DeletionMade
  <2> QED
    BY <1>0, <1>2, <2>2 DEF BackInv
<1> QED
  BY <1>1, <1>2

\* An apply deletes the document and so leaves a deletion of its own, or brings it back while
\* a deletion of the peer is still to come.
LEMMA BackAfterApply ==
  ASSUME NEW d \in Docs, Deleting(d), [Next]_vars, Calm(d)', ~Kept(d)',
         NEW j \in Instances, NEW a \in Appliers, NEW e \in Entries, ApplyPuts(a, j, e), e.doc = d
  PROVE  BackInv(d)'
<1> DEFINE o == Other(j)
<1>0. /\ Base /\ LastInv /\ LinkedInv /\ Grown /\ DocsTyped
      /\ o \in Instances /\ o # j /\ (\A k \in Instances : k = j \/ k = o) /\ Other(o) = j
      /\ docs'[j][d] = e.version /\ docs'[o][d] = docs[o][d] /\ Becomes(j, d, e.version)
      /\ handled' = handled \cup {e.event} /\ ~TooLate(j, e)
  BY StepBase, Others DEF Deleting, ApplyPuts, Becomes, Calm
<1>1. /\ e.event.src = o /\ Linked(e) /\ e.op \in {"upsert", "delete"}
      /\ e.event.n \in Numbers(o, d) /\ Cause(e) = changes[o][e.event.n]
  BY DEF ApplyPuts, Writes, Linked, InStream, Cause, Numbers, Entries
<1>2. \A n : Event(j, n) \in handled' => Event(j, n) \in handled
  <2>1. \A n : Event(j, n).src = j
    BY DEF Event
  <2> QED
    BY <1>0, <1>1, <2>1
<1>3. Open(o, d) => Open(o, d)'
  BY <1>0, <1>2, OpenKept
<1>4. CASE e.op = "delete"
  <2>1. e.version = Missing /\ Cause(e).version = Missing
    BY <1>1, <1>4 DEF Linked
  <2>2. ~Kept(d)
    BY <1>0, <1>1, <2>1 DEF Kept, VersionsAt
  <2>3. CASE docs[j][d] # Missing
    <3>1. Open(o, d)'
      BY <1>0, <1>2, <2>1, <2>3, DeletionMade
    <3> QED
      BY <1>0, <2>1, <3>1 DEF BackInv
  <2>4. CASE docs[j][d] = Missing
    <3>1. docs[o][d] # Missing => Open(o, d)
      BY <1>0, <2>2, <2>4 DEF Deleting, DeletingInv
    <3> QED
      BY <1>0, <1>3, <2>1, <3>1 DEF BackInv
  <2> QED
    BY <2>3, <2>4
<1>5. CASE e.op = "upsert"
  <2>1. Cause(e).version # Missing /\ e.version # Missing
    BY <1>5 DEF ApplyPuts, Writes, Linked, TimeOf, NoTime
  <2>2. \A n \in Deletions(o, d) : Event(o, n) \in handled' => Event(o, n) \in handled
    <3> SUFFICES ASSUME NEW n \in Deletions(o, d), Event(o, n) = e.event PROVE FALSE
      BY <1>0
    <3>1. e.event.n = n
      BY DEF Event
    <3> QED
      BY <1>1, <2>1, <3>1 DEF Deletions
  <2>3. Open(j, d) => Open(j, d)'
    BY <1>0, <2>2, OpenKept
  <2>4. ~Kept(d)
    BY <1>0, <2>1 DEF Kept, Becomes
  <2>5. /\ docs[j][d] # Missing => Open(j, d) \/ (docs[o][d] # Missing /\ Open(o, d))
        /\ docs[o][d] # Missing => Open(o, d) \/ (docs[j][d] # Missing /\ Open(j, d))
    BY <1>0, <2>4 DEF Deleting, DeletingInv
  <2>6. CASE docs[j][d] # Missing \/ docs[o][d] # Missing
    BY <1>0, <1>3, <2>1, <2>3, <2>5, <2>6 DEF BackInv
  <2>7. CASE docs[j][d] = Missing /\ docs[o][d] = Missing
    <3>1. PICK n \in Numbers(o, d) : docs[o][d] = changes[o][n].version /\ \A m \in Numbers(o, d) : m <= n
      BY <1>0, <1>1 DEF LastInv
    <3>2. n \in Deletions(o, d) /\ n # e.event.n
      BY <1>1, <2>1, <2>7, <3>1 DEF Deletions
    <3>3. n > e.event.n
      <4>1. n \in Nat /\ e.event.n \in Nat /\ e.event.n <= n
        BY <1>1, <3>1 DEF Numbers
      <4> QED
        BY <3>2, <4>1
    <3>4. Event(o, n).src = o /\ Event(o, n).n = n /\ changes[o][n].doc = d
      BY <3>1 DEF Event, Numbers
    <3>5. Event(o, n) \notin handled
      BY <1>0, <1>1, <3>3, <3>4 DEF TooLate
    <3>6. Open(j, d)
      BY <3>2, <3>5 DEF Open
    <3> QED
      BY <1>0, <2>3, <2>7, <3>6 DEF BackInv
  <2> QED
    BY <2>6, <2>7
<1> QED
  BY <1>1, <1>4, <1>5

LEMMA BackKept ==
  ASSUME NEW d \in Docs, Deleting(d), [Next]_vars, Calm(d)', Final(d)', ~Kept(d)'
  PROVE  BackInv(d)'
<1>0. Base /\ Grown
  BY StepBase DEF Deleting
<1>1. CASE \E i \in Instances : \E version : UserPuts(i, d, version)
  BY <1>1, BackAfterUser
<1>2. CASE \E i \in Instances, a \in Appliers, e \in Entries : ApplyPuts(a, i, e) /\ e.doc = d
  BY <1>2, BackAfterApply
<1>3. CASE Stays(d) /\ ~ \E i \in Instances, a \in Appliers, e \in Entries : ApplyPuts(a, i, e) /\ e.doc = d
  <2>1. ~Kept(d)
    BY <1>3 DEF Stays, Kept
  <2>2. \A i \in Instances : \A n \in Deletions(i, d) : Event(i, n) \in handled' => Event(i, n) \in handled
    BY <1>3, DeletionHandled, Others
  <2>3. \A i \in Instances : Open(i, d) => Open(i, d)'
    BY <2>2, OpenKept, Others
  <2>4. BackInv(d)
    BY <2>1 DEF Deleting, DeletingInv, BackInv
  <2> QED
    BY <1>3, <2>3, <2>4, Others DEF BackInv, Stays
<1> QED
  BY <1>0, <1>1, <1>2, <1>3, DocumentMoves

LEMMA DeletionsDelivered ==
  ASSUME NEW d \in Docs, Deleting(d), [Next]_vars, Calm(d)',
         NEW i \in Instances, NEW n \in Deletions(i, d)', Event(i, n) \in logged'
  PROVE  Event(i, n) \in handled' \/ \E e \in log'[i] : e.event = Event(i, n) /\ Sendable(i, e)
<1>0. /\ Base /\ SyncInv /\ Calm(d) /\ DeletingInv(d)
      /\ handled \subseteq handled'
  BY StepBase, HandledMoves DEF Deleting
<1>1. Event(i, n).src = i /\ Event(i, n).n = n /\ changes'[i][n].doc = d /\ changes'[i][n].version = Missing
  BY DEF Event, Deletions, Numbers
<1>3. n \in Numbers(i, d) /\ changes'[i][n] = changes[i][n]
  BY <1>0, LoggedBefore, <1>1 DEF Deletions
<1>4. n \in Deletions(i, d) /\ changes[i][n].doc = d /\ changes[i][n].version = Missing
  BY <1>1, <1>3 DEF Deletions
<1>5. CASE Event(i, n) \in logged
  <2>1. Event(i, n) \in handled \/ Waiting(i, n)
    BY <1>0, <1>4, <1>5 DEF DeletingInv
  <2>2. ASSUME NEW e \in log[i], e.event = Event(i, n), Sendable(i, e), e \notin log'[i]
        PROVE  Event(i, n) \in handled
    <3>1. e.event \notin dropped'
      BY <1>1, <2>2 DEF Calm
    <3>2. e.seq <= CursorOf(i)
      BY <1>0, <2>2, <3>1, EntryCollected
    <3>3. Settled(Event(i, n))
      BY <1>0, <2>2, <3>2 DEF SyncInv, CursorInv, NothingSkipped
    <3> QED
      BY <1>0, <1>3, <3>3, SettledHandled
  <2> QED
    BY <1>0, <2>1, <2>2 DEF Waiting
<1>6. CASE Event(i, n) \notin logged
  <2>6. PICK e \in log'[i] : EntryFits(e, i, n)
    BY <1>0, <1>6, LoggedNow
  <2>7. e.event = Event(i, n) /\ e.doc = d /\ e.hasProject = TRUE /\ e.origin = i
    BY <1>4, <2>6 DEF EntryFits
  <2>8. Sendable(i, e)
    BY <1>0, <2>7 DEF Sendable, Calm
  <2> QED
    BY <2>6, <2>7, <2>8
<1> QED
  BY <1>5, <1>6

-----------------------------------------------------------------------------
(* Deletions: the theorem *)

LEMMA DeleteStep == Base /\ DeleteInv /\ [Next]_vars => DeleteInv'
<1> SUFFICES ASSUME Base, DeleteInv, [Next]_vars, NEW d \in Docs, Calm(d)', Final(d)'
             PROVE  DeletingInv(d)'
  BY DEF DeleteInv
<1>1. Calm(d) /\ Final(d)
  BY CalmBefore, KeptBefore
<1>2. Deleting(d)
  BY <1>1 DEF Deleting, DeleteInv
<1>3. ~Kept(d)' => BackInv(d)'
  BY <1>2, BackKept
<1>4. \A i \in Instances : \A n \in Deletions(i, d)' :
        Event(i, n) \in logged' => Event(i, n) \in handled' \/ Waiting(i, n)'
  BY <1>2, DeletionsDelivered DEF Waiting
<1> QED
  BY <1>3, <1>4 DEF DeletingInv, BackInv

LEMMA DeleteInvariant == Spec => [](Base /\ DeleteInv)
<1>1. Init => Base
  BY SyncInitially, StreamInitially, BaseInitially DEF Base
<1>2. Init => DeleteInv
  <2> SUFFICES ASSUME Init, NEW d \in Docs PROVE DeletingInv(d)
    BY DEF DeleteInv
  <2>1. \A i \in Instances : changes[i] = <<>>
    BY DEF Init
  <2>2. Len(<<>>) = 0
    BY EmptySeq
  <2>3. \A i \in Instances : Deletions(i, d) = {} /\ VersionsAt(i, d) = {}
    BY <2>1, <2>2 DEF Deletions, Numbers, VersionsAt
  <2> QED
    BY <2>3 DEF DeletingInv, Kept
<1> QED
  BY <1>1, <1>2, BaseStep, DeleteStep, PTL DEF Spec

\* A deletion is final, for any documents, bounds and faults: when everything has settled, a
\* document whose deletions each fell in a later second than every version of it is on neither
\* side, however often an older version brought it back in between.
THEOREM DeletionsFinal == Spec => []DeletionsHold
<1>1. Base /\ DeleteInv => DeletionsHold
  <2> SUFFICES ASSUME Base, DeleteInv, Quiet, NEW d \in Docs, Undisturbed(d), Deleted(d),
                      \A b, c \in ChangesOf(d) :
                        b.version # Missing /\ c.version = Missing => b.version.at < c.clusterMs,
                      NEW i \in Instances
               PROVE  docs[i][d] = Missing
    BY DEF DeletionsHold
  <2>1. Calm(d)
    BY DEF Undisturbed, Calm
  <2>2. \A j \in Instances : \A n \in Numbers(j, d) : changes[j][n] \in ChangesOf(d)
    BY DEF ChangesOf, Numbers
  <2>3. Final(d)
    BY <2>2 DEF Final, VersionsAt, Deletions
  <2>4. DeletingInv(d)
    BY <2>1, <2>3 DEF DeleteInv
  <2>5. ~Kept(d)
    BY DEF Deleted, ChangesOf, Kept, VersionsAt, Numbers
  <2>6. \A j \in Instances : \A n \in Deletions(j, d) : Event(j, n) \in handled
    <3> SUFFICES ASSUME NEW j \in Instances, NEW n \in Deletions(j, d) PROVE Event(j, n) \in handled
      OBVIOUS
    <3>1. n \in Numbers(j, d)
      BY DEF Deletions
    <3>2. Event(j, n) \in logged /\ (Waiting(j, n) => Event(j, n) \in handled)
      BY <2>1, <3>1, QuietDelivers
    <3> QED
      BY <2>4, <3>2 DEF DeletingInv
  <2>7. \A j \in Instances : ~Open(j, d)
    BY <2>6, Others DEF Open
  <2> QED
    BY <2>4, <2>5, <2>7, Others DEF DeletingInv
<1> QED
  BY <1>1, DeleteInvariant, PTL
=============================================================================
