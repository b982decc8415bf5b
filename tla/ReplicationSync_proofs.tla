----------------------- MODULE ReplicationSync_proofs -----------------------
(***************************************************************************)
(* For any documents, bounds and faults: type correctness of               *)
(* ReplicationSync; no cursor passes an entry the peer has not finished    *)
(* with; and the log follows the change stream: the resume token is never  *)
(* ahead of it, a change has one entry, the entries keep the order.        *)
(***************************************************************************)
EXTENDS ReplicationSync, SequenceTheorems, FiniteSetTheorems, TLAPS

-----------------------------------------------------------------------------
(* The invariant: types *)

TimeTyped == now \in Nat \ {0} /\ writes \in 0..MaxWrites /\ faults \in 0..MaxFaults

Changes == [doc : Docs, version : Versions \cup {Missing}, clusterMs : Nat]
DocsTyped ==
  /\ docs \in [Instances -> [Docs -> Versions \cup {Missing}]]
  /\ changes \in [Instances -> Seq(Changes)]

TagsTyped ==
  /\ tags = [i \in Instances |-> tags[i]]
  /\ \A i \in Instances : \A t \in DOMAIN tags[i] : tags[i][t] \in Instances

WriterTyped ==
  /\ writer \in [Instances -> [step : {"next", "token", "dead"}, at : Nat]]
  /\ token \in [Instances -> Nat] /\ counter \in [Instances -> Nat]

LogTyped == log = [i \in Instances |-> log[i]] /\ \A i \in Instances : log[i] \subseteq Entries

LettersTyped == DOMAIN letters \subseteq Events /\ \A v \in DOMAIN letters : letters[v] \in Letters

Drivers ==
  [step : {"idle", "push", "sent", "pull", "apply"}, limit : 1..BatchLimit,
   excluded : SUBSET Events, sent : SUBSET Entries, last : Nat, full : BOOLEAN,
   handler : Handlers \cup {Nobody}]
DriverTyped == cursorOut \in Nat /\ cursorIn \in Nat /\ driver \in Drivers

Loops == [step : {"idle", "read", "write", "done"}, todo : Seq(Entries),
          through : Nat, failed : Nat]
\* A loop that reads or writes has an entry left.
AppliersTyped ==
  /\ applier \in [Appliers -> Loops]
  /\ \A a \in Appliers : applier[a].step \in {"read", "write"} => applier[a].todo # <<>>

HistoryTyped == logged \cup handled \cup dropped \subseteq Events /\ clobbered \subseteq Docs

Typed ==
  /\ TimeTyped /\ DocsTyped /\ TagsTyped /\ WriterTyped /\ LogTyped /\ LettersTyped
  /\ DriverTyped /\ AppliersTyped /\ HistoryTyped

-----------------------------------------------------------------------------
(* The invariant: cursors *)

SettledEvents == {v \in Events : Settled(v)}

ByNumber(S) == \A e, f \in S : e.seq = f.seq => e = f
Ordered(s) == \A k, m \in 1..Len(s) : k < m => s[k].seq < s[m].seq
Unfinished(s) == {s[k] : k \in 1..Len(s)}

\* The numbers of a log are unique and not above the counter, nor is the cursor.
LogNumbered ==
  \A i \in Instances :
    /\ IsFiniteSet(log[i]) /\ ByNumber(log[i])
    /\ \A e \in log[i] : e.seq <= counter[i]
    /\ CursorOf(i) <= counter[i]

\* The loop p of an instance other than i goes through the batch S of i; the events
\* in D are settled.  Up to `through' everything is, a failure is recorded, and
\* without one only what is still to do lies beyond.
Progress(p, S, i, D) ==
  /\ S \subseteq Entries /\ ByNumber(S) /\ \A e \in S : e.origin = i
  /\ Unfinished(p.todo) \subseteq S /\ Ordered(p.todo)
  /\ \A e \in Unfinished(p.todo) : p.through < e.seq
  /\ \A e \in S : e.seq <= p.through => e.event \in D
  /\ p.through = 0 \/ \E e \in S : e.seq = p.through
  /\ p.failed = 0 => \A e \in S : e.seq <= p.through \/ e \in Unfinished(p.todo)
  /\ p.failed # 0 => \E e \in S : e.seq = p.failed
  /\ p.step = "done" => p.todo = <<>>

\* The window up to `last' is in the batch, unless it is settled already.
Covers(S, i, last) ==
  /\ last <= counter[i] /\ \A e \in S : e.seq <= last
  /\ \A e \in log[i] : Sendable(i, e) /\ CursorOf(i) < e.seq /\ e.seq <= last
       => e \in S \/ e.event \in driver.excluded

ExcludedSettled == driver.excluded \subseteq SettledEvents

SentInv ==
  driver.step = "sent" =>
    /\ driver.handler \in Handlers /\ driver.sent # {} /\ IsFiniteSet(driver.sent)
    /\ Progress(applier[driver.handler], driver.sent, Active, SettledEvents)
    /\ Covers(driver.sent, Active, driver.last)

PulledInv ==
  driver.step = "apply" =>
    \E S : Progress(applier[Puller], S, Passive, SettledEvents) /\ Covers(S, Passive, driver.last)

CursorInv == LogNumbered /\ NothingSkipped /\ ExcludedSettled /\ SentInv /\ PulledInv

-----------------------------------------------------------------------------
(* Sequences and sets of entries *)

LEMMA Different == Active # Passive /\ Active \in Instances /\ Passive \in Instances
<1> QED
  BY InstancesAssumption DEF Instances

LEMMA Sites ==
  /\ \A h \in Handlers : h \in Appliers /\ Site(h) = Passive /\ h # Puller /\ h # Replayer
                         /\ h # Nobody
  /\ Puller \in Appliers /\ Replayer \in Appliers /\ Puller # Replayer
  /\ Site(Puller) = Active /\ Site(Replayer) = Active
  /\ \A a \in Appliers : Site(a) \in Instances
<1> QED
  BY AppliersAssumption DEF Appliers, Site, Instances

LEMMA FaultTyped ==
  ASSUME TimeTyped, NEW kind, Fault(kind)
  PROVE  faults' \in 0..MaxFaults
<1> QED
  BY BoundsAssumption DEF TimeTyped, Fault

\* The sequence of a set that is finite and has unique numbers lists all of it in order.
LEMMA Listed ==
  ASSUME NEW S, IsFiniteSet(S), S \subseteq Entries, ByNumber(S)
  PROVE  /\ InSeqOrder(S) \in Seq(S) /\ Len(InSeqOrder(S)) = Cardinality(S)
         /\ Ordered(InSeqOrder(S)) /\ Unfinished(InSeqOrder(S)) = S
<1> DEFINE n == Cardinality(S)
           Upto(e) == {f \in S : f.seq <= e.seq}
           rank == [e \in S |-> Cardinality(Upto(e))]
           s == InSeqOrder(S)
<1>1. n \in Nat
  BY FS_CardinalityType
<1>2. \A e \in S : e.seq \in Nat
  BY DEF Entries
<1>3. \A e \in S : rank[e] \in 1..n
  <2> SUFFICES ASSUME NEW e \in S PROVE Cardinality(Upto(e)) \in 1..n
    OBVIOUS
  <2>1. Upto(e) \in SUBSET S
    OBVIOUS
  <2>2. IsFiniteSet(Upto(e)) /\ Cardinality(Upto(e)) <= n
    BY <2>1, FS_Subset
  <2>3. e \in Upto(e)
    BY <1>2
  <2>4. Cardinality(Upto(e)) \in Nat /\ Cardinality(Upto(e)) # 0
    BY <2>2, <2>3, FS_EmptySet, FS_CardinalityType
  <2> QED
    BY <1>1, <2>2, <2>4
<1>4. \A e, f \in S : e.seq < f.seq => rank[e] < rank[f]
  <2> SUFFICES ASSUME NEW e \in S, NEW f \in S, e.seq < f.seq
               PROVE  Cardinality(Upto(e)) < Cardinality(Upto(f))
    OBVIOUS
  <2>1. Upto(f) \in SUBSET S
    OBVIOUS
  <2>2. IsFiniteSet(Upto(f))
    BY <2>1, FS_Subset
  <2>3. Upto(e) \in SUBSET Upto(f) /\ f \in Upto(f) /\ f \notin Upto(e)
    BY <1>2
  <2>4. Cardinality(Upto(e)) <= Cardinality(Upto(f))
        /\ Cardinality(Upto(f)) # Cardinality(Upto(e))
    BY <2>2, <2>3, FS_Subset
  <2>5. Cardinality(Upto(e)) \in Nat /\ Cardinality(Upto(f)) \in Nat
    BY <2>2, <2>3, FS_Subset, FS_CardinalityType
  <2> QED
    BY <2>4, <2>5
<1>5. rank \in Injection(S, 1..n)
  <2>1. rank \in [S -> 1..n]
    BY <1>3
  <2>2. \A e, f \in S : rank[e] = rank[f] => e = f
    <3> HIDE DEF rank, n
    <3> QED
      BY <1>1, <1>2, <1>3, <1>4 DEF ByNumber
  <2> QED
    BY <2>1, <2>2 DEF Injection, IsInjective
<1>6. \A k \in 1..n : \E e \in S : rank[e] = k
  <2>1. IsFiniteSet(1..n) /\ Cardinality(1..n) = n
    BY <1>1, FS_Interval
  <2>2. rank \in Surjection(S, 1..n)
    BY <1>5, <2>1, FS_Injection
  <2> QED
    BY <2>2 DEF Surjection
<1>7. /\ DOMAIN s = 1..n
      /\ \A k \in 1..n : s[k] = CHOOSE e \in S : rank[e] = k
  BY DEF InSeqOrder
<1>8. \A k \in 1..n : s[k] \in S /\ rank[s[k]] = k
  <2> HIDE DEF rank, n, s
  <2> QED
    BY <1>6, <1>7
<1>9. s = [k \in 1..n |-> s[k]]
  <2> DEFINE entry(k) == CHOOSE e \in S : Cardinality(Upto(e)) = k
  <2>1. s = [k \in 1..n |-> entry(k)]
    BY DEF InSeqOrder
  <2> HIDE DEF entry, s
  <2> QED
    BY <2>1
<1> HIDE DEF rank, n, s
<1>10. s \in Seq(S) /\ Len(s) = n
  <2>1. s \in [1..n -> S]
    BY <1>8, <1>9
  <2>2. s \in Seq(S)
    BY <1>1, <2>1, SeqDef
  <2>3. Len(s) \in Nat /\ DOMAIN s = 1..Len(s)
    BY <2>2, LenProperties
  <2> QED
    BY <1>1, <1>7, <2>2, <2>3
<1>11. Ordered(s)
  <2> SUFFICES ASSUME NEW k \in 1..n, NEW m \in 1..n, k < m
               PROVE  s[k].seq < s[m].seq
    BY <1>10 DEF Ordered
  <2>1. s[k] \in S /\ s[m] \in S /\ rank[s[k]] = k /\ rank[s[m]] = m
    BY <1>8
  <2>2. ~(s[m].seq < s[k].seq)
    BY <1>1, <1>4, <2>1
  <2>3. s[m].seq # s[k].seq
    BY <2>1 DEF ByNumber
  <2> QED
    BY <1>2, <2>1, <2>2, <2>3
<1>12. Unfinished(s) = S
  <2>1. ASSUME NEW e \in S
        PROVE  \E k \in 1..n : s[k] = e
    <3>1. rank[e] \in 1..n /\ rank[s[rank[e]]] = rank[e] /\ s[rank[e]] \in S
      BY <1>3, <1>8
    <3>2. s[rank[e]] = e
      BY <1>5, <3>1 DEF Injection, IsInjective
    <3> QED
      BY <3>1, <3>2
  <2> QED
    BY <1>8, <1>10, <2>1 DEF Unfinished
<1> QED
  BY <1>10, <1>11, <1>12 DEF s, n

\* MaxSeq is the highest number.
LEMMA Highest ==
  ASSUME NEW S, IsFiniteSet(S), S \subseteq Entries, ByNumber(S), S # {}
  PROVE  /\ \E e \in S : e.seq = MaxSeq(S)
         /\ \A e \in S : e.seq <= MaxSeq(S)
         /\ MaxSeq(S) \in Nat \ {0}
<1> DEFINE s == InSeqOrder(S)
           n == Cardinality(S)
<1>1. s \in Seq(S) /\ Len(s) = n /\ Ordered(s) /\ Unfinished(s) = S
  BY Listed
<1>2. n \in Nat /\ n # 0
  BY FS_CardinalityType, FS_EmptySet
<1> HIDE DEF s, n
<1>3. s[n] \in S
  BY <1>1, <1>2 DEF Unfinished
<1>4. \A e \in S : e.seq <= s[n].seq
  <2> SUFFICES ASSUME NEW k \in 1..n PROVE s[k].seq <= s[n].seq
    BY <1>1 DEF Unfinished
  <2>1. s[k] \in S
    BY <1>1 DEF Unfinished
  <2>2. k = n \/ s[k].seq < s[n].seq
    BY <1>1, <1>2 DEF Ordered
  <2> QED
    BY <1>3, <2>1, <2>2 DEF Entries
<1>5. \E x \in {e.seq : e \in S} : \A e \in S : e.seq <= x
  BY <1>3, <1>4
<1>6. MaxSeq(S) \in {e.seq : e \in S} /\ \A e \in S : e.seq <= MaxSeq(S)
  BY <1>5 DEF MaxSeq
<1> QED
  BY <1>6 DEF Entries

\* A window is closed under smaller numbers above the cursor.
LEMMA WindowClosed ==
  ASSUME NEW S, IsFiniteSet(S), S \subseteq Entries, ByNumber(S), NEW c \in Nat, NEW limit \in Nat
  PROVE  /\ Above(S, c, limit) \subseteq S /\ IsFiniteSet(Above(S, c, limit))
         /\ \A e \in Above(S, c, limit) : c < e.seq
         /\ Above(S, c, limit) # {} =>
              \A e \in S : c < e.seq /\ e.seq <= MaxSeq(Above(S, c, limit)) => e \in Above(S, c, limit)
<1> DEFINE W == Above(S, c, limit)
<1>1. W \subseteq S /\ \A e \in W : c < e.seq
  BY DEF Above
<1>2. IsFiniteSet(W)
  BY <1>1, FS_Subset
<1>3. ASSUME W # {}, NEW e \in S, c < e.seq, e.seq <= MaxSeq(W)
      PROVE  e \in W
  <2>1. PICK w \in W : w.seq = MaxSeq(W)
    BY <1>1, <1>2, <1>3, Highest DEF ByNumber
  <2> DEFINE Below(x) == {f \in S : c < f.seq /\ f.seq <= x.seq}
  <2>2. Cardinality(Below(w)) <= limit /\ w \in S
    BY DEF Above
  <2>3. IsFiniteSet(Below(w))
    BY FS_Subset
  <2>4. e.seq \in Nat /\ w.seq \in Nat /\ \A f \in S : f.seq \in Nat
    BY <2>2 DEF Entries
  <2>5. Below(e) \in SUBSET Below(w)
    BY <1>3, <2>1, <2>4
  <2>6. Cardinality(Below(e)) <= Cardinality(Below(w))
        /\ Cardinality(Below(e)) \in Nat /\ Cardinality(Below(w)) \in Nat
    BY <2>3, <2>5, FS_Subset, FS_CardinalityType
  <2>7. Cardinality(Below(e)) <= limit
    BY <2>2, <2>6
  <2> QED
    BY <1>3, <2>7 DEF Above
<1> QED
  BY <1>1, <1>2, <1>3

-----------------------------------------------------------------------------
(* Dead letters *)

\* What is resolved or pending stays so.
LettersKept ==
  \A v \in DOMAIN letters : letters[v].status # "retrying"
    => v \in DOMAIN letters' /\ letters'[v].status # "retrying"

LEMMA RecordTyped ==
  ASSUME LettersTyped, NEW e \in Entries, letters' = RecordFailure(e)
  PROVE  LettersTyped' /\ LettersKept
<1> DEFINE old == IF e.event \in DOMAIN letters THEN letters[e.event]
                  ELSE [entry |-> e, attempts |-> 0, status |-> "retrying"]
           attempts == IF old.attempts < MaxAttempts THEN old.attempts + 1 ELSE old.attempts
           status == IF old.status = "retrying" /\ attempts >= MaxAttempts THEN "pending"
                     ELSE old.status
           new == [entry |-> e, attempts |-> attempts, status |-> status]
<1>1. letters' = [v \in DOMAIN letters \cup {e.event} |-> IF v = e.event THEN new ELSE letters[v]]
  BY DEF RecordFailure, Upsert
<1>2. e.event \in Events
  BY DEF Entries
<1>3. old.attempts \in 0..MaxAttempts /\ old.status \in {"retrying", "pending", "replayed", "discarded"}
  BY BoundsAssumption DEF LettersTyped, Letters
<1>4. attempts \in 1..MaxAttempts /\ status \in {"retrying", "pending", "replayed", "discarded"}
  <2> HIDE DEF old
  <2> QED
    BY <1>3, BoundsAssumption
<1>5. new \in Letters /\ new.status = status
  <2> HIDE DEF attempts, status
  <2> QED
    BY <1>4 DEF Letters
<1>6. e.event \in DOMAIN letters /\ letters[e.event].status # "retrying" => status # "retrying"
  OBVIOUS
<1> HIDE DEF new, status, attempts, old
<1> QED
  BY <1>1, <1>2, <1>5, <1>6 DEF LettersTyped, LettersKept

LEMMA ClearTyped ==
  ASSUME LettersTyped, NEW events, letters' = Clear(events)
  PROVE  LettersTyped' /\ LettersKept
<1>1. letters' = [v \in DOMAIN letters \ {w \in events : letters[w].status = "retrying"} |-> letters[v]]
  BY DEF Clear
<1> QED
  BY <1>1 DEF LettersTyped, LettersKept

LEMMA ResolveTyped ==
  ASSUME LettersTyped, NEW event, NEW status \in {"replayed", "discarded"},
         letters' = Resolve(event, status)
  PROVE  LettersTyped' /\ LettersKept
<1>1. letters' = [letters EXCEPT ![event].status = status]
  BY DEF Resolve
<1>2. CASE event \in DOMAIN letters
  <2> DEFINE new == [letters[event] EXCEPT !.status = status]
  <2>1. letters[event] \in Letters
    BY <1>2 DEF LettersTyped
  <2>2. new \in Letters /\ new.status = status
    BY <2>1 DEF Letters
  <2>3. letters' = [letters EXCEPT ![event] = new]
    BY <1>1
  <2> HIDE DEF new
  <2>4. /\ DOMAIN letters' = DOMAIN letters
        /\ \A v \in DOMAIN letters : letters'[v] = IF v = event THEN new ELSE letters[v]
    BY <2>3
  <2> QED
    BY <2>2, <2>4 DEF LettersTyped, LettersKept
<1>3. CASE event \notin DOMAIN letters
  <2>1. DOMAIN letters' = DOMAIN letters /\ \A v \in DOMAIN letters : letters'[v] = letters[v]
    BY <1>1, <1>3
  <2> QED
    BY <2>1 DEF LettersTyped, LettersKept
<1> QED
  BY <1>2, <1>3

LEMMA TerminalTyped ==
  ASSUME LettersTyped, NEW a, NEW e, NEW applied, AfterTerminal(a, e, applied)
  PROVE  LettersTyped' /\ LettersKept
<1>1. \/ letters' = Clear({e.event} \cap DOMAIN letters)
      \/ letters' = Resolve(e.event, "replayed")
      \/ letters' = letters
  BY DEF AfterTerminal
<1>2. CASE letters' = letters
  BY <1>2 DEF LettersTyped, LettersKept
<1> QED
  BY <1>1, <1>2, ClearTyped, ResolveTyped

LEMMA SettledGrows ==
  ASSUME LettersKept, handled \subseteq handled'
  PROVE  SettledEvents \subseteq SettledEvents' /\ \A v : Settled(v) => Settled(v)'
<1> QED
  BY DEF LettersKept, SettledEvents, Settled, Events

-----------------------------------------------------------------------------
(* Entries *)

LEMMA EntryTyped ==
  ASSUME DocsTyped, TagsTyped, NEW i \in Instances, NEW n \in 1..Len(changes[i]),
         NEW seq \in Nat \ {0}
  PROVE  /\ EntryOf(i, n, seq) \in Entries
         /\ EntryOf(i, n, seq).seq = seq /\ EntryOf(i, n, seq).event = Event(i, n)
<1> DEFINE c == changes[i][n]
           op == IF c.version = Missing THEN "delete" ELSE "upsert"
           version == IF op = "delete" THEN Missing ELSE docs[i][c.doc]
           tag == <<c.doc, TimeOf(version)>>
           at == IF op = "delete" THEN c.clusterMs ELSE TimeOf(version)
           origin == IF tag \in DOMAIN tags[i] THEN tags[i][tag] ELSE i
<1>1. changes[i] \in Seq(Changes) /\ Len(changes[i]) \in Nat
  BY LenProperties DEF DocsTyped
<1>2. c \in Changes
  BY <1>1, ElementOfSeq
<1> HIDE DEF c
<1>3. c.doc \in Docs /\ c.clusterMs \in Nat
  BY <1>2 DEF Changes
<1>4. version \in Versions \cup {Missing} /\ op \in {"upsert", "delete"}
  BY <1>3 DEF DocsTyped
<1> HIDE DEF version, op
<1>5. TimeOf(version) \in Nat
  BY <1>4 DEF TimeOf, NoTime, Versions
<1>6. at \in Nat /\ origin \in Instances
  BY <1>3, <1>5 DEF TagsTyped
<1>7. Event(i, n) \in Events
  BY <1>1 DEF Event, Events
<1> HIDE DEF at, origin
<1>8. EntryOf(i, n, seq) =
        [seq |-> seq, event |-> Event(i, n), doc |-> c.doc, op |-> op, version |-> version,
         at |-> at, hasProject |-> op = "delete" \/ version # Missing, origin |-> origin]
  BY DEF EntryOf, c, op, version, at, origin
<1>9. (op = "delete" \/ version # Missing) \in BOOLEAN
  OBVIOUS
<1> QED
  BY <1>3, <1>4, <1>6, <1>7, <1>8, <1>9 DEF Entries

LEMMA PutTyped ==
  ASSUME DocsTyped, NEW i \in Instances, NEW d \in Docs, NEW version \in Versions \cup {Missing},
         NEW ms \in Nat, Put(i, d, version, ms)
  PROVE  DocsTyped'
<1> DEFINE c == [doc |-> d, version |-> version, clusterMs |-> (ms \div SecondLength) * SecondLength]
<1>1. (ms \div SecondLength) * SecondLength \in Nat
  BY BoundsAssumption
<1>2. c \in Changes
  BY <1>1 DEF Changes
<1>3. docs' = [docs EXCEPT ![i][d] = version] /\ changes' \in {changes, [changes EXCEPT ![i] = Append(@, c)]}
  BY DEF Put
<1> HIDE DEF c
<1>4. Append(changes[i], c) \in Seq(Changes)
  BY <1>2, AppendProperties DEF DocsTyped
<1>5. changes' \in [Instances -> Seq(Changes)]
  BY <1>3, <1>4 DEF DocsTyped
<1>6. docs' \in [Instances -> [Docs -> Versions \cup {Missing}]]
  BY <1>3 DEF DocsTyped
<1> QED
  BY <1>5, <1>6 DEF DocsTyped

-----------------------------------------------------------------------------
(* The loops that apply entries *)

LEMMA HeadAndTail ==
  ASSUME NEW s \in Seq(Entries), s # <<>>
  PROVE  /\ Head(s) \in Entries /\ Tail(s) \in Seq(Entries) /\ Head(s) \in Unfinished(s)
         /\ Unfinished(s) = {Head(s)} \cup Unfinished(Tail(s))
         /\ Len(s) = 1 <=> Tail(s) = <<>>
         /\ Ordered(s) => Ordered(Tail(s)) /\ \A e \in Unfinished(Tail(s)) : Head(s).seq < e.seq
<1>1. /\ Head(s) \in Entries /\ Tail(s) \in Seq(Entries) /\ Len(Tail(s)) = Len(s) - 1
      /\ \A k \in 1..Len(Tail(s)) : Tail(s)[k] = s[k+1]
  BY HeadTailProperties
<1>2. Len(s) \in Nat /\ Len(s) # 0 /\ Head(s) = s[1]
  BY EmptySeq, LenProperties
<1> DEFINE t == Tail(s)
           n == Len(s)
<1>3. Len(t) = n - 1 /\ \A k \in 1..(n - 1) : t[k] = s[k+1]
  BY <1>1, <1>2
<1>4. t \in Seq(Entries)
  BY <1>1
<1> HIDE DEF t
<1>7. Len(s) = 1 <=> t = <<>>
  BY <1>2, <1>3, <1>4, EmptySeq
<1>5. Unfinished(s) = {s[1]} \cup Unfinished(t)
  <2>1. \A k \in 1..n : k = 1 \/ (k - 1 \in 1..(n - 1) /\ s[k] = t[k - 1])
    BY <1>2, <1>3
  <2>2. 1 \in 1..n /\ \A k \in 1..(n - 1) : k + 1 \in 1..n
    BY <1>2
  <2> QED
    BY <1>3, <2>1, <2>2 DEF Unfinished
<1>6. ASSUME Ordered(s)
      PROVE  Ordered(t) /\ \A e \in Unfinished(t) : s[1].seq < e.seq
  <2>1. \A k, m \in 1..n : k < m => s[k].seq < s[m].seq
    BY <1>6 DEF Ordered
  <2>2. ASSUME NEW k \in 1..(n - 1), NEW m \in 1..(n - 1), k < m
        PROVE  t[k].seq < t[m].seq
    <3>1. k + 1 \in 1..n /\ m + 1 \in 1..n /\ k + 1 < m + 1
      BY <1>2, <2>2
    <3> QED
      BY <1>3, <2>1, <3>1
  <2>3. ASSUME NEW k \in 1..(n - 1)
        PROVE  s[1].seq < t[k].seq
    <3>1. 1 \in 1..n /\ k + 1 \in 1..n /\ 1 < k + 1
      BY <1>2
    <3> QED
      BY <1>3, <2>1, <3>1
  <2> QED
    BY <1>3, <2>2, <2>3 DEF Ordered, Unfinished
<1> QED
  BY <1>1, <1>2, <1>5, <1>6, <1>7 DEF t

LEMMA AdvanceTyped ==
  ASSUME AppliersTyped, NEW a \in Appliers, NEW terminal \in BOOLEAN,
         applier[a].step \in {"read", "write"}, Advance(a, terminal)
  PROVE  /\ AppliersTyped' /\ Head(applier[a].todo) \in Entries
         /\ \A b \in Appliers : b # a => applier'[b] = applier[b]
         /\ \A S, i, D, D2 : /\ Progress(applier[a], S, i, D) /\ D \subseteq D2
                             /\ terminal => Head(applier[a].todo).event \in D2
                             => Progress(applier'[a], S, i, D2)
<1> DEFINE p == applier[a]
           e == Head(p.todo)
           step == IF Len(p.todo) = 1 THEN "done" ELSE "read"
           through == IF terminal /\ p.failed = 0 THEN e.seq ELSE p.through
           failed == IF ~terminal /\ p.failed = 0 THEN e.seq ELSE p.failed
           new == [step |-> step, todo |-> Tail(p.todo), through |-> through, failed |-> failed]
<1>1. applier' = [applier EXCEPT ![a] = new]
  BY Zenon DEF Advance
<1>2. p \in Loops /\ p.todo \in Seq(Entries) /\ p.todo # <<>> /\ p.through \in Nat /\ p.failed \in Nat
  BY DEF AppliersTyped, Loops
<1> HIDE DEF p
<1>3. /\ e \in Entries /\ Tail(p.todo) \in Seq(Entries) /\ e \in Unfinished(p.todo)
      /\ Unfinished(p.todo) = {e} \cup Unfinished(Tail(p.todo))
      /\ Len(p.todo) = 1 <=> Tail(p.todo) = <<>>
      /\ Ordered(p.todo) => Ordered(Tail(p.todo)) /\ \A f \in Unfinished(Tail(p.todo)) : e.seq < f.seq
  BY <1>2, HeadAndTail
<1> HIDE DEF e
<1>4. /\ step \in {"read", "done"} /\ through \in Nat /\ failed \in Nat
      /\ step = "read" <=> Tail(p.todo) # <<>>
  BY <1>2, <1>3 DEF Entries
<1> HIDE DEF step, through, failed
<1>5. new \in Loops /\ new.step = step /\ new.todo = Tail(p.todo) /\ new.through = through
      /\ new.failed = failed
  BY <1>3, <1>4 DEF Loops
<1> HIDE DEF new
<1>6. applier'[a] = new /\ \A b \in Appliers : b # a => applier'[b] = applier[b]
  BY <1>1 DEF AppliersTyped
<1>7. AppliersTyped'
  <2>1. applier' \in [Appliers -> Loops]
    BY <1>1, <1>5 DEF AppliersTyped
  <2>2. new.step \in {"read", "write"} => new.todo # <<>>
    BY <1>4, <1>5
  <2> QED
    BY <1>6, <2>1, <2>2 DEF AppliersTyped
<1>8. ASSUME NEW S, NEW i, NEW D, NEW D2, Progress(p, S, i, D), D \subseteq D2,
             terminal => e.event \in D2
      PROVE  Progress(new, S, i, D2)
  <2>1. /\ S \subseteq Entries /\ ByNumber(S) /\ \A f \in S : f.origin = i
        /\ Unfinished(p.todo) \subseteq S /\ Ordered(p.todo)
        /\ \A f \in Unfinished(p.todo) : p.through < f.seq
        /\ \A f \in S : f.seq <= p.through => f.event \in D
        /\ p.through = 0 \/ \E f \in S : f.seq = p.through
        /\ p.failed = 0 => \A f \in S : f.seq <= p.through \/ f \in Unfinished(p.todo)
        /\ p.failed # 0 => \E f \in S : f.seq = p.failed
    BY <1>8 DEF Progress
  <2>2. /\ Unfinished(new.todo) \subseteq S /\ Ordered(new.todo) /\ e \in S /\ e.seq \in Nat \ {0}
        /\ \A f \in S : f.seq \in Nat /\ f.event \in Events
    BY <1>3, <1>5, <2>1 DEF Entries
  <2>3. \A f \in Unfinished(new.todo) : new.through < f.seq
    BY <1>3, <1>5, <2>1, <2>2 DEF through
  <2>4. \A f \in S : f.seq <= new.through => f.event \in D2
    <3> SUFFICES ASSUME NEW f \in S, f.seq <= new.through PROVE f.event \in D2
      OBVIOUS
    <3>1. CASE terminal /\ p.failed = 0
      <4>1. f.seq <= e.seq
        BY <1>5, <3>1 DEF through
      <4>2. f.seq <= p.through \/ f = e
        BY <1>3, <2>1, <2>2, <3>1, <4>1
      <4> QED
        BY <1>8, <2>1, <3>1, <4>2
    <3>2. CASE ~(terminal /\ p.failed = 0)
      BY <1>5, <1>8, <2>1, <3>2 DEF through
    <3> QED
      BY <3>1, <3>2
  <2>5. new.through = 0 \/ \E f \in S : f.seq = new.through
    BY <1>5, <2>1, <2>2 DEF through
  <2>6. new.failed = 0 => \A f \in S : f.seq <= new.through \/ f \in Unfinished(new.todo)
    <3> SUFFICES ASSUME new.failed = 0, NEW f \in S
                 PROVE  f.seq <= new.through \/ f \in Unfinished(new.todo)
      OBVIOUS
    <3>1. terminal /\ p.failed = 0 /\ new.through = e.seq
      BY <1>5, <2>2 DEF failed, through
    <3>2. f.seq <= p.through \/ f = e \/ f \in Unfinished(new.todo)
      BY <1>3, <1>5, <2>1, <3>1
    <3> QED
      BY <1>2, <1>3, <2>1, <2>2, <3>1, <3>2
  <2>7. new.failed # 0 => \E f \in S : f.seq = new.failed
    BY <1>5, <2>1, <2>2 DEF failed
  <2>8. new.step = "done" => new.todo = <<>>
    BY <1>4, <1>5
  <2> QED
    BY <2>1, <2>2, <2>3, <2>4, <2>5, <2>6, <2>7, <2>8 DEF Progress
<1> QED
  BY <1>3, <1>6, <1>7, <1>8 DEF p, e

-----------------------------------------------------------------------------
(* Parts of the invariant that a step leaves alone *)

SyncInv == Typed /\ CursorInv

LEMMA Rests ==
  ASSUME Typed
  PROVE  /\ UNCHANGED <<now, writes, faults>> => TimeTyped'
         /\ UNCHANGED <<docs, changes>> => DocsTyped'
         /\ UNCHANGED tags => TagsTyped'
         /\ UNCHANGED <<writer, token, counter>> => WriterTyped'
         /\ UNCHANGED log => LogTyped'
         /\ UNCHANGED letters => LettersTyped' /\ LettersKept
         /\ UNCHANGED <<cursorOut, cursorIn, driver>> => DriverTyped'
         /\ UNCHANGED applier => AppliersTyped'
         /\ UNCHANGED <<logged, handled, dropped, clobbered>> => HistoryTyped'
<1> QED
  BY DEF Typed, TimeTyped, DocsTyped, TagsTyped, WriterTyped, LogTyped, LettersTyped, LettersKept,
         DriverTyped, AppliersTyped, HistoryTyped

LEMMA ProgressGrows ==
  ASSUME NEW p, NEW S, NEW i, NEW D, NEW D2, Progress(p, S, i, D), D \subseteq D2
  PROVE  Progress(p, S, i, D2)
<1> QED
  BY DEF Progress

\* What is settled grows, new entries have new numbers, and the batches in progress
\* make progress.
LEMMA CursorsKept ==
  ASSUME Typed, CursorInv, LettersKept, handled \subseteq handled',
         UNCHANGED <<cursorOut, cursorIn, driver>>,
         \A i \in Instances : counter[i] <= counter'[i] /\ counter'[i] \in Nat,
         \A i \in Instances :
           /\ IsFiniteSet(log'[i]) /\ ByNumber(log'[i]) /\ log'[i] \subseteq Entries
           /\ \A e \in log'[i] : e.seq <= counter'[i] /\ (e \in log[i] \/ counter[i] < e.seq),
         driver.step = "sent" =>
           \A S : Progress(applier[driver.handler], S, Active, SettledEvents)
                  => Progress(applier'[driver.handler], S, Active, SettledEvents'),
         driver.step = "apply" =>
           \A S : Progress(applier[Puller], S, Passive, SettledEvents)
                  => Progress(applier'[Puller], S, Passive, SettledEvents')
  PROVE  CursorInv'
<1>0. /\ LogNumbered /\ NothingSkipped /\ ExcludedSettled /\ SentInv /\ PulledInv
      /\ counter \in [Instances -> Nat] /\ cursorOut \in Nat /\ cursorIn \in Nat /\ driver \in Drivers
  BY DEF CursorInv, Typed, WriterTyped, DriverTyped
<1>1. SettledEvents \subseteq SettledEvents' /\ \A v : Settled(v) => Settled(v)'
  BY SettledGrows
<1>2. \A i \in Instances : CursorOf(i)' = CursorOf(i) /\ CursorOf(i) \in Nat /\ counter[i] \in Nat
                           /\ CursorOf(i) <= counter[i]
  BY <1>0 DEF CursorOf, LogNumbered
<1>3. \A i \in Instances : \A e \in log'[i] : e.seq \in Nat
  BY DEF Entries
<1>4. LogNumbered'
  BY <1>2 DEF LogNumbered
<1>5. NothingSkipped'
  <2> SUFFICES ASSUME NEW i \in Instances, NEW e \in log'[i], Sendable(i, e), e.seq <= CursorOf(i)
               PROVE  Settled(e.event)'
    BY <1>2 DEF NothingSkipped, Sendable
  <2>1. e \in log[i]
    BY <1>2, <1>3
  <2> QED
    BY <1>0, <1>1, <2>1 DEF NothingSkipped
<1>6. ExcludedSettled'
  BY <1>0, <1>1 DEF ExcludedSettled
<1>7. ASSUME NEW S, NEW i \in Instances, NEW last \in Nat, Covers(S, i, last)
      PROVE  Covers(S, i, last)'
  <2>1. /\ last <= counter[i] /\ \A e \in S : e.seq <= last
        /\ \A e \in log[i] : Sendable(i, e) /\ CursorOf(i) < e.seq /\ e.seq <= last
             => e \in S \/ e.event \in driver.excluded
    BY <1>7 DEF Covers
  <2>2. \A e \in log'[i] : e.seq <= last => e \in log[i]
    BY <1>2, <1>3, <2>1
  <2>3. last <= counter'[i]
    BY <1>2, <2>1
  <2> QED
    BY <1>2, <2>1, <2>2, <2>3 DEF Covers, Sendable
<1>8. SentInv'
  <2> SUFFICES ASSUME driver.step = "sent"
               PROVE  /\ driver.handler \in Handlers /\ driver.sent # {} /\ IsFiniteSet(driver.sent)
                      /\ Progress(applier'[driver.handler], driver.sent, Active, SettledEvents')
                      /\ Covers(driver.sent, Active, driver.last)'
    BY DEF SentInv
  <2>1. driver.last \in Nat
    BY <1>0 DEF Drivers
  <2> QED
    BY <1>0, <1>7, <2>1, Different DEF SentInv
<1>9. PulledInv'
  <2> SUFFICES ASSUME driver.step = "apply"
               PROVE  \E S : Progress(applier'[Puller], S, Passive, SettledEvents')
                             /\ Covers(S, Passive, driver.last)'
    BY DEF PulledInv
  <2>1. driver.last \in Nat
    BY <1>0 DEF Drivers
  <2>2. PICK S : Progress(applier[Puller], S, Passive, SettledEvents) /\ Covers(S, Passive, driver.last)
    BY <1>0 DEF PulledInv
  <2> QED
    BY <1>7, <2>1, <2>2, Different
<1> QED
  BY <1>4, <1>5, <1>6, <1>8, <1>9 DEF CursorInv

\* The common case: log, counter and cursors rest, at most one loop moves.
LEMMA LoopMoves ==
  ASSUME Typed, CursorInv, LettersKept, handled \subseteq handled',
         UNCHANGED <<log, counter, cursorOut, cursorIn, driver>>,
         NEW a \in Appliers, \A b \in Appliers : b # a => applier'[b] = applier[b],
         \/ applier'[a] = applier[a]
         \/ \A S, i : i # Site(a) /\ Progress(applier[a], S, i, SettledEvents)
                      => Progress(applier'[a], S, i, SettledEvents')
         \/ a \in Handlers /\ driver.handler # a
         \/ a = Replayer
  PROVE  CursorInv'
<1>1. SettledEvents \subseteq SettledEvents'
  BY SettledGrows
<1>2. \A b \in Appliers : \A S, i :
                                /\ b # a \/ applier'[a] = applier[a]
                                /\ Progress(applier[b], S, i, SettledEvents)
                                => Progress(applier'[b], S, i, SettledEvents')
  BY <1>1, ProgressGrows
<1>3. driver.step = "sent" =>
        \A S : Progress(applier[driver.handler], S, Active, SettledEvents)
               => Progress(applier'[driver.handler], S, Active, SettledEvents')
  <2> SUFFICES ASSUME driver.step = "sent", NEW S,
                      Progress(applier[driver.handler], S, Active, SettledEvents)
               PROVE  Progress(applier'[driver.handler], S, Active, SettledEvents')
    OBVIOUS
  <2>1. driver.handler \in Handlers
    BY DEF CursorInv, SentInv
  <2>2. driver.handler \in Appliers /\ Site(driver.handler) = Passive /\ driver.handler # Replayer
    BY <2>1, Sites
  <2> QED
    BY <1>2, <2>2, Different
<1>4. driver.step = "apply" =>
        \A S : Progress(applier[Puller], S, Passive, SettledEvents)
               => Progress(applier'[Puller], S, Passive, SettledEvents')
  BY <1>2, Sites, Different
<1>5. \A i \in Instances : counter[i] \in Nat /\ log[i] \subseteq Entries
  BY DEF Typed, WriterTyped, LogTyped
<1>6. \A i \in Instances : counter[i] <= counter'[i] /\ counter'[i] \in Nat
  BY <1>5
<1>7. \A i \in Instances :
        /\ IsFiniteSet(log'[i]) /\ ByNumber(log'[i]) /\ log'[i] \subseteq Entries
        /\ \A e \in log'[i] : e.seq <= counter'[i] /\ (e \in log[i] \/ counter[i] < e.seq)
  BY <1>5 DEF CursorInv, LogNumbered
<1> QED
  BY <1>3, <1>4, <1>6, <1>7, CursorsKept

LEMMA CursorsRest ==
  ASSUME Typed, CursorInv, LettersKept,
         UNCHANGED <<log, counter, cursorOut, cursorIn, driver, handled, applier>>
  PROVE  CursorInv'
<1> QED
  BY LoopMoves, Sites

-----------------------------------------------------------------------------
(* Users and log writers *)

LEMMA UserWritesStep ==
  ASSUME SyncInv, NEW i \in Instances, UserWrites(i)
  PROVE  SyncInv'
<1>0. Typed /\ CursorInv /\ TimeTyped /\ DocsTyped
  BY DEF SyncInv, Typed
<1>1. /\ writes < MaxWrites /\ writes' = writes + 1 /\ now' \in {now, now + 1}
      /\ UNCHANGED <<faults, writer, token, counter, log, logged, dropped, tags, handled, clobbered,
                     cursorOut, cursorIn, letters, driver, applier>>
  BY DEF UserWrites, syncVars
<1>2. TimeTyped'
  BY <1>0, <1>1, BoundsAssumption DEF TimeTyped
<1>3. PICK d \in Docs, version \in {Missing, [at |-> now', by |-> i]} : Put(i, d, version, now')
  BY DEF UserWrites
<1>4. now' \in Nat \ {0}
  BY <1>2 DEF TimeTyped
<1>5. version \in Versions \cup {Missing}
  BY <1>3, <1>4 DEF Versions
<1>6. DocsTyped'
  BY <1>0, <1>3, <1>4, <1>5, PutTyped
<1>7. Typed' /\ LettersKept
  BY <1>0, <1>1, <1>2, <1>6, Rests DEF Typed
<1>8. CursorInv'
  BY <1>0, <1>1, <1>7, CursorsRest
<1> QED
  BY <1>7, <1>8 DEF SyncInv

LEMMA LogChangeNumbers ==
  ASSUME SyncInv, NEW i \in Instances, LogChange(i)
  PROVE  SyncInv'
<1> DEFINE n == writer[i].at + 1
           e == NewEntry(i, n)
<1>0. Typed /\ CursorInv /\ DocsTyped /\ TagsTyped /\ WriterTyped /\ LogTyped /\ HistoryTyped
  BY DEF SyncInv, Typed
<1>1. /\ writer[i].step = "next" /\ writer[i].at < Len(changes[i])
      /\ log' = IF AlreadyLogged(i, e) THEN log ELSE [log EXCEPT ![i] = @ \cup {e}]
      /\ logged' = logged \cup {f.event : f \in log'[i]}
      /\ counter' = [counter EXCEPT ![i] = @ + 1]
      /\ writer' = [writer EXCEPT ![i].step = "token"]
      /\ UNCHANGED <<now, writes, faults, changes, token, dropped, docs, tags, handled, clobbered,
                     cursorOut, cursorIn, letters, driver, applier>>
  BY DEF LogChange, dataVars, syncVars
<1>2. writer[i].at \in Nat /\ Len(changes[i]) \in Nat /\ counter[i] \in Nat
  BY <1>0, LenProperties DEF WriterTyped, DocsTyped
<1>3. n \in 1..Len(changes[i]) /\ counter[i] + 1 \in Nat \ {0}
  BY <1>1, <1>2
<1>4. e \in Entries /\ e.seq = counter[i] + 1
  BY <1>0, <1>3, EntryTyped DEF NewEntry
<1> HIDE DEF n, e
<1>5. WriterTyped'
  <2>1. writer' \in [Instances -> [step : {"next", "token", "dead"}, at : Nat]]
    BY <1>0, <1>1 DEF WriterTyped
  <2>2. counter' \in [Instances -> Nat]
    BY <1>0, <1>1 DEF WriterTyped
  <2> QED
    BY <1>0, <1>1, <2>1, <2>2 DEF WriterTyped
<1>6. /\ \A j \in Instances : j # i => log'[j] = log[j]
      /\ log'[i] \in {log[i], log[i] \cup {e}} /\ log' = [j \in Instances |-> log'[j]]
  BY <1>0, <1>1 DEF LogTyped
<1>7. LogTyped'
  BY <1>0, <1>4, <1>6 DEF LogTyped
<1>8. HistoryTyped'
  <2>1. \A f \in log'[i] : f.event \in Events
    BY <1>7 DEF LogTyped, Entries
  <2> QED
    BY <1>0, <1>1, <2>1 DEF HistoryTyped
<1>9. Typed' /\ LettersKept
  BY <1>0, <1>1, <1>5, <1>7, <1>8, Rests DEF Typed
<1>10. \A j \in Instances : counter[j] <= counter'[j] /\ counter'[j] \in Nat /\ counter[j] \in Nat
  BY <1>0, <1>1 DEF WriterTyped
<1>11. ASSUME NEW j \in Instances
       PROVE  /\ IsFiniteSet(log'[j]) /\ ByNumber(log'[j]) /\ log'[j] \subseteq Entries
              /\ \A f \in log'[j] : f.seq <= counter'[j] /\ (f \in log[j] \/ counter[j] < f.seq)
  <2>1. IsFiniteSet(log[j]) /\ ByNumber(log[j]) /\ \A f \in log[j] : f.seq <= counter[j]
    BY <1>0 DEF CursorInv, LogNumbered
  <2>2. \A f \in log'[j] : f \in log[j] \/ (j = i /\ f = e)
    BY <1>6
  <2>3. IsFiniteSet(log'[j])
    BY <1>6, <2>1, FS_AddElement
  <2>4. log'[j] \subseteq Entries /\ log[j] \subseteq Entries
    BY <1>0, <1>7 DEF LogTyped
  <2>5. \A f \in log[j] : f.seq \in Nat /\ f.seq <= counter'[j]
    BY <1>10, <2>1, <2>4 DEF Entries
  <2>6. j = i => counter'[j] = counter[j] + 1
    BY <1>0, <1>1 DEF WriterTyped
  <2>7. \A f \in log'[j] : f.seq <= counter'[j] /\ (f \in log[j] \/ counter[j] < f.seq)
    BY <1>4, <1>10, <2>2, <2>5, <2>6
  <2>8. ByNumber(log'[j])
    <3>1. j = i => \A f \in log[j] : f.seq # e.seq
      BY <1>2, <1>4, <2>1, <2>5
    <3> QED
      BY <2>1, <2>2, <3>1 DEF ByNumber
  <2> QED
    BY <2>3, <2>4, <2>7, <2>8
<1>12. CursorInv'
  <2>1. SettledEvents \subseteq SettledEvents'
    BY <1>1, <1>9, SettledGrows
  <2> QED
    BY <1>0, <1>1, <1>9, <1>10, <1>11, <2>1, ProgressGrows, CursorsKept
<1> QED
  BY <1>9, <1>12 DEF SyncInv

LEMMA PersistTokenNumbers ==
  ASSUME SyncInv, NEW i \in Instances, PersistToken(i)
  PROVE  SyncInv'
<1>0. Typed /\ CursorInv /\ WriterTyped
  BY DEF SyncInv, Typed
<1> DEFINE n == writer[i].at + 1
           w == [step |-> "next", at |-> n]
<1>1. /\ token' = [token EXCEPT ![i] = n] /\ writer' = [writer EXCEPT ![i] = w]
      /\ UNCHANGED <<now, writes, faults, changes, counter, log, logged, dropped, docs, tags, handled,
                     clobbered, cursorOut, cursorIn, letters, driver, applier>>
  BY DEF PersistToken, dataVars, syncVars
<1>2. n \in Nat
  BY <1>0 DEF WriterTyped
<1> HIDE DEF n
<1>3. WriterTyped'
  BY <1>0, <1>1, <1>2 DEF WriterTyped
<1>4. Typed' /\ LettersKept
  BY <1>0, <1>1, <1>3, Rests DEF Typed
<1>5. CursorInv'
  BY <1>0, <1>1, <1>4, CursorsRest
<1> QED
  BY <1>4, <1>5 DEF SyncInv

LEMMA SwallowNumbers ==
  ASSUME SyncInv, NEW i \in Instances, SwallowChange(i)
  PROVE  SyncInv'
<1>0. Typed /\ CursorInv /\ WriterTyped /\ TimeTyped /\ HistoryTyped /\ LogTyped
  BY DEF SyncInv, Typed
<1> DEFINE n == writer[i].at + 1
           w == [writer[i] EXCEPT !.at = @ + 1]
<1>1. /\ Fault("swallow") /\ writer' = [writer EXCEPT ![i] = w]
      /\ \E used \in {0, 1} : counter' = [counter EXCEPT ![i] = @ + used]
      /\ dropped' = dropped \cup {Event(i, n)}
      /\ UNCHANGED <<now, writes, changes, token, log, logged, docs, tags, handled, clobbered,
                     cursorOut, cursorIn, letters, driver, applier>>
  BY Zenon DEF SwallowChange, dataVars, syncVars
<1>2. w \in [step : {"next", "token", "dead"}, at : Nat] /\ n \in Nat \ {0}
  BY <1>0 DEF WriterTyped
<1> HIDE DEF w, n
<1>3. WriterTyped'
  BY <1>0, <1>1, <1>2 DEF WriterTyped
<1>4. TimeTyped'
  BY <1>0, <1>1, FaultTyped DEF TimeTyped
<1>5. HistoryTyped'
  BY <1>0, <1>1, <1>2 DEF HistoryTyped, Event, Events
<1>6. Typed' /\ LettersKept
  BY <1>0, <1>1, <1>3, <1>4, <1>5, Rests DEF Typed
<1>7. \A j \in Instances : counter[j] <= counter'[j] /\ counter'[j] \in Nat /\ counter[j] \in Nat
  BY <1>0, <1>1 DEF WriterTyped
<1>8. ASSUME NEW j \in Instances
      PROVE  /\ IsFiniteSet(log'[j]) /\ ByNumber(log'[j]) /\ log'[j] \subseteq Entries
             /\ \A f \in log'[j] : f.seq <= counter'[j] /\ (f \in log[j] \/ counter[j] < f.seq)
  <2>1. IsFiniteSet(log[j]) /\ ByNumber(log[j]) /\ \A f \in log[j] : f.seq <= counter[j] /\ f.seq \in Nat
    BY <1>0 DEF CursorInv, LogNumbered, LogTyped, Entries
  <2> QED
    BY <1>0, <1>1, <1>7, <2>1 DEF LogTyped
<1>9. CursorInv'
  <2>1. SettledEvents \subseteq SettledEvents'
    BY <1>1, <1>6, SettledGrows
  <2> QED
    BY <1>0, <1>1, <1>6, <1>7, <1>8, <2>1, ProgressGrows, CursorsKept
<1> QED
  BY <1>6, <1>9 DEF SyncInv

LEMMA StreamDiesNumbers ==
  ASSUME SyncInv, NEW i \in Instances, StreamDies(i)
  PROVE  SyncInv'
<1>0. Typed /\ CursorInv /\ WriterTyped /\ TimeTyped
  BY DEF SyncInv, Typed
<1>1. /\ Fault("die") /\ writer' = [writer EXCEPT ![i].step = "dead"]
      /\ UNCHANGED <<now, writes, changes, token, counter, log, logged, dropped, docs, tags, handled,
                     clobbered, cursorOut, cursorIn, letters, driver, applier>>
  BY DEF StreamDies, dataVars, syncVars
<1>2. WriterTyped' /\ TimeTyped'
  BY <1>0, <1>1, FaultTyped DEF WriterTyped, TimeTyped
<1>3. Typed' /\ LettersKept
  BY <1>0, <1>1, <1>2, Rests DEF Typed
<1>4. CursorInv'
  BY <1>0, <1>1, <1>3, CursorsRest
<1> QED
  BY <1>3, <1>4 DEF SyncInv

LEMMA WatchTyped ==
  ASSUME Typed, NEW i \in Instances, NEW t \in Nat, WatchFrom(i, t), counter' = counter,
         token' \in [Instances -> Nat], UNCHANGED <<logged, handled, clobbered>>
  PROVE  WriterTyped' /\ HistoryTyped'
<1>0. WriterTyped /\ DocsTyped /\ HistoryTyped
  BY DEF Typed
<1>1. Len(changes[i]) \in Nat
  BY <1>0, LenProperties DEF DocsTyped
<1> DEFINE start == IF t = NoToken THEN Len(changes[i]) ELSE t
           w == [step |-> "next", at |-> start]
           missed == {Event(i, n) : n \in 1..Len(changes[i])} \ logged
<1>2. start \in Nat /\ w \in [step : {"next", "token", "dead"}, at : Nat]
  BY <1>1
<1>3. writer' = [writer EXCEPT ![i] = w] /\ dropped' \in {dropped, dropped \cup missed}
  BY DEF WatchFrom
<1>4. missed \subseteq Events
  BY <1>1 DEF Event, Events
<1> HIDE DEF w, start, missed
<1>5. WriterTyped'
  BY <1>0, <1>2, <1>3 DEF WriterTyped
<1>6. HistoryTyped'
  BY <1>0, <1>3, <1>4 DEF HistoryTyped
<1> QED
  BY <1>5, <1>6

LEMMA TokenLostNumbers ==
  ASSUME SyncInv, NEW i \in Instances, RestartWithoutToken(i)
  PROVE  SyncInv'
<1>0. Typed /\ CursorInv /\ WriterTyped /\ TimeTyped
  BY DEF SyncInv, Typed
<1>1. /\ Fault("tokenLost") /\ token' = [token EXCEPT ![i] = NoToken] /\ WatchFrom(i, NoToken)
      /\ UNCHANGED <<now, writes, changes, counter, log, logged, docs, tags, handled, clobbered,
                     cursorOut, cursorIn, letters, driver, applier>>
  BY DEF RestartWithoutToken, dataVars, syncVars
<1>2. NoToken \in Nat /\ token' \in [Instances -> Nat]
  BY <1>0, <1>1 DEF WriterTyped, NoToken
<1>3. WriterTyped' /\ HistoryTyped'
  BY <1>0, <1>1, <1>2, WatchTyped
<1>4. TimeTyped'
  BY <1>0, <1>1, FaultTyped DEF TimeTyped
<1>5. Typed' /\ LettersKept
  BY <1>0, <1>1, <1>3, <1>4, Rests DEF Typed
<1>6. CursorInv'
  BY <1>0, <1>1, <1>5, CursorsRest
<1> QED
  BY <1>5, <1>6 DEF SyncInv

-----------------------------------------------------------------------------
(* Applying entries *)

LEMMA Reading ==
  ASSUME Typed, NEW a \in Appliers, applier[a].step \in {"read", "write"}
  PROVE  /\ Head(applier[a].todo) \in Entries
         /\ Head(applier[a].todo) \in Unfinished(applier[a].todo)
         /\ Site(a) \in Instances
<1>1. applier[a].todo \in Seq(Entries) /\ applier[a].todo # <<>>
  BY DEF Typed, AppliersTyped, Loops
<1> QED
  BY <1>1, HeadAndTail, Sites

\* The event is settled in the next state.
SettledNext(v) == v \in handled' \/ (v \in DOMAIN letters' /\ letters'[v].status # "retrying")

\* A step that ends an entry: what is terminal is settled.
LEMMA EntryEnds ==
  ASSUME Typed, CursorInv, LettersKept, handled \subseteq handled', NEW a \in Appliers,
         applier[a].step \in {"read", "write"}, NEW terminal \in BOOLEAN, Advance(a, terminal),
         UNCHANGED <<log, counter, cursorOut, cursorIn, driver>>,
         terminal /\ Head(applier[a].todo).origin # Site(a) => SettledNext(Head(applier[a].todo).event)
  PROVE  AppliersTyped' /\ CursorInv'
<1> DEFINE e == Head(applier[a].todo)
<1>1. AppliersTyped /\ e \in Entries /\ e \in Unfinished(applier[a].todo)
  BY Reading DEF Typed
<1>2. /\ AppliersTyped'
      /\ \A b \in Appliers : b # a => applier'[b] = applier[b]
      /\ \A S, i, D, D2 : /\ Progress(applier[a], S, i, D) /\ D \subseteq D2
                          /\ terminal => e.event \in D2
                          => Progress(applier'[a], S, i, D2)
  BY <1>1, AdvanceTyped
<1>3. SettledEvents \subseteq SettledEvents'
  BY SettledGrows
<1>4. ASSUME NEW S, NEW i, i # Site(a), Progress(applier[a], S, i, SettledEvents)
      PROVE  Progress(applier'[a], S, i, SettledEvents')
  <2>1. e.origin # Site(a)
    BY <1>1, <1>4 DEF Progress
  <2>2. terminal => e.event \in SettledEvents'
    BY <1>1, <2>1 DEF SettledEvents, SettledNext, Settled, Entries
  <2> QED
    BY <1>2, <1>3, <1>4, <2>2
<1>5. CursorInv'
  BY <1>2, <1>4, LoopMoves
<1> QED
  BY <1>2, <1>5

LEMMA SkipsStep ==
  ASSUME SyncInv, NEW a \in Appliers, ApplySkips(a)
  PROVE  SyncInv'
<1> DEFINE e == Head(applier[a].todo)
<1>0. Typed /\ CursorInv /\ LettersTyped /\ HistoryTyped
  BY DEF SyncInv, Typed
<1>1. /\ applier[a].step = "read" /\ AfterTerminal(a, e, FALSE) /\ Advance(a, TRUE)
      /\ handled' = IF e.origin = Site(a) THEN handled ELSE handled \cup {e.event}
      /\ UNCHANGED <<now, writes, faults, changes, writer, token, counter, log, logged, dropped,
                     docs, tags, clobbered, cursorOut, cursorIn, driver>>
  BY DEF ApplySkips, streamVars
<1>2. e \in Entries
  BY <1>0, <1>1, Reading
<1> HIDE DEF e
<1>3. LettersTyped' /\ LettersKept
  BY <1>0, <1>1, TerminalTyped
<1>4. HistoryTyped' /\ handled \subseteq handled'
  BY <1>0, <1>1, <1>2 DEF HistoryTyped, Entries
<1>5. e.origin # Site(a) => SettledNext(e.event)
  BY <1>1 DEF SettledNext
<1>6. AppliersTyped' /\ CursorInv'
  BY <1>0, <1>1, <1>3, <1>4, <1>5, EntryEnds DEF e
<1>7. Typed'
  BY <1>0, <1>1, <1>3, <1>4, <1>6, Rests DEF Typed
<1> QED
  BY <1>6, <1>7 DEF SyncInv

LEMMA ReadsStep ==
  ASSUME SyncInv, NEW a \in Appliers, ApplyReads(a)
  PROVE  SyncInv'
<1> DEFINE p == [applier[a] EXCEPT !.step = "write"]
<1>0. Typed /\ CursorInv /\ AppliersTyped
  BY DEF SyncInv, Typed
<1>1. /\ applier[a].step = "read"
      /\ UNCHANGED <<now, writes, faults, changes, writer, token, counter, log, logged, dropped,
                     docs, tags, handled, clobbered, cursorOut, cursorIn, letters, driver>>
  BY DEF ApplyReads, streamVars, dataVars
<1>2. applier' = [applier EXCEPT ![a] = p]
  BY Zenon DEF ApplyReads
<1>3. /\ p \in Loops /\ p.step = "write" /\ p.todo = applier[a].todo /\ p.through = applier[a].through
      /\ p.failed = applier[a].failed /\ applier[a].todo # <<>>
  BY <1>0, <1>1 DEF AppliersTyped, Loops
<1> HIDE DEF p
<1>4. applier'[a] = p /\ \A b \in Appliers : b # a => applier'[b] = applier[b]
  BY <1>0, <1>2 DEF AppliersTyped
<1>5. AppliersTyped'
  BY <1>0, <1>2, <1>3, <1>4 DEF AppliersTyped
<1>6. Typed' /\ LettersKept
  BY <1>0, <1>1, <1>5, Rests DEF Typed
<1>7. SettledEvents \subseteq SettledEvents'
  BY <1>1, <1>6, SettledGrows
<1>8. ASSUME NEW S, NEW i, Progress(applier[a], S, i, SettledEvents)
      PROVE  Progress(applier'[a], S, i, SettledEvents')
  <2>1. Progress(p, S, i, SettledEvents)
    BY <1>3, <1>8 DEF Progress
  <2> QED
    BY <1>4, <1>7, <2>1, ProgressGrows
<1>9. CursorInv'
  BY <1>0, <1>1, <1>4, <1>6, <1>8, LoopMoves
<1> QED
  BY <1>6, <1>9 DEF SyncInv

LEMMA TaggedTyped ==
  ASSUME Typed, NEW i \in Instances, NEW e \in Entries, tags' = Tagged(i, e)
  PROVE  TagsTyped'
<1> DEFINE new == Upsert(tags[i], <<e.doc, e.at>>, e.origin)
<1>1. TagsTyped /\ e.origin \in Instances
  BY DEF Typed, Entries
<1>2. \A t \in DOMAIN new : new[t] \in Instances
  BY <1>1 DEF Upsert, TagsTyped
<1>3. tags' = tags \/ tags' = [tags EXCEPT ![i] = new]
  BY DEF Tagged
<1> HIDE DEF new
<1> QED
  BY <1>1, <1>2, <1>3 DEF TagsTyped

LEMMA WritesStep ==
  ASSUME SyncInv, NEW a \in Appliers, ApplyWrites(a)
  PROVE  SyncInv'
<1> DEFINE e == Head(applier[a].todo)
           i == Site(a)
<1>0. Typed /\ CursorInv /\ LettersTyped /\ HistoryTyped /\ DocsTyped /\ TimeTyped
  BY DEF SyncInv, Typed
<1>1. /\ applier[a].step = "write" /\ AfterTerminal(a, e, TRUE) /\ Advance(a, TRUE)
      /\ Put(i, e.doc, e.version, now) /\ tags' = Tagged(i, e) /\ Clobber(i, e)
      /\ handled' = handled \cup {e.event}
      /\ UNCHANGED <<now, writes, faults, writer, token, counter, log, logged, dropped, cursorOut,
                     cursorIn, driver>>
  BY DEF ApplyWrites
<1>2. e \in Entries /\ i \in Instances
  BY <1>0, <1>1, Reading
<1> HIDE DEF e, i
<1>3. e.doc \in Docs /\ e.version \in Versions \cup {Missing} /\ e.event \in Events
  BY <1>2 DEF Entries
<1>4. LettersTyped' /\ LettersKept
  BY <1>0, <1>1, TerminalTyped
<1>5. HistoryTyped' /\ handled \subseteq handled'
  BY <1>0, <1>1, <1>3 DEF HistoryTyped, Clobber
<1>6. DocsTyped'
  BY <1>0, <1>1, <1>2, <1>3, PutTyped DEF TimeTyped
<1>7. TagsTyped'
  BY <1>0, <1>1, <1>2, TaggedTyped
<1>8. SettledNext(e.event)
  BY <1>1 DEF SettledNext
<1>9. AppliersTyped' /\ CursorInv'
  BY <1>0, <1>1, <1>4, <1>5, <1>8, EntryEnds DEF e, i
<1>10. Typed'
  BY <1>0, <1>1, <1>4, <1>5, <1>6, <1>7, <1>9, Rests DEF Typed
<1> QED
  BY <1>9, <1>10 DEF SyncInv

LEMMA FailsStep ==
  ASSUME SyncInv, NEW a \in Appliers, ApplyFails(a)
  PROVE  SyncInv'
<1> DEFINE e == Head(applier[a].todo)
           i == Site(a)
           terminal == a = Puller /\ RecordFailure(e)[e.event].status = "pending"
<1>0. Typed /\ CursorInv /\ LettersTyped /\ HistoryTyped /\ TimeTyped
  BY DEF SyncInv, Typed
<1>1. /\ applier[a].step = "write" /\ Advance(a, terminal)
      /\ tags' = Tagged(i, e) /\ Clobber(i, e)
      /\ letters' = IF a = Puller THEN RecordFailure(e) ELSE letters
      /\ UNCHANGED faults \/ Fault("fail")
      /\ UNCHANGED <<now, writes, changes, writer, token, counter, log, logged, dropped, docs,
                     handled, cursorOut, cursorIn, driver>>
  BY DEF ApplyFails, streamVars
<1>2. e \in Entries /\ i \in Instances
  BY <1>0, <1>1, Reading
<1> HIDE DEF e, i
<1>3. e.doc \in Docs /\ e.event \in Events
  BY <1>2 DEF Entries
<1>4. LettersTyped' /\ LettersKept
  <2>1. CASE a = Puller
    BY <1>0, <1>1, <1>2, <2>1, RecordTyped
  <2>2. CASE a # Puller
    BY <1>0, <1>1, <2>2, Rests
  <2> QED
    BY <2>1, <2>2
<1>5. HistoryTyped' /\ TimeTyped'
  BY <1>0, <1>1, <1>3, FaultTyped DEF HistoryTyped, Clobber, TimeTyped
<1>6. TagsTyped'
  BY <1>0, <1>1, <1>2, TaggedTyped
<1>7. terminal => SettledNext(e.event)
  <2>1. terminal => letters' = RecordFailure(e) /\ letters'[e.event].status = "pending"
    BY <1>1
  <2>2. e.event \in DOMAIN RecordFailure(e)
    BY DEF RecordFailure, Upsert
  <2> HIDE DEF terminal
  <2> QED
    BY <2>1, <2>2 DEF SettledNext
<1>8. terminal \in BOOLEAN
  OBVIOUS
<1> HIDE DEF terminal
<1>9. AppliersTyped' /\ CursorInv'
  BY <1>0, <1>1, <1>4, <1>7, <1>8, EntryEnds DEF e
<1>10. Typed'
  BY <1>0, <1>1, <1>4, <1>5, <1>6, <1>9, Rests DEF Typed
<1> QED
  BY <1>9, <1>10 DEF SyncInv

-----------------------------------------------------------------------------
(* The cycle *)

LEMMA CursorsStand ==
  ASSUME Typed, CursorInv, LettersKept, handled \subseteq handled',
         UNCHANGED <<log, counter, cursorOut, cursorIn>>
  PROVE  LogNumbered' /\ NothingSkipped' /\ SettledEvents \subseteq SettledEvents'
<1>1. SettledEvents \subseteq SettledEvents' /\ \A v : Settled(v) => Settled(v)'
  BY SettledGrows
<1>2. \A i \in Instances : CursorOf(i)' = CursorOf(i)
  BY DEF CursorOf
<1>3. LogNumbered'
  BY <1>2 DEF CursorInv, LogNumbered
<1>4. NothingSkipped'
  BY <1>1, <1>2 DEF CursorInv, NothingSkipped, Sendable
<1> QED
  BY <1>1, <1>3, <1>4

\* A cursor may move to c if what it passes is settled.
LEMMA CursorMoves ==
  ASSUME Typed, CursorInv, LettersKept, handled \subseteq handled', UNCHANGED <<log, counter>>,
         NEW i \in Instances, NEW c \in Nat, CursorOf(i)' = c, c <= counter[i],
         \A j \in Instances : j # i => CursorOf(j)' = CursorOf(j),
         \A e \in log[i] : Sendable(i, e) /\ CursorOf(i) < e.seq /\ e.seq <= c
                           => e.event \in SettledEvents
  PROVE  LogNumbered' /\ NothingSkipped' /\ SettledEvents \subseteq SettledEvents'
<1>1. SettledEvents \subseteq SettledEvents' /\ \A v : Settled(v) => Settled(v)'
  BY SettledGrows
<1>2. LogNumbered'
  BY DEF CursorInv, LogNumbered
<1>3. CursorOf(i) \in Nat /\ \A j \in Instances : \A e \in log[j] : e.seq \in Nat
  BY DEF Typed, DriverTyped, CursorOf, LogTyped, Entries
<1>4. \A e \in log[i] : Sendable(i, e) /\ e.seq <= c => Settled(e.event)
  BY <1>3 DEF CursorInv, NothingSkipped, SettledEvents
<1>5. NothingSkipped'
  <2> SUFFICES ASSUME NEW j \in Instances, NEW e \in log[j], Sendable(j, e), e.seq <= CursorOf(j)'
               PROVE  Settled(e.event)'
    BY DEF NothingSkipped, Sendable
  <2>1. Settled(e.event)
    BY <1>4 DEF CursorInv, NothingSkipped
  <2> QED
    BY <1>1, <2>1
<1> QED
  BY <1>1, <1>2, <1>5

LEMMA Outbounds ==
  ASSUME NEW w, NEW m \in Nat, NEW t \in Nat, NEW c \in Nat
  PROVE  /\ m = 0 \/ t >= m => AdvanceOutbound(w, m, t, c) = w
         /\ ~(m = 0 \/ t >= m) /\ t > c => AdvanceOutbound(w, m, t, c) = t
         /\ ~(m = 0 \/ t >= m) /\ ~(t > c) => AdvanceOutbound(w, m, t, c) = c
<1> QED
  BY DEF AdvanceOutbound

LEMMA IdleTyped ==
  ASSUME NEW limit \in 1..BatchLimit
  PROVE  /\ IdleDriver(limit) \in Drivers /\ IdleDriver(limit).step = "idle"
         /\ IdleDriver(limit).excluded = {}
         /\ ToPull(limit) => driver' \in Drivers /\ driver'.step = "pull" /\ driver'.excluded = {}
<1> DEFINE idle == IdleDriver(limit)
<1>1. idle \in Drivers /\ idle.step = "idle" /\ idle.excluded = {}
  BY DEF IdleDriver, Drivers
<1> HIDE DEF idle
<1>2. ToPull(limit) => driver' = [idle EXCEPT !.step = "pull"]
  BY DEF ToPull, idle
<1>3. [idle EXCEPT !.step = "pull"] \in Drivers /\ [idle EXCEPT !.step = "pull"].step = "pull"
      /\ [idle EXCEPT !.step = "pull"].excluded = {}
  BY <1>1 DEF Drivers
<1> QED
  BY <1>1, <1>2, <1>3 DEF idle

LEMMA MoveTyped ==
  ASSUME Typed, NEW new, NEW full, MoveOutbound(new, full)
  PROVE  /\ cursorOut' = new /\ driver' \in Drivers /\ driver'.step \in {"push", "pull"}
         /\ driver'.excluded \in {{}, driver.excluded}
<1>1. driver \in Drivers /\ BatchLimit \in 1..BatchLimit
  BY BoundsAssumption DEF Typed, DriverTyped
<1>2. driver.limit \in 1..BatchLimit /\ driver.excluded \in SUBSET Events
  BY <1>1 DEF Drivers
<1>3. CASE ToPull(BatchLimit)
  BY <1>1, <1>3, IdleTyped DEF MoveOutbound
<1>4. CASE ~ToPull(BatchLimit)
  <2> DEFINE idle == IdleDriver(driver.limit)
  <2>1. driver' = [idle EXCEPT !.step = "push", !.excluded = driver.excluded]
    BY <1>4 DEF MoveOutbound
  <2>2. idle \in Drivers
    BY <1>2, IdleTyped
  <2> HIDE DEF idle
  <2>3. driver' \in Drivers /\ driver'.step = "push" /\ driver'.excluded = driver.excluded
    BY <1>2, <2>1, <2>2 DEF Drivers
  <2> QED
    BY <2>3 DEF MoveOutbound
<1> QED
  BY <1>3, <1>4

\* A driver that has sent and fetched nothing needs no more than settled exclusions.
LEMMA DriverFree ==
  ASSUME LogNumbered', NothingSkipped', driver'.step \notin {"sent", "apply"},
         driver'.excluded \subseteq SettledEvents'
  PROVE  CursorInv'
<1> QED
  BY DEF CursorInv, ExcludedSettled, SentInv, PulledInv

LEMMA ApplyingTyped ==
  ASSUME NEW s \in Seq(Entries)
  PROVE  /\ Applying(s) \in Loops /\ Applying(s).todo = s /\ Applying(s).through = 0
         /\ Applying(s).failed = 0 /\ Applying(s).step = IF s = <<>> THEN "done" ELSE "read"
<1> QED
  BY DEF Applying, IdleApplier, Loops

LEMMA IdleApplierTyped == IdleApplier \in Loops /\ IdleApplier.step = "idle"
<1>1. <<>> \in Seq(Entries)
  BY EmptySeq
<1> QED
  BY <1>1 DEF IdleApplier, Loops

LEMMA BatchStarts ==
  ASSUME NEW S, IsFiniteSet(S), S \subseteq Entries, ByNumber(S), NEW i, \A e \in S : e.origin = i,
         NEW D
  PROVE  /\ Applying(InSeqOrder(S)) \in Loops /\ Progress(Applying(InSeqOrder(S)), S, i, D)
         /\ Applying(InSeqOrder(S)).step \in {"read", "write"}
              => Applying(InSeqOrder(S)).todo # <<>>
<1> DEFINE s == InSeqOrder(S)
           p == Applying(s)
<1>1. s \in Seq(S) /\ Ordered(s) /\ Unfinished(s) = S
  BY Listed
<1>2. s \in Seq(Entries)
  BY <1>1, SeqMonotonic
<1> HIDE DEF s
<1>3. /\ p \in Loops /\ p.todo = s /\ p.through = 0 /\ p.failed = 0
      /\ p.step = IF s = <<>> THEN "done" ELSE "read"
  BY <1>2, ApplyingTyped
<1> HIDE DEF p
<1>4. \A e \in S : e.seq \in Nat \ {0}
  BY DEF Entries
<1>5. Progress(p, S, i, D)
  BY <1>1, <1>3, <1>4 DEF Progress
<1> QED
  BY <1>3, <1>5 DEF p, s

\* A loop is replaced by another one.
LEMMA LoopTyped ==
  ASSUME Typed, NEW a \in Appliers, NEW p \in Loops, applier' = [applier EXCEPT ![a] = p],
         p.step \in {"read", "write"} => p.todo # <<>>
  PROVE  AppliersTyped' /\ applier'[a] = p /\ \A b \in Appliers : b # a => applier'[b] = applier[b]
<1> QED
  BY DEF Typed, AppliersTyped

LEMMA StartCycleStep ==
  ASSUME SyncInv, StartCycle
  PROVE  SyncInv'
<1>0. Typed /\ CursorInv /\ DriverTyped /\ LettersTyped
  BY DEF SyncInv, Typed
<1>1. /\ driver' = [driver EXCEPT !.step = "push", !.excluded = Pending(TRUE)]
      /\ UNCHANGED <<now, writes, faults, changes, writer, token, counter, log, logged, dropped, docs,
                     tags, handled, clobbered, cursorOut, cursorIn, letters, applier>>
  BY DEF StartCycle, streamVars, dataVars
<1>2. Pending(TRUE) \subseteq SettledEvents /\ Pending(TRUE) \subseteq Events
  BY <1>0 DEF Pending, SettledEvents, Settled, LettersTyped
<1>3. DriverTyped' /\ driver'.step = "push" /\ driver'.excluded = Pending(TRUE)
  BY <1>0, <1>1, <1>2 DEF DriverTyped, Drivers
<1>4. Typed' /\ LettersKept
  BY <1>0, <1>1, <1>3, Rests DEF Typed
<1>5. LogNumbered' /\ NothingSkipped' /\ SettledEvents \subseteq SettledEvents'
  BY <1>0, <1>1, <1>4, CursorsStand
<1>6. CursorInv'
  BY <1>2, <1>3, <1>5, DriverFree
<1> QED
  BY <1>4, <1>6 DEF SyncInv

\* The window of the active instance.
LEMMA Windows ==
  ASSUME Typed, CursorInv
  PROVE  /\ Window \subseteq log[Active] /\ IsFiniteSet(Window) /\ ByNumber(Window)
         /\ Window \subseteq Entries /\ SendSet \subseteq Window
         /\ Window # {} => /\ MaxSeq(Window) \in Nat \ {0} /\ MaxSeq(Window) <= counter[Active]
                           /\ \A e \in Window : e.seq <= MaxSeq(Window)
                           /\ \A e \in log[Active] :
                                Sendable(Active, e) /\ cursorOut < e.seq /\ e.seq <= MaxSeq(Window)
                                => e \in SendSet \/ e.event \in driver.excluded
<1>1. /\ IsFiniteSet(log[Active]) /\ log[Active] \subseteq Entries /\ ByNumber(log[Active])
      /\ cursorOut \in Nat /\ driver.limit \in Nat /\ \A e \in log[Active] : e.seq <= counter[Active]
  BY Different, BoundsAssumption
     DEF Typed, CursorInv, LogNumbered, LogTyped, DriverTyped, Drivers
<1>2. /\ Window \subseteq log[Active] /\ IsFiniteSet(Window)
      /\ Window # {} => \A e \in log[Active] : cursorOut < e.seq /\ e.seq <= MaxSeq(Window) => e \in Window
  BY <1>1, WindowClosed DEF Window
<1>3. Window \subseteq Entries /\ ByNumber(Window) /\ SendSet \subseteq Window
  BY <1>1, <1>2 DEF ByNumber, SendSet
<1>4. Window # {} => /\ \E e \in Window : e.seq = MaxSeq(Window)
                     /\ \A e \in Window : e.seq <= MaxSeq(Window)
                     /\ MaxSeq(Window) \in Nat \ {0}
  BY <1>2, <1>3, Highest
<1> QED
  BY <1>1, <1>2, <1>3, <1>4 DEF SendSet

LEMMA NothingToPushStep ==
  ASSUME SyncInv, NothingToPush
  PROVE  SyncInv'
<1>0. Typed /\ CursorInv /\ DriverTyped /\ LogNumbered /\ ExcludedSettled
  BY DEF SyncInv, Typed, CursorInv
<1>1. /\ driver.step = "push" /\ SendSet = {}
      /\ UNCHANGED <<now, writes, faults, changes, writer, token, counter, log, logged, dropped, docs,
                     tags, handled, clobbered, cursorIn, letters, applier>>
  BY DEF NothingToPush, streamVars, dataVars
<1>2. LettersKept
  BY <1>0, <1>1, Rests
<1>3. \A j \in Instances : j # Active => CursorOf(j)' = CursorOf(j)
  BY <1>1 DEF CursorOf
<1>4. CASE Window = {}
  <2>1. cursorOut' = cursorOut /\ ToPull(BatchLimit)
    BY <1>4 DEF NothingToPush
  <2>2. driver' \in Drivers /\ driver'.step = "pull" /\ driver'.excluded = {}
    BY <2>1, IdleTyped, BoundsAssumption
  <2>3. Typed'
    BY <1>0, <1>1, <2>1, <2>2, Rests DEF Typed, DriverTyped
  <2>4. CursorInv'
    BY <1>0, <1>1, <1>2, <2>1, <2>2, CursorsStand, DriverFree
  <2> QED
    BY <2>3, <2>4 DEF SyncInv
<1>5. CASE Window # {}
  <2> DEFINE new == MaxSeq(Window)
  <2>1. MoveOutbound(new, Cardinality(Window) = driver.limit)
    <3>1. AdvanceOutbound(MaxSeq(Window), 0, 0, cursorOut) = new
      BY <1>0, Outbounds DEF DriverTyped
    <3>2. MoveOutbound(AdvanceOutbound(MaxSeq(Window), 0, 0, cursorOut),
                       Cardinality(Window) = driver.limit)
      BY <1>5 DEF NothingToPush
    <3> QED
      BY <3>1, <3>2
  <2>2. /\ cursorOut' = new /\ driver' \in Drivers /\ driver'.step \in {"push", "pull"}
        /\ driver'.excluded \in {{}, driver.excluded}
    BY <1>0, <2>1, MoveTyped
  <2>3. /\ new \in Nat /\ new <= counter[Active]
        /\ \A e \in log[Active] : Sendable(Active, e) /\ cursorOut < e.seq /\ e.seq <= new
             => e.event \in SettledEvents
    BY <1>0, <1>1, <1>5, Windows DEF ExcludedSettled
  <2> HIDE DEF new
  <2>4. Typed'
    BY <1>0, <1>1, <2>2, <2>3, Rests DEF Typed, DriverTyped
  <2>5. CursorOf(Active)' = new /\ CursorOf(Active) = cursorOut
    BY <2>2 DEF CursorOf
  <2>6. LogNumbered' /\ NothingSkipped' /\ SettledEvents \subseteq SettledEvents'
    BY <1>0, <1>1, <1>2, <1>3, <2>3, <2>5, Different, CursorMoves
  <2>7. CursorInv'
    BY <1>0, <2>2, <2>6, DriverFree DEF ExcludedSettled
  <2> QED
    BY <2>4, <2>7 DEF SyncInv
<1> QED
  BY <1>4, <1>5

LEMMA PushStep ==
  ASSUME SyncInv, NEW h \in Handlers, Push(h)
  PROVE  SyncInv'
<1>0. Typed /\ CursorInv /\ DriverTyped /\ ExcludedSettled
  BY DEF SyncInv, Typed, CursorInv
<1>1. PICK S, last, full :
         /\ S = SendSet /\ last = MaxSeq(Window) /\ full = (Cardinality(Window) = driver.limit)
  OBVIOUS
<1> DEFINE p == Applying(InSeqOrder(S))
<1>2. /\ S # {} /\ applier' = [applier EXCEPT ![h] = p] /\ full \in BOOLEAN
      /\ driver' = [driver EXCEPT !.step = "sent", !.sent = S, !.handler = h, !.last = last,
                                  !.full = full]
      /\ UNCHANGED <<now, writes, faults, changes, writer, token, counter, log, logged, dropped, docs,
                     tags, handled, clobbered, cursorOut, cursorIn, letters>>
  BY <1>1 DEF Push, streamVars, dataVars
<1>3. /\ Window # {} /\ IsFiniteSet(S) /\ S \subseteq Entries
      /\ ByNumber(S) /\ \A e \in S : e.origin = Active
  BY <1>0, <1>1, <1>2, Windows, FS_Subset DEF ByNumber, SendSet, Sendable
<1>4. p \in Loops /\ Progress(p, S, Active, SettledEvents')
  BY <1>3, BatchStarts
<1>5. p.step \in {"read", "write"} => p.todo # <<>>
  BY <1>3, BatchStarts
<1> HIDE DEF p
<1>6. AppliersTyped' /\ applier'[h] = p
  BY <1>0, <1>2, <1>4, <1>5, Sites, LoopTyped
<1>7. /\ last \in Nat /\ last <= counter[Active] /\ \A e \in S : e.seq <= last
      /\ \A e \in log[Active] : Sendable(Active, e) /\ cursorOut < e.seq /\ e.seq <= last
           => e \in S \/ e.event \in driver.excluded
  BY <1>0, <1>1, <1>3, Windows
<1>8. /\ DriverTyped' /\ driver'.sent = S /\ driver'.handler = h /\ driver'.last = last
      /\ driver'.step = "sent" /\ driver'.excluded = driver.excluded
  BY <1>0, <1>2, <1>3, <1>7 DEF DriverTyped, Drivers
<1>9. Typed' /\ LettersKept
  BY <1>0, <1>2, <1>6, <1>8, Rests DEF Typed
<1>10. LogNumbered' /\ NothingSkipped' /\ SettledEvents \subseteq SettledEvents'
  BY <1>0, <1>2, <1>9, CursorsStand
<1>11. Covers(S, Active, last)'
  BY <1>2, <1>7, <1>8 DEF Covers, CursorOf, Sendable
<1>12. SentInv'
  BY <1>2, <1>3, <1>4, <1>6, <1>8, <1>11 DEF SentInv
<1>13. CursorInv'
  BY <1>0, <1>8, <1>10, <1>12 DEF CursorInv, ExcludedSettled, PulledInv
<1> QED
  BY <1>9, <1>13 DEF SyncInv

LEMMA PushRefusedStep ==
  ASSUME SyncInv, PushRefused
  PROVE  SyncInv'
<1>0. Typed /\ CursorInv /\ TimeTyped /\ driver.limit \in 1..BatchLimit /\ BatchLimit \in Nat
      /\ cursorOut \in Nat /\ cursorIn \in Nat
  BY BoundsAssumption DEF SyncInv, Typed, DriverTyped, Drivers
<1> DEFINE half == IF driver.limit = 1 THEN 1 ELSE driver.limit \div 2
<1>1. half \in 1..BatchLimit
  BY <1>0
<1> HIDE DEF half
<1>2. /\ (Fault("refuse") /\ ToPull(driver.limit)) \/ (Fault("tooLarge") /\ ToPull(half))
      /\ UNCHANGED <<now, writes, changes, writer, token, counter, log, logged, dropped, docs,
                     tags, handled, clobbered, cursorOut, cursorIn, letters, applier>>
  BY DEF PushRefused, streamVars, dataVars, half
<1>3. driver' \in Drivers /\ driver'.step = "pull" /\ driver'.excluded = {}
  BY <1>0, <1>1, <1>2, IdleTyped
<1>4. TimeTyped' /\ DriverTyped'
  BY <1>0, <1>2, <1>3, FaultTyped DEF TimeTyped, DriverTyped
<1>5. Typed' /\ LettersKept
  BY <1>0, <1>2, <1>4, Rests DEF Typed
<1>6. CursorInv'
  BY <1>0, <1>2, <1>3, <1>5, CursorsStand, DriverFree
<1> QED
  BY <1>5, <1>6 DEF SyncInv

LEMMA GivesUpStep ==
  ASSUME SyncInv, GiveUp
  PROVE  SyncInv'
<1>0. Typed /\ CursorInv /\ TimeTyped /\ driver.limit \in 1..BatchLimit
      /\ cursorOut \in Nat /\ cursorIn \in Nat
  BY DEF SyncInv, Typed, DriverTyped, Drivers
<1>1. /\ Fault("giveUp") /\ ToPull(driver.limit)
      /\ UNCHANGED <<now, writes, changes, writer, token, counter, log, logged, dropped, docs,
                     tags, handled, clobbered, cursorOut, cursorIn, letters, applier>>
  BY DEF GiveUp, streamVars, dataVars
<1>2. driver' \in Drivers /\ driver'.step = "pull" /\ driver'.excluded = {}
  BY <1>0, <1>1, IdleTyped
<1>3. TimeTyped' /\ DriverTyped'
  BY <1>0, <1>1, <1>2, FaultTyped DEF TimeTyped, DriverTyped
<1>4. Typed' /\ LettersKept
  BY <1>0, <1>1, <1>3, Rests DEF Typed
<1>5. CursorInv'
  BY <1>0, <1>1, <1>2, <1>4, CursorsStand, DriverFree
<1> QED
  BY <1>4, <1>5 DEF SyncInv

\* An answer says how far the batch is settled and which entry failed.
LEMMA Answers ==
  ASSUME NEW p \in Loops, NEW S, NEW i, NEW D, Progress(p, S, i, D), p.step = "done"
  PROVE  /\ \A e \in S : e.seq <= p.through => e.event \in D
         /\ p.through = 0 \/ \E e \in S : e.seq = p.through
         /\ p.failed = 0 => \A e \in S : e.seq <= p.through
         /\ (\E e \in S : p.through < e.seq) => \E e \in S : e.seq = p.failed
<1>1. Unfinished(<<>>) = {}
  BY EmptySeq DEF Unfinished
<1>2. p.todo = <<>> /\ S \subseteq Entries /\ p.through \in Nat
  BY DEF Progress, Loops
<1>3. p.failed = 0 => \A e \in S : e.seq <= p.through
  BY <1>1, <1>2 DEF Progress
<1>4. (\E e \in S : p.through < e.seq) => p.failed # 0
  BY <1>2, <1>3 DEF Entries
<1> QED
  BY <1>3, <1>4 DEF Progress

LEMMA PushAnsweredStep ==
  ASSUME SyncInv, PushAnswered
  PROVE  SyncInv'
<1>0. Typed /\ CursorInv /\ DriverTyped /\ LogNumbered /\ ExcludedSettled /\ SentInv /\ LettersTyped
      /\ AppliersTyped /\ LogTyped
  BY DEF SyncInv, Typed, CursorInv
<1>1. PICK S, h, last, full, through, failed, maxSent :
         /\ S = driver.sent /\ h = driver.handler /\ last = driver.last /\ full = driver.full
         /\ through = applier[h].through /\ failed = applier[h].failed /\ maxSent = MaxSeq(driver.sent)
  OBVIOUS
<1>2. /\ driver.step = "sent" /\ applier[h].step = "done"
      /\ letters' = IF through < maxSent
                    THEN RecordFailure(CHOOSE e \in S : e.seq = failed)
                    ELSE Clear({v \in DOMAIN letters :
                                  Outbound(v) /\ letters[v].entry.seq <= through})
      /\ MoveOutbound(AdvanceOutbound(last, maxSent, through, cursorOut), full)
      /\ applier' = [applier EXCEPT ![h] = IdleApplier]
      /\ UNCHANGED <<now, writes, faults, changes, writer, token, counter, log, logged, dropped, docs,
                     tags, handled, clobbered, cursorIn>>
  BY <1>1 DEF PushAnswered, streamVars, dataVars
<1>3. /\ h \in Handlers /\ S # {} /\ IsFiniteSet(S) /\ S \subseteq Entries /\ ByNumber(S)
      /\ Progress(applier[h], S, Active, SettledEvents) /\ Covers(S, Active, last)
  BY <1>0, <1>1, <1>2 DEF SentInv, Progress
<1>4. h \in Appliers /\ applier[h] \in Loops /\ through \in Nat
  BY <1>0, <1>1, <1>3, Sites DEF AppliersTyped, Loops
<1>5. /\ \A e \in S : e.seq <= through => e.event \in SettledEvents
      /\ through = 0 \/ \E e \in S : e.seq = through
      /\ (\E e \in S : through < e.seq) => \E e \in S : e.seq = failed
  BY <1>1, <1>2, <1>3, <1>4, Answers
<1>6. maxSent \in Nat \ {0} /\ (\E e \in S : e.seq = maxSent) /\ \A e \in S : e.seq <= maxSent
  BY <1>1, <1>3, Highest
<1>7. through < maxSent => (CHOOSE e \in S : e.seq = failed) \in Entries
  BY <1>3, <1>5, <1>6
<1>8. LettersTyped' /\ LettersKept
  BY <1>0, <1>2, <1>7, RecordTyped, ClearTyped
<1>9. AppliersTyped'
  BY <1>0, <1>2, <1>4, IdleApplierTyped, LoopTyped
<1> DEFINE new == AdvanceOutbound(last, maxSent, through, cursorOut)
<1>10. \/ new = last /\ maxSent <= through
       \/ new = through /\ through < maxSent /\ cursorOut < through
       \/ new = cursorOut
  BY <1>0, <1>4, <1>6, Outbounds DEF DriverTyped
<1> HIDE DEF new
<1>11. /\ last \in Nat /\ last <= counter[Active] /\ \A e \in S : e.seq <= last
       /\ \A e \in log[Active] : Sendable(Active, e) /\ cursorOut < e.seq /\ e.seq <= last
            => e \in S \/ e.event \in driver.excluded
       /\ cursorOut \in Nat /\ cursorOut <= counter[Active] /\ counter[Active] \in Nat
       /\ \A e \in log[Active] : e.seq \in Nat
       /\ \A e \in S : e.seq \in Nat
  BY <1>0, <1>1, <1>3, Different
     DEF Covers, CursorOf, DriverTyped, Drivers, LogNumbered, Typed, WriterTyped, LogTyped, Entries
<1>12. new \in Nat /\ new <= counter[Active] /\ (new <= last \/ new = cursorOut)
  BY <1>4, <1>5, <1>10, <1>11
<1>13. ASSUME NEW e \in log[Active], Sendable(Active, e), cursorOut < e.seq, e.seq <= new
       PROVE  e.event \in SettledEvents
  <2>1. e.seq <= last /\ new # cursorOut
    BY <1>11, <1>12, <1>13
  <2>2. e \in S \/ e.event \in driver.excluded
    BY <1>11, <1>13, <2>1
  <2>3. e \in S => e.seq <= through
    BY <1>4, <1>6, <1>10, <1>11, <1>13, <2>1
  <2> QED
    BY <1>0, <1>5, <2>2, <2>3 DEF ExcludedSettled
<1>14. /\ cursorOut' = new /\ driver' \in Drivers /\ driver'.step \in {"push", "pull"}
       /\ driver'.excluded \in {{}, driver.excluded}
  BY <1>0, <1>2, MoveTyped DEF new
<1>15. Typed'
  BY <1>0, <1>2, <1>8, <1>9, <1>12, <1>14, Rests DEF Typed, DriverTyped
<1>16. /\ CursorOf(Active)' = new /\ CursorOf(Active) = cursorOut
       /\ \A j \in Instances : j # Active => CursorOf(j)' = CursorOf(j)
  BY <1>2, <1>14 DEF CursorOf
<1>17. LogNumbered' /\ NothingSkipped' /\ SettledEvents \subseteq SettledEvents'
  BY <1>0, <1>2, <1>8, <1>12, <1>13, <1>16, Different, CursorMoves
<1>18. CursorInv'
  BY <1>0, <1>14, <1>17, DriverFree DEF ExcludedSettled
<1> QED
  BY <1>15, <1>18 DEF SyncInv

LEMMA AnswerUnreadStep ==
  ASSUME SyncInv, NEW h \in Handlers, AnswerUnread(h)
  PROVE  SyncInv'
<1>0. Typed /\ CursorInv
  BY DEF SyncInv
<1>1. /\ driver.handler # h /\ applier' = [applier EXCEPT ![h] = IdleApplier]
      /\ UNCHANGED <<now, writes, faults, changes, writer, token, counter, log, logged, dropped, docs,
                     tags, handled, clobbered, cursorOut, cursorIn, letters, driver>>
  BY DEF AnswerUnread, streamVars, dataVars
<1>2. AppliersTyped' /\ \A b \in Appliers : b # h => applier'[b] = applier[b]
  BY <1>0, <1>1, IdleApplierTyped, LoopTyped, Sites
<1>3. Typed' /\ LettersKept
  BY <1>0, <1>1, <1>2, Rests DEF Typed
<1>4. CursorInv'
  BY <1>0, <1>1, <1>2, <1>3, LoopMoves, Sites
<1> QED
  BY <1>3, <1>4 DEF SyncInv

LEMMA PullPageStep ==
  ASSUME SyncInv, PullPage
  PROVE  SyncInv'
<1>0. Typed /\ CursorInv /\ DriverTyped /\ ExcludedSettled
  BY DEF SyncInv, Typed, CursorInv
<1>1. PICK W, S, last, full :
         /\ W = Above(log[Passive], cursorIn, BatchLimit) /\ S = {e \in W : Sendable(Passive, e)}
         /\ last = (IF W = {} THEN cursorIn ELSE MaxSeq(W)) /\ full = (Cardinality(W) = BatchLimit)
  OBVIOUS
<1> DEFINE p == Applying(InSeqOrder(S))
<1>2. /\ applier' = [applier EXCEPT ![Puller] = p] /\ full \in BOOLEAN
      /\ driver' = [driver EXCEPT !.step = "apply", !.last = last, !.full = full]
      /\ UNCHANGED <<now, writes, faults, changes, writer, token, counter, log, logged, dropped, docs,
                     tags, handled, clobbered, cursorOut, cursorIn, letters>>
  BY <1>1 DEF PullPage, streamVars, dataVars
<1>3. /\ IsFiniteSet(log[Passive]) /\ log[Passive] \subseteq Entries /\ ByNumber(log[Passive])
      /\ cursorIn \in Nat /\ cursorIn <= counter[Passive] /\ BatchLimit \in Nat
      /\ \A e \in log[Passive] : e.seq <= counter[Passive] /\ e.seq \in Nat
  BY <1>0, Different, BoundsAssumption
     DEF Typed, CursorInv, LogNumbered, LogTyped, DriverTyped, CursorOf, Entries
<1>4. /\ W \subseteq log[Passive] /\ IsFiniteSet(W) /\ \A e \in W : cursorIn < e.seq
      /\ W # {} => \A e \in log[Passive] : cursorIn < e.seq /\ e.seq <= MaxSeq(W) => e \in W
  BY <1>1, <1>3, WindowClosed
<1>5. W # {} => /\ \E e \in W : e.seq = MaxSeq(W)
                /\ \A e \in W : e.seq <= MaxSeq(W)
                /\ MaxSeq(W) \in Nat \ {0}
  BY <1>3, <1>4, Highest DEF ByNumber
<1>6. /\ S \subseteq W /\ IsFiniteSet(S) /\ S \subseteq Entries /\ ByNumber(S)
      /\ \A e \in S : e.origin = Passive
  BY <1>1, <1>3, <1>4, FS_Subset DEF ByNumber, Sendable
<1>7. p \in Loops /\ Progress(p, S, Passive, SettledEvents')
  BY <1>6, BatchStarts
<1>8. p.step \in {"read", "write"} => p.todo # <<>>
  BY <1>6, BatchStarts
<1> HIDE DEF p
<1>9. AppliersTyped' /\ applier'[Puller] = p
  BY <1>0, <1>2, <1>7, <1>8, Sites, LoopTyped
<1>10. /\ last \in Nat /\ last <= counter[Passive] /\ \A e \in S : e.seq <= last
       /\ \A e \in log[Passive] : Sendable(Passive, e) /\ cursorIn < e.seq /\ e.seq <= last => e \in S
  <2>1. CASE W = {}
    BY <1>1, <1>3, <1>6, <2>1
  <2>2. CASE W # {}
    BY <1>1, <1>3, <1>4, <1>5, <1>6, <2>2
  <2> QED
    BY <2>1, <2>2
<1>11. DriverTyped' /\ driver'.last = last /\ driver'.step = "apply" /\ driver'.excluded = driver.excluded
  BY <1>0, <1>2, <1>10 DEF DriverTyped, Drivers
<1>12. Typed' /\ LettersKept
  BY <1>0, <1>2, <1>9, <1>11, Rests DEF Typed
<1>13. LogNumbered' /\ NothingSkipped' /\ SettledEvents \subseteq SettledEvents'
  BY <1>0, <1>2, <1>12, CursorsStand
<1>14. Covers(S, Passive, last)'
  BY <1>2, <1>10, Different DEF Covers, CursorOf, Sendable
<1>15. PulledInv'
  BY <1>7, <1>9, <1>11, <1>14 DEF PulledInv
<1>16. CursorInv'
  BY <1>0, <1>11, <1>13, <1>15 DEF CursorInv, ExcludedSettled, SentInv
<1> QED
  BY <1>12, <1>16 DEF SyncInv

LEMMA PullRefusedStep ==
  ASSUME SyncInv, PullRefused
  PROVE  SyncInv'
<1>0. Typed /\ CursorInv /\ TimeTyped /\ driver.limit \in 1..BatchLimit
      /\ cursorOut \in Nat /\ cursorIn \in Nat
  BY DEF SyncInv, Typed, DriverTyped, Drivers
<1>1. /\ Fault("refuse") /\ driver' = IdleDriver(driver.limit)
      /\ UNCHANGED <<now, writes, changes, writer, token, counter, log, logged, dropped, docs,
                     tags, handled, clobbered, cursorOut, cursorIn, letters, applier>>
  BY DEF PullRefused, streamVars, dataVars
<1>2. driver' \in Drivers /\ driver'.step = "idle" /\ driver'.excluded = {}
  BY <1>0, <1>1, IdleTyped
<1>3. TimeTyped' /\ DriverTyped'
  BY <1>0, <1>1, <1>2, FaultTyped DEF TimeTyped, DriverTyped
<1>4. Typed' /\ LettersKept
  BY <1>0, <1>1, <1>3, Rests DEF Typed
<1>5. CursorInv'
  BY <1>0, <1>1, <1>2, <1>4, CursorsStand, DriverFree
<1> QED
  BY <1>4, <1>5 DEF SyncInv

LEMMA PullAppliedStep ==
  ASSUME SyncInv, PullApplied
  PROVE  SyncInv'
<1>0. Typed /\ CursorInv /\ DriverTyped /\ LogNumbered /\ ExcludedSettled /\ PulledInv
      /\ AppliersTyped /\ LogTyped
  BY DEF SyncInv, Typed, CursorInv
<1>1. PICK last, through, failed :
         last = driver.last /\ through = applier[Puller].through /\ failed = applier[Puller].failed
  OBVIOUS
<1> DEFINE new == AdvanceInbound(failed, through, last, cursorIn)
           idle == IdleDriver(driver.limit)
<1>2. /\ driver.step = "apply" /\ applier[Puller].step = "done" /\ cursorIn' = new
      /\ \E step \in {"pull", "idle"} : driver' = [idle EXCEPT !.step = step]
      /\ applier' = [applier EXCEPT ![Puller] = IdleApplier]
      /\ UNCHANGED <<now, writes, faults, changes, writer, token, counter, log, logged, dropped, docs,
                     tags, handled, clobbered, cursorOut, letters>>
  BY <1>1 DEF PullApplied, streamVars, dataVars
<1>3. PICK S : Progress(applier[Puller], S, Passive, SettledEvents) /\ Covers(S, Passive, last)
  BY <1>0, <1>1, <1>2 DEF PulledInv
<1>4. applier[Puller] \in Loops /\ through \in Nat /\ failed \in Nat
  BY <1>0, <1>1, Sites DEF AppliersTyped, Loops
<1>5. /\ \A e \in S : e.seq <= through => e.event \in SettledEvents
      /\ through = 0 \/ \E e \in S : e.seq = through
      /\ failed = 0 => \A e \in S : e.seq <= through
  BY <1>1, <1>2, <1>3, <1>4, Answers
<1>6. /\ last \in Nat /\ last <= counter[Passive] /\ \A e \in S : e.seq <= last
      /\ \A e \in log[Passive] : Sendable(Passive, e) /\ cursorIn < e.seq /\ e.seq <= last
           => e \in S \/ e.event \in driver.excluded
      /\ cursorIn \in Nat /\ cursorIn <= counter[Passive] /\ counter[Passive] \in Nat
      /\ \A e \in log[Passive] : e.seq \in Nat
  BY <1>0, <1>1, <1>3, Different
     DEF Covers, CursorOf, DriverTyped, Drivers, LogNumbered, Typed, WriterTyped, LogTyped, Entries
<1>7. \/ new = cursorIn
      \/ new = last /\ failed = 0
      \/ new = through /\ failed # 0
  BY DEF AdvanceInbound
<1> HIDE DEF new
<1>8. new \in Nat /\ new <= counter[Passive] /\ (new <= last \/ new = cursorIn)
  BY <1>4, <1>5, <1>6, <1>7
<1>9. ASSUME NEW e \in log[Passive], Sendable(Passive, e), cursorIn < e.seq, e.seq <= new
      PROVE  e.event \in SettledEvents
  <2>1. e.seq <= last /\ new # cursorIn
    BY <1>6, <1>8, <1>9
  <2>2. e \in S \/ e.event \in driver.excluded
    BY <1>6, <1>9, <2>1
  <2>3. e \in S => e.seq <= through
    BY <1>5, <1>7, <1>9, <2>1
  <2> QED
    BY <1>0, <1>5, <2>2, <2>3 DEF ExcludedSettled
<1>10. idle \in Drivers /\ idle.excluded = {}
  BY <1>0, IdleTyped DEF DriverTyped, Drivers
<1> HIDE DEF idle
<1>11. driver' \in Drivers /\ driver'.step \in {"pull", "idle"} /\ driver'.excluded = {}
  BY <1>2, <1>10 DEF Drivers
<1>12. AppliersTyped'
  BY <1>0, <1>2, IdleApplierTyped, LoopTyped, Sites
<1>13. Typed' /\ LettersKept
  BY <1>0, <1>2, <1>8, <1>11, <1>12, Rests DEF Typed, DriverTyped
<1>14. /\ CursorOf(Passive)' = new /\ CursorOf(Passive) = cursorIn
       /\ \A j \in Instances : j # Passive => CursorOf(j)' = CursorOf(j)
  BY <1>2, Different DEF CursorOf, Instances
<1>15. LogNumbered' /\ NothingSkipped' /\ SettledEvents \subseteq SettledEvents'
  BY <1>0, <1>2, <1>8, <1>9, <1>13, <1>14, Different, CursorMoves
<1>16. CursorInv'
  BY <1>11, <1>15, DriverFree
<1> QED
  BY <1>13, <1>16 DEF SyncInv

-----------------------------------------------------------------------------
(* Administration and faults *)

LEMMA ReplayStep ==
  ASSUME SyncInv, NEW event \in DOMAIN letters, Replay(event)
  PROVE  SyncInv'
<1> DEFINE p == Applying(<<letters[event].entry>>)
<1>0. Typed /\ CursorInv /\ LettersTyped
  BY DEF SyncInv, Typed
<1>1. /\ applier' = [applier EXCEPT ![Replayer] = p]
      /\ UNCHANGED <<now, writes, faults, changes, writer, token, counter, log, logged, dropped, docs,
                     tags, handled, clobbered, cursorOut, cursorIn, letters, driver>>
  BY DEF Replay, streamVars, dataVars
<1>2. letters[event].entry \in Entries
  BY <1>0 DEF LettersTyped, Letters
<1>3. <<letters[event].entry>> \in Seq(Entries) /\ <<letters[event].entry>> # <<>>
  BY <1>2
<1>4. p \in Loops /\ p.todo # <<>>
  BY <1>3, ApplyingTyped
<1> HIDE DEF p
<1>5. AppliersTyped' /\ \A b \in Appliers : b # Replayer => applier'[b] = applier[b]
  BY <1>0, <1>1, <1>4, LoopTyped, Sites
<1>6. Typed' /\ LettersKept
  BY <1>0, <1>1, <1>5, Rests DEF Typed
<1>7. CursorInv'
  BY <1>0, <1>1, <1>5, <1>6, LoopMoves, Sites
<1> QED
  BY <1>6, <1>7 DEF SyncInv

LEMMA ReplayEndsStep ==
  ASSUME SyncInv, ReplayEnds
  PROVE  SyncInv'
<1>0. Typed /\ CursorInv
  BY DEF SyncInv
<1>1. /\ applier' = [applier EXCEPT ![Replayer] = IdleApplier]
      /\ UNCHANGED <<now, writes, faults, changes, writer, token, counter, log, logged, dropped, docs,
                     tags, handled, clobbered, cursorOut, cursorIn, letters, driver>>
  BY DEF ReplayEnds, streamVars, dataVars
<1>2. AppliersTyped' /\ \A b \in Appliers : b # Replayer => applier'[b] = applier[b]
  BY <1>0, <1>1, IdleApplierTyped, LoopTyped, Sites
<1>3. Typed' /\ LettersKept
  BY <1>0, <1>1, <1>2, Rests DEF Typed
<1>4. CursorInv'
  BY <1>0, <1>1, <1>2, <1>3, LoopMoves, Sites
<1> QED
  BY <1>3, <1>4 DEF SyncInv

LEMMA DiscardStep ==
  ASSUME SyncInv, NEW event, Discard(event)
  PROVE  SyncInv'
<1>0. Typed /\ CursorInv /\ LettersTyped
  BY DEF SyncInv, Typed
<1>1. /\ letters' = Resolve(event, "discarded")
      /\ UNCHANGED <<now, writes, faults, changes, writer, token, counter, log, logged, dropped, docs,
                     tags, handled, clobbered, cursorOut, cursorIn, driver, applier>>
  BY DEF Discard, streamVars, dataVars
<1>2. LettersTyped' /\ LettersKept
  BY <1>0, <1>1, ResolveTyped
<1>3. Typed'
  BY <1>0, <1>1, <1>2, Rests DEF Typed
<1>4. CursorInv'
  BY <1>0, <1>1, <1>2, CursorsRest
<1> QED
  BY <1>3, <1>4 DEF SyncInv

LEMMA CollectNumbers ==
  ASSUME SyncInv, NEW i \in Instances, CollectLog(i)
  PROVE  SyncInv'
<1>0. Typed /\ CursorInv /\ TimeTyped /\ LogTyped /\ HistoryTyped /\ WriterTyped
  BY DEF SyncInv, Typed
<1>1. /\ Fault("gc")
      /\ UNCHANGED <<now, writes, changes, writer, token, counter, logged, docs, tags, handled,
                     clobbered, cursorOut, cursorIn, letters, driver, applier>>
  BY DEF CollectLog, dataVars, syncVars
<1>2. PICK old, unsent : /\ log' = [log EXCEPT ![i] = @ \ old] /\ unsent \subseteq log[i]
                         /\ dropped' = dropped \cup {f.event : f \in unsent}
  BY DEF CollectLog
<1>3. /\ \A j \in Instances : log'[j] \subseteq log[j]
      /\ log' = [j \in Instances |-> log'[j]]
  BY <1>0, <1>2 DEF LogTyped
<1>4. LogTyped' /\ TimeTyped'
  BY <1>0, <1>1, <1>3, FaultTyped DEF LogTyped, TimeTyped
<1>5. HistoryTyped'
  <2>1. \A f \in unsent : f.event \in Events
    BY <1>0, <1>2 DEF LogTyped, Entries
  <2> QED
    BY <1>0, <1>1, <1>2, <2>1 DEF HistoryTyped
<1>6. Typed' /\ LettersKept
  BY <1>0, <1>1, <1>4, <1>5, Rests DEF Typed
<1>7. \A j \in Instances : counter[j] <= counter'[j] /\ counter'[j] \in Nat
  BY <1>0, <1>1 DEF WriterTyped
<1>8. ASSUME NEW j \in Instances
      PROVE  /\ IsFiniteSet(log'[j]) /\ ByNumber(log'[j]) /\ log'[j] \subseteq Entries
             /\ \A f \in log'[j] : f.seq <= counter'[j] /\ (f \in log[j] \/ counter[j] < f.seq)
  <2>1. IsFiniteSet(log[j]) /\ ByNumber(log[j]) /\ \A f \in log[j] : f.seq <= counter[j]
    BY <1>0 DEF CursorInv, LogNumbered
  <2>2. IsFiniteSet(log'[j])
    BY <1>3, <2>1, FS_Subset
  <2> QED
    BY <1>0, <1>1, <1>3, <2>1, <2>2 DEF LogTyped, ByNumber
<1>9. CursorInv'
  <2>1. SettledEvents \subseteq SettledEvents'
    BY <1>1, <1>6, SettledGrows
  <2> QED
    BY <1>0, <1>1, <1>6, <1>7, <1>8, <2>1, ProgressGrows, CursorsKept
<1> QED
  BY <1>6, <1>9 DEF SyncInv

LEMMA ExpireTagStep ==
  ASSUME SyncInv, NEW i \in Instances, ExpireTag(i)
  PROVE  SyncInv'
<1>0. Typed /\ CursorInv /\ TimeTyped /\ TagsTyped
  BY DEF SyncInv, Typed
<1>1. /\ Fault("expire")
      /\ UNCHANGED <<now, writes, changes, writer, token, counter, log, logged, dropped, docs, handled,
                     clobbered, cursorOut, cursorIn, letters, driver, applier>>
  BY DEF ExpireTag, streamVars, syncVars
<1>2. PICK tag : tags' = [tags EXCEPT ![i] = [t \in DOMAIN tags[i] \ {tag} |-> tags[i][t]]]
  BY <1>0 DEF ExpireTag, TagsTyped
<1>3. TagsTyped' /\ TimeTyped'
  BY <1>0, <1>1, <1>2, FaultTyped DEF TagsTyped, TimeTyped
<1>4. Typed' /\ LettersKept
  BY <1>0, <1>1, <1>3, Rests DEF Typed
<1>5. CursorInv'
  BY <1>0, <1>1, <1>4, CursorsRest
<1> QED
  BY <1>4, <1>5 DEF SyncInv

LEMMA RestartStep ==
  ASSUME SyncInv, NEW i \in Instances, Restart(i)
  PROVE  SyncInv'
<1>0. Typed /\ CursorInv /\ TimeTyped /\ WriterTyped /\ DriverTyped /\ AppliersTyped /\ SentInv
      /\ PulledInv /\ ExcludedSettled /\ driver.limit \in 1..BatchLimit /\ BatchLimit \in 1..BatchLimit
  BY BoundsAssumption DEF SyncInv, Typed, CursorInv, DriverTyped, Drivers
<1>1. /\ Fault("restart") /\ WatchFrom(i, token[i])
      /\ applier' = [a \in Appliers |-> IF Site(a) = i THEN IdleApplier ELSE applier[a]]
      /\ UNCHANGED <<now, writes, changes, token, counter, log, logged, docs, tags, handled,
                     clobbered, cursorOut, cursorIn, letters>>
  BY DEF Restart, dataVars
<1>2. WriterTyped' /\ HistoryTyped' /\ TimeTyped'
  BY <1>0, <1>1, WatchTyped, FaultTyped DEF WriterTyped, TimeTyped
<1>3. AppliersTyped'
  BY <1>0, <1>1, IdleApplierTyped DEF AppliersTyped
<1>4. \/ driver' = IdleDriver(BatchLimit)
      \/ ToPull(driver.limit)
      \/ i = Passive /\ driver.step # "sent" /\ driver' = driver
  BY <1>1 DEF Restart, Instances
<1>5. CASE driver' = IdleDriver(BatchLimit) \/ ToPull(driver.limit)
  <2>1. driver' \in Drivers /\ driver'.step \in {"idle", "pull"} /\ driver'.excluded = {}
    BY <1>0, <1>5, IdleTyped
  <2>2. DriverTyped'
    BY <1>0, <1>1, <2>1 DEF DriverTyped
  <2>3. Typed' /\ LettersKept
    BY <1>0, <1>1, <1>2, <1>3, <2>2, Rests DEF Typed
  <2>4. CursorInv'
    BY <1>0, <1>1, <2>1, <2>3, CursorsStand, DriverFree
  <2> QED
    BY <2>3, <2>4 DEF SyncInv
<1>6. CASE i = Passive /\ driver.step # "sent" /\ driver' = driver
  <2>1. Typed' /\ LettersKept
    BY <1>0, <1>1, <1>2, <1>3, <1>6, Rests DEF Typed
  <2>2. SettledEvents \subseteq SettledEvents' /\ LogNumbered' /\ NothingSkipped'
    BY <1>0, <1>1, <2>1, CursorsStand
  <2>3. applier'[Puller] = applier[Puller]
    BY <1>1, <1>6, Sites, Different
  <2>4. \A S, last : Covers(S, Passive, last) => Covers(S, Passive, last)'
    BY <1>1, <1>6, Different DEF Covers, CursorOf, Sendable
  <2>5. PulledInv'
    BY <1>0, <1>6, <2>2, <2>3, <2>4, ProgressGrows DEF PulledInv
  <2>6. CursorInv'
    BY <1>0, <1>6, <2>2, <2>5 DEF CursorInv, ExcludedSettled, SentInv
  <2> QED
    BY <2>1, <2>6 DEF SyncInv
<1> QED
  BY <1>4, <1>5, <1>6

-----------------------------------------------------------------------------
(* The theorems *)

LEMMA SyncInitially == Init => SyncInv
<1> SUFFICES ASSUME Init PROVE SyncInv
  OBVIOUS
<1>1. /\ now = SecondLength /\ writes = 0 /\ faults = 0
      /\ docs = [i \in Instances |-> [d \in Docs |-> Missing]]
      /\ changes = [i \in Instances |-> <<>>]
      /\ writer = [i \in Instances |-> [step |-> "next", at |-> 0]]
      /\ token = [i \in Instances |-> 0] /\ counter = [i \in Instances |-> 0]
      /\ log = [i \in Instances |-> {}] /\ tags = [i \in Instances |-> <<>>]
      /\ cursorOut = 0 /\ cursorIn = 0 /\ letters = <<>>
      /\ driver = IdleDriver(BatchLimit) /\ applier = [a \in Appliers |-> IdleApplier]
      /\ logged = {} /\ handled = {} /\ dropped = {} /\ clobbered = {}
  BY DEF Init, NoToken
<1>2. <<>> \in Seq(Changes) /\ <<>> \in Seq(Entries) /\ DOMAIN (<<>>) = {}
  BY EmptySeq
<1>3. TimeTyped /\ WriterTyped /\ LogTyped /\ HistoryTyped
  BY <1>1, BoundsAssumption DEF TimeTyped, WriterTyped, LogTyped, HistoryTyped
<1>4. DocsTyped
  BY <1>1, <1>2 DEF DocsTyped
<1>5. TagsTyped /\ LettersTyped
  BY <1>1, <1>2 DEF TagsTyped, LettersTyped
<1>6. driver \in Drivers /\ driver.step = "idle" /\ driver.excluded = {}
  BY <1>1, IdleTyped, BoundsAssumption
<1>7. DriverTyped
  BY <1>1, <1>6 DEF DriverTyped
<1>8. AppliersTyped
  BY <1>1, IdleApplierTyped DEF AppliersTyped
<1>9. LogNumbered
  BY <1>1, FS_EmptySet DEF LogNumbered, ByNumber, CursorOf
<1>10. NothingSkipped
  BY <1>1 DEF NothingSkipped
<1>11. CursorInv
  BY <1>6, <1>9, <1>10 DEF CursorInv, ExcludedSettled, SentInv, PulledInv
<1> QED
  BY <1>3, <1>4, <1>5, <1>7, <1>8, <1>11 DEF SyncInv, Typed

LEMMA SyncStep == SyncInv /\ [Next]_vars => SyncInv'
<1> SUFFICES ASSUME SyncInv, [Next]_vars
             PROVE  SyncInv'
  OBVIOUS
<1>1. ASSUME NEW i \in Instances, Writer(i)
      PROVE  SyncInv'
  BY <1>1, LogChangeNumbers, PersistTokenNumbers DEF Writer
<1>2. ASSUME NEW a \in Appliers, Apply(a)
      PROVE  SyncInv'
  BY <1>2, SkipsStep, ReadsStep, WritesStep, FailsStep DEF Apply
<1>3. CASE Cycle
  BY <1>3, StartCycleStep, NothingToPushStep, PushAnsweredStep, PullPageStep, PullAppliedStep, PushStep
     DEF Cycle
<1>4. CASE Clean
  BY <1>4, ReplayEndsStep, AnswerUnreadStep DEF Clean
<1>5. ASSUME NEW i \in Instances,
             \/ UserWrites(i) \/ SwallowChange(i) \/ StreamDies(i) \/ RestartWithoutToken(i)
             \/ CollectLog(i) \/ ExpireTag(i) \/ Restart(i)
      PROVE  SyncInv'
  BY <1>5, UserWritesStep, SwallowNumbers, StreamDiesNumbers, TokenLostNumbers, CollectNumbers,
     ExpireTagStep, RestartStep
<1>6. CASE PushRefused \/ GiveUp \/ PullRefused
  BY <1>6, PushRefusedStep, GivesUpStep, PullRefusedStep
<1>7. ASSUME NEW event \in DOMAIN letters, Replay(event) \/ Discard(event)
      PROVE  SyncInv'
  BY <1>7, ReplayStep, DiscardStep
<1>8. CASE Disturb
  BY <1>5, <1>6, <1>7, <1>8 DEF Disturb
<1>9. CASE UNCHANGED vars
  <2>1. UNCHANGED <<now, writes, faults, changes, writer, token, counter, log, logged, dropped, docs,
                    tags, handled, clobbered, cursorOut, cursorIn, letters, driver, applier>>
    BY <1>9 DEF vars, streamVars, dataVars, syncVars
  <2>2. Typed' /\ LettersKept
    BY <2>1, Rests DEF SyncInv, Typed
  <2> QED
    BY <2>1, <2>2, CursorsRest DEF SyncInv
<1> QED
  BY <1>1, <1>2, <1>3, <1>4, <1>8, <1>9 DEF Next

LEMMA SyncInvariant == Spec => []SyncInv
<1> QED
  BY SyncInitially, SyncStep, PTL DEF Spec

\* For any documents, bounds and faults every variable keeps its type: a batch that
\* failed names the entry that did, and a loop never runs out of its batch.
THEOREM TypeCorrect == Spec => []TypeOK
<1>1. SyncInv => TypeOK
  BY DEF SyncInv, Typed, TypeOK, TimeTyped, DocsTyped, WriterTyped, LogTyped, LettersTyped, DriverTyped,
         AppliersTyped, HistoryTyped, Changes, Drivers, Loops
<1> QED
  BY <1>1, SyncInvariant, PTL

\* At least once, for any documents, bounds and faults: neither cursor passes an entry
\* for the peer that the peer has not finished with and that is not a dead letter,
\* through lost answers, repeated batches, restarts on both sides and collection.
THEOREM AtLeastOnce == Spec => []NothingSkipped
<1>1. SyncInv => NothingSkipped
  BY DEF SyncInv, CursorInv
<1> QED
  BY <1>1, SyncInvariant, PTL

-----------------------------------------------------------------------------
(* The log and the change stream: the invariant *)

IsSequence(s) == \E S : s \in Seq(S)

StreamTyped ==
  /\ \A i \in Instances : IsSequence(changes[i]) /\ Len(changes[i]) \in Nat
  /\ changes = [i \in Instances |-> changes[i]]
  /\ writer \in [Instances -> [step : {"next", "token", "dead"}, at : Nat]]
  /\ token \in [Instances -> Nat] /\ counter \in [Instances -> Nat]
  /\ log = [i \in Instances |-> log[i]]

\* The entry a writer has just made, whose token is not persisted.
Made(i) == IF writer[i].step = "token" THEN writer[i].at + 1 ELSE writer[i].at

\* A logged change is one of the stream, and the writer has been there.
LoggedInv ==
  \A i \in Instances :
    /\ writer[i].at <= Len(changes[i])
    /\ writer[i].step = "token" => writer[i].at < Len(changes[i])
    /\ token[i] <= writer[i].at
    /\ \A n \in 1..Made(i) : Event(i, n) \in logged \cup dropped
    /\ \A n \in Nat : Event(i, n) \in logged => n <= Len(changes[i])

EntriesInv ==
  \A i \in Instances : \A e \in log[i] :
    /\ \E n \in Nat \ {0} : e.event = Event(i, n)
    /\ e.event \in logged /\ e.seq \in Nat /\ e.seq <= counter[i]

\* What is logged beyond the token has nothing but dropped changes between itself
\* and the token; without a token the writer is beyond all that is logged.
TokenInv ==
  \A i \in Instances :
    /\ token[i] = 0 => \A n \in Nat : Event(i, n) \in logged => n <= Made(i)
    /\ token[i] # 0 => \A n, m \in Nat :
         Event(i, n) \in logged /\ token[i] < m /\ m < n => Event(i, m) \in dropped
    /\ token[i] # 0 => \A m \in Nat :
         token[i] < m /\ m <= writer[i].at => Event(i, m) \in dropped

OrderInv ==
  \A i \in Instances : \A e, f \in log[i] :
    /\ e.event = f.event => e = f
    /\ e.event.n < f.event.n /\ {e.event, f.event} \cap dropped = {} => e.seq < f.seq

StreamInv == StreamTyped /\ LoggedInv /\ EntriesInv /\ TokenInv /\ OrderInv

-----------------------------------------------------------------------------
(* Sequences and events *)

LEMMA Appended ==
  ASSUME NEW s, NEW x, IsSequence(s), Len(s) \in Nat
  PROVE  IsSequence(Append(s, x)) /\ Len(Append(s, x)) = Len(s) + 1
<1>1. PICK S : s \in Seq(S)
  BY DEF IsSequence
<1>2. s \in Seq(S \cup {x})
  BY <1>1
<1>3. Append(s, x) \in Seq(S \cup {x}) /\ Len(Append(s, x)) = Len(s) + 1
  BY <1>2
<1> QED
  BY <1>3 DEF IsSequence

LEMMA EventsDiffer ==
  ASSUME NEW i, NEW j, NEW n, NEW m
  PROVE  /\ Event(i, n) = Event(j, m) <=> i = j /\ n = m
         /\ Event(i, n).src = i /\ Event(i, n).n = n
<1> QED
  BY DEF Event

-----------------------------------------------------------------------------
(* Steps outside of the log writer *)

\* The stream may only grow.
LEMMA StreamGrows ==
  ASSUME StreamInv, UNCHANGED <<writer, token, counter, log, logged, dropped>>,
         changes' = [i \in Instances |-> changes'[i]],
         \A i \in Instances : IsSequence(changes'[i]) /\ Len(changes'[i]) \in Nat
                              /\ Len(changes[i]) <= Len(changes'[i])
  PROVE  StreamInv'
<1>1. StreamTyped'
  BY DEF StreamInv, StreamTyped
<1>2. LoggedInv'
  BY DEF StreamInv, StreamTyped, LoggedInv, Made
<1>3. EntriesInv' /\ TokenInv' /\ OrderInv'
  BY DEF StreamInv, EntriesInv, TokenInv, OrderInv, Made
<1> QED
  BY <1>1, <1>2, <1>3 DEF StreamInv

LEMMA PutGrows ==
  ASSUME StreamTyped, NEW i \in Instances, NEW d, NEW version, NEW ms, Put(i, d, version, ms)
  PROVE  /\ changes' = [j \in Instances |-> changes'[j]]
         /\ \A j \in Instances : IsSequence(changes'[j]) /\ Len(changes'[j]) \in Nat
                                 /\ Len(changes[j]) <= Len(changes'[j])
<1>1. CASE UNCHANGED changes
  BY <1>1 DEF StreamTyped
<1>2. CASE changes' # changes
  <2>1. PICK c : changes' = [changes EXCEPT ![i] = Append(@, c)]
    BY <1>2 DEF Put
  <2>2. \A j \in Instances : changes'[j] = IF j = i THEN Append(changes[i], c) ELSE changes[j]
    BY <2>1 DEF StreamTyped
  <2>3. IsSequence(Append(changes[i], c)) /\ Len(Append(changes[i], c)) = Len(changes[i]) + 1
    BY Appended DEF StreamTyped
  <2>4. changes' = [j \in Instances |-> changes'[j]]
    BY <2>1 DEF StreamTyped
  <2>5. \A j \in Instances : IsSequence(changes[j]) /\ Len(changes[j]) \in Nat
    BY DEF StreamTyped
  <2>6. ASSUME NEW j \in Instances
        PROVE  /\ IsSequence(changes'[j]) /\ Len(changes'[j]) \in Nat
               /\ Len(changes[j]) <= Len(changes'[j])
    <3>1. CASE j = i
      <4>1. changes'[j] = Append(changes[i], c) /\ changes[j] = changes[i]
        BY <2>2, <3>1
      <4>2. IsSequence(changes'[j])
        BY <2>3, <4>1
      <4>3. Len(changes'[j]) = Len(changes[j]) + 1
        BY <2>3, <4>1
      <4> QED
        BY <2>5, <4>2, <4>3
    <3>2. CASE j # i
      <4>1. changes'[j] = changes[j]
        BY <2>2, <3>2
      <4> QED
        BY <2>5, <4>1
    <3> QED
      BY <3>1, <3>2
  <2> QED
    BY <2>4, <2>6
<1> QED
  BY <1>1, <1>2

LEMMA StreamRests ==
  ASSUME StreamInv, UNCHANGED streamVars
  PROVE  StreamInv'
<1> QED
  BY DEF streamVars, StreamInv, StreamTyped, LoggedInv, EntriesInv, TokenInv, OrderInv, Made

-----------------------------------------------------------------------------
(* The log writer *)

LEMMA LogChangeStep ==
  ASSUME StreamInv, NEW i \in Instances, LogChange(i)
  PROVE  StreamInv'
<1> DEFINE n == writer[i].at + 1
           e == NewEntry(i, n)
<1>0. /\ StreamTyped /\ LoggedInv /\ EntriesInv /\ TokenInv /\ OrderInv
      /\ writer[i].step = "next" /\ writer[i].at < Len(changes[i])
      /\ UNCHANGED <<changes, token, dropped>>
  BY DEF StreamInv, LogChange
<1>1. /\ log' = IF AlreadyLogged(i, e) THEN log ELSE [log EXCEPT ![i] = @ \cup {e}]
      /\ logged' = logged \cup {f.event : f \in log'[i]}
      /\ counter' = [counter EXCEPT ![i] = @ + 1]
      /\ writer' = [writer EXCEPT ![i].step = "token"]
  BY DEF LogChange
<1>2. e.event = Event(i, n) /\ e.seq = counter[i] + 1
  BY DEF NewEntry, EntryOf
<1>3. /\ n \in Nat \ {0} /\ n <= Len(changes[i]) /\ counter[i] \in Nat /\ writer[i].at \in Nat
      /\ Len(changes[i]) \in Nat /\ token[i] \in Nat
  BY <1>0 DEF StreamTyped
<1> HIDE DEF n, e
<1>4. /\ counter'[i] = counter[i] + 1 /\ writer'[i].step = "token" /\ writer'[i].at = writer[i].at
      /\ \A j \in Instances : j # i => counter'[j] = counter[j] /\ writer'[j] = writer[j]
      /\ counter' \in [Instances -> Nat]
      /\ writer' \in [Instances -> [step : {"next", "token", "dead"}, at : Nat]]
  BY <1>0, <1>1, <1>3 DEF StreamTyped
<1>5. /\ \A j \in Instances : j # i => log'[j] = log[j]
      /\ log'[i] \in {log[i], log[i] \cup {e}}
      /\ AlreadyLogged(i, e) => log'[i] = log[i]
      /\ ~AlreadyLogged(i, e) => log'[i] = log[i] \cup {e}
      /\ log' = [j \in Instances |-> log'[j]]
  BY <1>0, <1>1 DEF StreamTyped
<1>6. logged' = logged \cup {Event(i, n)}
  <2>1. \A f \in log[i] : f.event \in logged
    BY <1>0 DEF EntriesInv
  <2>2. AlreadyLogged(i, e) => Event(i, n) \in logged
    BY <1>2, <2>1 DEF AlreadyLogged
  <2>3. \E f \in log'[i] : f.event = Event(i, n)
    BY <1>2, <1>5 DEF AlreadyLogged
  <2> QED
    BY <1>1, <1>2, <1>5, <2>1, <2>2, <2>3
<1>7. Made(i) = n - 1 /\ Made(i)' = n /\ \A j \in Instances : j # i => Made(j)' = Made(j)
  BY <1>0, <1>3, <1>4 DEF Made, n
<1>8. StreamTyped'
  BY <1>0, <1>4, <1>5 DEF StreamTyped
<1>9. LoggedInv'
  <2>1. ASSUME NEW j \in Instances, j # i
        PROVE  /\ writer'[j].at <= Len(changes'[j])
               /\ writer'[j].step = "token" => writer'[j].at < Len(changes'[j])
               /\ token'[j] <= writer'[j].at
               /\ \A m \in 1..Made(j)' : Event(j, m) \in logged' \cup dropped'
               /\ \A m \in Nat : Event(j, m) \in logged' => m <= Len(changes'[j])
    <3>1. \A m \in Nat : Event(j, m) \in logged' => Event(j, m) \in logged
      BY <1>6, <2>1, EventsDiffer
    <3>2. writer'[j] = writer[j] /\ Made(j)' = Made(j)
      BY <1>4, <1>7, <2>1
    <3> QED
      BY <1>0, <1>6, <3>1, <3>2 DEF LoggedInv
  <2>2. /\ writer'[i].at <= Len(changes'[i])
        /\ writer'[i].step = "token" => writer'[i].at < Len(changes'[i])
        /\ token'[i] <= writer'[i].at
    BY <1>0, <1>4 DEF LoggedInv
  <2>3. \A m \in 1..Made(i)' : Event(i, m) \in logged' \cup dropped'
    <3>1. \A m \in 1..n : m = n \/ m \in 1..Made(i)
      BY <1>3, <1>7
    <3> QED
      BY <1>0, <1>6, <1>7, <3>1 DEF LoggedInv
  <2>4. \A m \in Nat : Event(i, m) \in logged' => m <= Len(changes'[i])
    BY <1>0, <1>3, <1>6, EventsDiffer DEF LoggedInv
  <2> QED
    BY <2>1, <2>2, <2>3, <2>4 DEF LoggedInv
<1>10. EntriesInv'
  <2>1. ASSUME NEW j \in Instances, NEW f \in log[j]
        PROVE  /\ \E k \in Nat \ {0} : f.event = Event(j, k)
               /\ f.event \in logged' /\ f.seq \in Nat /\ f.seq <= counter'[j]
    <3>1. counter[j] \in Nat /\ counter'[j] \in {counter[j], counter[j] + 1}
      BY <1>0, <1>4 DEF StreamTyped
    <3> QED
      BY <1>0, <1>6, <3>1 DEF EntriesInv
  <2>2. /\ \E k \in Nat \ {0} : e.event = Event(i, k)
        /\ e.event \in logged' /\ e.seq \in Nat /\ e.seq <= counter'[i]
    BY <1>2, <1>3, <1>4, <1>6
  <2>3. \A j \in Instances : \A f \in log'[j] : f \in log[j] \/ (j = i /\ f = e)
    BY <1>5
  <2> QED
    BY <2>1, <2>2, <2>3 DEF EntriesInv
<1>11. TokenInv'
  <2>1. ASSUME NEW j \in Instances, token[j] = 0, NEW m \in Nat, Event(j, m) \in logged'
        PROVE  m <= Made(j)'
    BY <1>0, <1>3, <1>6, <1>7, <2>1, EventsDiffer DEF TokenInv
  <2>2. ASSUME NEW j \in Instances, token[j] # 0, NEW k \in Nat, NEW m \in Nat,
               Event(j, k) \in logged', token[j] < m, m < k
        PROVE  Event(j, m) \in dropped
    <3>1. CASE Event(j, k) \in logged
      BY <1>0, <2>2, <3>1 DEF TokenInv
    <3>2. CASE j = i /\ k = n
      <4>1. m <= writer[i].at
        BY <1>3, <2>2, <3>2 DEF n
      <4> QED
        BY <1>0, <2>2, <3>2, <4>1 DEF TokenInv
    <3> QED
      BY <1>6, <2>2, <3>1, <3>2, EventsDiffer
  <2>3. ASSUME NEW j \in Instances, token[j] # 0, NEW m \in Nat, token[j] < m, m <= writer'[j].at
        PROVE  Event(j, m) \in dropped
    BY <1>0, <1>4, <2>3 DEF TokenInv
  <2> QED
    BY <1>0, <2>1, <2>2, <2>3 DEF TokenInv
<1>12. OrderInv'
  <2>1. CASE AlreadyLogged(i, e)
    BY <1>0, <1>5, <2>1 DEF OrderInv
  <2>2. CASE ~AlreadyLogged(i, e)
    <3>1. \A f \in log[i] : f.event # e.event /\ f.seq \in Nat /\ f.seq < e.seq
      BY <1>0, <1>2, <1>3, <2>2 DEF AlreadyLogged, EntriesInv
    <3>2. ASSUME NEW f \in log[i], e.event.n < f.event.n, {e.event, f.event} \cap dropped = {}
          PROVE  FALSE
      <4>1. PICK k \in Nat \ {0} : f.event = Event(i, k)
        BY <1>0 DEF EntriesInv
      <4>2. n < k /\ Event(i, k) \in logged /\ Event(i, n) \notin dropped
        BY <1>0, <1>2, <3>2, <4>1, EventsDiffer DEF EntriesInv
      <4>3. token[i] # 0 => token[i] < n
        BY <1>0, <1>3 DEF LoggedInv, n
      <4>4. token[i] = 0
        BY <1>0, <1>3, <4>2, <4>3 DEF TokenInv
      <4>5. k <= Made(i)
        BY <1>0, <4>2, <4>4 DEF TokenInv
      <4> QED
        BY <1>3, <1>7, <4>2, <4>5
    <3>3. ASSUME NEW j \in Instances, NEW f \in log'[j], NEW g \in log'[j]
          PROVE  /\ f.event = g.event => f = g
                 /\ f.event.n < g.event.n /\ {f.event, g.event} \cap dropped' = {} => f.seq < g.seq
      <4>1. CASE f \in log[j] /\ g \in log[j]
        BY <1>0, <4>1 DEF OrderInv
      <4>2. CASE j = i /\ f = e /\ g = e
        BY <1>2, <1>3, <4>2, EventsDiffer
      <4>3. CASE j = i /\ f = e /\ g \in log[i]
        BY <1>0, <3>1, <3>2, <4>3
      <4>4. CASE j = i /\ f \in log[i] /\ g = e
        BY <3>1, <4>4
      <4> QED
        BY <1>5, <2>2, <3>3, <4>1, <4>2, <4>3, <4>4
    <3> QED
      BY <3>3 DEF OrderInv
  <2> QED
    BY <2>1, <2>2
<1> QED
  BY <1>8, <1>9, <1>10, <1>11, <1>12 DEF StreamInv

LEMMA PersistTokenStep ==
  ASSUME StreamInv, NEW i \in Instances, PersistToken(i)
  PROVE  StreamInv'
<1>0. /\ StreamTyped /\ LoggedInv /\ EntriesInv /\ TokenInv /\ OrderInv
      /\ writer[i].step = "token" /\ UNCHANGED <<changes, counter, log, logged, dropped>>
  BY DEF StreamInv, PersistToken
<1>1. writer[i].at \in Nat /\ token[i] \in Nat /\ token \in [Instances -> Nat]
  BY <1>0 DEF StreamTyped
<1> DEFINE n == writer[i].at + 1
<1>2. /\ \A j \in Instances : token'[j] = IF j = i THEN n ELSE token[j]
      /\ token' \in [Instances -> Nat]
  BY <1>1 DEF PersistToken
<1>3. writer' = [writer EXCEPT ![i] = [step |-> "next", at |-> n]]
  BY DEF PersistToken
<1>4. /\ \A j \in Instances : writer'[j] = IF j = i THEN [step |-> "next", at |-> n] ELSE writer[j]
      /\ writer' \in [Instances -> [step : {"next", "token", "dead"}, at : Nat]]
  BY <1>0, <1>1, <1>3 DEF StreamTyped
<1>5. \A j \in Instances : Made(j)' = Made(j)
  BY <1>0, <1>1, <1>4 DEF Made
<1>6. Made(i) = n /\ n \in Nat \ {0}
  BY <1>0, <1>1 DEF Made
<1> HIDE DEF n
<1>7. StreamTyped' /\ EntriesInv' /\ OrderInv'
  BY <1>0, <1>2, <1>4 DEF StreamTyped, EntriesInv, OrderInv
<1>8. LoggedInv'
  <2>1. writer[i].at < Len(changes[i]) /\ Len(changes[i]) \in Nat
    BY <1>0 DEF LoggedInv, StreamTyped
  <2>2. n <= Len(changes[i])
    BY <1>1, <2>1 DEF n
  <2> QED
    BY <1>0, <1>2, <1>4, <1>5, <1>6, <2>2 DEF LoggedInv
<1>9. TokenInv'
  <2>1. ASSUME NEW j \in Instances, token'[j] = 0, NEW m \in Nat, Event(j, m) \in logged
        PROVE  m <= Made(j)'
    BY <1>0, <1>2, <1>5, <1>6, <2>1 DEF TokenInv
  <2>2. ASSUME NEW j \in Instances, token'[j] # 0, NEW k \in Nat, NEW m \in Nat,
               Event(j, k) \in logged, token'[j] < m, m < k
        PROVE  Event(j, m) \in dropped
    <3>1. CASE j = i
      <4>1. token[i] = 0 => k <= n
        BY <1>0, <1>6, <2>2, <3>1 DEF TokenInv
      <4>2. token[i] # 0
        BY <1>2, <1>6, <2>2, <3>1, <4>1
      <4>3. token[i] < m
        BY <1>0, <1>1, <1>2, <2>2, <3>1 DEF LoggedInv, n
      <4> QED
        BY <1>0, <2>2, <3>1, <4>2, <4>3 DEF TokenInv
    <3>2. CASE j # i
      BY <1>0, <1>2, <2>2, <3>2 DEF TokenInv
    <3> QED
      BY <3>1, <3>2
  <2>3. ASSUME NEW j \in Instances, token'[j] # 0, NEW m \in Nat, token'[j] < m, m <= writer'[j].at
        PROVE  Event(j, m) \in dropped
    <3>1. j # i
      BY <1>2, <1>4, <1>6, <2>3
    <3> QED
      BY <1>0, <1>2, <1>4, <2>3, <3>1 DEF TokenInv
  <2> QED
    BY <1>0, <2>1, <2>2, <2>3 DEF TokenInv
<1> QED
  BY <1>7, <1>8, <1>9 DEF StreamInv

\* More is dropped and the log loses entries; the writer of i is somewhere else,
\* or the token is lost.
LEMMA Displaced ==
  ASSUME StreamInv, NEW i \in Instances, NEW w \in [step : {"next", "dead"}, at : Nat],
         writer' = [writer EXCEPT ![i] = w], UNCHANGED <<changes, log, logged>>,
         counter' \in [Instances -> Nat], \A j \in Instances : counter[j] <= counter'[j],
         NEW t \in {token[i], 0}, token' = [token EXCEPT ![i] = t],
         dropped \subseteq dropped', t <= w.at, w.at <= Len(changes[i]),
         \A n \in 1..w.at : Event(i, n) \in logged \cup dropped',
         t = 0 => \A n \in Nat : Event(i, n) \in logged => n <= w.at,
         t # 0 => \A m \in Nat : t < m /\ m <= w.at => Event(i, m) \in dropped'
  PROVE  StreamInv'
<1>0. /\ StreamTyped /\ LoggedInv /\ EntriesInv /\ TokenInv /\ OrderInv
  BY DEF StreamInv
<1>1. /\ \A j \in Instances : writer'[j] = IF j = i THEN w ELSE writer[j]
      /\ \A j \in Instances : token'[j] = IF j = i THEN t ELSE token[j]
      /\ writer' \in [Instances -> [step : {"next", "token", "dead"}, at : Nat]]
      /\ token' \in [Instances -> Nat]
  BY <1>0 DEF StreamTyped
<1>2. Made(i)' = w.at /\ \A j \in Instances : j # i => Made(j)' = Made(j)
  BY <1>1 DEF Made
<1>3. StreamTyped'
  BY <1>0, <1>1 DEF StreamTyped
<1>4. LoggedInv'
  BY <1>0, <1>1, <1>2 DEF LoggedInv
<1>5. EntriesInv'
  <2>1. \A j \in Instances : counter[j] \in Nat /\ counter'[j] \in Nat
    BY <1>0 DEF StreamTyped
  <2> QED
    BY <1>0, <2>1 DEF EntriesInv
<1>6. TokenInv'
  BY <1>0, <1>1, <1>2 DEF TokenInv
<1>7. OrderInv'
  BY <1>0 DEF OrderInv
<1> QED
  BY <1>3, <1>4, <1>5, <1>6, <1>7 DEF StreamInv

LEMMA SwallowStep ==
  ASSUME StreamInv, NEW i \in Instances, SwallowChange(i)
  PROVE  StreamInv'
<1> DEFINE n == writer[i].at + 1
           w == [writer[i] EXCEPT !.at = @ + 1]
<1>0. /\ StreamTyped /\ LoggedInv /\ TokenInv /\ UNCHANGED <<changes, token, log, logged>>
      /\ writer[i].step = "next" /\ writer[i].at < Len(changes[i])
      /\ dropped' = dropped \cup {Event(i, n)}
      /\ \E used \in {0, 1} : counter' = [counter EXCEPT ![i] = @ + used]
  BY DEF StreamInv, SwallowChange
<1>1. writer' = [writer EXCEPT ![i] = w]
  BY Zenon DEF SwallowChange
<1>2. /\ writer[i] \in [step : {"next", "token", "dead"}, at : Nat] /\ Len(changes[i]) \in Nat
      /\ token \in [Instances -> Nat] /\ counter \in [Instances -> Nat]
  BY <1>0 DEF StreamTyped
<1>3. w \in [step : {"next", "dead"}, at : Nat] /\ w.at = n
  BY <1>0, <1>2
<1>4. counter' \in [Instances -> Nat] /\ \A j \in Instances : counter[j] <= counter'[j]
  BY <1>0, <1>2
<1>5. token' = [token EXCEPT ![i] = token[i]]
  BY <1>0, <1>2
<1>6. Made(i) = writer[i].at /\ writer[i].at \in Nat /\ token[i] \in Nat
  BY <1>0, <1>2 DEF Made
<1> HIDE DEF w
<1>7. \A m \in 1..n : m = n \/ m \in 1..Made(i)
  BY <1>6
<1>8. \A m \in 1..n : Event(i, m) \in logged \cup dropped'
  BY <1>0, <1>7 DEF LoggedInv
<1>9. token[i] = 0 => \A m \in Nat : Event(i, m) \in logged => m <= n
  BY <1>0, <1>6 DEF TokenInv
<1>10. token[i] # 0 => \A m \in Nat : token[i] < m /\ m <= n => Event(i, m) \in dropped'
  <2>1. \A m \in Nat : m <= n => m = n \/ m <= writer[i].at
    BY <1>6
  <2> QED
    BY <1>0, <2>1 DEF TokenInv
<1>11. token[i] <= n /\ n <= Len(changes[i])
  BY <1>0, <1>2, <1>6 DEF LoggedInv
<1>12. dropped \subseteq dropped' /\ token[i] \in {token[i], 0}
  BY <1>0
<1> HIDE DEF n
<1>13. /\ token[i] <= w.at /\ w.at <= Len(changes[i])
       /\ \A m \in 1..w.at : Event(i, m) \in logged \cup dropped'
       /\ token[i] = 0 => \A m \in Nat : Event(i, m) \in logged => m <= w.at
       /\ token[i] # 0 => \A m \in Nat : token[i] < m /\ m <= w.at => Event(i, m) \in dropped'
  BY <1>3, <1>8, <1>9, <1>10, <1>11
<1> QED
  BY <1>0, <1>1, <1>3, <1>4, <1>5, <1>12, <1>13, Displaced

LEMMA StreamDiesStep ==
  ASSUME StreamInv, NEW i \in Instances, StreamDies(i)
  PROVE  StreamInv'
<1> DEFINE w == [writer[i] EXCEPT !.step = "dead"]
<1>0. /\ StreamTyped /\ LoggedInv /\ TokenInv
      /\ UNCHANGED <<changes, token, counter, log, logged, dropped>> /\ writer[i].step = "next"
  BY DEF StreamInv, StreamDies
<1>1. writer' = [writer EXCEPT ![i] = w]
  BY Zenon DEF StreamDies
<1>2. /\ writer[i] \in [step : {"next", "token", "dead"}, at : Nat] /\ Len(changes[i]) \in Nat
      /\ token \in [Instances -> Nat] /\ counter \in [Instances -> Nat]
  BY <1>0 DEF StreamTyped
<1>3. w \in [step : {"next", "dead"}, at : Nat] /\ w.at = writer[i].at
  BY <1>0, <1>2
<1>4. counter' \in [Instances -> Nat] /\ \A j \in Instances : counter[j] <= counter'[j]
  BY <1>0, <1>2
<1>5. token' = [token EXCEPT ![i] = token[i]] /\ Made(i) = writer[i].at
  BY <1>0, <1>2 DEF Made
<1> HIDE DEF w
<1>6. dropped \subseteq dropped' /\ token[i] \in {token[i], 0}
  BY <1>0
<1>7. /\ token[i] <= w.at /\ w.at <= Len(changes[i])
      /\ \A m \in 1..w.at : Event(i, m) \in logged \cup dropped'
  BY <1>0, <1>3, <1>5 DEF LoggedInv
<1>8. token[i] = 0 => \A m \in Nat : Event(i, m) \in logged => m <= w.at
  BY <1>0, <1>3, <1>5 DEF TokenInv
<1>9. token[i] # 0 => \A m \in Nat : token[i] < m /\ m <= w.at => Event(i, m) \in dropped'
  BY <1>0, <1>3 DEF TokenInv
<1> QED
  BY <1>0, <1>1, <1>3, <1>4, <1>6, <1>7, <1>8, <1>9, <1>5, Displaced

\* The stream starts at its token, or without one at its end.
LEMMA WatchStep ==
  ASSUME StreamInv, NEW i \in Instances, NEW t \in {token[i], 0}, WatchFrom(i, t),
         token' = [token EXCEPT ![i] = t], UNCHANGED <<changes, counter, log, logged>>
  PROVE  StreamInv'
<1> DEFINE start == IF t = 0 THEN Len(changes[i]) ELSE t
           w == [step |-> "next", at |-> start]
<1>0. StreamTyped /\ LoggedInv /\ TokenInv
  BY DEF StreamInv
<1>1. /\ writer' = [writer EXCEPT ![i] = w]
      /\ t # 0 => dropped' = dropped
      /\ t = 0 => dropped' = dropped \cup ({Event(i, n) : n \in 1..Len(changes[i])} \ logged)
  BY DEF WatchFrom, NoToken
<1>2. Len(changes[i]) \in Nat /\ t \in Nat /\ token[i] \in Nat /\ counter \in [Instances -> Nat]
      /\ writer[i].at \in Nat
  BY <1>0 DEF StreamTyped
<1>3. start \in Nat /\ w \in [step : {"next", "dead"}, at : Nat] /\ w.at = start
  BY <1>2
<1>4. t # 0 => t = token[i] /\ start = t
  OBVIOUS
<1>5. t = 0 => start = Len(changes[i])
  OBVIOUS
<1> HIDE DEF start, w
<1>6. t <= start /\ start <= Len(changes[i])
  BY <1>0, <1>2, <1>4, <1>5 DEF LoggedInv
<1>7. \A n \in 1..start : Event(i, n) \in logged \cup dropped'
  <2>1. CASE t = 0
    BY <1>1, <1>5, <2>1
  <2>2. CASE t # 0
    <3>1. \A n \in 1..token[i] : n \in 1..Made(i)
      BY <1>0, <1>2 DEF LoggedInv, Made
    <3> QED
      BY <1>0, <1>1, <1>4, <2>2, <3>1 DEF LoggedInv
  <2> QED
    BY <2>1, <2>2
<1>8. t = 0 => \A n \in Nat : Event(i, n) \in logged => n <= start
  BY <1>0, <1>5 DEF LoggedInv
<1>9. t # 0 => \A m \in Nat : t < m /\ m <= start => Event(i, m) \in dropped'
  BY <1>2, <1>4
<1>10. counter' \in [Instances -> Nat] /\ \A j \in Instances : counter[j] <= counter'[j]
  BY <1>2
<1>11. dropped \subseteq dropped'
  BY <1>1
<1> QED
  BY <1>1, <1>3, <1>6, <1>7, <1>8, <1>9, <1>10, <1>11, Displaced

LEMMA CollectStep ==
  ASSUME StreamInv, NEW i \in Instances, CollectLog(i)
  PROVE  StreamInv'
<1>0. /\ StreamTyped /\ LoggedInv /\ EntriesInv /\ TokenInv /\ OrderInv
      /\ UNCHANGED <<changes, writer, token, counter, logged>> /\ dropped \subseteq dropped'
  BY DEF StreamInv, CollectLog
<1>1. PICK old : log' = [log EXCEPT ![i] = @ \ old]
  BY DEF CollectLog
<1>2. /\ \A j \in Instances : log'[j] \subseteq log[j]
      /\ log' = [j \in Instances |-> log'[j]]
  BY <1>0, <1>1 DEF StreamTyped
<1>3. \A j \in Instances : Made(j)' = Made(j)
  BY <1>0 DEF Made
<1>4. StreamTyped' /\ LoggedInv' /\ TokenInv'
  BY <1>0, <1>2, <1>3 DEF StreamTyped, LoggedInv, TokenInv
<1>5. EntriesInv' /\ OrderInv'
  BY <1>0, <1>2 DEF EntriesInv, OrderInv
<1> QED
  BY <1>4, <1>5 DEF StreamInv

-----------------------------------------------------------------------------
(* The theorem *)

LEMMA StreamInitially == Init => StreamInv
<1> SUFFICES ASSUME Init PROVE StreamInv
  OBVIOUS
<1>1. /\ changes = [i \in Instances |-> <<>>] /\ token = [i \in Instances |-> 0]
      /\ writer = [i \in Instances |-> [step |-> "next", at |-> 0]]
      /\ counter = [i \in Instances |-> 0] /\ log = [i \in Instances |-> {}]
      /\ logged = {} /\ dropped = {}
  BY DEF Init, NoToken
<1>2. IsSequence(<<>>) /\ Len(<<>>) = 0
  <2>1. <<>> \in Seq({})
    OBVIOUS
  <2> QED
    BY <2>1 DEF IsSequence
<1>3. StreamTyped
  BY <1>1, <1>2 DEF StreamTyped
<1>4. LoggedInv /\ EntriesInv /\ TokenInv /\ OrderInv
  BY <1>1, <1>2 DEF LoggedInv, EntriesInv, TokenInv, OrderInv, Made
<1> QED
  BY <1>3, <1>4 DEF StreamInv

LEMMA StreamStep == StreamInv /\ [Next]_vars => StreamInv'
<1> SUFFICES ASSUME StreamInv, [Next]_vars
             PROVE  StreamInv'
  OBVIOUS
<1>1. ASSUME NEW i \in Instances, Writer(i)
      PROVE  StreamInv'
  BY <1>1, LogChangeStep, PersistTokenStep DEF Writer
<1>2. ASSUME NEW a \in Appliers, Apply(a)
      PROVE  StreamInv'
  <2>1. CASE ApplyWrites(a)
    <3>1. PICK i, d, version, ms : i \in Instances /\ Put(i, d, version, ms)
      BY <2>1 DEF ApplyWrites, Site, Instances
    <3>2. UNCHANGED <<writer, token, counter, log, logged, dropped>>
      BY <2>1 DEF ApplyWrites
    <3> QED
      BY <3>1, <3>2, PutGrows, StreamGrows DEF StreamInv
  <2>2. CASE ApplySkips(a) \/ ApplyReads(a) \/ ApplyFails(a)
    <3>1. UNCHANGED streamVars
      BY <2>2 DEF ApplySkips, ApplyReads, ApplyFails
    <3> QED
      BY <3>1, StreamRests
  <2> QED
    BY <1>2, <2>1, <2>2 DEF Apply
<1>3. CASE Cycle \/ Clean
  <2>1. UNCHANGED streamVars
    BY <1>3 DEF Cycle, Clean, StartCycle, NothingToPush, Push, PushAnswered, PullPage, PullApplied,
                ReplayEnds, AnswerUnread
  <2> QED
    BY <2>1, StreamRests
<1>4. ASSUME NEW i \in Instances, UserWrites(i)
      PROVE  StreamInv'
  <2>1. PICK d, version, ms : Put(i, d, version, ms)
    BY <1>4 DEF UserWrites
  <2>2. UNCHANGED <<writer, token, counter, log, logged, dropped>>
    BY <1>4 DEF UserWrites
  <2> QED
    BY <2>1, <2>2, PutGrows, StreamGrows DEF StreamInv
<1>5. ASSUME NEW i \in Instances, RestartWithoutToken(i)
      PROVE  StreamInv'
  BY <1>5, WatchStep DEF RestartWithoutToken, NoToken
<1>6. ASSUME NEW i \in Instances, Restart(i)
      PROVE  StreamInv'
  <2>1. token' = [token EXCEPT ![i] = token[i]]
    BY <1>6 DEF Restart, StreamInv, StreamTyped
  <2> QED
    BY <1>6, <2>1, WatchStep DEF Restart
<1>7. ASSUME NEW i \in Instances, ExpireTag(i)
      PROVE  StreamInv'
  BY <1>7, StreamRests DEF ExpireTag
<1>8. CASE PushRefused \/ GiveUp \/ PullRefused
  BY <1>8, StreamRests DEF PushRefused, GiveUp, PullRefused
<1>9. ASSUME NEW event, Replay(event) \/ Discard(event)
      PROVE  StreamInv'
  BY <1>9, StreamRests DEF Replay, Discard
<1>10. CASE UNCHANGED vars
  BY <1>10, StreamRests DEF vars
<1>11. CASE Disturb
  BY <1>4, <1>5, <1>6, <1>7, <1>8, <1>9, <1>11, SwallowStep, StreamDiesStep, CollectStep DEF Disturb
<1> QED
  BY <1>1, <1>2, <1>3, <1>10, <1>11 DEF Next

LEMMA StreamInvariant == Spec => []StreamInv
<1> QED
  BY StreamInitially, StreamStep, PTL DEF Spec

\* For any documents, bounds and faults: a change below the resume token has had its
\* entry unless an error or a lost token passed over it, a change has one entry, and
\* the entries of changes that were not dropped follow their order, also when the
\* stream replays changes whose entries the log has kept or collected.
THEOREM FollowsStream == Spec => []LogFollowsStream
<1>1. StreamInv => LogFollowsStream
  <2> SUFFICES ASSUME StreamInv, NEW i \in Instances
               PROVE  /\ \A n \in 1..token[i] : Event(i, n) \in logged \cup dropped
                      /\ \A e, f \in log[i] :
                           /\ e.event = f.event => e = f
                           /\ e.event.n < f.event.n /\ {e.event, f.event} \cap dropped = {}
                              => e.seq < f.seq
    BY DEF LogFollowsStream
  <2>1. \A n \in 1..token[i] : n \in 1..Made(i)
    BY DEF StreamInv, StreamTyped, LoggedInv, Made
  <2> QED
    BY <2>1 DEF StreamInv, LoggedInv, OrderInv
<1> QED
  BY <1>1, StreamInvariant, PTL
=============================================================================
