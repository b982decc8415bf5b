-------------------------- MODULE ReplicationSync --------------------------
(***************************************************************************)
(* Two instances that replicate documents to each other (replication/).    *)
(*                                                                         *)
(* Every instance has a log writer that follows its MongoDB change stream  *)
(* and turns each change into an entry of its replication_log.  The        *)
(* ACTIVE instance drives: a cycle pushes the entries above its outbound   *)
(* cursor to the PASSIVE instance and then pulls the entries above its     *)
(* inbound cursor.  Entries are applied by last write wins.  An entry that *)
(* keeps failing becomes a deadletter and the cursor passes it.            *)
(*                                                                         *)
(* Covered: crash and restart of each instance between any two steps, an   *)
(* entry that cannot be written, a change stream that has lost its resume  *)
(* token or ended, a request that never arrives, an answer that comes      *)
(* after the driver gave up, local writes between the read and the write   *)
(* of an apply, garbage collection, replay and discard.                    *)
(* Not covered: clocks that differ (the instances share `now'), projects   *)
(* whose opt-in changes, the legacy full sync.                             *)
(***************************************************************************)
EXTENDS Naturals, Sequences, FiniteSets

CONSTANTS
    Active, Passive,    \* the two instances
    Winner,             \* the one whose instance id is lexicographically higher
    Docs,               \* replicated documents
    Enabled,            \* [Instances -> SUBSET Docs]: documents of opted-in projects
    Poison,             \* [Instances -> SUBSET Docs]: documents an instance cannot upsert
    Handlers,           \* receive requests the passive instance can have open
    Puller, Replayer,   \* the two places the active instance applies entries from
    Nobody, Missing,    \* no handler; no document
    SecondLength,       \* milliseconds in a second
    BatchLimit,         \* PUSH_BATCH_LIMIT and PULL_PAGE_LIMIT
    MaxAttempts,        \* MAX_APPLY_ATTEMPTS
    MaxWrites,          \* bound on the changes users make
    MaxFaults,          \* bound on the faults of Environment
    Environment         \* the faults and administrator actions that occur

Instances == {Active, Passive}
Appliers == Handlers \cup {Puller, Replayer}
Faults == {"refuse", "tooLarge", "giveUp", "fail", "swallow", "die", "tokenLost",
           "restart", "expire", "gc", "replay", "discard"}

ASSUME InstancesAssumption == Active # Passive /\ Winner \in Instances
ASSUME AppliersAssumption ==
    /\ Puller # Replayer /\ Puller \notin Handlers /\ Replayer \notin Handlers
    /\ Nobody \notin Handlers
ASSUME BoundsAssumption ==
    /\ SecondLength \in Nat \ {0} /\ BatchLimit \in Nat \ {0}
    /\ MaxAttempts \in Nat \ {0} /\ MaxWrites \in Nat /\ MaxFaults \in Nat
ASSUME SetsAssumption ==
    /\ Enabled \in [Instances -> SUBSET Docs] /\ Poison \in [Instances -> SUBSET Docs]
    /\ Environment \subseteq Faults

VARIABLES
    now,        \* milliseconds
    writes,     \* user writes so far
    faults,     \* faults so far
    docs,       \* [Instances -> [Docs -> version or Missing]]
    changes,    \* [Instances -> Seq(change)]: the change stream
    writer,     \* [Instances -> [step, at]]: the log writer and its place in the stream
    token,      \* [Instances -> Nat]: the persisted resume token
    counter,    \* [Instances -> Nat]: the sequence number handed out last
    log,        \* [Instances -> SUBSET Entry]: replication_log
    tags,       \* [Instances -> function]: replication_applied, <<doc, at>> to origin
    cursorOut,  \* REPL_CURSOR_OUTBOUND
    cursorIn,   \* REPL_CURSOR_INBOUND
    letters,    \* replication_deadletters: event to record
    driver,     \* the cycle in progress at the active instance
    applier,    \* [Appliers -> record]: the applyEntry loops
    logged,     \* history: events that got a log entry
    handled,    \* history: events whose apply ended with a terminal outcome
    dropped,    \* history: events the log writer or the age-only collection passed over
    clobbered   \* history: documents an apply undid or tagged although newer

streamVars == <<changes, writer, token, counter, log, logged, dropped>>
dataVars == <<docs, tags, handled, clobbered>>
syncVars == <<cursorOut, cursorIn, letters, driver, applier>>
vars == <<now, writes, faults, streamVars, dataVars, syncVars>>

NoTime == 0     \* an absent timestamp
NoToken == 0    \* no stored resume token

Event(i, n) == [src |-> i, n |-> n]
MaxSeq(S) == IF S = {} THEN 0 ELSE CHOOSE s \in {e.seq : e \in S} : \A e \in S : e.seq <= s

\* find({ seq: { $gt: cursor } }).sort({ seq: 1 }).limit(limit)
Above(S, cursor, limit) ==
    {e \in S : e.seq > cursor /\ Cardinality({f \in S : cursor < f.seq /\ f.seq <= e.seq}) <= limit}

InSeqOrder(S) ==
    [k \in 1..Cardinality(S) |-> CHOOSE e \in S : Cardinality({f \in S : f.seq <= e.seq}) = k]

\* updateOne(key, value, { upsert: true }).
Upsert(table, key, value) ==
    [k \in DOMAIN table \cup {key} |-> IF k = key THEN value ELSE table[k]]

\* One of Environment's faults, MaxFaults in all.
Fault(kind) == kind \in Environment /\ faults < MaxFaults /\ faults' = faults + 1

-----------------------------------------------------------------------------
(* Documents.  A version is known by its updatedAt and by who wrote it.    *)

TimeOf(version) == IF version = Missing THEN NoTime ELSE version.at

\* Mutant: at the same millisecond the incoming version always applies.
AppliesEveryTie(localMs, incomingMs, self, origin) ==
    localMs = NoTime \/ incomingMs = NoTime \/ localMs <= incomingMs

\* Last write wins; at the same millisecond the higher instance id wins.
Applies(localMs, incomingMs, self, origin) ==
    \/ localMs = NoTime \/ incomingMs = NoTime
    \/ localMs < incomingMs
    \/ (localMs = incomingMs /\ origin \in {self, Winner})

\* A write reaches the change stream unless it changes nothing.  clusterTime
\* counts seconds.
Put(i, d, version, ms) ==
    /\ docs' = [docs EXCEPT ![i][d] = version]
    /\ changes' = IF version = docs[i][d] THEN changes
                  ELSE [changes EXCEPT ![i] = Append(@,
                         [doc |-> d, version |-> version,
                          clusterMs |-> (ms \div SecondLength) * SecondLength])]

\* A service saves or deletes a document.  A save takes place in a later
\* millisecond than the one its document was last saved in, here or at the peer.
UserWrites(i) ==
    /\ writes < MaxWrites
    /\ writes' = writes + 1
    /\ now' \in {now, now + 1}
    /\ \E d \in Docs, version \in {Missing, [at |-> now', by |-> i]} :
         /\ docs[i][d] # version /\ Put(i, d, version, now')
         /\ version # Missing =>
              TimeOf(docs[i][d]) < now' /\ <<d, now'>> \notin DOMAIN tags[i]
    /\ UNCHANGED <<faults, writer, token, counter, log, logged, dropped, tags, handled,
                   clobbered, syncVars>>

-----------------------------------------------------------------------------
(* The log writer                                                          *)

\* The entry of change n with number seq.  An upsert carries the document as it
\* is now (updateLookup), a delete the second it happened in; an upsert whose
\* document is gone has no project.
EntryOf(i, n, seq) ==
    LET c == changes[i][n]
        op == IF c.version = Missing THEN "delete" ELSE "upsert"
        version == IF op = "delete" THEN Missing ELSE docs[i][c.doc]
        tag == <<c.doc, TimeOf(version)>>
    IN  [seq |-> seq, event |-> Event(i, n), doc |-> c.doc, op |-> op,
         version |-> version,
         at |-> IF op = "delete" THEN c.clusterMs ELSE TimeOf(version),
         hasProject |-> op = "delete" \/ version # Missing,
         origin |-> IF tag \in DOMAIN tags[i] THEN tags[i][tag] ELSE i]

\* Mutants: the number before the increment; a delete without its pre-image.
EntryBeforeIncrement(i, n) == EntryOf(i, n, counter[i])
EntryWithoutPreImage(i, n) ==
    LET e == EntryOf(i, n, counter[i] + 1) IN [e EXCEPT !.hasProject = e.version # Missing]

NewEntry(i, n) == EntryOf(i, n, counter[i] + 1)

\* Mutant: the event id is made of the document and the second.
SameSecond(i, e) ==
    \E f \in log[i] : f.doc = e.doc /\
        changes[i][f.event.n].clusterMs = changes[i][e.event.n].clusterMs

\* The unique index on eventId, which holds the resume token of the change.
AlreadyLogged(i, e) == \E f \in log[i] : f.event = e.event

\* handleChange up to the durable entry.  A replayed change uses up a number.
LogChange(i) ==
    /\ writer[i].step = "next" /\ writer[i].at < Len(changes[i])
    /\ LET e == NewEntry(i, writer[i].at + 1) IN
         /\ log' = IF AlreadyLogged(i, e) THEN log ELSE [log EXCEPT ![i] = @ \cup {e}]
         /\ logged' = logged \cup {f.event : f \in log'[i]}
    /\ counter' = [counter EXCEPT ![i] = @ + 1]
    /\ writer' = [writer EXCEPT ![i].step = "token"]
    /\ UNCHANGED <<now, writes, faults, changes, token, dropped, dataVars, syncVars>>

\* handleChange, after the entry: the resume token is persisted.
PersistToken(i) ==
    /\ writer[i].step = "token"
    /\ token' = [token EXCEPT ![i] = writer[i].at + 1]
    /\ writer' = [writer EXCEPT ![i] = [step |-> "next", at |-> @.at + 1]]
    /\ UNCHANGED <<now, writes, faults, changes, counter, log, logged, dropped, dataVars,
                   syncVars>>

\* handleChange fails, before or after it drew a number; the error is logged only.
SwallowChange(i) ==
    /\ Fault("swallow")
    /\ writer[i].step = "next" /\ writer[i].at < Len(changes[i])
    /\ \E used \in {0, 1} : counter' = [counter EXCEPT ![i] = @ + used]
    /\ writer' = [writer EXCEPT ![i].at = @ + 1]
    /\ dropped' = dropped \cup {Event(i, writer[i].at + 1)}
    /\ UNCHANGED <<now, writes, changes, token, log, logged, dataVars, syncVars>>

\* The change stream ends with another error: the writer stops.
StreamDies(i) ==
    /\ Fault("die")
    /\ writer[i].step = "next"
    /\ writer' = [writer EXCEPT ![i].step = "dead"]
    /\ UNCHANGED <<now, writes, changes, token, counter, log, logged, dropped, dataVars, syncVars>>

\* The stream starts at `at'; without a token that is now.
WatchFrom(i, stored) ==
    LET start == IF stored = NoToken THEN Len(changes[i]) ELSE stored IN
    /\ writer' = [writer EXCEPT ![i] = [step |-> "next", at |-> start]]
    /\ dropped' = dropped \cup IF stored = NoToken
                                THEN {Event(i, n) : n \in 1..Len(changes[i])} \ logged
                                ELSE {}

\* ChangeStreamHistoryLost: the token is dropped and the stream starts afresh.
RestartWithoutToken(i) ==
    /\ Fault("tokenLost")
    /\ writer[i].step = "next"
    /\ token' = [token EXCEPT ![i] = NoToken]
    /\ WatchFrom(i, NoToken)
    /\ UNCHANGED <<now, writes, changes, counter, log, logged, dataVars, syncVars>>

-----------------------------------------------------------------------------
(* Applying entries                                                        *)

Site(a) == IF a \in Handlers THEN Passive ELSE Active
IdleApplier == [step |-> "idle", todo |-> <<>>, through |-> 0, failed |-> 0]
Applying(entries) ==
    [IdleApplier EXCEPT !.step = IF entries = <<>> THEN "done" ELSE "read", !.todo = entries]

\* Mutant: the run of handled entries goes on after a failure.
AdvanceOverFailures(a, terminal) ==
    applier' = [applier EXCEPT ![a] =
        [step |-> IF Len(@.todo) = 1 THEN "done" ELSE "read",
         todo |-> Tail(@.todo),
         through |-> IF terminal THEN Head(@.todo).seq ELSE @.through,
         failed |-> IF ~terminal /\ @.failed = 0 THEN Head(@.todo).seq ELSE @.failed]]

\* The next entry, or the end of the batch: `through' is the last entry of the
\* contiguous run of handled ones, `failed' the first that broke it.
Advance(a, terminal) ==
    applier' = [applier EXCEPT ![a] =
        [step |-> IF Len(@.todo) = 1 THEN "done" ELSE "read",
         todo |-> Tail(@.todo),
         through |-> IF terminal /\ @.failed = 0 THEN Head(@.todo).seq ELSE @.through,
         failed |-> IF ~terminal /\ @.failed = 0 THEN Head(@.todo).seq ELSE @.failed]]

Outbound(event) == event.src = Active
Pending(outbound) ==
    {v \in DOMAIN letters : Outbound(v) = outbound /\ letters[v].status = "pending"}
Resolve(event, status) == [letters EXCEPT ![event].status = status]

\* Mutant: the threshold is never reached.
RecordFailureForever(e) ==
    LET old == IF e.event \in DOMAIN letters THEN letters[e.event]
               ELSE [entry |-> e, attempts |-> 0, status |-> "retrying"]
        attempts == IF old.attempts < MaxAttempts THEN old.attempts + 1 ELSE old.attempts
    IN  Upsert(letters, e.event, [old EXCEPT !.attempts = attempts])

\* recordFailure.  Attempts count up to MAX_APPLY_ATTEMPTS only.
RecordFailure(e) ==
    LET old == IF e.event \in DOMAIN letters THEN letters[e.event]
               ELSE [entry |-> e, attempts |-> 0, status |-> "retrying"]
        attempts == IF old.attempts < MaxAttempts THEN old.attempts + 1 ELSE old.attempts
        status == IF old.status = "retrying" /\ attempts >= MaxAttempts THEN "pending"
                  ELSE old.status
    IN  Upsert(letters, e.event, [entry |-> e, attempts |-> attempts, status |-> status])

Clear(events) ==
    LET gone == {v \in events : letters[v].status = "retrying"}
    IN  [v \in DOMAIN letters \ gone |-> letters[v]]

\* What follows a terminal outcome: the pull forgets the retries of an entry it
\* applied, the replay marks the deadletter.
AfterTerminal(a, e, applied) ==
    letters' = CASE a = Puller /\ applied -> Clear({e.event} \cap DOMAIN letters)
                 [] a = Replayer -> Resolve(e.event, "replayed")
                 [] OTHER -> letters

\* applyEntry up to the read of the local document: the outcomes without a write.
ApplySkips(a) ==
    /\ applier[a].step = "read"
    /\ LET e == Head(applier[a].todo)
           i == Site(a) IN
         /\ \/ e.origin = i
            \/ e.doc \notin Enabled[i]
            \/ e.op = "upsert" /\ e.version = Missing
            \/ ~Applies(TimeOf(docs[i][e.doc]), e.at, i, e.origin)
         /\ handled' = IF e.origin = i THEN handled ELSE handled \cup {e.event}
         /\ AfterTerminal(a, e, FALSE)
    /\ Advance(a, TRUE)
    /\ UNCHANGED <<now, writes, faults, streamVars, docs, tags, clobbered, cursorOut, cursorIn,
                   driver>>

\* applyEntry has read the local document and will write.
ApplyReads(a) ==
    /\ applier[a].step = "read"
    /\ LET e == Head(applier[a].todo)
           i == Site(a) IN
         /\ e.origin # i /\ e.doc \in Enabled[i]
         /\ e.op = "delete" \/ e.version # Missing
         /\ Applies(TimeOf(docs[i][e.doc]), e.at, i, e.origin)
    /\ applier' = [applier EXCEPT ![a].step = "write"]
    /\ UNCHANGED <<now, writes, faults, streamVars, dataVars, cursorOut, cursorIn, letters,
                   driver>>

\* The applied-record, written before the document.
Tagged(i, e) ==
    IF e.op = "delete" THEN tags
    ELSE [tags EXCEPT ![i] = Upsert(@, <<e.doc, e.at>>, e.origin)]

\* The local version has become newer since it was read, or a later entry of
\* the document came first.
TooLate(i, e) ==
    \/ ~Applies(TimeOf(docs[i][e.doc]), e.at, i, e.origin)
    \/ \E v \in handled : v.src = e.event.src /\ v.n > e.event.n /\ changes[v.src][v.n].doc = e.doc

Clobber(i, e) == clobbered' = IF TooLate(i, e) THEN clobbered \cup {e.doc} ELSE clobbered

\* replaceOne or deleteOne, whatever the document has become since it was read.
ApplyWrites(a) ==
    /\ applier[a].step = "write"
    /\ LET e == Head(applier[a].todo)
           i == Site(a) IN
         /\ e.op = "delete" \/ e.doc \notin Poison[i]
         /\ Put(i, e.doc, e.version, now)
         /\ tags' = Tagged(i, e)
         /\ Clobber(i, e)
         /\ handled' = handled \cup {e.event}
         /\ AfterTerminal(a, e, TRUE)
    /\ Advance(a, TRUE)
    /\ UNCHANGED <<now, writes, faults, writer, token, counter, log, logged, dropped, cursorOut,
                   cursorIn, driver>>

\* The write throws (error_transient): always for a poisoned document.
ApplyFails(a) ==
    /\ applier[a].step = "write"
    /\ LET e == Head(applier[a].todo)
           i == Site(a) IN
         /\ \/ e.op = "upsert" /\ e.doc \in Poison[i] /\ UNCHANGED faults
            \/ Fault("fail")
         /\ tags' = Tagged(i, e)
         /\ Clobber(i, e)
         /\ letters' = IF a = Puller THEN RecordFailure(e) ELSE letters
         /\ Advance(a, a = Puller /\ RecordFailure(e)[e.event].status = "pending")
    /\ UNCHANGED <<now, writes, streamVars, docs, handled, cursorOut, cursorIn, driver>>

-----------------------------------------------------------------------------
(* The cycle of the active instance                                        *)

IdleDriver(limit) ==
    [step |-> "idle", limit |-> limit, excluded |-> {}, sent |-> {}, last |-> 0,
     full |-> FALSE, handler |-> Nobody]

\* An entry an instance gives to its peer.
Sendable(i, e) == e.origin = i /\ e.hasProject /\ e.doc \in Enabled[i]

AdvanceOutbound(windowMax, maxSent, through, cursor) ==
    IF maxSent = 0 \/ through >= maxSent THEN windowMax
    ELSE IF through > cursor THEN through ELSE cursor

AdvanceInbound(failed, through, nextSince, cursor) ==
    LET frontier == IF failed = 0 THEN nextSince ELSE through
    IN  IF frontier > cursor THEN frontier ELSE cursor

\* runCycle: the push phase begins with the deadlettered entries it leaves out.
StartCycle ==
    /\ driver.step = "idle"
    /\ driver' = [driver EXCEPT !.step = "push", !.excluded = Pending(TRUE)]
    /\ UNCHANGED <<now, writes, faults, streamVars, dataVars, cursorOut, cursorIn, letters,
                   applier>>

\* The push phase is over; a healthy one restores the batch limit.
ToPull(limit) == driver' = [IdleDriver(limit) EXCEPT !.step = "pull"]
Window == Above(log[Active], cursorOut, driver.limit)
SendSet == {e \in Window : Sendable(Active, e) /\ e.event \notin driver.excluded}

\* The cursor moves; a full window is followed by another, no progress ends the phase.
MoveOutbound(new, full) ==
    /\ cursorOut' = new
    /\ IF new > cursorOut /\ full
       THEN driver' = [IdleDriver(driver.limit) EXCEPT !.step = "push",
                                                      !.excluded = driver.excluded]
       ELSE ToPull(BatchLimit)

NothingToPush ==
    /\ driver.step = "push" /\ SendSet = {}
    /\ IF Window = {} THEN UNCHANGED cursorOut /\ ToPull(BatchLimit)
       ELSE MoveOutbound(AdvanceOutbound(MaxSeq(Window), 0, 0, cursorOut),
                         Cardinality(Window) = driver.limit)
    /\ UNCHANGED <<now, writes, faults, streamVars, dataVars, cursorIn, letters, applier>>

\* The batch reaches the passive instance.
Push(h) ==
    /\ driver.step = "push" /\ SendSet # {}
    /\ applier[h].step = "idle"
    /\ applier' = [applier EXCEPT ![h] = Applying(InSeqOrder(SendSet))]
    /\ driver' = [driver EXCEPT !.step = "sent", !.sent = SendSet, !.handler = h,
                                !.last = MaxSeq(Window),
                                !.full = Cardinality(Window) = driver.limit]
    /\ UNCHANGED <<now, writes, faults, streamVars, dataVars, cursorOut, cursorIn, letters>>

\* The request fails; a batch that is too large (413) halves the limit.
PushRefused ==
    /\ driver.step = "push" /\ SendSet # {}
    /\ \/ Fault("refuse") /\ ToPull(driver.limit)
       \/ Fault("tooLarge") /\ ToPull(IF driver.limit = 1 THEN 1 ELSE driver.limit \div 2)
    /\ UNCHANGED <<now, writes, streamVars, dataVars, cursorOut, cursorIn, letters, applier>>

\* The answer: the first entry that failed is counted, and the cursor follows
\* the contiguous run.
PushAnswered ==
    LET answer == applier[driver.handler]
        maxSent == MaxSeq(driver.sent)
    IN
    /\ driver.step = "sent" /\ answer.step = "done"
    /\ letters' = IF answer.through < maxSent
                  THEN RecordFailure(CHOOSE e \in driver.sent : e.seq = answer.failed)
                  ELSE Clear({v \in DOMAIN letters :
                                Outbound(v) /\ letters[v].entry.seq <= answer.through})
    /\ MoveOutbound(AdvanceOutbound(driver.last, maxSent, answer.through, cursorOut), driver.full)
    /\ applier' = [applier EXCEPT ![driver.handler] = IdleApplier]
    /\ UNCHANGED <<now, writes, faults, streamVars, dataVars, cursorIn>>

\* The request times out or its answer is lost; the handler goes on.
GiveUp ==
    /\ driver.step = "sent"
    /\ Fault("giveUp")
    /\ ToPull(driver.limit)
    /\ UNCHANGED <<now, writes, streamVars, dataVars, cursorOut, cursorIn, letters, applier>>

AnswerUnread(h) ==
    /\ applier[h].step = "done" /\ driver.handler # h
    /\ applier' = [applier EXCEPT ![h] = IdleApplier]
    /\ UNCHANGED <<now, writes, faults, streamVars, dataVars, cursorOut, cursorIn, letters,
                   driver>>

\* servePull and its answer.
PullPage ==
    LET window == Above(log[Passive], cursorIn, BatchLimit)
        page == {e \in window : Sendable(Passive, e)}
    IN
    /\ driver.step = "pull"
    /\ applier' = [applier EXCEPT ![Puller] = Applying(InSeqOrder(page))]
    /\ driver' = [driver EXCEPT !.step = "apply",
                                !.last = IF window = {} THEN cursorIn ELSE MaxSeq(window),
                                !.full = Cardinality(window) = BatchLimit]
    /\ UNCHANGED <<now, writes, faults, streamVars, dataVars, cursorOut, cursorIn, letters>>

PullRefused ==
    /\ driver.step = "pull"
    /\ Fault("refuse")
    /\ driver' = IdleDriver(driver.limit)
    /\ UNCHANGED <<now, writes, streamVars, dataVars, cursorOut, cursorIn, letters, applier>>

PullApplied ==
    LET done == applier[Puller]
        new == AdvanceInbound(done.failed, done.through, driver.last, cursorIn)
    IN
    /\ driver.step = "apply" /\ done.step = "done"
    /\ cursorIn' = new
    /\ driver' = [IdleDriver(driver.limit) EXCEPT
                    !.step = IF new > cursorIn /\ driver.full THEN "pull" ELSE "idle"]
    /\ applier' = [applier EXCEPT ![Puller] = IdleApplier]
    /\ UNCHANGED <<now, writes, faults, streamVars, dataVars, cursorOut, letters>>

-----------------------------------------------------------------------------
(* Administration and faults                                               *)

Replay(event) ==
    /\ "replay" \in Environment
    /\ letters[event].status = "pending" /\ applier[Replayer].step = "idle"
    /\ applier' = [applier EXCEPT ![Replayer] = Applying(<<letters[event].entry>>)]
    /\ UNCHANGED <<now, writes, faults, streamVars, dataVars, cursorOut, cursorIn, letters,
                   driver>>

ReplayEnds ==
    /\ applier[Replayer].step = "done"
    /\ applier' = [applier EXCEPT ![Replayer] = IdleApplier]
    /\ UNCHANGED <<now, writes, faults, streamVars, dataVars, cursorOut, cursorIn, letters,
                   driver>>

Discard(event) ==
    /\ "discard" \in Environment
    /\ letters[event].status = "pending"
    /\ letters' = Resolve(event, "discarded")
    /\ UNCHANGED <<now, writes, faults, streamVars, dataVars, cursorOut, cursorIn, driver,
                   applier>>

\* runGc: the active instance keeps what it has not delivered, the passive one
\* goes by age alone.
CollectLog(i) ==
    /\ Fault("gc")
    /\ \E e \in log[i] :
         LET old == {f \in log[i] : f.seq <= e.seq /\ (i = Active => f.seq <= cursorOut)}
             unsent == {f \in old : i = Passive /\ f.seq > cursorIn}
         IN  /\ log' = [log EXCEPT ![i] = @ \ old]
             /\ dropped' = dropped \cup {f.event : f \in unsent}
    /\ UNCHANGED <<now, writes, changes, writer, token, counter, logged, dataVars, syncVars>>

\* An applied-record reaches the end of its five minutes.
ExpireTag(i) ==
    /\ Fault("expire")
    /\ \E tag \in DOMAIN tags[i] :
         tags' = [tags EXCEPT ![i] = [t \in DOMAIN @ \ {tag} |-> @[t]]]
    /\ UNCHANGED <<now, writes, streamVars, docs, handled, clobbered, syncVars>>

\* The process ends and starts again: what it held in memory is gone.
Restart(i) ==
    /\ Fault("restart")
    /\ WatchFrom(i, token[i])
    /\ applier' = [a \in Appliers |-> IF Site(a) = i THEN IdleApplier ELSE applier[a]]
    /\ CASE i = Active -> driver' = IdleDriver(BatchLimit)
         [] i = Passive /\ driver.step = "sent" -> ToPull(driver.limit)
         [] OTHER -> UNCHANGED driver
    /\ UNCHANGED <<now, writes, changes, token, counter, log, logged, dataVars, cursorOut,
                   cursorIn, letters>>

-----------------------------------------------------------------------------
Init ==
    /\ now = SecondLength /\ writes = 0 /\ faults = 0   \* clusterTime 0 does not occur
    /\ docs = [i \in Instances |-> [d \in Docs |-> Missing]]
    /\ changes = [i \in Instances |-> <<>>]
    /\ writer = [i \in Instances |-> [step |-> "next", at |-> 0]]
    /\ token = [i \in Instances |-> NoToken]
    /\ counter = [i \in Instances |-> 0]
    /\ log = [i \in Instances |-> {}]
    /\ tags = [i \in Instances |-> <<>>]
    /\ cursorOut = 0 /\ cursorIn = 0 /\ letters = <<>>
    /\ driver = IdleDriver(BatchLimit)
    /\ applier = [a \in Appliers |-> IdleApplier]
    /\ logged = {} /\ handled = {} /\ dropped = {} /\ clobbered = {}

Writer(i) == LogChange(i) \/ PersistToken(i)
Cycle ==
    \/ StartCycle \/ NothingToPush \/ PushAnswered \/ PullPage \/ PullApplied
    \/ \E h \in Handlers : Push(h)
Apply(a) == ApplySkips(a) \/ ApplyReads(a) \/ ApplyWrites(a) \/ ApplyFails(a)
Clean == ReplayEnds \/ \E h \in Handlers : AnswerUnread(h)
Disturb ==
    \/ PushRefused \/ GiveUp \/ PullRefused
    \/ \E i \in Instances :
         \/ UserWrites(i) \/ SwallowChange(i) \/ StreamDies(i) \/ RestartWithoutToken(i)
         \/ CollectLog(i) \/ ExpireTag(i) \/ Restart(i)
    \/ \E event \in DOMAIN letters : Replay(event) \/ Discard(event)

Next ==
    \/ \E i \in Instances : Writer(i)
    \/ \E a \in Appliers : Apply(a)
    \/ Cycle \/ Clean \/ Disturb

\* The for-await loop of the log writer, the applyEntry loops and the scheduled
\* cycle each go on while their process runs.
Fairness ==
    /\ \A i \in Instances : WF_vars(Writer(i))
    /\ \A a \in Appliers : WF_vars(Apply(a))
    /\ WF_vars(Cycle) /\ WF_vars(Clean)

Spec == Init /\ [][Next]_vars
FairSpec == Spec /\ Fairness

-----------------------------------------------------------------------------
(* Properties                                                              *)

Versions == [at : Nat \ {0}, by : Instances]
Events == [src : Instances, n : Nat \ {0}]
Entries ==
    [seq : Nat \ {0}, event : Events, doc : Docs, op : {"upsert", "delete"},
     version : Versions \cup {Missing}, at : Nat, hasProject : BOOLEAN, origin : Instances]
Letters == [entry : Entries, attempts : 1..MaxAttempts,
            status : {"retrying", "pending", "replayed", "discarded"}]

\* Every variable has the type its comment gives it.
TypeOK ==
    /\ now \in Nat \ {0} /\ writes \in 0..MaxWrites /\ faults \in 0..MaxFaults
    /\ docs \in [Instances -> [Docs -> Versions \cup {Missing}]]
    /\ changes \in [Instances -> Seq([doc : Docs, version : Versions \cup {Missing},
                                      clusterMs : Nat])]
    /\ writer \in [Instances -> [step : {"next", "token", "dead"}, at : Nat]]
    /\ token \in [Instances -> Nat] /\ counter \in [Instances -> Nat]
    /\ \A i \in Instances : log[i] \subseteq Entries
    /\ cursorOut \in Nat /\ cursorIn \in Nat
    /\ DOMAIN letters \subseteq Events /\ \A v \in DOMAIN letters : letters[v] \in Letters
    /\ driver \in [step : {"idle", "push", "sent", "pull", "apply"}, limit : 1..BatchLimit,
                   excluded : SUBSET Events, sent : SUBSET Entries, last : Nat,
                   full : BOOLEAN, handler : Handlers \cup {Nobody}]
    /\ applier \in [Appliers -> [step : {"idle", "read", "write", "done"}, todo : Seq(Entries),
                                 through : Nat, failed : Nat]]
    /\ logged \cup handled \cup dropped \subseteq Events /\ clobbered \subseteq Docs

\* At least once, in both directions: a cursor has passed an entry for the peer
\* only if the peer finished with it or it is kept as a deadletter.
Settled(event) ==
    event \in handled \/ (event \in DOMAIN letters /\ letters[event].status # "retrying")
CursorOf(i) == IF i = Active THEN cursorOut ELSE cursorIn
NothingSkipped ==
    \A i \in Instances : \A e \in log[i] :
        Sendable(i, e) /\ e.seq <= CursorOf(i) => Settled(e.event)

\* The resume token never gets ahead of the log: whatever the crashes, a change
\* below it has had its entry, unless an error or a lost token passed over it.
\* A change has one entry, and the entries follow the order of the changes.
LogFollowsStream ==
    \A i \in Instances :
        /\ \A n \in 1..token[i] : Event(i, n) \in logged \cup dropped
        /\ \A e, f \in log[i] :
             /\ e.event = f.event => e = f
             /\ e.event.n < f.event.n /\ {e.event, f.event} \cap dropped = {} => e.seq < f.seq

\* Nothing is left to do, on either side.
WriterDone(i) == writer[i].step = "next" /\ writer[i].at = Len(changes[i])
CursorsDone == \A i \in Instances : \A e \in log[i] : e.seq <= CursorOf(i)
Quiet ==
    /\ \A i \in Instances : WriterDone(i)
    /\ CursorsDone /\ driver.step = "idle"
    /\ \A a \in Appliers : applier[a].step = "idle"

\* What users wrote, and the version that wins among them.
ChangesOf(d) ==
    {c \in UNION {{changes[i][n] : n \in 1..Len(changes[i])} : i \in Instances} : c.doc = d}
Newest(d) ==
    CHOOSE v \in {c.version : c \in ChangesOf(d)} : \A c \in ChangesOf(d) :
        c.version.at < v.at \/ (c.version.at = v.at /\ v.by \in {Winner, c.version.by})
Deleted(d) == \E c \in ChangesOf(d) : c.version = Missing

\* Documents whose replication met none of the accidents the code gives up on:
\* a change without an entry, a deadletter, an apply that came too late.
Undisturbed(d) ==
    /\ \A i \in Instances : d \in Enabled[i]
    /\ d \notin clobbered
    /\ \A v \in dropped : changes[v.src][v.n].doc # d
    /\ \A v \in DOMAIN letters : letters[v].entry.doc # d

\* Last write wins converges: when everything has settled, a document nobody
\* deleted is on both sides the newest version any user wrote, also after a tie.
SidesConverge ==
    Quiet => \A d \in Docs :
        Undisturbed(d) /\ ~Deleted(d) /\ ChangesOf(d) # {} =>
            docs[Active][d] = Newest(d) /\ docs[Passive][d] = Newest(d)

\* A deletion is final: when everything has settled, a document whose deletions
\* each fell in a later second than every version of it is on neither side, although
\* applying an older version that is still on its way may have brought it back.
DeletionsHold ==
    Quiet => \A d \in Docs :
        /\ Undisturbed(d) /\ Deleted(d)
        /\ \A b, c \in ChangesOf(d) :
             b.version # Missing /\ c.version = Missing => b.version.at < c.clusterMs
        => \A i \in Instances : docs[i][d] = Missing

\* An entry whose deadletter was resolved before its cursor had passed it is
\* sent and counted again, but never becomes pending a second time.
ResolvedEarly ==
    \E v \in DOMAIN letters :
        letters[v].status \in {"replayed", "discarded"}
        /\ letters[v].entry.seq > CursorOf(v.src)

\* Replication comes to rest: the changes that applying causes do not go back
\* and forth, a poisoned entry does not hold up the others, and a request that
\* fails is repeated, until every change is in a log and the cursors have
\* passed every entry.
Settles ==
    <>[](\/ CursorsDone /\ \A i \in Instances : writer[i].step = "dead" \/ WriterDone(i)
         \/ ResolvedEarly)
=============================================================================
