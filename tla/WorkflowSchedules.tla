-------------------------- MODULE WorkflowSchedules --------------------------
(***************************************************************************)
(* Workflow schedules (workflows/engine/workflow-scheduler.service.ts):    *)
(* every minute each instance of the backend looks for the definitions     *)
(* that are due, computes the slots they have missed and starts a run for  *)
(* a slot unless one is open.  A tick may still be at work when the next   *)
(* one of its instance begins.                                             *)
(*                                                                         *)
(* A slot of a cron trigger is a multiple of Period, one of an interval is *)
(* Period after the last.  Of a run the module keeps whether it is open    *)
(* (queued or running), parked (waiting) or over; its life is the subject  *)
(* of WorkflowEngine.                                                      *)
(***************************************************************************)
EXTENDS Naturals, FiniteSets

CONSTANTS
    Definitions, Instances,
    Ticks,           \* calls of processDueSchedules that may be under way at once
    Kind,            \* [Definitions -> {"cron", "interval"}]
    Period,
    MaxCatchUp,      \* maxCatchUp of the triggers
    User,            \* who starts runs by hand
    MaxTime,         \* bound on the time
    MaxChanges       \* bound on changes, manual starts, parked runs, errors and crashes

VARIABLES
    now,
    def,       \* [Definitions -> [active, lastRunAt, nextRunAt]]
    locks,     \* [Instances -> SUBSET Definitions]: definitionLocks
    tick,      \* [Ticks -> the call of processDueSchedules]
    runs,      \* set of [definition, slot, by, state]
    passed,    \* history, [Definitions -> SUBSET (slots \X Reasons)]: never to be started
    changes

own == <<def, locks, tick, runs, passed, changes>>

Never == 0
Times == 1..(MaxTime + Period)
Reasons == {"overlap", "limit", "first"}
NewDefinition == [active |-> FALSE, lastRunAt |-> Never, nextRunAt |-> Never]
NoTick == [step |-> "idle", on |-> User, at |-> Never, due |-> {},
           read |-> [d \in Definitions |-> Never],
           of |-> CHOOSE d \in Definitions : TRUE, slots |-> {}]

-----------------------------------------------------------------------------
(* scheduler-helpers                                                       *)

\* computeNext.
NextSlot(d, after) ==
    IF Kind[d] = "cron" THEN (after \div Period + 1) * Period ELSE after + Period

\* Mutant: the first check takes the coming slot.
ComingSlot(d, last, at) ==
    IF last = Never THEN {NextSlot(d, at)}
    ELSE {s \in Times : last < s /\ s <= at /\ (IF Kind[d] = "cron" THEN s ELSE s - last) % Period = 0}

\* The slots after last and until at.  Without a last check the code asks for the
\* first slot from one millisecond before its own time on and takes it if it is not
\* later: a slot at that very time, never an earlier one.
Elapsed(d, last, at) ==
    IF last = Never
    THEN {s \in {at} : Kind[d] = "cron" /\ s % Period = 0}
    ELSE {s \in Times : /\ last < s /\ s <= at
                        /\ (IF Kind[d] = "cron" THEN s ELSE s - last) % Period = 0}

\* computeMissedSlots: the earliest MaxCatchUp of them.
MissedSlots(d, last, at) ==
    {s \in Elapsed(d, last, at) : (s - NextSlot(d, last)) \div Period < MaxCatchUp \/ last = Never}

-----------------------------------------------------------------------------
(* WorkflowSchedulerService                                                *)

Due(d) == def[d].active /\ def[d].nextRunAt <= now
OpenRun(d) == \E r \in runs : r.definition = d /\ r.state \in {"open", "resumed"}
IsEarliest(s, S) == s \in S /\ \A u \in S : s <= u

\* A tick of an instance reads the definitions that are due.
Begin(k, i) ==
    /\ tick[k].step = "idle"
    /\ \E d \in Definitions : Due(d)
    /\ tick' = [tick EXCEPT ![k] = [NoTick EXCEPT
            !.step = "next", !.on = i, !.at = now, !.due = {d \in Definitions : Due(d)},
            !.read = [d \in Definitions |-> def[d].lastRunAt]]]
    /\ UNCHANGED <<now, def, locks, runs, passed, changes>>

\* Mutant: no tick looks whether another one is at it.
Unlocked(k, d) == TRUE

Free(k, d) == d \notin locks[tick[k].on]

\* The next definition, unless another tick of the instance is at it.
Take(k, d) ==
    /\ tick[k].step = "next" /\ d \in tick[k].due
    /\ IF Free(k, d)
       THEN /\ locks' = [locks EXCEPT ![tick[k].on] = @ \cup {d}]
            /\ tick' = [tick EXCEPT ![k].step = "check", ![k].of = d,
                                    ![k].slots = MissedSlots(d, tick[k].read[d], tick[k].at)]
       ELSE /\ tick' = [tick EXCEPT ![k].due = @ \ {d}]
            /\ UNCHANGED locks
    /\ UNCHANGED <<now, def, runs, passed, changes>>

\* hasOpenRun: the slot is skipped ...
Check(k) ==
    LET d == tick[k].of IN
    /\ tick[k].step = "check"
    /\ \E slot \in tick[k].slots :
         /\ IsEarliest(slot, tick[k].slots)
         /\ IF OpenRun(d)
            THEN /\ passed' = [passed EXCEPT ![d] = @ \cup {<<slot, "overlap">>}]
                 /\ tick' = [tick EXCEPT ![k].slots = @ \ {slot}]
            ELSE /\ tick' = [tick EXCEPT ![k].step = "start"]
                 /\ UNCHANGED passed
    /\ UNCHANGED <<now, def, locks, runs, changes>>

\* The definition is left as it is: lastRunAt stays, and the next tick tries again.
GiveUp(k) ==
    /\ tick' = [tick EXCEPT ![k].step = "next", ![k].due = @ \ {tick[k].of}, ![k].slots = {}]
    /\ locks' = [locks EXCEPT ![tick[k].on] = @ \ {tick[k].of}]

\* Mutant: no index keeps a second run of the slot out.
NoIndex(d, slot) == FALSE

\* The unique index over definition and slot.
Duplicate(d, slot) == \E r \in runs : r.definition = d /\ r.slot = slot

\* ... or startRun creates its run, once.
Start(k) ==
    LET d == tick[k].of IN
    /\ tick[k].step = "start" /\ def[d].active
    /\ \E slot \in tick[k].slots :
         /\ IsEarliest(slot, tick[k].slots)
         /\ runs' = IF Duplicate(d, slot) THEN runs
                    ELSE runs \cup {[definition |-> d, slot |-> slot, by |-> tick[k].on,
                                     state |-> "open"]}
         /\ tick' = [tick EXCEPT ![k].step = "check", ![k].slots = @ \ {slot}]
    /\ UNCHANGED <<now, def, locks, passed, changes>>

Changed == changes < MaxChanges /\ changes' = changes + 1

\* Mutant: an error is logged, and the next slot comes.
FailureSkipsSlot(k) ==
    /\ tick[k].step = "start"
    /\ IF def[tick[k].of].active THEN Changed ELSE UNCHANGED changes
    /\ \E slot \in tick[k].slots :
         /\ IsEarliest(slot, tick[k].slots)
         /\ tick' = [tick EXCEPT ![k].step = "check", ![k].slots = @ \ {slot}]
    /\ UNCHANGED <<now, def, locks, runs, passed>>

\* startRun throws: the definition is no longer active, or the database fails.
StartFails(k) ==
    /\ tick[k].step = "start"
    /\ IF def[tick[k].of].active THEN Changed ELSE UNCHANGED changes
    /\ GiveUp(k)
    /\ UNCHANGED <<now, def, runs, passed>>

\* The slots are done with: the time of the tick is saved as lastRunAt.  The tick
\* passes over what it has not tried: beyond the limit or, for a definition it has
\* read before any check of it was saved, every slot before its own time.
Save(k) ==
    LET d == tick[k].of  at == tick[k].at  last == tick[k].read[d] IN
    /\ tick[k].step = "check" /\ tick[k].slots = {}
    /\ def' = [def EXCEPT ![d].lastRunAt = at, ![d].nextRunAt = NextSlot(d, at)]
    /\ passed' = [passed EXCEPT ![d] = @ \cup
            (IF last = Never THEN {s \in Times : s < at} \X {"first"}
             ELSE (Elapsed(d, last, at) \ MissedSlots(d, last, at)) \X {"limit"})]
    /\ GiveUp(k)
    /\ UNCHANGED <<now, runs, changes>>

TickOver(k) ==
    /\ tick[k].step = "next" /\ tick[k].due = {}
    /\ tick' = [tick EXCEPT ![k] = NoTick]
    /\ UNCHANGED <<now, def, locks, runs, passed, changes>>

-----------------------------------------------------------------------------
(* Runs, users, crashes and time                                           *)

Becomes(r, state) == runs' = (runs \ {r}) \cup {[r EXCEPT !.state = state]}

\* The engine parks, resumes and ends runs.
RunMoves(r) ==
    /\ \/ r.state = "open" /\ Becomes(r, "parked") /\ Changed
       \/ r.state = "parked" /\ Becomes(r, "resumed") /\ UNCHANGED changes
       \/ r.state # "over" /\ Becomes(r, "over") /\ UNCHANGED changes
    /\ UNCHANGED <<now, def, locks, tick, passed>>

StartManually(d) ==
    /\ def[d].active /\ Changed
    /\ runs' = runs \cup {[definition |-> d, slot |-> Never, by |-> User, state |-> "open"]}
    /\ UNCHANGED <<now, def, locks, tick, passed>>

\* updateDefinition of the status: a definition is activated or paused.
Switch(d) ==
    /\ Changed
    /\ def' = [def EXCEPT ![d].active = ~@]
    /\ UNCHANGED <<now, locks, tick, runs, passed>>

\* An instance is gone with its ticks and locks.
Crash(i) ==
    /\ Changed
    /\ locks' = [locks EXCEPT ![i] = {}]
    /\ tick' = [k \in Ticks |-> IF tick[k].on = i THEN NoTick ELSE tick[k]]
    /\ UNCHANGED <<now, def, runs, passed>>

TimePasses == now < MaxTime /\ now' = now + 1

-----------------------------------------------------------------------------
Init ==
    /\ now = 1
    /\ def = [d \in Definitions |-> NewDefinition]
    /\ locks = [i \in Instances |-> {}]
    /\ tick = [k \in Ticks |-> NoTick]
    /\ runs = {} /\ passed = [d \in Definitions |-> {}] /\ changes = 0

Tick(k) ==
    \/ \E i \in Instances : Begin(k, i)
    \/ \E d \in Definitions : Take(k, d)
    \/ Check(k) \/ Start(k) \/ StartFails(k) \/ Save(k) \/ TickOver(k)
Change ==
    \/ \E r \in runs : RunMoves(r)
    \/ \E d \in Definitions : StartManually(d) \/ Switch(d)
Next ==
    \/ \E k \in Ticks : Tick(k)
    \/ Change
    \/ \E i \in Instances : Crash(i)
    \/ TimePasses /\ UNCHANGED own

Spec == Init /\ [][Next]_<<now, own>>

-----------------------------------------------------------------------------
(* Properties                                                              *)

\* Every variable has the type its comment gives it.
TypeOK ==
    /\ now \in 1..MaxTime
    /\ def \in [Definitions -> [active : BOOLEAN, lastRunAt : 0..now, nextRunAt : {Never} \cup Times]]
    /\ locks \in [Instances -> SUBSET Definitions]
    /\ \A k \in Ticks :
         /\ tick[k].step \in {"idle", "next", "check", "start"}
         /\ tick[k].on \in Instances \cup {User} /\ tick[k].at \in 0..now
         /\ tick[k].due \subseteq Definitions /\ tick[k].of \in Definitions
         /\ tick[k].slots \subseteq 1..tick[k].at
    /\ \A r \in runs : r.definition \in Definitions /\ r.slot \in {Never} \cup Times
    /\ \A d \in Definitions : passed[d] \subseteq Times \X Reasons

\* A slot has one run, however many instances and ticks see it and whichever of
\* them has crashed in the middle.
SlotStartsOnce ==
    \A r, q \in runs :
        r.slot # Never /\ r.slot = q.slot /\ r.definition = q.definition => r = q

\* An instance never has two runs of a definition open that it has started, however
\* long a tick takes; a run that was parked in between does not count.
OneOpenPerInstance ==
    \A r, q \in runs :
        /\ r.slot # Never /\ r.state = "open" /\ q.state = "open"
        /\ r.definition = q.definition /\ r.by = q.by
        => r = q

\* A cron slot that lastRunAt has passed was run, or was passed over for one of three
\* reasons: an open run; the catch-up limit; the tick had read the definition before
\* any check of it was saved, and then computeMissedSlots knows only a slot at the
\* tick's own time.  No error, pause or crash loses another.
NoSlotForgotten ==
    \A d \in Definitions, s \in Times :
        /\ Kind[d] = "cron" /\ s % Period = 0 /\ s <= def[d].lastRunAt
        => Duplicate(d, s) \/ \E why \in Reasons : <<s, why>> \in passed[d]
=============================================================================
