--------------------------- MODULE RecurringTasks ---------------------------
(***************************************************************************)
(* Recurring tasks (recurring-tasks/): every minute each instance of the   *)
(* backend looks for the tasks that are due, claims one after the other    *)
(* and executes the occurrences it has missed.  Meanwhile users change the *)
(* tasks, executions take their time, and an instance may crash.           *)
(*                                                                         *)
(* Time is counted in parts of a day, days in weeks.  The plan of a task   *)
(* has two fields that are changed one without the other: the hour, and    *)
(* the day, which is every day or one of the week; the frequencies that go *)
(* by months are left out.  An execution (a todo, a notification or an     *)
(* agent's turn) either succeeds or throws.  A task started by hand takes  *)
(* no part in the schedule.                                                *)
(***************************************************************************)
EXTENDS Naturals, FiniteSets

CONSTANTS
    Tasks, Instances,
    Day, Week,       \* parts of a day, days of a week
    Every,           \* the day of a daily task
    Days, Hours,     \* those for which a task can be scheduled
    MaxCatchUp,      \* maxCatchUp of the tasks
    MaxTime,         \* bound on the time
    MaxChanges       \* bound on the changes of tasks and on crashes

ASSUME DayAssumption == Day \in Nat \ {0} /\ Hours \subseteq 0..(Day - 1)
ASSUME WeekAssumption ==
    Week \in Nat \ {0} /\ Every \notin Nat /\ Days \subseteq (0..(Week - 1)) \cup {Every}
ASSUME CatchUpAssumption == MaxCatchUp \in Nat \ {0}
ASSUME TimeAssumption == MaxTime \in Nat \ {0} /\ MaxChanges \in Nat

VARIABLES
    now,
    task,      \* [Tasks -> [state, active, day, hour, nextRun]]
    updates,   \* set of calls of update between their read and their write
    changes,   \* number of changes so far
    round,     \* [Instances -> the call of processDueTasks that is under way]
    executed,  \* history, [Tasks -> [times -> Nat]]: executions of each occurrence
    mixed,     \* history, set of tasks: an update wrote on a plan it had not read
    again      \* history, [Tasks -> SUBSET times]: come due before they were written

history == <<mixed, again>>
taskVars == <<task, updates, changes, round, executed, mixed, again>>

Times == 0..(MaxTime + (Week + 1) * Day)
AnyDay == (0..(Week - 1)) \cup {Every}
NoTask == [state |-> "none", active |-> FALSE, day |-> Every, hour |-> 0, nextRun |-> 0]
Resting == [step |-> "idle", at |-> 0, due |-> {}, read |-> [t \in Tasks |-> NoTask], slots |-> {},
            task |-> CHOOSE t \in Tasks : TRUE]

Stored(t) == task[t].state = "stored"

\* A date for a task of that day: any for a daily one, the weekday for a weekly one.
FallsOn(date, day) == day = Every \/ date % Week = day
OnPlan(time, day, hour) == time % Day = hour /\ FallsOn(time \div Day, day)

\* computeNextRunFromDate: at the hour of the task, on its first date from tomorrow on.
NextDate(today, day) ==
    IF day = Every THEN today + 1
    ELSE CHOOSE date \in (today + 1)..(today + Week) : FallsOn(date, day)
NextAfter(time, day, hour) == NextDate(time \div Day, day) * Day + hour

-----------------------------------------------------------------------------
(* RecurringTasksScheduler and processDueTasks                             *)

\* handleCron, unless its last call is still running: the tasks that are due now.
Find(i) ==
    /\ round[i].step = "idle"
    /\ LET due == {t \in Tasks : task[t].active /\ task[t].nextRun <= now} IN
       /\ due # {}
       /\ round' = [round EXCEPT ![i] = [Resting EXCEPT
                !.step = "claim", !.at = now, !.due = due,
                !.read = task]]
    /\ UNCHANGED <<now, task, updates, changes, executed, history>>

\* The occurrences that follow time on the plan that was read: later, on another date.
Following(x, time) ==
    {s \in Times : time < s /\ time \div Day # s \div Day /\ OnPlan(s, x.day, x.hour)}

\* Mutant: as many occurrences as the limit allows, due or not.
UpToLimit(i, t) ==
    LET read == round[i].read[t] IN
    {read.nextRun} \cup
    {s \in Following(read, read.nextRun) :
        Cardinality({u \in Following(read, read.nextRun) : u < s}) + 1 < MaxCatchUp}

\* The occurrences an instance makes up for: nextRun as it was read and the earliest
\* ones that follow it, until the round began.
Missed(i, t) ==
    LET read == round[i].read[t] IN
    {read.nextRun} \cup
    {s \in Following(read, read.nextRun) :
        /\ s <= round[i].at
        /\ Cardinality({u \in Following(read, read.nextRun) : u < s}) + 1 < MaxCatchUp}

\* Mutant: whoever has read the task executes it.
ClaimedAnyway(i, t) == Stored(t) /\ task[t].active

\* findOneAndUpdate finds the task as it was read.
Claimed(i, t) ==
    Stored(t) /\ task[t].active /\ task[t].nextRun = round[i].read[t].nextRun

\* The next task of the round: nextRun is computed, at some time since the round
\* began, and saved before the execution, and only an instance that still finds the
\* nextRun it has read executes the task.
Claim(i, t) ==
    /\ round[i].step = "claim" /\ t \in round[i].due
    /\ IF Claimed(i, t)
       THEN /\ \E at \in round[i].at..now :
                 task' = [task EXCEPT ![t].nextRun =
                              NextAfter(at, round[i].read[t].day, round[i].read[t].hour)]
            /\ round' = [round EXCEPT ![i].step = "execute", ![i].task = t,
                                      ![i].slots = Missed(i, t)]
       ELSE /\ round' = [round EXCEPT ![i].due = @ \ {t}]
            /\ UNCHANGED task
    /\ UNCHANGED <<now, updates, changes, executed, history>>

\* executeTask for the earliest occurrence: it may throw, which is the end of the
\* others.  All but the first read the task again, and stop if it is gone.
Execute(i) ==
    LET t == round[i].task IN
    /\ round[i].step = "execute"
    /\ \E slot \in round[i].slots :
         /\ \A s \in round[i].slots : slot <= s
         /\ Stored(t) \/ slot = round[i].read[t].nextRun
         /\ executed' = [executed EXCEPT ![t][slot] = @ + 1]
         /\ \E left \in {round[i].slots \ {slot}, {}} :
              round' = [round EXCEPT ![i].slots = left]
    /\ UNCHANGED <<now, task, updates, changes, history>>

\* On to the next task.
TaskOver(i) ==
    LET t == round[i].task IN
    /\ round[i].step = "execute"
    /\ \/ round[i].slots = {}
       \/ ~Stored(t) /\ round[i].read[t].nextRun \notin round[i].slots
    /\ round' = [round EXCEPT ![i].step = "claim", ![i].due = @ \ {t}, ![i].slots = {}]
    /\ UNCHANGED <<now, task, updates, changes, executed, history>>

\* The call returns, and handleCron may call it again.
RoundOver(i) ==
    /\ round[i].step = "claim" /\ round[i].due = {}
    /\ round' = [round EXCEPT ![i] = Resting]
    /\ UNCHANGED <<now, task, updates, changes, executed, history>>

-----------------------------------------------------------------------------
(* Users, crashes and time                                                 *)

Changed == changes < MaxChanges /\ changes' = changes + 1

Create(t, day, hour) ==
    /\ task[t].state = "none"
    /\ task' = [task EXCEPT ![t] = [state |-> "stored", active |-> TRUE, day |-> day,
                                    hour |-> hour, nextRun |-> NextAfter(now, day, hour)]]
    /\ UNCHANGED <<now, updates, changes, round, executed, history>>

\* update reads the task and computes nextRun from the fields it is given, among day
\* and hour, and from those it has read.  (Two calls that are alike in all of this
\* are one.)
ReadForUpdate(t, fields, day, hour) ==
    /\ Stored(t) /\ Changed
    /\ "day" \notin fields => day = task[t].day
    /\ "hour" \notin fields => hour = task[t].hour
    /\ updates' = updates \cup {[of |-> t, fields |-> fields,
                                day |-> day, hour |-> hour, nextRun |-> NextAfter(now, day, hour),
                                read |-> [day |-> task[t].day, hour |-> task[t].hour]]}
    /\ UNCHANGED <<now, task, round, executed, history>>

Changes(x, c) ==
    [x EXCEPT !.day = IF "day" \in c.fields THEN c.day ELSE @,
              !.hour = IF "hour" \in c.fields THEN c.hour ELSE @]

\* Mutant: the fields alone.
WriteFields(c) ==
    /\ Stored(c.of)
    /\ task' = [task EXCEPT ![c.of] = Changes(@, c)]
    /\ updates' = updates \ {c}
    /\ UNCHANGED <<now, changes, round, executed, history>>

\* ... and, when the read has come back, writes the given fields and that nextRun,
\* whatever the task has become.
WriteUpdate(c) ==
    LET t == c.of IN
    /\ Stored(t)
    /\ task' = [task EXCEPT ![t] = [Changes(@, c) EXCEPT !.nextRun = c.nextRun]]
    /\ updates' = updates \ {c}
    /\ mixed' = IF [day |-> task[t].day, hour |-> task[t].hour] = c.read THEN mixed
                ELSE mixed \cup {t}
    /\ again' = [again EXCEPT ![t] = @ \cup (c.nextRun..now)]
    /\ UNCHANGED <<now, changes, round, executed>>

\* The task is gone, the call has failed, or its instance has crashed.
UpdateFails(c) ==
    /\ updates' = updates \ {c}
    /\ UNCHANGED <<now, task, changes, round, executed, history>>

\* update of active alone: nextRun stays.
Switch(t) ==
    /\ Stored(t) /\ Changed
    /\ task' = [task EXCEPT ![t].active = ~@]
    /\ UNCHANGED <<now, updates, round, executed, history>>

Remove(t) ==
    /\ Stored(t) /\ Changed
    /\ task' = [task EXCEPT ![t] = [NoTask EXCEPT !.state = "removed"]]
    /\ UNCHANGED <<now, updates, round, executed, history>>

\* An instance is gone with its round.
Crash(i) ==
    /\ Changed
    /\ round' = [round EXCEPT ![i] = Resting]
    /\ UNCHANGED <<now, task, updates, executed, history>>

TimePasses == now < MaxTime /\ now' = now + 1

-----------------------------------------------------------------------------
Init ==
    /\ now = 1
    /\ task = [t \in Tasks |-> NoTask] /\ updates = {} /\ changes = 0
    /\ round = [i \in Instances |-> Resting]
    /\ executed = [t \in Tasks |-> [s \in Times |-> 0]]
    /\ mixed = {} /\ again = [t \in Tasks |-> {}]

Round(i) ==
    Find(i) \/ Execute(i) \/ TaskOver(i) \/ RoundOver(i) \/ \E t \in Tasks : Claim(i, t)
Change ==
    \/ \E t \in Tasks :
         \/ Switch(t) \/ Remove(t)
         \/ \E day \in Days, hour \in Hours :
              \/ Create(t, day, hour)
              \/ \E fields \in SUBSET {"day", "hour"} \ {{}} : ReadForUpdate(t, fields, day, hour)
    \/ \E c \in updates : WriteUpdate(c) \/ UpdateFails(c)
Next ==
    \/ \E i \in Instances : Round(i) \/ Crash(i)
    \/ Change
    \/ TimePasses /\ UNCHANGED taskVars

Spec == Init /\ [][Next]_<<now, taskVars>>

-----------------------------------------------------------------------------
(* Properties                                                              *)

\* Every variable has the type its comment gives it.
TypeOK ==
    /\ now \in 1..MaxTime /\ changes \in 0..MaxChanges
    /\ task \in [Tasks -> [state : {"none", "stored", "removed"}, active : BOOLEAN, day : AnyDay,
                           hour : 0..(Day - 1), nextRun : Times]]
    /\ \A c \in updates : c.of \in Tasks /\ c.nextRun \in Times
    /\ mixed \subseteq Tasks /\ again \in [Tasks -> SUBSET (0..now)]
    /\ \A i \in Instances :
         /\ round[i].step \in {"idle", "claim", "execute"}
         /\ round[i].at \in 0..now /\ round[i].due \subseteq Tasks
         /\ DOMAIN round[i].read = Tasks /\ round[i].slots \subseteq 0..round[i].at
         /\ round[i].step = "execute" => round[i].task \in Tasks
    /\ executed \in [Tasks -> [Times -> Nat]]

\* No occurrence is executed twice, by an instance or by two of them, whatever
\* changes meanwhile and however long an execution takes.  The exception: an update
\* whose write comes so late that the nextRun it has computed is due puts the task
\* back to it, and what has come due since may be executed again.
AtMostOnce == \A t \in Tasks, s \in Times : s \notin again[t] => executed[t][s] <= 1

\* nextRun is an occurrence of the plan the task has now: a round that has read the
\* task before it was rescheduled does not put it back, and an update of one field
\* takes the other as it is.  The exceptions: two updates overlapped, the second
\* one to write had read the plan before the first one changed it; or an update's
\* write came after its nextRun was due.
NextRunFollowsSchedule ==
    \A t \in Tasks :
        Stored(t) /\ t \notin mixed /\ again[t] = {}
        => OnPlan(task[t].nextRun, task[t].day, task[t].hour)
=============================================================================
