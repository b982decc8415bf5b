---------------------------- MODULE ScheduledWork ----------------------------
(***************************************************************************)
(* The two schedulers of the backend together: RecurringTasks and          *)
(* WorkflowSchedules run in the same instances, follow the same clock and  *)
(* are lost together when an instance crashes.                             *)
(***************************************************************************)
EXTENDS RecurringTasks

CONSTANTS
    Definitions, Ticks, Kind, Period, User,  \* as in WorkflowSchedules
    MaxScheduled     \* bound on the tasks so far and the definitions active at a time

ASSUME KindAssumption == Kind \in [Definitions -> {"cron", "interval"}] /\ User \notin Instances
ASSUME PeriodAssumption == Period \in Nat \ {0} /\ MaxScheduled \in Nat

VARIABLES def, locks, tick, runs, passed

Schedules == INSTANCE WorkflowSchedules

scheduleVars == <<def, locks, tick, runs, passed>>
allVars == <<now, taskVars, scheduleVars>>

SystemInit == Init /\ Schedules!Init

Scheduled == {t \in Tasks : task[t].state # "none"} \cup {d \in Definitions : def[d].active}
WithinBound == Cardinality(Scheduled') <= MaxScheduled

\* The cron of the recurring tasks or a call for one of them.
TaskStep ==
    /\ Change \/ \E i \in Instances : Round(i)
    /\ UNCHANGED scheduleVars /\ WithinBound

\* The cron of the workflow schedules or a call for one of them.
ScheduleStep ==
    /\ Schedules!Change \/ \E k \in Ticks : Schedules!Tick(k)
    /\ UNCHANGED <<task, updates, round, executed, history>> /\ WithinBound

InstanceCrashes(i) == Crash(i) /\ Schedules!Crash(i)

SystemNext ==
    \/ TaskStep
    \/ ScheduleStep
    \/ \E i \in Instances : InstanceCrashes(i)
    \/ TimePasses /\ UNCHANGED <<taskVars, scheduleVars>>

SystemSpec == SystemInit /\ [][SystemNext]_allVars

-----------------------------------------------------------------------------
\* The properties of the schedules, of the instance above.
SchedulesTypeOK == Schedules!TypeOK
SlotStartsOnce == Schedules!SlotStartsOnce
OneOpenPerInstance == Schedules!OneOpenPerInstance
NoSlotForgotten == Schedules!NoSlotForgotten
=============================================================================
