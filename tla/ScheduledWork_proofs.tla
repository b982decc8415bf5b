------------------------ MODULE ScheduledWork_proofs ------------------------
(***************************************************************************)
(* The two schedulers in one backend, for any tasks, definitions,          *)
(* instances, plans and changes.  Recurring tasks: no occurrence is        *)
(* executed twice and nextRun lies on the plan of the task, but for        *)
(* updates that are written too late or over one another.                  *)
(* Workflow schedules: a slot has one run, an instance has one open run of *)
(* a definition, and no slot is forgotten.                                 *)
(***************************************************************************)
EXTENDS ScheduledWork, TLAPS

-----------------------------------------------------------------------------
(* Recurring tasks: days *)

LEMMA Division ==
  ASSUME NEW n \in Nat, NEW d \in Nat \ {0}
  PROVE  /\ n \div d \in Nat /\ n % d \in 0..(d - 1)
         /\ n = d * (n \div d) + (n % d)
<1>1. n \div d \in Nat
  BY SMT
<1>2. n % d \in 0..(d - 1)
  BY SMT
<1>3. n = d * (n \div d) + (n % d)
  BY SMT
<1> QED
  BY <1>1, <1>2, <1>3

LEMMA HourOf ==
  ASSUME NEW q \in Nat, NEW d \in Nat \ {0}, NEW h \in 0..(d - 1)
  PROVE  (q * d + h) % d = h
<1> QED
  BY SMTT(60)

LEMMA DateOf ==
  ASSUME NEW q \in Nat, NEW d \in Nat \ {0}, NEW h \in 0..(d - 1)
  PROVE  (q * d + h) \div d = q
<1> QED
  BY SMTT(60)

\* In every week from tomorrow on there is a date for the task.
LEMMA SomeDate ==
  ASSUME NEW q \in Nat, NEW d \in 0..(Week - 1)
  PROVE  \E date \in (q + 1)..(q + Week) : date % Week = d
<1>0. Week \in Nat \ {0}
  BY WeekAssumption
<1> DEFINE k == (q + 1) \div Week
           r == (q + 1) % Week
<1>1. k \in Nat /\ r \in 0..(Week - 1) /\ q + 1 = Week * k + r
  <2>1. \A n \in Nat : /\ n \div Week \in Nat /\ n % Week \in 0..(Week - 1)
                       /\ n = Week * (n \div Week) + (n % Week)
    BY <1>0, Division
  <2>2. q + 1 \in Nat
    OBVIOUS
  <2> QED
    BY <2>1, <2>2, Zenon
<1> HIDE DEF k, r
<1>2. (k * Week + d) % Week = d /\ ((k + 1) * Week + d) % Week = d
  <2>1. \A n \in Nat : (n * Week + d) % Week = d
    BY <1>0, HourOf, Zenon
  <2>2. k \in Nat /\ k + 1 \in Nat
    BY <1>1
  <2> QED
    BY <2>1, <2>2, Zenon
<1>3. /\ k * Week = Week * k /\ (k + 1) * Week = Week * k + Week /\ Week * k \in Nat
  BY <1>0, <1>1
<1> DEFINE w == Week * k
<1>4. /\ (w + d) % Week = d /\ (w + Week + d) % Week = d /\ w \in Nat /\ q + 1 = w + r
  BY <1>1, <1>2, <1>3
<1> HIDE DEF w
<1>5. CASE r <= d
  <2>1. w + d \in (q + 1)..(q + Week)
    BY <1>0, <1>1, <1>4, <1>5
  <2> QED
    BY <1>4, <2>1
<1>6. CASE r > d
  <2>1. w + Week + d \in (q + 1)..(q + Week)
    BY <1>0, <1>1, <1>4, <1>6
  <2> QED
    BY <1>4, <2>1
<1> QED
  BY <1>1, <1>5, <1>6

LEMMA NextDateIs ==
  ASSUME NEW q \in Nat, NEW day \in AnyDay
  PROVE  NextDate(q, day) \in (q + 1)..(q + Week) /\ FallsOn(NextDate(q, day), day)
<1>1. CASE day = Every
  BY <1>1, WeekAssumption DEF NextDate, FallsOn
<1>2. CASE day # Every
  <2>1. day \in 0..(Week - 1)
    BY <1>2 DEF AnyDay
  <2>2. \E date \in (q + 1)..(q + Week) : FallsOn(date, day)
    BY <2>1, SomeDate DEF FallsOn
  <2> QED
    BY <1>2, <2>2 DEF NextDate
<1> QED
  BY <1>1, <1>2

\* The next occurrence is later than time, on its plan, and at most a week and a day
\* ahead.
LEMMA NextOccurrence ==
  ASSUME NEW time \in Nat, NEW day \in AnyDay, NEW h \in 0..(Day - 1)
  PROVE  /\ NextAfter(time, day, h) \in Nat /\ time < NextAfter(time, day, h)
         /\ NextAfter(time, day, h) <= time + (Week + 1) * Day
         /\ OnPlan(NextAfter(time, day, h), day, h)
<1>0. Day \in Nat \ {0} /\ Week \in Nat \ {0}
  BY DayAssumption, WeekAssumption
<1> DEFINE q == time \div Day
           r == time % Day
           date == NextDate(q, day)
           n == NextAfter(time, day, h)
<1>1. q \in Nat /\ r \in 0..(Day - 1) /\ time = Day * q + r
  BY <1>0, Division
<1>2. date \in (q + 1)..(q + Week) /\ FallsOn(date, day)
  BY <1>1, NextDateIs
<1>3. n = date * Day + h
  BY DEF NextAfter
<1> HIDE DEF q, r, date, n
<1>4. PICK e \in 0..(Week - 1) : date = q + 1 + e
  <2>1. date - q - 1 \in 0..(Week - 1) /\ date = q + 1 + (date - q - 1)
    BY <1>0, <1>1, <1>2
  <2> QED
    BY <2>1
<1>5. date * Day = Day * q + Day + Day * e /\ Day * q \in Nat /\ Day * e \in Nat
  BY <1>0, <1>1, <1>4
<1>6. Day * e <= Day * Week - Day /\ (Week + 1) * Day = Day * Week + Day /\ Day * Week \in Nat
  <2>1. Day * Week = Day * e + Day + Day * (Week - 1 - e)
    BY <1>0, <1>4
  <2>2. Day * (Week - 1 - e) \in Nat
    BY <1>0, <1>4
  <2> QED
    BY <1>0, <1>5, <2>1, <2>2
<1>7. n % Day = h /\ n \div Day = date
  <2>1. date \in Nat
    BY <1>1, <1>2
  <2> QED
    BY <1>0, <1>3, <2>1, HourOf, DateOf
<1>8. OnPlan(n, day, h)
  BY <1>2, <1>7 DEF OnPlan
<1> DEFINE dq == Day * q
           de == Day * e
           dw == Day * Week
<1>9. /\ time = dq + r /\ n = dq + Day + de + h /\ dq \in Nat /\ de \in Nat
      /\ de <= dw - Day /\ (Week + 1) * Day = dw + Day /\ dw \in Nat
  BY <1>1, <1>3, <1>5, <1>6
<1> HIDE DEF dq, de, dw
<1>10. n \in Nat /\ time < n /\ n <= time + (Week + 1) * Day
  BY <1>0, <1>1, <1>9
<1> QED
  BY <1>8, <1>10 DEF n

-----------------------------------------------------------------------------
(* Recurring tasks: the invariant *)

TaskType == [state : {"none", "stored", "removed"}, active : BOOLEAN, day : AnyDay,
             hour : 0..(Day - 1), nextRun : Times]
UpdateType == [of : Tasks, fields : SUBSET {"day", "hour"}, day : AnyDay, hour : 0..(Day - 1),
               nextRun : Times, read : [day : AnyDay, hour : 0..(Day - 1)]]
RoundType == [step : {"idle", "claim", "execute"}, at : Nat, due : SUBSET Tasks,
              read : [Tasks -> TaskType], slots : SUBSET Times,
              task : Tasks \cup {CHOOSE t \in Tasks : TRUE}]

Typed ==
  /\ now \in 1..MaxTime /\ changes \in 0..MaxChanges
  /\ task \in [Tasks -> TaskType]
  /\ round \in [Instances -> RoundType]
  /\ executed \in [Tasks -> [Times -> Nat]]
  /\ updates \subseteq UpdateType
  /\ mixed \subseteq Tasks /\ again \in [Tasks -> SUBSET Nat]
  /\ \A t \in Tasks : \A s \in again[t] : s <= now

\* Only a stored task is active.
ActiveStored(x) == x.active => x.state = "stored"

\* A round has read due tasks and makes up for what is past.
RoundInv(r) ==
  /\ r.at <= now
  /\ \A t \in r.due : r.read[t].state = "stored" /\ r.read[t].nextRun <= r.at
  /\ \A s \in r.slots : s <= r.at
  /\ r.step = "execute" => r.task \in Tasks

TaskInv ==
  /\ Typed
  /\ \A t \in Tasks : ActiveStored(task[t])
  /\ \A i \in Instances : RoundInv(round[i])

\* An occurrence of the task that is over: a claim cannot return to it.
Past(t, s) == s <= now /\ (Stored(t) => s < task[t].nextRun)

\* No update has brought the occurrence back.
Fresh(t, s) == s \in Times /\ s \notin again[t]

\* What was executed or is about to be is past, and is so once.
OnceInv ==
  /\ \A t \in Tasks, s \in Times : Fresh(t, s) =>
       executed[t][s] = 0 \/ (executed[t][s] = 1 /\ Past(t, s))
  /\ \A i \in Instances : round[i].step = "execute" =>
       \A s \in round[i].slots :
         Fresh(round[i].task, s) => executed[round[i].task][s] = 0 /\ Past(round[i].task, s)
  /\ \A i, j \in Instances :
       i # j /\ round[i].step = "execute" /\ round[j].step = "execute"
         /\ round[i].task = round[j].task
       => \A s \in round[i].slots \cap round[j].slots : ~Fresh(round[i].task, s)

LEMMA NoTaskTyped == NoTask \in TaskType /\ ActiveStored(NoTask) /\ [NoTask EXCEPT !.state = "removed"] \in TaskType
<1>0. Day \in Nat \ {0} /\ Week \in Nat \ {0} /\ MaxTime \in Nat
  BY DayAssumption, WeekAssumption, TimeAssumption
<1>1. (Week + 1) * Day \in Nat
  BY <1>0
<1>2. 0 \in 0..(Day - 1) /\ 0 \in Times /\ Every \in AnyDay
  BY <1>0, <1>1 DEF Times, AnyDay
<1> QED
  BY <1>2 DEF NoTask, TaskType, ActiveStored

LEMMA RestingTyped == Resting \in RoundType
<1> QED
  BY NoTaskTyped DEF Resting, RoundType

LEMMA RestingInv == ASSUME now \in Nat PROVE RoundInv(Resting)
<1> QED
  BY NoTaskTyped DEF Resting, RoundInv

LEMMA NextTyped ==
  ASSUME Typed, NEW at \in 0..now, NEW day \in AnyDay, NEW h \in 0..(Day - 1)
  PROVE  /\ NextAfter(at, day, h) \in Times /\ at < NextAfter(at, day, h)
         /\ OnPlan(NextAfter(at, day, h), day, h)
<1>1. /\ now \in Nat /\ now <= MaxTime /\ MaxTime \in Nat /\ at \in Nat /\ at <= now
  BY TimeAssumption DEF Typed
<1>2. (Week + 1) * Day \in Nat
  BY DayAssumption, WeekAssumption
<1> DEFINE w == (Week + 1) * Day
           n == NextAfter(at, day, h)
<1>3. n \in Nat /\ at < n /\ n <= at + w /\ OnPlan(n, day, h)
  BY <1>1, NextOccurrence
<1>4. w \in Nat /\ Times = 0..(MaxTime + w)
  BY <1>2 DEF Times
<1> HIDE DEF w, n
<1>5. n \in Times
  BY <1>1, <1>3, <1>4
<1> QED
  BY <1>3, <1>5 DEF n

\* One round becomes x.
LEMMA RoundBecomes ==
  ASSUME TaskInv, NEW i \in Instances, NEW x \in RoundType, round' = [round EXCEPT ![i] = x],
         RoundInv(x), UNCHANGED <<now, task, updates, executed, history>>,
         changes' \in 0..MaxChanges
  PROVE  TaskInv'
<1>1. \A j \in Instances : round'[j] = IF j = i THEN x ELSE round[j]
  BY DEF TaskInv, Typed
<1>2. RoundInv(x)' /\ \A j \in Instances : RoundInv(round[j])'
  BY DEF TaskInv, RoundInv
<1>3. round' \in [Instances -> RoundType]
  BY DEF TaskInv, Typed
<1> QED
  BY <1>1, <1>2, <1>3 DEF TaskInv, Typed, RoundInv, history

\* With it the task its round is about.
LEMMA BothBecome ==
  ASSUME TaskInv, NEW i \in Instances, NEW x \in RoundType, round' = [round EXCEPT ![i] = x],
         NEW t \in Tasks, NEW v \in TaskType, task' = [task EXCEPT ![t] = v],
         RoundInv(x), ActiveStored(v), executed' \in [Tasks -> [Times -> Nat]],
         UNCHANGED <<now, updates, changes, history>>
  PROVE  TaskInv'
<1>1. /\ \A j \in Instances : round'[j] = IF j = i THEN x ELSE round[j]
      /\ \A u \in Tasks : task'[u] = IF u = t THEN v ELSE task[u]
  BY DEF TaskInv, Typed
<1>2. RoundInv(x)' /\ \A j \in Instances : RoundInv(round[j])'
  <2>1. RoundInv(x)'
    BY DEF RoundInv
  <2>2. \A j \in Instances : RoundInv(round'[j])
    BY <1>1 DEF TaskInv
  <2> QED
    BY <2>1, <2>2 DEF RoundInv
<1>3. round' \in [Instances -> RoundType] /\ task' \in [Tasks -> TaskType]
  BY DEF TaskInv, Typed
<1> QED
  BY <1>1, <1>2, <1>3 DEF TaskInv, Typed, ActiveStored, history

\* A round that executes nothing, or no more than before, changes nothing for OnceInv.
LEMMA OnceBecomes ==
  ASSUME TaskInv, OnceInv, NEW i \in Instances, NEW x, round' = [round EXCEPT ![i] = x],
         x.step # "execute", UNCHANGED <<now, task, executed, history>>
  PROVE  OnceInv'
<1>1. \A j \in Instances : round'[j] = IF j = i THEN x ELSE round[j]
  BY DEF TaskInv, Typed
<1> QED
  BY <1>1 DEF OnceInv, Past, Stored, Fresh, history

-----------------------------------------------------------------------------
(* Recurring tasks: the steps of a round *)

LEMMA FindStep ==
  ASSUME TaskInv, OnceInv, NEW i \in Instances, Find(i)
  PROVE  TaskInv' /\ OnceInv'
<1> DEFINE D == {t \in Tasks : task[t].active /\ task[t].nextRun <= now}
           x == [Resting EXCEPT !.step = "claim", !.at = now, !.due = D, !.read = task]
<1>1. now \in Nat /\ task \in [Tasks -> TaskType] /\ D \subseteq Tasks
  BY DEF TaskInv, Typed
<1>2. /\ x \in RoundType /\ x.step = "claim" /\ x.at = now /\ x.due = D /\ x.read = task
      /\ x.slots = {}
  BY <1>1, RestingTyped DEF Resting, RoundType
<1>3. round' = [round EXCEPT ![i] = x] /\ UNCHANGED <<now, task, updates, changes, executed, history>>
  BY Zenon DEF Find
<1>4. \A t \in D : task[t].state = "stored" /\ task[t].nextRun <= now
  BY DEF TaskInv, ActiveStored
<1> HIDE DEF x, D
<1>5. RoundInv(x)
  BY <1>1, <1>2, <1>4 DEF RoundInv, TaskInv
<1>6. changes' \in 0..MaxChanges
  BY <1>3 DEF TaskInv, Typed
<1> QED
  BY <1>2, <1>3, <1>5, <1>6, RoundBecomes, OnceBecomes

\* The round gives up a task: the claim was lost, or the task is done with.
LEMMA DropStep ==
  ASSUME TaskInv, OnceInv, NEW i \in Instances, NEW t, NEW S, S = round[i].slots \/ S = {},
         round' = [round EXCEPT ![i].step = "claim", ![i].due = @ \ {t}, ![i].slots = S],
         UNCHANGED <<now, task, updates, executed, history>>, changes' \in 0..MaxChanges
  PROVE  TaskInv' /\ OnceInv'
<1> DEFINE x == [round[i] EXCEPT !.step = "claim", !.due = @ \ {t}, !.slots = S]
<1>1. round[i] \in RoundType
  BY DEF TaskInv, Typed
<1>2. /\ x \in RoundType /\ x.step = "claim" /\ x.at = round[i].at /\ x.due \subseteq round[i].due
      /\ x.read = round[i].read /\ x.slots \subseteq round[i].slots
  BY <1>1 DEF RoundType
<1>3. round' = [round EXCEPT ![i] = x]
  BY Zenon
<1> HIDE DEF x
<1>4. RoundInv(x)
  BY <1>2 DEF TaskInv, RoundInv
<1> QED
  BY <1>2, <1>3, <1>4, RoundBecomes, OnceBecomes

LEMMA RestStep ==
  ASSUME TaskInv, OnceInv, NEW i \in Instances, round' = [round EXCEPT ![i] = Resting],
         UNCHANGED <<now, task, updates, executed, history>>, changes' \in 0..MaxChanges
  PROVE  TaskInv' /\ OnceInv'
<1>1. now \in Nat
  BY DEF TaskInv, Typed
<1>2. Resting.step # "execute"
  BY DEF Resting
<1> QED
  BY <1>1, <1>2, RestingTyped, RestingInv, RoundBecomes, OnceBecomes

LEMMA ExecuteStep ==
  ASSUME TaskInv, OnceInv, NEW i \in Instances, Execute(i)
  PROVE  TaskInv' /\ OnceInv'
<1> DEFINE t == round[i].task
<1>0. PICK slot \in round[i].slots :
        /\ executed' = [executed EXCEPT ![t][slot] = @ + 1]
        /\ \E left \in {round[i].slots \ {slot}, {}} : round' = [round EXCEPT ![i].slots = left]
  BY DEF Execute
<1>1. PICK left \in {round[i].slots \ {slot}, {}} : round' = [round EXCEPT ![i].slots = left]
  BY <1>0
<1>2. round[i].step = "execute" /\ UNCHANGED <<now, task, updates, changes, history>>
  BY DEF Execute
<1> DEFINE x == [round[i] EXCEPT !.slots = left]
<1>3. round[i] \in RoundType /\ left \subseteq round[i].slots
  BY DEF TaskInv, Typed
<1>4. /\ x \in RoundType /\ x.step = round[i].step /\ x.at = round[i].at /\ x.due = round[i].due
      /\ x.read = round[i].read /\ x.slots = left /\ x.task = round[i].task
  BY <1>3 DEF RoundType
<1>5. round' = [round EXCEPT ![i] = x]
  BY <1>1, Zenon
<1> HIDE DEF x
<1>6. /\ t \in Tasks /\ slot \in Times
      /\ Fresh(t, slot) => executed[t][slot] = 0 /\ Past(t, slot)
  BY <1>2, <1>3 DEF TaskInv, RoundInv, OnceInv, RoundType
<1> HIDE DEF t
<1>7. /\ executed' \in [Tasks -> [Times -> Nat]]
      /\ \A u \in Tasks, s \in Times :
           executed'[u][s] = IF u = t /\ s = slot THEN executed[t][slot] + 1 ELSE executed[u][s]
  BY <1>0, <1>6 DEF TaskInv, Typed
<1>8. \A j \in Instances : round'[j] = IF j = i THEN x ELSE round[j]
  BY <1>5 DEF TaskInv, Typed
<1>9. TaskInv'
  <2>1. RoundInv(x)
    BY <1>2, <1>3, <1>4 DEF TaskInv, RoundInv
  <2>2. task[t] \in TaskType /\ ActiveStored(task[t]) /\ task' = [task EXCEPT ![t] = task[t]]
    BY <1>2, <1>6 DEF TaskInv, Typed
  <2> QED
    BY <1>2, <1>4, <1>5, <1>6, <1>7, <2>1, <2>2, BothBecome
<1>10. OnceInv'
  <2>0. again' = again
    BY <1>2 DEF history
  <2>1. \A u, s : (Past(u, s)' <=> Past(u, s)) /\ (Fresh(u, s)' <=> Fresh(u, s))
    BY <1>2, <2>0 DEF Past, Stored, Fresh
  <2>2. \A u \in Tasks, s \in Times : Fresh(u, s)' =>
          executed'[u][s] = 0 \/ (executed'[u][s] = 1 /\ Past(u, s)')
    BY <1>6, <1>7, <2>1 DEF OnceInv
  <2>3. ASSUME NEW j \in Instances, round'[j].step = "execute", NEW s \in round'[j].slots,
               Fresh(round[j].task, s)'
        PROVE  (executed[round[j].task][s] = 0 /\ Past(round[j].task, s))'
    <3>1. round[j].step = "execute" /\ round'[j].task = round[j].task /\ s \in round[j].slots
      BY <1>2, <1>3, <1>4, <1>8, <2>3
    <3>0. Fresh(round[j].task, s)
      BY <2>0, <2>3, <3>1 DEF Fresh
    <3>2. /\ executed[round[j].task][s] = 0 /\ Past(round[j].task, s)
          /\ round[j].task \in Tasks /\ s \in Times
      BY <3>0, <3>1 DEF OnceInv, TaskInv, Typed, RoundInv, RoundType
    <3>3. ~(round[j].task = t /\ s = slot)
      <4>1. CASE j = i
        BY <1>1, <1>4, <1>8, <2>3, <4>1
      <4>2. CASE j # i
        BY <1>2, <3>0, <3>1, <4>2 DEF OnceInv, t
      <4> QED
        BY <4>1, <4>2
    <3> QED
      BY <1>7, <2>1, <3>1, <3>2, <3>3
  <2>4. ASSUME NEW j \in Instances, NEW k \in Instances, j # k,
               round'[j].step = "execute", round'[k].step = "execute",
               round'[j].task = round'[k].task
        PROVE  \A s \in round'[j].slots \cap round'[k].slots : ~Fresh(round[j].task, s)'
    <3>1. \A m \in Instances : /\ round'[m].step = round[m].step /\ round'[m].task = round[m].task
                              /\ round'[m].slots \subseteq round[m].slots
      BY <1>3, <1>4, <1>8
    <3> QED
      BY <2>0, <2>4, <3>1 DEF OnceInv, Fresh
  <2> QED
    BY <2>2, <2>3, <2>4 DEF OnceInv
<1> QED
  BY <1>9, <1>10

\* What an instance makes up for is later than everything executed or pending.
LEMMA MissedSlots ==
  ASSUME TaskInv, NEW i \in Instances, NEW t \in round[i].due
  PROVE  /\ Missed(i, t) \subseteq Times
         /\ \A s \in Missed(i, t) : round[i].read[t].nextRun <= s /\ s <= round[i].at
<1>1. /\ round[i] \in RoundType /\ t \in Tasks /\ round[i].read[t] \in TaskType
      /\ round[i].read[t].nextRun <= round[i].at
  BY DEF TaskInv, Typed, RoundType, RoundInv
<1>2. round[i].read[t].nextRun \in Times
  BY <1>1 DEF TaskType
<1> QED
  BY <1>1, <1>2 DEF Missed, Following, Times, RoundType

LEMMA ClaimStep ==
  ASSUME TaskInv, OnceInv, NEW i \in Instances, NEW t \in Tasks, Claim(i, t), Claimed(i, t)
  PROVE  TaskInv' /\ OnceInv'
<1>0. PICK at \in round[i].at..now :
        task' = [task EXCEPT ![t].nextRun =
                     NextAfter(at, round[i].read[t].day, round[i].read[t].hour)]
  BY DEF Claim
<1> DEFINE h == round[i].read[t].hour
           n == NextAfter(at, round[i].read[t].day, h)
           v == [task[t] EXCEPT !.nextRun = n]
           x == [round[i] EXCEPT !.step = "execute", !.task = t, !.slots = Missed(i, t)]
<1>1. /\ round[i].step = "claim" /\ t \in round[i].due
      /\ UNCHANGED <<now, updates, changes, executed, history>>
      /\ task' = [task EXCEPT ![t] = v] /\ round' = [round EXCEPT ![i] = x]
  BY <1>0, Zenon DEF Claim
<1>2. /\ round[i] \in RoundType /\ task[t] \in TaskType /\ round[i].read[t] \in TaskType
      /\ h \in 0..(Day - 1) /\ round[i].read[t].day \in AnyDay /\ now \in Nat
      /\ at \in 0..now /\ round[i].at <= at /\ round[i].at \in Nat
  BY DEF TaskInv, Typed, RoundType, TaskType
<1>3. n \in Times /\ at < n
  BY <1>2, NextTyped DEF TaskInv
<1> HIDE DEF n
<1>4. /\ v \in TaskType /\ v.nextRun = n /\ v.state = task[t].state /\ v.active = task[t].active
      /\ v.hour = task[t].hour
  BY <1>2, <1>3 DEF TaskType
<1>5. /\ x \in RoundType /\ x.step = "execute" /\ x.at = round[i].at /\ x.due = round[i].due
      /\ x.read = round[i].read /\ x.slots = Missed(i, t) /\ x.task = t
  BY <1>1, <1>2, MissedSlots DEF RoundType
<1> HIDE DEF v, x
<1>6. /\ \A u \in Tasks : task'[u] = IF u = t THEN v ELSE task[u]
      /\ \A j \in Instances : round'[j] = IF j = i THEN x ELSE round[j]
  BY <1>1, <1>4, <1>5 DEF TaskInv, Typed
<1>7. task[t].nextRun = round[i].read[t].nextRun /\ Stored(t)
  BY <1>1, <1>2 DEF Claimed
<1>8. TaskInv'
  <2>1. ActiveStored(v)
    BY <1>4 DEF ActiveStored, TaskInv
  <2>2. RoundInv(x)
    BY <1>1, <1>5, MissedSlots DEF TaskInv, RoundInv
  <2> QED
    BY <1>1, <1>4, <1>5, <2>1, <2>2, BothBecome DEF TaskInv, Typed
<1>9. OnceInv'
  <2>0. again' = again
    BY <1>1 DEF history
  <2>1. \A s \in Missed(i, t) : s \in Times /\ s <= now /\ s < n /\ task[t].nextRun <= s
    <3>1. \A s \in Missed(i, t) : s \in Times /\ task[t].nextRun <= s /\ s <= round[i].at
      BY <1>1, <1>7, MissedSlots
    <3>2. /\ Times \subseteq Nat /\ n \in Nat
          /\ \A s \in Nat : s <= round[i].at => s <= now /\ s < n
      BY <1>2, <1>3 DEF Times
    <3> QED
      BY <3>1, <3>2
  <2>2. ASSUME NEW u, NEW s \in Times, Past(u, s), u \in Tasks
        PROVE  Past(u, s)'
    <3>1. CASE u = t
      <4>1. s < task[t].nextRun
        BY <1>7, <2>2, <3>1 DEF Past
      <4>2. task[t].nextRun <= round[i].at
        BY <1>1, <1>2, <1>7 DEF TaskInv, RoundInv
      <4>3. s < n
        BY <1>2, <1>3, <4>1, <4>2 DEF Times, TaskType
      <4> QED
        BY <1>1, <1>4, <1>6, <2>2, <3>1, <4>3 DEF Past
    <3>2. CASE u # t
      BY <1>1, <1>6, <2>2, <3>2 DEF Past, Stored
    <3> QED
      BY <3>1, <3>2
  <2>3. \A s \in Missed(i, t) : ~Past(t, s) /\ Past(t, s)'
    <3>1. \A s \in Missed(i, t) : ~Past(t, s)
      BY <1>2, <1>7, <2>1 DEF Past, Times, TaskType
    <3>2. now' = now /\ task'[t].nextRun = n
      BY <1>1, <1>4, <1>6
    <3>3. \A s \in Missed(i, t) : Past(t, s)'
      BY <2>1, <3>2 DEF Past
    <3> QED
      BY <3>1, <3>3
  <2>4. \A s \in Missed(i, t) : Fresh(t, s) => executed[t][s] = 0
    BY <2>1, <2>3 DEF OnceInv
  <2>5. ASSUME NEW j \in Instances, j # i, round[j].step = "execute", NEW s \in round[j].slots,
               Fresh(round[j].task, s)
        PROVE  /\ executed[round[j].task][s] = 0 /\ Past(round[j].task, s)
               /\ Past(round[j].task, s)'
               /\ round[j].task = t => s \notin Missed(i, t)
    <3>1. round[j].task \in Tasks /\ s \in Times
      BY <2>5 DEF TaskInv, Typed, RoundInv, RoundType
    <3>2. executed[round[j].task][s] = 0 /\ Past(round[j].task, s)
      BY <2>5 DEF OnceInv
    <3>3. round'[j] = round[j]
      BY <1>6, <2>5
    <3>4. Past(round[j].task, s)'
      BY <2>2, <3>1, <3>2, <3>3
    <3> QED
      BY <2>3, <3>2, <3>4
  <2>6. \A u \in Tasks, s \in Times : Fresh(u, s)' =>
          executed'[u][s] = 0 \/ (executed'[u][s] = 1 /\ Past(u, s)')
    BY <1>1, <2>0, <2>2 DEF OnceInv, Fresh
  <2>7. ASSUME NEW j \in Instances, round'[j].step = "execute", NEW s \in round'[j].slots,
               Fresh(round[j].task, s)'
        PROVE  (executed[round[j].task][s] = 0 /\ Past(round[j].task, s))'
    <3>0. Fresh(round'[j].task, s)
      BY <2>0, <2>7 DEF Fresh
    <3>1. CASE j = i
      <4>1. round'[j].task = t /\ s \in Missed(i, t)
        BY <1>5, <1>6, <2>7, <3>1
      <4>2. Past(t, s)' /\ executed[t][s] = 0
        BY <2>3, <2>4, <3>0, <4>1
      <4>3. Past(round[j].task, s)'
        BY <4>1, <4>2 DEF Past, Stored
      <4> QED
        BY <1>1, <4>1, <4>2, <4>3
    <3>2. CASE j # i
      <4>1. round'[j] = round[j]
        BY <1>6, <3>2
      <4>2. executed[round[j].task][s] = 0 /\ Past(round[j].task, s)'
        BY <2>5, <2>7, <3>0, <3>2, <4>1
      <4> QED
        BY <1>1, <4>1, <4>2
    <3> QED
      BY <3>1, <3>2
  <2>8. ASSUME NEW j \in Instances, NEW k \in Instances, j # k,
               round'[j].step = "execute", round'[k].step = "execute",
               round'[j].task = round'[k].task
        PROVE  \A s \in round'[j].slots \cap round'[k].slots : ~Fresh(round[j].task, s)'
    <3>1. /\ round'[i].task = t /\ round'[i].slots = Missed(i, t)
          /\ \A m \in Instances : m # i => round'[m] = round[m]
      BY <1>5, <1>6
    <3>2. ASSUME NEW m \in Instances, m # i, round'[m].step = "execute", round'[m].task = t
          PROVE  \A s \in round'[m].slots \cap Missed(i, t) : ~Fresh(t, s)
      BY <2>5, <3>1, <3>2
    <3>3. CASE j # i /\ k # i
      BY <2>0, <2>8, <3>1, <3>3 DEF OnceInv, Fresh
    <3>4. CASE j = i
      BY <2>0, <2>8, <3>1, <3>2, <3>4 DEF Fresh
    <3>5. CASE k = i
      BY <2>0, <2>8, <3>1, <3>2, <3>5 DEF Fresh
    <3> QED
      BY <3>3, <3>4, <3>5
  <2> QED
    BY <2>6, <2>7, <2>8 DEF OnceInv
<1> QED
  BY <1>8, <1>9

LEMMA LostStep ==
  ASSUME TaskInv, OnceInv, NEW i \in Instances, NEW t \in Tasks, Claim(i, t), ~Claimed(i, t)
  PROVE  TaskInv' /\ OnceInv'
<1> DEFINE x == [round[i] EXCEPT !.due = @ \ {t}]
<1>1. round[i].step = "claim" /\ round' = [round EXCEPT ![i] = x]
  BY Zenon DEF Claim
<1>2. round[i] \in RoundType /\ UNCHANGED <<now, task, updates, changes, executed, history>>
  BY DEF Claim, TaskInv, Typed
<1>3. /\ x \in RoundType /\ x.step = "claim" /\ x.at = round[i].at /\ x.due \subseteq round[i].due
      /\ x.read = round[i].read /\ x.slots = round[i].slots
  BY <1>1, <1>2 DEF RoundType
<1> HIDE DEF x
<1>4. RoundInv(x) /\ changes' \in 0..MaxChanges
  BY <1>2, <1>3 DEF TaskInv, RoundInv, Typed
<1> QED
  BY <1>1, <1>2, <1>3, <1>4, RoundBecomes, OnceBecomes

LEMMA RoundStep ==
  ASSUME TaskInv, OnceInv, NEW i \in Instances, Round(i)
  PROVE  TaskInv' /\ OnceInv'
<1>0. changes \in 0..MaxChanges
  BY DEF TaskInv, Typed
<1>1. CASE Find(i)
  BY <1>1, FindStep
<1>2. CASE Execute(i)
  BY <1>2, ExecuteStep
<1>3. CASE TaskOver(i)
  <2>1. /\ round' = [round EXCEPT ![i].step = "claim", ![i].due = @ \ {round[i].task},
                                  ![i].slots = {}]
        /\ UNCHANGED <<now, task, updates, changes, executed, history>>
    BY <1>3 DEF TaskOver
  <2> QED
    BY <1>0, <2>1, DropStep
<1>4. CASE RoundOver(i)
  BY <1>0, <1>4, RestStep DEF RoundOver
<1>5. ASSUME NEW t \in Tasks, Claim(i, t)
      PROVE  TaskInv' /\ OnceInv'
  BY <1>5, ClaimStep, LostStep
<1> QED
  BY <1>1, <1>2, <1>3, <1>4, <1>5 DEF Round

-----------------------------------------------------------------------------
(* Users, crashes, time and the workflow schedules *)

\* A task becomes x, whose next occurrence is the old one or still to come, but for
\* what an update brings back.
LEMMA TaskBecomes ==
  ASSUME TaskInv, OnceInv, NEW t \in Tasks, NEW x \in TaskType, ActiveStored(x),
         task' = [task EXCEPT ![t] = x],
         \A u \in Tasks : again[u] \subseteq again'[u],
         x.state = "stored" /\ ~(Stored(t) /\ x.nextRun = task[t].nextRun)
           => x.nextRun..now \subseteq again'[t],
         UNCHANGED <<now, round, executed>>, changes' \in 0..MaxChanges,
         updates' \subseteq UpdateType, mixed' \subseteq Tasks,
         again' \in [Tasks -> SUBSET Nat], \A u \in Tasks : \A s \in again'[u] : s <= now
  PROVE  TaskInv' /\ OnceInv'
<1>1. \A u \in Tasks : task'[u] = IF u = t THEN x ELSE task[u]
  BY DEF TaskInv, Typed
<1>2. task' \in [Tasks -> TaskType] /\ now \in Nat /\ x.nextRun \in Nat
  BY DEF TaskInv, Typed, TaskType, Times
<1>3. TaskInv'
  BY <1>1, <1>2 DEF TaskInv, Typed, RoundInv
<1>4. ASSUME NEW u \in Tasks, NEW s \in Times, Past(u, s), Fresh(u, s)'
      PROVE  Past(u, s)'
  <2>1. CASE u = t /\ x.state = "stored" /\ ~(Stored(t) /\ x.nextRun = task[t].nextRun)
    <3>1. s \notin x.nextRun..now /\ s <= now /\ s \in Nat
      BY <1>4, <2>1 DEF Fresh, Past, Times
    <3>2. s < x.nextRun
      BY <1>2, <3>1
    <3> QED
      BY <1>1, <1>4, <2>1, <3>2 DEF Past
  <2>2. CASE u = t /\ ~(x.state = "stored" /\ ~(Stored(t) /\ x.nextRun = task[t].nextRun))
    BY <1>1, <1>4, <2>2 DEF Past, Stored
  <2>3. CASE u # t
    BY <1>1, <1>4, <2>3 DEF Past, Stored
  <2> QED
    BY <2>1, <2>2, <2>3
<1>5. \A j \in Instances : round[j].step = "execute" =>
        round[j].task \in Tasks /\ round[j].slots \subseteq Times
  BY DEF TaskInv, Typed, RoundInv, RoundType
<1>6. \A u \in Tasks, s \in Times : Fresh(u, s)' => Fresh(u, s)
  BY DEF Fresh
<1>7. \A j \in Instances : round'[j].step = "execute" => \A s \in round[j].slots :
        Fresh(round[j].task, s)' => (executed[round[j].task][s] = 0 /\ Past(round[j].task, s))'
  BY <1>4, <1>5, <1>6 DEF OnceInv
<1>8. \A u \in Tasks, s \in Times : Fresh(u, s)' =>
        executed'[u][s] = 0 \/ (executed'[u][s] = 1 /\ Past(u, s)')
  BY <1>4, <1>6 DEF OnceInv
<1>9. ASSUME NEW j \in Instances, NEW k \in Instances, j # k,
             round[j].step = "execute", round[k].step = "execute", round[j].task = round[k].task
      PROVE  \A s \in round[j].slots \cap round[k].slots : ~Fresh(round[j].task, s)'
  BY <1>5, <1>6, <1>9 DEF OnceInv
<1> QED
  BY <1>3, <1>7, <1>8, <1>9 DEF OnceInv

\* What leaves the tasks and the clock alone.
LEMMA Elsewhere ==
  ASSUME TaskInv, OnceInv, UNCHANGED <<now, task, round, executed, history>>,
         changes' \in 0..MaxChanges, updates' \subseteq UpdateType
  PROVE  TaskInv' /\ OnceInv'
<1>1. TaskInv'
  BY DEF TaskInv, Typed, RoundInv, history
<1>2. OnceInv'
  BY DEF OnceInv, Past, Stored, Fresh, history
<1> QED
  BY <1>1, <1>2

LEMMA ChangedBound ==
  ASSUME TaskInv, Changed
  PROVE  changes' \in 0..MaxChanges
<1> QED
  BY TimeAssumption DEF TaskInv, Typed, Changed

LEMMA DayOf == Days \subseteq AnyDay /\ Hours \subseteq 0..(Day - 1)
<1> QED
  BY DayAssumption, WeekAssumption DEF AnyDay

LEMMA CreateStep ==
  ASSUME TaskInv, OnceInv, NEW t \in Tasks, NEW day \in Days, NEW hour \in Hours,
         Create(t, day, hour)
  PROVE  TaskInv' /\ OnceInv'
<1> DEFINE n == NextAfter(now, day, hour)
           x == [state |-> "stored", active |-> TRUE, day |-> day, hour |-> hour, nextRun |-> n]
<1>1. /\ task' = [task EXCEPT ![t] = x]
      /\ UNCHANGED <<now, updates, changes, round, executed, history>>
  BY DEF Create
<1>2. hour \in 0..(Day - 1) /\ day \in AnyDay /\ now \in 0..now
  BY DayOf DEF TaskInv, Typed
<1>3. n \in Times /\ now < n
  BY <1>2, NextTyped DEF TaskInv
<1> HIDE DEF n
<1>4. x \in TaskType /\ ActiveStored(x) /\ x.nextRun = n
  BY <1>2, <1>3 DEF TaskType, ActiveStored
<1> HIDE DEF x
<1>5. x.nextRun..now = {}
  BY <1>3, <1>4 DEF TaskInv, Typed, Times
<1> QED
  BY <1>1, <1>4, <1>5, TaskBecomes DEF TaskInv, Typed, history

\* A call of update begins.
LEMMA ReadForUpdateStep ==
  ASSUME TaskInv, OnceInv, NEW t \in Tasks, NEW fields \in SUBSET {"day", "hour"},
         NEW day \in Days, NEW hour \in Hours, ReadForUpdate(t, fields, day, hour)
  PROVE  TaskInv' /\ OnceInv'
<1> DEFINE n == NextAfter(now, day, hour)
           c == [of |-> t, fields |-> fields, day |-> day, hour |-> hour, nextRun |-> n,
                 read |-> [day |-> task[t].day, hour |-> task[t].hour]]
<1>1. /\ updates' = updates \cup {c} /\ Stored(t) /\ Changed
      /\ UNCHANGED <<now, task, round, executed, history>>
  BY DEF ReadForUpdate
<1>2. hour \in 0..(Day - 1) /\ day \in AnyDay /\ now \in 0..now /\ task[t] \in TaskType
  BY DayOf DEF TaskInv, Typed
<1>3. n \in Times
  BY <1>2, NextTyped DEF TaskInv
<1> HIDE DEF n
<1>4. c \in UpdateType
  BY <1>2, <1>3 DEF UpdateType, TaskType
<1> HIDE DEF c
<1>5. updates' \subseteq UpdateType /\ changes' \in 0..MaxChanges
  BY <1>1, <1>4, ChangedBound DEF TaskInv, Typed
<1> QED
  BY <1>1, <1>5, Elsewhere

LEMMA Written ==
  ASSUME TaskInv, NEW c \in updates, WriteUpdate(c)
  PROVE  \E x \in TaskType :
           /\ task' = [task EXCEPT ![c.of] = x] /\ x.state = "stored" /\ x.nextRun = c.nextRun
           /\ x.day = IF "day" \in c.fields THEN c.day ELSE task[c.of].day
           /\ x.hour = IF "hour" \in c.fields THEN c.hour ELSE task[c.of].hour
           /\ c \in UpdateType /\ Stored(c.of)
<1> DEFINE y == Changes(task[c.of], c)
           x == [y EXCEPT !.nextRun = c.nextRun]
<1>1. /\ task' = [task EXCEPT ![c.of] = [Changes(@, c) EXCEPT !.nextRun = c.nextRun]]
      /\ Stored(c.of)
  BY DEF WriteUpdate
<1>2. c \in UpdateType /\ c.of \in Tasks /\ task \in [Tasks -> TaskType]
  BY DEF TaskInv, Typed, UpdateType
<1>3. task' = [task EXCEPT ![c.of] = x]
  BY <1>1, <1>2
<1>4. task[c.of] \in TaskType /\ task[c.of].state = "stored"
  BY <1>1, <1>2 DEF Stored
<1>5. /\ y \in TaskType /\ y.state = "stored"
      /\ y.day = IF "day" \in c.fields THEN c.day ELSE task[c.of].day
      /\ y.hour = IF "hour" \in c.fields THEN c.hour ELSE task[c.of].hour
  BY <1>2, <1>4 DEF TaskType, UpdateType, Changes
<1> HIDE DEF y
<1>6. x \in TaskType /\ x.state = y.state /\ x.day = y.day /\ x.hour = y.hour /\ x.nextRun = c.nextRun
  BY <1>2, <1>5 DEF TaskType, UpdateType
<1> HIDE DEF x
<1> QED
  BY <1>1, <1>2, <1>3, <1>5, <1>6

\* ... and ends: what has come due since it computed nextRun is no longer fresh.
LEMMA WriteUpdateStep ==
  ASSUME TaskInv, OnceInv, NEW c \in updates, WriteUpdate(c)
  PROVE  TaskInv' /\ OnceInv'
<1>1. PICK x \in TaskType :
        /\ task' = [task EXCEPT ![c.of] = x] /\ x.state = "stored" /\ x.nextRun = c.nextRun
        /\ c \in UpdateType
  BY Written
<1>2. /\ updates' = updates \ {c} /\ mixed' \in {mixed, mixed \cup {c.of}}
      /\ again' = [again EXCEPT ![c.of] = @ \cup (c.nextRun..now)]
      /\ UNCHANGED <<now, changes, round, executed>>
  BY DEF WriteUpdate
<1>3. c.of \in Tasks /\ c.nextRun \in Nat /\ now \in Nat
  BY <1>1 DEF UpdateType, Times, TaskInv, Typed
<1>4. /\ updates' \subseteq UpdateType /\ mixed' \subseteq Tasks /\ changes' \in 0..MaxChanges
      /\ ActiveStored(x)
  BY <1>1, <1>2, <1>3 DEF TaskInv, Typed, ActiveStored
<1>5. \A u \in Tasks : again'[u] = IF u = c.of THEN again[u] \cup (c.nextRun..now) ELSE again[u]
  BY <1>2, <1>3 DEF TaskInv, Typed
<1>6. \A s \in c.nextRun..now : s \in Nat /\ s <= now
  BY <1>3
<1>7. /\ again' \in [Tasks -> SUBSET Nat] /\ \A u \in Tasks : \A s \in again'[u] : s <= now
      /\ \A u \in Tasks : again[u] \subseteq again'[u]
      /\ c.nextRun..now \subseteq again'[c.of]
  BY <1>2, <1>3, <1>5, <1>6 DEF TaskInv, Typed
<1> QED
  BY <1>1, <1>2, <1>3, <1>4, <1>7, TaskBecomes

LEMMA UpdateFailsStep ==
  ASSUME TaskInv, OnceInv, NEW c \in updates, UpdateFails(c)
  PROVE  TaskInv' /\ OnceInv'
<1> QED
  BY Elsewhere DEF UpdateFails, TaskInv, Typed

LEMMA SwitchStep ==
  ASSUME TaskInv, OnceInv, NEW t \in Tasks, Switch(t)
  PROVE  TaskInv' /\ OnceInv'
<1> DEFINE x == [task[t] EXCEPT !.active = ~@]
<1>1. task' = [task EXCEPT ![t] = x]
  BY Zenon DEF Switch
<1>2. Stored(t) /\ Changed /\ UNCHANGED <<now, updates, round, executed, history>>
  BY DEF Switch
<1>3. task[t] \in TaskType /\ ActiveStored(task[t])
  BY DEF TaskInv, Typed
<1>4. /\ x \in TaskType /\ x.nextRun = task[t].nextRun /\ x.state = "stored"
  BY <1>2, <1>3 DEF TaskType, Stored
<1> HIDE DEF x
<1>5. ActiveStored(x)
  BY <1>4 DEF ActiveStored
<1> QED
  BY <1>1, <1>2, <1>4, <1>5, TaskBecomes, ChangedBound DEF TaskInv, Typed, history

LEMMA RemoveStep ==
  ASSUME TaskInv, OnceInv, NEW t \in Tasks, Remove(t)
  PROVE  TaskInv' /\ OnceInv'
<1> DEFINE x == [NoTask EXCEPT !.state = "removed"]
<1>1. /\ task' = [task EXCEPT ![t] = x]
      /\ Changed /\ UNCHANGED <<now, updates, round, executed, history>>
  BY DEF Remove
<1>2. x.state = "removed" /\ x.active = FALSE /\ x \in TaskType
  BY NoTaskTyped DEF NoTask
<1> HIDE DEF x
<1> QED
  BY <1>1, <1>2, TaskBecomes, ChangedBound DEF ActiveStored, TaskInv, Typed, history

LEMMA CrashStep ==
  ASSUME TaskInv, OnceInv, NEW i \in Instances, Crash(i)
  PROVE  TaskInv' /\ OnceInv'
<1> QED
  BY RestStep, ChangedBound DEF Crash

LEMMA TimeStep ==
  ASSUME TaskInv, OnceInv, TimePasses,
         UNCHANGED <<task, updates, changes, round, executed, history>>
  PROVE  TaskInv' /\ OnceInv'
<1>1. now \in Nat /\ now' = now + 1 /\ now' \in 1..MaxTime
  BY TimeAssumption DEF TaskInv, Typed, TimePasses
<1>2. TaskInv'
  <2>1. \A j \in Instances : round[j].at \in Nat /\ RoundInv(round[j])
    BY DEF TaskInv, Typed, RoundType
  <2>2. \A j \in Instances : RoundInv(round[j])'
    BY <1>1, <2>1 DEF RoundInv
  <2>3. \A t \in Tasks : again'[t] \subseteq Nat /\ \A s \in again'[t] : s <= now'
    BY <1>1 DEF TaskInv, Typed, history
  <2> QED
    BY <1>1, <2>2, <2>3 DEF TaskInv, Typed, history
<1>3. \A t \in Tasks, s \in Times :
        /\ Past(t, s) => Past(t, s)'
        /\ Fresh(t, s)' <=> Fresh(t, s)
  BY <1>1 DEF Past, Stored, Times, Fresh, history
<1>4. \A j \in Instances : round[j].step = "execute" =>
        round[j].task \in Tasks /\ round[j].slots \subseteq Times
  BY DEF TaskInv, Typed, RoundInv, RoundType
<1>5. \A j \in Instances : round'[j].step = "execute" => \A s \in round[j].slots :
        Fresh(round[j].task, s)' => (executed[round[j].task][s] = 0 /\ Past(round[j].task, s))'
  BY <1>3, <1>4 DEF OnceInv
<1>6. \A t \in Tasks, s \in Times : Fresh(t, s)' =>
        executed'[t][s] = 0 \/ (executed'[t][s] = 1 /\ Past(t, s)')
  BY <1>3 DEF OnceInv
<1>7. \A j, k \in Instances :
        j # k /\ round[j].step = "execute" /\ round[k].step = "execute"
          /\ round[j].task = round[k].task
        => \A s \in round[j].slots \cap round[k].slots : ~Fresh(round[j].task, s)'
  BY <1>3, <1>4 DEF OnceInv
<1> QED
  BY <1>2, <1>5, <1>6, <1>7 DEF OnceInv

LEMMA SchedulesChanged ==
  ASSUME TaskInv, Schedules!Changed
  PROVE  changes' \in 0..MaxChanges
<1> QED
  BY TimeAssumption DEF TaskInv, Typed, Schedules!Changed

LEMMA ScheduleSteps ==
  ASSUME TaskInv, OnceInv, ScheduleStep
  PROVE  TaskInv' /\ OnceInv'
<1>0. changes \in 0..MaxChanges
  BY DEF TaskInv, Typed
<1>1. /\ UNCHANGED <<task, updates, round, executed, history>> /\ updates' \subseteq UpdateType
      /\ Schedules!Change \/ \E k \in Ticks : Schedules!Tick(k)
  BY DEF ScheduleStep, TaskInv, Typed
<1>2. CASE Schedules!Change
  <2>1. now' = now /\ (Schedules!Changed \/ changes' = changes)
    BY <1>2 DEF Schedules!Change, Schedules!RunMoves, Schedules!StartManually, Schedules!Switch
  <2> QED
    BY <1>0, <1>1, <2>1, SchedulesChanged, Elsewhere
<1>3. ASSUME NEW k \in Ticks, Schedules!Tick(k)
      PROVE  TaskInv' /\ OnceInv'
  <2>1. now' = now /\ (Schedules!Changed \/ changes' = changes)
    BY <1>3 DEF Schedules!Tick, Schedules!Begin, Schedules!Take, Schedules!Check, Schedules!Start,
                Schedules!StartFails, Schedules!Save, Schedules!TickOver
  <2> QED
    BY <1>0, <1>1, <2>1, SchedulesChanged, Elsewhere
<1> QED
  BY <1>1, <1>2, <1>3

-----------------------------------------------------------------------------
(* Recurring tasks: the theorems *)

LEMMA Initially == SystemInit => TaskInv /\ OnceInv
<1>1. 1 \in 1..MaxTime /\ 0 \in 0..MaxChanges
  BY TimeAssumption
<1> SUFFICES ASSUME Init PROVE TaskInv /\ OnceInv
  BY DEF SystemInit
<1>2. now = 1 /\ task = [t \in Tasks |-> NoTask] /\ changes = 0
      /\ round = [i \in Instances |-> Resting]
      /\ executed = [t \in Tasks |-> [s \in Times |-> 0]]
      /\ updates = {} /\ mixed = {} /\ again = [t \in Tasks |-> {}]
  BY DEF Init
<1>3. Typed
  BY <1>1, <1>2, NoTaskTyped, RestingTyped DEF Typed
<1>4. TaskInv
  BY <1>2, <1>3, NoTaskTyped, RestingInv DEF TaskInv
<1>5. OnceInv
  BY <1>2 DEF OnceInv, Resting
<1> QED
  BY <1>4, <1>5

LEMMA Step == TaskInv /\ OnceInv /\ [SystemNext]_allVars => TaskInv' /\ OnceInv'
<1> SUFFICES ASSUME TaskInv, OnceInv, [SystemNext]_allVars
             PROVE  TaskInv' /\ OnceInv'
  OBVIOUS
<1>0. changes \in 0..MaxChanges
  BY DEF TaskInv, Typed
<1>1. ASSUME NEW i \in Instances, Round(i)
      PROVE  TaskInv' /\ OnceInv'
  BY <1>1, RoundStep
<1>2. CASE Change
  BY <1>2, CreateStep, ReadForUpdateStep, WriteUpdateStep, UpdateFailsStep, SwitchStep,
     RemoveStep DEF Change
<1>3. CASE ScheduleStep
  BY <1>3, ScheduleSteps
<1>4. ASSUME NEW i \in Instances, InstanceCrashes(i)
      PROVE  TaskInv' /\ OnceInv'
  BY <1>4, CrashStep DEF InstanceCrashes
<1>5. CASE TimePasses /\ UNCHANGED <<taskVars, scheduleVars>>
  BY <1>5, TimeStep DEF taskVars, history
<1>6. CASE UNCHANGED allVars
  BY <1>0, <1>6, Elsewhere DEF allVars, taskVars, history, TaskInv, Typed
<1> QED
  BY <1>1, <1>2, <1>3, <1>4, <1>5, <1>6 DEF SystemNext, TaskStep

LEMMA Invariant == SystemSpec => [](TaskInv /\ OnceInv)
<1> QED
  BY Initially, Step, PTL DEF SystemSpec

\* Every variable of the recurring tasks has its type: what a round has read is a
\* task, and what it makes up for lies before it began.
THEOREM TasksTyped == SystemSpec => []TypeOK
<1>1. TaskInv => TypeOK
  <2> SUFFICES ASSUME TaskInv PROVE TypeOK
    OBVIOUS
  <2>1. \A i \in Instances : round[i] \in RoundType /\ RoundInv(round[i])
    BY DEF TaskInv, Typed
  <2>2. ASSUME NEW i \in Instances
        PROVE  /\ round[i].step \in {"idle", "claim", "execute"}
               /\ round[i].at \in 0..now /\ round[i].due \subseteq Tasks
               /\ DOMAIN round[i].read = Tasks /\ round[i].slots \subseteq 0..round[i].at
               /\ round[i].step = "execute" => round[i].task \in Tasks
    BY <2>1 DEF RoundType, RoundInv, Times, TaskInv, Typed
  <2>3. \A c \in updates : c.of \in Tasks /\ c.nextRun \in Times
    BY DEF TaskInv, Typed, UpdateType
  <2>4. again \in [Tasks -> SUBSET (0..now)]
    <3>1. /\ again \in [Tasks -> SUBSET Nat] /\ now \in Nat
          /\ \A t \in Tasks : \A s \in again[t] : s <= now
      BY DEF TaskInv, Typed
    <3>2. \A t \in Tasks : again[t] \in SUBSET (0..now)
      BY <3>1
    <3> QED
      BY <3>1, <3>2
  <2> QED
    BY <2>2, <2>3, <2>4 DEF TypeOK, TaskInv, Typed, TaskType
<1> QED
  BY <1>1, Invariant, PTL

\* For any tasks, plans, instances and changes: findOneAndUpdate on the nextRun that
\* was read lets one instance have an occurrence, and nextRun comes back to it only
\* where an update is written after the nextRun it had computed.
THEOREM ExecutedOnce == SystemSpec => []AtMostOnce
<1>1. OnceInv => AtMostOnce
  BY DEF OnceInv, AtMostOnce, Fresh
<1> QED
  BY <1>1, Invariant, PTL

-----------------------------------------------------------------------------
(* Recurring tasks: nextRun and the plan *)

\* Stored, and no update that was overtaken has been written.
Kept(t) == Stored(t) /\ t \notin mixed /\ again[t] = {}

\* What a round has read is not later than the task, and where it is the task's
\* nextRun still, the plan is the task's.
ReadInv(r) ==
  \A t \in r.due :
    /\ task[t].state # "none"
    /\ Kept(t) =>
         /\ r.read[t].nextRun <= task[t].nextRun
         /\ r.read[t].nextRun = task[t].nextRun
            => r.read[t].day = task[t].day /\ r.read[t].hour = task[t].hour

\* A call of update has computed nextRun for the plan it will leave, if it finds the
\* one it has read.
UpdateInv(c) ==
  /\ OnPlan(c.nextRun, c.day, c.hour)
  /\ "day" \notin c.fields => c.day = c.read.day
  /\ "hour" \notin c.fields => c.hour = c.read.hour

PlanInv ==
  /\ \A t \in Tasks : Kept(t) => OnPlan(task[t].nextRun, task[t].day, task[t].hour)
  /\ \A i \in Instances : ReadInv(round[i])
  /\ \A c \in updates : UpdateInv(c)

\* The tasks and their histories stay, a round keeps what it has read.
LEMMA PlanRests ==
  ASSUME PlanInv, UNCHANGED <<task, history>>,
         \A i \in Instances : ReadInv(round'[i]), \A c \in updates' : UpdateInv(c)
  PROVE  PlanInv'
<1> QED
  BY DEF PlanInv, ReadInv, UpdateInv, Kept, Stored, history, OnPlan, FallsOn

\* The rounds stay, and a task becomes x, on its plan and with a nextRun later than
\* what any round has read of it.
LEMMA PlanBecomes ==
  ASSUME TaskInv, PlanInv, NEW t \in Tasks, NEW x, task' = [task EXCEPT ![t] = x],
         \A u \in Tasks : u # t => again'[u] = again[u] /\ (u \in mixed' <=> u \in mixed),
         Kept(t)' => OnPlan(x.nextRun, x.day, x.hour),
         \A i \in Instances : \A u \in round'[i].due :
             u \in round[i].due /\ round'[i].read[u] = round[i].read[u],
         x.state # "none" \/ task[t].state = "none",
         \A i \in Instances : t \in round[i].due /\ Kept(t)' =>
             /\ round[i].read[t].nextRun <= x.nextRun
             /\ round[i].read[t].nextRun = x.nextRun
                => round[i].read[t].day = x.day /\ round[i].read[t].hour = x.hour,
         updates' \subseteq updates
  PROVE  PlanInv'
<1>1. \A u \in Tasks : task'[u] = IF u = t THEN x ELSE task[u]
  BY DEF TaskInv, Typed
<1>2. \A u \in Tasks : u # t => (Kept(u)' <=> Kept(u))
  BY <1>1 DEF Kept, Stored
<1>3. \A u \in Tasks : Kept(u)' => OnPlan(task'[u].nextRun, task'[u].day, task'[u].hour)
  BY <1>1, <1>2 DEF PlanInv
<1>4. ASSUME NEW i \in Instances, NEW u \in round'[i].due
      PROVE  /\ task'[u].state # "none"
             /\ Kept(u)' =>
                  /\ round'[i].read[u].nextRun <= task'[u].nextRun
                  /\ round'[i].read[u].nextRun = task'[u].nextRun
                     => /\ round'[i].read[u].day = task'[u].day
                        /\ round'[i].read[u].hour = task'[u].hour
  <2>1. u \in round[i].due /\ round'[i].read[u] = round[i].read[u] /\ u \in Tasks
    BY <1>4 DEF TaskInv, Typed, RoundType
  <2>2. task[u].state # "none"
    BY <2>1 DEF PlanInv, ReadInv
  <2>3. CASE u = t
    BY <1>1, <2>1, <2>2, <2>3
  <2>4. CASE u # t
    BY <1>1, <1>2, <2>1, <2>2, <2>4 DEF PlanInv, ReadInv
  <2> QED
    BY <2>3, <2>4
<1>5. \A i \in Instances : ReadInv(round[i])'
  BY <1>4 DEF ReadInv
<1>6. \A c \in updates' : UpdateInv(c)
  BY DEF PlanInv
<1> QED
  BY <1>3, <1>5, <1>6 DEF PlanInv, UpdateInv

LEMMA PlanClaim ==
  ASSUME TaskInv, PlanInv, NEW i \in Instances, NEW t \in Tasks, Claim(i, t), Claimed(i, t)
  PROVE  PlanInv'
<1>0. PICK at \in round[i].at..now :
        task' = [task EXCEPT ![t].nextRun =
                     NextAfter(at, round[i].read[t].day, round[i].read[t].hour)]
  BY DEF Claim
<1> DEFINE read == round[i].read[t]
           n == NextAfter(at, read.day, read.hour)
           v == [task[t] EXCEPT !.nextRun = n]
<1>1. /\ t \in round[i].due /\ UNCHANGED <<now, updates, history>>
      /\ task' = [task EXCEPT ![t] = v]
      /\ round' = [round EXCEPT ![i].step = "execute", ![i].task = t, ![i].slots = Missed(i, t)]
  BY <1>0, Zenon DEF Claim
<1>2. /\ round[i] \in RoundType /\ task[t] \in TaskType /\ read \in TaskType
      /\ read.hour \in 0..(Day - 1) /\ read.day \in AnyDay /\ now \in Nat
      /\ at \in 0..now /\ round[i].at <= at /\ round[i].at \in Nat /\ read.nextRun \in Nat
  <2>1. round[i] \in RoundType /\ task[t] \in TaskType /\ now \in Nat
    BY DEF TaskInv, Typed
  <2>2. read \in TaskType /\ round[i].at \in Nat
    BY <2>1 DEF RoundType
  <2>3. read.hour \in 0..(Day - 1) /\ read.day \in AnyDay /\ read.nextRun \in Nat
    BY <2>2 DEF TaskType, Times
  <2>4. at \in 0..now /\ round[i].at <= at
    BY <1>0, <2>1, <2>2
  <2> QED
    BY <2>1, <2>2, <2>3, <2>4
<1>3. n \in Times /\ at < n /\ OnPlan(n, read.day, read.hour)
  BY <1>2, NextTyped DEF TaskInv
<1>4. task[t].nextRun = read.nextRun /\ Stored(t) /\ read.nextRun <= round[i].at
  BY <1>1 DEF Claimed, TaskInv, RoundInv
<1> HIDE DEF n
<1>5. /\ v.nextRun = n /\ v.state = "stored" /\ v.day = task[t].day /\ v.hour = task[t].hour
  BY <1>2, <1>4 DEF TaskType, Stored
<1>6. Kept(t)' => Kept(t)
  BY <1>1, <1>4 DEF Kept, history
<1>7. Kept(t) => read.day = task[t].day /\ read.hour = task[t].hour
  BY <1>1, <1>4 DEF PlanInv, ReadInv
<1> HIDE DEF v
<1>8. Kept(t)' => OnPlan(v.nextRun, v.day, v.hour)
  BY <1>3, <1>5, <1>6, <1>7
<1>9. ASSUME NEW j \in Instances, t \in round[j].due, Kept(t)'
      PROVE  round[j].read[t].nextRun <= v.nextRun /\ round[j].read[t].nextRun # v.nextRun
  <2>1. round[j].read[t].nextRun <= task[t].nextRun /\ round[j].read[t].nextRun \in Nat
    BY <1>6, <1>9 DEF PlanInv, ReadInv, TaskInv, Typed, RoundType, TaskType, Times
  <2>2. n \in Nat
    BY <1>3 DEF Times
  <2> QED
    BY <1>2, <1>3, <1>4, <1>5, <2>1, <2>2
<1>10. \A j \in Instances : \A u \in round'[j].due :
          u \in round[j].due /\ round'[j].read[u] = round[j].read[u]
  BY <1>1 DEF TaskInv, Typed, RoundType
<1>11. \A u \in Tasks : again'[u] = again[u] /\ (u \in mixed' <=> u \in mixed)
  BY <1>1 DEF history
<1> QED
  BY <1>1, <1>5, <1>8, <1>9, <1>10, <1>11, PlanBecomes

\* A round reads the tasks, or keeps a part of what it has read.
LEMMA PlanRound ==
  ASSUME TaskInv, PlanInv, NEW i \in Instances, NEW x, round' = [round EXCEPT ![i] = x],
         UNCHANGED <<task, updates, history>>,
         \/ x.due \subseteq round[i].due /\ x.read = round[i].read
         \/ x.due \subseteq {t \in Tasks : Stored(t)} /\ x.read = task
         \/ x.due = {}
  PROVE  PlanInv'
<1>1. \A j \in Instances : round'[j] = IF j = i THEN x ELSE round[j]
  BY DEF TaskInv, Typed
<1>2. ReadInv(x)
  <2>1. \A t \in Tasks : task[t].nextRun <= task[t].nextRun
    BY DEF TaskInv, Typed, TaskType, Times
  <2> QED
    BY <2>1 DEF ReadInv, PlanInv, Stored
<1>3. \A j \in Instances : ReadInv(round'[j])
  BY <1>1, <1>2 DEF PlanInv
<1>4. \A c \in updates' : UpdateInv(c)
  BY DEF PlanInv
<1> QED
  BY <1>3, <1>4, PlanRests

LEMMA PlanRoundStep ==
  ASSUME TaskInv, PlanInv, NEW i \in Instances, Round(i)
  PROVE  PlanInv'
<1>0. round \in [Instances -> RoundType]
  BY DEF TaskInv, Typed
<1>1. CASE Find(i)
  <2> DEFINE D == {t \in Tasks : task[t].active /\ task[t].nextRun <= now}
             x == [Resting EXCEPT !.step = "claim", !.at = now, !.due = D, !.read = task]
  <2>1. round' = [round EXCEPT ![i] = x] /\ UNCHANGED <<task, updates, history>>
    BY <1>1, Zenon DEF Find
  <2>2. x.due = D /\ x.read = task
    BY DEF Resting
  <2>3. D \subseteq {t \in Tasks : Stored(t)}
    BY DEF TaskInv, ActiveStored, Stored
  <2> HIDE DEF x, D
  <2> QED
    BY <2>1, <2>2, <2>3, PlanRound
<1>2. CASE Execute(i)
  <2>1. PICK left : round' = [round EXCEPT ![i].slots = left]
    BY <1>2 DEF Execute
  <2> DEFINE x == [round[i] EXCEPT !.slots = left]
  <2>2. round' = [round EXCEPT ![i] = x] /\ UNCHANGED <<task, updates, history>>
    BY <1>2, <2>1, Zenon DEF Execute
  <2>3. x.due \subseteq round[i].due /\ x.read = round[i].read
    BY <1>0 DEF RoundType
  <2> HIDE DEF x
  <2> QED
    BY <2>2, <2>3, PlanRound
<1>3. CASE TaskOver(i)
  <2> DEFINE x == [round[i] EXCEPT !.step = "claim", !.due = @ \ {round[i].task}, !.slots = {}]
  <2>1. round' = [round EXCEPT ![i] = x] /\ UNCHANGED <<task, updates, history>>
    BY <1>3, Zenon DEF TaskOver
  <2>2. x.due \subseteq round[i].due /\ x.read = round[i].read
    BY <1>0 DEF RoundType
  <2> HIDE DEF x
  <2> QED
    BY <2>1, <2>2, PlanRound
<1>4. CASE RoundOver(i)
  BY <1>4, PlanRound DEF RoundOver, Resting
<1>5. ASSUME NEW t \in Tasks, Claim(i, t)
      PROVE  PlanInv'
  <2>1. CASE ~Claimed(i, t)
    <3> DEFINE x == [round[i] EXCEPT !.due = @ \ {t}]
    <3>1. round' = [round EXCEPT ![i] = x] /\ UNCHANGED <<task, updates, history>>
      BY <1>5, <2>1, Zenon DEF Claim
    <3>2. x.due \subseteq round[i].due /\ x.read = round[i].read
      BY <1>0 DEF RoundType
    <3> HIDE DEF x
    <3> QED
      BY <3>1, <3>2, PlanRound
  <2> QED
    BY <1>5, <2>1, PlanClaim
<1> QED
  BY <1>1, <1>2, <1>3, <1>4, <1>5 DEF Round

LEMMA PlanCreate ==
  ASSUME TaskInv, PlanInv, NEW t \in Tasks, NEW day \in Days, NEW hour \in Hours,
         Create(t, day, hour)
  PROVE  PlanInv'
<1> DEFINE n == NextAfter(now, day, hour)
           x == [state |-> "stored", active |-> TRUE, day |-> day, hour |-> hour, nextRun |-> n]
<1>1. /\ task' = [task EXCEPT ![t] = x] /\ task[t].state = "none"
      /\ UNCHANGED <<updates, round, history>>
  BY DEF Create
<1>2. OnPlan(n, day, hour)
  <2>1. hour \in 0..(Day - 1) /\ day \in AnyDay /\ now \in 0..now
    BY DayOf DEF TaskInv, Typed
  <2> QED
    BY <2>1, NextTyped DEF TaskInv
<1> HIDE DEF n
<1>3. x.nextRun = n /\ x.day = day /\ x.hour = hour
  OBVIOUS
<1> HIDE DEF x
<1>4. \A i \in Instances : t \notin round[i].due
  BY <1>1 DEF PlanInv, ReadInv
<1>5. \A u \in Tasks : again'[u] = again[u] /\ (u \in mixed' <=> u \in mixed)
  BY <1>1 DEF history
<1> QED
  BY <1>1, <1>2, <1>3, <1>4, <1>5, PlanBecomes

LEMMA PlanRead ==
  ASSUME TaskInv, PlanInv, NEW t \in Tasks, NEW fields \in SUBSET {"day", "hour"},
         NEW day \in Days, NEW hour \in Hours, ReadForUpdate(t, fields, day, hour)
  PROVE  PlanInv'
<1> DEFINE n == NextAfter(now, day, hour)
           c == [of |-> t, fields |-> fields, day |-> day, hour |-> hour, nextRun |-> n,
                 read |-> [day |-> task[t].day, hour |-> task[t].hour]]
<1>1. /\ updates' = updates \cup {c} /\ UNCHANGED <<task, round, history>>
      /\ "day" \notin fields => day = task[t].day
      /\ "hour" \notin fields => hour = task[t].hour
  BY DEF ReadForUpdate
<1>2. OnPlan(n, day, hour)
  <2>1. hour \in 0..(Day - 1) /\ day \in AnyDay /\ now \in 0..now
    BY DayOf DEF TaskInv, Typed
  <2> QED
    BY <2>1, NextTyped DEF TaskInv
<1> HIDE DEF n
<1>3. UpdateInv(c)
  BY <1>1, <1>2 DEF UpdateInv
<1> HIDE DEF c
<1>4. \A e \in updates' : UpdateInv(e)
  BY <1>1, <1>3 DEF PlanInv
<1>5. \A i \in Instances : ReadInv(round'[i])
  BY <1>1 DEF PlanInv
<1> QED
  BY <1>1, <1>4, <1>5, PlanRests

\* An update that finds the plan it has read, in time, leaves nextRun on the plan.
LEMMA PlanWrite ==
  ASSUME TaskInv, PlanInv, NEW c \in updates, WriteUpdate(c)
  PROVE  PlanInv'
<1>0. c.of \in Tasks
  BY DEF TaskInv, Typed, UpdateType
<1> PICK t \in Tasks : t = c.of
  BY <1>0
<1>1. PICK x \in TaskType :
        /\ task' = [task EXCEPT ![t] = x] /\ x.state = "stored" /\ x.nextRun = c.nextRun
        /\ x.day = IF "day" \in c.fields THEN c.day ELSE task[t].day
        /\ x.hour = IF "hour" \in c.fields THEN c.hour ELSE task[t].hour
        /\ c \in UpdateType /\ Stored(t)
  BY Written
<1>2. /\ updates' = updates \ {c}
      /\ mixed' = IF [day |-> task[t].day, hour |-> task[t].hour] = c.read THEN mixed
                  ELSE mixed \cup {t}
      /\ again' = [again EXCEPT ![t] = @ \cup (c.nextRun..now)]
      /\ UNCHANGED <<now, round>>
  BY DEF WriteUpdate
<1>3. c.nextRun \in Nat /\ now \in Nat
  BY <1>1 DEF UpdateType, Times, TaskInv, Typed
<1>4. \A u \in Tasks : again'[u] = IF u = t THEN again[u] \cup (c.nextRun..now) ELSE again[u]
  BY <1>2, <1>3 DEF TaskInv, Typed
<1>5. ASSUME Kept(t)'
      PROVE  /\ now < c.nextRun
             /\ x.day = c.day /\ x.hour = c.hour
  <2>1. again'[t] = {} /\ t \notin mixed'
    BY <1>5 DEF Kept
  <2>2. now \notin c.nextRun..now
    BY <1>3, <1>4, <2>1
  <2>3. c.read.day = task[t].day /\ c.read.hour = task[t].hour
    BY <1>2, <2>1
  <2>4. x.day = c.day /\ x.hour = c.hour
    BY <1>1, <2>3 DEF PlanInv, UpdateInv
  <2> QED
    BY <1>3, <2>2, <2>4
<1>6. Kept(t)' => OnPlan(x.nextRun, x.day, x.hour)
  BY <1>1, <1>5 DEF PlanInv, UpdateInv
<1>7. ASSUME NEW i \in Instances, t \in round[i].due, Kept(t)'
      PROVE  round[i].read[t].nextRun <= x.nextRun /\ round[i].read[t].nextRun # x.nextRun
  <2>1. round[i].read[t].nextRun \in Nat /\ round[i].at \in Nat
    BY <1>3 DEF TaskInv, Typed, RoundType, TaskType, Times
  <2>2. round[i].read[t].nextRun <= round[i].at /\ round[i].at <= now
    BY <1>7 DEF TaskInv, RoundInv
  <2> QED
    BY <1>1, <1>3, <1>5, <1>7, <2>1, <2>2
<1>8. \A u \in Tasks : u # t => again'[u] = again[u] /\ (u \in mixed' <=> u \in mixed)
  BY <1>2, <1>4
<1>9. /\ \A i \in Instances : \A u \in round'[i].due :
           u \in round[i].due /\ round'[i].read[u] = round[i].read[u]
      /\ updates' \subseteq updates /\ x.state # "none"
  BY <1>1, <1>2
<1>10. \A i \in Instances : t \in round[i].due /\ Kept(t)' =>
          /\ round[i].read[t].nextRun <= x.nextRun
          /\ round[i].read[t].nextRun = x.nextRun
             => round[i].read[t].day = x.day /\ round[i].read[t].hour = x.hour
  BY <1>7
<1> QED
  BY <1>1, <1>3, <1>6, <1>8, <1>9, <1>10, PlanBecomes

\* A task is switched on or off, or removed.
LEMMA PlanSame ==
  ASSUME TaskInv, PlanInv, NEW t \in Tasks, Switch(t) \/ Remove(t)
  PROVE  PlanInv'
<1>0. task[t] \in TaskType /\ UNCHANGED <<updates, round, history>> /\ Stored(t)
  BY DEF Switch, Remove, TaskInv, Typed
<1>1. \A u \in Tasks : u # t => again'[u] = again[u] /\ (u \in mixed' <=> u \in mixed)
  BY <1>0 DEF history
<1>2. CASE Switch(t)
  <2>1. task' = [task EXCEPT ![t].active = ~@]
    BY <1>2 DEF Switch
  <2>2. \A u \in Tasks :
          /\ task'[u].state = task[u].state /\ task'[u].nextRun = task[u].nextRun
          /\ task'[u].day = task[u].day /\ task'[u].hour = task[u].hour
    BY <2>1 DEF TaskInv, Typed, TaskType
  <2>3. \A u \in Tasks : Kept(u)' <=> Kept(u)
    BY <1>0, <2>2 DEF Kept, Stored, history
  <2>4. \A u \in Tasks : Kept(u)' => OnPlan(task'[u].nextRun, task'[u].day, task'[u].hour)
    BY <2>2, <2>3 DEF PlanInv
  <2>5. \A i \in Instances : round[i].due \subseteq Tasks
    BY DEF TaskInv, Typed, RoundType
  <2>6. \A i \in Instances : ReadInv(round[i])'
    BY <1>0, <2>2, <2>3, <2>5 DEF PlanInv, ReadInv
  <2>7. \A c \in updates' : UpdateInv(c)
    BY <1>0 DEF PlanInv
  <2> QED
    BY <2>4, <2>6, <2>7 DEF PlanInv, UpdateInv
<1>3. CASE Remove(t)
  <2> DEFINE x == [NoTask EXCEPT !.state = "removed"]
  <2>1. task' = [task EXCEPT ![t] = x]
    BY <1>3 DEF Remove
  <2>2. x.state = "removed"
    BY DEF NoTask
  <2> HIDE DEF x
  <2>3. task'[t] = x
    BY <2>1 DEF TaskInv, Typed
  <2>4. ~Kept(t)'
    BY <2>2, <2>3 DEF Kept, Stored
  <2> QED
    BY <1>0, <1>1, <2>1, <2>2, <2>4, PlanBecomes
<1> QED
  BY <1>2, <1>3

LEMMA PlanElsewhere ==
  ASSUME PlanInv, UNCHANGED <<task, round, history>>, updates' \subseteq updates
  PROVE  PlanInv'
<1>1. \A i \in Instances : ReadInv(round'[i])
  BY DEF PlanInv
<1>2. \A c \in updates' : UpdateInv(c)
  BY DEF PlanInv
<1> QED
  BY <1>1, <1>2, PlanRests

LEMMA PlanStep == TaskInv /\ PlanInv /\ [SystemNext]_allVars => PlanInv'
<1> SUFFICES ASSUME TaskInv, PlanInv, [SystemNext]_allVars
             PROVE  PlanInv'
  OBVIOUS
<1>1. ASSUME NEW i \in Instances, Round(i)
      PROVE  PlanInv'
  BY <1>1, PlanRoundStep
<1>2. CASE Change
  <2>1. ASSUME NEW c \in updates, UpdateFails(c)
        PROVE  PlanInv'
    BY <2>1, PlanElsewhere DEF UpdateFails
  <2> QED
    BY <1>2, <2>1, PlanCreate, PlanRead, PlanWrite, PlanSame DEF Change
<1>3. CASE ScheduleStep
  BY <1>3, PlanElsewhere DEF ScheduleStep
<1>4. ASSUME NEW i \in Instances, InstanceCrashes(i)
      PROVE  PlanInv'
  BY <1>4, PlanRound DEF InstanceCrashes, Crash, Resting
<1>5. CASE TimePasses /\ UNCHANGED <<taskVars, scheduleVars>>
  BY <1>5, PlanElsewhere DEF taskVars, history
<1>6. CASE UNCHANGED allVars
  BY <1>6, PlanElsewhere DEF allVars, taskVars, history
<1> QED
  BY <1>1, <1>2, <1>3, <1>4, <1>5, <1>6 DEF SystemNext, TaskStep

LEMMA PlanInit == SystemInit => PlanInv
<1> QED
  BY DEF SystemInit, Init, PlanInv, Kept, Stored, NoTask, Resting, ReadInv

\* Whoever changes a task between the reading of a round and its claim, one field or
\* all, nextRun lies on the plan of the task, until an update is written on a plan it
\* had not read or after the nextRun it had computed: of two overlapping updates the
\* later write keeps the fields of the earlier one, but not its nextRun.
THEOREM FollowsSchedule == SystemSpec => []NextRunFollowsSchedule
<1>1. PlanInv => NextRunFollowsSchedule
  BY DEF PlanInv, Kept, NextRunFollowsSchedule
<1>2. SystemSpec => []PlanInv
  BY PlanInit, PlanStep, Invariant, PTL DEF SystemSpec
<1> QED
  BY <1>1, <1>2, PTL

-----------------------------------------------------------------------------
(* Workflow schedules: the invariant.  Its parts are about one tick or one  *)
(* set of runs, so that they speak of the state after a step as well as of  *)
(* the one before.                                                          *)

Slots == Schedules!Times
Lapses == Slots \X Schedules!Reasons
DefinitionType == [active : BOOLEAN, lastRunAt : Nat, nextRunAt : Nat]
TickType == [step : {"idle", "next", "check", "start"}, on : Instances \cup {User}, at : Nat,
             due : SUBSET Definitions, read : [Definitions -> Nat],
             of : Definitions \cup {CHOOSE d \in Definitions : TRUE}, slots : SUBSET Slots]
RunType == [definition : Definitions, slot : {0} \cup Slots, by : Instances \cup {User},
            state : {"open", "parked", "resumed", "over"}]

SlotsTyped ==
  /\ now \in 1..MaxTime
  /\ def \in [Definitions -> DefinitionType]
  /\ locks \in [Instances -> SUBSET Definitions]
  /\ tick \in [Ticks -> TickType]
  /\ runs \subseteq RunType
  /\ passed \in [Definitions -> SUBSET Lapses]

Busy(x) == x.step \in {"check", "start"}

\* A busy tick holds the lock of its definition, alone in its instance.
LockInv ==
  /\ \A k \in Ticks : Busy(tick[k]) =>
       tick[k].on \in Instances /\ tick[k].of \in locks[tick[k].on]
  /\ \A k, m \in Ticks :
       Busy(tick[k]) /\ Busy(tick[m]) /\ tick[k].on = tick[m].on /\ tick[k].of = tick[m].of => k = m

\* A run with a slot was started by an instance.
ByInstance(R) == \A r \in R : IF r.slot = 0 THEN r.by = User ELSE r.by \in Instances
OneRun(R) == \A r, q \in R : r.slot # 0 /\ r.slot = q.slot /\ r.definition = q.definition => r = q
OneOpen(R) ==
  \A r, q \in R :
    r.slot # 0 /\ r.state = "open" /\ q.state = "open" /\ r.definition = q.definition /\ r.by = q.by
    => r = q
RunsInv(R) == ByInstance(R) /\ OneRun(R) /\ OneOpen(R)

HasRun(R, d, s) == \E r \in R : r.definition = d /\ r.slot = s
Lapsed(S, s) == \E why \in Schedules!Reasons : <<s, why>> \in S
Covers(S, T, why) == T \X {why} \subseteq S
Settled(R, p, d, s) == Lapsed(p[d], s) \/ HasRun(R, d, s)
CronSlot(d, s) == Kind[d] = "cron" /\ s \in Slots /\ s % Period = 0

\* What a tick has read is settled; of what it has missed, all but the slots it
\* still has; and where it found no open run of its instance, there is none.
TickInv(x, R, p) ==
  /\ x.step # "idle" => x.on \in Instances /\ x.at \in Slots
  /\ Busy(x) => x.of \in x.due
  /\ x.step = "start" =>
       \A r \in R : ~(r.definition = x.of /\ r.by = x.on /\ r.state = "open")
  /\ \A d \in Definitions : \A s : CronSlot(d, s) /\ s <= x.read[d] => Settled(R, p, d, s)
  /\ Busy(x) => \A s \in Schedules!MissedSlots(x.of, x.read[x.of], x.at) :
                  s \in x.slots \/ Settled(R, p, x.of, s)

DefInv(f, R, p) ==
  \A d \in Definitions : \A s : CronSlot(d, s) /\ s <= f[d].lastRunAt => Settled(R, p, d, s)

SlotsInv ==
  /\ SlotsTyped /\ LockInv /\ RunsInv(runs)
  /\ \A k \in Ticks : TickInv(tick[k], runs, passed)
  /\ DefInv(def, runs, passed)

-----------------------------------------------------------------------------
(* What changes no invariant *)

LEMMA Times0 == Slots \subseteq Nat \ {0} /\ Period \in Nat \ {0} /\ MaxTime \in Nat
<1> QED
  BY PeriodAssumption, TimeAssumption DEF Slots, Schedules!Times

\* Nothing that is settled becomes unsettled.
LEMMA MoreSettled ==
  ASSUME NEW R, NEW Q, NEW p, NEW q,
         \A r \in R : \E z \in Q : z.definition = r.definition /\ z.slot = r.slot,
         \A d \in Definitions : p[d] \subseteq q[d]
  PROVE  \A d \in Definitions : \A s : Settled(R, p, d, s) => Settled(Q, q, d, s)
<1> QED
  BY DEF Settled, Lapsed, HasRun

LEMMA TickKeeps ==
  ASSUME NEW x \in TickType, NEW R, NEW Q, NEW p, NEW q, TickInv(x, R, p),
         x.step # "idle" => x.due \subseteq Definitions,
         \A d \in Definitions : \A s : Settled(R, p, d, s) => Settled(Q, q, d, s),
         x.step = "start" =>
           \A r \in Q : ~(r.definition = x.of /\ r.by = x.on /\ r.state = "open")
  PROVE  TickInv(x, Q, q)
<1>1. Busy(x) => x.of \in Definitions
  BY DEF TickInv, Busy
<1> QED
  BY <1>1 DEF TickInv

\* One tick becomes x while runs stay as they are.
LEMMA TickBecomes ==
  ASSUME SlotsInv, NEW k \in Ticks, NEW x \in TickType, tick' = [tick EXCEPT ![k] = x],
         UNCHANGED <<now, runs>>, passed' \in [Definitions -> SUBSET Lapses],
         \A d \in Definitions : passed[d] \subseteq passed'[d],
         TickInv(x, runs, passed'), LockInv', locks' \in [Instances -> SUBSET Definitions],
         def' \in [Definitions -> DefinitionType], DefInv(def', runs, passed')
  PROVE  SlotsInv'
<1>1. \A m \in Ticks : tick'[m] = IF m = k THEN x ELSE tick[m]
  BY DEF SlotsInv, SlotsTyped
<1>2. \A d \in Definitions : \A s : Settled(runs, passed, d, s) => Settled(runs', passed', d, s)
  BY DEF Settled, Lapsed
<1>3. ASSUME NEW m \in Ticks
      PROVE  TickInv(tick[m], runs, passed')
  <2>1. /\ tick[m] \in TickType /\ TickInv(tick[m], runs, passed)
        /\ tick[m].due \subseteq Definitions
    BY DEF SlotsInv, SlotsTyped, TickType
  <2>2. tick[m].step = "start" =>
           \A r \in runs : ~(r.definition = tick[m].of /\ r.by = tick[m].on /\ r.state = "open")
    BY <2>1 DEF TickInv
  <2> QED
    BY <1>2, <2>1, <2>2, TickKeeps
<1>4. SlotsTyped'
  <2>1. tick' \in [Ticks -> TickType]
    BY DEF SlotsInv, SlotsTyped
  <2> QED
    BY <2>1 DEF SlotsInv, SlotsTyped
<1>5. RunsInv(runs') /\ DefInv(def', runs', passed')
  BY DEF SlotsInv
<1>6. \A m \in Ticks : TickInv(tick'[m], runs', passed')
  BY <1>1, <1>3
<1> QED
  BY <1>4, <1>5, <1>6 DEF SlotsInv

\* The definitions stay as they are.
LEMMA DefKeeps ==
  ASSUME SlotsInv, UNCHANGED <<def, runs>>, \A d \in Definitions : passed[d] \subseteq passed'[d]
  PROVE  def' \in [Definitions -> DefinitionType] /\ DefInv(def', runs, passed')
<1>1. \A d \in Definitions : \A s : Settled(runs, passed, d, s) => Settled(runs, passed', d, s)
  BY DEF Settled, Lapsed
<1> QED
  BY <1>1 DEF SlotsInv, SlotsTyped, DefInv

\* The locks stay, and the tick is busy only if it was with the same definition.
LEMMA LocksKept ==
  ASSUME SlotsInv, NEW k \in Ticks, NEW x \in TickType, tick' = [tick EXCEPT ![k] = x],
         UNCHANGED locks,
         Busy(x) => Busy(tick[k]) /\ x.on = tick[k].on /\ x.of = tick[k].of
  PROVE  LockInv' /\ locks' \in [Instances -> SUBSET Definitions]
<1>1. \A m \in Ticks : tick'[m] = IF m = k THEN x ELSE tick[m]
  BY DEF SlotsInv, SlotsTyped
<1>2. locks' \in [Instances -> SUBSET Definitions] /\ LockInv
  BY DEF SlotsInv, SlotsTyped
<1> QED
  BY <1>1, <1>2 DEF LockInv

\* The tick gives its lock back.
LEMMA LocksReleased ==
  ASSUME SlotsInv, NEW k \in Ticks, NEW x \in TickType, tick' = [tick EXCEPT ![k] = x],
         Busy(tick[k]), ~Busy(x),
         locks' = [locks EXCEPT ![tick[k].on] = @ \ {tick[k].of}]
  PROVE  LockInv' /\ locks' \in [Instances -> SUBSET Definitions]
<1>1. \A m \in Ticks : tick'[m] = IF m = k THEN x ELSE tick[m]
  BY DEF SlotsInv, SlotsTyped
<1>2. /\ locks \in [Instances -> SUBSET Definitions] /\ LockInv
      /\ tick[k].on \in Instances
  BY DEF SlotsInv, SlotsTyped, LockInv
<1>3. /\ locks' \in [Instances -> SUBSET Definitions]
      /\ \A i \in Instances : locks'[i] = IF i = tick[k].on THEN locks[i] \ {tick[k].of} ELSE locks[i]
  BY <1>2
<1>4. \A m \in Ticks : Busy(tick'[m]) =>
        /\ m # k /\ tick'[m] = tick[m] /\ Busy(tick[m])
        /\ ~(tick[m].on = tick[k].on /\ tick[m].of = tick[k].of)
  BY <1>1, <1>2 DEF LockInv
<1> QED
  BY <1>2, <1>3, <1>4 DEF LockInv

-----------------------------------------------------------------------------
(* The steps of a tick *)

LEMMA NoTickTyped ==
  /\ Schedules!NoTick \in TickType /\ Schedules!NoTick.step = "idle"
  /\ \A R, p : TickInv(Schedules!NoTick, R, p)
<1>0. \A s \in Slots : ~(s <= 0)
  BY Times0
<1>1. 0 \in Nat /\ \A d \in Definitions : \A s : ~(CronSlot(d, s) /\ s <= 0)
  BY <1>0 DEF CronSlot
<1> QED
  BY <1>1 DEF Schedules!NoTick, Schedules!Never, TickType, TickInv, Busy

LEMMA BeginStep ==
  ASSUME SlotsInv, NEW k \in Ticks, NEW i \in Instances, Schedules!Begin(k, i)
  PROVE  SlotsInv'
<1> DEFINE due == {d \in Definitions : Schedules!Due(d)}
           read == [d \in Definitions |-> def[d].lastRunAt]
           x == [Schedules!NoTick EXCEPT !.step = "next", !.on = i, !.at = now, !.due = due,
                                         !.read = read]
<1>1. tick' = [tick EXCEPT ![k] = x] /\ UNCHANGED <<now, def, locks, runs, passed>>
  BY Zenon DEF Schedules!Begin
<1>2. now \in Nat /\ due \subseteq Definitions /\ read \in [Definitions -> Nat] /\ now \in Slots
  BY Times0 DEF SlotsInv, SlotsTyped, DefinitionType, Slots, Schedules!Times
<1>3. DefInv(def, runs, passed) /\ passed \in [Definitions -> SUBSET Lapses]
  BY DEF SlotsInv, SlotsTyped
<1>4. \A d \in Definitions : \A s : CronSlot(d, s) /\ s <= read[d] => Settled(runs, passed, d, s)
  BY <1>3 DEF DefInv
<1> HIDE DEF due, read
<1>5. x \in TickType /\ x.step = "next" /\ x.on = i /\ x.read = read /\ x.at = now
  BY <1>2, NoTickTyped DEF TickType
<1> HIDE DEF x
<1>6. TickInv(x, runs, passed') /\ ~Busy(x)
  BY <1>1, <1>2, <1>4, <1>5 DEF TickInv, Busy
<1> QED
  BY <1>1, <1>3, <1>5, <1>6, DefKeeps, LocksKept, TickBecomes

LEMMA TakeFree ==
  ASSUME SlotsInv, NEW k \in Ticks, NEW d \in Definitions, Schedules!Take(k, d),
         Schedules!Free(k, d)
  PROVE  SlotsInv'
<1> DEFINE M == Schedules!MissedSlots(d, tick[k].read[d], tick[k].at)
           x == [tick[k] EXCEPT !.step = "check", !.of = d, !.slots = M]
           i == tick[k].on
<1>1. /\ tick' = [tick EXCEPT ![k] = x] /\ UNCHANGED <<now, def, runs, passed>>
      /\ locks' = [locks EXCEPT ![i] = @ \cup {d}] /\ tick[k].step = "next"
      /\ d \in tick[k].due
  BY Zenon DEF Schedules!Take
<1>2. d \notin locks[i]
  BY DEF Schedules!Free
<1>3. /\ tick[k] \in TickType /\ TickInv(tick[k], runs, passed) /\ i \in Instances
      /\ locks \in [Instances -> SUBSET Definitions] /\ LockInv
      /\ passed \in [Definitions -> SUBSET Lapses]
  BY <1>1 DEF SlotsInv, SlotsTyped, TickInv
<1>4. M \subseteq Slots
  BY <1>1, <1>3 DEF TickInv, Schedules!MissedSlots, Schedules!Elapsed, Slots
<1> HIDE DEF M
<1>5. /\ x \in TickType /\ x.step = "check" /\ x.of = d /\ x.slots = M /\ x.on = i
      /\ x.read = tick[k].read /\ x.at = tick[k].at /\ x.due = tick[k].due
  BY <1>3, <1>4 DEF TickType
<1> HIDE DEF x, i
<1>6. TickInv(x, runs, passed')
  BY <1>1, <1>3, <1>5 DEF TickInv, M
<1>7. /\ \A m \in Ticks : tick'[m] = IF m = k THEN x ELSE tick[m]
      /\ \A j \in Instances : locks'[j] = IF j = i THEN locks[i] \cup {d} ELSE locks[j]
      /\ locks' \in [Instances -> SUBSET Definitions]
  BY <1>1, <1>3 DEF SlotsInv, SlotsTyped
<1>8. LockInv'
  <2>1. \A m \in Ticks : Busy(tick'[m]) =>
          tick'[m].on \in Instances /\ tick'[m].of \in locks'[tick'[m].on]
    BY <1>3, <1>5, <1>7 DEF LockInv
  <2>2. \A m \in Ticks : m # k /\ Busy(tick[m]) => ~(tick[m].on = i /\ tick[m].of = d)
    BY <1>2, <1>3 DEF LockInv
  <2>3. \A m, n \in Ticks :
          Busy(tick'[m]) /\ Busy(tick'[n]) /\ tick'[m].on = tick'[n].on
            /\ tick'[m].of = tick'[n].of => m = n
    BY <1>3, <1>5, <1>7, <2>2 DEF LockInv
  <2> QED
    BY <2>1, <2>3 DEF LockInv
<1> QED
  BY <1>1, <1>3, <1>5, <1>6, <1>7, <1>8, DefKeeps, TickBecomes

LEMMA TakeLocked ==
  ASSUME SlotsInv, NEW k \in Ticks, NEW d \in Definitions, Schedules!Take(k, d),
         ~Schedules!Free(k, d)
  PROVE  SlotsInv'
<1> DEFINE x == [tick[k] EXCEPT !.due = @ \ {d}]
<1>1. /\ tick' = [tick EXCEPT ![k] = x] /\ UNCHANGED <<now, def, locks, runs, passed>>
      /\ tick[k].step = "next"
  BY Zenon DEF Schedules!Take
<1>2. /\ tick[k] \in TickType /\ TickInv(tick[k], runs, passed)
      /\ passed \in [Definitions -> SUBSET Lapses]
  BY DEF SlotsInv, SlotsTyped
<1>3. /\ x \in TickType /\ x.step = "next" /\ x.on = tick[k].on /\ x.read = tick[k].read
      /\ x.at = tick[k].at
  BY <1>1, <1>2 DEF TickType
<1> HIDE DEF x
<1>4. TickInv(x, runs, passed') /\ ~Busy(x)
  BY <1>1, <1>2, <1>3 DEF TickInv, Busy
<1> QED
  BY <1>1, <1>2, <1>3, <1>4, DefKeeps, LocksKept, TickBecomes

\* The slot is skipped.
LEMMA CheckSkips ==
  ASSUME SlotsInv, NEW k \in Ticks, Schedules!Check(k), Schedules!OpenRun(tick[k].of)
  PROVE  SlotsInv'
<1> DEFINE d == tick[k].of
<1>0. PICK slot \in tick[k].slots :
        /\ passed' = [passed EXCEPT ![d] = @ \cup {<<slot, "overlap">>}]
        /\ tick' = [tick EXCEPT ![k].slots = @ \ {slot}]
  BY DEF Schedules!Check
<1> DEFINE x == [tick[k] EXCEPT !.slots = @ \ {slot}]
<1>1. tick' = [tick EXCEPT ![k] = x]
  BY <1>0, Zenon
<1>2. UNCHANGED <<now, def, locks, runs>> /\ tick[k].step = "check"
  BY DEF Schedules!Check
<1>3. /\ tick[k] \in TickType /\ TickInv(tick[k], runs, passed) /\ Busy(tick[k])
      /\ passed \in [Definitions -> SUBSET Lapses]
  BY <1>2 DEF SlotsInv, SlotsTyped, Busy
<1>4. d \in Definitions /\ slot \in Slots
  BY <1>3 DEF TickInv, TickType
<1>5. /\ x \in TickType /\ x.step = "check" /\ x.on = tick[k].on /\ x.read = tick[k].read
      /\ x.of = d /\ x.at = tick[k].at /\ x.due = tick[k].due /\ x.slots = tick[k].slots \ {slot}
  BY <1>2, <1>3 DEF TickType
<1>6. /\ passed' \in [Definitions -> SUBSET Lapses]
      /\ \A e \in Definitions : passed[e] \subseteq passed'[e]
      /\ Lapsed(passed'[d], slot)
  <2>1. "overlap" \in Schedules!Reasons
    BY DEF Schedules!Reasons
  <2>2. <<slot, "overlap">> \in Lapses
    BY <1>4, <2>1 DEF Lapses
  <2> HIDE DEF d
  <2>3. /\ passed' \in [Definitions -> SUBSET Lapses]
        /\ \A e \in Definitions : passed[e] \subseteq passed'[e]
        /\ <<slot, "overlap">> \in passed'[d]
    BY <1>0, <1>3, <1>4, <2>2 DEF d
  <2> QED
    BY <2>1, <2>3 DEF Lapsed
<1> HIDE DEF x, d
<1>7. \A e \in Definitions : \A s : Settled(runs, passed, e, s) => Settled(runs, passed', e, s)
  BY <1>6 DEF Settled, Lapsed
<1>8. TickInv(x, runs, passed')
  <2>1. \A s \in Schedules!MissedSlots(x.of, x.read[x.of], x.at) :
          s \in x.slots \/ Settled(runs, passed', x.of, s)
    BY <1>3, <1>4, <1>5, <1>6, <1>7 DEF TickInv, Settled, d
  <2> QED
    BY <1>3, <1>5, <1>7, <2>1 DEF TickInv, Busy, d
<1>9. Busy(x) => Busy(tick[k]) /\ x.on = tick[k].on /\ x.of = tick[k].of
  BY <1>3, <1>5 DEF d
<1> QED
  BY <1>1, <1>2, <1>5, <1>6, <1>8, <1>9, DefKeeps, LocksKept, TickBecomes

\* No run is open.
LEMMA CheckGoes ==
  ASSUME SlotsInv, NEW k \in Ticks, Schedules!Check(k), ~Schedules!OpenRun(tick[k].of)
  PROVE  SlotsInv'
<1> DEFINE x == [tick[k] EXCEPT !.step = "start"]
<1>1. /\ tick' = [tick EXCEPT ![k] = x] /\ tick[k].step = "check"
      /\ UNCHANGED <<now, def, locks, runs, passed>>
  BY Zenon DEF Schedules!Check
<1>2. /\ tick[k] \in TickType /\ TickInv(tick[k], runs, passed) /\ Busy(tick[k])
      /\ passed \in [Definitions -> SUBSET Lapses]
  BY <1>1 DEF SlotsInv, SlotsTyped, Busy
<1>3. /\ x \in TickType /\ x.step = "start" /\ x.on = tick[k].on /\ x.read = tick[k].read
      /\ x.of = tick[k].of /\ x.at = tick[k].at /\ x.due = tick[k].due /\ x.slots = tick[k].slots
  BY <1>1, <1>2 DEF TickType
<1> HIDE DEF x
<1>4. \A r \in runs : ~(r.definition = x.of /\ r.by = x.on /\ r.state = "open")
  BY <1>3 DEF Schedules!OpenRun
<1>5. TickInv(x, runs, passed')
  BY <1>1, <1>2, <1>3, <1>4 DEF TickInv, Busy
<1> QED
  BY <1>1, <1>2, <1>3, <1>5, DefKeeps, LocksKept, TickBecomes

LEMMA StartFailsStep ==
  ASSUME SlotsInv, NEW k \in Ticks, Schedules!StartFails(k)
  PROVE  SlotsInv'
<1> DEFINE x == [tick[k] EXCEPT !.step = "next", !.due = @ \ {tick[k].of}, !.slots = {}]
<1>1. /\ tick' = [tick EXCEPT ![k] = x] /\ tick[k].step = "start"
      /\ locks' = [locks EXCEPT ![tick[k].on] = @ \ {tick[k].of}]
      /\ UNCHANGED <<now, def, runs, passed>>
  BY Zenon DEF Schedules!StartFails, Schedules!GiveUp
<1>2. /\ tick[k] \in TickType /\ TickInv(tick[k], runs, passed) /\ Busy(tick[k])
      /\ passed \in [Definitions -> SUBSET Lapses]
  BY <1>1 DEF SlotsInv, SlotsTyped, Busy
<1>3. /\ x \in TickType /\ x.step = "next" /\ x.on = tick[k].on /\ x.read = tick[k].read
      /\ x.at = tick[k].at
  BY <1>1, <1>2 DEF TickType
<1> HIDE DEF x
<1>4. TickInv(x, runs, passed') /\ ~Busy(x)
  BY <1>1, <1>2, <1>3 DEF TickInv, Busy
<1> QED
  BY <1>1, <1>2, <1>3, <1>4, DefKeeps, LocksReleased, TickBecomes

LEMMA TickOverStep ==
  ASSUME SlotsInv, NEW k \in Ticks, Schedules!TickOver(k)
  PROVE  SlotsInv'
<1> DEFINE x == Schedules!NoTick
<1>1. /\ tick' = [tick EXCEPT ![k] = x]
      /\ UNCHANGED <<now, def, locks, runs, passed>>
  BY DEF Schedules!TickOver
<1>2. x \in TickType /\ x.step = "idle" /\ TickInv(x, runs, passed')
  BY NoTickTyped
<1>3. passed \in [Definitions -> SUBSET Lapses] /\ ~Busy(x)
  BY <1>2 DEF SlotsInv, SlotsTyped, Busy
<1> HIDE DEF x
<1> QED
  BY <1>1, <1>2, <1>3, DefKeeps, LocksKept, TickBecomes

\* A slot that has its run already gets no second one.
LEMMA StartDuplicate ==
  ASSUME SlotsInv, NEW k \in Ticks, NEW slot \in tick[k].slots, tick[k].step = "start",
         Schedules!Duplicate(tick[k].of, slot),
         tick' = [tick EXCEPT ![k].step = "check", ![k].slots = @ \ {slot}],
         UNCHANGED <<now, def, locks, runs, passed>>
  PROVE  SlotsInv'
<1> DEFINE x == [tick[k] EXCEPT !.step = "check", !.slots = @ \ {slot}]
<1>1. tick' = [tick EXCEPT ![k] = x]
  BY Zenon
<1>2. /\ tick[k] \in TickType /\ TickInv(tick[k], runs, passed) /\ Busy(tick[k])
      /\ passed \in [Definitions -> SUBSET Lapses]
  BY DEF SlotsInv, SlotsTyped, Busy
<1>3. /\ x \in TickType /\ x.step = "check" /\ x.on = tick[k].on /\ x.read = tick[k].read
      /\ x.of = tick[k].of /\ x.at = tick[k].at /\ x.due = tick[k].due
      /\ x.slots = tick[k].slots \ {slot}
  BY <1>2 DEF TickType
<1> HIDE DEF x
<1>4. Settled(runs, passed, x.of, slot)
  BY <1>3 DEF Settled, HasRun, Schedules!Duplicate
<1>5. TickInv(x, runs, passed')
  <2>1. \A s \in Schedules!MissedSlots(x.of, x.read[x.of], x.at) :
          s \in x.slots \/ Settled(runs, passed, x.of, s)
    BY <1>2, <1>3, <1>4 DEF TickInv
  <2> QED
    BY <1>2, <1>3, <2>1 DEF TickInv, Busy
<1> QED
  BY <1>1, <1>2, <1>3, <1>5, DefKeeps, LocksKept, TickBecomes

\* The slot gets its run.
LEMMA StartNew ==
  ASSUME SlotsInv, NEW k \in Ticks, NEW slot \in tick[k].slots, tick[k].step = "start",
         ~Schedules!Duplicate(tick[k].of, slot),
         runs' = runs \cup {[definition |-> tick[k].of, slot |-> slot, by |-> tick[k].on,
                             state |-> "open"]},
         tick' = [tick EXCEPT ![k].step = "check", ![k].slots = @ \ {slot}],
         UNCHANGED <<now, def, locks, passed>>
  PROVE  SlotsInv'
<1> DEFINE d == tick[k].of
           i == tick[k].on
           x == [tick[k] EXCEPT !.step = "check", !.slots = @ \ {slot}]
           z == [definition |-> d, slot |-> slot, by |-> i, state |-> "open"]
<1>1. tick' = [tick EXCEPT ![k] = x] /\ runs' = runs \cup {z}
  BY Zenon
<1>2. /\ tick[k] \in TickType /\ TickInv(tick[k], runs, passed) /\ Busy(tick[k])
      /\ runs \subseteq RunType /\ RunsInv(runs) /\ LockInv
  BY DEF SlotsInv, SlotsTyped, Busy
<1>3. d \in Definitions /\ i \in Instances /\ slot \in Slots /\ slot \in Nat /\ slot # 0
  BY <1>2, Times0 DEF TickInv, TickType
<1>4. /\ x \in TickType /\ x.step = "check" /\ x.on = i /\ x.read = tick[k].read
      /\ x.of = d /\ x.at = tick[k].at /\ x.due = tick[k].due /\ x.slots = tick[k].slots \ {slot}
  BY <1>2 DEF TickType
<1>5. /\ z \in RunType /\ z.definition = d /\ z.slot = slot /\ z.by = i /\ z.state = "open"
  BY <1>3 DEF RunType
<1>6. \A r \in runs : ~(r.definition = d /\ r.slot = slot)
                      /\ ~(r.definition = d /\ r.by = i /\ r.state = "open")
  BY <1>2 DEF TickInv, Schedules!Duplicate
<1> HIDE DEF x, z
<1>7. RunsInv(runs')
  BY <1>1, <1>2, <1>3, <1>5, <1>6 DEF RunsInv, ByInstance, OneRun, OneOpen
<1>8. \A e \in Definitions : \A s : Settled(runs, passed, e, s) => Settled(runs', passed', e, s)
  BY <1>1 DEF Settled, HasRun
<1>9. Settled(runs', passed', d, slot)
  BY <1>1, <1>5 DEF Settled, HasRun
<1>10. \A m \in Ticks : tick'[m] = IF m = k THEN x ELSE tick[m]
  BY <1>1 DEF SlotsInv, SlotsTyped
<1> HIDE DEF d, i
<1>11. TickInv(x, runs', passed')
  <2>1. \A s \in Schedules!MissedSlots(x.of, x.read[x.of], x.at) :
          s \in x.slots \/ Settled(runs', passed', x.of, s)
    BY <1>2, <1>3, <1>4, <1>8, <1>9 DEF TickInv, d
  <2> QED
    BY <1>2, <1>3, <1>4, <1>8, <2>1 DEF TickInv, Busy, d, i
<1>12. ASSUME NEW m \in Ticks, m # k
       PROVE  TickInv(tick[m], runs', passed')
  <2>1. /\ tick[m] \in TickType /\ TickInv(tick[m], runs, passed)
        /\ tick[m].due \subseteq Definitions
    BY DEF SlotsInv, SlotsTyped, TickType
  <2>2. tick[m].step = "start" => ~(d = tick[m].of /\ i = tick[m].on)
    BY <1>2, <1>12 DEF LockInv, Busy, d, i
  <2>3. tick[m].step = "start" =>
          \A r \in runs' : ~(r.definition = tick[m].of /\ r.by = tick[m].on /\ r.state = "open")
    BY <1>1, <1>5, <2>1, <2>2 DEF TickInv
  <2> QED
    BY <1>8, <2>1, <2>3, TickKeeps
<1>13. DefInv(def', runs', passed')
  BY <1>8 DEF SlotsInv, DefInv
<1>14. LockInv'
  BY <1>1, <1>2, <1>4, LocksKept DEF d, i
<1>15. SlotsTyped'
  BY <1>1, <1>2, <1>4, <1>5 DEF SlotsInv, SlotsTyped
<1> QED
  BY <1>7, <1>10, <1>11, <1>12, <1>13, <1>14, <1>15 DEF SlotsInv

LEMMA StartStep ==
  ASSUME SlotsInv, NEW k \in Ticks, Schedules!Start(k)
  PROVE  SlotsInv'
<1>1. tick[k].step = "start" /\ UNCHANGED <<now, def, locks, passed>>
  BY DEF Schedules!Start
<1>2. PICK slot \in tick[k].slots :
        /\ runs' = IF Schedules!Duplicate(tick[k].of, slot) THEN runs
                   ELSE runs \cup {[definition |-> tick[k].of, slot |-> slot, by |-> tick[k].on,
                                    state |-> "open"]}
        /\ tick' = [tick EXCEPT ![k].step = "check", ![k].slots = @ \ {slot}]
  BY DEF Schedules!Start
<1>3. CASE Schedules!Duplicate(tick[k].of, slot)
  BY <1>1, <1>2, <1>3, StartDuplicate
<1>4. CASE ~Schedules!Duplicate(tick[k].of, slot)
  BY <1>1, <1>2, <1>4, StartNew
<1> QED
  BY <1>3, <1>4

\* All slots until the tick are settled.
LEMMA SavedSettled ==
  ASSUME NEW x \in TickType, NEW R, NEW p, NEW q, TickInv(x, R, p), Busy(x), x.slots = {},
         NEW d \in Definitions, d = x.of,
         p[d] \subseteq q,
         x.read[d] = 0 => Covers(q, {s \in Slots : s < x.at}, "first"),
         x.read[d] # 0 => Covers(q, Schedules!Elapsed(d, x.read[d], x.at)
                                    \ Schedules!MissedSlots(d, x.read[d], x.at), "limit"),
         NEW s, CronSlot(d, s), s <= x.at
  PROVE  Lapsed(q, s) \/ HasRun(R, d, s)
<1>0. "first" \in Schedules!Reasons /\ "limit" \in Schedules!Reasons
  BY DEF Schedules!Reasons
<1>1. s \in Slots /\ s % Period = 0 /\ Kind[d] = "cron" /\ s \in Nat /\ s # 0 /\ x.at \in Nat
      /\ x.read[d] \in Nat
  BY Times0 DEF CronSlot, TickType
<1>2. s \in Schedules!MissedSlots(d, x.read[d], x.at) => Lapsed(q, s) \/ HasRun(R, d, s)
  BY DEF TickInv, Settled, Lapsed
<1>3. CASE x.read[d] = 0
  <2>1. CASE s < x.at
    <3>1. <<s, "first">> \in q
      BY <1>1, <1>3, <2>1 DEF Covers
    <3> QED
      BY <1>0, <3>1 DEF Lapsed
  <2>2. CASE s = x.at
    <3>1. s \in Schedules!MissedSlots(d, x.read[d], x.at)
      BY <1>1, <1>3, <2>2 DEF Schedules!MissedSlots, Schedules!Elapsed, Schedules!Never
    <3> QED
      BY <1>2, <3>1
  <2> QED
    BY <1>1, <2>1, <2>2
<1>4. CASE x.read[d] # 0
  <2>1. CASE s <= x.read[d]
    BY <2>1 DEF TickInv, Settled, Lapsed
  <2>2. CASE x.read[d] < s
    <3>1. s \in Schedules!Elapsed(d, x.read[d], x.at)
      BY <1>1, <1>4, <2>2 DEF Schedules!Elapsed, Schedules!Never, Slots
    <3>2. CASE s \in Schedules!MissedSlots(d, x.read[d], x.at)
      BY <1>2, <3>2
    <3>3. CASE s \notin Schedules!MissedSlots(d, x.read[d], x.at)
      <4>1. <<s, "limit">> \in q
        BY <1>4, <3>1, <3>3 DEF Covers
      <4> QED
        BY <1>0, <4>1 DEF Lapsed
    <3> QED
      BY <3>2, <3>3
  <2> QED
    BY <1>1, <2>1, <2>2
<1> QED
  BY <1>3, <1>4

LEMMA SaveStep ==
  ASSUME SlotsInv, NEW k \in Ticks, Schedules!Save(k)
  PROVE  SlotsInv'
<1> DEFINE d == tick[k].of
           at == tick[k].at
           last == tick[k].read[d]
           n == Schedules!NextSlot(d, at)
           more == IF last = 0 THEN {s \in Slots : s < at} \X {"first"}
                   ELSE (Schedules!Elapsed(d, last, at) \ Schedules!MissedSlots(d, last, at))
                        \X {"limit"}
           f == [def[d] EXCEPT !.lastRunAt = at, !.nextRunAt = n]
           x == [tick[k] EXCEPT !.step = "next", !.due = @ \ {d}, !.slots = {}]
<1>1. /\ def' = [def EXCEPT ![d] = f]
      /\ tick' = [tick EXCEPT ![k] = x]
  BY Zenon DEF Schedules!Save, Schedules!GiveUp
<1>2. /\ tick[k].step = "check" /\ tick[k].slots = {} /\ UNCHANGED <<now, runs>>
      /\ locks' = [locks EXCEPT ![tick[k].on] = @ \ {tick[k].of}]
  BY DEF Schedules!Save, Schedules!GiveUp
<1>3. passed' = [passed EXCEPT ![d] = @ \cup more]
  BY Zenon DEF Schedules!Save, Schedules!Never, Slots
<1>4. /\ tick[k] \in TickType /\ TickInv(tick[k], runs, passed) /\ Busy(tick[k])
      /\ passed \in [Definitions -> SUBSET Lapses] /\ def \in [Definitions -> DefinitionType]
      /\ DefInv(def, runs, passed)
  BY <1>2 DEF SlotsInv, SlotsTyped, Busy
<1>5. d \in Definitions /\ at \in Nat /\ at \in Slots /\ last \in Nat
  BY <1>4 DEF TickInv, TickType, Busy
<1>6. n \in Nat
  <2>1. \A a \in Nat : a \div Period \in Nat
    BY Times0
  <2> QED
    BY <1>5, <2>1, Times0 DEF Schedules!NextSlot
<1> HIDE DEF n
<1>7. f \in DefinitionType /\ f.lastRunAt = at
  BY <1>4, <1>5, <1>6 DEF DefinitionType
<1>8. /\ x \in TickType /\ x.step = "next" /\ x.on = tick[k].on /\ x.read = tick[k].read
      /\ x.at = tick[k].at
  BY <1>2, <1>4 DEF TickType
<1> HIDE DEF f, x
<1>9. more \subseteq Lapses
  <2>1. last # 0 => Schedules!Elapsed(d, last, at) \subseteq Slots
    BY DEF Schedules!Elapsed, Schedules!Never, Slots
  <2>2. CASE last = 0
    BY <2>2 DEF Lapses, Schedules!Reasons
  <2>3. CASE last # 0
    BY <2>1, <2>3 DEF Lapses, Schedules!Reasons
  <2> QED
    BY <2>2, <2>3
<1>10. \A s : CronSlot(d, s) /\ s <= at => Lapsed(passed[d] \cup more, s) \/ HasRun(runs, d, s)
  <2> DEFINE q == passed[d] \cup more
  <2>1. /\ passed[d] \subseteq q
        /\ last = 0 => Covers(q, {s \in Slots : s < at}, "first")
        /\ last # 0 => Covers(q, Schedules!Elapsed(d, last, at)
                                 \ Schedules!MissedSlots(d, last, at), "limit")
    BY DEF Covers
  <2> HIDE DEF q
  <2>2. \A s : CronSlot(d, s) /\ s <= at => Lapsed(q, s) \/ HasRun(runs, d, s)
    BY <1>2, <1>4, <1>5, <2>1, SavedSettled
  <2> QED
    BY <2>2 DEF q
<1> HIDE DEF more, at, last, d
<1>11. /\ passed' \in [Definitions -> SUBSET Lapses]
       /\ \A e \in Definitions : passed[e] \subseteq passed'[e]
       /\ passed'[d] = passed[d] \cup more
  BY <1>3, <1>4, <1>5, <1>9
<1>12. \A e \in Definitions : \A s : Settled(runs, passed, e, s) => Settled(runs, passed', e, s)
  BY <1>11 DEF Settled, Lapsed
<1>13. /\ def' \in [Definitions -> DefinitionType]
       /\ \A e \in Definitions : def'[e] = IF e = d THEN f ELSE def[e]
  BY <1>1, <1>4, <1>7
<1>14. DefInv(def', runs, passed')
  <2>1. \A s : CronSlot(d, s) /\ s <= at => Settled(runs, passed', d, s)
    BY <1>10, <1>11 DEF Settled
  <2> QED
    BY <1>4, <1>7, <1>12, <1>13, <2>1 DEF DefInv
<1>15. TickInv(x, runs, passed') /\ ~Busy(x)
  BY <1>4, <1>8, <1>12 DEF TickInv, Busy
<1>16. LockInv' /\ locks' \in [Instances -> SUBSET Definitions]
  BY <1>1, <1>2, <1>4, <1>8, <1>15, LocksReleased
<1> QED
  BY <1>1, <1>2, <1>8, <1>11, <1>13, <1>14, <1>15, <1>16, TickBecomes

-----------------------------------------------------------------------------
(* Runs, users, crashes, time and the recurring tasks *)

\* The runs become R, of which none is newly open in an instance that starts one.
LEMMA RunsBecome ==
  ASSUME SlotsInv, UNCHANGED <<now, def, locks, tick, passed>>,
         runs' \subseteq RunType, RunsInv(runs'),
         \A r \in runs : \E z \in runs' : z.definition = r.definition /\ z.slot = r.slot,
         \A z \in runs' : z.state = "open" => z \in runs \/ z.by = User
  PROVE  SlotsInv'
<1>1. \A d \in Definitions : \A s : Settled(runs, passed, d, s) => Settled(runs', passed', d, s)
  BY DEF Settled, HasRun
<1>2. ASSUME NEW k \in Ticks
      PROVE  TickInv(tick[k], runs', passed')
  <2>1. /\ tick[k] \in TickType /\ TickInv(tick[k], runs, passed)
        /\ tick[k].due \subseteq Definitions
    BY DEF SlotsInv, SlotsTyped, TickType
  <2>2. tick[k].step = "start" =>
          \A r \in runs' : ~(r.definition = tick[k].of /\ r.by = tick[k].on /\ r.state = "open")
    BY <2>1, KindAssumption DEF TickInv
  <2> QED
    BY <1>1, <2>1, <2>2, TickKeeps
<1>3. DefInv(def', runs', passed')
  BY <1>1 DEF SlotsInv, DefInv
<1>4. SlotsTyped' /\ LockInv'
  BY DEF SlotsInv, SlotsTyped, LockInv
<1> QED
  BY <1>2, <1>3, <1>4 DEF SlotsInv

LEMMA RunMovesStep ==
  ASSUME SlotsInv, NEW r \in runs, Schedules!RunMoves(r)
  PROVE  SlotsInv'
<1>1. PICK state \in {"parked", "resumed", "over"} :
        runs' = (runs \ {r}) \cup {[r EXCEPT !.state = state]}
  BY DEF Schedules!RunMoves, Schedules!Becomes
<1>2. UNCHANGED <<now, def, locks, tick, passed>>
  BY DEF Schedules!RunMoves
<1> DEFINE z == [r EXCEPT !.state = state]
<1>3. r \in RunType /\ runs \subseteq RunType /\ RunsInv(runs)
  BY DEF SlotsInv, SlotsTyped
<1>4. /\ z \in RunType /\ z.definition = r.definition /\ z.slot = r.slot /\ z.by = r.by
      /\ z.state # "open"
  BY <1>3 DEF RunType
<1>5. runs' = (runs \ {r}) \cup {z}
  BY <1>1
<1> HIDE DEF z
<1>6. RunsInv(runs')
  <2>1. ByInstance(runs')
    BY <1>3, <1>4, <1>5 DEF RunsInv, ByInstance
  <2>2. OneRun(runs')
    BY <1>3, <1>4, <1>5 DEF RunsInv, OneRun
  <2>3. OneOpen(runs')
    BY <1>3, <1>4, <1>5 DEF RunsInv, OneOpen
  <2> QED
    BY <2>1, <2>2, <2>3 DEF RunsInv
<1>7. runs' \subseteq RunType
  BY <1>3, <1>4, <1>5
<1>8. \A q \in runs : \E y \in runs' : y.definition = q.definition /\ y.slot = q.slot
  BY <1>4, <1>5
<1>9. \A y \in runs' : y.state = "open" => y \in runs
  BY <1>4, <1>5
<1> QED
  BY <1>2, <1>6, <1>7, <1>8, <1>9, RunsBecome

LEMMA StartManuallyStep ==
  ASSUME SlotsInv, NEW d \in Definitions, Schedules!StartManually(d)
  PROVE  SlotsInv'
<1> DEFINE z == [definition |-> d, slot |-> 0, by |-> User, state |-> "open"]
<1>1. runs' = runs \cup {z} /\ UNCHANGED <<now, def, locks, tick, passed>>
  BY DEF Schedules!StartManually, Schedules!Never
<1>2. z \in RunType /\ z.slot = 0 /\ z.by = User
  BY DEF RunType
<1>3. runs \subseteq RunType /\ RunsInv(runs)
  BY DEF SlotsInv, SlotsTyped
<1> HIDE DEF z
<1>4. RunsInv(runs')
  <2>1. ByInstance(runs')
    BY <1>1, <1>2, <1>3 DEF RunsInv, ByInstance
  <2>2. OneRun(runs')
    BY <1>1, <1>2, <1>3 DEF RunsInv, OneRun
  <2>3. OneOpen(runs')
    BY <1>1, <1>2, <1>3, KindAssumption DEF RunsInv, OneOpen, ByInstance
  <2> QED
    BY <2>1, <2>2, <2>3 DEF RunsInv
<1> QED
  BY <1>1, <1>2, <1>3, <1>4, RunsBecome

LEMMA SwitchDefinition ==
  ASSUME SlotsInv, NEW d \in Definitions, Schedules!Switch(d)
  PROVE  SlotsInv'
<1> DEFINE f == [def[d] EXCEPT !.active = ~@]
<1>1. def' = [def EXCEPT ![d] = f]
  BY Zenon DEF Schedules!Switch
<1>2. UNCHANGED <<now, locks, tick, runs, passed>>
  BY DEF Schedules!Switch
<1>3. def \in [Definitions -> DefinitionType]
  BY DEF SlotsInv, SlotsTyped
<1>4. f \in DefinitionType /\ f.lastRunAt = def[d].lastRunAt
  BY <1>3 DEF DefinitionType
<1> HIDE DEF f
<1>5. /\ def' \in [Definitions -> DefinitionType]
      /\ \A e \in Definitions : def'[e].lastRunAt = def[e].lastRunAt
  BY <1>1, <1>3, <1>4
<1> QED
  BY <1>2, <1>5 DEF SlotsInv, SlotsTyped, LockInv, DefInv

LEMMA CrashedInstance ==
  ASSUME SlotsInv, NEW i \in Instances, Schedules!Crash(i)
  PROVE  SlotsInv'
<1> DEFINE N == Schedules!NoTick
<1>1. /\ locks' = [locks EXCEPT ![i] = {}] /\ UNCHANGED <<now, def, runs, passed>>
      /\ tick' = [k \in Ticks |-> IF tick[k].on = i THEN N ELSE tick[k]]
  BY DEF Schedules!Crash
<1>2. N \in TickType /\ N.step = "idle" /\ TickInv(N, runs, passed) /\ ~Busy(N)
  BY NoTickTyped DEF Busy
<1>3. SlotsTyped /\ LockInv /\ \A k \in Ticks : TickInv(tick[k], runs, passed)
  BY DEF SlotsInv
<1> HIDE DEF N
<1>4. SlotsTyped'
  BY <1>1, <1>2, <1>3 DEF SlotsTyped
<1>5. \A k \in Ticks : Busy(tick'[k]) => tick'[k] = tick[k] /\ tick[k].on # i
  BY <1>1, <1>2
<1>6. \A j \in Instances : j # i => locks'[j] = locks[j]
  BY <1>1, <1>3 DEF SlotsTyped
<1>7. LockInv'
  BY <1>3, <1>5, <1>6 DEF LockInv
<1>8. \A k \in Ticks : TickInv(tick'[k], runs, passed)
  BY <1>1, <1>2, <1>3
<1> QED
  BY <1>1, <1>4, <1>7, <1>8 DEF SlotsInv

\* What leaves the schedules alone but for the clock.
LEMMA ScheduleRests ==
  ASSUME SlotsInv, UNCHANGED scheduleVars, now' \in 1..MaxTime
  PROVE  SlotsInv'
<1> QED
  BY DEF SlotsInv, SlotsTyped, LockInv, scheduleVars

LEMMA TickStep ==
  ASSUME SlotsInv, NEW k \in Ticks, Schedules!Tick(k)
  PROVE  SlotsInv'
<1>1. \A i \in Instances : Schedules!Begin(k, i) => SlotsInv'
  BY BeginStep
<1>2. \A d \in Definitions : Schedules!Take(k, d) => SlotsInv'
  BY TakeFree, TakeLocked
<1>3. Schedules!Check(k) => SlotsInv'
  BY CheckSkips, CheckGoes
<1> QED
  BY <1>1, <1>2, <1>3, StartStep, StartFailsStep, SaveStep, TickOverStep DEF Schedules!Tick

LEMMA TasksLeaveTheClock ==
  ASSUME NEW i \in Instances, Change \/ Round(i)
  PROVE  now' = now
<1> QED
  BY DEF Change, Switch, Remove, Create, ReadForUpdate, WriteUpdate, UpdateFails, Round, Find,
          Execute, TaskOver, RoundOver, Claim

-----------------------------------------------------------------------------
(* Workflow schedules: the theorems *)

LEMMA InitialSlots == SystemInit => SlotsInv
<1> SUFFICES ASSUME Schedules!Init PROVE SlotsInv
  BY DEF SystemInit
<1>1. /\ now = 1 /\ def = [d \in Definitions |-> Schedules!NewDefinition]
      /\ locks = [i \in Instances |-> {}] /\ tick = [k \in Ticks |-> Schedules!NoTick]
      /\ runs = {} /\ passed = [d \in Definitions |-> {}]
  BY DEF Schedules!Init
<1>2. 1 \in 1..MaxTime
  BY TimeAssumption
<1>3. Schedules!NewDefinition \in DefinitionType /\ Schedules!NewDefinition.lastRunAt = 0
  BY DEF Schedules!NewDefinition, Schedules!Never, DefinitionType
<1>4. SlotsTyped
  BY <1>1, <1>2, <1>3, NoTickTyped DEF SlotsTyped
<1>5. LockInv
  BY <1>1, NoTickTyped DEF LockInv, Busy
<1>6. RunsInv(runs)
  BY <1>1 DEF RunsInv, ByInstance, OneRun, OneOpen
<1>7. \A s \in Slots : ~(s <= 0)
  BY Times0
<1>8. DefInv(def, runs, passed)
  BY <1>1, <1>3, <1>7 DEF DefInv, CronSlot
<1> QED
  BY <1>1, <1>4, <1>5, <1>6, <1>8, NoTickTyped DEF SlotsInv

LEMMA SlotsStep == SlotsInv /\ [SystemNext]_allVars => SlotsInv'
<1> SUFFICES ASSUME SlotsInv, [SystemNext]_allVars
             PROVE  SlotsInv'
  OBVIOUS
<1>0. now \in 1..MaxTime
  BY DEF SlotsInv, SlotsTyped
<1>1. CASE TaskStep
  <2>1. UNCHANGED scheduleVars /\ (Change \/ \E i \in Instances : Round(i))
    BY <1>1 DEF TaskStep
  <2>2. now' = now
    BY <2>1, TasksLeaveTheClock DEF Change, Switch, Remove, Create, ReadForUpdate, WriteUpdate,
                                    UpdateFails
  <2> QED
    BY <1>0, <2>1, <2>2, ScheduleRests
<1>2. CASE ScheduleStep
  BY <1>2, TickStep, RunMovesStep, StartManuallyStep, SwitchDefinition
     DEF ScheduleStep, Schedules!Change
<1>3. ASSUME NEW i \in Instances, InstanceCrashes(i)
      PROVE  SlotsInv'
  BY <1>3, CrashedInstance DEF InstanceCrashes
<1>4. CASE TimePasses /\ UNCHANGED <<taskVars, scheduleVars>>
  <2>1. now' \in 1..MaxTime
    BY <1>0, <1>4, TimeAssumption DEF TimePasses
  <2> QED
    BY <1>4, <2>1, ScheduleRests
<1>5. CASE UNCHANGED allVars
  BY <1>0, <1>5, ScheduleRests DEF allVars
<1> QED
  BY <1>1, <1>2, <1>3, <1>4, <1>5 DEF SystemNext

LEMMA SlotsInvariant == SystemSpec => []SlotsInv
<1> QED
  BY InitialSlots, SlotsStep, PTL DEF SystemSpec

\* For any instances and ticks, overlapping or crashed: a slot has one run, by the
\* unique index over definition and slot.
THEOREM OneRunPerSlot == SystemSpec => []SlotStartsOnce
<1>1. SlotsInv => SlotStartsOnce
  BY DEF SlotsInv, RunsInv, OneRun, SlotStartsOnce, Schedules!SlotStartsOnce, Schedules!Never
<1> QED
  BY <1>1, SlotsInvariant, PTL

\* definitionLocks make the check for an open run and the start of one atomic in
\* an instance: it never has two open runs of a definition.
THEOREM OneOpenRun == SystemSpec => []OneOpenPerInstance
<1>1. SlotsInv => OneOpenPerInstance
  BY DEF SlotsInv, RunsInv, OneOpen, OneOpenPerInstance, Schedules!OneOpenPerInstance,
         Schedules!Never
<1> QED
  BY <1>1, SlotsInvariant, PTL

\* lastRunAt passes no slot of a cron trigger that was not run, skipped for an open
\* run, beyond the catch-up limit, or earlier than a tick that read the definition
\* before its first check was saved, although ticks overwrite lastRunAt with what
\* they have read.
THEOREM SlotsRemembered == SystemSpec => []NoSlotForgotten
<1>1. SlotsInv => NoSlotForgotten
  BY DEF SlotsInv, DefInv, CronSlot, Settled, Lapsed, HasRun, NoSlotForgotten, Schedules!NoSlotForgotten,
         Schedules!Duplicate, Slots
<1> QED
  BY <1>1, SlotsInvariant, PTL
-----------------------------------------------------------------------------
(* Workflow schedules: no time that a definition or a tick knows of lies    *)
(* ahead of the clock.                                                      *)

TickBound(x, t) ==
  x.at <= t /\ x.of \in Definitions /\ \A s \in x.slots : s <= x.at

DefBound(f, t) == f.lastRunAt <= t /\ f.nextRunAt \in {0} \cup Slots

BoundInv ==
  /\ \A d \in Definitions : DefBound(def[d], now)
  /\ \A k \in Ticks : TickBound(tick[k], now)

LEMMA TickBounds ==
  ASSUME SlotsInv, BoundInv, NEW k \in Ticks, NEW x, tick' = [tick EXCEPT ![k] = x],
         UNCHANGED <<now, def>>, TickBound(x, now)
  PROVE  BoundInv'
<1> QED
  BY DEF SlotsInv, SlotsTyped, BoundInv, TickBound, DefBound

\* What a tick misses lies until the tick.
LEMMA MissedBefore ==
  ASSUME NEW d \in Definitions, NEW last, NEW at \in Nat
  PROVE  \A s \in Schedules!MissedSlots(d, last, at) : s <= at
<1> QED
  BY DEF Schedules!MissedSlots, Schedules!Elapsed

LEMMA NextIsSlot ==
  ASSUME NEW d \in Definitions, NEW at \in 1..MaxTime
  PROVE  Schedules!NextSlot(d, at) \in Slots
<1>1. at \in Nat /\ Period \in Nat \ {0} /\ MaxTime \in Nat
  BY Times0
<1> QED
  BY <1>1, Division DEF Schedules!NextSlot, Slots, Schedules!Times

LEMMA TickStaysBound ==
  ASSUME SlotsInv, BoundInv, NEW k \in Ticks, Schedules!Tick(k), Definitions # {}
  PROVE  BoundInv'
<1>1. /\ tick[k] \in TickType /\ TickBound(tick[k], now) /\ TickInv(tick[k], runs, passed)
      /\ now \in Nat /\ now \in 1..MaxTime /\ def \in [Definitions -> DefinitionType]
  BY Times0 DEF SlotsInv, SlotsTyped, BoundInv
<1>2. CASE \E i \in Instances : Schedules!Begin(k, i)
  <2> PICK i \in Instances : Schedules!Begin(k, i)
    BY <1>2
  <2> DEFINE due == {d \in Definitions : Schedules!Due(d)}
             read == [d \in Definitions |-> def[d].lastRunAt]
             x == [Schedules!NoTick EXCEPT !.step = "next", !.on = i, !.at = now, !.due = due,
                                           !.read = read]
  <2>1. tick' = [tick EXCEPT ![k] = x] /\ UNCHANGED <<now, def>>
    BY Zenon DEF Schedules!Begin
  <2> HIDE DEF due, read
  <2>2. x.at = now /\ x.slots = {} /\ x.of = CHOOSE d \in Definitions : TRUE
    BY DEF Schedules!NoTick
  <2> HIDE DEF x
  <2>3. TickBound(x, now)
    BY <1>1, <2>2 DEF TickBound
  <2> QED
    BY <2>1, <2>3, TickBounds
<1>3. CASE \E d \in Definitions : Schedules!Take(k, d)
  <2> PICK d \in Definitions : Schedules!Take(k, d)
    BY <1>3
  <2> DEFINE M == Schedules!MissedSlots(d, tick[k].read[d], tick[k].at)
             x == [tick[k] EXCEPT !.step = "check", !.of = d, !.slots = M]
             y == [tick[k] EXCEPT !.due = @ \ {d}]
  <2>1. (tick' = [tick EXCEPT ![k] = x] \/ tick' = [tick EXCEPT ![k] = y]) /\ UNCHANGED <<now, def>>
    BY Zenon DEF Schedules!Take
  <2>2. \A s \in M : s <= tick[k].at
    BY <1>1, MissedBefore DEF TickType
  <2> HIDE DEF M
  <2>3. x.at = tick[k].at /\ x.of = d /\ x.slots = M
    BY <1>1 DEF TickType
  <2>4. y.at = tick[k].at /\ y.of = tick[k].of /\ y.slots = tick[k].slots
    BY <1>1 DEF TickType
  <2> HIDE DEF x, y
  <2>5. TickBound(x, now) /\ TickBound(y, now)
    BY <1>1, <2>2, <2>3, <2>4 DEF TickBound
  <2> QED
    BY <2>1, <2>5, TickBounds
<1>4. CASE Schedules!Check(k) \/ Schedules!Start(k)
  <2>1. PICK slot : \/ tick' = [tick EXCEPT ![k].slots = @ \ {slot}]
                    \/ tick' = [tick EXCEPT ![k].step = "start"]
                    \/ tick' = [tick EXCEPT ![k].step = "check", ![k].slots = @ \ {slot}]
    BY <1>4 DEF Schedules!Check, Schedules!Start
  <2> DEFINE x == [tick[k] EXCEPT !.slots = @ \ {slot}]
             y == [tick[k] EXCEPT !.step = "start"]
             z == [tick[k] EXCEPT !.step = "check", !.slots = @ \ {slot}]
  <2>2. \/ tick' = [tick EXCEPT ![k] = x] \/ tick' = [tick EXCEPT ![k] = y]
        \/ tick' = [tick EXCEPT ![k] = z]
    BY <2>1, Zenon
  <2>3. /\ x.at = tick[k].at /\ x.of = tick[k].of /\ x.slots \subseteq tick[k].slots
        /\ y.at = tick[k].at /\ y.of = tick[k].of /\ y.slots \subseteq tick[k].slots
        /\ z.at = tick[k].at /\ z.of = tick[k].of /\ z.slots \subseteq tick[k].slots
    BY <1>1 DEF TickType
  <2> HIDE DEF x, y, z
  <2>4. TickBound(x, now) /\ TickBound(y, now) /\ TickBound(z, now)
    BY <1>1, <2>3 DEF TickBound
  <2>5. UNCHANGED <<now, def>>
    BY <1>4 DEF Schedules!Check, Schedules!Start
  <2> QED
    BY <2>2, <2>4, <2>5, TickBounds
<1>5. CASE Schedules!StartFails(k) \/ Schedules!Save(k)
  <2> DEFINE x == [tick[k] EXCEPT !.step = "next", !.due = @ \ {tick[k].of}, !.slots = {}]
  <2>1. tick' = [tick EXCEPT ![k] = x]
    BY <1>5, Zenon DEF Schedules!StartFails, Schedules!Save, Schedules!GiveUp
  <2>2. x.at = tick[k].at /\ x.of = tick[k].of /\ x.slots = {}
    BY <1>1 DEF TickType
  <2> HIDE DEF x
  <2>3. TickBound(x, now)
    BY <1>1, <2>2 DEF TickBound
  <2>4. CASE Schedules!StartFails(k)
    BY <2>1, <2>3, <2>4, TickBounds DEF Schedules!StartFails
  <2>5. CASE Schedules!Save(k)
    <3> DEFINE d == tick[k].of
               at == tick[k].at
               n == Schedules!NextSlot(d, at)
               f == [def[d] EXCEPT !.lastRunAt = at, !.nextRunAt = n]
    <3>1. def' = [def EXCEPT ![d] = f] /\ now' = now /\ Busy(tick[k])
      BY <2>5, Zenon DEF Schedules!Save, Busy
    <3>2. d \in Definitions /\ at \in 1..MaxTime /\ at <= now
      BY <1>1, <3>1, Times0 DEF TickInv, TickBound, TickType, Busy
    <3>3. n \in Slots
      BY <3>2, NextIsSlot
    <3> HIDE DEF n
    <3>4. f.lastRunAt = at /\ f.nextRunAt = n
      BY <1>1, <3>2 DEF DefinitionType
    <3> HIDE DEF f
    <3>5. DefBound(f, now)
      BY <3>2, <3>3, <3>4 DEF DefBound
    <3> HIDE DEF d, at
    <3>6. \A e \in Definitions : DefBound(def'[e], now')
      BY <1>1, <3>1, <3>5 DEF BoundInv, DefBound
    <3>7. \A m \in Ticks : TickBound(tick'[m], now')
      BY <2>1, <2>3, <3>1 DEF BoundInv, TickBound, SlotsInv, SlotsTyped
    <3> QED
      BY <3>6, <3>7 DEF BoundInv, DefBound, TickBound
  <2> QED
    BY <1>5, <2>4, <2>5
<1>6. CASE Schedules!TickOver(k)
  <2> DEFINE x == Schedules!NoTick
  <2>1. tick' = [tick EXCEPT ![k] = x] /\ UNCHANGED <<now, def>>
    BY <1>6 DEF Schedules!TickOver
  <2>2. x.at = 0 /\ x.of \in Definitions /\ x.slots = {}
    BY DEF Schedules!NoTick, Schedules!Never
  <2> HIDE DEF x
  <2>3. TickBound(x, now)
    BY <1>1, <2>2 DEF TickBound
  <2> QED
    BY <2>1, <2>3, TickBounds
<1> QED
  BY <1>2, <1>3, <1>4, <1>5, <1>6 DEF Schedules!Tick

LEMMA BoundStep ==
  ASSUME Definitions # {}
  PROVE  SlotsInv /\ SlotsInv' /\ BoundInv /\ [SystemNext]_allVars => BoundInv'
<1> SUFFICES ASSUME SlotsInv, SlotsInv', BoundInv, [SystemNext]_allVars
             PROVE  BoundInv'
  OBVIOUS
<1>0. /\ now \in Nat /\ def \in [Definitions -> DefinitionType] /\ tick \in [Ticks -> TickType]
      /\ \A d \in Definitions : def[d].lastRunAt \in Nat
      /\ \A k \in Ticks : tick[k].at \in Nat
  BY Times0 DEF SlotsInv, SlotsTyped, DefinitionType, TickType
<1>1. ASSUME UNCHANGED <<def, tick>>, now' \in Nat, now <= now'
      PROVE  BoundInv'
  BY <1>0, <1>1 DEF BoundInv, TickBound, DefBound
<1>2. CASE TaskStep
  <2>1. UNCHANGED scheduleVars /\ (Change \/ \E i \in Instances : Round(i))
    BY <1>2 DEF TaskStep
  <2>2. now' = now
    BY <2>1, TasksLeaveTheClock DEF Change, Switch, Remove, Create, ReadForUpdate, WriteUpdate,
                                    UpdateFails
  <2> QED
    BY <1>0, <1>1, <2>1, <2>2 DEF scheduleVars
<1>3. CASE ScheduleStep
  <2>1. ASSUME NEW k \in Ticks, Schedules!Tick(k)
        PROVE  BoundInv'
    BY <2>1, TickStaysBound
  <2>2. ASSUME \/ \E r \in runs : Schedules!RunMoves(r)
               \/ \E d \in Definitions : Schedules!StartManually(d)
        PROVE  BoundInv'
    BY <1>0, <1>1, <2>2 DEF Schedules!RunMoves, Schedules!StartManually
  <2>3. ASSUME NEW d \in Definitions, Schedules!Switch(d)
        PROVE  BoundInv'
    <3> DEFINE f == [def[d] EXCEPT !.active = ~@]
    <3>1. def' = [def EXCEPT ![d] = f] /\ UNCHANGED <<now, tick>>
      BY <2>3, Zenon DEF Schedules!Switch
    <3>2. f.lastRunAt = def[d].lastRunAt /\ f.nextRunAt = def[d].nextRunAt
      BY <1>0 DEF DefinitionType
    <3> HIDE DEF f
    <3> QED
      BY <1>0, <3>1, <3>2 DEF BoundInv, DefBound, TickBound
  <2> QED
    BY <1>3, <2>1, <2>2, <2>3 DEF ScheduleStep, Schedules!Change
<1>4. ASSUME NEW i \in Instances, InstanceCrashes(i)
      PROVE  BoundInv'
  <2> DEFINE N == Schedules!NoTick
  <2>1. /\ tick' = [k \in Ticks |-> IF tick[k].on = i THEN N ELSE tick[k]]
        /\ UNCHANGED <<now, def>>
    BY <1>4 DEF InstanceCrashes, Schedules!Crash
  <2>2. N.at = 0 /\ N.of \in Definitions /\ N.slots = {}
    BY DEF Schedules!NoTick, Schedules!Never
  <2> HIDE DEF N
  <2> QED
    BY <1>0, <2>1, <2>2 DEF BoundInv, DefBound, TickBound
<1>5. CASE TimePasses /\ UNCHANGED <<taskVars, scheduleVars>>
  BY <1>0, <1>1, <1>5 DEF TimePasses, scheduleVars
<1>6. CASE UNCHANGED allVars
  BY <1>0, <1>1, <1>6 DEF allVars, scheduleVars
<1> QED
  BY <1>2, <1>3, <1>4, <1>5, <1>6 DEF SystemNext

LEMMA BoundInit == ASSUME Definitions # {} PROVE SystemInit => BoundInv
<1> SUFFICES ASSUME Schedules!Init PROVE BoundInv
  BY DEF SystemInit
<1>1. /\ now = 1 /\ def = [d \in Definitions |-> Schedules!NewDefinition]
      /\ tick = [k \in Ticks |-> Schedules!NoTick]
  BY DEF Schedules!Init
<1>2. Schedules!NewDefinition.lastRunAt = 0 /\ Schedules!NewDefinition.nextRunAt = 0
  BY DEF Schedules!NewDefinition, Schedules!Never
<1>3. /\ Schedules!NoTick.at = 0 /\ Schedules!NoTick.of \in Definitions
      /\ Schedules!NoTick.slots = {}
  BY DEF Schedules!NoTick, Schedules!Never
<1> QED
  BY <1>1, <1>2, <1>3 DEF BoundInv, DefBound, TickBound

\* Definitions, ticks, runs and history stay well formed: what a definition or a
\* tick has read of the clock is past, and a slot it still has is not after its
\* own time.  (Without a definition an idle tick has none to name.)
THEOREM SchedulesTyped == ASSUME Definitions # {} PROVE SystemSpec => []SchedulesTypeOK
<1>1. SlotsInv /\ BoundInv => SchedulesTypeOK
  <2> SUFFICES ASSUME SlotsInv, BoundInv PROVE SchedulesTypeOK
    OBVIOUS
  <2>1. /\ now \in 1..MaxTime /\ now \in Nat /\ locks \in [Instances -> SUBSET Definitions]
        /\ def \in [Definitions -> DefinitionType]
    BY Times0 DEF SlotsInv, SlotsTyped
  <2>2. def \in [Definitions -> [active : BOOLEAN, lastRunAt : 0..now,
                                 nextRunAt : {Schedules!Never} \cup Slots]]
    <3> SUFFICES ASSUME NEW d \in Definitions
                 PROVE  def[d] \in [active : BOOLEAN, lastRunAt : 0..now,
                                    nextRunAt : {Schedules!Never} \cup Slots]
      BY <2>1
    <3>1. def[d] \in DefinitionType /\ DefBound(def[d], now)
      BY <2>1 DEF BoundInv
    <3> QED
      BY <2>1, <3>1 DEF DefinitionType, DefBound, Schedules!Never
  <2>3. ASSUME NEW k \in Ticks
        PROVE  /\ tick[k].step \in {"idle", "next", "check", "start"}
               /\ tick[k].on \in Instances \cup {User} /\ tick[k].at \in 0..now
               /\ tick[k].due \subseteq Definitions /\ tick[k].of \in Definitions
               /\ tick[k].slots \subseteq 1..tick[k].at
    <3>1. tick[k] \in TickType /\ TickBound(tick[k], now)
      BY DEF SlotsInv, SlotsTyped, BoundInv
    <3>2. tick[k].at \in 0..now
      BY <2>1, <3>1 DEF TickType, TickBound
    <3>3. tick[k].slots \subseteq 1..tick[k].at
      <4>1. \A s \in tick[k].slots : s \in Nat \ {0} /\ s <= tick[k].at
        BY <3>1, Times0 DEF TickType, TickBound
      <4> QED
        BY <3>2, <4>1
    <3> QED
      BY <3>1, <3>2, <3>3 DEF TickType, TickBound
  <2>4. /\ \A r \in runs : r.definition \in Definitions /\ r.slot \in {Schedules!Never} \cup Slots
        /\ \A d \in Definitions : passed[d] \subseteq Lapses
    <3>1. \A r \in runs : r \in RunType /\ IF r.slot = 0 THEN r.by = User ELSE r.by \in Instances
      BY DEF SlotsInv, SlotsTyped, RunsInv, ByInstance
    <3> QED
      BY <3>1 DEF SlotsInv, SlotsTyped, RunType, Schedules!Never
  <2> QED
    BY <2>1, <2>2, <2>3, <2>4 DEF SchedulesTypeOK, Schedules!TypeOK, Slots, Lapses
<1> QED
  BY <1>1, SlotsInvariant, BoundInit, BoundStep, PTL DEF SystemSpec
=============================================================================
