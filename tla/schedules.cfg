SPECIFICATION SystemSpec
CONSTANTS
    t1 = t1
    d1 = d1
    d2 = d2
    i1 = i1
    i2 = i2
    k1 = k1
    k2 = k2
    User = User
    Tasks = {t1}
    Instances = {i1, i2}
    Definitions = {d1, d2}
    Ticks = {k1, k2}
    Kind <- CronAndInterval
    Day = 2
    Week = 2
    Every = Every
    Days = {1, Every}
    Hours = {0, 1}
    Period = 2
    MaxCatchUp = 2
    MaxTime = 4
    MaxChanges = 2
    MaxScheduled = 1
SYMMETRY AnyScheduler
INVARIANTS TypeOK SchedulesTypeOK AtMostOnce NextRunFollowsSchedule SlotStartsOnce OneOpenPerInstance NoSlotForgotten
CHECK_DEADLOCK FALSE
