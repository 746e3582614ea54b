SPECIFICATION FairSpec
CONSTANTS
    m1 = m1
    m2 = m2
    t1 = t1
    t2 = t2
    s1 = s1
    Msg = {m1}
    Task = {t1}
    Schedule = {s1}
    Nothing = Nothing
    NoSchedule = NoSchedule
    MaxTimes = 2
    MaxEvents = 1
CHECK_DEADLOCK FALSE
INVARIANT OncePerDue
PROPERTIES KeepsPromise InterruptedResumes SetAsideIsServed DueIsSettled
