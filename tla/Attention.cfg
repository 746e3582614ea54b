SPECIFICATION Spec
CONSTANTS
    m1 = m1
    m2 = m2
    t1 = t1
    t2 = t2
    s1 = s1
    Msg = {m1, m2}
    Task = {t1, t2}
    Schedule = {}
    Nothing = Nothing
    NoSchedule = NoSchedule
    MaxTimes = 0
    MaxEvents = 0
SYMMETRY Symmetry
CHECK_DEADLOCK FALSE
INVARIANTS NoMessageIsLost TurnOnce PausedIsOwed StopsForGood
