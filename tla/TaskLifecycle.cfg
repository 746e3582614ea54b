SPECIFICATION Spec
CONSTANTS
    t1 = t1
    t2 = t2
    t3 = t3
    q1 = q1
    q2 = q2
    Task = {t1, t2}
    Request = {q1, q2}
    Turn = Turn
    Engine = Engine
    Boot = Boot
    NoTask = NoTask
    MaxCalls = 4
    MaxFaults = 1
SYMMETRY Symmetry
CHECK_DEADLOCK FALSE
INVARIANT DoneIsEarned
PROPERTIES OverIsOver OnlyResumeWakes
