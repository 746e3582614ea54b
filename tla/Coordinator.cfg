SPECIFICATION FairSpec
CONSTANTS
    m1 = m1
    m2 = m2
    f1 = f1
    f2 = f2
    Msg = {m1, m2}
    Faculty = {f1}
    Loop = Loop
    Nobody = Nobody
    MaxStray = 1
    MaxOthers = 1
    MaxFaults = 1
INVARIANTS TypeOK CancelHitsItsRun NobodyStranded
PROPERTIES KeepsPromise ImplementsOneTurn PriorityAtTheDoor EveryCallerAnswered ForegroundGetsSlot
CHECK_DEADLOCK FALSE
