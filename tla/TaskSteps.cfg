SPECIFICATION FairSpec
CONSTANTS
    Plans <- SmallPlans
    MaxSteps = 2
    MaxSeq = 3
    MaxAttempts = 2
    MaxDrives = 2
    MaxReopens = 1
    StagnantLimit = 2
    MaxEvents = 1
CHECK_DEADLOCK FALSE
INVARIANT NeverStalls
PROPERTIES NoTreadmill PlanIsWorkedOff
