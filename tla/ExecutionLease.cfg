SPECIFICATION FairSpec
CONSTANTS
    p1 = p1
    p2 = p2
    p3 = p3
    Proc = {p1, p2, p3}
    NoProc = NoProc
    MindFile <- TwoMindFiles
    Duration = 3
    BeatGap = 1
    SlotWait = 3
    MaxFaults = 1
INVARIANTS NeverPreemptsItself HolderBacked
PROPERTIES ImplementsOneTurn PreemptionStops SomebodyThinks OverlapEnds
