SPECIFICATION FairSpec
CONSTANTS
    p1 = p1
    p2 = p2
    p3 = p3
    Proc = {p1, p2, p3}
    Elsewhere = {p3}
    Daemon = p1
    Nobody = Nobody
    Ghost = Ghost
    MaxCrashes = 2
    MaxOutages = 1
INVARIANTS OneMind RecordOfTheMind NothingLeftBehind
PROPERTY MindReturns
