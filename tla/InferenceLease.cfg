SPECIFICATION FairSpec
CONSTANTS
    p1 = p1
    p2 = p2
    l1 = l1
    l2 = l2
    Proc = {p1, p2}
    Line = {l1, l2}
    Nobody = Nobody
INVARIANT SemFollowsTheCall
PROPERTIES OneGeneration EveryCallEnds OneLeak
