CONSTANTS
    Calls = {c1, c2}
    Threads = 1
    AttemptLimit = 2
    ClientLimit = 8
    MaxCalls = 2
SPECIFICATION FairSpec
INVARIANTS ThreadBoundedTime InTimeUnlessSlow FoundIsKept RefusedAfterAll
PROPERTIES CallEnds
