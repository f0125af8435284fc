SPECIFICATION Spec
CONSTANTS
    Reqs = {r1, r2}
    r1 = r1
    r2 = r2
    Topologies <- MCTopologies
INVARIANTS
    ReadsHeldBlocks
    ReportedIsLoaded
    ReadIsReleased
PROPERTY
    KeepsPromise
CHECK_DEADLOCK FALSE
