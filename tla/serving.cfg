SPECIFICATION Spec
CONSTANTS
    Reqs = {r1, r2}
    Streaming = {r1}
    Scrape = scrape
    Workloads <- MCWorkloads
    MaxOutputs <- MCMaxOutputs
    r1 = r1
    r2 = r2
INVARIANTS
    TypeOK
    StreamFaithful
    NoOrphan
PROPERTIES
    EveryCallReturns
CHECK_DEADLOCK FALSE
