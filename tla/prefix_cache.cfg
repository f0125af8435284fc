SPECIFICATION Spec
CONSTANTS
    BlockSize = 2
    EnablePrefixCaching = TRUE
    RecomputeLastHit = FALSE
    NumBlocks = 3
    Reqs <- MCReqs
    Prompt <- MCPrompt
    MaxLen = 5
    Vocab = {1, 2}
    None = None
INVARIANTS
    AssertionsHold
    CacheHoldsPrefix
PROPERTY
    PoolSpec
