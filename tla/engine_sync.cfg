SPECIFICATION Spec
CONSTANTS
    Reqs <- R3
    RequestId <- MCDistinctIds
    Prompt <- MCPrompt
    MaxTokens <- MCMaxTokens
    Priority <- MCPriority
    Transfer <- MCNoTransfer
    RemoteBlocksMatch <- MCMatch
    Eos = 2
    Vocab = {1, 2}
    BlockSize = 2
    NumBlocks = 4
    EnablePrefixCaching = TRUE
    RecomputeLastHit = FALSE
    MaxNumSeqs = 2
    MaxNumBatchedTokens = 4
    EnableChunkedPrefill = FALSE
    LongPrefillTokenThreshold = 0
    NumSpeculativeTokens = 0
    HasConnector = FALSE
    SchedulingPolicy = "priority"
    AsyncScheduling = FALSE
INVARIANTS
    BatchWithinLimits
    WholePromptsOnly
CHECK_DEADLOCK FALSE
