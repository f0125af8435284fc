SPECIFICATION Spec
CONSTANTS
    Reqs <- R2
    RequestId <- MCRequestId
    Prompt <- MCPrompt
    MaxTokens <- MCLongMaxTokens
    Priority <- MCPriority
    Transfer <- MCNoTransfer
    RemoteBlocksMatch <- MCMatch
    Eos = 2
    Vocab = {1, 2}
    BlockSize = 2
    NumBlocks = 2
    EnablePrefixCaching = TRUE
    RecomputeLastHit = TRUE
    MaxNumSeqs = 2
    MaxNumBatchedTokens = 4
    EnableChunkedPrefill = TRUE
    LongPrefillTokenThreshold = 0
    NumSpeculativeTokens = 2
    HasConnector = FALSE
    SchedulingPolicy = "fcfs"
    AsyncScheduling = TRUE
INVARIANT DroppedNeverFits
CHECK_DEADLOCK FALSE
