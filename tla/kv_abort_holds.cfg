SPECIFICATION Spec
CONSTANTS
    Reqs <- R3
    RequestId <- MCRequestId
    Prompt <- MCPrompt
    MaxTokens <- MCMaxTokens
    Priority <- MCPriority
    Transfer <- MCTransfer
    RemoteBlocksMatch <- MCMatch
    Eos = 2
    Vocab = {1, 2}
    BlockSize = 2
    NumBlocks = 3
    EnablePrefixCaching = TRUE
    RecomputeLastHit = FALSE
    MaxNumSeqs = 2
    MaxNumBatchedTokens = 3
    EnableChunkedPrefill = TRUE
    LongPrefillTokenThreshold = 0
    NumSpeculativeTokens = 0
    HasConnector = TRUE
    SchedulingPolicy = "fcfs"
    AsyncScheduling = TRUE
CHECK_DEADLOCK FALSE
INVARIANT AbortFreesBlocks
