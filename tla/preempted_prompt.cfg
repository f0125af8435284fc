SPECIFICATION Spec
CONSTANTS
    Reqs <- R3
    RequestId <- MCRequestId
    Prompt <- MCPrompt
    MaxTokens <- MCMaxTokens
    Priority <- MCPriority
    Transfer <- MCNoTransfer
    RemoteBlocksMatch <- MCMatch
    Eos = 2
    Vocab = {1, 2}
    BlockSize = 2
    NumBlocks = 3
    EnablePrefixCaching = FALSE
    RecomputeLastHit = FALSE
    MaxNumSeqs = 2
    MaxNumBatchedTokens = 3
    EnableChunkedPrefill = FALSE
    LongPrefillTokenThreshold = 0
    NumSpeculativeTokens = 0
    HasConnector = FALSE
    SchedulingPolicy = "priority"
    AsyncScheduling = FALSE
INVARIANT
    PreemptedIsRecomputed
CHECK_DEADLOCK FALSE
