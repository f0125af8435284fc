SPECIFICATION LiveSpec
CONSTANTS
    Reqs <- R2
    RequestId <- MCRequestId
    Prompt <- MCPrompt
    MaxTokens <- MCMaxTokens
    Priority <- MCPriority
    Transfer <- MCTransfer
    RemoteBlocksMatch <- MCMatch
    Eos = 2
    Vocab = {1, 2}
    BlockSize = 2
    NumBlocks = 3
    EnablePrefixCaching = TRUE
    RecomputeLastHit = FALSE
    MaxNumSeqs = 2
    MaxNumBatchedTokens = 4
    EnableChunkedPrefill = TRUE
    LongPrefillTokenThreshold = 2
    NumSpeculativeTokens = 0
    HasConnector = TRUE
    SchedulingPolicy = "fcfs"
    AsyncScheduling = TRUE
PROPERTIES
    EveryRequestEnds
    EngineDrains
CHECK_DEADLOCK FALSE
