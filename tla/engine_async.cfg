SPECIFICATION Spec
CONSTANTS
    Reqs <- R3
    RequestId <- MCRequestId
    Prompt <- MCPrompt
    MaxTokens <- MCMaxTokens
    Priority <- MCPriority
    Transfer <- MCTransfer
    RemoteBlocksMatch <- MCMatch
    Eos = 2
    Vocab = {1, 2}
    BlockSize = 2
    NumBlocks = 3
    EnablePrefixCaching = TRUE
    RecomputeLastHit = FALSE
    MaxNumSeqs = 2
    MaxNumBatchedTokens = 4
    EnableChunkedPrefill = TRUE
    LongPrefillTokenThreshold = 2
    NumSpeculativeTokens = 0
    HasConnector = TRUE
    SchedulingPolicy = "fcfs"
    AsyncScheduling = TRUE
INVARIANTS
    TypeOK
    OneQueue
    NoBlockLeak
    ReadsOwnPrefix
    HandoverIntact
    DeliveredIsCommitted
    OneFinalOutput
    DroppedNeverFits
PROPERTY
    TokensOnlyGrow
CHECK_DEADLOCK FALSE
