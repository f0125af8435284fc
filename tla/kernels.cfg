SPECIFICATION Spec
CONSTANTS
    Setups <- MCSetups
    MaxSteps = 3
    MinCapacity = 2
    StepBatches <- MCStepBatches
    Verifications <- MCVerifications
    Routings <- MCRoutings
    Mixtures <- MCMixtures
    Letters = {"a", "b"}
    StopSets <- MCStopSets
    Texts <- MCTexts
    MaxText = 6
INVARIANTS
    StepsKeepApart
    RowsLineUp
    KeysOnce
    DraftsFollow
    ExpertsAgree
    StopsOnce
CHECK_DEADLOCK FALSE
