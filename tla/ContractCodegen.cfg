CONSTANTS
    Functions <- MCFunctions
    Modifiers <- MCModifiers
    Sites <- MCSites
    LowLevel <- MCLowLevel
    Contracts <- SmallContracts
SPECIFICATION FairSpec
INVARIANTS
    CompiledOnce
    QueuesDrained
    CompilesExactlyReachable
    DispatchesQueuedAwaits
    FailsOnlyOnSharedAwait
PROPERTY Terminates
