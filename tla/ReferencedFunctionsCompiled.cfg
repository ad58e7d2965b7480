CONSTANTS
    Functions <- MCFunctions
    Modifiers <- MCModifiers
    Sites <- MCSites
    LowLevel <- MCLowLevel
    Contracts <- LateAwaitContracts
SPECIFICATION Spec
INVARIANT ReferencedFunctionsCompiled
