SPECIFICATION Spec
CONSTANTS
    Calls <- MCCalls
    FreeMemory = 128
INVARIANTS
    OnlyResultsRemain
    OperandsFound
    MessageEncoded
CHECK_DEADLOCK FALSE
