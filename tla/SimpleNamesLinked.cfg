CONSTANTS
    Names <- MCNames
    Programs <- MCPrograms
    OpenChoices <- MCOpenChoices
    Invocations <- MCInvocations
    Libraries <- MCLibraries
    SimpleName <- MCSimpleName
    Underscored <- MCUnderscored
    LibraryUses <- MCLibraryUses
    MaxRuns = 3
SPECIFICATION CSpec
CHECK_DEADLOCK FALSE
INVARIANT
    SimpleNamesLinked
