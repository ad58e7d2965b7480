CONSTANTS
    Names <- MCNames
    Programs <- MCPrograms
    OpenChoices <- MCOpenChoices
    Inputs <- MCInputs
    Pointers = {p1, p2, p3}
    None = None
SPECIFICATION SSpec
SYMMETRY Symmetry
CHECK_DEADLOCK FALSE
INVARIANTS
    CompleteWithoutError
    FailuresReported
    OwnershipExact
