CONSTANTS
    Names <- MCNames
    Programs <- MCPrograms
    OpenChoices <- MCOpenChoices
SPECIFICATION Spec
INVARIANTS
    ObjectsComplete
    ObjectsAnalysed
PROPERTIES
    SuccessIsComplete
