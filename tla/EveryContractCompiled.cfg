CONSTANTS
    Names <- MCNames
    Programs <- MCPrograms
    OpenChoices <- MCOpenChoices
SPECIFICATION Spec
PROPERTY
    EveryContractCompiled
