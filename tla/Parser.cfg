CONSTANTS
    MaxErrors = 6
    Compilations <- MCCompilations
    SeveralLicenses <- MCSeveralLicenses
SPECIFICATION Spec
INVARIANTS
    AcceptedMeansParsed
    PlaceholdersInModifiersOnly
    AcceptsSimpleStatements
    TreesAsWritten
PROPERTIES
    Terminates
CHECK_DEADLOCK FALSE
