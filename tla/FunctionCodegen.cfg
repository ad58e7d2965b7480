CONSTANTS
    Vars <- MCVars
    Marks <- MCMarks
    Statements <- MCStatements
    ScopesIn <- MCScopesIn
    Programs <- MCPrograms
    Reach = 16
SPECIFICATION FairSpec
INVARIANTS
    HeightsAgree
    ReadsFindVariable
    FrameRemoved
    NeverAsserts
    ModifiersRunToTheEnd
PROPERTY CompilerTerminates
