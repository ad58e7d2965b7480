CONSTANTS
    WordBits = 6
    Widths = {3, 6}
    SmallPowers <- MCSmallPowers
    LiteralBases <- MCLiteralBases
    Operands <- MCOperands
SPECIFICATION Spec
CONSTRAINT Promised
INVARIANTS
    OutcomeAsExpected
    WordMeansValue
CHECK_DEADLOCK FALSE
