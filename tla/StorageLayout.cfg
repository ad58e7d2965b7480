CONSTANTS
    Base = 16
    SlotBytes = 5
    MaxArrayLength = 7
    Slots = 8
    Shapes <- MCShapes
SPECIFICATION Spec
VIEW View
INVARIANTS
    NothingBehind
PROPERTIES
    ImplementsArrays
