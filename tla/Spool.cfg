CONSTANTS
    Sizes <- MCSizes
    SpoolCap = 2
    MaxResets = 2
    MaxExits = 1
SPECIFICATION Spec
INVARIANTS
    PulledInOrder
    NeverEndsEarly
    ResetLeavesNoSpool
