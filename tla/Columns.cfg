CONSTANTS
    Columns <- ThreeColumns
    Key = 1
    Refusable <- LastColumn
    TTL = 2
    AddsOnly = FALSE
    MayVanish = TRUE
    MaxVersions = 3
    MaxAlters = 2
    MaxOutages = 1
    MaxRestarts = 1
SPECIFICATION Spec
INVARIANT TrustedWithinTTL
PROPERTY DriftHeals
