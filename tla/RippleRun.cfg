SPECIFICATION Spec
CONSTANTS
    Modules = {1, 2}
    Outside = {}
    Ecosystem = {1, 2}
    Checks = {1}
    Parts = {0, 1, 2}
    Packages0 <- Pair
    Versions0 <- AllOne
    Released0 <- PairReleased
    Roots = {1}
    Order <- PairOrder
    Config <- Settings
    ByHand = TRUE
    Elsewhere = {1, 2}
    MaxForeign = 1
INVARIANTS
    CascadeCoherent
    BumpedOnce
    ReleasesResolve
PROPERTIES
    RunSettles
CHECK_DEADLOCK FALSE
