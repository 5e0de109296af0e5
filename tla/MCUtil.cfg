CONSTANTS
    HoursOfDay = 2
    FirstOf <- MCFirstOf
    EveryDay = 8
    Horizon <- MCHorizon
    timeCycle = 2
    countLimit = 2
    Weights <- MCWeights
    Slices <- MCSlices
    Picked = {"a", "b"}
SPECIFICATION Spec
CHECK_DEADLOCK FALSE
INVARIANTS
    RefreshIsDue
    CoolDownHolds
    ChoiceIsComplete
