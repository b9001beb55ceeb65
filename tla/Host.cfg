SPECIFICATION Spec
CONSTANTS
    Dirs = {"A", "B"}
    Names = {"one"}
    Slots = {1, 2, 3, 4}
    Plans <- MCPlans
CHECK_DEADLOCK FALSE
INVARIANTS
    RunStaysHome
    HealthyMeansServing
    UninstalledStaysDown
PROPERTY
    ServiceComesBack
