SPECIFICATION FairSpec
CONSTANTS
    None = None
    Plans <- MCPlans
    Destinations = {"d1", "d2"}
    Sources = {"A", "C"}
    SourceContents <- MCContents
    InitialContent <- MCInitial
    Ragged <- MCRagged
    Parallel = 2
    Slots = {1, 2}
    Inodes = {1, 2, 3, 4, 5, 6, 7, 8}
    MaxFaults <- MCMaxFaults
INVARIANTS
    ObjectsVerified
    BitmapHonest
    CopyDelivers
CHECK_DEADLOCK FALSE
PROPERTY CopyRecovers
