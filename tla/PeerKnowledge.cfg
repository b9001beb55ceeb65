SPECIFICATION FairSpec
CONSTANTS
    Sisters = {"a", "b", "c"}
    Gateways = {"g1", "g2"}
    Scenarios <- MCScenarios
    MaxLoc = 2
    None = None
PROPERTIES SequenceNeverBack  BootCompletes DeadPeersLeave
CHECK_DEADLOCK FALSE
