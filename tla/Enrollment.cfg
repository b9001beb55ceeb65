SPECIFICATION FairSpec
CONSTANTS
    Devices = {1, 2, 3, 4}
    Plans <- MCPlans
    MaxIssued = 4
    MaxSerial = 9
    Ttl = 1
INVARIANTS SerialsUnique MembershipBelongs
PROPERTIES IdentityKept DoctorExplains JoinRecovers
CHECK_DEADLOCK FALSE
