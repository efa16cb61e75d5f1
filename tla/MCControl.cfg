SPECIFICATION ControlFairSpec
CONSTANTS
    AltSettings = {0, 1}
    RealMacs = {"A", "B"}
    Serials = {"S"}
INVARIANTS
    ControlTypeOK
    RealMac
    VerifiedIsUsed
    HostSeesOneIdentity
PROPERTY EveryRequestEnds
