SPECIFICATION Spec
CONSTANTS
    Ops = {"o1", "o2", "o3", "o4"}
    Ids = {"sensor"}
    IdOf <- MCIdOf
    HostOf <- MCHostOf
    SpecOf <- MCSpecOf
    Refusals = {"AuditUnwritable"}
    MaxLost = 1
INVARIANTS
    NoSilentOrphan
    MaterialStands
PROPERTY
    RegisterEnds
CHECK_DEADLOCK FALSE
