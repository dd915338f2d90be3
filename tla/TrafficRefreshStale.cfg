SPECIFICATION Spec
CONSTANTS
    Service = {s1, s2}
    Port = {1}
    Group = {"a", "b"}
    Config <- MCMixed
    Contended <- MCContended
    MaxRev = 2
    None = None
    Unset = Unset
PROPERTIES
    PlanMovesForward
CHECK_DEADLOCK FALSE
