SPECIFICATION Spec
CONSTANTS
    Client = {c1, c2}
    Service = {s1}
    Port = {0, 1}
    Group = {"a", "b"}
    Submitted <- MCSubmitted
    MaxRev = 5
    None = None
SYMMETRY MCSymmetry
INVARIANTS
    TypeOK
    NoSilentOverwrite
    StatusIsHonest
    ConflictIsNews
PROPERTIES
    StoreSpec
