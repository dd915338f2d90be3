SPECIFICATION LiveSpec
CONSTANTS
    Roles <- MCRoles
    Lease <- MCLease
    Member <- MCMember
    Crashes = TRUE
INVARIANTS
    TypeOK
    HealthyIsRegistered
PROPERTIES
    StaysRegistered
    GoneIsForgotten
