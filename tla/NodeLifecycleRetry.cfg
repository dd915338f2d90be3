SPECIFICATION LiveSpec
CONSTANTS
    Roles <- MCServer
    Lease <- MCLease
    Member <- MCMember
    Crashes = FALSE
PROPERTIES
    TaskIsRetried
