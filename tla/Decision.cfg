SPECIFICATION Spec
CONSTANTS
    Cases <- MCCases
CHECK_DEADLOCK FALSE
INVARIANTS
    TypeOK
    FirstMatchWins
    BaseURLModeAgrees
    TargetsAreConcerned
    VendorAccurate
    UsageIsTheUsers
    ArmedCompletely
