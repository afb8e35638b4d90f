SPECIFICATION Spec
CONSTANTS
    MAXINDEXRK = 1
    LFIELDS_PER_FLUSH = 2
    STACKSIZE = 30
    Names <- MCNames
    Programs <- MCPrograms
INVARIANTS MeansTheSame NoAssertFails
CHECK_DEADLOCK FALSE
