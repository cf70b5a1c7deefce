CONSTANTS
    Els <- MC_Els
    NULL = NULL

SPECIFICATION Spec

INVARIANTS
    TypeOK
    WalksAgree
    IsLinkedExact

PROPERTIES
    Refinement

\* after a BUG_ON the program has stopped
CHECK_DEADLOCK FALSE
