CONSTANTS
    Argvs <- MC_Argvs
    DMax = 2
    Faults = {"OOM"}
SPECIFICATION Spec
\* the process exits in every final state
CHECK_DEADLOCK FALSE
INVARIANT InvalidArgumentFails
