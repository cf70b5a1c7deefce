CONSTANTS
    Uuids <- MC_Uuids
    MaxTryDevs = 2
    MaxMembers = 3
    Sizes <- MC_Sizes
    StripeSizes <- MC_StripeSizes
    VolSizes <- MC_VolSizes
    Modes <- MC_ModesIndependent

SPECIFICATION Spec

INVARIANTS
    MembersHoldVolume

\* load_vol_cconf runs once per process: the outcome is final
CHECK_DEADLOCK FALSE
