--------------------------- MODULE MC_MountMembers ---------------------------
(* Two member UUIDs and up to three device paths (one more than            *)
(* MAX_NB_TRY_BLKDEVS here): enough for a missing member, a member         *)
(* declared twice, one UUID on two devices, and a surplus device.  Sizes   *)
(* and vol_size straddle the capacity threshold of both stripe modes.      *)
EXTENDS MountMembers

MC_Uuids == {"u1", "u2"}
MC_Sizes == {8192, 12288}
MC_StripeSizes == {2048, 4096, 12288}
MC_VolSizes == {1, 2}
MC_ModesCombined == {"COMBINED", "RAID5"}
MC_ModesIndependent == {"INDEPENDENT"}
=============================================================================
