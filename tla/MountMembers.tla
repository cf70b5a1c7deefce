----------------------------- MODULE MountMembers -----------------------------
(* load_vol_cconf (src/shfs-tools/shfs_admin.c): the first step of          *)
(* mount_shfs.  It opens every device path, reads each SHFS label, takes    *)
(* the volume geometry from the first device's common header, maps the      *)
(* header's member UUIDs to the opened devices, and checks the stripe size  *)
(* and the member capacities.  The whole function is one step from the      *)
(* device list to an outcome: a member mapping, or dief with a reason.      *)
(* A device is [label, uuid, size]: whether checkopen_disk accepts it (block *)
(* size and shfs_detect_hdr0), its member_uuid, and its size in bytes.      *)
EXTENDS Naturals, Sequences, SequencesExt, Bitwise

CONSTANTS
    Uuids,          \* member UUIDs
    MaxTryDevs,     \* MAX_NB_TRY_BLKDEVS
    MaxMembers,     \* the longest member table of a header
    Sizes,          \* device sizes in bytes
    StripeSizes,    \* member_stripesize values in a header
    VolSizes,       \* vol_size values in a header
    Modes           \* member_stripemode values in a header

Device == [label : BOOLEAN, uuid : Uuids, size : Sizes]
Header == [members : UNION {[1 .. n -> Uuids] : n \in 1 .. MaxMembers},
           mode : Modes, stripesize : StripeSizes, volsize : VolSizes]
DeviceLists == UNION {[1 .. n -> Device] : n \in 0 .. MaxTryDevs + 1}

VARIABLES devs, hdr, result

vars == <<devs, hdr, result>>

Die(reason) == [ok |-> FALSE, why |-> reason, members |-> <<>>]

\* before load_vol_cconf has run
Pending == Die("none")

\* POWER_OF_2
IsPowerOf2(x) == x > 0 /\ x & (x - 1) = 0

\* mutation: no check that the UUID was already mapped
MemberMatchNoDupCheck(devs_, hdr_, acc, i, m) ==
    IF acc.dup \/ devs_[m].uuid # hdr_.members[i] THEN acc
    ELSE [acc EXCEPT !.map = Append(@, m)]

\* the inner loops for header member i: every detected device m whose UUID
\* matches is added (continue goes on with the next device); a match whose
\* UUID is already mapped dies
MemberMatch(devs_, hdr_, acc, i, m) ==
    IF acc.dup \/ devs_[m].uuid # hdr_.members[i] THEN acc
    ELSE IF \E j \in DOMAIN acc.map : devs_[acc.map[j]].uuid = hdr_.members[i]
         THEN [acc EXCEPT !.dup = TRUE]
         ELSE [acc EXCEPT !.map = Append(@, m)]

\* "Find and add members to the volume": the device index of each member
\* in the order found, and whether a member was found twice
MemberLoop(devs_, hdr_) ==
    FoldLeft(LAMBDA acc, i :
                FoldLeft(LAMBDA a, m : MemberMatch(devs_, hdr_, a, i, m),
                         acc, [k \in 1 .. Len(devs_) |-> k]),
             [dup |-> FALSE, map |-> <<>>], [k \in 1 .. Len(hdr_.members) |-> k])

\* mutation: the COMBINED minimum counts vol_size stripes, not vol_size + 1
MinMemberSizeVolsize(h, nb) ==
    IF h.mode = "COMBINED" THEN h.volsize * h.stripesize
    ELSE ((h.volsize + 1) \div nb) * h.stripesize

\* min_member_size: the bytes a member must hold
MinMemberSize(h, nb) ==
    IF h.mode = "COMBINED" THEN (h.volsize + 1) * h.stripesize
    ELSE ((h.volsize + 1) \div nb) * h.stripesize

\* load_vol_cconf, its checks in the order the code makes them
LoadVolCconf(devs_, hdr_) ==
    LET map == MemberLoop(devs_, hdr_).map
    IN  CASE Len(devs_) > MaxTryDevs -> Die("too_many_devices")
          [] \E i \in DOMAIN devs_ : ~devs_[i].label -> Die("bad_label")
          [] Len(devs_) = 0 -> Die("no_disk")
          [] hdr_.mode \notin {"COMBINED", "INDEPENDENT"} -> Die("stripemode")
          [] MemberLoop(devs_, hdr_).dup -> Die("member_twice")
          [] Len(map) # Len(devs_) -> Die("more_members")
          [] Len(map) # Len(hdr_.members) -> Die("no_mapping")
          [] hdr_.stripesize < 4096 \/ ~IsPowerOf2(hdr_.stripesize) -> Die("stripesize")
          [] \E k \in DOMAIN map :
                devs_[map[k]].size < MinMemberSize(hdr_, Len(map)) -> Die("too_small")
          [] OTHER -> [ok |-> TRUE, why |-> "mounted", members |-> map]

\* the device paths and the first device's header mount_shfs is given
Init == /\ devs \in DeviceLists
        /\ hdr \in Header
        /\ result = Pending

\* mount_shfs refuses an empty device list, then calls load_vol_cconf
Mount == /\ result = Pending
         /\ result' = IF Len(devs) = 0 THEN Die("no_devices")
                      ELSE LoadVolCconf(devs, hdr)
         /\ UNCHANGED <<devs, hdr>>

Next == Mount

Spec == Init /\ [][Next]_vars

-----------------------------------------------------------------------------
(* Reference: spec 4.6 steps 4 and 5 *)

\* the mappings spec 4.6 allows: each declared member has exactly one
\* opened device with its UUID, the header declares no UUID twice, and there
\* are as many devices as members; no mapping is fatal
RefMapping(d, h) ==
    LET owners(i) == {m \in DOMAIN d : d[m].uuid = h.members[i]}
    IN  IF /\ \A i \in DOMAIN h.members : Cardinality(owners(i)) = 1
           /\ IsInjective(h.members)
           /\ Len(d) = Len(h.members)
        THEN {[i \in DOMAIN h.members |-> CHOOSE m \in owners(i) : TRUE]}
        ELSE {}

\* spec 4.1: the end of the last byte chunk c puts on member k, for each
\* member, from the byte-to-member map; 0 where chunk c puts nothing on k
StripeEnd(h, nb, c, k) ==
    IF h.mode = "COMBINED" THEN (c + 1) * h.stripesize
    ELSE LET slices == {s \in 0 .. nb - 1 : (c * nb + s) % nb = k - 1}
         IN  Max({((c * nb + s) \div nb + 1) * h.stripesize : s \in slices} \cup {0})

Mounted == result.ok

(* When the label checks pass and the stripe mode is known, the member     *)
(* mapping of load_vol_cconf (the nested loops with their continue, the    *)
(* duplicate test and the two count tests) accepts exactly the device      *)
(* lists spec 4.6 accepts, and assigns the same device to every member.    *)
CodeMatchesReference ==
    /\ result # Pending
    /\ 0 < Len(devs) /\ Len(devs) <= MaxTryDevs
    /\ \A i \in DOMAIN devs : devs[i].label
    /\ hdr.mode \in {"COMBINED", "INDEPENDENT"}
    => LET ref == RefMapping(devs, hdr)
           loop == MemberLoop(devs, hdr)
       IN  IF ref = {}
           THEN ~Mounted /\ result.why \in {"member_twice", "more_members", "no_mapping"}
           ELSE ~loop.dup /\ loop.map \in ref

(* A mounted volume fits on its members: every chunk 0 .. vol_size, placed  *)
(* by the stripe mapping of spec 4.1, lies within the size of each member   *)
(* it touches, so sync_read_chunk/sync_write_chunk never leave a device.    *)
MembersHoldVolume ==
    Mounted =>
        \A c \in 0 .. hdr.volsize, k \in DOMAIN result.members :
            StripeEnd(hdr, Len(result.members), c, k) <= devs[result.members[k]].size
=============================================================================
