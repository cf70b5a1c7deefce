----------------------------- MODULE ShfsAdmin -----------------------------
(***************************************************************************)
(* The SHFS volume as shfs_admin (src/shfs-tools/shfs_admin.c) changes it: *)
(* a process mounts the volume, runs its tokens one by one (add-obj,       *)
(* rm-obj, cat-obj, set-default, clear-default, info), and unmounts,       *)
(* writing modified hash-table chunks back.  A signal may set `cancel` at  *)
(* any time; the process may crash; write-back may fail.  The disk         *)
(* persists across processes.                                              *)
(*                                                                         *)
(* The bucket table, allocator and chunk I/O live outside src/ and follow  *)
(* spec.md sections 4.1, 4.3 and 4.4; the allocator is module ShfsAlloc.   *)
(***************************************************************************)
EXTENDS Naturals, Sequences, FiniteSets, SequencesExt, ShfsAlloc

CONSTANTS
    NbBuckets,          \* htable_bucket_count
    EntriesPerBucket,   \* htable_entries_per_bucket
    EntriesPerChunk,    \* SHFS_HENTRIES_PER_CHUNK(chunksize)
    HtableRef,          \* first chunk of the primary hash table
    HtableBakRef,       \* first chunk of the backup hash table, 0 if none
    ChunkSize,          \* bytes per chunk
    Files,              \* contents (byte sequences) of the files add-obj is given
    Faults,             \* the failures the environment may produce
    MaxTokens,          \* most tokens on one command line
    NoHash,             \* the all-zero digest of an empty slot
    BadHex              \* a digest argument hash_parse rejects

ASSUME /\ NbBuckets \in Nat \ {0} /\ EntriesPerBucket \in Nat \ {0}
       /\ EntriesPerChunk \in Nat \ {0} /\ ChunkSize \in Nat \ {0}
       /\ Allocator \in {"FIRST", "BEST"} /\ MaxTokens \in Nat
       /\ Faults \subseteq {"HashPhase", "CopyPhase", "Signal", "IOError",
                            "FlushFail"}
       /\ \A f \in Files : f \in Seq(Nat \ {0})

VARIABLES
    phase,      \* "up" while a process has the volume mounted
    htPrimary,  \* on-disk primary hash table, one hentry per slot
    htBackup,   \* on-disk backup hash table
    data,       \* on-disk chunk contents
    htable,     \* htable_chunk_cache: the pinned in-memory hentries
    dirty,      \* hash-table chunks with CCS_MODIFIED set
    alloc,      \* shfs_vol.al: the allocator's range list
    def,        \* shfs_vol.def_bentry
    cancel,     \* set by sigint_handler
    ret,        \* ret of the token the last step executed
    ntok        \* tokens this process has executed

vars == <<phase, htPrimary, htBackup, data, htable, dirty, alloc, def,
          cancel, ret, ntok>>

-----------------------------------------------------------------------------
(* Geometry (SHFS_HTABLE_* macros) *)

NbEntries == NbBuckets * EntriesPerBucket
Slots == 0 .. NbEntries - 1
HtableLen == (NbEntries + EntriesPerChunk - 1) \div EntriesPerChunk
HtChunkOf(i) == i \div EntriesPerChunk
Chunks == 0 .. VolSize
NoSlot == -1

\* DIV_ROUND_UP(len, chunksize)
NbChunks(len) == (len + ChunkSize - 1) \div ChunkSize

Region(ref) == IF ref = 0 THEN {} ELSE ref .. ref + HtableLen - 1
Reserved == {0, 1} \cup Region(HtableRef) \cup Region(HtableBakRef)

MaxLen == Max({Len(f) : f \in Files})

(* The digest actn_addfile computes: the hash loop reads chunksize bytes   *)
(* per round and fsize % chunksize in the last round, and hashes what it   *)
(* read.  An ideal hash is injective, so the digest is those bytes.        *)
CodeDigest(f) ==
    LET csize == NbChunks(Len(f))
    IN  IF csize = 0 THEN <<>>
        ELSE SubSeq(f, 1, (csize - 1) * ChunkSize + (Len(f) % ChunkSize))

Digests == {CodeDigest(f) : f \in Files}

\* prefix_index(h, nb_buckets): the leading byte of the digest
Bucket(h) == IF h = <<>> THEN 0 ELSE h[1] % NbBuckets
BucketSlots(h) == LET b == Bucket(h)
                  IN  b * EntriesPerBucket .. (b + 1) * EntriesPerBucket - 1

Hentry == [hash : Digests \cup {NoHash}, chunk : Chunks,
           len : 0 .. MaxLen, flags : SUBSET {"DEFAULT"}]
EmptyHentry == [hash |-> NoHash, chunk |-> 0, len |-> 0, flags |-> {}]

IsUsed(e) == e.hash # NoHash
Container(e) == e.chunk .. e.chunk + NbChunks(e.len) - 1

-----------------------------------------------------------------------------
(* Bucket table (spec 4.3) over the cached hentries *)

\* shfs_btable_lookup: the slots of bucket(h) holding h; none when
\* hash_parse rejected the argument
Lookup(h) == IF h \notin Digests THEN {}
             ELSE {s \in BucketSlots(h) : htable[s].hash = h}

\* shfs_btable_addentry: the empty slots of bucket(h)
FreeSlots(h) == {s \in BucketSlots(h) : ~IsUsed(htable[s])}

-----------------------------------------------------------------------------
(* Driver *)

TokenEnabled == phase = "up" /\ ~cancel

\* main's token loop runs the next token (the list has at most MaxTokens)
TokenStep == TokenEnabled /\ ntok < MaxTokens /\ ntok' = ntok + 1

\* a token returning ret r < 0 without touching the volume
Fail(r) == /\ ret' = r
           /\ cancel' = (r = "cancel")
           /\ UNCHANGED <<htable, dirty, alloc, def, data>>

FailRets == {"err", "cancel"}

NewEntry(f, cchk) == [hash |-> CodeDigest(f), chunk |-> cchk,
                      len |-> Len(f), flags |-> {}]

\* mutation: the last block is written without the memset padding
FileChunkUnpadded(f, k) ==
    SubSeq(f, k * ChunkSize + 1, Min({Len(f), (k + 1) * ChunkSize}))

\* chunk k (0-based) of f as the copy loop writes it, zero-padded
FileChunk(f, k) ==
    LET part == SubSeq(f, k * ChunkSize + 1, Min({Len(f), (k + 1) * ChunkSize}))
    IN  part \o [i \in 1 .. ChunkSize - Len(part) |-> 0]

CopyChunksShort(f, cchk, w) ==
    [c \in Chunks |-> IF c \in cchk .. cchk + w - 2
                      THEN FileChunk(f, c - cchk) ELSE data[c]]

\* data after the copy loop wrote the first w chunks of f at cchk
CopyChunks(f, cchk, w) ==
    [c \in Chunks |-> IF c \in cchk .. cchk + w - 1
                      THEN FileChunk(f, c - cchk) ELSE data[c]]

\* mutation: the error path skips err_release_container
AddKeepOnHashFault(cchk, csize) == alloc' = AlistRegister(alloc, cchk, csize)

\* the container was registered; the hash loop failed or was cancelled and
\* err_release_container unregisters it
AddReleaseOnHashFault(cchk, csize) ==
    alloc' = AlistUnregister(AlistRegister(alloc, cchk, csize), cchk, csize)

\* mutation: no lookup before shfs_btable_addentry
AddDuplicateUnchecked(h) == FALSE

\* lookup found the digest: "An entry with the same hash already exists"
AddDuplicate(h) == Lookup(h) # {}

\* "Could not find appropriate volume area": find_free found nothing, or
\* a container starting at vol_size or beyond
NoContainer(cchk, csize) == cchk = 0 \/ cchk >= VolSize

(* actn_addfile.  A failure or cancel in the copy loop jumps to            *)
(* err_free_tmp_chk after the hentry was committed: the container is       *)
(* unregistered but the entry stays.                                       *)
AddFile(f) ==
    LET csize == NbChunks(Len(f))
        cchk  == AlistFindFree(alloc, csize)
        h     == CodeDigest(f)
    IN
    /\ TokenStep
    /\ \/ /\ NoContainer(cchk, csize)
          /\ Fail("err")
       \/ /\ ~NoContainer(cchk, csize)
          /\ "HashPhase" \in Faults
          /\ \E r \in FailRets :
                /\ ret' = r /\ cancel' = (r = "cancel")
                /\ AddReleaseOnHashFault(cchk, csize)
                /\ UNCHANGED <<htable, dirty, def, data>>
       \/ /\ ~NoContainer(cchk, csize)
          /\ (AddDuplicate(h) \/ FreeSlots(h) = {})
          /\ Fail("err")
       \/ /\ ~NoContainer(cchk, csize)
          /\ ~AddDuplicate(h)
          /\ \E s \in FreeSlots(h) :
                /\ htable' = [htable EXCEPT ![s] = NewEntry(f, cchk)]
                /\ dirty' = dirty \cup {HtChunkOf(s)}
          /\ UNCHANGED def
          /\ \/ /\ data' = CopyChunks(f, cchk, csize)
                /\ alloc' = AlistRegister(alloc, cchk, csize)
                /\ ret' = "ok"
                /\ UNCHANGED cancel
             \/ /\ "CopyPhase" \in Faults
                /\ \E w \in 0 .. csize, r \in FailRets :
                      /\ r = "err" => w < csize
                      /\ r = "cancel" => w >= 1
                      /\ data' = CopyChunks(f, cchk, w)
                      /\ alloc' = AlistUnregister(AlistRegister(alloc, cchk, csize), cchk, csize)
                      /\ ret' = r /\ cancel' = (r = "cancel")
    /\ UNCHANGED <<phase, htPrimary, htBackup>>

\* mutation: rm-obj forgets CCS_MODIFIED
RmNoDirty(s) == dirty' = dirty

\* rm-obj marks the hash-table chunk of the cleared entry modified
RmMarkDirty(s) == dirty' = dirty \cup {HtChunkOf(s)}

(* actn_rmfile: def_bentry is not consulted *)
RmFile(h) ==
    /\ TokenStep
    /\ \/ /\ Lookup(h) = {}
          /\ Fail("err")
       \/ \E s \in Lookup(h) :
             LET e == htable[s]
             IN  \/ /\ ~UnregisterOk(alloc, e.chunk, NbChunks(e.len))
                    /\ Fail("err")
                 \/ /\ UnregisterOk(alloc, e.chunk, NbChunks(e.len))
                    /\ alloc' = AlistUnregister(alloc, e.chunk, NbChunks(e.len))
                    /\ htable' = [htable EXCEPT ![s].hash = NoHash]
                    /\ RmMarkDirty(s)
                    /\ ret' = "ok"
                    /\ UNCHANGED <<cancel, def, data>>
    /\ UNCHANGED <<phase, htPrimary, htBackup>>

(* actn_catfile: reads only; a volume read or stdout write may fail *)
CatFile(h) ==
    /\ TokenStep
    /\ \/ /\ Lookup(h) = {}
          /\ Fail("err")
       \/ /\ Lookup(h) # {}
          /\ \/ ret' = "ok" /\ UNCHANGED cancel
             \/ "IOError" \in Faults /\ Fail("err")
          /\ UNCHANGED <<htable, dirty, alloc, def, data>>
    /\ UNCHANGED <<phase, htPrimary, htBackup>>

\* bentry_clearflags(def_bentry, DEFAULT) as done by actn_cleardefault
ClearedDefault == [htable EXCEPT ![def].flags = @ \ {"DEFAULT"}]

(* actn_cleardefault *)
ClearDefault ==
    /\ TokenStep
    /\ \/ def = NoSlot /\ UNCHANGED <<htable, dirty>>
       \/ /\ def # NoSlot
          /\ htable' = ClearedDefault
          /\ dirty' = dirty \cup {HtChunkOf(def)}
    /\ def' = NoSlot
    /\ ret' = "ok"
    /\ UNCHANGED <<phase, htPrimary, htBackup, data, alloc, cancel>>

\* mutation: actn_setdefault without the call of actn_cleardefault
SetDefaultNotCleared == htable

\* the cache after actn_setdefault's call of actn_cleardefault
SetDefaultCleared == IF def = NoSlot THEN htable ELSE ClearedDefault

(* actn_setdefault *)
SetDefault(h) ==
    /\ TokenStep
    /\ \/ /\ Lookup(h) = {}
          /\ Fail("err")
       \/ \E s \in Lookup(h) :
             /\ htable' = [SetDefaultCleared EXCEPT ![s].flags = @ \cup {"DEFAULT"}]
             /\ dirty' = dirty \cup {HtChunkOf(s)}
                          \cup (IF def = NoSlot THEN {} ELSE {HtChunkOf(def)})
             /\ def' = s
             /\ ret' = "ok"
             /\ UNCHANGED <<cancel, alloc, data>>
    /\ UNCHANGED <<phase, htPrimary, htBackup>>

(* actn_info: `if (!hdr_config)` reads an uninitialised pointer, so the    *)
(* token may fail before reading; the reads themselves may fail.           *)
Info ==
    /\ TokenStep
    /\ \/ ret' = "ok" /\ UNCHANGED cancel
       \/ Fail("err")
    /\ UNCHANGED <<phase, htPrimary, htBackup, data, htable, dirty, alloc, def>>

(* sigint_handler *)
Signal ==
    /\ phase = "up" /\ ~cancel
    /\ "Signal" \in Faults
    /\ cancel' = TRUE
    /\ UNCHANGED <<phase, htPrimary, htBackup, data, htable, dirty, alloc,
                   def, ret, ntok>>

-----------------------------------------------------------------------------
(* Mount and unmount *)

\* the process has exited: nothing of shfs_vol survives
ProcessGone ==
    /\ phase' = "down"
    /\ htable' = [s \in Slots |-> EmptyHentry]
    /\ dirty' = {} /\ alloc' = <<>> /\ def' = NoSlot
    /\ cancel' = FALSE /\ ret' = "none" /\ ntok' = 0

\* load_vol_htable: every slot's DEFAULT flag is tested, empty or not,
\* and the last one wins
MountDefault(img) ==
    LET flagged == {s \in Slots : "DEFAULT" \in img[s].flags}
    IN  IF flagged = {} THEN NoSlot ELSE Max(flagged)

\* load_vol_alist: the label, the hash table and its backup, then every
\* container in iteration order; a register that overlaps fails and its
\* result is ignored
MountAlloc(img) ==
    LET tables == AlistRegister(AlistRegister(<<>>, 0, 2), HtableRef, HtableLen)
        fixed  == IF HtableBakRef = 0 THEN tables
                  ELSE AlistRegister(tables, HtableBakRef, HtableLen)
    IN  FoldLeft(LAMBDA al, s :
                    IF IsUsed(img[s])
                    THEN AlistRegister(al, img[s].chunk, NbChunks(img[s].len)) ELSE al,
                 fixed,
                 [k \in 1 .. NbEntries |-> k - 1])

(* mount_shfs *)
Mount ==
    /\ phase = "down"
    /\ phase' = "up"
    /\ htable' = htPrimary
    /\ def' = MountDefault(htPrimary)
    /\ alloc' = MountAlloc(htPrimary)
    /\ dirty' = {}
    /\ cancel' = FALSE /\ ret' = "none" /\ ntok' = 0
    /\ UNCHANGED <<htPrimary, htBackup, data>>

\* mutation: the write-back loop stops after the first modified chunk
FlushWritesFirstOnly ==
    LET order == SetToSortSeq(dirty, <)
        one(i) == IF HtableBakRef = 0 THEN <<[reg |-> "P", i |-> i]>>
                  ELSE <<[reg |-> "P", i |-> i], [reg |-> "B", i |-> i]>>
    IN  IF order = <<>> THEN <<>> ELSE one(order[1])

\* the chunk writes umount_shfs issues, in order: for each modified chunk,
\* primary then backup
FlushWrites ==
    LET order == SetToSortSeq(dirty, <)
        one(i) == IF HtableBakRef = 0 THEN <<[reg |-> "P", i |-> i]>>
                  ELSE <<[reg |-> "P", i |-> i], [reg |-> "B", i |-> i]>>
    IN  FlattenSeq([k \in DOMAIN order |-> one(order[k])])

\* a hash-table region after the writes ws to it
Flushed(img, ws, reg) ==
    [s \in Slots |-> IF \E k \in DOMAIN ws : ws[k] = [reg |-> reg, i |-> HtChunkOf(s)]
                     THEN htable[s] ELSE img[s]]

\* mutation: a cancelled process exits before umount_shfs writes back
UmountSkipOnCancel ==
    /\ phase = "up"
    /\ LET ws == IF cancel THEN <<>> ELSE FlushWrites
       IN  \E n \in 0 .. Len(ws) :
              /\ n < Len(ws) => "FlushFail" \in Faults
              /\ htPrimary' = Flushed(htPrimary, SubSeq(ws, 1, n), "P")
              /\ htBackup' = Flushed(htBackup, SubSeq(ws, 1, n), "B")
    /\ ProcessGone
    /\ UNCHANGED data

(* umount_shfs: a write error dies after the writes before it *)
Umount ==
    /\ phase = "up"
    /\ LET ws == FlushWrites
       IN  \E n \in 0 .. Len(ws) :
              /\ n < Len(ws) => "FlushFail" \in Faults
              /\ htPrimary' = Flushed(htPrimary, SubSeq(ws, 1, n), "P")
              /\ htBackup' = Flushed(htBackup, SubSeq(ws, 1, n), "B")
    /\ ProcessGone
    /\ UNCHANGED data

-----------------------------------------------------------------------------

\* a freshly made volume, unmounted
Init ==
    /\ phase = "down"
    /\ htPrimary = [s \in Slots |-> EmptyHentry]
    /\ htBackup = [s \in Slots |-> EmptyHentry]
    /\ data = [c \in Chunks |-> [i \in 1 .. ChunkSize |-> 0]]
    /\ htable = [s \in Slots |-> EmptyHentry]
    /\ dirty = {} /\ alloc = <<>> /\ def = NoSlot
    /\ cancel = FALSE /\ ret = "none" /\ ntok = 0

DigestArgs == Digests \cup {BadHex}

Next ==
    \/ Mount
    \/ Umount
    \/ Signal
    \/ \E f \in Files : AddFile(f)
    \/ \E h \in DigestArgs : RmFile(h) \/ CatFile(h) \/ SetDefault(h)
    \/ ClearDefault
    \/ Info

Spec == Init /\ [][Next]_vars

\* main's token list is finite and every token returns, after which
\* umount_shfs runs whether or not the run was cancelled
LiveSpec == Spec /\ WF_vars(Umount)

-----------------------------------------------------------------------------
(* Properties *)

TypeOK ==
    /\ phase \in {"down", "up"}
    /\ htPrimary \in [Slots -> Hentry] /\ htBackup \in [Slots -> Hentry]
    /\ htable \in [Slots -> Hentry]
    /\ data \in [Chunks -> [1 .. ChunkSize -> 0 .. Max(UNION {ToSet(f) : f \in Files})]]
    /\ dirty \subseteq 0 .. HtableLen - 1
    /\ alloc \in Seq(Extent)
    /\ def \in Slots \cup {NoSlot}
    /\ cancel \in BOOLEAN
    /\ ret \in {"none", "ok", "err", "cancel"}
    /\ ntok \in 0 .. MaxTokens

UsedSlots(img) == {s \in Slots : IsUsed(img[s])}

\* a hash table is consistent when its digests are unique and its
\* containers lie in the data area and do not overlap
ConsistentImage(img) ==
    \A s, t \in UsedSlots(img) :
        /\ Container(img[s]) \subseteq (2 .. VolSize) \ Reserved
        /\ s # t => /\ img[s].hash # img[t].hash
                    /\ Container(img[s]) \cap Container(img[t]) = {}

(* While mounted, the allocator holds exactly the label, the hash-table    *)
(* regions and the containers of the non-empty entries, and the            *)
(* containers are disjoint (spec 3 and 8).  Covers the register/unregister *)
(* pairs of actn_addfile's error paths and actn_rmfile.                    *)
AllocMatchesEntries ==
    phase = "up" =>
        /\ ConsistentImage(htable)
        /\ Occupied(alloc) = Reserved \cup UNION {Container(htable[s]) : s \in UsedSlots(htable)}

(* No two non-empty entries carry the same digest, in memory or on the     *)
(* primary table: the lookup before shfs_btable_addentry in actn_addfile.  *)
UniqueDigests ==
    \A img \in {htable, htPrimary} :
        \A s, t \in UsedSlots(img) : s # t => img[s].hash # img[t].hash

(* Every non-empty entry flagged DEFAULT is def_bentry, so at most one is  *)
(* (actn_setdefault clears the previous default first).                    *)
DefaultFlagTracked ==
    phase = "up" =>
        \A s \in UsedSlots(htable) : "DEFAULT" \in htable[s].flags => s = def

(* def_bentry refers to a non-empty entry that carries DEFAULT (spec 3).   *)
DefaultRefValid ==
    phase = "up" /\ def # NoSlot =>
        IsUsed(htable[def]) /\ "DEFAULT" \in htable[def].flags

(* A cached hash-table chunk without CCS_MODIFIED equals its copies on     *)
(* disk: every handler that changes an hentry marks its chunk modified.    *)
CleanChunksMatchDisk ==
    phase = "up" =>
        \A s \in Slots : HtChunkOf(s) \notin dirty =>
            /\ htable[s] = htPrimary[s]
            /\ HtableBakRef # 0 => htable[s] = htBackup[s]

\* the bytes actn_catfile writes for entry e
CatBytes(e) ==
    SubSeq(FlattenSeq([k \in 1 .. NbChunks(e.len) |-> data[e.chunk + k - 1]]),
           1, e.len)

(* Exporting an object yields bytes for which the add path computes the    *)
(* object's digest: the copy loop wrote what was hashed, at the container  *)
(* the entry names, and nothing overwrote it since.                        *)
ExportRoundTrip ==
    phase = "up" =>
        \A s \in UsedSlots(htable) : CodeDigest(CatBytes(htable[s])) = htable[s].hash

(* The digest of every object is the hash of its whole content (spec 2,    *)
(* 8: content addressing).                                                 *)
DigestIsContentHash ==
    phase = "up" =>
        \A s \in UsedSlots(htable) : CatBytes(htable[s]) = htable[s].hash

\* the primary or the backup hash table is consistent, so the volume can
\* be recovered from one of them
DiskImageRecoverable ==
    \/ ConsistentImage(htPrimary)
    \/ HtableBakRef # 0 /\ ConsistentImage(htBackup)

(* An unmount that starts with both hash tables consistent leaves at      *)
(* least one of them consistent, even when a write fails part-way and the  *)
(* process dies (spec 4.5: all primary chunks first, then all backup).     *)
FlushLeavesRecoverableCopy ==
    [][/\ phase = "up" /\ phase' = "down"
       /\ ConsistentImage(htPrimary) /\ ConsistentImage(htBackup)
       => DiskImageRecoverable']_vars

(* Every digest a process leaves in a slot of the in-memory hash table,   *)
(* an added entry or the empty digest of a removed one, is eventually in   *)
(* that slot of the primary table, unless a later token of the same        *)
(* process replaces it: umount_shfs writes back every CCS_MODIFIED chunk,  *)
(* also after a cancel.                                                    *)
CommittedReachesDisk ==
    \A s \in Slots, d \in Digests \cup {NoHash} :
        phase = "up" /\ htable[s].hash = d
            ~> \/ phase = "up" /\ htable[s].hash # d
               \/ htPrimary[s].hash = d

\* a free run of n chunks starting below vol_size, where a container that
\* actn_addfile accepts may begin
Room(al, n) == \E s \in 2 .. VolSize - 1 : FreeRun(al, s, n)

(* actn_addfile gives up with "Could not find appropriate volume area"     *)
(* only when the volume has no room for the file: an add-obj step of f     *)
(* that fails although f is not a duplicate and its bucket has a free      *)
(* entry leaves no free run of f's chunk count below vol_size.  The gap is *)
(* the one shfs_alist_find_free chooses, and the cchk >= volsize test may  *)
(* reject it.  Meant for runs without I/O faults, where these are the only *)
(* ways an add fails.                                                      *)
AddFailsOnlyWithoutRoom ==
    [][\A f \in Files :
          LET h == CodeDigest(f)
          IN  AddFile(f) /\ ret' = "err" /\ ~AddDuplicate(h) /\ FreeSlots(h) # {}
              => ~Room(Occupied(alloc), NbChunks(Len(f)))]_vars


=============================================================================
