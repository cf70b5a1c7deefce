------------------------------ MODULE ShfsAlloc ------------------------------
(* The volume allocator shfs_alist (shfs_alloc.h, not under src/), as       *)
(* spec 4.4 describes it: an ordered list of occupied ranges [s, e) within  *)
(* [0, VolSize + 1).  register inserts a range in order and merges it with  *)
(* the ranges it touches, unregister cuts a range out of the one range     *)
(* holding it, and find_free walks the gaps between the ranges.  Each      *)
(* operation is an operator from a list to a list (or a start chunk);      *)
(* ShfsAdmin keeps the list in its variable alloc.                         *)
EXTENDS Naturals, Sequences, SequencesExt

CONSTANTS
    VolSize,    \* vol_size: chunks are numbered 0..VolSize
    Allocator   \* "FIRST" or "BEST"

Extent == [s : 0 .. VolSize, e : 1 .. VolSize + 1]

\* the chunks a range list holds
Occupied(rl) == UNION {rl[i].s .. rl[i].e - 1 : i \in DOMAIN rl}

Overlaps(rl, s, l) == \E i \in DOMAIN rl : s < rl[i].e /\ rl[i].s < s + l

\* shfs_alist_register fails (and changes nothing) on an overlap
RegisterOk(rl, s, l) == l > 0 /\ ~Overlaps(rl, s, l)

\* shfs_alist_register: the ranges wholly before and after stay, those
\* ending at s or starting at s + l merge into the new one
AlistRegister(rl, s, l) ==
    LET e   == s + l
        adj == {rl[i] : i \in {i \in DOMAIN rl : rl[i].e = s \/ rl[i].s = e}}
        m   == [s |-> Min({s} \cup {r.s : r \in adj}),
                e |-> Max({e} \cup {r.e : r \in adj})]
    IN  IF ~RegisterOk(rl, s, l) THEN rl
        ELSE SelectSeq(rl, LAMBDA r : r.e < s) \o <<m>> \o SelectSeq(rl, LAMBDA r : r.s > e)

\* the ranges that hold all of [s, s + l)
Holders(rl, s, l) == {i \in DOMAIN rl : rl[i].s <= s /\ s + l <= rl[i].e}

\* shfs_alist_unregister fails (and changes nothing) unless the range is
\* occupied
UnregisterOk(rl, s, l) == l > 0 /\ Holders(rl, s, l) # {}

\* shfs_alist_unregister: the holding range is replaced by what is left of
\* it before and after [s, s + l)
AlistUnregister(rl, s, l) ==
    IF ~UnregisterOk(rl, s, l) THEN rl
    ELSE LET i == CHOOSE i \in Holders(rl, s, l) : TRUE
             left == [s |-> rl[i].s, e |-> s]
             right == [s |-> s + l, e |-> rl[i].e]
         IN  SubSeq(rl, 1, i - 1)
             \o SelectSeq(<<left, right>>, LAMBDA r : r.s < r.e)
             \o SubSeq(rl, i + 1, Len(rl))

\* the gaps between consecutive ranges, clipped to [2, VolSize + 1), in
\* order; a gap is [s, s + n)
GapList(rl) ==
    LET k == Len(rl)
        lo(i) == IF i = 1 THEN 2 ELSE Max({2, rl[i - 1].e})
        hi(i) == IF i = k + 1 THEN VolSize + 1 ELSE rl[i].s
    IN  SelectSeq([i \in 1 .. k + 1 |-> [s |-> lo(i), n |-> hi(i) - lo(i)]],
                  LAMBDA g : g.n > 0)

\* shfs_alist_find_free: the first gap of length >= n (FIRST), or the first
\* of the shortest such gaps (BEST); 0 for n = 0 or no such gap
AlistFindFree(rl, n) ==
    LET fits == SelectSeq(GapList(rl), LAMBDA g : g.n >= n)
        best == CHOOSE i \in DOMAIN fits :
                    \A j \in DOMAIN fits : fits[i].n < fits[j].n \/ (fits[i].n = fits[j].n /\ i <= j)
    IN  IF n = 0 \/ fits = <<>> THEN 0
        ELSE IF Allocator = "FIRST" THEN fits[1].s ELSE fits[best].s

-----------------------------------------------------------------------------
(* Free space over the set of occupied chunks *)

\* the n chunks from s are all free data chunks
FreeRun(al, s, n) == \A c \in s .. s + n - 1 : c \in 2 .. VolSize /\ c \notin al

=============================================================================
