--------------------------- MODULE MC_ShfsAdmin ----------------------------
(* Bounds for ShfsAdmin: one bucket of 2 entries, one entry per hash-     *)
(* table chunk (table at chunks 2-3, backup at 4-5), data chunks 6..8,    *)
(* 2-byte chunks and three files of one, one full, and two chunks.        *)
EXTENDS ShfsAdmin

MC_Files == {<<1>>, <<1, 2>>, <<2, 1, 1>>}
MC_FilesLive == {<<1>>, <<2, 1, 1>>}
\* a zero-byte file (spec section 8)
MC_FilesZero == {<<>>, <<1>>}
\* three one-chunk files, for the BEST policy
MC_FilesOneChunk == {<<1>>, <<2>>, <<1, 2>>}

MC_FaultsCore == {"HashPhase", "Signal", "IOError"}
MC_FaultsCopy == {"CopyPhase"}
MC_FaultsNone == {}
MC_FaultsFlush == {"FlushFail"}
MC_FaultsSignal == {"Signal"}
=============================================================================
