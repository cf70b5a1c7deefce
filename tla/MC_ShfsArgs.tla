----------------------------- MODULE MC_ShfsArgs -----------------------------
EXTENDS ShfsArgs

\* every argument vector of up to three words
MC_Argvs == SeqOf(Words, 3)
=============================================================================
