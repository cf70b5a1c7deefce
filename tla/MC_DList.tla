------------------------------- MODULE MC_DList -------------------------------
(* Four elements: enough for an element with neighbours on both sides,    *)
(* which is where unlink bridges pointers and where the BUG_ONs test       *)
(* nothing, and for a list with a middle pair.                            *)
EXTENDS DList

MC_Els == {"a", "b", "c", "d"}
=============================================================================
