------------------------------ MODULE DListSeq ------------------------------
(* What src/dlist.h promises: a list of distinct elements kept in order.   *)
(* Appending or prepending an element puts it at the tail or the head,     *)
(* unlinking takes it out wherever it is, relinking moves it to an end.    *)
(* Unlinking or relinking an element that is not in the list is a misuse   *)
(* that stops the program (bug).                                            *)
EXTENDS Sequences, SequencesExt

CONSTANT Els

VARIABLES seq, bug

vars == <<seq, bug>>

Init == seq = <<>> /\ bug = FALSE

Without(s, e) == SelectSeq(s, LAMBDA x : x # e)

Append_(e) == /\ ~bug /\ e \notin ToSet(seq)
              /\ seq' = Append(seq, e) /\ UNCHANGED bug

Prepend(e) == /\ ~bug /\ e \notin ToSet(seq)
              /\ seq' = <<e>> \o seq /\ UNCHANGED bug

\* unlinking or relinking an element that is not in the list stops the program
Misuse(e) == e \notin ToSet(seq) /\ bug' = TRUE /\ UNCHANGED seq

Moved(e, s) == e \in ToSet(seq) /\ seq' = s /\ UNCHANGED bug

Unlink(e) == ~bug /\ (Moved(e, Without(seq, e)) \/ Misuse(e))

RelinkTail(e) == ~bug /\ (Moved(e, Append(Without(seq, e), e)) \/ Misuse(e))

RelinkHead(e) == ~bug /\ (Moved(e, <<e>> \o Without(seq, e)) \/ Misuse(e))

Next == \E e \in Els : \/ Append_(e) \/ Prepend(e) \/ Unlink(e)
                       \/ RelinkTail(e) \/ RelinkHead(e)

Spec == Init /\ [][Next]_vars
=============================================================================
