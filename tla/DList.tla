-------------------------------- MODULE DList --------------------------------
(* The intrusive doubly linked list of src/dlist.h: one dlist_head and the  *)
(* dlist_el fields (next, prev) of a fixed set of elements.  The macros are *)
(* operators from one list state [first, last, next, prev] to the next, so  *)
(* that dlist_relink_tail/head are the composition the code writes.  The    *)
(* client appends or prepends only elements dlist_is_linked reports as      *)
(* unlinked, and may unlink or relink any element: BUG_ON stops the program *)
(* (bug).  Elements start initialised (dlist_init_el), as dlist_is_linked   *)
(* requires.                                                                *)
EXTENDS Naturals, Sequences, SequencesExt

CONSTANTS Els, NULL

ASSUME NULL \notin Els

VARIABLES first, last, next, prev, bug

vars == <<first, last, next, prev, bug>>

Ptr == Els \cup {NULL}

\* the list state the macros read and write
L == [first |-> first, last |-> last, next |-> next, prev |-> prev]

Set(l) == /\ first' = l.first /\ last' = l.last
          /\ next' = l.next /\ prev' = l.prev

dlist_is_empty(l) == l.first = NULL

dlist_is_linked(l, e) ==
    \/ l.prev[e] # NULL \/ l.next[e] # NULL
    \/ l.first = e \/ l.last = e

\* the two BUG_ONs of dlist_unlink
UnlinkBug(l, e) == \/ l.prev[e] = NULL /\ l.first # e
                   \/ l.next[e] = NULL /\ l.last # e

\* mutation: dlist_unlink without the dlist_init_el of the element
UnlinkedNoInit(l, e) ==
    LET p == l.prev[e]
        n == l.next[e]
    IN  [first |-> IF p # NULL THEN l.first ELSE n,
         last  |-> IF n # NULL THEN l.last ELSE p,
         next  |-> IF p # NULL THEN [l.next EXCEPT ![p] = n] ELSE l.next,
         prev  |-> IF n # NULL THEN [l.prev EXCEPT ![n] = p] ELSE l.prev]

\* mutation: dlist_unlink writes prev->next without testing prev for NULL
UnlinkedUnguarded(l, e) ==
    LET p == l.prev[e]
        n == l.next[e]
        pv == IF n # NULL THEN [l.prev EXCEPT ![n] = p] ELSE l.prev
    IN  [first |-> IF p # NULL THEN l.first ELSE n,
         last  |-> IF n # NULL THEN l.last ELSE p,
         next  |-> [x \in DOMAIN l.next |-> IF x = e THEN NULL ELSE l.next[x]] @@ (p :> n),
         prev  |-> [pv EXCEPT ![e] = NULL]]

\* dlist_unlink past its BUG_ONs: bridge the neighbours, then dlist_init_el
Unlinked(l, e) ==
    LET p == l.prev[e]
        n == l.next[e]
        nx == IF p # NULL THEN [l.next EXCEPT ![p] = n] ELSE l.next
        pv == IF n # NULL THEN [l.prev EXCEPT ![n] = p] ELSE l.prev
    IN  [first |-> IF p # NULL THEN l.first ELSE n,
         last  |-> IF n # NULL THEN l.last ELSE p,
         next  |-> [nx EXCEPT ![e] = NULL],
         prev  |-> [pv EXCEPT ![e] = NULL]]

\* mutation: dlist_append does not set el->prev to the old tail
AppendedNoPrev(l, e) ==
    LET nx == IF dlist_is_empty(l) THEN l.next ELSE [l.next EXCEPT ![l.last] = e]
    IN  [first |-> IF dlist_is_empty(l) THEN e ELSE l.first,
         last  |-> e,
         next  |-> [nx EXCEPT ![e] = NULL],
         prev  |-> l.prev]

Appended(l, e) ==
    LET nx == IF dlist_is_empty(l) THEN l.next ELSE [l.next EXCEPT ![l.last] = e]
    IN  [first |-> IF dlist_is_empty(l) THEN e ELSE l.first,
         last  |-> e,
         next  |-> [nx EXCEPT ![e] = NULL],
         prev  |-> [l.prev EXCEPT ![e] = IF dlist_is_empty(l) THEN NULL ELSE l.last]]

\* mutation: dlist_prepend does not link el->next to the old head
PrependedNoNext(l, e) ==
    LET pv == IF dlist_is_empty(l) THEN l.prev ELSE [l.prev EXCEPT ![l.first] = e]
    IN  [first |-> e,
         last  |-> IF dlist_is_empty(l) THEN e ELSE l.last,
         next  |-> [l.next EXCEPT ![e] = NULL],
         prev  |-> [pv EXCEPT ![e] = NULL]]

Prepended(l, e) ==
    LET pv == IF dlist_is_empty(l) THEN l.prev ELSE [l.prev EXCEPT ![l.first] = e]
    IN  [first |-> e,
         last  |-> IF dlist_is_empty(l) THEN e ELSE l.last,
         next  |-> [l.next EXCEPT ![e] = IF dlist_is_empty(l) THEN NULL ELSE l.first],
         prev  |-> [pv EXCEPT ![e] = NULL]]

-----------------------------------------------------------------------------

(* dlist_foreach and dlist_foreach_reverse, cut off after n steps so that   *)
(* a corrupted (cyclic) list still gives a finite walk                      *)
RECURSIVE Walk(_, _, _)
Walk(e, succ, n) == IF e = NULL \/ n = 0 THEN <<>>
                    ELSE <<e>> \o Walk(succ[e], succ, n - 1)

Forward == Walk(first, next, Cardinality(Els) + 1)
Backward == Walk(last, prev, Cardinality(Els) + 1)

\* dlist_init_head, and every element after dlist_init_el
Init == /\ first = NULL /\ last = NULL
        /\ next = [e \in Els |-> NULL] /\ prev = [e \in Els |-> NULL]
        /\ bug = FALSE

dlist_append(e) ==
    /\ ~bug /\ ~dlist_is_linked(L, e)
    /\ Set(Appended(L, e)) /\ UNCHANGED bug

dlist_prepend(e) ==
    /\ ~bug /\ ~dlist_is_linked(L, e)
    /\ Set(Prepended(L, e)) /\ UNCHANGED bug

\* a BUG_ON fires: the program stops with the list as it was
BugOn(e) == UnlinkBug(L, e) /\ bug' = TRUE /\ UNCHANGED <<first, last, next, prev>>

dlist_unlink(e) ==
    /\ ~bug
    /\ \/ BugOn(e)
       \/ ~UnlinkBug(L, e) /\ Set(Unlinked(L, e)) /\ UNCHANGED bug

dlist_relink_tail(e) ==
    /\ ~bug
    /\ \/ BugOn(e)
       \/ ~UnlinkBug(L, e) /\ Set(Appended(Unlinked(L, e), e)) /\ UNCHANGED bug

dlist_relink_head(e) ==
    /\ ~bug
    /\ \/ BugOn(e)
       \/ ~UnlinkBug(L, e) /\ Set(Prepended(Unlinked(L, e), e)) /\ UNCHANGED bug

Next == \E e \in Els : \/ dlist_append(e) \/ dlist_prepend(e)
                       \/ dlist_unlink(e) \/ dlist_relink_tail(e)
                       \/ dlist_relink_head(e)

Spec == Init /\ [][Next]_vars

-----------------------------------------------------------------------------

TypeOK == /\ first \in Ptr /\ last \in Ptr
          /\ next \in [Els -> Ptr] /\ prev \in [Els -> Ptr]
          /\ bug \in BOOLEAN

(* dlist_foreach terminates after visiting each element once, and           *)
(* dlist_foreach_reverse visits the same elements in the opposite order:    *)
(* every next pointer the macros write has the matching prev pointer.       *)
WalksAgree == /\ IsInjective(Forward)
              /\ Len(Forward) <= Cardinality(Els)
              /\ Backward = Reverse(Forward)

(* dlist_is_linked reports exactly the elements dlist_foreach reaches: an   *)
(* unlinked element has no stale pointers left that would make a later      *)
(* append refuse it or a later unlink pass its BUG_ONs.                     *)
IsLinkedExact == \A e \in Els : dlist_is_linked(L, e) <=> e \in ToSet(Forward)

(* The list refines a sequence of distinct elements (DListSeq): each macro  *)
(* changes the order dlist_foreach sees exactly as its name says, and an    *)
(* unlink or relink of an element that is not in the list is always caught *)
(* by the BUG_ONs of dlist_unlink, although they test only the list ends.   *)
Abstract == INSTANCE DListSeq WITH seq <- Forward

Refinement == Abstract!Spec
=============================================================================
