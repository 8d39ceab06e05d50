-------------------------------- MODULE Lists --------------------------------
(***************************************************************************)
(* common/list.h and common/tree.h: circular doubly linked lists whose     *)
(* links live in the objects, and trees of such lists.  A memory m has     *)
(* the links of all objects:                                               *)
(*   m.prev, m.next   object -> its neighbours on the ring it is on        *)
(*   m.father         object -> its father, or NULL                        *)
(*   m.sons           object -> the head of the list of its sons           *)
(* A head is a struct list_it: the first object and the last one.          *)
(***************************************************************************)
EXTENDS Integers

NULL == 0

LIST_NULL == [now |-> NULL, last |-> NULL]

list_get_it(m, n) == [now |-> n, last |-> m.prev[n]]

\* list_tk(): fasten two strings of a list, or unfasten them if they are on one
\* ring.  An empty string becomes the other one.
list_tk(m, i0, i1) ==
  LET a == IF i0.now = NULL THEN i1 ELSE i0
      b == IF i1.now = NULL THEN i0 ELSE i1
      linked == [m EXCEPT !.prev = [@ EXCEPT ![a.now] = b.last, ![b.now] = a.last],
                          !.next = [@ EXCEPT ![a.last] = b.now, ![b.last] = a.now]]
  IN  [mem |-> linked,
       i0  |-> [now |-> a.now, last |-> b.last],
       i1  |-> list_get_it(linked, b.now)]

\* tree_attach(), with list_insert_one_at_tail().
tree_attach(m, n, to) ==
  LET tied == list_tk(m, m.sons[to], list_get_it(m, n))
  IN  IF m.father[n] # NULL
      THEN m
      ELSE [tied.mem EXCEPT !.sons[to] = tied.i0, !.father[n] = to]

\* Fault for the mutation test: the head is left at what it was.
UnlinkedFromRing(m, n) ==
  IF m.sons[m.father[n]].now = m.sons[m.father[n]].last
  THEN [m EXCEPT !.sons[m.father[n]] = LIST_NULL]
  ELSE list_tk(m, list_get_it(m, n), list_get_it(m, m.next[n])).mem

\* list_detach_one(): what is left of the list of n's father.
Unlinked(m, n) ==
  LET f     == m.father[n]
      cut   == list_tk(m, list_get_it(m, n), list_get_it(m, m.next[n])).mem
      first == IF m.sons[f].now = n THEN m.next[n] ELSE m.sons[f].now
  IN  IF m.sons[f].now = m.sons[f].last
      THEN [m EXCEPT !.sons[f] = LIST_NULL]
      ELSE [cut EXCEPT !.sons[f] = list_get_it(cut, first)]

\* tree_detach() of a node that has a father.
tree_detach(m, n) == [Unlinked(m, n) EXCEPT !.father[n] = NULL]

---------------------------------------------------------------------------
(* list_foreach(): a place in a list is the current object and the one to  *)
(* go on with, which is looked up before the callback runs                 *)

Place(m, n) == [now |-> n, fwd |-> m.next[n]]

\* The place after an insertion at the tail of some list.
AfterInsert(m, place) == Place(m, place.now)

\* The place after n was detached: one step back, so that the next one is the
\* object that followed n.
AfterDetach(m, before, n, place) ==
  Place(m, IF place.now = n THEN m.prev[before.next[n]] ELSE place.now)

=============================================================================
