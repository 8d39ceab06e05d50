-------------------------------- MODULE Rank --------------------------------
(***************************************************************************)
(* search/rank.c over search/minheap.c, driven the way search/search.c     *)
(* drives it: one rank_filter() per scored document, merge node after      *)
(* merge node, then rank_sort(), then result pages.  An item is one        *)
(* allocation of rank_li_push(); its `no` stands for its address.          *)
(***************************************************************************)
EXTENDS MinHeap, FiniteSets

CONSTANTS Scores,     \* CP_SCORE values that reach rank_filter (never 0)
          Depths,     \* rot_depth values; 0 is the root's
          Brws,       \* frml_rec.n_brw values
          STOP,       \* STOP_MERG_ND_RK_ITEMS
          MaxOffers,  \* bound: calls of rank_filter
          MaxNodes,   \* bound: merge nodes searched
          MaxPage,    \* bound: res_per_page
          UINT8_MAX   \* 255: the greatest BOOL

RankItems ==
  [no : 1 .. MaxOffers, score : Scores, depth : Depths, n_brw : Brws \cup {0}]

ASSUME RankAssumption ==
  /\ Size > 0 /\ STOP \in Nat \ {0} /\ MaxOffers \in Nat
  /\ Scores \subseteq Nat \ {0} /\ Depths \subseteq Nat /\ 0 \in Depths
  /\ Brws \subseteq Nat /\ Brws # {} /\ UINT8_MAX \in Nat

less_than_stage0(i0, i1) ==
  IF i0.depth # i1.depth THEN i0.depth > i1.depth ELSE i0.score < i1.score

less_than_stage1(i0, i1) ==
  IF i0.depth # i1.depth THEN i0.depth > i1.depth
  ELSE IF i0.score # i1.score THEN i0.score < i1.score
  ELSE i0.n_brw > i1.n_brw

LessThan(f, i0, i1) ==
  IF f = "stage0" THEN less_than_stage0(i0, i1) ELSE less_than_stage1(i0, i1)

\* The heap's parameters are rank.c's items and comparison functions.
ASSUME HeapOfItems ==
  /\ Items = RankItems /\ Compares = {"stage0", "stage1"}
  /\ \A f \in Compares : \A a, b \in Items : Lt(f, a, b) = LessThan(f, a, b)

VARIABLES
  keep,       \* the items in rank.keep
  n_items,    \* rank.n_items
  rot_depth,  \* rot_depth of the merge node being searched
  node,       \* merge nodes begun
  phase,      \* "search", "stop", "records", "sort"
  offers,     \* calls of rank_filter
  lost,       \* <<depth, score>> of the documents dropped or replaced
  inOrder     \* the merge nodes so far came in depth order

searchVars == <<rot_depth, node, phase, inOrder>>
rankVars   == <<keep, n_items, offers, lost>>
vars       == <<heapVars, searchVars, rankVars>>

Init ==
  /\ HeapInit /\ ltf = "stage0"
  /\ keep = {} /\ n_items = 0 /\ offers = 0 /\ lost = {}
  /\ rot_depth = 0 /\ node = 1 /\ phase = "search" /\ inOrder = TRUE

---------------------------------------------------------------------------
(* rank_filter(id, score, rot_depth) *)

\* n_brw is not set yet, and nothing reads it before rank_sort().
NewItem(score) ==
  [no |-> offers + 1, score |-> score, depth |-> rot_depth, n_brw |-> 0]

Offer == phase = "search" /\ op = "idle" /\ offers < MaxOffers
         /\ offers' = offers + 1 /\ UNCHANGED searchVars

heap_top == array[0]

FilterInsert(score) ==
  /\ Offer /\ ~Full
  /\ Insert(NewItem(score))
  /\ keep' = keep \cup {NewItem(score)}
  /\ n_items' = n_items + 1
  /\ UNCHANGED lost

\* Fault for the mutation test: the replaced item stays in the list.
ReplaceKeeps(score) ==
  /\ Offer /\ Full /\ heap_top.score < score
  /\ Replace(NewItem(score))
  /\ keep' = keep \cup {NewItem(score)}
  /\ lost' = lost \cup {<<heap_top.depth, heap_top.score>>}
  /\ UNCHANGED n_items

\* Fault for the mutation test: the new document replaces a better one.
ReplaceBetter(score) ==
  /\ Offer /\ Full /\ heap_top.score > score
  /\ Replace(NewItem(score))
  /\ keep' = (keep \ {heap_top}) \cup {NewItem(score)}
  /\ lost' = lost \cup {<<heap_top.depth, heap_top.score>>}
  /\ UNCHANGED n_items

\* Full: the top goes if its SCORE is lower; rot_depth is not compared.
FilterReplace(score) ==
  /\ Offer /\ Full /\ heap_top.score < score
  /\ Replace(NewItem(score))
  /\ keep' = (keep \ {heap_top}) \cup {NewItem(score)}
  /\ lost' = lost \cup {<<heap_top.depth, heap_top.score>>}
  /\ UNCHANGED n_items

FilterDrop(score) ==
  /\ Offer /\ Full /\ ~(heap_top.score < score)
  /\ lost' = lost \cup {<<rot_depth, score>>}
  /\ UNCHANGED <<heapVars, keep, n_items>>

---------------------------------------------------------------------------
(* merge_node_search(): the nodes come in the order of a pre-order walk of *)
(* the query tree, the root first, so the depth may go up and down         *)

NextNode ==
  /\ phase = "search" /\ op = "idle" /\ n_items < STOP /\ node < MaxNodes
  /\ node' = node + 1
  /\ rot_depth' \in Depths \ {0}
  /\ inOrder' = (inOrder /\ rot_depth <= rot_depth')
  /\ UNCHANGED <<heapVars, rankVars, phase>>

\* The list break, or the last merge node.
StopNodes ==
  /\ phase = "search" /\ op = "idle"
  /\ phase' = "stop"
  /\ UNCHANGED <<heapVars, rankVars, rot_depth, node, inOrder>>

---------------------------------------------------------------------------
(* rank_sort() *)

WithBrw(x, brw) == [x EXCEPT !.n_brw = brw]

\* set_frml_rec(): brw[k] is what the database has for the item at index k, or,
\* from the first missing record on, what malloc() left there: any value.
SetFrmlRec ==
  /\ phase = "stop"
  /\ \E brw \in [0 .. end - 1 -> Brws] :
       LET rec(k) == WithBrw(array[k], brw[k])
       IN  /\ array' = [k \in Indexes |-> IF k < end THEN rec(k) ELSE array[k]]
           /\ keep' = {rec(k) : k \in 0 .. end - 1}
  /\ phase' = "records"
  /\ UNCHANGED <<end, ltf, op, at, root, next, n_items, offers, lost,
                 rot_depth, node, inOrder>>

\* Fault for the mutation test: the comparison function is not changed.
SortStage0 ==
  /\ phase = "records"
  /\ SortDesc("stage0")
  /\ phase' = "sort"
  /\ UNCHANGED <<rankVars, rot_depth, node, inOrder>>

FinalSort ==
  /\ phase = "records"
  /\ SortDesc("stage1")
  /\ phase' = "sort"
  /\ UNCHANGED <<rankVars, rot_depth, node, inOrder>>

Heap == HeapStep /\ UNCHANGED <<rankVars, searchVars>>

Finished == op = "sorted" /\ UNCHANGED vars

Next ==
  \/ \E score \in Scores : FilterInsert(score) \/ FilterReplace(score) \/ FilterDrop(score)
  \/ NextNode \/ StopNodes \/ SetFrmlRec \/ FinalSort
  \/ Heap \/ Finished

Spec == Init /\ [][Next]_vars

---------------------------------------------------------------------------
(* rank_window_calc() and print_all_pages(): the result pages *)

\* Fault for the mutation test: the last, partial page is not counted.
div_floor(a, b) == a \div b

div_ceil(a, b) == (a \div b) + (IF a % b # 0 THEN 1 ELSE 0)

tot_page(res_per_page) ==
  IF res_per_page = 0 THEN 0 ELSE div_ceil(n_items, res_per_page)

\* The indexes from win.from up to, not including, win.to.
rank_window(page, res_per_page) ==
  IF page >= tot_page(res_per_page) THEN {}
  ELSE LET past == (page + 1) * res_per_page
           to   == IF past > n_items THEN n_items ELSE past
       IN  page * res_per_page .. to - 1

\* rank_window_foreach() counts what it shows and returns the count as a BOOL.
rank_window_foreach(page, res_per_page) ==
  Cardinality(rank_window(page, res_per_page)) % (UINT8_MAX + 1)

---------------------------------------------------------------------------
(* Properties *)

\* The types of the heap's and the ranking set's variables.
RankTypeOK ==
  /\ HeapTypeOK
  /\ keep \subseteq Items
  /\ n_items \in 0 .. Size
  /\ rot_depth \in Depths /\ node \in Nat
  /\ phase \in {"search", "stop", "records", "sort"}
  /\ offers \in 0 .. MaxOffers
  /\ lost \subseteq Depths \X Scores
  /\ inOrder \in BOOLEAN

\* In every state of every heap operation the first n_items cells of the array
\* point to the items of rank.keep, each once: none is lost, none is freed
\* while the heap still points to it (rank.c:136-140), and after the sort has
\* emptied the heap n_items still counts them.
KeepIsHeap ==
  /\ keep = {array[k] : k \in 0 .. n_items - 1}
  /\ \A j, k \in 0 .. n_items - 1 : j # k => array[j].no # array[k].no
  /\ phase # "sort" => end = n_items

\* If the capacity is not below STOP and the merge nodes come in depth order, a
\* document that was dropped or replaced is not better, under stage 0, than any
\* that is kept, although rank_filter() compares scores only (rank.c:132-135).
KeepsBest ==
  STOP <= Size /\ inOrder /\ op = "idle" =>
    \A l \in lost : \A x \in keep :
      ~ less_than_stage0(x, [depth |-> l[1], score |-> l[2]])

\* After rank_sort() the array holds the results best first, under stage 1.
SortedBestFirst ==
  op = "sorted" => \A j, k \in 0 .. n_items - 1 :
    j < k => ~ less_than_stage1(array[j], array[k])

\* The pages of print_all_pages() show every result once and no empty page, for
\* every page size; a page size of 0 shows nothing.  What print_page() calls a
\* page without results is one, if a BOOL can count the results of a page.
PagesPartition ==
  \A per \in 1 .. MaxPage :
    LET pages == 0 .. tot_page(per) - 1
    IN  /\ UNION {rank_window(p, per) : p \in pages} = 0 .. n_items - 1
        /\ \A p \in pages : rank_window(p, per) # {}
        /\ \A p, q \in pages : p # q => rank_window(p, per) \cap rank_window(q, per) = {}
        /\ per <= UINT8_MAX =>
             \A p \in 0 .. tot_page(per) :
               rank_window_foreach(p, per) = 0 <=> rank_window(p, per) = {}

=============================================================================
