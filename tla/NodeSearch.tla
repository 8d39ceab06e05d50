----------------------------- MODULE NodeSearch -----------------------------
(***************************************************************************)
(* cp_search() with dir_merge() in it: each merge node searches its own    *)
(* directories of the index, every directory that all of them have offers  *)
(* its documents to the ranking set, and whatever the merge returns the    *)
(* driver goes on.  It implements Search, where a merge node just finds a  *)
(* number of documents.                                                    *)
(***************************************************************************)
EXTENDS Search, DirMerge

CONSTANT Scorings \* what the documents may score: relative path -> the ids for which
                  \* score_calc() is not 0

ASSUME NodeSearchAssumption ==
  /\ \A p \in Paths : Cardinality(IdsInAll(p)) \in 0 .. MaxFound
  /\ Scorings \subseteq [Paths -> SUBSET Nat]

VARIABLES
  scored,   \* of Scorings, with the paths of the merge node that is searched
  due,      \* history: documents with a score that the searched merge nodes
            \* have in common, up to Capacity
  limited   \* history: a merge was stopped by the limit

dirVars  == <<index, frames, handles, visited, scanned, fails, lost, result>>
nodeVars == <<searchVars, dirVars, scored, due, limited>>

NoTrees  == [i \in Dirs |-> {}]
NoScores == [p \in Paths |-> {}]

\* No merge has begun, and no directory is searched.
NodeInit ==
  /\ SearchInit
  /\ tree = NoTrees /\ posted = {} /\ headed = {} /\ scored = NoScores
  /\ frames = <<Call(<<>>)>> /\ visited = <<>> /\ result = 0
  /\ thorough \in BOOLEAN /\ en_headprune \in BOOLEAN
  /\ caller = "web" => thorough /\ ~en_headprune
  /\ handles = {} /\ scanned = 0 /\ fails = 0 /\ lost = {}
  /\ due = 0 /\ limited = FALSE

\* The documents that the directories rel offer: merge_pos_callbk() calls
\* rank_filter() for an id that all of them have if its score is not 0.
Found(rel) == IF Merged(rel) THEN Cardinality(IdsInAll(rel) \cap scored[rel]) ELSE 0

\* The documents with a score of all directories in common.
InCommon(trees, files) == {p \in files : \A i \in Dirs : p \in trees[i]}
IdsOf(scores) == [p \in Paths |-> Cardinality(IdsInAll(p) \cap scores[p])]
DueIn(trees, files, scores) == SumFunctionOnSet(IdsOf(scores), InCommon(trees, files))

\* Each merge node has its own directories and its own scores.
BeginIndex ==
  /\ tree' \in [Dirs -> Trees] /\ posted' \in Postings /\ headed' \in Heads
  /\ scored' \in Scorings
  /\ frames' = <<Call(<<>>)>> /\ visited' = <<>> /\ lost' = {} /\ result' = -1
  /\ due' = Min({Capacity, due + DueIn(tree', posted', scored')})
  /\ UNCHANGED <<thorough, en_headprune, handles, fails, limited>>

\* Fault for the mutation test: the counter of scanned items is not reset.
BeginMergeOn == BeginIndex /\ UNCHANGED scanned

\* merge_search(): the merge node's own directories, and a fresh counter.
BeginMerge == BeginIndex /\ scanned' = 0

StartNode == Construct /\ BeginMerge

InNode == Inside /\ UNCHANGED <<searchVars, scored, due, limited>>

VisitOffers == Visit /\ Offer(Found(top.rel)) /\ UNCHANGED <<scored, due, limited>>

\* The search does not learn that nothing was merged.
VisitFails == PostingOpenFails /\ UNCHANGED <<searchVars, scored, due, limited>>

EndNode ==
  /\ ReturnOut /\ MergeDone
  /\ limited' = (limited \/ top.ret = 1)
  /\ UNCHANGED <<scored, due>>

\* The directories of the node are forgotten; the counter and the handles stay.
LeaveNode ==
  /\ NodeExit
  /\ tree' = NoTrees /\ posted' = {} /\ headed' = {} /\ scored' = NoScores
  /\ frames' = <<Call(<<>>)>> /\ visited' = <<>> /\ lost' = {} /\ result' = 0
  /\ UNCHANGED <<thorough, en_headprune, handles, scanned, fails, due, limited>>

OutsideNode == Driver /\ UNCHANGED <<dirVars, scored, due, limited>>

NodeStep ==
  OutsideNode \/ StartNode \/ InNode \/ VisitOffers \/ VisitFails \/ EndNode \/ LeaveNode

NodeFinished == pc = "done" /\ UNCHANGED nodeVars

NodeNext == NodeStep \/ NodeFinished

\* One thread, which is scheduled.
NodeSpec == NodeInit /\ [][NodeNext]_nodeVars /\ WF_nodeVars(NodeStep)

---------------------------------------------------------------------------
(* Properties *)

\* The types of the driver's and of the merge's variables.
NodeTypeOK == SearchTypeOK /\ DirMergeTypeOK

\* An answer called good has all documents whose score is not 0 (search.c:190) of
\* the merge nodes it went through, as many as the ranking set takes, if every
\* directory and every posting.bin opened and no merge was stopped by the limit;
\* pruning by head.bin loses none.  It went through all nodes, unless there were
\* enough documents or only the first was asked for.
AnswerHasAll ==
  pc = "returned" /\ ret_code = "GOOD" =>
    /\ fails = 0 /\ ~limited => n_items = due
    /\ \/ node = n_nodes
       \/ n_items >= STOP_MERG_ND_RK_ITEMS
       \/ ~en_merges_nd_se /\ node = 1

\* The items scanned in the directories ps, and whether they are too many.
ItemsOf == [p \in Paths |-> IF Merged(p) /\ p \notin lost THEN ItemsAt[p] ELSE 0]
ItemsIn(ps) == SumFunctionOnSet(ItemsOf, ps)
Exceeded(ps) == ~thorough /\ ItemsIn(ps) > MAX_SEARCH_ITEMS

\* A search that is not thorough leaves a merge node at the first directory after
\* more than MAX_SEARCH_ITEMS items of this node were scanned, and not earlier:
\* the items of the nodes before do not count (search.c:211, 247).  What could not be
\* opened does not count either.
ScanLimit ==
  /\ result = 1 => Exceeded(ToSet(visited))
  /\ visited # <<>> => ~Exceeded(ToSet(Front(visited)))

\* The search with its merges is the driver of Search: whatever happens in the
\* directories, a merge is offers of documents to the ranking set, and it ends.
ImplementsSearch == SearchSpec

=============================================================================
