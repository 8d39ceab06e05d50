# OPMES in TLA+

OPMES indexes LaTeX formulas by the leaf-to-root paths of their operator trees
and searches them by structure. This directory holds TLA+ models of its crawler,
parser, index and search, TLC configurations that check them on small instances,
and theorems that TLAPS proves for every instance.

## The system

| Part | Source | State it keeps | Operations | Talks to |
|---|---|---|---|---|
| Crawler | `crawler/*.py` | one file per question, a page number, tries left | `crawl()`, `crawl_force()`, `curl()`, the dollar scanner | the site; its files feed the indexer |
| Lexer, grammar | `parser/lexer.l`, `grammar.y`, `parser-util.c` | start condition, ignore and matrix stacks, `parser_root`, error flag | `cp_parse()` | builds a formula tree |
| Formula tree | `parser/tex-tr.c` over `common/list.h`, `common/tree.c` | nodes with symbol, id, fan | attach, `tex_tr_update()` (group, prune, assign), `tex_tr_subpaths()`, release | indexer, search |
| Indexer | `index/index.c`, `db-wraper.c` | `col/**/posting.bin`, `formula.db`, `webpage.db`, `textree.db` | one process per formula: `posting_write()`, `index_formula()`, `index_webpage()`, `index_textree()` | files shared by all runs and searches |
| Search driver | `search/search.c`, called by `search/main.c` and `web/main.c` | what it allocates, the merge nodes, `ret_code` | `cp_search()`, `merge_node_search()` | calls everything below |
| Directory merge | `search/dirmerge.c` | directory streams, recursion | `dir_merge()` | calls back into `merge_dir_callbk()` |
| Posting merge | `search/posmerge.c` | per file a block, an index, an end | `posmerge_possible()`, `posmerge()`, `jump()`, `rebuf()` | calls back into `merge_pos_callbk()` |
| Scoring | `search/score.c` | searcher, score tree, cache | `score_push()`, `score_calc()`, clear | fed by the posting merge, feeds the ranking |
| Ranking | `search/rank.c`, `minheap.c` | heap array and `keep` list | `rank_filter()`, `rank_sort()`, windows | last stage, read by the front ends |
| Tools | `index/probe.c`, `index/*.sh`, `web/show-tex-list.c` | none | one process each | the programs above |

A search takes the query's *merge nodes* one after the other. For each it builds
a searcher from the node's subpaths, goes down the directories of these subpaths
in parallel (`dir_merge`), merges the posting files it finds (`posmerge`), hands
each document that all of them have to the scoring, and offers the document to
the ranking set. The index is written by separate processes at the same time.

What is hard here:

* **Block boundaries.** `posmerge()` cannot tell a full block from the end of a
  file; it works with cursors into blocks that are read again under it.
* **Sharing without locks on the files.** Posting files have no lock; the lock of
  `formula.db` is all that orders appends, ids and reads, and processes die.
* **Callbacks through three layers**, each with its own way to stop, and tables
  that serve document after document and must be left clean by every way out.
* **Two structures for one set** (heap and list), an item freed while the other
  structure still points to it, and an order that changes before the sort.
* **Error paths** that release by hand what exists so far, for two callers.
* **Traversals that detach and free** the node they are at, on circular lists
  whose positions were looked up before.
* **A lexer whose state outlives the formula**: two counters and a start
  condition stand for the nesting of braces, tables and ignored text.
* **A listing that moves while it is read**, fetches that give a part of a page,
  and a rule (never fetch an existing file again) that makes damage permanent.

What makes each part correct: the posting merge reports exactly the common ids,
each once and in order, with all items and with loaded data only; the ranking
set keeps the best documents and both structures hold the same items; the index
keeps posting files sorted and records whole; the scoring is a one-to-one
matching and leaves nothing behind; the directory merge visits the common
directories once and closes its streams; the driver releases everything once and
calls an answer good only if it is complete; the formula tree is the one the
formula denotes, grouped and pruned completely, and its branch words tell it; the
lexer gives the token a text stands for where it stands; the crawler misses no
question and damages no file that nothing went wrong with.

## Modules

`MergeContract` says what the posting merge promises to its callback. `PosMerge`
is `posmerge()` with one action per branch of its loops and of `jump()`; a buffer
cell holds the file position that was last read into it (0: never written), so
old numbers in a block are what they are in memory. `calls` and `rounds` record
the callbacks. To look at a cell behind the block is undefined behaviour: the
control point `overrun` is not a return, it is where the model has nothing more to
say. `PosMerge` instantiates the contract with the `Outcome` that follows from `pc`
for the contract's `status`.

`MinHeap` is `minheap.c`, one action per loop iteration, over any strict weak
order; `Rank` adds `rank.c` and the part of `search.c` that decides in which
order documents and merge nodes come. An item's `no` stands for its address.
`lost` and `inOrder` are history for the properties. `set_frml_rec()` reads any
number of branch words for each item: what the database has or, behind a missing
record, what malloc() left. `UINT8_MAX` is the width of the result of
`rank_window_foreach()`, scaled down.

`Index` is `index.c`: runs that open three databases in order, compute an id,
append one posting per subpath, put three values, put two references, and close;
a search opens two of the databases, reads, and closes. Actions marked as faults
are a failing open, `fopen()` or put, and the death of a process. Each file or
database keeps, next to the id, the run that wrote it (specification only).

`Score` is `score.c`: `Push` is `score_push()` for one branch word, `Calc` starts
the ending call. `Consider` is one branch word of the current query path's
directory against the champion of its cell; when the directory's stack is through,
the query path ends in one of three ways: no branch word was free (`Exhausted`),
inside a stage (`MidStage`), at the end of a stage (`EndStage`). `Clear` is
`score_tr_clear()` with `searcher_clear()`. The array limits are scaled down;
`NextNode` and `NextDirs` change the query paths and the depth while score tree,
cache and champions stay. `Garbage` is what malloc() left
behind a copied series (see the notes below).

`DirMerge` is `dir_merge()` with its recursion as an explicit stack of frames and
`merge_dir_callbk()` as its callback: the scan limit stops it, and with head
pruning on `posmerge_possible()` decides from the first and the last id of each
posting file whether they are merged at all, in the directories (`headed`) where
every `head.bin` is there and opens; where one is not, a merge may be possible. The
repository's indexer writes no `head.bin`, so it is taken for what the reader takes
it for, the range of the posting file beside it. A posting file that does not open
ends `posmerge()` with 0, as a merge does (`PostingOpenFails`). `Search` is `cp_search()` with
`merge_node_search()` and what its two callers do before and after: `main()` from
its options on, the CGI program from `QUERY_STRING` on, each of them down to
`rank_free()` and its own exit. What a merge node finds is a number of documents
there.

`NodeSearch` composes the two: `StartNode` builds a searcher and begins the merge
of this node's directories, each `Visit` of the directory merge is an offer to the
ranking set of the documents that all posting files have and whose score is not 0
(`scored`, another one for each merge node), a posting file that does not open is an
offer of nothing (`VisitFails`), and the driver goes on when the outermost call
returns. The counters
that live longer than one merge (`n_posmerge_scanned_items`, open streams) are
carried from node to node. `NodeSearch` implements `Search`: with the same
variables, every step inside a merge is an offer or a stutter of the driver.

`Lists` is what the tree uses of `list.h` and `tree.h`: pure operators on the
links of all objects, each from a memory to the next one. `TexTree` is
`tex-tr.c` on these lists, with the reductions of `grammar.y` as input: a formula
is the sequence of reductions that the parser makes for it, one letter for each
shape of rule (an atom, a binary operator, a script in its `HANGER`, a factor
hung below it, a relation with something above it that is released), and the
calls of `tex_tr_attatch()` and `tex_tr_release()` that a reduction makes are
steps of their own. A traversal is the stack of the nested `list_foreach()` calls
(`places`: the current node and the one looked up to go on with); each callback
is one action, so pruning and releasing are interrupted after every node. A syntax
error may come between any two reductions. After `tex_tr_update()` the
subpaths of the root (to index) or of any merge node (to search) are generated,
and `NameSorted` is `query_paths_name_sort()` with the list's insertion sort.
`shape` remembers the tree before the update. Nodes are numbered as they are
allocated and never allocated again, so a use of a freed node shows.

`Lexer` is the part of `lexer.l` that depends on state: one action per rule or
group of rules of one effect, in each start condition. The input is any text after
any other, formula after formula, as `parser/main.c` reads them in one process.
Within a dimension everything is read letter by letter up to a unit, so a command is
its letters there, and ends the dimension where its name holds a unit (the `in` of
`\begin`, the `ex` of `\text`).
`nest` is what a reader sees (the open groups, tables, texts, dimensions,
comments), kept next to the lexer's two counters, and `Meaning` is the token that a
text stands for there. `plain` says that the formulas read so far are of the kind
the lexer is made for (see the notes below for those it is not).

`Crawler` is the crawling script beside a site that grows: fetches with the tries
that `curl()` makes, whose partial answers are concatenated (a page that was cut and
then came whole has formulas twice, `"repeated"`; a link in a part of a redirect is
followed), listings that end in the middle of a summary, the file of a question from its creation to its close,
kills at any point, restarts at any page, questions fetched by force. `Dollar` is
`dollar.py` as a function of the characters read of a paragraph, and compares what
it finds with the segments the paragraph was made of.

`MC*` modules only give values to constants. `*Proofs` modules hold theorems.
Operators under a comment "Fault for the mutation test" are plausible bugs: with
the mapped definition replaced by them the property they belong to fails. No
specification uses them.

## What the runs check

| Run | Instance | Shows |
|---|---|---|
| `posmerge` | three files, all sorted ones of up to 6 items over 3 ids, up to 2 of an id or, in files of up to 4, an id that fills a block; blocks of 3 | `TypeOK`, `ReportsCommonIds`, `Contract` (refinement), `SizedGetsLoadedData`, `Terminates` |
| `posmerge_exact` | one file of up to 4 items, blocks of 2 | violates `CallbackGetsLoadedData` |
| `rank` | set of 4, 6 documents, 3 merge nodes, 2 scores, depths 0..2, pages of up to 5, counts of a page up to 3 | `RankTypeOK`, `HeapOrder`, `KeepIsHeap`, `KeepsBest`, `SortedBestFirst`, `PagesPartition` |
| `index` | 3 runs, 1 search, one fault | `PostingsSorted`, `FaultFreeIndex`, `RecordOfOneRun`, `RefsResolve`, `SearchReadsStable`, `RunsEnd` |
| `index_new` | 3 runs, one fault | violates `IdIsNew` |
| `score` | 2 queries in 2 directories, 3 branch words, 2 depths | `ScoreTypeOK`, `MarkedAreChamps`, `CleanBetweenDocuments`, `ScoreIsMatching`, `CrossedStaysCrossed` |
| `search` | both callers; 2 merge nodes, each over any 2 trees of up to 4 directories; one failing `opendir()` or `fopen()`; scan limit 2, head pruning on or off, `head.bin` everywhere or nowhere; all documents score, or one | `NodeTypeOK`, `VisitsCommon`, `HandlesOfFrames`, `ReleasedOnce`, `NothingLeft`, `AnswerHasAll`, `ScanLimit`, `ImplementsSearch` (refinement) |
| `search_free` | `Search` alone, 3 merge nodes of up to 4 documents, stop at 3 | violates `RankGoodToUse` |
| `textree` | all formulas of up to 7 reductions over 2 variables and the empty formula, and 6 larger ones; depth 4, 7 leaves, pins up to 6 | `TexTypeOK`, `TreeOfFormula`, `SubpathsOfLeaves`, `TraversalsEnd` |
| `textree_pins` | the same | violates `PinsAreIds` |
| `lexer` | any texts, up to 5 constructs open, stacks up to 6 | `LexTypeOK`, `TokensOfText` |
| `crawler` | pages of 2, up to 5 questions, pages 1 to 3 read, 1 failure tried again, 3 failed fetches, refused pages or kills; paragraphs of up to 3 segments of up to 2 units | `NoneMissed`, `DamagedByFaults`, `DollarFindsFormulas`, `CrawlEnds` |

Bounds. With blocks of 3 and up to two items of an id, files of up to 6 have zero,
one and two boundaries, ids that straddle the first one, also in files that are
`Sized` (1 1 2 2), and files that end on one; with three files the maximum can pass
from one to the next while the first is still behind. A heap of 4 has two levels
below the root and a node with one son; 6 documents replace twice. Two runs meet
in every lock; the third one sees what the two before left. One fault is enough
for each of the partial records. Three branch words let a champion be displaced
and a word be crossed and wanted again by the next stage. Subdirectories two levels deep
return through more than one frame, and a second merge node finds what the first
one left. `rank` sets `STOP` below the capacity as
the program's defaults do (30 and 200). Seven reductions make trees three levels
deep in which a father loses all its sons to pruning, sums of sums, and hangers of
hangers; renaming the variables changes nothing, so only formulas whose first
variable is `a` are taken. The larger formulas reach the limits: too many leaves
in a group and in the tree, more nodes than pins, relations that release what is
above them. As in the code (256 and 255) one more leaf is allowed than a pin can
count. Five open constructs hold a group in a table in a group in a table with
ignored text or a dimension in it. Three harms are two tries of one fetch that both
fail, which is what damages a file at `MaxErrs` = 1, and a kill; five questions on
pages of two move a question over a page's end while the page is read.

`Sized` is the precondition of most properties of the posting merge: no empty
file, none that ends on a boundary with one id only in its last block
(`FillsLastBlock`), and at least one file that does not end on a boundary. An id may
otherwise have any number of items, on any boundaries: the run has ids that fill a
block or straddle two. With blocks of 4096 real files are nearly always sized; the
run `posmerge_exact` shows what happens otherwise. `TypeOK` says the types of the
variables whatever the files hold, and of sized files that no cell behind a block is
looked at; `Terminates` that the merge returns or, with files that are not sized,
goes behind its block, of which no more is said. `TokensOfText` has `plain`, and `NoneMissed` leaves out the crawls that got
a listing page in part: there the code does what the property forbids.

Fairness. `posmerge()`, `cp_search()` with the merges in it, and the tree's
traversals are sequential calls, so one weak fairness condition on their steps says
that the call keeps running. `TraversalsEnd` says that no list is run round for
ever, although `list_detach_one()` leads the traversal from the last node back to
the head; `ImplementsSearch` includes that a merge ends, for the driver it
implements is fair. In `Index` each process is scheduled fairly from the moment it
starts: it need not start, and no call need fail. A process waiting for a lock is
disabled, so weak fairness alone would allow it to wait while others take turns;
with finitely many runs, each of which takes a lock once, nobody starves. In
`Crawler` the program's own steps are fair, for every fetch has a time limit; new
questions, starts, failures and kills are not, and the failures are bounded.
`Lexer` and the heap have safety properties only.

## Where the code disagrees with its own words

1. **Old numbers reported** (`posmerge_exact`, `posmerge.c:184-186`). After a full
   last block nothing is loaded, and the matching loop reads the old cells.
   `posmerge_print_buf()` tells "loaded data" from "old numbers" by the same `end`.
2. **`limit already checked`** (`textree_pins`, `tex-tr.c:391`). It is checked for
   the leaf; ids of inner nodes, which come after those of all leaves, are cut to
   8 bits, and one that becomes 0 ends the series for its readers. With ids that
   fit, `SubpathsOfLeaves` says that branch words tell the tree.
3. **`id_new must be new`** (`index_new`, `index.c:83`). It is not, after a put
   that failed half way: every later run dies, after it wrote its postings.
4. **`always good to use`** (`search_free`, `search.c:396`). Without `formula.db`
   the ranking set is returned freed, and freed again.

Notes on behaviour that no run checks as a violation:

* The comment at `rank.c:133-135` says that the item at the top of a full heap has
  the depth of the current merge node. Merge nodes come in pre-order, so the depth
  can fall while the set fills (2, then 1); `KeepsBest` holds for merge nodes in
  depth order only, and says so (`inOrder`).
* `cpy_series()` (`score.c:15`) does not copy the zero that ends the series, and the
  target is what malloc() left. `Score` is checked with one garbage value that is
  no fan.
* Lexer. `\end` leaves the table but not `mat_stack`, so that a closing brace of a
  later `\array{` is a group's; the end of an ignored text or a dimension, and `\end`
  of a nested matrix, lead to `INITIAL` from within a table, where `&` and a line
  break are then no longer a `_TAB`; nothing is reset at the end of a formula, and in
  `ign` and `dim` there is no rule for it. `TokensOfText` leaves these formulas out.
* `search.out` leaks the first query when `-q` is given twice, and
  `CP_SE_RET_COL_UNSET` is not reached from either front end, which both set a path.
* The CGI program looks at an uninitialized `query` when it gets no `QUERY_STRING`:
  the exception in `ReleasedOnce`.
* The crawler takes a listing page of which it got a part for all of it.

## What is proved

Every theorem is about the specification of a module for all values of its
constants that satisfy the assumptions named there.

`PosMergeProofs` (any `N`, `RD_NUM`, `Ids`, `Files`). The types (`TypesOK`) are
inductive by themselves. That no cell behind a block is looked at (`InBlocks`) and
`ReportsCommonIds` are not: they do not say where the cursors stand. `MergeInv` adds that each block shows consecutive
items of its file (`BlocksOK`), where each cursor stands at each control point,
including the `Stale` cursors behind an exhausted file (`CursorsOK`), that exactly
the common ids up to the last one are reported (`ReportedOK`), and that no cursor
is past a common id that is not (`ProgressOK`). One lemma per action shows that
the four parts are kept; `MergeInvariant`, `TypeCorrect`, `MergeReportsCommonIds`,
`MergeGetsLoadedData` and `MergeRoundsIncrease` follow. For the refinement
(`MergeImplementsContract`) `CallsOK` adds the account of a round: `calls` holds the
items of `max` that come before the cursor of the running pipe in the order pipe,
position, all of them and sorted, and no pipe behind it has passed one. At the
ending call that is the contract's round, and `ProgressOK` says that `max` is the
least pending id; the return with 0 maps to `Exhaust`, a failing open to `Fail`, a
step over files that are not `Sized` to `Unspecified`, every other to a stutter.

`RankProofs` (any size, items, scores and strict weak order). Heap order holds
only between operations; the invariant says where it holds while one runs: above
a hole for the loop that climbs, below it for the one that sinks, from `root` on
while heapify runs. With types and `KeepIsHeap` it is inductive. A lemma about
`Swapped`, what each cell holds after a swap, carries `KeepIsHeap` through the
loops: `RankTypeCorrect`, `HeapIsOrdered`, `KeepIsAlwaysHeap`. `SortInv` says that
while `minheap_sort()` runs what is behind the shrinking heap is in order and not
below what is in it (`ResultsBestFirst`). `BestInv` says that nothing is lost before
the set is full, that while the merge nodes come in depth order no kept item is
deeper than the running node, and that with a capacity not below `STOP` a full set
has an item of that node, so the top of the heap is of it and comparing scores is
comparing items (`BestAreKept`). For
`PagesShowAllOnce` the windows are intervals that meet.

`ScoreProofs` (any queries, series, depths and length of a document). `ScoreInv`
says which check units are live, that each directory's stack refers to units of
its branch words, and that champions are marked, distinct, and of their column and
query path. It gives `ScoreTypes`, `ChampionsAreMarked`, `CleanStart` and
`CrossedIsForGood`. For `ScoresAreMatchings` it is joined by `WordsOK` (what tables
and stacks say of the branch words), `ChampsOK` (a champion's value is the score of
its two branch words and a column's score their sum) and `MatchInv`: the crossed
units are matched one to one with the query paths of the finished stages, to the
variable that won the stage, and the score so far is the sum over this matching; a
stage that ends adds the winner's champions.

`IndexProofs` (any runs, searches, subpaths, number of faults). The argument is
the lock of `formula.db`: it is taken before the id is computed and held until
the postings are written and the values stored, a search holds it shared.
`IndexInv` says that a run with `id_new` and the lock has an id not below any
posting (`NextIdInv`, `ItemsInv`), and that the locks exclude each other
(`LockInv`): `PostingsAreSorted`, `SearchesReadStable`. For the records
`StoreInv` says that a run writes only while it has `formula.db` open, makes
references only after its three puts, and stores them only after these;
`FreshInv` that nobody stores under an id that was checked. They give
`OneRunPerRecord` and `RefsAlwaysResolve`, whatever fails and wherever runs die.
`NoFaultInv` (the holder of the lock goes for the next id with three puts or none;
an item is of a complete record or of the holder) gives `FaultFreeIndexIsWhole`.

`SearchProofs` begins with `DirMerge` (any trees, names, number of directories and
failing calls). The frames on the stack are a chain in which each directory is a
subdirectory of the one before, and the open streams are theirs (`Chain`,
`Streams`). Every visited path is off the part of the tree still ahead of some
frame, and every common path has been visited or is ahead of one (`Visits`,
`Complete`): `MergeVisitsCommon`, and with the driver around it
`SearchVisitsCommon` and `SearchClosesStreams`.

Then the driver (any number of merge nodes and documents). The invariant says what
is live, freed and held at each control point for each caller (`QueryHeld`,
`RankHeld`, `SearchHeld`). It is proved for `Search` alone; `NodeImplementsDriver`
shows that initial states and steps of `NodeSearch` are those of `Search` or
stutters, which is the safety part of `ImplementsSearch`, so that
`SearchReleasesOnce` and `SearchLeavesNothing` carry over to the composition.
`MergeStopsAtLimit` and `GoodAnswerHasAll` need sums over sets of paths, which
`SumFunctionOnSet` makes with a fold: the first lemmas show that a fold exists for
every finite set, is unique, and adds one element at a time. Then the scan counter
is the sum over the directories this node visited, each of them once (`Visits`),
without those whose posting files did not open; and the documents found so far are
those of the visited directories whose score is not 0, those due those of the
common ones. With no failure of `opendir()` or `fopen()` and no stop these are the same
directories, and one that head pruning leaves out has none, for two files whose
id ranges do not meet have no common id (`PrunedHaveNone`). `LoopInv` says why the
loop over the merge nodes may end.

`TexTreeProofs` (any formulas the grammar derives, symbols, limits, number of
nodes). The first part is about `Lists` alone. A list of sons is a sequence of
different nodes whose `next` and `prev` go round it (`IsList`); attaching appends
to it, detaching takes one element out (`AttachList`, `DetachList`), whatever the
position of that one. The links are a `Forest` if each father has such a list,
every node with a father is on it, and nodes can be given heights that fall from
father to son; attaching a root to a node of another tree and detaching keep it
(`AttachForest`, `DetachForest`). Heights are what the recursion of the traversals
stands on: the functions that `Down` and `Up` define recursively exist
(`DescentExists`, `AscentExists`). The second part is about places: those of a
traversal are a way down from father to son, each with the position that was
looked up before the callback (`Trail`), and remain one when the callback has
detached and freed the node at its end. `Ahead` says which nodes a traversal
has still to come to, so that a node is not numbered twice. `IInv` has four parts.
`Struct`: a forest of live nodes, the way, and one owner for each root, which is a
value of the parser, a call of the running reduction, or the tree that is being
released; without owners nothing says that a released tree is not used. `Control`:
as many values as the grammar leaves, so that the formula ends with one
(`GrammarAssumption`). `Begins`: where a traversal started. `Fields`: how far
grouping and numbering got, so that no field leaves its range. `TexTyped` follows,
and `NeverFatal`: a way up from a leaf has as many nodes as the way down to it, of
which `gen_subpath()` has compared the length. `FreedIsLeftAlone` is an action property: no
step writes the links or the fields of a node that was freed, or allocates it again,
although detaching and attaching write neighbours, heads and fathers (`AttachWrites`,
`DetachWrites`).

What the numbering is needs a second invariant, `NInv`, on top of the first. `Ahead`
says that a traversal visits no node twice; `Behind` says the other half, that it
leaves none out: with a visited node everything below it and its brothers before it
were visited, so that in the end the whole tree was (`VisitedAll`). The traversal
that prunes is the hard one. When it detaches the last node of a list it goes round
to the first again; so `PrunedSoFar` does not say that no node is visited twice, but
that a leaf it has left alone it will leave alone again, and `BehindDetach` that what is
behind it stays behind. The traversals that number have `Visited`, both halves. `IdsSoFar` and
`InnerSoFar` say how far they got: ids are given once, `tot_brw` is the sum of the
fans of the leaves numbered, an inner node's fan counts its sons, whose ids are
smaller. `IdsOfUpdate` follows: the ids are 1 to the number of nodes, leaves first.

What a search generates needs a third, `WInv`: without the error, the words so far
are those of the leaves visited so far (`WordsOf`), in the order of the visits, each
leaf once and within the limits; with the error, a leaf below the search's root
exceeds a limit, wherever the traversal stopped. When the traversal is over,
`Visited` makes these leaves all of them (`SearchedAll`). `WordsOfLeaves` then takes
four facts about words. A way up from a leaf goes from son to father and passes
through the search's root (`UpRises`, `ReachesSon`), and from a node on it is the way
up of that node (`WayIs`). The ids of the leaves were compared with the limit, those
of inner nodes were not; if the id of the search's root fits its byte, so do all
below it, which are smaller (`ByteIs`, `ReachesLive`), and the different pins below a
node are the ids of its sons (`PinsOfSons`), every one of which has a leaf below it
(`LeafBelow`); `NInv` says that the fan counts the sons (`FansAreSons`). The fans of
the words count the leaves they stand for, in a search of the whole tree `tot_brw`
(`SumOfFans`). The sort is an insertion into a list (`InsertPlace`, `InsertSorted`):
it keeps the words and orders them by `NameBefore`, which is a strict weak order
because the counts it compares are of the whole list and do not change while the list
is sorted (`NameOrder`); words of a symbol have the same count and the same number,
so that nothing with another number stands between them (`SortGroups`).

`LexerProofs` (any nesting). `LexTypeCorrect` needs only the two stacks and the
state. For `LexTokensOfText` the invariant says, for each depth `k`, what the
constructs below `k` tell about state and counters while formulas are plain
(`Nesting`): in a table `mat_stack` counts the table and the groups open in it.

`CrawlerProofs` (any page size, site, failures and restarts). `Coming` says that a
question that was there at the start has a file, or stands on a page not read yet,
or is among the summaries received or left; new questions move it only towards
later pages. `CrawlMissesNone` follows. That `FindSummaries` loses none of them
needs a least element of a set of positions, taken from the library's
well-founded order of the naturals. For `DamageIsPaidFor` the invariant is an
account: the files that lack formulas with what is about to become one are at most
the kills, refusals and failures counted, each spent once; the files with another
question's formulas, the torn summaries in the listing, the ones left to follow
and the one followed now are at most the listings cut; the files with formulas
twice, with one more while a cut answer is in the buffer, are at most the failed
fetches of questions (`TwicePaid`). `FormulasAreFound` (texts
and formulas of any length, any number of them) is about `Dollar` alone. What
follows a text that does not end in a backslash does not change how the scanner
reads it (`ScanOfPrefix`), a unit leaves the scanner as it is (`UnitIsKept`), and
every part of a paragraph adds its formula and leaves nothing open (`PartStep`).
Both inductions, over units and over parts, take the set of the lengths for which
the claim holds: it has 0 and with each number the next one, so it has all
(`SetInduction`, from the well-founded order of the naturals); that the recursive
functions exist at all is shown the same way.

Assumptions: those named in the modules (`PipesAssumption`, `BlockAssumption`,
`IdsAssumption`, `FilesAssumption`, `SizeAssumption`, `NullAssumption`, `OrderAssumption`,
`RankAssumption`, `HeapOfItems`, `ScoreAssumption`, `IndexAssumption`, `SearchAssumption`,
`DirMergeAssumption`, `NodeSearchAssumption`, `TexTreeAssumption`,
`GrammarAssumption`, `LexerAssumption`, `CrawlerAssumption`, `DollarAssumption`),
which TLC evaluates in the runs.
`TexTreeAssumption` takes different symbols to have different numbers, as those of
`enum symbol_id` have.
About Tokyo Cabinet, which is not part of the repository, `Index` assumes that a
writer excludes everybody else, that what is put is stored at `tcbdbclose()`, and
that a process that dies leaves the database as it was and loses its locks. About
the site, `Crawler` assumes that questions are listed newest first and none is
deleted. About the network, that a fetch that fails leaves what it received in the
buffer, to which the next try appends, as the code asks of `curl`, and that an answer
is cut between two tags. That a cut in the middle of a tag could turn formulas
round in the paragraph it is in is not modelled.

Only model-checked: everything under fairness (`Terminates`, `RunsEnd`,
`TraversalsEnd`, `CrawlEnds`, the fairness in `ImplementsSearch`), which is out of
the prover's reach; and of `TreeOfFormula` what compares the tree with the formula
(the parser's tree with what a fold over the reductions denotes, the leaves that are
left with the groups of the tree that was read): these are functions defined over
whole trees, and no induction over trees was carried out. Its part about numbers,
`IdsOfTree`, is proved.

## Not modelled

* The rules of the grammar and of the lexer that differ from a modelled one in their
  token only, the tables of symbol names, and the symbol ids of numbers
  (`ret_num()`, `ret_float()`: what `sscanf()` makes of a number that ends in its
  point is in the hazards).
* What is printed: results, trees, records, the CGI program's page, `show-tex-list.c`,
  `probe.c`, traces and timers; the strings stored in the databases.
* The crawler's regular expressions for `\(` and `\[`; its test option `-f`.
* The number that `tex_tr_prune()` returns: counted from an uninitialized variable,
  and read by nobody.
* `d_type` of file systems that do not answer it, which would hide every
  subdirectory from `dir_merge()`; it is a property of the installation.
* Limits as large as 2^32 records or 256 branch words: TLC cannot reach them, and
  the models scale the limits down where the code compares with them.
* The shell loops that start `index.out` once per formula.

## Plan

1. Proofs: that the tree after the parse is the denoted one, with the fold over the
   reductions as the history of an invariant over `stack` and `todo`.
2. A composition of `PosMerge`, `Score` and `Rank` below `NodeSearch` over an index of
   a few documents, refining a specification of what a search answers: with the
   merge nodes of real trees in pre-order the comment at `rank.c:133` gets its run,
   and with a crash of `Index` its ghost postings get theirs. `Score`
   takes query paths grouped by symbol; `SubpathsOfLeaves` shows that the sort
   groups them, and the composition joins the two.
3. `Lexer` before `TexTree`: the tokens that the one gives as the reductions the
   other takes, for formulas with tables.
