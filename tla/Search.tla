------------------------------- MODULE Search -------------------------------
(***************************************************************************)
(* search/search.c cp_search() as search/main.c and web/main.c call it:    *)
(* what they allocate, in which order things can fail, the loop over the   *)
(* merge nodes, and who releases what.  What one merge node finds is a     *)
(* number of documents that rank_filter() is offered, directory after      *)
(* directory (NodeSearch puts dir_merge() there; PosMerge, Score and Rank  *)
(* have the rest).                                                         *)
(***************************************************************************)
EXTENDS Integers, FiniteSets

CONSTANTS MaxNodes,              \* bound: merge nodes of a query
          MaxFound,              \* bound: documents found for one merge node
          Capacity,              \* n_ranking_items
          STOP_MERG_ND_RK_ITEMS

ASSUME SearchAssumption ==
  /\ MaxNodes \in Nat \ {0} /\ MaxFound \in Nat
  /\ Capacity \in Nat \ {0} /\ STOP_MERG_ND_RK_ITEMS \in Nat

\* What is allocated or opened, by the name of the variable that holds it.
RankRes   == {"heap.array", "keep", "db_formula", "db_textree"}
SearchRes == {"li_merge_nodes", "se", "cache", "st"}
Res       == RankRes \cup SearchRes
             \cup {"parser_root", "li_subpath", "li_query_path", "query"}

VARIABLES
  caller,    \* "main" (search.out) or "web" (search.cgi)
  query,     \* what the caller's pointer is: "null", "set", or "garbage"
  pc,
  mem,       \* resource -> "none", "live" or "freed"
  double,    \* resources released when they were not live
  ret_code,
  n_nodes,   \* merge nodes of the parsed query
  node,      \* merge nodes done
  n_items,   \* rank.n_items
  en_merges_nd_se,
  ret_err

front      == <<caller, query>>
searchVars == <<front, pc, mem, double, ret_code, n_nodes, node, n_items,
                en_merges_nd_se, ret_err>>

SearchInit ==
  /\ caller \in {"main", "web"}
  /\ query = IF caller = "main" THEN "null" ELSE "garbage"
  /\ pc = "start"
  /\ mem = [x \in Res |-> "none"]
  /\ double = {} /\ ret_code = "GOOD"
  /\ n_nodes = 0 /\ node = 0 /\ n_items = 0
  /\ en_merges_nd_se \in BOOLEAN        \* the CGI program has the defaults
  /\ caller = "web" => en_merges_nd_se
  /\ ret_err = FALSE

Alloc(xs)   == mem' = [x \in Res |-> IF x \in xs THEN "live" ELSE mem[x]]
Release(xs) == /\ mem' = [x \in Res |-> IF x \in xs THEN "freed" ELSE mem[x]]
               /\ double' = double \cup {x \in xs : mem[x] # "live"}

Fail(code) == ret_code' = code /\ pc' = "exit"

---------------------------------------------------------------------------
(* The front ends, up to the call of cp_search() *)

\* -q <query>, given once; or the query unescaped by curl.
GetQuery ==
  /\ pc = "start"
  /\ query' = "set" /\ Alloc({"query"})
  /\ pc' = "options"
  /\ UNCHANGED <<caller, double, ret_code, n_nodes, node, n_items, en_merges_nd_se, ret_err>>

\* main() without -q; curl_easy_unescape() that fails.
NoQuery ==
  /\ pc = "start"
  /\ query' = "null"
  /\ pc' = "front_exit"
  /\ UNCHANGED <<caller, mem, double, ret_code, n_nodes, node, n_items, en_merges_nd_se, ret_err>>

\* The CGI program without QUERY_STRING: its pointer is not set yet.
NoQueryString ==
  /\ pc = "start" /\ caller = "web"
  /\ pc' = "front_exit"
  /\ UNCHANGED <<front, mem, double, ret_code, n_nodes, node, n_items, en_merges_nd_se, ret_err>>

\* -h, or an option main() does not know, behind -q.
BadOption ==
  /\ pc = "options" /\ caller = "main"
  /\ pc' = "front_exit"
  /\ UNCHANGED <<front, mem, double, ret_code, n_nodes, node, n_items, en_merges_nd_se, ret_err>>

CallSearch ==
  /\ pc = "options"
  /\ pc' = "rank_init"
  /\ UNCHANGED <<front, mem, double, ret_code, n_nodes, node, n_items, en_merges_nd_se, ret_err>>

---------------------------------------------------------------------------
(* rank_init(): the formulas' database is needed, the other one is not *)

\* What rank_free() releases: the databases that were opened, for the pointers
\* are never reset, the heap's array, and the items that are on the list.
RankFreed == {"heap.array"} \cup {x \in {"db_formula", "db_textree"} : mem[x] # "none"}
             \cup {x \in {"keep"} : n_items > 0}

RankInit(dbs) ==
  /\ pc = "rank_init"
  /\ Alloc({"heap.array"} \cup dbs)
  /\ pc' = IF "db_formula" \in dbs THEN "collection" ELSE "no_db"
  /\ UNCHANGED <<front, double, ret_code, n_nodes, node, n_items, en_merges_nd_se, ret_err>>

\* cp_search() frees the rank, and returns it.
NoDB ==
  /\ pc = "no_db"
  /\ Release(RankFreed)
  /\ n_items' = 0
  /\ Fail("DB_MISSING")
  /\ UNCHANGED <<front, n_nodes, node, en_merges_nd_se, ret_err>>

---------------------------------------------------------------------------
(* The collection, the query *)

NoCollection(code) ==
  /\ pc = "collection"
  /\ Fail(code)
  /\ UNCHANGED <<front, mem, double, n_nodes, node, n_items, en_merges_nd_se, ret_err>>

CollectionFound ==
  /\ pc = "collection"
  /\ pc' = "parse"
  /\ UNCHANGED <<front, mem, double, ret_code, n_nodes, node, n_items, en_merges_nd_se, ret_err>>

\* cp_parse() leaves no tree: a syntax error, nothing, or a nil tree, which it
\* has released itself.
ParserFails ==
  /\ pc = "parse"
  /\ Fail("PARSER_FAILS")
  /\ UNCHANGED <<front, mem, double, n_nodes, node, n_items, en_merges_nd_se, ret_err>>

Parsed ==
  /\ pc = "parse"
  /\ Alloc({"parser_root"})
  /\ pc' = "update"
  /\ UNCHANGED <<front, double, ret_code, n_nodes, node, n_items, en_merges_nd_se, ret_err>>

\* tex_tr_update(): more leaves than MAX_TEX_TR_LEAVES.
TooManyLeaves ==
  /\ pc = "update"
  /\ Fail("EX_LIMIT")
  /\ UNCHANGED <<front, mem, double, n_nodes, node, n_items, en_merges_nd_se, ret_err>>

Updated ==
  /\ pc = "update"
  /\ n_nodes' \in 1 .. MaxNodes
  /\ Alloc(SearchRes)
  /\ pc' = "node"
  /\ UNCHANGED <<front, double, ret_code, node, n_items, en_merges_nd_se, ret_err>>

---------------------------------------------------------------------------
(* merge_node_search() for each merge node *)

\* tex_tr_subpaths() finds a limit exceeded, after some subpaths or none.
SubpathError(some) ==
  /\ pc = "node" /\ node < n_nodes
  /\ Alloc(IF some THEN {"li_subpath"} ELSE {})
  /\ ret_err' = TRUE
  /\ pc' = "node_exit_break"
  /\ UNCHANGED <<front, double, ret_code, n_nodes, node, n_items, en_merges_nd_se>>

\* searcher_cons() from the subpaths, which are freed.
Construct ==
  /\ pc = "node" /\ node < n_nodes
  /\ Alloc({"li_query_path"})
  /\ pc' = "merge_search"
  /\ UNCHANGED <<front, double, ret_code, n_nodes, node, n_items, en_merges_nd_se, ret_err>>

\* test if we go on to the next merge node
GoOn(items) == items < STOP_MERG_ND_RK_ITEMS /\ en_merges_nd_se

\* Fault for the mutation test: the list grows beyond its capacity.
OfferUncapped(found) ==
  /\ pc = "merge_search"
  /\ n_items' = n_items + found
  /\ mem' = [mem EXCEPT !["keep"] = IF n_items' > 0 THEN "live" ELSE @]
  /\ UNCHANGED <<front, pc, double, ret_code, n_nodes, node, en_merges_nd_se, ret_err>>

\* rank_filter() for the documents of one directory, or none.
Offer(found) ==
  /\ pc = "merge_search"
  /\ n_items' = IF n_items + found > Capacity THEN Capacity ELSE n_items + found
  /\ mem' = [mem EXCEPT !["keep"] = IF n_items' > 0 THEN "live" ELSE @]
  /\ UNCHANGED <<front, pc, double, ret_code, n_nodes, node, en_merges_nd_se, ret_err>>

\* merge_search() has returned; the break is the same whatever it returned.
MergeDone ==
  /\ pc = "merge_search"
  /\ pc' = IF GoOn(n_items) THEN "node_exit" ELSE "node_exit_break"
  /\ UNCHANGED <<front, mem, double, ret_code, n_nodes, node, n_items, en_merges_nd_se, ret_err>>

\* Fault for the mutation test: only the query paths are released.
NodeFreedLess == {x \in {"li_query_path"} : mem[x] = "live"}

NodeFreed == {x \in {"li_subpath", "li_query_path"} : mem[x] = "live"}

NodeExit ==
  /\ pc \in {"node_exit", "node_exit_break"}
  /\ Release(NodeFreed)
  /\ node' = node + 1
  /\ pc' = IF pc = "node_exit" /\ node + 1 < n_nodes THEN "node" ELSE "sort"
  /\ UNCHANGED <<front, ret_code, n_nodes, n_items, en_merges_nd_se, ret_err>>

---------------------------------------------------------------------------
(* rank_sort(), and the way out *)

Sort ==
  /\ pc = "sort"
  /\ Release(SearchRes)
  /\ ret_code' = IF ret_err THEN "EX_LIMIT" ELSE ret_code
  /\ pc' = "exit"
  /\ UNCHANGED <<front, n_nodes, node, n_items, en_merges_nd_se, ret_err>>

\* Fault for the mutation test: the tree is released by the caller's rule too.
ExitTwice ==
  /\ pc = "exit"
  /\ Release({"parser_root"})
  /\ pc' = "returned"
  /\ UNCHANGED <<front, ret_code, n_nodes, node, n_items, en_merges_nd_se, ret_err>>

Exit ==
  /\ pc = "exit"
  /\ Release({x \in {"parser_root"} : mem[x] = "live"})
  /\ pc' = "returned"
  /\ UNCHANGED <<front, ret_code, n_nodes, node, n_items, en_merges_nd_se, ret_err>>

\* The caller prints the answer for ret_code, and frees the rank in any case.
RankFree ==
  /\ pc = "returned"
  /\ Release(RankFreed)
  /\ n_items' = 0
  /\ pc' = "front_exit"
  /\ UNCHANGED <<front, ret_code, n_nodes, node, en_merges_nd_se, ret_err>>

\* if (query) free it; garbage may be null by chance.
QueryFree ==
  /\ pc = "front_exit"
  /\ \/ query # "null" /\ Release({"query"})
     \/ query # "set" /\ UNCHANGED <<mem, double>>
  /\ pc' = "done"
  /\ UNCHANGED <<front, ret_code, n_nodes, node, n_items, en_merges_nd_se, ret_err>>

SearchFinished == pc = "done" /\ UNCHANGED searchVars

\* Everything but the search of a merge node.
Driver ==
  \/ GetQuery \/ NoQuery \/ NoQueryString \/ BadOption \/ CallSearch
  \/ \E dbs \in SUBSET {"db_formula", "db_textree"} : RankInit(dbs)
  \/ NoDB \/ NoCollection("COL_UNSET") \/ NoCollection("COL_MISSING") \/ CollectionFound
  \/ ParserFails \/ Parsed \/ TooManyLeaves \/ Updated
  \/ (\E some \in BOOLEAN : SubpathError(some))
  \/ Sort \/ Exit \/ RankFree \/ QueryFree

SearchStep ==
  \/ Driver \/ NodeExit
  \/ Construct \/ (\E found \in 0 .. MaxFound : Offer(found)) \/ MergeDone

SearchNext == SearchStep \/ SearchFinished

\* One thread, which is scheduled.
SearchSpec == SearchInit /\ [][SearchNext]_searchVars /\ WF_searchVars(SearchStep)

---------------------------------------------------------------------------
(* Properties *)

\* The types of the variables.
SearchTypeOK ==
  /\ caller \in {"main", "web"} /\ query \in {"null", "set", "garbage"}
  /\ pc \in {"start", "options", "rank_init", "no_db", "collection", "parse", "update", "node",
             "merge_search", "node_exit", "node_exit_break", "sort", "exit",
             "returned", "front_exit", "done"}
  /\ mem \in [Res -> {"none", "live", "freed"}] /\ double \subseteq Res
  /\ ret_code \in {"GOOD", "DB_MISSING", "COL_UNSET", "COL_MISSING", "PARSER_FAILS",
                   "EX_LIMIT"}
  /\ n_nodes \in 0 .. MaxNodes /\ node \in 0 .. n_nodes
  /\ n_items \in 0 .. Capacity
  /\ en_merges_nd_se \in BOOLEAN /\ ret_err \in BOOLEAN

\* "always good to use for user after cp_search() returns" (search.c:396-397):
\* what the returned rank refers to is there.
RankGoodToUse ==
  pc = "returned" => /\ mem["heap.array"] = "live"
                     /\ \A x \in RankRes : mem[x] # "freed"

\* Whatever fails, nothing is released twice, but for the rank that is returned
\* freed when the database is missing, and nothing that was never allocated, but
\* for the query of the CGI program that gets no QUERY_STRING.
ReleasedOnce ==
  double \subseteq (IF ret_code = "DB_MISSING" THEN RankRes ELSE {})
                \cup (IF query = "garbage" THEN {"query"} ELSE {})

\* Whatever fails, what was allocated is released when the program ends: what
\* trace_unfree() counts.
NothingLeft == pc = "done" => \A x \in Res : mem[x] # "live"

=============================================================================
