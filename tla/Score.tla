------------------------------- MODULE Score -------------------------------
(***************************************************************************)
(* search/score.c: the score of a document formula for the query paths of  *)
(* a merge node.  posmerge() hands over the branch words of one document   *)
(* after the other, score_push() files each under its variable and scores  *)
(* it against the query paths of its directory, and score_calc() matches   *)
(* query paths to branch words: the query paths of one variable are a      *)
(* stage, in a stage every variable of the document has a champion per     *)
(* query path, and the variable with the greatest sum wins the stage.      *)
(* One searcher, score tree and cache serve a whole cp_search(); what is   *)
(* not cleared between documents and merge nodes stays.                    *)
(***************************************************************************)
EXTENDS Integers, Sequences, FiniteSets, FiniteSetsExt

CONSTANTS Queries,   \* lists of subpaths, in the order of query_paths_name_sort()
          DocFans,   \* fan series of a document, from the leaf to the merge node
          Symbols,   \* symbol ids of a document
          Above,     \* fan series above the merge node, one per search depth
          Garbage,   \* bytes that malloc() may leave in a query path
          MaxPush,   \* bound: branch words of a document
          NULL

MaxPaths == Max({Len(q) : q \in Queries})
Cols     == 1 .. MaxPush                     \* variables
Units    == Cols \X Cols                     \* cells of check_board
Cells    == (1 .. MaxPaths) \X Cols          \* cells of champ_board

\* A subpath: the leaf's symbol, the directory and the fan series.
Subpaths(n) == [symbol_id : Symbols, dir : 1 .. n, fan : Seq(Nat)]

\* query_paths_name_sort(): the paths of one variable follow one another.
NameSorted(q) ==
  \A i, k \in DOMAIN q : q[i].symbol_id = q[k].symbol_id =>
    \A j \in i .. k : q[j].symbol_id = q[i].symbol_id

ASSUME ScoreAssumption ==
  /\ Queries # {} /\ IsFiniteSet(Queries)
  /\ \A q \in Queries : q # <<>> /\ q \in Seq(Subpaths(Len(q))) /\ NameSorted(q)
  /\ DocFans \subseteq Seq(Nat) /\ Garbage \subseteq Nat
  /\ Above # <<>> /\ Above \in Seq(Seq(Nat))
  /\ MaxPush \in Nat \ {0} /\ NULL \notin Units \cup Cols

VARIABLES
  qpaths,      \* li_query_path: [symbol_id, dir, fan], fan as it is in memory
  depth,       \* se_depth
  pipe,        \* the posting list that posmerge() hands over
  doc,         \* branch words of this document so far: [dir, symbol_id, fan]
  var,         \* st->var: [symbol_id, n_ck_unit], n_var long
  var_score,   \* st->var_score
  check_board, \* check unit -> [ck_mark, id]
  stack,       \* dir -> <<[ck, var_idx], ...>>: rlv_stack_items long
  cache,       \* <<query path, id>> -> score
  champ_board, \* <<query path, variable>> -> [max, who]
  score, max, who,
  stage_idx,
  now,         \* the query path score_calc() is at; 0 before, NPaths + 1 after
  item, match  \* the branch word it is at; whether one could be matched

treeVars  == <<var, var_score, check_board, champ_board, score, max, who>>
calcVars  == <<stage_idx, now, item, match>>
vars == <<qpaths, depth, pipe, doc, treeVars, stack, cache, calcVars>>

NPaths == Len(qpaths)
NDirs(q) == Max({q[i].dir : i \in DOMAIN q})
NoChamp == [max |-> 0, who |-> NULL]
NoUnit  == [ck_mark |-> "UNMARKED", id |-> 0]

---------------------------------------------------------------------------
(* The score of two branch words *)

\* fan_constrain(): both series end with a zero, if they have one.
FanConstrain(fan_q, fan_d) ==
  \E i \in 2 .. Min({Len(fan_q), Len(fan_d)}) :
    /\ fan_q[i] > fan_d[i]
    /\ \A j \in 2 .. i : fan_q[j] # 0 /\ fan_d[j] # 0

ScoreOf(brw_q, brw_d, d) ==
  IF FanConstrain(brw_q.fan, brw_d.fan) THEN 0
  ELSE ((IF brw_q.symbol_id = brw_d.symbol_id THEN 10 ELSE 9) \div (1 + d))
       * Min({brw_q.fan[1], brw_d.fan[1]})

---------------------------------------------------------------------------
(* The searcher of a merge node *)

\* _search_cons(), cpy_series(): the zero that ends the fan series is not
\* copied, and the query path is not cleared before.
Copies(subpath) == {[subpath EXCEPT !.fan = @ \o <<g>>] : g \in Garbage}

Constructed(q) ==
  {copies \in [DOMAIN q -> UNION {Copies(q[i]) : i \in DOMAIN q}] :
     \A i \in DOMAIN q : copies[i] \in Copies(q[i])}

Init ==
  /\ \E q \in Queries : qpaths \in Constructed(q)
  /\ depth = 0 /\ pipe = 1 /\ doc = <<>>
  /\ var = <<>> /\ var_score = [i \in Cols |-> 0]
  /\ check_board = [u \in Units |-> NoUnit]
  /\ stack = [d \in 1 .. MaxPaths |-> <<>>]
  /\ cache = [c \in (1 .. MaxPaths) \X Cols |-> 0]
  /\ champ_board = [c \in Cells |-> NoChamp]
  /\ score = 0 /\ max = 0 /\ who = NULL
  /\ stage_idx = 1 /\ now = 0 /\ item = 1 /\ match = FALSE

\* merge_node_search(): searcher_empty(), searcher_cons(), score_tr_setup().
NextNode ==
  /\ now = 0 /\ doc = <<>>
  /\ \E q \in Queries : qpaths' \in Constructed(q)
  /\ stack' = [d \in 1 .. MaxPaths |-> <<>>]
  /\ depth' = 0
  /\ UNCHANGED <<pipe, doc, treeVars, cache, calcVars>>

\* merge_dir_callbk() sets se_depth before it merges the next directories.
NextDirs ==
  /\ now = 0 /\ doc = <<>>
  /\ depth' \in 0 .. Len(Above) - 1
  /\ UNCHANGED <<qpaths, pipe, doc, treeVars, stack, cache, calcVars>>

---------------------------------------------------------------------------
(* merge_pos_callbk() with a branch word: score_push() *)

\* score_tr_insert(): the index of the variable.
VarOf(symbol) ==
  IF \E i \in DOMAIN var : var[i].symbol_id = symbol
  THEN CHOOSE i \in DOMAIN var : var[i].symbol_id = symbol
  ELSE Len(var) + 1

\* Fault for the mutation test: var_score of a new variable is not reset.
InsertKeepsScore(brw) ==
  LET i == VarOf(brw.symbol_id)
  IN  /\ var' = IF i \in DOMAIN var THEN [var EXCEPT ![i].n_ck_unit = @ + 1]
                ELSE Append(var, [symbol_id |-> brw.symbol_id, n_ck_unit |-> 1])
      /\ UNCHANGED var_score

Insert(brw) ==
  LET i == VarOf(brw.symbol_id)
  IN  /\ var' = IF i \in DOMAIN var THEN [var EXCEPT ![i].n_ck_unit = @ + 1]
                ELSE Append(var, [symbol_id |-> brw.symbol_id, n_ck_unit |-> 1])
      /\ var_score' = IF i \in DOMAIN var THEN var_score ELSE [var_score EXCEPT ![i] = 0]

\* MaxPush leaves room for a branch word of each directory to come.
Push(symbol, fan) ==
  /\ now = 0 /\ Len(doc) < MaxPush - (NDirs(qpaths) - pipe)
  /\ LET id  == Len(doc) + 1
         brw == [dir |-> pipe, symbol_id |-> symbol, fan |-> fan \o Above[depth + 1] \o <<0>>]
         i   == VarOf(symbol)
         ck  == <<IF i \in DOMAIN var THEN var[i].n_ck_unit + 1 ELSE 1, i>>
     IN  /\ doc' = Append(doc, brw)
         /\ Insert(brw)
         /\ check_board' = [check_board EXCEPT ![ck] = [ck_mark |-> "UNMARKED", id |-> id]]
         /\ stack' = [stack EXCEPT ![pipe] = Append(@, [ck |-> ck, var_idx |-> i])]
         /\ cache' = [c \in DOMAIN cache |->
                        IF c[1] <= NPaths /\ qpaths[c[1]].dir = pipe /\ c[2] = id
                        THEN ScoreOf(qpaths[c[1]], brw, depth) ELSE cache[c]]
  /\ UNCHANGED <<qpaths, depth, pipe, champ_board, score, max, who, calcVars>>

\* The next posting list has the document too.
NextPipe ==
  /\ now = 0 /\ pipe < NDirs(qpaths)
  /\ stack[pipe] # <<>>
  /\ pipe' = pipe + 1
  /\ UNCHANGED <<qpaths, depth, doc, treeVars, stack, cache, calcVars>>

---------------------------------------------------------------------------
(* The ending call: score_calc() goes through the query paths *)

\* The next query path, from its first branch word.
GoTo(n) == now' = n /\ item' = 1 /\ match' = FALSE

Calc ==
  /\ now = 0 /\ pipe = NDirs(qpaths) /\ stack[pipe] # <<>>
  /\ GoTo(1) /\ stage_idx' = 1
  /\ UNCHANGED <<qpaths, depth, pipe, doc, treeVars, stack, cache>>

\* The branch words of the directory of query path number now.
Relevant == stack[qpaths[now].dir]
Scanned  == now \in 1 .. NPaths /\ item > Len(Relevant)

\* Fault for the mutation test: the old champion stays marked.
ReplaceKeepsMark(cell, ck, s) ==
  /\ champ_board' = [champ_board EXCEPT ![cell] = [max |-> s, who |-> ck]]
  /\ check_board' = [check_board EXCEPT ![ck].ck_mark = "MARKED"]

\* The new champion of a cell; the old one is free again.
Replace(cell, ck, s) ==
  /\ champ_board' = [champ_board EXCEPT ![cell] = [max |-> s, who |-> ck]]
  /\ check_board' = [u \in Units |->
       IF u = ck THEN [check_board[u] EXCEPT !.ck_mark = "MARKED"]
       ELSE IF u = champ_board[cell].who THEN [check_board[u] EXCEPT !.ck_mark = "UNMARKED"]
       ELSE check_board[u]]

\* One branch word for query path number now: the better one is the champion.
Consider ==
  /\ now \in 1 .. NPaths /\ item <= Len(Relevant)
  /\ LET ck   == Relevant[item].ck
         cell == <<now, Relevant[item].var_idx>>
         s    == cache[<<now, check_board[ck].id>>]
         free == check_board[ck].ck_mark = "UNMARKED"
     IN  /\ match' = (match \/ free)
         /\ IF free /\ s > champ_board[cell].max THEN Replace(cell, ck, s)
            ELSE UNCHANGED <<champ_board, check_board>>
  /\ item' = item + 1
  /\ UNCHANGED <<qpaths, depth, pipe, doc, var, var_score, score, max, who, stack, cache,
                 stage_idx, now>>

\* next_stage()
NextStage ==
  now # NPaths => qpaths[now].symbol_id # qpaths[now + 1].symbol_id

\* The sums of the variables, and the first variable whose sum exceeds max.
Sums == [i \in Cols |-> IF i \in DOMAIN var THEN var_score[i] + champ_board[<<now, i>>].max
                        ELSE var_score[i]]
NewMax == Max({max} \cup {Sums[i] : i \in DOMAIN var})
NewWho == IF NewMax = max THEN who
          ELSE CHOOSE i \in DOMAIN var : /\ Sums[i] = NewMax
                                         /\ \A j \in DOMAIN var : Sums[j] = NewMax => i <= j

\* Fault for the mutation test: champ_board is not cleared.
ExhaustedKeepsChamps ==
  /\ Scanned /\ ~match
  /\ score' = 0 /\ max' = 0 /\ who' = NULL
  /\ GoTo(NPaths + 1)
  /\ UNCHANGED <<qpaths, depth, pipe, doc, var, var_score, check_board, champ_board,
                 stack, cache, stage_idx>>

\* No branch word is left for a query path: the document scores nothing.
Exhausted ==
  /\ Scanned /\ ~match
  /\ score' = 0 /\ max' = 0 /\ who' = NULL
  /\ champ_board' = [c \in Cells |-> IF c[1] <= NPaths THEN NoChamp ELSE champ_board[c]]
  /\ GoTo(NPaths + 1)
  /\ UNCHANGED <<qpaths, depth, pipe, doc, var, var_score, check_board, stack, cache,
                 stage_idx>>

MidStage ==
  /\ Scanned /\ match /\ ~NextStage
  /\ var_score' = Sums /\ max' = NewMax /\ who' = NewWho
  /\ GoTo(now + 1)
  /\ UNCHANGED <<qpaths, depth, pipe, doc, var, check_board, champ_board, score, stack,
                 cache, stage_idx>>

\* The champions of this stage in the columns of the document's variables.
StageChamps ==
  {c \in Cells : /\ c[1] \in stage_idx .. now /\ c[2] \in DOMAIN var
                 /\ champ_board[c].who # NULL}

\* Fault for the mutation test: all champions can be matched again.
CrossedNone(u) == "UNMARKED"

\* The mark of a champion after its stage.
NewMark(u) == IF u[2] = NewWho THEN "CROSSED" ELSE "UNMARKED"

\* Fault for the mutation test: the champions stay after the stage.
ClearedMax(c) == [champ_board[c] EXCEPT !.max = 0]

Cleared(c) == NoChamp

EndStage ==
  /\ Scanned /\ match /\ NextStage
  /\ check_board' =
       [u \in Units |-> IF \E c \in StageChamps : champ_board[c].who = u
                        THEN [check_board[u] EXCEPT !.ck_mark = NewMark(u)]
                        ELSE check_board[u]]
  /\ champ_board' =
       [c \in Cells |-> IF c \in StageChamps THEN Cleared(c) ELSE champ_board[c]]
  /\ var_score' = [i \in Cols |-> IF i \in DOMAIN var THEN 0 ELSE var_score[i]]
  /\ score' = score + NewMax /\ max' = 0 /\ who' = NULL
  /\ stage_idx' = now
  /\ GoTo(now + 1)
  /\ UNCHANGED <<qpaths, depth, pipe, doc, var, stack, cache>>

\* Fault for the mutation test: n_var is not reset.
ClearKeepsVars ==
  /\ now = NPaths + 1
  /\ check_board' = [u \in Units |-> IF u[1] <= NPaths THEN NoUnit ELSE check_board[u]]
  /\ score' = 0
  /\ stack' = [d \in DOMAIN stack |-> <<>>]
  /\ GoTo(0) /\ pipe' = 1 /\ doc' = <<>>
  /\ UNCHANGED <<qpaths, depth, var, var_score, champ_board, max, who, cache, stage_idx>>

\* The end of the ending call: score_tr_clear(), searcher_clear().
Clear ==
  /\ now = NPaths + 1
  /\ check_board' = [u \in Units |-> IF u[1] <= NPaths THEN NoUnit ELSE check_board[u]]
  /\ var' = <<>> /\ score' = 0
  /\ stack' = [d \in DOMAIN stack |-> <<>>]
  /\ GoTo(0) /\ pipe' = 1 /\ doc' = <<>>
  /\ UNCHANGED <<qpaths, depth, var_score, champ_board, max, who, cache, stage_idx>>

Next ==
  \/ NextNode \/ NextDirs
  \/ \E symbol \in Symbols, fan \in DocFans : Push(symbol, fan)
  \/ NextPipe \/ Calc
  \/ Consider \/ Exhausted \/ MidStage \/ EndStage \/ Clear

Spec == Init /\ [][Next]_vars

---------------------------------------------------------------------------
(* Properties *)

Marks == {"UNMARKED", "MARKED", "CROSSED"}

\* The types of the variables; no array is indexed past its end.
ScoreTypeOK ==
  /\ now \in 0 .. NPaths + 1 /\ stage_idx \in 1 .. MaxPaths
  /\ item \in 1 .. MaxPush + 1 /\ match \in BOOLEAN
  /\ depth \in 0 .. Len(Above) - 1 /\ pipe \in 1 .. MaxPaths
  /\ Len(doc) <= MaxPush
  /\ \A i \in DOMAIN var : var[i].symbol_id \in Symbols /\ var[i].n_ck_unit \in Cols
  /\ var_score \in [Cols -> Nat]
  /\ check_board \in [Units -> [ck_mark : Marks, id : 0 .. MaxPush]]
  /\ stack \in [1 .. MaxPaths -> Seq([ck : Units, var_idx : Cols])]
  /\ cache \in [(1 .. MaxPaths) \X Cols -> Nat]
  /\ champ_board \in [Cells -> [max : Nat, who : Units \cup {NULL}]]
  /\ score \in Nat /\ max \in Nat /\ who \in Cols \cup {NULL}

\* While score_calc() runs the marked check units are the champions, each of one
\* query path only, and a champion is of the variable it stands for.
MarkedAreChamps ==
  now \in 1 .. NPaths =>
    /\ \A c \in Cells : champ_board[c].who # NULL =>
         /\ champ_board[c].who[2] = c[2]
         /\ check_board[champ_board[c].who].ck_mark = "MARKED"
    /\ \A c, e \in Cells : champ_board[c].who = champ_board[e].who /\ c # e
                           => champ_board[c].who = NULL
    /\ \A i \in DOMAIN var : \A k \in 1 .. var[i].n_ck_unit :
         check_board[<<k, i>>].ck_mark = "MARKED"
           => \E c \in Cells : champ_board[c].who = <<k, i>>

\* A document starts with no champion of any query path, no maximum and no
\* winner, whichever merge node and document came before.
CleanBetweenDocuments ==
  now = 0 => /\ \A c \in Cells : champ_board[c] = NoChamp
             /\ max = 0 /\ who = NULL /\ score = 0

SameStage(i, j) == qpaths[i].symbol_id = qpaths[j].symbol_id

\* The score of a document is that of a matching: no branch word is matched to
\* two query paths, each is of the query path's directory, and the query paths
\* of one variable go to branch words of one variable.
Matching(f) ==
  /\ \A i \in DOMAIN f : f[i] # 0 => doc[f[i]].dir = qpaths[i].dir
  /\ \A i, j \in DOMAIN f : i # j /\ f[i] # 0 /\ f[j] # 0 =>
       /\ f[i] # f[j]
       /\ SameStage(i, j) => doc[f[i]].symbol_id = doc[f[j]].symbol_id

MatchingScore(f) ==
  LET sum[n \in 0 .. NPaths] ==
        IF n = 0 THEN 0
        ELSE sum[n - 1] + (IF f[n] = 0 THEN 0 ELSE ScoreOf(qpaths[n], doc[f[n]], depth))
  IN  sum[NPaths]

ScoreIsMatching ==
  now = NPaths + 1 =>
    \E f \in [1 .. NPaths -> 0 .. Len(doc)] : Matching(f) /\ MatchingScore(f) = score

\* Within a document a branch word matched in an earlier stage is never
\* matched again.
CrossedStaysCrossed ==
  [][\A u \in Units : /\ now \in 1 .. NPaths
                      /\ check_board[u].ck_mark = "CROSSED"
                      => check_board'[u].ck_mark = "CROSSED"]_vars

=============================================================================
