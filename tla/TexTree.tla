------------------------------- MODULE TexTree -------------------------------
(***************************************************************************)
(* parser/tex-tr.c and the actions of parser/grammar.y: the tree of a      *)
(* formula from the parser's reductions to the branch words that are       *)
(* indexed or searched, on the linked lists of Lists.  The traversals of   *)
(* common/tree.c are run callback by callback, because two of the          *)
(* callbacks detach and free the node they are at.                         *)
(***************************************************************************)
EXTENDS Lists, Sequences, FiniteSets, SequencesExt

CONSTANTS Formulas,   \* the reductions of a formula, in the parser's order
          Vars,       \* symbols of variables
          SymbolId,   \* the order of all symbols, enum symbol_id
          MaxNodes,   \* bound: nodes allocated for one formula
          MAX_TEX_TR_DEPTH, MAX_TEX_TR_LEAVES,
          MAX_BRW_PIN_SZ  \* UINT8_MAX: the width of a pin and of a fan

Reductions == {"nil", "rel", "+", "/", "sup", "hang", "stackrel"}
Symbols    == Vars \cup {"none", "nil", "rel", "ADD", "FRAC", "SUP_SCRIPT", "HANGER"}
Tokens     == {"none", "NIL", "EQ_CLASS", "VAR", "ADD", "FRAC", "SUP_SCRIPT", "HANGER"}

ASSUME TexTreeAssumption ==
  /\ MaxNodes \in Nat \ {0} /\ MAX_BRW_PIN_SZ \in Nat \ {0}
  /\ MAX_TEX_TR_DEPTH \in Nat \ {0} /\ MAX_TEX_TR_LEAVES \in Nat \ {0}
  /\ SymbolId \in [Symbols -> Nat]
  /\ \A s, t \in Symbols : SymbolId[s] = SymbolId[t] => s = t
  /\ Vars \cap Reductions = {}
  /\ Formulas \subseteq Seq(Vars \cup Reductions)

\* The values that a reduction takes from the parser's stack, and how many are
\* on it after k reductions: each of them leaves one.
Pops(l) == CASE l \in {"+", "/", "hang"} -> 2
             [] l = "sup" -> 1
             [] l = "stackrel" -> 4
             [] OTHER -> 0

Values(w, k) == k - Cardinality({i \in (1 .. k) \X (1 .. 4) : i[2] <= Pops(w[i[1]])})

\* The grammar: no reduction lacks a value, and one value is left.
ASSUME GrammarAssumption ==
  \A w \in Formulas : /\ \A k \in DOMAIN w : Pops(w[k]) <= Values(w, k - 1)
                      /\ Values(w, Len(w)) = 1

Nodes == 1 .. MaxNodes

VARIABLES
  formula,  \* the input
  at,       \* next reduction
  stack,    \* the parser's values, parser_root is the last
  todo,     \* calls the current reduction has still to make
  pc,
  links,    \* prev, next, father and sons of the nodes
  node,     \* the other fields: symbol_id, token_id, n_fan, rank, node_id
  mem,      \* node -> "none", "live" or "freed"
  places,   \* the list_foreach() calls of a traversal, the innermost last
  cur_id, tot_brw,  \* struct assign_id_arg
  rot, subpaths, err, \* struct gen_subpath_arg
  shape     \* history: sons of every node when the formula was read

input == <<formula, at, stack, todo>>
words == <<cur_id, tot_brw, rot, subpaths, err>>
vars  == <<input, pc, links, node, mem, places, words, shape>>

Fresh == [symbol_id |-> "none", token_id |-> "none", n_fan |-> 0, rank |-> 0, node_id |-> 0]

Init ==
  /\ formula \in Formulas
  /\ at = 1 /\ stack = <<>> /\ todo = <<>> /\ pc = "parse"
  /\ links = [prev |-> [n \in Nodes |-> n], next |-> [n \in Nodes |-> n],
              father |-> [n \in Nodes |-> NULL], sons |-> [n \in Nodes |-> LIST_NULL]]
  /\ node = [n \in Nodes |-> Fresh]
  /\ mem = [n \in Nodes |-> "none"]
  /\ places = <<>>
  /\ cur_id = 0 /\ tot_brw = 0 /\ rot = NULL /\ subpaths = <<>> /\ err = FALSE
  /\ shape = [n \in Nodes |-> <<>>]

Live    == {n \in Nodes : mem[n] = "live"}
Sons(f) == {n \in Live : links.father[n] = f}
Leaf(n) == links.sons[n].now = NULL

\* The sons in the order of the list.
SonSeq(f) ==
  LET next[i \in 1 .. Cardinality(Sons(f))] ==
        IF i = 1 THEN links.sons[f].now ELSE links.next[next[i - 1]]
  IN  next

---------------------------------------------------------------------------
(* The parser's actions: TR_CONS and TR_ATTACH *)

is_commutative(t) == t \in {"ADD", "HANGER"}
is_sequential(t)  == t \in {"FRAC"}

New(k) == Cardinality({n \in Nodes : mem[n] # "none"}) + k

\* tex_tr_alloc() of the nodes with these symbols and tokens, in order.
Alloc(kinds) ==
  LET new == New(1) .. New(Len(kinds))
  IN  /\ New(Len(kinds)) \in Nodes
      /\ mem' = [n \in Nodes |-> IF n \in new THEN "live" ELSE mem[n]]
      /\ node' = [n \in Nodes |->
           IF n \in new
           THEN [Fresh EXCEPT !.symbol_id = kinds[n - New(0)][1], !.token_id = kinds[n - New(0)][2]]
           ELSE node[n]]

\* The value that is the k-th from the top.
Value(k) == stack[Len(stack) - k + 1]

\* One reduction: pops values, pushes one, and leaves calls to make.
Reduce(letters, push, calls) ==
  /\ pc = "parse" /\ todo = <<>> /\ at <= Len(formula) /\ formula[at] \in letters
  /\ at' = at + 1
  /\ stack' = Append(SubSeq(stack, 1, Len(stack) - Pops(formula[at])), push)
  /\ todo' = calls
  /\ UNCHANGED <<formula, pc, links, places, words, shape>>

Attach(f, s) == [call |-> "attach", f |-> f, s |-> s]
Drop(s)      == [call |-> "release", f |-> NULL, s |-> s]

\* A variable, the empty formula, a relation.
Atom ==
  /\ Reduce(Vars \cup {"nil", "rel"}, New(1), <<>>)
  /\ LET l == formula[at]
     IN  Alloc(<< <<l, IF l = "nil" THEN "NIL" ELSE IF l = "rel" THEN "EQ_CLASS" ELSE "VAR">> >>)

Operator(l, token) ==
  /\ Reduce({l}, New(1), <<Attach(New(1), Value(2)), Attach(New(1), Value(1))>>)
  /\ Alloc(<< <<token, token>> >>)

\* script: a SUP_SCRIPT in a HANGER.
Script ==
  /\ Reduce({"sup"}, New(2), <<Attach(New(1), Value(1)), Attach(New(2), New(1))>>)
  /\ Alloc(<< <<"SUP_SCRIPT", "SUP_SCRIPT">>, <<"HANGER", "HANGER">> >>)

\* factor script: the factor goes under the script's HANGER.
Hang ==
  /\ Reduce({"hang"}, Value(1), <<Attach(Value(1), Value(2))>>)
  /\ UNCHANGED <<mem, node>>

\* tex _STACKREL atom rel tex: what is above the relation is released.
StackRel ==
  /\ Reduce({"stackrel"}, Value(2),
            <<Attach(Value(2), Value(4)), Attach(Value(2), Value(1)), Drop(Value(3))>>)
  /\ UNCHANGED <<mem, node>>

---------------------------------------------------------------------------
(* Traversals: tree_foreach() with tree_post_order_DFS() *)

\* Going down from n to its first leaf: the places of the nested lists.
Down(m, n) ==
  LET d[k \in Nodes] == IF m.sons[k].now = NULL
                        THEN <<Place(m, k)>>
                        ELSE <<Place(m, k)>> \o d[m.sons[k].now]
  IN  d[n]

place == places[Len(places)]
p     == place.now
At(phase) == pc = phase /\ places # <<>>

\* Fault for the mutation test: the callback always goes on.
GoOnAround == FALSE

\* What LIST_GO_OVER returns: break at the last one.
GoOver == Len(places) > 1 /\ p = links.sons[links.father[p]].last

\* After a callback that left the links m and the place here: the list is over,
\* and the father is next, or the list goes on.  The outermost list is run once.
Walk(break, m, here) ==
  places' = IF Len(places) = 1 THEN <<>>
            ELSE IF break THEN Front(places)
            ELSE Front(places) \o Down(m, here.fwd)

Begin(phase, n) == pc' = phase /\ places' = Down(links, n)
Over(phase)     == pc = phase /\ places = <<>>
root            == stack[1]

\* tree_detach() of the current node, which is freed.
DetachFree ==
  LET m == IF links.father[p] = NULL THEN links ELSE tree_detach(links, p)
  IN  /\ links' = m
      /\ mem' = [mem EXCEPT ![p] = "freed"]
      /\ IF links.father[p] = NULL
         THEN Walk(TRUE, m, place)
         ELSE Walk(m.sons[links.father[p]].now = NULL, m, AfterDetach(m, links, p, place))

---------------------------------------------------------------------------
(* tex_tr_attatch(), with son_pass() *)

call == Head(todo)

CallTo(c) == pc = "parse" /\ todo # <<>> /\ call.call = c

Passed == is_commutative(node[call.f].token_id) /\ node[call.f].token_id = node[call.s].token_id

AttachSon ==
  /\ CallTo("attach") /\ ~Passed
  /\ links' = tree_attach(links, call.s, call.f)
  /\ todo' = Tail(todo)
  /\ UNCHANGED <<formula, at, stack, pc, node, mem, places, words, shape>>

\* A son with its father's associative token: the father takes its sons.
PassSons ==
  /\ CallTo("attach") /\ Passed
  /\ pc' = "pass"
  /\ places' = IF Leaf(call.s) THEN <<>> ELSE <<Place(links, links.sons[call.s].now)>>
  /\ UNCHANGED <<input, links, node, mem, words, shape>>

son_pass ==
  /\ At("pass")
  /\ LET detached == tree_detach(links, p)
         attached == tree_attach(detached, p, call.f)
         here == AfterInsert(attached, AfterDetach(detached, links, p, place))
     IN  /\ links' = attached
         /\ places' = IF detached.sons[call.s].now = NULL
                      THEN <<>> ELSE <<Place(attached, here.fwd)>>
  /\ UNCHANGED <<input, pc, node, mem, words, shape>>

Passing ==
  /\ Over("pass")
  /\ mem' = [mem EXCEPT ![call.s] = "freed"]
  /\ todo' = Tail(todo) /\ pc' = "parse"
  /\ UNCHANGED <<formula, at, stack, links, node, places, words, shape>>

---------------------------------------------------------------------------
(* tex_tr_release(): of one tree by a reduction, of what the parser has    *)
(* left after a syntax error, of the root in the end                       *)

DropTree ==
  /\ CallTo("release")
  /\ Begin("drop", call.s)
  /\ UNCHANGED <<input, links, node, mem, words, shape>>

Release ==
  /\ At("drop") \/ At("release")
  /\ DetachFree
  /\ UNCHANGED <<input, pc, node, words, shape>>

Dropped ==
  /\ Over("drop")
  /\ todo' = Tail(todo) /\ pc' = "parse"
  /\ UNCHANGED <<formula, at, stack, links, node, mem, places, words, shape>>

\* yyerror() clears parser_root, and the %destructor takes every value.
SyntaxError ==
  /\ pc = "parse" /\ todo = <<>> /\ at <= Len(formula)
  /\ pc' = "release"
  /\ UNCHANGED <<input, links, node, mem, places, words, shape>>

ReleaseNext ==
  /\ Over("release") /\ stack # <<>>
  /\ Begin("release", Last(stack))
  /\ stack' = Front(stack)
  /\ UNCHANGED <<formula, at, todo, links, node, mem, words, shape>>

Released ==
  /\ Over("release") /\ stack = <<>>
  /\ pc' = "done"
  /\ UNCHANGED <<input, links, node, mem, places, words, shape>>

\* cp_parse(): a nil formula is released, and fails.
Accept ==
  /\ pc = "parse" /\ todo = <<>> /\ at > Len(formula)
  /\ shape' = [n \in Nodes |-> IF mem[n] = "live" THEN SonSeq(n) ELSE <<>>]
  /\ pc' = IF node[root].token_id = "NIL" THEN "release" ELSE "accepted"
  /\ UNCHANGED <<input, links, node, mem, places, words>>

---------------------------------------------------------------------------
(* tex_tr_update(): group, prune, assign *)

Update ==
  /\ pc = "accepted"
  /\ Begin("set_1", root)
  /\ UNCHANGED <<input, links, node, mem, words, shape>>

leaf_n_fan_set_1 ==
  /\ At("set_1")
  /\ node' = IF Leaf(p) THEN [node EXCEPT ![p].n_fan = 1] ELSE node
  /\ Walk(GoOver, links, place)
  /\ UNCHANGED <<input, pc, links, mem, words, shape>>

\* Other sons of the same father with the symbol of l.
Brothers(l) == {b \in Sons(links.father[l]) \ {l} : node[b].symbol_id = node[l].symbol_id}

group_leaf ==
  /\ At("group")
  /\ node' = IF Leaf(p) /\ node[p].n_fan # 0 /\ links.father[p] # NULL
             THEN [n \in Nodes |->
                     IF n = p THEN [node[p] EXCEPT !.n_fan = @ + Cardinality(Brothers(p))]
                     ELSE IF n \in Brothers(p) THEN [node[n] EXCEPT !.n_fan = 0]
                     ELSE node[n]]
             ELSE node
  /\ Walk(GoOver, links, place)
  /\ UNCHANGED <<input, pc, links, mem, words, shape>>

\* Fault for the mutation test: nil nodes only.
CanPruneNil == Leaf(p) /\ links.father[p] # NULL /\ node[p].token_id = "NIL"

\* Grouped nodes and nil nodes; a node whose sons were all pruned is a leaf.
CanPrune == /\ Leaf(p) /\ links.father[p] # NULL
            /\ node[p].n_fan = 0 \/ node[p].token_id = "NIL"

prune ==
  /\ At("prune")
  /\ IF CanPrune
     THEN DetachFree
     ELSE Walk(GoOver, links, place) /\ UNCHANGED <<links, mem>>
  /\ UNCHANGED <<input, pc, node, words, shape>>

assign_leaf_id ==
  /\ At("leaf_id")
  /\ IF Leaf(p)
     THEN /\ cur_id' = cur_id + 1
          /\ node' = [node EXCEPT ![p].node_id = cur_id + 1]
          /\ tot_brw' = tot_brw + node[p].n_fan
     ELSE UNCHANGED <<cur_id, node, tot_brw>>
  /\ Walk(GoOver, links, place)
  /\ UNCHANGED <<input, pc, links, mem, rot, subpaths, err, shape>>

\* With count_sons().
Assigned(f) ==
  LET sons == SonSeq(f)
  IN  [n \in Nodes |->
         IF n = f THEN [node[n] EXCEPT !.node_id = cur_id + 1, !.n_fan = Len(sons)]
         ELSE IF n \in ToSet(sons)
         THEN [node[n] EXCEPT !.rank = (CHOOSE i \in DOMAIN sons : sons[i] = n) - 1]
         ELSE node[n]]

assign_internal ==
  /\ At("internal")
  /\ IF ~Leaf(p) /\ node[p].n_fan = 0
     THEN cur_id' = cur_id + 1 /\ node' = Assigned(p)
     ELSE UNCHANGED <<cur_id, node>>
  /\ Walk(GoOver, links, place)
  /\ UNCHANGED <<input, pc, links, mem, tot_brw, rot, subpaths, err, shape>>

\* The traversals of an update, one after the other.
NextWalk(phase, next) ==
  /\ Over(phase)
  /\ Begin(next, root)
  /\ UNCHANGED <<input, links, node, mem, words, shape>>

Updated ==
  /\ Over("internal")
  /\ pc' = IF tot_brw > MAX_TEX_TR_LEAVES \/ tot_brw = 0 THEN "release" ELSE "updated"
  /\ UNCHANGED <<input, links, node, mem, places, words, shape>>

---------------------------------------------------------------------------
(* tex_tr_subpaths(): of the root to index it, of a merge node to search *)

MergeNode(n) == links.father[n] = NULL \/ Cardinality(Sons(n)) > 1

Subpaths(n) ==
  /\ pc = "updated" /\ n \in Live /\ MergeNode(n)
  /\ rot' = n
  /\ Begin("subpaths", n)
  /\ UNCHANGED <<input, links, node, mem, cur_id, tot_brw, subpaths, err, shape>>

\* The nodes from n up to rot; a node without a father ends the way too, the
\* "safe guard" of the code.
Up(n) ==
  LET u[k \in Nodes] == IF k = rot \/ links.father[k] = NULL THEN <<k>> ELSE <<k>> \o u[links.father[k]]
  IN  u[n]

\* Pins and fans are uint8_t.
Byte(i) == i % (MAX_BRW_PIN_SZ + 1)

\* A directory: the token of each node, with the rank of the son below it if
\* the order of the sons matters.
Dir(up) == [i \in DOMAIN up |->
              <<node[up[i]].token_id,
                IF i > 1 /\ is_sequential(node[up[i]].token_id) THEN node[up[i - 1]].rank ELSE -1>>]

Subpath(up) ==
  [symbol_id |-> node[up[1]].symbol_id,
   dir |-> Dir(up),
   pin |-> [i \in DOMAIN up |-> Byte(node[up[i]].node_id)],
   fan |-> [i \in DOMAIN up |-> Byte(node[up[i]].n_fan)]]

\* Fault for the mutation test: one level too many.
ExceedsDeep == \/ node[p].node_id > MAX_BRW_PIN_SZ \/ node[p].n_fan > MAX_BRW_PIN_SZ
               \/ Len(places) > MAX_TEX_TR_DEPTH

\* The symbol's limit, UINT16_MAX, is above all symbols.
Exceeds == \/ node[p].node_id > MAX_BRW_PIN_SZ \/ node[p].n_fan > MAX_BRW_PIN_SZ
           \/ Len(places) >= MAX_TEX_TR_DEPTH

gen_subpath ==
  /\ At("subpaths")
  /\ IF Leaf(p) /\ node[p].n_fan # 0
     THEN IF Exceeds
          THEN err' = TRUE /\ Walk(TRUE, links, place) /\ UNCHANGED <<subpaths, pc>>
          ELSE /\ subpaths' = Append(subpaths, Subpath(Up(p)))
               /\ pc' = IF Len(Up(p)) >= MAX_TEX_TR_DEPTH THEN "fatal" ELSE pc
               /\ Walk(GoOver, links, place)
               /\ UNCHANGED err
     ELSE Walk(GoOver, links, place) /\ UNCHANGED <<subpaths, err, pc>>
  /\ UNCHANGED <<input, links, node, mem, cur_id, tot_brw, rot, shape>>

\* query_paths_name_sort(): the words of a symbol are counted, and list_sort()
\* inserts one path after the other; list_insert() looks at the first, at the
\* last, and then for the place between them.
SameNameCount(path, paths) ==
  LET cnt[k \in 0 .. Len(paths)] ==
        IF k = 0 THEN 0
        ELSE cnt[k - 1] + (IF paths[k].symbol_id = path.symbol_id THEN paths[k].fan[1] ELSE 0)
  IN  cnt[Len(paths)]

NameBefore(p0, p1, paths) ==
  LET c0 == SameNameCount(p0, paths)
      c1 == SameNameCount(p1, paths)
  IN  IF c0 = c1 THEN SymbolId[p0.symbol_id] < SymbolId[p1.symbol_id] ELSE c0 > c1

list_insert(path, sorted, paths) ==
  LET Before(k) == NameBefore(path, sorted[k], paths)
      Place0    == CHOOSE k \in 2 .. Len(sorted) : Before(k) /\ \A j \in 2 .. k - 1 : ~Before(j)
  IN  IF sorted = <<>> THEN <<path>>
      ELSE IF Before(1) THEN <<path>> \o sorted
      ELSE IF ~Before(Len(sorted)) THEN Append(sorted, path)
      ELSE InsertAt(sorted, Place0, path)

NameSorted(paths) ==
  LET sorted[k \in 0 .. Len(paths)] ==
        IF k = 0 THEN <<>> ELSE list_insert(paths[k], sorted[k - 1], paths)
  IN  sorted[Len(paths)]

\* The branch words are used, and the tree is released.
Generated ==
  /\ Over("subpaths")
  /\ pc' = "release"
  /\ UNCHANGED <<input, links, node, mem, places, words, shape>>

---------------------------------------------------------------------------

Parse ==
  \/ Atom \/ Operator("+", "ADD") \/ Operator("/", "FRAC") \/ Script \/ Hang \/ StackRel
  \/ AttachSon \/ PassSons \/ son_pass \/ Passing \/ DropTree \/ Dropped
  \/ SyntaxError \/ Accept

Assign ==
  \/ Update \/ leaf_n_fan_set_1 \/ NextWalk("set_1", "group") \/ group_leaf
  \/ NextWalk("group", "prune") \/ prune \/ NextWalk("prune", "leaf_id")
  \/ assign_leaf_id \/ NextWalk("leaf_id", "internal") \/ assign_internal \/ Updated

Step ==
  \/ Parse \/ Assign
  \/ (\E n \in Nodes : Subpaths(n)) \/ gen_subpath \/ Generated
  \/ Release \/ ReleaseNext \/ Released

Finished == pc = "done" /\ UNCHANGED vars

Next == Step \/ Finished

\* One thread, which is scheduled.
Spec == Init /\ [][Next]_vars /\ WF_vars(Step)

---------------------------------------------------------------------------
(* Properties *)

Phases == {"parse", "pass", "drop", "accepted", "set_1", "group", "prune", "leaf_id",
           "internal", "updated", "subpaths", "release", "done"}

\* The sons of f are on one ring, in both directions, that begins at the head.
Ring(f) ==
  /\ ToSet(SonSeq(f)) = Sons(f)
  /\ Sons(f) # {} => links.sons[f].last = Last(SonSeq(f))
  /\ \A n \in Sons(f) : links.next[links.prev[n]] = n /\ links.prev[links.next[n]] = n

\* Nodes without a father, and those that someone will release.
Roots == {n \in Live : links.father[n] = NULL}
Owned == ToSet(stack) \cup (IF pc = "release" /\ places # <<>> THEN {places[1].now} ELSE {})

\* In every step of every traversal the lists are what the fathers say, no
\* place of a traversal is a freed node, every live node is below a tree that
\* somebody owns, and nothing is live in the end.
TexTypeOK ==
  /\ pc \in Phases
  /\ node \in [Nodes -> [symbol_id : Symbols, token_id : Tokens,
                         n_fan : 0 .. MaxNodes, rank : 0 .. MaxNodes, node_id : 0 .. MaxNodes]]
  /\ \A n \in Live : links.father[n] \in Live \cup {NULL} /\ Ring(n)
  /\ \A i \in DOMAIN places : {places[i].now, places[i].fwd} \subseteq Live
  /\ todo = <<>> => Roots = Owned
  /\ pc = "done" => Live = {}

\* The tree below n, and the tree that a formula denotes: sequences of sons,
\* where an associative token takes the sons of a son with the same token.
TreeOf(n) ==
  LET t[k \in Nodes] == [token |-> node[k].token_id, symbol |-> node[k].symbol_id,
                         sons |-> [i \in DOMAIN SonSeq(k) |-> t[SonSeq(k)[i]]]]
  IN  t[n]

Tree(token, symbol) == [token |-> token, symbol |-> symbol, sons |-> <<>>]
With(t, son) == [t EXCEPT !.sons = IF son.token = t.token /\ is_commutative(t.token)
                                   THEN @ \o son.sons ELSE Append(@, son)]

Denoted ==
  LET Value0(s, k) == s[Len(s) - k + 1]
      Under(s, k) == SubSeq(s, 1, Len(s) - k)
      Token == [l \in {"+", "/"} |-> IF l = "+" THEN "ADD" ELSE "FRAC"]
      Reduced(s, l) ==
        IF l \in {"+", "/"}
        THEN Append(Under(s, 2), With(With(Tree(Token[l], Token[l]), Value0(s, 2)), Value0(s, 1)))
        ELSE IF l = "sup"
        THEN Append(Under(s, 1), With(Tree("HANGER", "HANGER"),
                                      With(Tree("SUP_SCRIPT", "SUP_SCRIPT"), Value0(s, 1))))
        ELSE IF l = "hang"
        THEN Append(Under(s, 2), With(Value0(s, 1), Value0(s, 2)))
        ELSE IF l = "stackrel"
        THEN Append(Under(s, 4), With(With(Value0(s, 2), Value0(s, 4)), Value0(s, 1)))
        ELSE Append(s, Tree(IF l = "nil" THEN "NIL" ELSE IF l = "rel" THEN "EQ_CLASS" ELSE "VAR", l))
  IN  FoldLeft(Reduced, <<>>, formula)[1]

\* Of the formula as it was read: leaves with the same father and symbol, and
\* what an update should leave, one leaf of each such group and what is above.
Was(n)   == IF \E f \in Nodes : n \in ToSet(shape[f])
            THEN CHOOSE f \in Nodes : n \in ToSet(shape[f]) ELSE NULL
Group(n) == IF Was(n) = NULL THEN {n}
            ELSE {b \in ToSet(shape[Was(n)]) :
                    shape[b] = <<>> /\ node[b].symbol_id = node[n].symbol_id}
First(n) == Was(n) # NULL => \A i, j \in DOMAIN shape[Was(n)] :
              shape[Was(n)][i] = n /\ shape[Was(n)][j] \in Group(n) => i <= j
Kept ==
  LET k[n \in Nodes] == IF shape[n] = <<>> THEN node[n].token_id # "NIL" /\ First(n)
                        ELSE \E s \in ToSet(shape[n]) : k[s]
  IN  k

\* The ids are those of the live nodes, the leaves first; an inner node's fan
\* counts its sons, and their ranks are their positions.
IdsOfTree ==
  /\ {node[n].node_id : n \in Live} = 1 .. Cardinality(Live)
  /\ \A n \in Live :
       /\ ~Leaf(n) => node[n].n_fan = Len(SonSeq(n))
       /\ \A i \in DOMAIN SonSeq(n) : node[SonSeq(n)[i]].rank = i - 1
       /\ Leaf(n) <=> node[n].node_id <= Cardinality({l \in Live : Leaf(l)})

\* The parser builds the tree that the formula denotes; an update leaves one
\* leaf for each symbol below a father, with the number of leaves it stands
\* for, nothing that is empty, and ids, fans and ranks that count what is left.
TreeOfFormula ==
  /\ pc = "accepted" => stack = <<root>> /\ TreeOf(root) = Denoted
  /\ pc = "updated" =>
       /\ IdsOfTree
       /\ \A n \in Live : /\ SonSeq(n) = SelectSeq(shape[n], LAMBDA s : Kept[s])
                           /\ Leaf(n) => node[n].n_fan = Cardinality(Group(n))

\* The leaves whose way up goes through rot.
Under == {n \in Live : Leaf(n) /\ rot \in ToSet(Up(n))}

\* The number of leaves that the words stand for.
LeavesOf(paths) ==
  LET sum[k \in 0 .. Len(paths)] == IF k = 0 THEN 0 ELSE sum[k - 1] + paths[k].fan[1]
  IN  sum[Len(paths)]

\* The pins of a subpath from the k-th one up, and those one below such a way.
Way(s, k) == SubSeq(s.pin, k, Len(s.pin))
PinsBelow(way) ==
  {s.pin[Len(s.pin) - Len(way)] :
     s \in {x \in ToSet(subpaths) : Len(x.pin) > Len(way) /\ Way(x, Len(x.pin) - Len(way) + 1) = way}}

\* The same paths, symbol by symbol, the most frequent symbol first.
NamesGrouped(sorted) ==
  /\ Len(sorted) = Len(subpaths) /\ ToSet(sorted) = ToSet(subpaths)
  /\ \A i, j \in DOMAIN sorted : i < j =>
       SameNameCount(sorted[i], subpaths) >= SameNameCount(sorted[j], subpaths)
  /\ \A i, j \in DOMAIN sorted : i < j /\ sorted[i].symbol_id = sorted[j].symbol_id =>
       \A k \in i .. j : sorted[k].symbol_id = sorted[i].symbol_id

\* Branch words are generated for every leaf below the root of the search, or
\* the error is reported; they fit their arrays, none is the same as another,
\* the sort brings those of a symbol together, which the scoring relies on, and
\* they tell the tree: below each of its nodes there are as many different pins
\* as its fan says.
SubpathsOfLeaves ==
  /\ pc # "fatal"
  /\ Over("subpaths") =>
       /\ err <=> \E l \in Under : \/ node[l].node_id > MAX_BRW_PIN_SZ \/ node[l].n_fan > MAX_BRW_PIN_SZ
                                   \/ Len(Up(l)) >= MAX_TEX_TR_DEPTH
       /\ ~err => /\ subpaths # <<>> /\ Len(subpaths) = Cardinality(Under)
                  /\ \A i \in DOMAIN subpaths : Len(subpaths[i].pin) < MAX_TEX_TR_DEPTH
                  /\ \A i, j \in DOMAIN subpaths : subpaths[i].pin[1] = subpaths[j].pin[1] => i = j
                  /\ NamesGrouped(NameSorted(subpaths))
                  /\ rot = root => LeavesOf(subpaths) = tot_brw
       /\ ~err /\ node[rot].node_id <= MAX_BRW_PIN_SZ =>
            \A s \in ToSet(subpaths) : \A k \in 2 .. Len(s.pin) :
              s.fan[k] = Cardinality(PinsBelow(Way(s, k)))

\* "limit already checked" (tex-tr.c:391): the pins of a subpath are the ids of
\* its nodes, which are not zero.
PinsAreIds == \A i \in DOMAIN subpaths : \A k \in DOMAIN subpaths[i].pin : subpaths[i].pin[k] # 0

\* A formula is parsed, indexed and released: no traversal goes round for ever,
\* although detaching the last son of a list leads it back to the first.
TraversalsEnd == <>(pc = "done")

=============================================================================
