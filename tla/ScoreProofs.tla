----------------------------- MODULE ScoreProofs -----------------------------
(***************************************************************************)
(* Theorems about Score, for every query, document, depth and length of a  *)
(* document: its types, that marks and champions agree while score_calc()  *)
(* runs, that nothing is left of a document when the next one comes, that  *)
(* a branch word matched in a stage is not matched in a later one, and     *)
(* that the score of a document is that of a matching of branch words to   *)
(* query paths.                                                            *)
(***************************************************************************)
EXTENDS Score, SequenceTheorems, FiniteSetTheorems, WellFoundedInduction, TLAPS

---------------------------------------------------------------------------
(* Least and greatest numbers *)

\* Every set of natural numbers but the empty one has a least one.
LEMMA LeastOfNat ==
  ASSUME NEW S \in SUBSET Nat, S # {}
  PROVE  \E m \in S : \A n \in S : m <= n
<1> DEFINE R == {x \in Nat \X Nat : x[1] < x[2]}
<1>1. IsWellFoundedOn(OpToRel(<, Nat), Nat)
  BY NatLessThanWellFounded
<1>2. OpToRel(<, Nat) = R
  BY DEF OpToRel
<1>3. IsWellFoundedOn(R, Nat)
  BY <1>1, <1>2
<1>4. \A n, m \in Nat : n < m => <<n, m>> \in R
  OBVIOUS
<1> HIDE DEF R
<1>5. PICK m \in S : \A n \in S : <<n, m>> \notin R
  BY <1>3, WFMin
<1>6. ASSUME NEW n \in S PROVE m <= n
  <2>1. <<n, m>> \notin R /\ n \in Nat /\ m \in Nat
    BY <1>5
  <2> QED BY <1>4, <2>1
<1> QED BY <1>6

\* A bounded set of natural numbers has its maximum.
LEMMA MaxOfBounded ==
  ASSUME NEW S \in SUBSET Nat, S # {}, NEW b \in Nat, \A n \in S : n <= b
  PROVE  Max(S) \in S /\ \A n \in S : n <= Max(S)
<1> DEFINE B == {m \in Nat : \A n \in S : n <= m}
<1>1. PICK m \in B : \A k \in B : m <= k
  <2>1. b \in B /\ B \in SUBSET Nat
    OBVIOUS
  <2> QED BY <2>1, LeastOfNat
<1>2. m \in Nat /\ \A n \in S : n <= m
  BY <1>1
<1>3. m \in S
  <2> SUFFICES ASSUME m \notin S PROVE FALSE
    OBVIOUS
  <2>1. \A n \in S : n <= m - 1
    BY <1>2
  <2>2. m - 1 \in Nat
    <3>1. PICK n \in S : TRUE
      OBVIOUS
    <3>2. n \in Nat /\ n <= m - 1
      BY <2>1, <3>1
    <3> QED BY <1>2, <3>2
  <2>3. m - 1 \in B
    BY <2>1, <2>2
  <2> QED BY <1>1, <1>2, <2>3
<1>4. \E x \in S : \A y \in S : x >= y
  BY <1>2, <1>3
<1>5. Max(S) \in S /\ \A y \in S : Max(S) >= y
  BY <1>4 DEF Max
<1>6. \A y \in S : y <= Max(S)
  BY <1>5
<1> QED BY <1>5, <1>6

\* The first values of a function of natural numbers are bounded.
LEMMA ValuesBounded ==
  ASSUME NEW n \in Nat, NEW f, \A i \in 1 .. n : f[i] \in Nat
  PROVE  \E b \in Nat : \A i \in 1 .. n : f[i] <= b
<1> DEFINE Bad == {k \in Nat : k <= n /\ ~\E b \in Nat : \A i \in 1 .. k : f[i] <= b}
<1>1. ASSUME Bad # {} PROVE FALSE
  <2>1. PICK m \in Bad : \A k \in Bad : m <= k
    <3>1. Bad \in SUBSET Nat
      OBVIOUS
    <3> QED BY <1>1, <3>1, LeastOfNat
  <2>2. m # 0
    <3>1. 0 \in Nat /\ \A i \in 1 .. 0 : f[i] <= 0
      OBVIOUS
    <3> QED BY <2>1, <3>1
  <2>3. m - 1 \in Nat /\ m - 1 \notin Bad /\ m - 1 <= n /\ m \in 1 .. n
    <3>1. m \in Nat /\ m <= n
      BY <2>1
    <3>2. m - 1 \in Nat /\ ~(m <= m - 1) /\ m - 1 <= n /\ m \in 1 .. n
      BY <2>2, <3>1
    <3>3. m - 1 \notin Bad
      <4> HIDE DEF Bad
      <4> QED BY <2>1, <3>2
    <3> QED BY <3>2, <3>3
  <2>4. PICK b \in Nat : \A i \in 1 .. (m - 1) : f[i] <= b
    BY <2>3
  <2>5. f[m] \in Nat
    BY <2>3
  <2> DEFINE c == IF f[m] <= b THEN b ELSE f[m]
  <2>6. c \in Nat /\ \A i \in 1 .. m : f[i] <= c
    <3>1. c \in Nat /\ f[m] <= c /\ b <= c
      BY <2>4, <2>5
    <3>2. \A i \in 1 .. m : i \in 1 .. (m - 1) \/ i = m
      BY <2>3
    <3>3. \A i \in 1 .. (m - 1) : f[i] \in Nat
      BY <2>3
    <3> HIDE DEF c
    <3>4. ASSUME NEW i \in 1 .. (m - 1) PROVE f[i] <= c
      <4>1. f[i] \in Nat /\ f[i] <= b
        BY <2>4, <3>3
      <4> QED BY <2>4, <3>1, <4>1
    <3> QED BY <3>1, <3>2, <3>4
  <2> QED BY <2>1, <2>6
<1>2. n \notin Bad
  BY <1>1
<1>3. n <= n
  OBVIOUS
<1> QED BY <1>2, <1>3

\* The maximum of finitely many numbers that are numbered.
LEMMA MaxOfValues ==
  ASSUME NEW n \in Nat \ {0}, NEW f, \A i \in 1 .. n : f[i] \in Nat
  PROVE  LET S == {f[i] : i \in 1 .. n}
         IN  Max(S) \in S /\ Max(S) \in Nat /\ \A x \in S : x <= Max(S)
<1> DEFINE S == {f[i] : i \in 1 .. n}
<1>1. PICK b \in Nat : \A i \in 1 .. n : f[i] <= b
  BY ValuesBounded
<1>2. S \in SUBSET Nat /\ S # {} /\ \A x \in S : x <= b
  <2>1. f[1] \in S
    OBVIOUS
  <2> QED BY <1>1, <2>1
<1> HIDE DEF S
<1>3. Max(S) \in S /\ \A x \in S : x <= Max(S)
  BY <1>2, MaxOfBounded
<1> QED BY <1>2, <1>3 DEF S

---------------------------------------------------------------------------
(* Query paths and their directories *)

\* A query path in memory.
QueryPaths == [symbol_id : Symbols, dir : 1 .. MaxPaths, fan : Seq(Nat)]

PathsAre(p) ==
  /\ p \in Seq(QueryPaths) /\ Len(p) \in 1 .. MaxPaths
  /\ \A i \in 1 .. Len(p) : p[i].fan # <<>> /\ p[i].dir \in 1 .. Len(p)
  /\ NameSorted(p)

PathsOK == PathsAre(qpaths)

\* No query has more paths than MaxPaths.
LEMMA MaxPathsIs ==
  /\ MaxPaths \in Nat \ {0}
  /\ \A q \in Queries : Len(q) \in 1 .. MaxPaths
<1>1. \A q \in Queries : Len(q) \in Nat \ {0}
  <2> SUFFICES ASSUME NEW q \in Queries PROVE Len(q) \in Nat \ {0}
    OBVIOUS
  <2>1. q # <<>> /\ q \in Seq(Subpaths(Len(q)))
    BY ScoreAssumption
  <2> QED BY <2>1, EmptySeq
<1> DEFINE S == {Len(q) : q \in Queries}
           n == Cardinality(Queries)
<1>2. n \in Nat /\ ExistsBijection(1 .. n, Queries)
  BY ScoreAssumption, FS_CardinalityType
<1>3. PICK g : g \in Bijection(1 .. n, Queries)
  BY <1>2 DEF ExistsBijection
<1>4. g \in [1 .. n -> Queries] /\ \A q \in Queries : \E i \in 1 .. n : g[i] = q
  BY <1>3 DEF Bijection, Injection, Surjection
<1>5. n # 0
  BY <1>4, ScoreAssumption
<1> HIDE DEF n
<1> DEFINE f == [i \in 1 .. n |-> Len(g[i])]
<1>6. \A i \in 1 .. n : f[i] \in Nat
  BY <1>1, <1>4
<1>7. {f[i] : i \in 1 .. n} = S
  BY <1>4
<1> HIDE DEF f, S
<1>8. Max(S) \in S /\ Max(S) \in Nat /\ \A x \in S : x <= Max(S)
  BY <1>2, <1>5, <1>6, <1>7, MaxOfValues
<1>9. MaxPaths \in Nat /\ \A q \in Queries : Len(q) <= MaxPaths
  BY <1>8 DEF MaxPaths, S
<1> QED BY <1>1, <1>9, ScoreAssumption

\* The query paths that a searcher is given are those of a query.
LEMMA ConstructedPaths ==
  ASSUME NEW q \in Queries, NEW p \in Constructed(q)
  PROVE  PathsAre(p)
<1>1. q # <<>> /\ q \in Seq(Subpaths(Len(q))) /\ NameSorted(q)
  BY ScoreAssumption
<1>2. Len(q) \in 1 .. MaxPaths /\ MaxPaths \in Nat /\ DOMAIN q = 1 .. Len(q)
  BY <1>1, MaxPathsIs
<1> DEFINE n == Len(q)
<1>3. DOMAIN p = 1 .. n /\ \A i \in 1 .. n : p[i] \in Copies(q[i])
  BY <1>2 DEF Constructed
<1>4. ASSUME NEW i \in 1 .. n
      PROVE  /\ p[i] \in QueryPaths /\ p[i].fan # <<>>
             /\ p[i].dir = q[i].dir /\ q[i].dir \in 1 .. n
             /\ p[i].symbol_id = q[i].symbol_id
  <2>1. PICK g \in Garbage : p[i] = [q[i] EXCEPT !.fan = @ \o <<g>>]
    BY <1>3 DEF Copies
  <2>2. q[i] \in Subpaths(n)
    BY <1>1, <1>2
  <2>3. q[i].symbol_id \in Symbols /\ q[i].dir \in 1 .. n /\ q[i].fan \in Seq(Nat)
    BY <2>2 DEF Subpaths
  <2>4. q[i] = [symbol_id |-> q[i].symbol_id, dir |-> q[i].dir, fan |-> q[i].fan]
    BY <2>2 DEF Subpaths
  <2>5. p[i] = [symbol_id |-> q[i].symbol_id, dir |-> q[i].dir, fan |-> q[i].fan \o <<g>>]
    BY <2>1, <2>4
  <2>6. q[i].fan \o <<g>> \in Seq(Nat) /\ q[i].fan \o <<g>> # <<>>
    BY <2>3, ScoreAssumption
  <2>7. q[i].dir \in 1 .. MaxPaths
    BY <1>2, <2>3
  <2> QED BY <2>3, <2>5, <2>6, <2>7 DEF QueryPaths
<1>5. p \in Seq(QueryPaths) /\ Len(p) = n
  <2>1. n \in Nat
    BY <1>2
  <2>2. p = [i \in 1 .. n |-> p[i]]
    BY <1>2 DEF Constructed
  <2>3. \A i \in 1 .. n : p[i] \in QueryPaths
    BY <1>4
  <2>4. p \in [1 .. n -> QueryPaths]
    BY <2>2, <2>3
  <2>5. p \in Seq(QueryPaths)
    BY <2>1, <2>4
  <2>6. 1 .. Len(p) = 1 .. n /\ Len(p) \in Nat
    BY <1>3, <2>5
  <2> QED BY <2>1, <2>5, <2>6
<1>6. NameSorted(p)
  BY <1>1, <1>2, <1>3, <1>4 DEF NameSorted
<1> QED BY <1>2, <1>4, <1>5, <1>6 DEF PathsAre

\* The directories of a query are those of its paths, the last one is one of them.
LEMMA DirsOfPaths ==
  ASSUME NEW p, PathsAre(p)
  PROVE  /\ NDirs(p) \in 1 .. Len(p)
         /\ \A i \in 1 .. Len(p) : p[i].dir <= NDirs(p)
<1> DEFINE f == [i \in 1 .. Len(p) |-> p[i].dir]
<1>1. Len(p) \in Nat \ {0} /\ DOMAIN p = 1 .. Len(p)
  BY MaxPathsIs DEF PathsAre
<1>2. \A i \in 1 .. Len(p) : f[i] \in 1 .. Len(p) /\ f[i] \in Nat
  BY <1>1 DEF PathsAre
<1>3. NDirs(p) = Max({f[i] : i \in 1 .. Len(p)})
  <2>1. {p[i].dir : i \in DOMAIN p} = {f[i] : i \in 1 .. Len(p)}
    BY <1>1
  <2> QED BY <2>1 DEF NDirs
<1>4. \A i \in 1 .. Len(p) : f[i] = p[i].dir
  OBVIOUS
<1> HIDE DEF f
<1>5. /\ Max({f[i] : i \in 1 .. Len(p)}) \in {f[i] : i \in 1 .. Len(p)}
      /\ \A i \in 1 .. Len(p) : f[i] <= Max({f[i2] : i2 \in 1 .. Len(p)})
  BY <1>1, <1>2, MaxOfValues
<1> QED BY <1>2, <1>3, <1>4, <1>5

---------------------------------------------------------------------------
(* The invariant *)

\* The branch words, variables and posting lists of the document so far; a
\* check unit of a variable names a branch word of it.
BranchWords == [dir : 1 .. MaxPaths, symbol_id : Symbols, fan : Seq(Nat) \ {<<>>}]
LiveUnit(u) == u \in Units /\ u[2] \in 1 .. Len(var) /\ u[1] \in 1 .. var[u[2]].n_ck_unit

DocOK ==
  /\ doc \in Seq(BranchWords) /\ Len(doc) <= MaxPush
  /\ var \in Seq([symbol_id : Symbols, n_ck_unit : Cols]) /\ Len(var) <= Len(doc)
  /\ \A i \in 1 .. Len(var) : var[i].n_ck_unit <= Len(doc)
  /\ pipe <= NDirs(qpaths) /\ (doc = <<>> => pipe = 1)
  /\ \A u \in Units : LiveUnit(u) => check_board[u].id \in 1 .. Len(doc)

\* The stacks hold check units of the document only.
StackOK ==
  \A d \in 1 .. MaxPaths :
    /\ Len(stack[d]) <= Len(doc)
    /\ \A k \in 1 .. Len(stack[d]) :
         LiveUnit(stack[d][k].ck) /\ stack[d][k].ck[2] = stack[d][k].var_idx

\* A champion is of this stage and of its column's variable, and it is marked.
Champions ==
  \A c \in Cells : champ_board[c] # NoChamp =>
    /\ now \in 1 .. NPaths /\ c[1] \in stage_idx .. now
    /\ LiveUnit(champ_board[c].who) /\ champ_board[c].who[2] = c[2]
    /\ check_board[champ_board[c].who].ck_mark = "MARKED"

Distinct ==
  \A c, e \in Cells : champ_board[c].who = champ_board[e].who /\ c # e
                      => champ_board[c].who = NULL

\* Until a query path is left without a match, a marked unit is a champion.
Owned ==
  now # NPaths + 1 =>
    \A u \in Units : LiveUnit(u) /\ check_board[u].ck_mark = "MARKED"
                     => \E c \in Cells : champ_board[c].who = u

\* What is over when score_calc() is not running, or has come to its end.
Between ==
  /\ now \in 1 .. NPaths => stage_idx <= now
  /\ now \in {0, NPaths + 1} => max = 0 /\ who = NULL
  /\ now = 0 => score = 0

BoardInv == Champions /\ Distinct /\ Owned /\ Between
ScoreInv == ScoreTypeOK /\ PathsOK /\ DocOK /\ StackOK /\ BoardInv

\* A check unit's branch word is its own and of its variable, a stack holds the
\* branch words of its directory, and the cache their scores with the directory's
\* query paths.
WordOf(u) == check_board[u].id

WordsOK ==
  /\ \A u, v \in Units : LiveUnit(u) /\ LiveUnit(v) /\ WordOf(u) = WordOf(v) => u = v
  /\ \A u \in Units : LiveUnit(u) => doc[WordOf(u)].symbol_id = var[u[2]].symbol_id
  /\ \A d \in 1 .. MaxPaths : \A k \in 1 .. Len(stack[d]) :
       doc[WordOf(stack[d][k].ck)].dir = d
  /\ \A p \in 1 .. NPaths, id \in 1 .. Len(doc) :
       qpaths[p].dir = doc[id].dir => cache[<<p, id>>] = ScoreOf(qpaths[p], doc[id], depth)

\* A champion's branch word is of its query path's directory and has the
\* champion's score; the winner so far is a variable with the greatest sum.
ChampsOK ==
  /\ \A c \in Cells : champ_board[c].who # NULL =>
       /\ doc[WordOf(champ_board[c].who)].dir = qpaths[c[1]].dir
       /\ champ_board[c].max = ScoreOf(qpaths[c[1]], doc[WordOf(champ_board[c].who)], depth)
  /\ now = 0 => \A i \in DOMAIN var : var_score[i] = 0
  /\ now \in 1 .. NPaths => IF who = NULL THEN max = 0
                            ELSE who \in DOMAIN var /\ var_score[who] = max

\* The numbers of the query and of the document.
LEMMA Numbers ==
  ASSUME ScoreInv
  PROVE  /\ MaxPaths \in Nat \ {0} /\ MaxPush \in Nat \ {0}
         /\ NPaths \in 1 .. MaxPaths /\ DOMAIN qpaths = 1 .. NPaths
         /\ NDirs(qpaths) \in 1 .. NPaths
         /\ now \in 0 .. NPaths + 1 /\ pipe \in 1 .. NDirs(qpaths)
         /\ Len(doc) \in 0 .. MaxPush /\ Len(var) \in 0 .. Len(doc)
         /\ DOMAIN var = 1 .. Len(var) /\ DOMAIN doc = 1 .. Len(doc)
<1>1. ScoreTypeOK /\ PathsOK /\ DocOK
  BY DEF ScoreInv
<1>2. MaxPaths \in Nat \ {0} /\ MaxPush \in Nat \ {0}
  BY MaxPathsIs, ScoreAssumption
<1>3. NPaths \in 1 .. MaxPaths /\ DOMAIN qpaths = 1 .. NPaths
  BY <1>1 DEF PathsOK, PathsAre, NPaths
<1>4. NDirs(qpaths) \in 1 .. NPaths
  BY <1>1, DirsOfPaths DEF PathsOK, NPaths
<1>5. now \in 0 .. NPaths + 1 /\ pipe \in 1 .. NDirs(qpaths)
  BY <1>1, <1>2, <1>3, <1>4 DEF ScoreTypeOK, DocOK
<1>6. /\ Len(doc) \in 0 .. MaxPush /\ Len(var) \in 0 .. Len(doc)
      /\ DOMAIN var = 1 .. Len(var) /\ DOMAIN doc = 1 .. Len(doc)
  BY <1>1, <1>2 DEF DocOK
<1> QED BY <1>2, <1>3, <1>4, <1>5, <1>6

\* The sequences that a stack is, one by one.
LEMMA StackOf ==
  ASSUME ScoreInv, NEW d \in 1 .. MaxPaths
  PROVE  /\ stack[d] \in Seq([ck : Units, var_idx : Cols])
         /\ Len(stack[d]) \in 0 .. Len(doc) /\ DOMAIN stack[d] = 1 .. Len(stack[d])
         /\ \A k \in 1 .. Len(stack[d]) :
              /\ stack[d][k] \in [ck : Units, var_idx : Cols]
              /\ LiveUnit(stack[d][k].ck) /\ stack[d][k].ck[2] = stack[d][k].var_idx
<1>1. stack[d] \in Seq([ck : Units, var_idx : Cols])
  BY DEF ScoreInv, ScoreTypeOK
<1>2. Len(doc) \in Nat
  BY Numbers
<1>3. Len(stack[d]) <= Len(doc)
  BY DEF ScoreInv, StackOK
<1>4. Len(stack[d]) \in 0 .. Len(doc) /\ DOMAIN stack[d] = 1 .. Len(stack[d])
  <2>1. Len(stack[d]) \in Nat /\ DOMAIN stack[d] = 1 .. Len(stack[d])
    BY <1>1, LenProperties
  <2> QED BY <1>2, <1>3, <2>1
<1>5. \A k \in 1 .. Len(stack[d]) : stack[d][k] \in [ck : Units, var_idx : Cols]
  BY <1>1, ElementOfSeq
<1> QED BY <1>1, <1>4, <1>5 DEF ScoreInv, StackOK

---------------------------------------------------------------------------
(* The score of two branch words *)

LEMMA QuotientNat ==
  ASSUME NEW n \in Nat, NEW e \in Nat, e > 0
  PROVE  n \div e \in Nat
OBVIOUS

LEMMA ScoreOfNat ==
  ASSUME NEW a, a.fan \in Seq(Nat), a.fan # <<>>,
         NEW b, b.fan \in Seq(Nat), b.fan # <<>>, NEW d \in Nat
  PROVE  ScoreOf(a, b, d) \in Nat
<1> DEFINE x == a.fan[1]
           y == b.fan[1]
           n == IF a.symbol_id = b.symbol_id THEN 10 ELSE 9
           e == 1 + d
           m == Min({x, y})
<1>1. x \in Nat /\ y \in Nat
  <2>1. Len(a.fan) \in Nat \ {0} /\ Len(b.fan) \in Nat \ {0}
    BY EmptySeq
  <2> QED BY <2>1, ElementOfSeq
<1>2. n \in Nat /\ e \in Nat /\ e > 0
  OBVIOUS
<1>3. m \in Nat
  <2>1. \E z \in {x, y} : \A w \in {x, y} : z <= w
    BY <1>1
  <2>2. m \in {x, y}
    BY <2>1 DEF Min
  <2> QED BY <1>1, <2>2
<1>4. ScoreOf(a, b, d) = IF FanConstrain(a.fan, b.fan) THEN 0 ELSE (n \div e) * m
  BY DEF ScoreOf
<1> HIDE DEF n, e, m
<1>5. n \div e \in Nat
  BY <1>2, QuotientNat
<1>6. \A i, j \in Nat : i * j \in Nat
  OBVIOUS
<1>7. (n \div e) * m \in Nat
  BY <1>3, <1>5, <1>6
<1> QED BY <1>4, <1>7

---------------------------------------------------------------------------
(* The invariant holds at first *)

LEMMA InitInv == Init => ScoreInv
<1> SUFFICES ASSUME Init PROVE ScoreInv
  OBVIOUS
<1>1. PathsOK
  BY ConstructedPaths DEF Init, PathsOK
<1>2. MaxPaths \in Nat \ {0} /\ MaxPush \in Nat \ {0} /\ NPaths \in 1 .. MaxPaths
  BY <1>1, MaxPathsIs, ScoreAssumption DEF PathsOK, PathsAre, NPaths
<1>3. ScoreTypeOK
  <2>1. 0 \in 0 .. Len(Above) - 1
    <3>1. Len(Above) \in Nat \ {0}
      BY ScoreAssumption, EmptySeq
    <3> QED BY <3>1
  <2>2. NoUnit \in [ck_mark : Marks, id : 0 .. MaxPush]
    BY <1>2 DEF NoUnit, Marks
  <2>3. NoChamp \in [max : Nat, who : Units \cup {NULL}]
    BY DEF NoChamp
  <2>4. <<>> \in Seq([ck : Units, var_idx : Cols]) /\ Len(<<>>) = 0
    BY EmptySeq
  <2>5. /\ check_board \in [Units -> [ck_mark : Marks, id : 0 .. MaxPush]]
        /\ champ_board \in [Cells -> [max : Nat, who : Units \cup {NULL}]]
        /\ stack \in [1 .. MaxPaths -> Seq([ck : Units, var_idx : Cols])]
        /\ cache \in [(1 .. MaxPaths) \X Cols -> Nat] /\ var_score \in [Cols -> Nat]
    BY <2>2, <2>3, <2>4 DEF Init
  <2>6. /\ now \in 0 .. NPaths + 1 /\ stage_idx \in 1 .. MaxPaths
        /\ item \in 1 .. MaxPush + 1 /\ match \in BOOLEAN
        /\ depth \in 0 .. Len(Above) - 1 /\ pipe \in 1 .. MaxPaths
        /\ score \in Nat /\ max \in Nat /\ who \in Cols \cup {NULL}
    <3>1. /\ depth = 0 /\ pipe = 1 /\ score = 0 /\ max = 0 /\ who = NULL
          /\ stage_idx = 1 /\ now = 0 /\ item = 1
      BY DEF Init
    <3>2. match \in BOOLEAN
      BY DEF Init
    <3>3. /\ now \in 0 .. NPaths + 1 /\ stage_idx \in 1 .. MaxPaths
          /\ item \in 1 .. MaxPush + 1 /\ depth \in 0 .. Len(Above) - 1
          /\ pipe \in 1 .. MaxPaths /\ score \in Nat /\ max \in Nat
      BY <1>2, <2>1, <3>1
    <3> QED BY <3>1, <3>2, <3>3
  <2>7. Len(doc) <= MaxPush /\ DOMAIN var = {}
    <3>1. doc = <<>> /\ var = <<>>
      BY DEF Init
    <3> QED BY <1>2, <2>4, <3>1
  <2> QED BY <2>5, <2>6, <2>7 DEF ScoreTypeOK
<1>4. DocOK
  <2>1. NDirs(qpaths) \in 1 .. NPaths
    BY <1>1, DirsOfPaths DEF PathsOK, NPaths
  <2> QED BY <1>2, <2>1 DEF Init, DocOK, LiveUnit
<1>5. StackOK
  BY <1>2 DEF Init, StackOK
<1>6. BoardInv
  BY <1>2 DEF Init, BoardInv, Champions, Distinct, Owned, Between, NoUnit, NoChamp
<1> QED BY <1>1, <1>3, <1>4, <1>5, <1>6 DEF ScoreInv

---------------------------------------------------------------------------
(* Between documents and posting lists *)

\* What follows when the query paths, or the variables, stay.
LEMMA SamePaths ==
  ASSUME PathsOK, UNCHANGED qpaths
  PROVE  PathsOK' /\ NPaths' = NPaths /\ NDirs(qpaths)' = NDirs(qpaths)
BY DEF PathsOK, NPaths

LEMMA SameUnits ==
  ASSUME UNCHANGED var
  PROVE  \A u : LiveUnit(u)' <=> LiveUnit(u)
BY DEF LiveUnit

\* While score_calc() does not run there is no champion, and nothing is marked.
LEMMA NoneBetween ==
  ASSUME ScoreInv, now \notin 1 .. NPaths
  PROVE  /\ \A c \in Cells : champ_board[c] = NoChamp
         /\ now = 0 => \A u \in Units : LiveUnit(u) => check_board[u].ck_mark # "MARKED"
<1>1. \A c \in Cells : champ_board[c] = NoChamp
  BY DEF ScoreInv, BoardInv, Champions
<1>2. ASSUME now = 0, NEW u \in Units, LiveUnit(u), check_board[u].ck_mark = "MARKED"
      PROVE  FALSE
  <2>1. now # NPaths + 1
    BY <1>2, Numbers
  <2>2. PICK c \in Cells : champ_board[c].who = u
    BY <1>2, <2>1 DEF ScoreInv, BoardInv, Owned
  <2>3. u = NULL
    BY <1>1, <2>2 DEF NoChamp
  <2> QED BY <2>3, ScoreAssumption
<1> QED BY <1>1, <1>2

\* No document, no variable and no branch word in a stack.
LEMMA NothingYet ==
  ASSUME ScoreInv, doc = <<>>
  PROVE  /\ pipe = 1 /\ Len(doc) = 0 /\ Len(var) = 0 /\ \A u : ~LiveUnit(u)
         /\ \A d \in 1 .. MaxPaths : stack[d] = <<>>
<1>1. pipe = 1 /\ Len(doc) = 0
  BY EmptySeq DEF ScoreInv, DocOK
<1>2. Len(var) = 0
  BY <1>1, Numbers
<1>3. \A u : ~LiveUnit(u)
  BY <1>2 DEF LiveUnit
<1>4. ASSUME NEW d \in 1 .. MaxPaths PROVE stack[d] = <<>>
  BY <1>1, StackOf, EmptySeq
<1> QED BY <1>1, <1>2, <1>3, <1>4

\* The board is as it was and nobody is at the query paths.
LEMMA IdleBoard ==
  ASSUME ScoreInv, now = 0, NPaths' \in Nat,
         UNCHANGED <<var, check_board, champ_board, score, max, who, calcVars>>
  PROVE  BoardInv'
<1>1. /\ now' = 0 /\ champ_board' = champ_board /\ check_board' = check_board
      /\ max' = max /\ who' = who /\ score' = score
  BY DEF calcVars
<1>2. now \notin 1 .. NPaths /\ now' # NPaths' + 1 /\ now' \notin 1 .. NPaths'
  <2>1. \A n \in Nat : 0 # n + 1 /\ 0 \notin 1 .. n
    OBVIOUS
  <2>2. NPaths \in Nat
    BY Numbers
  <2> QED BY <1>1, <2>1, <2>2
<1>3. /\ \A c \in Cells : champ_board[c] = NoChamp
      /\ \A u \in Units : LiveUnit(u) => check_board[u].ck_mark # "MARKED"
  BY <1>2, NoneBetween
<1>4. Champions' /\ Distinct'
  BY <1>1, <1>3 DEF Champions, Distinct, NoChamp
<1>5. Owned'
  <2>1. \A u : LiveUnit(u)' <=> LiveUnit(u)
    BY SameUnits
  <2> QED BY <1>1, <1>3, <2>1 DEF Owned
<1>6. Between'
  BY <1>1, <1>2 DEF Between, ScoreInv, BoardInv
<1> QED BY <1>4, <1>5, <1>6 DEF BoardInv

LEMMA NextNodeInv ==
  ASSUME ScoreInv, NextNode
  PROVE  ScoreInv'
<1>1. /\ now = 0 /\ doc = <<>> /\ depth' = 0 /\ pipe' = pipe /\ doc' = doc
      /\ stack' = [d \in 1 .. MaxPaths |-> <<>>] /\ cache' = cache
      /\ UNCHANGED treeVars /\ UNCHANGED calcVars
  BY DEF NextNode
<1>2. PathsOK'
  BY ConstructedPaths DEF NextNode, PathsOK
<1>3. NPaths' \in 1 .. MaxPaths /\ NDirs(qpaths)' \in 1 .. NPaths'
  BY <1>2, DirsOfPaths DEF PathsOK, PathsAre, NPaths
<1>4. /\ pipe = 1 /\ Len(doc) = 0 /\ Len(var) = 0 /\ \A u : ~LiveUnit(u)
      /\ MaxPaths \in Nat \ {0} /\ MaxPush \in Nat \ {0}
  BY <1>1, NothingYet, Numbers
<1>5. /\ var' = var /\ check_board' = check_board /\ champ_board' = champ_board
      /\ var_score' = var_score /\ now' = now
      /\ score' = score /\ max' = max /\ who' = who
      /\ stage_idx' = stage_idx /\ item' = item /\ match' = match
  BY <1>1 DEF treeVars, calcVars
<1>6. ScoreTypeOK'
  <2>1. <<>> \in Seq([ck : Units, var_idx : Cols])
    BY EmptySeq
  <2>2. stack' \in [1 .. MaxPaths -> Seq([ck : Units, var_idx : Cols])]
    BY <1>1, <2>1
  <2>3. now' \in 0 .. NPaths' + 1
    <3>1. \A n \in 1 .. MaxPaths : 0 \in 0 .. n + 1
      BY <1>4
    <3> QED BY <1>1, <1>3, <1>5, <3>1
  <2>4. depth' \in 0 .. Len(Above) - 1
    <3>1. Len(Above) \in Nat \ {0}
      BY ScoreAssumption, EmptySeq
    <3> QED BY <1>1, <3>1
  <2> QED BY <1>1, <1>5, <2>2, <2>3, <2>4 DEF ScoreInv, ScoreTypeOK
<1>7. DocOK'
  <2>1. \A u : ~LiveUnit(u)'
    BY <1>4, <1>5, SameUnits
  <2>2. pipe' <= NDirs(qpaths)'
    BY <1>1, <1>3, <1>4
  <2> QED BY <1>1, <1>5, <2>1, <2>2 DEF ScoreInv, DocOK
<1>8. StackOK'
  <2>1. \A d \in 1 .. MaxPaths : stack'[d] = <<>>
    BY <1>1
  <2> QED BY <1>1, <1>4, <2>1, EmptySeq DEF StackOK
<1>9. BoardInv'
  BY <1>1, <1>3, <1>4, <1>5, IdleBoard
<1> QED BY <1>2, <1>6, <1>7, <1>8, <1>9 DEF ScoreInv

LEMMA NextDirsInv ==
  ASSUME ScoreInv, NextDirs
  PROVE  ScoreInv'
<1>1. /\ now = 0 /\ depth' \in 0 .. Len(Above) - 1 /\ qpaths' = qpaths
      /\ pipe' = pipe /\ doc' = doc /\ stack' = stack /\ cache' = cache
      /\ var' = var /\ check_board' = check_board /\ champ_board' = champ_board
      /\ var_score' = var_score /\ now' = now
      /\ score' = score /\ max' = max /\ who' = who
      /\ stage_idx' = stage_idx /\ item' = item /\ match' = match
  BY DEF NextDirs, treeVars, calcVars
<1>2. PathsOK' /\ NPaths' = NPaths /\ NDirs(qpaths)' = NDirs(qpaths)
  BY <1>1, SamePaths DEF ScoreInv
<1>3. \A u : LiveUnit(u)' <=> LiveUnit(u)
  BY <1>1, SameUnits
<1>4. ScoreTypeOK'
  BY <1>1, <1>2 DEF ScoreInv, ScoreTypeOK
<1>5. DocOK' /\ StackOK'
  BY <1>1, <1>2, <1>3 DEF ScoreInv, DocOK, StackOK
<1>6. BoardInv'
  BY <1>1, <1>2, Numbers, IdleBoard DEF calcVars
<1> QED BY <1>2, <1>4, <1>5, <1>6 DEF ScoreInv

LEMMA NextPipeInv ==
  ASSUME ScoreInv, NextPipe
  PROVE  ScoreInv'
<1>1. /\ now = 0 /\ depth' = depth /\ qpaths' = qpaths
      /\ pipe' = pipe + 1 /\ doc' = doc /\ stack' = stack /\ cache' = cache
      /\ var' = var /\ check_board' = check_board /\ champ_board' = champ_board
      /\ var_score' = var_score /\ now' = now
      /\ score' = score /\ max' = max /\ who' = who
      /\ stage_idx' = stage_idx /\ item' = item /\ match' = match
      /\ pipe < NDirs(qpaths) /\ stack[pipe] # <<>>
  BY DEF NextPipe, treeVars, calcVars
<1>2. PathsOK' /\ NPaths' = NPaths /\ NDirs(qpaths)' = NDirs(qpaths)
  BY <1>1, SamePaths DEF ScoreInv
<1>3. \A u : LiveUnit(u)' <=> LiveUnit(u)
  BY <1>1, SameUnits
<1>4. pipe' \in 1 .. MaxPaths /\ pipe' <= NDirs(qpaths)'
  BY <1>1, <1>2, Numbers
<1>5. ScoreTypeOK'
  BY <1>1, <1>2, <1>4 DEF ScoreInv, ScoreTypeOK
<1>6. doc # <<>>
  <2>1. pipe \in 1 .. MaxPaths
    BY Numbers
  <2> QED BY <1>1, <2>1, NothingYet
<1>7. DocOK' /\ StackOK'
  BY <1>1, <1>2, <1>3, <1>4, <1>6 DEF ScoreInv, DocOK, StackOK
<1>8. BoardInv'
  BY <1>1, <1>2, Numbers, IdleBoard DEF calcVars
<1> QED BY <1>2, <1>5, <1>7, <1>8 DEF ScoreInv

LEMMA CalcInv ==
  ASSUME ScoreInv, Calc
  PROVE  ScoreInv'
<1>1. /\ now = 0 /\ depth' = depth /\ qpaths' = qpaths
      /\ pipe' = pipe /\ doc' = doc /\ stack' = stack /\ cache' = cache
      /\ var' = var /\ check_board' = check_board /\ champ_board' = champ_board
      /\ var_score' = var_score /\ now' = 1
      /\ score' = score /\ max' = max /\ who' = who
      /\ stage_idx' = 1 /\ item' = 1 /\ match' = FALSE
  BY DEF Calc, GoTo, treeVars
<1>2. PathsOK' /\ NPaths' = NPaths /\ NDirs(qpaths)' = NDirs(qpaths)
  BY <1>1, SamePaths DEF ScoreInv
<1>3. \A u : LiveUnit(u)' <=> LiveUnit(u)
  BY <1>1, SameUnits
<1>4. /\ now' \in 1 .. NPaths /\ now' \in 0 .. NPaths' + 1 /\ now' # NPaths' + 1
      /\ stage_idx' \in 1 .. MaxPaths /\ item' \in 1 .. MaxPush + 1
      /\ match' \in BOOLEAN
  <2>1. NPaths \in 1 .. MaxPaths /\ MaxPaths \in Nat \ {0} /\ MaxPush \in Nat \ {0}
    BY Numbers
  <2>2. /\ 1 \in 1 .. NPaths /\ 1 \in 0 .. NPaths + 1 /\ 1 # NPaths + 1
        /\ 1 \in 1 .. MaxPaths /\ 1 \in 1 .. MaxPush + 1
    BY <2>1
  <2>3. match' \in BOOLEAN
    BY <1>1
  <2> QED BY <1>1, <1>2, <2>2, <2>3
<1>5. ScoreTypeOK'
  BY <1>1, <1>2, <1>4 DEF ScoreInv, ScoreTypeOK
<1>6. DocOK' /\ StackOK'
  BY <1>1, <1>2, <1>3 DEF ScoreInv, DocOK, StackOK
<1>7. now \notin 1 .. NPaths
  BY <1>1, Numbers
<1>8. /\ \A c \in Cells : champ_board[c] = NoChamp
      /\ \A u \in Units : LiveUnit(u) => check_board[u].ck_mark # "MARKED"
  BY <1>1, <1>7, NoneBetween
<1>9. BoardInv'
  <2>1. Champions' /\ Distinct' /\ Owned'
    BY <1>1, <1>3, <1>8 DEF Champions, Distinct, Owned, NoChamp
  <2>2. Between'
    BY <1>1, <1>2, <1>4 DEF Between
  <2> QED BY <2>1, <2>2 DEF BoardInv
<1> QED BY <1>2, <1>5, <1>6, <1>9 DEF ScoreInv

---------------------------------------------------------------------------
(* A branch word is filed *)

\* score_tr_insert(): the variable has one check unit more, the other ones stay.
LEMMA InsertIs ==
  ASSUME ScoreInv, NEW symbol \in Symbols, NEW fan \in DocFans, Push(symbol, fan),
         Len(doc) < MaxPush
  PROVE  LET i == VarOf(symbol)
             n == IF i \in DOMAIN var THEN var[i].n_ck_unit + 1 ELSE 1
         IN  /\ i \in 1 .. Len(doc) + 1 /\ n \in 1 .. Len(doc) + 1 /\ <<n, i>> \in Units
             /\ var' \in Seq([symbol_id : Symbols, n_ck_unit : Cols])
             /\ Len(var') = IF i \in DOMAIN var THEN Len(var) ELSE Len(var) + 1
             /\ i \in 1 .. Len(var') /\ var'[i] = [symbol_id |-> symbol, n_ck_unit |-> n]
             /\ \A j \in 1 .. Len(var') : j # i => j \in 1 .. Len(var) /\ var'[j] = var[j]
             /\ var_score' \in [Cols -> Nat]
<1> DEFINE i == VarOf(symbol)
           n == IF i \in DOMAIN var THEN var[i].n_ck_unit + 1 ELSE 1
<1>0. /\ i \in DOMAIN var => var[i].symbol_id = symbol
      /\ i \notin DOMAIN var => i = Len(var) + 1
      /\ n = IF i \in DOMAIN var THEN var[i].n_ck_unit + 1 ELSE 1
      /\ var' = IF i \in DOMAIN var THEN [var EXCEPT ![i].n_ck_unit = @ + 1]
                ELSE Append(var, [symbol_id |-> symbol, n_ck_unit |-> 1])
      /\ var_score' = IF i \in DOMAIN var THEN var_score ELSE [var_score EXCEPT ![i] = 0]
  <2>1. /\ i \in DOMAIN var => var[i].symbol_id = symbol
        /\ i \notin DOMAIN var => i = Len(var) + 1
    BY DEF VarOf
  <2> DEFINE brw == [dir |-> pipe, symbol_id |-> symbol,
                     fan |-> fan \o Above[depth + 1] \o <<0>>]
  <2>2. brw.symbol_id = symbol /\ VarOf(brw.symbol_id) = i
    OBVIOUS
  <2>3. Insert(brw)
    BY DEF Push
  <2> HIDE DEF brw
  <2>4. /\ var' = IF i \in DOMAIN var THEN [var EXCEPT ![i].n_ck_unit = @ + 1]
                  ELSE Append(var, [symbol_id |-> symbol, n_ck_unit |-> 1])
        /\ var_score' = IF i \in DOMAIN var THEN var_score ELSE [var_score EXCEPT ![i] = 0]
    <3> HIDE DEF i
    <3> QED BY <2>2, <2>3 DEF Insert
  <2> QED BY <2>1, <2>4
<1> HIDE DEF i, n
<1> DEFINE Result ==
      /\ i \in 1 .. Len(doc) + 1 /\ n \in 1 .. Len(doc) + 1 /\ <<n, i>> \in Units
      /\ var' \in Seq([symbol_id : Symbols, n_ck_unit : Cols])
      /\ Len(var') = IF i \in DOMAIN var THEN Len(var) ELSE Len(var) + 1
      /\ i \in 1 .. Len(var') /\ var'[i] = [symbol_id |-> symbol, n_ck_unit |-> n]
      /\ \A j \in 1 .. Len(var') : j # i => j \in 1 .. Len(var) /\ var'[j] = var[j]
      /\ var_score' \in [Cols -> Nat]
<1> DEFINE V == [symbol_id : Symbols, n_ck_unit : Cols]
<1>1. /\ Len(doc) \in Nat /\ MaxPush \in Nat /\ Len(var) \in 0 .. Len(doc)
      /\ DOMAIN var = 1 .. Len(var) /\ var \in Seq(V)
      /\ \A j \in 1 .. Len(var) : var[j] \in V /\ var[j].n_ck_unit <= Len(doc)
      /\ var_score \in [Cols -> Nat]
  <2>1. var \in Seq(V) /\ \A j \in 1 .. Len(var) : var[j].n_ck_unit <= Len(doc)
    BY DEF ScoreInv, DocOK
  <2>2. \A j \in 1 .. Len(var) : var[j] \in V
    BY <2>1, ElementOfSeq
  <2>3. var_score \in [Cols -> Nat]
    BY DEF ScoreInv, ScoreTypeOK
  <2>4. /\ Len(doc) \in Nat /\ MaxPush \in Nat /\ Len(var) \in 0 .. Len(doc)
        /\ DOMAIN var = 1 .. Len(var)
    BY Numbers
  <2> QED BY <2>1, <2>2, <2>3, <2>4
<1>2. ASSUME i \in DOMAIN var PROVE Result
  <2>1. i \in 1 .. Len(var) /\ var[i].symbol_id = symbol
    BY <1>0, <1>1, <1>2
  <2>2. i \in 1 .. Len(doc) + 1 /\ i \in Cols
    BY <1>1, <2>1 DEF Cols
  <2>3. n = var[i].n_ck_unit + 1 /\ var[i].n_ck_unit \in Cols /\ var[i] \in V
    BY <1>0, <1>1, <2>1
  <2>4. n \in 1 .. Len(doc) + 1 /\ n \in Cols
    <3>1. var[i].n_ck_unit <= Len(doc)
      BY <1>1, <2>1
    <3>2. Len(doc) \in Nat /\ MaxPush \in Nat
      BY <1>1
    <3>3. \A m \in Cols : m <= Len(doc) => m + 1 \in 1 .. Len(doc) + 1 /\ m + 1 \in Cols
      BY <3>2 DEF Cols
    <3> QED BY <2>3, <3>1, <3>3
  <2>5. var[i] = [symbol_id |-> symbol, n_ck_unit |-> var[i].n_ck_unit]
    BY <2>1, <2>3
  <2>6. var' = [var EXCEPT ![i].n_ck_unit = @ + 1] /\ var_score' = var_score
    BY <1>0, <1>1, <2>1
  <2> DEFINE e == [symbol_id |-> symbol, n_ck_unit |-> n]
  <2>7. e \in V
    BY <2>4
  <2>8. var' = [var EXCEPT ![i] = e]
    <3>1. [var[i] EXCEPT !.n_ck_unit = @ + 1] = e
      BY <2>3, <2>5
    <3> HIDE DEF e
    <3> QED BY <2>6, <3>1
  <2> HIDE DEF e
  <2>9. /\ var' \in Seq(V) /\ Len(var') = Len(var)
        /\ \A j \in 1 .. Len(var) : var'[j] = IF j = i THEN e ELSE var[j]
    BY <1>1, <2>1, <2>7, <2>8, ExceptSeq
  <2>10. <<n, i>> \in Units /\ var_score' \in [Cols -> Nat]
    BY <1>1, <2>2, <2>4, <2>6 DEF Units
  <2> QED BY <1>1, <2>1, <2>2, <2>4, <2>9, <2>10 DEF e
<1>3. ASSUME i \notin DOMAIN var PROVE Result
  <2>1. i = Len(var) + 1
    BY <1>0, <1>3
  <2>2. i \notin DOMAIN var /\ n = 1
    BY <1>0, <1>1, <2>1
  <2>3. i \in 1 .. Len(doc) + 1 /\ n \in 1 .. Len(doc) + 1 /\ i \in Cols /\ n \in Cols
    BY <1>1, <2>1, <2>2 DEF Cols
  <2> DEFINE e == [symbol_id |-> symbol, n_ck_unit |-> n]
  <2>4. e \in V
    BY <2>3
  <2>5. var' = Append(var, e) /\ var_score' = [var_score EXCEPT ![i] = 0]
    BY <1>0, <2>2
  <2> HIDE DEF e
  <2>6. /\ var' \in Seq(V) /\ Len(var') = Len(var) + 1 /\ var'[i] = e
        /\ \A j \in 1 .. Len(var) : var'[j] = var[j]
    <3>1. /\ Append(var, e) \in Seq(V) /\ Len(Append(var, e)) = Len(var) + 1
          /\ Append(var, e)[Len(var) + 1] = e
          /\ \A j \in 1 .. Len(var) : Append(var, e)[j] = var[j]
      BY <1>1, <2>4, AppendProperties
    <3> QED BY <2>1, <2>5, <3>1
  <2>7. var_score' \in [Cols -> Nat]
    <3>1. [var_score EXCEPT ![i] = 0] \in [Cols -> Nat]
      BY <1>1
    <3> QED BY <2>5, <3>1
  <2>8. i \in 1 .. Len(var') /\ \A j \in 1 .. Len(var') : j # i => j \in 1 .. Len(var)
    BY <1>1, <2>1, <2>6
  <2> QED BY <2>2, <2>3, <2>6, <2>7, <2>8 DEF e, Units
<1> QED BY <1>2, <1>3 DEF i, n

LEMMA PushInv ==
  ASSUME ScoreInv, NEW symbol \in Symbols, NEW fan \in DocFans, Push(symbol, fan)
  PROVE  ScoreInv' /\ (WordsOK => WordsOK') /\ (ChampsOK => ChampsOK')
<1> DEFINE id  == Len(doc) + 1
           brw == [dir |-> pipe, symbol_id |-> symbol, fan |-> fan \o Above[depth + 1] \o <<0>>]
           i   == VarOf(symbol)
           n   == IF i \in DOMAIN var THEN var[i].n_ck_unit + 1 ELSE 1
           ck  == <<n, i>>
<1>1. /\ now = 0 /\ Len(doc) < MaxPush - (NDirs(qpaths) - pipe)
      /\ doc' = Append(doc, brw)
      /\ var' = IF i \in DOMAIN var THEN [var EXCEPT ![i].n_ck_unit = @ + 1]
                ELSE Append(var, [symbol_id |-> symbol, n_ck_unit |-> 1])
      /\ var_score' = IF i \in DOMAIN var THEN var_score ELSE [var_score EXCEPT ![i] = 0]
      /\ check_board' = [check_board EXCEPT ![ck] = [ck_mark |-> "UNMARKED", id |-> id]]
      /\ stack' = [stack EXCEPT ![pipe] = Append(@, [ck |-> ck, var_idx |-> i])]
      /\ cache' = [c \in DOMAIN cache |->
                     IF c[1] <= NPaths /\ qpaths[c[1]].dir = pipe /\ c[2] = id
                     THEN ScoreOf(qpaths[c[1]], brw, depth) ELSE cache[c]]
      /\ qpaths' = qpaths /\ depth' = depth /\ pipe' = pipe
      /\ champ_board' = champ_board /\ now' = now
      /\ score' = score /\ max' = max /\ who' = who
      /\ stage_idx' = stage_idx /\ item' = item /\ match' = match
  BY DEF Push, Insert, calcVars
<1>2. /\ Len(doc) \in Nat /\ id \in 1 .. MaxPush /\ MaxPush \in Nat /\ pipe \in 1 .. MaxPaths
      /\ Len(doc) < MaxPush /\ MaxPaths \in Nat /\ NPaths \in 1 .. MaxPaths
      /\ DOMAIN qpaths = 1 .. NPaths
  <2>1. /\ Len(doc) \in Nat /\ MaxPush \in Nat /\ MaxPaths \in Nat
        /\ NPaths \in 1 .. MaxPaths /\ DOMAIN qpaths = 1 .. NPaths
        /\ NDirs(qpaths) \in 1 .. NPaths /\ pipe \in 1 .. NDirs(qpaths)
    BY Numbers
  <2>2. Len(doc) < MaxPush - (NDirs(qpaths) - pipe)
    BY <1>1
  <2>3. Len(doc) < MaxPush /\ pipe \in 1 .. MaxPaths
    BY <2>1, <2>2
  <2> QED BY <2>1, <2>3
<1>3. brw \in BranchWords /\ brw.symbol_id = symbol /\ brw.fan \in Seq(Nat) /\ brw.fan # <<>>
  <2>1. fan \in Seq(Nat) /\ Above[depth + 1] \in Seq(Nat)
    <3>1. depth \in 0 .. Len(Above) - 1 /\ Len(Above) \in Nat
      BY ScoreAssumption DEF ScoreInv, ScoreTypeOK
    <3>2. depth + 1 \in 1 .. Len(Above)
      BY <3>1
    <3> QED BY <3>2, ScoreAssumption, ElementOfSeq
  <2>2. fan \o Above[depth + 1] \in Seq(Nat) /\ <<0>> \in Seq(Nat) /\ <<0>> # <<>>
    BY <2>1, ConcatProperties
  <2>3. fan \o Above[depth + 1] \o <<0>> \in Seq(Nat)
    BY <2>2, ConcatProperties
  <2>4. fan \o Above[depth + 1] \o <<0>> # <<>>
    BY <2>2, ConcatEqualIffEmpty
  <2> QED BY <1>2, <2>3, <2>4 DEF BranchWords
<1>12. /\ i \in DOMAIN var => var[i].symbol_id = symbol
       /\ i \notin DOMAIN var => i = Len(var) + 1
       /\ n = IF i \in DOMAIN var THEN var[i].n_ck_unit + 1 ELSE 1
  BY DEF VarOf
<1> HIDE DEF brw, i, n
<1>4. /\ i \in 1 .. id /\ n \in 1 .. id /\ ck \in Units
      /\ var' \in Seq([symbol_id : Symbols, n_ck_unit : Cols])
      /\ Len(var') = IF i \in DOMAIN var THEN Len(var) ELSE Len(var) + 1
      /\ i \in 1 .. Len(var') /\ var'[i] = [symbol_id |-> symbol, n_ck_unit |-> n]
      /\ \A j \in 1 .. Len(var') : j # i => j \in 1 .. Len(var) /\ var'[j] = var[j]
      /\ var_score' \in [Cols -> Nat]
  <2>3. /\ i \in 1 .. Len(doc) + 1 /\ n \in 1 .. Len(doc) + 1 /\ <<n, i>> \in Units
        /\ var' \in Seq([symbol_id : Symbols, n_ck_unit : Cols])
        /\ Len(var') = IF i \in DOMAIN var THEN Len(var) ELSE Len(var) + 1
        /\ i \in 1 .. Len(var') /\ var'[i] = [symbol_id |-> symbol, n_ck_unit |-> n]
        /\ \A j \in 1 .. Len(var') : j # i => j \in 1 .. Len(var) /\ var'[j] = var[j]
        /\ var_score' \in [Cols -> Nat]
    BY <1>2, InsertIs DEF i, n
  <2> QED BY <2>3
<1>5. \A u : LiveUnit(u)' <=> LiveUnit(u) \/ u = ck
  <2> SUFFICES ASSUME NEW u PROVE LiveUnit(u)' <=> LiveUnit(u) \/ u = ck
    OBVIOUS
  <2>1. CASE u \notin Units
    BY <1>4, <2>1 DEF LiveUnit
  <2>2. CASE u \in Units /\ u[2] # i
    <3>1. u[2] \in 1 .. Len(var') <=> u[2] \in 1 .. Len(var)
      <4>1. Len(var) \in Nat /\ DOMAIN var = 1 .. Len(var)
        BY Numbers
      <4> QED BY <1>4, <1>12, <2>2, <4>1
    <3>2. u[2] \in 1 .. Len(var') => var'[u[2]] = var[u[2]]
      BY <1>4, <2>2
    <3> QED BY <2>2, <3>1, <3>2 DEF LiveUnit
  <2>3. CASE u \in Units /\ u[2] = i
    <3>1. LiveUnit(u)' <=> u[1] \in 1 .. n
      BY <1>4, <2>3 DEF LiveUnit
    <3>2. u = ck <=> u[1] = n
      BY <2>3 DEF Units
    <3>3. LiveUnit(u) <=> i \in DOMAIN var /\ u[1] \in 1 .. var[i].n_ck_unit
      BY <2>3, Numbers DEF LiveUnit
    <3>4. n \in Nat \ {0}
      BY <1>2, <1>4
    <3>5. i \in DOMAIN var => n = var[i].n_ck_unit + 1 /\ var[i].n_ck_unit \in Nat
      <4>1. \A j \in DOMAIN var : var[j].n_ck_unit \in Cols
        BY DEF ScoreInv, ScoreTypeOK
      <4> QED BY <1>2, <1>12, <4>1 DEF Cols
    <3>6. u[1] \in Nat \ {0}
      BY <1>2, <2>3 DEF Units, Cols
    <3>7. CASE i \in DOMAIN var
      <4>1. \A m \in Nat : u[1] \in 1 .. m + 1 <=> u[1] \in 1 .. m \/ u[1] = m + 1
        BY <3>6
      <4> QED BY <3>1, <3>2, <3>3, <3>5, <3>7, <4>1
    <3>8. CASE i \notin DOMAIN var
      <4>1. n = 1
        BY <1>12, <3>8
      <4> QED BY <3>1, <3>2, <3>3, <3>6, <3>8, <4>1
    <3> QED BY <3>7, <3>8
  <2> QED BY <2>1, <2>2, <2>3
<1>6. doc' \in Seq(BranchWords) /\ Len(doc') = id
  <2>1. doc \in Seq(BranchWords) /\ doc' = Append(doc, brw)
    BY <1>1 DEF ScoreInv, DocOK
  <2> QED BY <1>3, <2>1, AppendProperties
<1>7. PathsOK' /\ NPaths' = NPaths /\ NDirs(qpaths)' = NDirs(qpaths)
  BY <1>1, SamePaths DEF ScoreInv
<1>8. \A u \in Units : check_board'[u] = IF u = ck THEN [ck_mark |-> "UNMARKED", id |-> id]
                                         ELSE check_board[u]
  BY <1>1, <1>4 DEF ScoreInv, ScoreTypeOK
<1>9. ScoreTypeOK'
  <2>1. check_board' \in [Units -> [ck_mark : Marks, id : 0 .. MaxPush]]
    <3>1. [ck_mark |-> "UNMARKED", id |-> id] \in [ck_mark : Marks, id : 0 .. MaxPush]
      BY <1>2 DEF Marks
    <3> QED BY <1>1, <3>1 DEF ScoreInv, ScoreTypeOK
  <2>2. stack' \in [1 .. MaxPaths -> Seq([ck : Units, var_idx : Cols])]
    <3>1. i \in Cols
      BY <1>2, <1>4 DEF Cols
    <3>2. [ck |-> ck, var_idx |-> i] \in [ck : Units, var_idx : Cols]
      BY <1>4, <3>1
    <3>3. Append(stack[pipe], [ck |-> ck, var_idx |-> i]) \in Seq([ck : Units, var_idx : Cols])
      BY <1>2, <3>2, StackOf, AppendProperties
    <3> QED BY <1>1, <3>3 DEF ScoreInv, ScoreTypeOK
  <2>3. cache' \in [(1 .. MaxPaths) \X Cols -> Nat]
    <3>1. cache \in [(1 .. MaxPaths) \X Cols -> Nat] /\ depth \in Nat
      <4>1. depth \in 0 .. Len(Above) - 1 /\ Len(Above) \in Nat
        BY ScoreAssumption DEF ScoreInv, ScoreTypeOK
      <4> QED BY <4>1 DEF ScoreInv, ScoreTypeOK
    <3>2. ASSUME NEW m \in 1 .. NPaths PROVE ScoreOf(qpaths[m], brw, depth) \in Nat
      <4>1. qpaths[m] \in QueryPaths /\ qpaths[m].fan # <<>>
        BY DEF ScoreInv, PathsOK, PathsAre, NPaths
      <4>2. qpaths[m].fan \in Seq(Nat)
        BY <4>1 DEF QueryPaths
      <4> QED BY <1>3, <3>1, <4>1, <4>2, ScoreOfNat
    <3>3. \A c \in (1 .. MaxPaths) \X Cols : c[1] <= NPaths => c[1] \in 1 .. NPaths
      BY <1>2
    <3>4. \A c \in (1 .. MaxPaths) \X Cols :
             (IF c[1] <= NPaths /\ qpaths[c[1]].dir = pipe /\ c[2] = id
              THEN ScoreOf(qpaths[c[1]], brw, depth) ELSE cache[c]) \in Nat
      BY <3>1, <3>2, <3>3
    <3> QED BY <1>1, <3>1, <3>4
  <2>4. \A j \in DOMAIN var' : var'[j].symbol_id \in Symbols /\ var'[j].n_ck_unit \in Cols
    <3>1. DOMAIN var' = 1 .. Len(var')
      BY <1>4
    <3>2. \A j \in 1 .. Len(var') : var'[j] \in [symbol_id : Symbols, n_ck_unit : Cols]
      BY <1>4, ElementOfSeq
    <3> QED BY <3>1, <3>2
  <2>5. Len(doc') <= MaxPush
    BY <1>2, <1>6
  <2>6. /\ now' \in 0 .. NPaths' + 1 /\ stage_idx' \in 1 .. MaxPaths
        /\ item' \in 1 .. MaxPush + 1 /\ match' \in BOOLEAN
        /\ depth' \in 0 .. Len(Above) - 1 /\ pipe' \in 1 .. MaxPaths
        /\ champ_board' \in [Cells -> [max : Nat, who : Units \cup {NULL}]]
        /\ score' \in Nat /\ max' \in Nat /\ who' \in Cols \cup {NULL}
    <3>1. /\ depth' = depth /\ pipe' = pipe /\ champ_board' = champ_board /\ now' = now
          /\ score' = score /\ max' = max /\ who' = who
          /\ stage_idx' = stage_idx /\ item' = item /\ match' = match
      BY <1>1
    <3>2. /\ now \in 0 .. NPaths + 1 /\ stage_idx \in 1 .. MaxPaths
          /\ item \in 1 .. MaxPush + 1 /\ match \in BOOLEAN
          /\ depth \in 0 .. Len(Above) - 1 /\ pipe \in 1 .. MaxPaths
          /\ champ_board \in [Cells -> [max : Nat, who : Units \cup {NULL}]]
          /\ score \in Nat /\ max \in Nat /\ who \in Cols \cup {NULL}
      BY DEF ScoreInv, ScoreTypeOK
    <3> QED BY <1>7, <3>1, <3>2
  <2>7. var_score' \in [Cols -> Nat]
    BY <1>4
  <2> QED BY <2>1, <2>2, <2>3, <2>4, <2>5, <2>6, <2>7 DEF ScoreTypeOK
<1>10. DocOK'
  <2>1. Len(var') <= id
    <3>1. Len(var) \in Nat /\ Len(var) <= Len(doc)
      BY Numbers
    <3>2. Len(var') = Len(var) \/ Len(var') = Len(var) + 1
      BY <1>4
    <3>3. Len(var) <= id /\ Len(var) + 1 <= id
      BY <1>2, <3>1
    <3> QED BY <3>2, <3>3
  <2>2. \A j \in 1 .. Len(var') : var'[j].n_ck_unit <= id
    <3>1. \A j \in 1 .. Len(var) : var[j].n_ck_unit \in Nat /\ var[j].n_ck_unit <= Len(doc)
      <4>1. DOMAIN var = 1 .. Len(var)
        BY Numbers
      <4>2. \A j \in 1 .. Len(var) : var[j].n_ck_unit \in Cols
        BY <4>1 DEF ScoreInv, ScoreTypeOK
      <4>3. \A j \in 1 .. Len(var) : var[j].n_ck_unit <= Len(doc)
        BY DEF ScoreInv, DocOK
      <4>4. Cols \subseteq Nat
        BY <1>2 DEF Cols
      <4> QED BY <4>2, <4>3, <4>4
    <3>2. \A j \in 1 .. Len(var) : var[j].n_ck_unit <= id
      BY <1>2, <3>1
    <3>3. n <= id
      BY <1>2, <1>4
    <3>4. /\ var'[i].n_ck_unit = n
          /\ \A j \in 1 .. Len(var') : j # i => j \in 1 .. Len(var) /\ var'[j] = var[j]
      BY <1>4
    <3> HIDE DEF id
    <3> QED BY <3>2, <3>3, <3>4
  <2>3. ASSUME NEW u \in Units, LiveUnit(u)' PROVE check_board'[u].id \in 1 .. id
    <3>1. CASE u = ck
      BY <1>2, <1>8, <3>1
    <3>2. CASE u # ck
      <4>1. check_board[u].id \in 1 .. Len(doc)
        BY <1>5, <2>3, <3>2 DEF ScoreInv, DocOK
      <4> QED BY <1>2, <1>8, <3>2, <4>1
    <3> QED BY <3>1, <3>2
  <2>4. doc' # <<>> /\ pipe' <= NDirs(qpaths)'
    <3>1. id # 0
      BY <1>2
    <3> QED BY <1>1, <1>6, <1>7, <3>1, EmptySeq DEF ScoreInv, DocOK
  <2>5. id <= MaxPush
    BY <1>2
  <2> QED BY <1>4, <1>6, <2>1, <2>2, <2>3, <2>4, <2>5 DEF DocOK
<1>11. StackOK'
  <2> SUFFICES ASSUME NEW d \in 1 .. MaxPaths
               PROVE  /\ Len(stack'[d]) <= id
                      /\ \A k \in 1 .. Len(stack'[d]) :
                           /\ LiveUnit(stack[d][k].ck)'
                           /\ stack'[d][k].ck[2] = stack'[d][k].var_idx
    BY <1>6 DEF StackOK
  <2> DEFINE it == [ck |-> ck, var_idx |-> i]
             T  == [ck : Units, var_idx : Cols]
  <2>1. /\ stack[d] \in Seq(T) /\ Len(stack[d]) \in 0 .. Len(doc)
        /\ \A k \in 1 .. Len(stack[d]) :
             LiveUnit(stack[d][k].ck) /\ stack[d][k].ck[2] = stack[d][k].var_idx
    BY StackOf
  <2>2. CASE d # pipe
    <3>1. stack'[d] = stack[d]
      BY <1>1, <2>2 DEF ScoreInv, ScoreTypeOK
    <3>2. Len(stack'[d]) <= id
      BY <1>2, <2>1, <3>1
    <3>3. \A k \in 1 .. Len(stack'[d]) :
            LiveUnit(stack[d][k].ck) /\ stack[d][k].ck[2] = stack[d][k].var_idx
      BY <2>1, <3>1
    <3> QED BY <1>5, <3>1, <3>2, <3>3 DEF LiveUnit
  <2>3. CASE d = pipe
    <3>1. stack'[d] = Append(stack[d], it)
      BY <1>1, <2>3 DEF ScoreInv, ScoreTypeOK
    <3>2. it \in T /\ it.ck = ck /\ it.var_idx = i /\ ck[2] = i
      BY <1>2, <1>4 DEF Cols
    <3> HIDE DEF it
    <3>3. /\ Len(stack'[d]) = Len(stack[d]) + 1 /\ stack'[d][Len(stack[d]) + 1] = it
          /\ \A k \in 1 .. Len(stack[d]) : stack'[d][k] = stack[d][k]
      BY <2>1, <3>1, <3>2, AppendProperties
    <3>4. \A k \in 1 .. Len(stack'[d]) : k \in 1 .. Len(stack[d]) \/ k = Len(stack[d]) + 1
      BY <2>1, <3>3
    <3>5. Len(stack'[d]) <= id
      BY <1>2, <2>1, <3>3
    <3> QED BY <1>5, <2>1, <3>2, <3>3, <3>4, <3>5 DEF LiveUnit
  <2> QED BY <2>2, <2>3
<1>13. BoardInv'
  <2>1. now \notin 1 .. NPaths
    BY <1>1, <1>2
  <2>2. /\ \A c \in Cells : champ_board[c] = NoChamp
        /\ \A u \in Units : LiveUnit(u) => check_board[u].ck_mark # "MARKED"
    BY <1>1, <2>1, NoneBetween
  <2>3. Champions' /\ Distinct'
    BY <1>1, <2>2 DEF Champions, Distinct, NoChamp
  <2>4. Owned'
    <3>1. \A u \in Units : LiveUnit(u)' => check_board'[u].ck_mark # "MARKED"
      BY <1>5, <1>8, <2>2
    <3> QED BY <3>1 DEF Owned
  <2>5. Between'
    BY <1>1, <1>7, <2>1 DEF ScoreInv, BoardInv, Between
  <2> QED BY <2>3, <2>4, <2>5 DEF BoardInv
<1>14. /\ doc'[id] = brw /\ brw.dir = pipe
       /\ \A k \in 1 .. Len(doc) : k # id /\ doc'[k] = doc[k]
  <2>1. doc \in Seq(BranchWords) /\ doc' = Append(doc, brw)
    BY <1>1 DEF ScoreInv, DocOK
  <2>2. doc'[id] = brw /\ \A k \in 1 .. Len(doc) : doc'[k] = doc[k]
    BY <1>3, <2>1, AppendProperties
  <2>3. brw.dir = pipe
    BY DEF brw
  <2> QED BY <1>2, <2>2, <2>3
<1>15. \A u \in Units : LiveUnit(u) /\ u # ck =>
         /\ check_board'[u].id = WordOf(u) /\ WordOf(u) \in 1 .. Len(doc)
         /\ doc'[WordOf(u)] = doc[WordOf(u)] /\ WordOf(u) # id
  BY <1>8, <1>14 DEF ScoreInv, DocOK, WordOf
<1>16. check_board'[ck].id = id
  BY <1>4, <1>8
<1>17. ASSUME WordsOK PROVE WordsOK'
  <2>1. ASSUME NEW u \in Units, NEW v \in Units, LiveUnit(u)', LiveUnit(v)',
               check_board'[u].id = check_board'[v].id
        PROVE  u = v
    <3>1. CASE u # ck /\ v # ck
      BY <1>5, <1>15, <1>17, <2>1, <3>1 DEF WordsOK
    <3>2. CASE u = ck
      BY <1>5, <1>15, <1>16, <2>1, <3>2
    <3>3. CASE v = ck
      BY <1>5, <1>15, <1>16, <2>1, <3>3
    <3> QED BY <3>1, <3>2, <3>3
  <2>2. ASSUME NEW u \in Units, LiveUnit(u)'
        PROVE  doc'[check_board'[u].id].symbol_id = var'[u[2]].symbol_id
    <3>1. CASE u = ck
      BY <1>3, <1>4, <1>14, <1>16, <3>1
    <3>2. CASE u # ck
      <4>1. LiveUnit(u) /\ u[2] \in 1 .. Len(var) /\ DOMAIN var = 1 .. Len(var)
        BY <1>5, <2>2, <3>2, Numbers DEF LiveUnit
      <4>2. doc[WordOf(u)].symbol_id = var[u[2]].symbol_id
        BY <1>17, <4>1 DEF WordsOK
      <4>3. u[2] \in 1 .. Len(var')
        BY <2>2 DEF LiveUnit
      <4>4. var'[u[2]].symbol_id = var[u[2]].symbol_id
        <5>1. CASE u[2] = i
          <6>1. i \in DOMAIN var
            BY <4>1, <5>1
          <6>2. var[i].symbol_id = symbol
            BY <1>12, <6>1
          <6>3. var'[i].symbol_id = symbol
            BY <1>4
          <6> QED BY <5>1, <6>2, <6>3
        <5>2. CASE u[2] # i
          <6>1. var'[u[2]] = var[u[2]]
            BY <1>4, <4>3, <5>2
          <6> QED BY <6>1
        <5> QED BY <5>1, <5>2
      <4>5. check_board'[u].id = WordOf(u) /\ doc'[WordOf(u)] = doc[WordOf(u)]
        BY <1>15, <3>2, <4>1
      <4> QED BY <4>2, <4>4, <4>5
    <3> QED BY <3>1, <3>2
  <2>3. ASSUME NEW d \in 1 .. MaxPaths, NEW k \in 1 .. Len(stack'[d])
        PROVE  doc'[check_board'[stack'[d][k].ck].id].dir = d
    <3> DEFINE it == [ck |-> ck, var_idx |-> i]
               T  == [ck : Units, var_idx : Cols]
    <3>1. /\ stack[d] \in Seq(T) /\ Len(stack[d]) \in 0 .. Len(doc)
          /\ \A m \in 1 .. Len(stack[d]) :
               /\ stack[d][m].ck \in Units /\ LiveUnit(stack[d][m].ck)
      BY StackOf
    <3>2. ASSUME NEW m \in 1 .. Len(stack[d])
          PROVE  doc'[check_board'[stack[d][m].ck].id].dir = d \/ stack[d][m].ck = ck
      <4>1. doc[WordOf(stack[d][m].ck)].dir = d
        BY <1>17 DEF WordsOK
      <4> QED BY <1>15, <3>1, <4>1
    <3>3. ASSUME NEW m \in 1 .. Len(stack[d]) PROVE stack[d][m].ck # ck
      <4>1. LiveUnit(stack[d][m].ck)
        BY <3>1
      <4>2. ~LiveUnit(ck)
        <5> SUFFICES ASSUME LiveUnit(ck) PROVE FALSE
          OBVIOUS
        <5>1. i \in 1 .. Len(var) /\ n \in 1 .. var[i].n_ck_unit /\ DOMAIN var = 1 .. Len(var)
          BY Numbers DEF LiveUnit
        <5>2. var[i].n_ck_unit \in Cols /\ n = var[i].n_ck_unit + 1
          BY <1>12, <5>1 DEF ScoreInv, ScoreTypeOK
        <5> QED BY <1>2, <5>1, <5>2 DEF Cols
      <4> QED BY <4>1, <4>2
    <3>4. CASE d # pipe
      <4>1. stack'[d] = stack[d]
        BY <1>1, <3>4 DEF ScoreInv, ScoreTypeOK
      <4> QED BY <2>3, <3>2, <3>3, <4>1
    <3>5. CASE d = pipe
      <4>1. stack'[d] = Append(stack[d], it)
        BY <1>1, <3>5 DEF ScoreInv, ScoreTypeOK
      <4>2. it \in T /\ it.ck = ck
        BY <1>2, <1>4 DEF Cols
      <4> HIDE DEF it
      <4>3. /\ Len(stack'[d]) = Len(stack[d]) + 1 /\ stack'[d][Len(stack[d]) + 1] = it
            /\ \A m \in 1 .. Len(stack[d]) : stack'[d][m] = stack[d][m]
        BY <3>1, <4>1, <4>2, AppendProperties
      <4>4. k \in 1 .. Len(stack[d]) \/ k = Len(stack[d]) + 1
        BY <1>2, <2>3, <3>1, <4>3
      <4>5. CASE k \in 1 .. Len(stack[d])
        BY <3>2, <3>3, <4>3, <4>5
      <4>6. CASE k = Len(stack[d]) + 1
        BY <1>14, <1>16, <3>5, <4>2, <4>3, <4>6
      <4> QED BY <4>4, <4>5, <4>6
    <3> QED BY <3>4, <3>5
  <2>4. ASSUME NEW p \in 1 .. NPaths, NEW w \in 1 .. id, qpaths[p].dir = doc'[w].dir
        PROVE  cache'[<<p, w>>] = ScoreOf(qpaths[p], doc'[w], depth)
    <3>1. <<p, w>> \in DOMAIN cache /\ p <= NPaths
      <4>1. w \in Cols /\ p \in 1 .. MaxPaths /\ p <= NPaths
        BY <1>2 DEF Cols
      <4> QED BY <4>1 DEF ScoreInv, ScoreTypeOK
    <3>2. cache'[<<p, w>>] = IF qpaths[p].dir = pipe /\ w = id
                             THEN ScoreOf(qpaths[p], brw, depth) ELSE cache[<<p, w>>]
      BY <1>1, <3>1
    <3>3. CASE w = id
      BY <1>14, <2>4, <3>2, <3>3
    <3>4. CASE w # id
      <4>1. w \in 1 .. Len(doc)
        BY <1>2, <3>4
      <4>2. doc'[w] = doc[w]
        BY <1>14, <4>1
      <4> QED BY <1>17, <2>4, <3>2, <3>4, <4>1, <4>2 DEF WordsOK
    <3> QED BY <3>3, <3>4
  <2>5. qpaths' = qpaths /\ depth' = depth /\ NPaths' = NPaths /\ Len(doc') = id
    BY <1>1, <1>6, <1>7
  <2> HIDE DEF id
  <2>6. \A u \in Units : WordOf(u)' = check_board'[u].id
    BY DEF WordOf
  <2> QED BY <2>1, <2>2, <2>3, <2>4, <2>5, <2>6 DEF WordsOK, WordOf
<1>18. ASSUME ChampsOK PROVE ChampsOK'
  <2>1. now \notin 1 .. NPaths
    BY <1>1, <1>2
  <2>2. \A c \in Cells : champ_board[c].who = NULL
    BY <1>1, <2>1, NoneBetween DEF NoChamp
  <2>3. ASSUME NEW j \in DOMAIN var' PROVE var_score'[j] = 0
    <3>1. DOMAIN var' = 1 .. Len(var') /\ DOMAIN var = 1 .. Len(var)
      <4>1. var' \in Seq([symbol_id : Symbols, n_ck_unit : Cols])
        BY <1>4
      <4> QED BY <4>1, LenProperties, Numbers
    <3>2. \A m \in DOMAIN var : var_score[m] = 0
      BY <1>1, <1>18 DEF ChampsOK
    <3>3. i \in Cols /\ var_score \in [Cols -> Nat] /\ \A m \in 1 .. Len(var) : m \in Cols
      <4>1. Len(var) <= Len(doc) /\ Len(var) \in Nat
        BY Numbers
      <4>2. i \in Cols
        <5>1. i \in 1 .. id
          BY <1>4
        <5> HIDE DEF id
        <5> QED BY <1>2, <5>1 DEF Cols
      <4>3. \A m \in 1 .. Len(var) : m \in Cols
        BY <1>2, <4>1 DEF Cols
      <4> QED BY <4>2, <4>3 DEF ScoreInv, ScoreTypeOK
    <3>4. var_score' = IF i \in DOMAIN var THEN var_score ELSE [var_score EXCEPT ![i] = 0]
      BY <1>1
    <3>5. CASE j = i
      BY <3>2, <3>3, <3>4, <3>5
    <3>6. CASE j # i
      <4>1. j \in 1 .. Len(var)
        BY <1>4, <3>1, <3>6
      <4>2. j \in Cols /\ var_score[j] = 0
        BY <3>1, <3>2, <3>3, <4>1
      <4>3. var_score'[j] = var_score[j]
        BY <3>3, <3>4, <3>6, <4>2
      <4> QED BY <4>2, <4>3
    <3> QED BY <3>5, <3>6
  <2> QED BY <1>1, <1>7, <2>1, <2>2, <2>3 DEF ChampsOK
<1> QED BY <1>7, <1>9, <1>10, <1>11, <1>13, <1>17, <1>18 DEF ScoreInv

---------------------------------------------------------------------------
(* A branch word is considered *)

\* The branch word that score_calc() is at.
LEMMA ItemIs ==
  ASSUME ScoreInv, now \in 1 .. NPaths, item <= Len(Relevant)
  PROVE  /\ item \in 1 .. MaxPush /\ LiveUnit(Relevant[item].ck)
         /\ Relevant[item].ck \in Units /\ Relevant[item].ck[2] = Relevant[item].var_idx
         /\ <<now, Relevant[item].var_idx>> \in Cells
         /\ check_board[Relevant[item].ck].id \in 1 .. Len(doc)
         /\ cache[<<now, check_board[Relevant[item].ck].id>>] \in Nat
<1>1. /\ MaxPaths \in Nat /\ MaxPush \in Nat /\ NPaths \in 1 .. MaxPaths
      /\ Len(doc) \in 0 .. MaxPush
  BY Numbers
<1>2. qpaths[now].dir \in 1 .. MaxPaths
  BY <1>1 DEF ScoreInv, PathsOK, PathsAre, NPaths
<1>3. /\ Len(Relevant) \in 0 .. Len(doc)
      /\ \A k \in 1 .. Len(Relevant) :
           /\ Relevant[k] \in [ck : Units, var_idx : Cols]
           /\ LiveUnit(Relevant[k].ck) /\ Relevant[k].ck[2] = Relevant[k].var_idx
  BY <1>2, StackOf DEF Relevant
<1>4. item \in 1 .. Len(Relevant) /\ item \in 1 .. MaxPush
  <2>1. item \in 1 .. MaxPush + 1
    BY DEF ScoreInv, ScoreTypeOK
  <2> QED BY <1>1, <1>3, <2>1
<1>5. /\ Relevant[item] \in [ck : Units, var_idx : Cols] /\ LiveUnit(Relevant[item].ck)
      /\ Relevant[item].ck[2] = Relevant[item].var_idx
  BY <1>3, <1>4
<1>6. <<now, Relevant[item].var_idx>> \in Cells
  BY <1>1, <1>5 DEF Cells
<1>7. check_board[Relevant[item].ck].id \in 1 .. Len(doc)
  BY <1>5 DEF ScoreInv, DocOK
<1>8. cache[<<now, check_board[Relevant[item].ck].id>>] \in Nat
  <2>1. check_board[Relevant[item].ck].id \in Cols /\ now \in 1 .. MaxPaths
    BY <1>1, <1>7 DEF Cols
  <2> QED BY <2>1 DEF ScoreInv, ScoreTypeOK
<1> QED BY <1>4, <1>5, <1>6, <1>7, <1>8

\* A champion's cell: it holds one if and only if its winner is a unit.
LEMMA ChampIs ==
  ASSUME ScoreInv, NEW c \in Cells
  PROVE  /\ champ_board[c].who # NULL <=> champ_board[c] # NoChamp
         /\ champ_board[c].who # NULL => champ_board[c].who \in Units
<1>1. champ_board[c] # NoChamp => champ_board[c].who \in Units
  BY DEF ScoreInv, BoardInv, Champions, LiveUnit
<1>2. champ_board[c] = NoChamp => champ_board[c].who = NULL
  BY DEF NoChamp
<1> QED BY <1>1, <1>2, ScoreAssumption

LEMMA ConsiderInv ==
  ASSUME ScoreInv, Consider
  PROVE  ScoreInv'
<1> DEFINE ck   == Relevant[item].ck
           cell == <<now, Relevant[item].var_idx>>
           s    == cache[<<now, check_board[ck].id>>]
           free == check_board[ck].ck_mark = "UNMARKED"
<1>1. /\ now \in 1 .. NPaths /\ item <= Len(Relevant)
      /\ match' = (match \/ free)
      /\ IF free /\ s > champ_board[cell].max THEN Replace(cell, ck, s)
         ELSE UNCHANGED <<champ_board, check_board>>
      /\ item' = item + 1
      /\ qpaths' = qpaths /\ depth' = depth /\ pipe' = pipe /\ doc' = doc /\ var' = var
      /\ var_score' = var_score /\ score' = score /\ max' = max /\ who' = who
      /\ stack' = stack /\ cache' = cache /\ stage_idx' = stage_idx /\ now' = now
  BY DEF Consider
<1>2. /\ item \in 1 .. MaxPush /\ LiveUnit(ck) /\ ck \in Units
      /\ ck[2] = cell[2] /\ cell \in Cells /\ s \in Nat /\ cell[1] = now
  BY <1>1, ItemIs
<1>3. PathsOK' /\ NPaths' = NPaths /\ NDirs(qpaths)' = NDirs(qpaths)
  BY <1>1, SamePaths DEF ScoreInv
<1>4. \A u : LiveUnit(u)' <=> LiveUnit(u)
  BY <1>1, SameUnits
<1> HIDE DEF ck, cell, s
<1>5. /\ check_board \in [Units -> [ck_mark : Marks, id : 0 .. MaxPush]]
      /\ champ_board \in [Cells -> [max : Nat, who : Units \cup {NULL}]]
  BY DEF ScoreInv, ScoreTypeOK
<1>6. /\ check_board' \in [Units -> [ck_mark : Marks, id : 0 .. MaxPush]]
      /\ champ_board' \in [Cells -> [max : Nat, who : Units \cup {NULL}]]
      /\ \A u \in Units : check_board'[u].id = check_board[u].id
      /\ Champions' /\ Distinct' /\ Owned'
  <2>1. CASE UNCHANGED <<champ_board, check_board>>
    BY <1>1, <1>3, <1>4, <1>5, <2>1 DEF ScoreInv, BoardInv, Champions, Distinct, Owned
  <2>2. CASE free /\ Replace(cell, ck, s)
    <3> DEFINE new == [max |-> s, who |-> ck]
               old == champ_board[cell].who
    <3>1. /\ champ_board' = [champ_board EXCEPT ![cell] = new]
          /\ check_board' = [u \in Units |->
               IF u = ck THEN [check_board[u] EXCEPT !.ck_mark = "MARKED"]
               ELSE IF u = old THEN [check_board[u] EXCEPT !.ck_mark = "UNMARKED"]
               ELSE check_board[u]]
      BY <2>2 DEF Replace
    <3>2. \A c \in Cells : champ_board'[c] = IF c = cell THEN new ELSE champ_board[c]
      BY <1>5, <3>1
    <3>3. \A u \in Units :
            /\ check_board'[u].id = check_board[u].id
            /\ check_board'[u].ck_mark = IF u = ck THEN "MARKED"
                                         ELSE IF u = old THEN "UNMARKED"
                                         ELSE check_board[u].ck_mark
            /\ check_board'[u] \in [ck_mark : Marks, id : 0 .. MaxPush]
      BY <1>5, <3>1 DEF Marks
    <3>4. /\ check_board' \in [Units -> [ck_mark : Marks, id : 0 .. MaxPush]]
          /\ champ_board' \in [Cells -> [max : Nat, who : Units \cup {NULL}]]
      <4>1. new \in [max : Nat, who : Units \cup {NULL}]
        BY <1>2
      <4>2. DOMAIN check_board' = Units /\ check_board' = [u \in Units |-> check_board'[u]]
        BY <3>1
      <4> QED BY <1>5, <3>1, <3>3, <4>1, <4>2
    <3>5. new.who = ck /\ check_board[ck].ck_mark = "UNMARKED" /\ ck # NULL
      BY <1>2, <2>2, ScoreAssumption
    <3> HIDE DEF new
    \* The new champion is the champion of no other cell.
    <3>6. \A c \in Cells : champ_board[c].who # NULL =>
            /\ champ_board[c].who # ck /\ champ_board[c].who \in Units
            /\ LiveUnit(champ_board[c].who) /\ champ_board[c].who[2] = c[2]
            /\ check_board[champ_board[c].who].ck_mark = "MARKED"
            /\ c[1] \in stage_idx .. now
      <4> SUFFICES ASSUME NEW c \in Cells, champ_board[c].who # NULL
                   PROVE  /\ champ_board[c].who # ck /\ champ_board[c].who \in Units
                          /\ LiveUnit(champ_board[c].who) /\ champ_board[c].who[2] = c[2]
                          /\ check_board[champ_board[c].who].ck_mark = "MARKED"
                          /\ c[1] \in stage_idx .. now
        OBVIOUS
      <4>1. champ_board[c] # NoChamp /\ champ_board[c].who \in Units
        BY ChampIs
      <4>2. /\ LiveUnit(champ_board[c].who) /\ champ_board[c].who[2] = c[2]
            /\ check_board[champ_board[c].who].ck_mark = "MARKED"
            /\ c[1] \in stage_idx .. now
        BY <4>1 DEF ScoreInv, BoardInv, Champions
      <4> QED BY <3>5, <4>1, <4>2
    <3>7. \A c \in Cells : champ_board[c].who = NULL => champ_board[c] = NoChamp
      BY ChampIs
    <3>8. \A c, e \in Cells : champ_board[c].who = champ_board[e].who /\ c # e
                              => champ_board[c].who = NULL
      BY DEF ScoreInv, BoardInv, Distinct
    <3>9. Champions'
      <4> SUFFICES ASSUME NEW c \in Cells, champ_board'[c] # NoChamp
                   PROVE  /\ now \in 1 .. NPaths /\ c[1] \in stage_idx .. now
                          /\ LiveUnit(champ_board'[c].who) /\ champ_board'[c].who[2] = c[2]
                          /\ check_board'[champ_board'[c].who].ck_mark = "MARKED"
        BY <1>1, <1>3 DEF Champions, LiveUnit
      <4>1. CASE c = cell
        <5>1. champ_board'[c].who = ck
          BY <3>2, <3>5, <4>1
        <5>2. c[1] \in stage_idx .. now
          <6>1. now \in Nat /\ stage_idx \in Nat
            BY Numbers DEF ScoreInv, ScoreTypeOK
          <6>2. stage_idx <= now
            BY <1>1 DEF ScoreInv, BoardInv, Between
          <6> QED BY <1>2, <4>1, <6>1, <6>2
        <5> QED BY <1>1, <1>2, <3>3, <4>1, <5>1, <5>2
      <4>2. CASE c # cell
        <5>1. champ_board'[c] = champ_board[c] /\ champ_board[c].who # NULL
          BY <3>2, <3>7, <4>2
        <5>2. champ_board[c].who # old
          BY <1>2, <3>8, <4>2, <5>1
        <5> QED BY <1>1, <3>3, <3>6, <5>1, <5>2
      <4> QED BY <4>1, <4>2
    <3>10. Distinct'
      <4> SUFFICES ASSUME NEW c \in Cells, NEW e \in Cells, c # e,
                          champ_board'[c].who = champ_board'[e].who
                   PROVE  champ_board'[c].who = NULL
        BY DEF Distinct
      <4>1. CASE c # cell /\ e # cell
        BY <3>2, <3>8, <4>1
      <4>2. CASE c = cell
        BY <3>2, <3>5, <3>6, <4>2
      <4>3. CASE e = cell
        BY <3>2, <3>5, <3>6, <4>3
      <4> QED BY <4>1, <4>2, <4>3
    <3>11. Owned'
      <4> SUFFICES ASSUME NEW u \in Units, LiveUnit(u), check_board'[u].ck_mark = "MARKED"
                   PROVE  \E c \in Cells : champ_board'[c].who = u
        BY <1>4 DEF Owned
      <4>1. CASE u = ck
        BY <1>2, <3>2, <3>5, <4>1
      <4>2. CASE u # ck
        <5>1. u # old /\ check_board[u].ck_mark = "MARKED"
          BY <3>3, <4>2
        <5>2. now # NPaths + 1
          BY <1>1, Numbers
        <5>3. PICK c \in Cells : champ_board[c].who = u
          BY <5>1, <5>2 DEF ScoreInv, BoardInv, Owned
        <5>4. c # cell
          BY <5>1, <5>3
        <5> QED BY <3>2, <5>3, <5>4
      <4> QED BY <4>1, <4>2
    <3> QED BY <3>3, <3>4, <3>9, <3>10, <3>11
  <2> QED BY <1>1, <2>1, <2>2
<1>7. ScoreTypeOK'
  <2>1. item' \in 1 .. MaxPush + 1
    BY <1>1, <1>2, Numbers
  <2>2. match' \in BOOLEAN
    BY <1>1 DEF ScoreInv, ScoreTypeOK
  <2> QED BY <1>1, <1>3, <1>6, <2>1, <2>2 DEF ScoreInv, ScoreTypeOK
<1>8. DocOK' /\ StackOK'
  BY <1>1, <1>3, <1>4, <1>6 DEF ScoreInv, DocOK, StackOK
<1>9. BoardInv'
  BY <1>1, <1>3, <1>6 DEF ScoreInv, BoardInv, Between
<1> QED BY <1>3, <1>7, <1>8, <1>9 DEF ScoreInv

---------------------------------------------------------------------------
(* The end of a query path, of a stage and of a document *)

\* The sums of the variables are numbers, NewMax is the greatest of them and of
\* max, and NewWho the first variable that reaches it, or the old winner.
LEMMA SumsAre ==
  ASSUME ScoreInv, now \in 1 .. NPaths
  PROVE  /\ Sums \in [Cols -> Nat]
         /\ NewMax \in Nat /\ NewMax >= max /\ \A i \in DOMAIN var : Sums[i] <= NewMax
         /\ NewMax # max => NewWho \in DOMAIN var /\ Sums[NewWho] = NewMax
         /\ NewWho \in Cols \cup {NULL}
<1>1. /\ MaxPaths \in Nat /\ MaxPush \in Nat /\ NPaths \in 1 .. MaxPaths
      /\ Len(doc) \in 0 .. MaxPush /\ Len(var) \in 0 .. Len(doc)
      /\ DOMAIN var = 1 .. Len(var)
  BY Numbers
<1>2. DOMAIN var \subseteq Cols
  BY <1>1 DEF Cols
<1>3. Sums \in [Cols -> Nat]
  <2>1. var_score \in [Cols -> Nat] /\ \A c \in Cells : champ_board[c].max \in Nat
    BY DEF ScoreInv, ScoreTypeOK
  <2>2. \A i \in Cols : <<now, i>> \in Cells
    BY <1>1 DEF Cells
  <2>3. \A i \in Cols : (IF i \in DOMAIN var THEN var_score[i] + champ_board[<<now, i>>].max
                         ELSE var_score[i]) \in Nat
    BY <2>1, <2>2
  <2> QED BY <2>3 DEF Sums
<1>4. max \in Nat /\ who \in Cols \cup {NULL}
  BY DEF ScoreInv, ScoreTypeOK
<1> DEFINE S == {max} \cup {Sums[i] : i \in DOMAIN var}
<1>5. PICK b \in Nat : \A i \in 1 .. Len(var) : Sums[i] <= b
  <2>1. Len(var) \in Nat /\ \A i \in 1 .. Len(var) : Sums[i] \in Nat
    BY <1>1, <1>2, <1>3
  <2> QED BY <2>1, ValuesBounded
<1>6. S \in SUBSET Nat /\ S # {} /\ max \in S
  BY <1>2, <1>3, <1>4
<1>7. b + max \in Nat /\ \A x \in S : x <= b + max
  <2>1. \A i \in DOMAIN var : Sums[i] \in Nat /\ Sums[i] <= b
    BY <1>1, <1>2, <1>3, <1>5
  <2> QED BY <1>4, <1>5, <2>1
<1> HIDE DEF S
<1>8. NewMax \in S /\ \A x \in S : x <= NewMax
  <2>1. NewMax = Max(S)
    BY DEF NewMax, S
  <2> QED BY <1>6, <1>7, <2>1, MaxOfBounded
<1>9. NewMax \in Nat /\ NewMax >= max /\ \A i \in DOMAIN var : Sums[i] <= NewMax
  BY <1>4, <1>6, <1>8 DEF S
<1>10. ASSUME NewMax # max
       PROVE  NewWho \in DOMAIN var /\ Sums[NewWho] = NewMax
  <2> DEFINE W == {i \in DOMAIN var : Sums[i] = NewMax}
  <2>1. W # {} /\ W \in SUBSET Nat
    BY <1>1, <1>8, <1>10 DEF S
  <2>2. \E i \in W : \A j \in W : i <= j
    BY <2>1, LeastOfNat
  <2>3. \E i \in DOMAIN var : Sums[i] = NewMax /\ \A j \in DOMAIN var : Sums[j] = NewMax => i <= j
    BY <2>2
  <2> QED BY <1>10, <2>3 DEF NewWho
<1>11. NewWho \in Cols \cup {NULL}
  <2>1. CASE NewMax = max
    BY <1>4, <2>1 DEF NewWho
  <2>2. CASE NewMax # max
    BY <1>2, <1>10, <2>2
  <2> QED BY <2>1, <2>2
<1> QED BY <1>3, <1>9, <1>10, <1>11

LEMMA ExhaustedInv ==
  ASSUME ScoreInv, Exhausted
  PROVE  ScoreInv'
<1>1. /\ now \in 1 .. NPaths /\ score' = 0 /\ max' = 0 /\ who' = NULL
      /\ champ_board' = [c \in Cells |-> IF c[1] <= NPaths THEN NoChamp ELSE champ_board[c]]
      /\ now' = NPaths + 1 /\ item' = 1 /\ match' = FALSE
      /\ qpaths' = qpaths /\ depth' = depth /\ pipe' = pipe /\ doc' = doc /\ var' = var
      /\ var_score' = var_score /\ check_board' = check_board
      /\ stack' = stack /\ cache' = cache /\ stage_idx' = stage_idx
  BY DEF Exhausted, Scanned, GoTo
<1>2. PathsOK' /\ NPaths' = NPaths /\ NDirs(qpaths)' = NDirs(qpaths)
  BY <1>1, SamePaths DEF ScoreInv
<1>3. \A u : LiveUnit(u)' <=> LiveUnit(u)
  BY <1>1, SameUnits
<1>4. MaxPaths \in Nat /\ MaxPush \in Nat \ {0} /\ NPaths \in 1 .. MaxPaths
  BY Numbers
<1>5. \A c \in Cells : champ_board'[c] = NoChamp
  <2> SUFFICES ASSUME NEW c \in Cells, ~(c[1] <= NPaths) PROVE champ_board[c] = NoChamp
    BY <1>1
  <2>1. c[1] \in Nat /\ stage_idx \in Nat /\ now \in Nat /\ now <= NPaths
    BY <1>1, <1>4 DEF Cells, ScoreInv, ScoreTypeOK
  <2>2. c[1] \notin stage_idx .. now
    BY <1>4, <2>1
  <2> QED BY <2>2 DEF ScoreInv, BoardInv, Champions
<1>6. ScoreTypeOK'
  <2>1. NoChamp \in [max : Nat, who : Units \cup {NULL}]
    BY DEF NoChamp
  <2>2. champ_board' \in [Cells -> [max : Nat, who : Units \cup {NULL}]]
    BY <1>1, <1>5, <2>1
  <2>3. now' \in 0 .. NPaths' + 1 /\ item' \in 1 .. MaxPush + 1
    <3>1. NPaths + 1 \in 0 .. NPaths + 1 /\ 1 \in 1 .. MaxPush + 1
      BY <1>4
    <3> QED BY <1>1, <1>2, <3>1
  <2>4. match' \in BOOLEAN
    BY <1>1
  <2>5. score' \in Nat /\ max' \in Nat /\ who' \in Cols \cup {NULL}
    BY <1>1
  <2> QED BY <1>1, <2>2, <2>3, <2>4, <2>5 DEF ScoreInv, ScoreTypeOK
<1>7. DocOK' /\ StackOK'
  BY <1>1, <1>2, <1>3 DEF ScoreInv, DocOK, StackOK
<1>8. BoardInv'
  <2>1. Champions' /\ Distinct'
    BY <1>5 DEF Champions, Distinct, NoChamp
  <2>2. Owned'
    BY <1>1, <1>2 DEF Owned
  <2>3. Between'
    <3>1. NPaths + 1 \notin 1 .. NPaths /\ NPaths + 1 # 0
      BY <1>4
    <3> QED BY <1>1, <1>2, <3>1 DEF Between
  <2> QED BY <2>1, <2>2, <2>3 DEF BoardInv
<1> QED BY <1>2, <1>6, <1>7, <1>8 DEF ScoreInv

LEMMA MidStageInv ==
  ASSUME ScoreInv, MidStage
  PROVE  ScoreInv'
<1>1. /\ now \in 1 .. NPaths /\ ~NextStage
      /\ var_score' = Sums /\ max' = NewMax /\ who' = NewWho
      /\ now' = now + 1 /\ item' = 1 /\ match' = FALSE
      /\ qpaths' = qpaths /\ depth' = depth /\ pipe' = pipe /\ doc' = doc /\ var' = var
      /\ check_board' = check_board /\ champ_board' = champ_board /\ score' = score
      /\ stack' = stack /\ cache' = cache /\ stage_idx' = stage_idx
  BY DEF MidStage, Scanned, GoTo
<1>2. PathsOK' /\ NPaths' = NPaths /\ NDirs(qpaths)' = NDirs(qpaths)
  BY <1>1, SamePaths DEF ScoreInv
<1>3. \A u : LiveUnit(u)' <=> LiveUnit(u)
  BY <1>1, SameUnits
<1>4. /\ MaxPaths \in Nat /\ MaxPush \in Nat \ {0} /\ NPaths \in 1 .. MaxPaths
      /\ stage_idx \in Nat /\ stage_idx <= now
  <2>1. MaxPaths \in Nat /\ MaxPush \in Nat \ {0} /\ NPaths \in 1 .. MaxPaths
    BY Numbers
  <2>2. stage_idx \in 1 .. MaxPaths /\ stage_idx <= now
    BY <1>1 DEF ScoreInv, ScoreTypeOK, BoardInv, Between
  <2> QED BY <2>1, <2>2
<1>5. /\ now' \in 1 .. NPaths /\ now' # 0 /\ now' # NPaths + 1 /\ now' \in 0 .. NPaths + 1
      /\ stage_idx <= now' /\ now # NPaths + 1
      /\ \A x \in stage_idx .. now : x \in stage_idx .. now'
  <2> DEFINE m == now + 1
  <2>1. now # NPaths
    BY <1>1 DEF NextStage
  <2>2. /\ m \in 1 .. NPaths /\ m # 0 /\ m # NPaths + 1 /\ m \in 0 .. NPaths + 1
        /\ stage_idx <= m /\ now # NPaths + 1
        /\ \A x \in stage_idx .. now : x \in stage_idx .. m
    BY <1>1, <1>4, <2>1
  <2>3. now' = m
    BY <1>1
  <2> HIDE DEF m
  <2> QED BY <2>2, <2>3
<1>6. ScoreTypeOK'
  <2>1. Sums \in [Cols -> Nat] /\ NewMax \in Nat /\ NewWho \in Cols \cup {NULL}
    BY <1>1, SumsAre
  <2>2. match' \in BOOLEAN
    BY <1>1
  <2>3. item' \in 1 .. MaxPush + 1
    BY <1>1, <1>4
  <2> QED BY <1>1, <1>2, <1>5, <2>1, <2>2, <2>3 DEF ScoreInv, ScoreTypeOK
<1>7. DocOK' /\ StackOK'
  BY <1>1, <1>2, <1>3 DEF ScoreInv, DocOK, StackOK
<1>8. BoardInv'
  <2>1. Champions'
    BY <1>1, <1>2, <1>3, <1>5 DEF ScoreInv, BoardInv, Champions
  <2>2. Distinct' /\ Owned'
    BY <1>1, <1>2, <1>3, <1>5 DEF ScoreInv, BoardInv, Distinct, Owned
  <2>3. Between'
    BY <1>1, <1>2, <1>5 DEF Between
  <2> QED BY <2>1, <2>2, <2>3 DEF BoardInv
<1> QED BY <1>2, <1>6, <1>7, <1>8 DEF ScoreInv

\* At the end of a stage all champions are the stage's.
LEMMA StageHasAll ==
  ASSUME ScoreInv, now \in 1 .. NPaths
  PROVE  StageChamps = {c \in Cells : champ_board[c].who # NULL}
<1> SUFFICES ASSUME NEW c \in Cells, champ_board[c].who # NULL
             PROVE  c[1] \in stage_idx .. now /\ c[2] \in DOMAIN var
  BY DEF StageChamps
<1>1. champ_board[c] # NoChamp
  BY ChampIs
<1>2. /\ c[1] \in stage_idx .. now /\ LiveUnit(champ_board[c].who)
      /\ champ_board[c].who[2] = c[2]
  BY <1>1 DEF ScoreInv, BoardInv, Champions
<1> QED BY <1>2, Numbers DEF LiveUnit

LEMMA EndStageInv ==
  ASSUME ScoreInv, EndStage
  PROVE  ScoreInv'
<1>1. /\ now \in 1 .. NPaths /\ NextStage
      /\ check_board' =
           [u \in Units |-> IF \E c \in StageChamps : champ_board[c].who = u
                            THEN [check_board[u] EXCEPT !.ck_mark = NewMark(u)]
                            ELSE check_board[u]]
      /\ champ_board' =
           [c \in Cells |-> IF c \in StageChamps THEN Cleared(c) ELSE champ_board[c]]
      /\ var_score' = [i \in Cols |-> IF i \in DOMAIN var THEN 0 ELSE var_score[i]]
      /\ score' = score + NewMax /\ max' = 0 /\ who' = NULL /\ stage_idx' = now
      /\ now' = now + 1 /\ item' = 1 /\ match' = FALSE
      /\ qpaths' = qpaths /\ depth' = depth /\ pipe' = pipe /\ doc' = doc /\ var' = var
      /\ stack' = stack /\ cache' = cache
  BY DEF EndStage, Scanned, GoTo
<1>2. PathsOK' /\ NPaths' = NPaths /\ NDirs(qpaths)' = NDirs(qpaths)
  BY <1>1, SamePaths DEF ScoreInv
<1>3. \A u : LiveUnit(u)' <=> LiveUnit(u)
  BY <1>1, SameUnits
<1>4. /\ MaxPaths \in Nat /\ MaxPush \in Nat \ {0} /\ NPaths \in 1 .. MaxPaths
  BY Numbers
<1>5. /\ now' \in 0 .. NPaths + 1 /\ now' # 0 /\ stage_idx' <= now'
      /\ stage_idx' \in 1 .. MaxPaths /\ now # NPaths + 1
  <2> DEFINE m == now + 1
  <2>1. /\ m \in 0 .. NPaths + 1 /\ m # 0 /\ now <= m /\ now \in 1 .. MaxPaths
        /\ now # NPaths + 1
    BY <1>1, <1>4
  <2>2. now' = m
    BY <1>1
  <2> HIDE DEF m
  <2> QED BY <1>1, <2>1, <2>2
<1>6. \A c \in Cells : champ_board'[c] = NoChamp
  <2>1. \A c \in Cells : c \notin StageChamps => champ_board[c] = NoChamp
    BY <1>1, StageHasAll, ChampIs
  <2> QED BY <1>1, <2>1 DEF Cleared
<1>7. \A u \in Units :
        /\ check_board'[u].id = check_board[u].id
        /\ check_board'[u] \in [ck_mark : Marks, id : 0 .. MaxPush]
        /\ LiveUnit(u) => check_board'[u].ck_mark # "MARKED"
  <2> SUFFICES ASSUME NEW u \in Units
               PROVE  /\ check_board'[u].id = check_board[u].id
                      /\ check_board'[u] \in [ck_mark : Marks, id : 0 .. MaxPush]
                      /\ LiveUnit(u) => check_board'[u].ck_mark # "MARKED"
    OBVIOUS
  <2>1. check_board[u] \in [ck_mark : Marks, id : 0 .. MaxPush]
    BY DEF ScoreInv, ScoreTypeOK
  <2>2. NewMark(u) \in Marks /\ NewMark(u) # "MARKED"
    BY DEF NewMark, Marks
  <2>3. CASE \E c \in StageChamps : champ_board[c].who = u
    <3>1. check_board'[u] = [check_board[u] EXCEPT !.ck_mark = NewMark(u)]
      BY <1>1, <2>3
    <3> QED BY <2>1, <2>2, <3>1
  <2>4. CASE ~\E c \in StageChamps : champ_board[c].who = u
    <3>1. check_board'[u] = check_board[u]
      BY <1>1, <2>4
    <3>2. ASSUME LiveUnit(u), check_board[u].ck_mark = "MARKED" PROVE FALSE
      <4>1. PICK c \in Cells : champ_board[c].who = u
        BY <1>5, <3>2 DEF ScoreInv, BoardInv, Owned
      <4>2. c \in StageChamps
        BY <1>1, <4>1, StageHasAll, ScoreAssumption
      <4> QED BY <2>4, <4>1, <4>2
    <3> QED BY <2>1, <3>1, <3>2
  <2> QED BY <2>3, <2>4
<1>8. ScoreTypeOK'
  <2>1. check_board' \in [Units -> [ck_mark : Marks, id : 0 .. MaxPush]]
    <3>1. check_board' = [u \in Units |-> check_board'[u]]
      BY <1>1
    <3> QED BY <1>7, <3>1
  <2>2. champ_board' \in [Cells -> [max : Nat, who : Units \cup {NULL}]]
    <3>1. NoChamp \in [max : Nat, who : Units \cup {NULL}]
      BY DEF NoChamp
    <3>2. champ_board' = [c \in Cells |-> champ_board'[c]]
      BY <1>1
    <3> QED BY <1>6, <3>1, <3>2
  <2>3. var_score' \in [Cols -> Nat]
    BY <1>1 DEF ScoreInv, ScoreTypeOK
  <2>4. score' \in Nat /\ max' \in Nat /\ who' \in Cols \cup {NULL}
    <3>1. score \in Nat /\ NewMax \in Nat
      BY <1>1, SumsAre DEF ScoreInv, ScoreTypeOK
    <3> QED BY <1>1, <3>1
  <2>5. match' \in BOOLEAN
    BY <1>1
  <2>6. item' \in 1 .. MaxPush + 1
    BY <1>1, <1>4
  <2> QED BY <1>1, <1>2, <1>5, <2>1, <2>2, <2>3, <2>4, <2>5, <2>6 DEF ScoreInv, ScoreTypeOK
<1>9. DocOK' /\ StackOK'
  BY <1>1, <1>2, <1>3, <1>7 DEF ScoreInv, DocOK, StackOK
<1>10. BoardInv'
  <2>1. Champions' /\ Distinct'
    BY <1>6 DEF Champions, Distinct, NoChamp
  <2>2. Owned'
    BY <1>3, <1>7 DEF Owned
  <2>3. Between'
    BY <1>1, <1>2, <1>5 DEF Between
  <2> QED BY <2>1, <2>2, <2>3 DEF BoardInv
<1> QED BY <1>2, <1>8, <1>9, <1>10 DEF ScoreInv

LEMMA ClearInv ==
  ASSUME ScoreInv, Clear
  PROVE  ScoreInv'
<1>1. /\ now = NPaths + 1
      /\ check_board' = [u \in Units |-> IF u[1] <= NPaths THEN NoUnit ELSE check_board[u]]
      /\ var' = <<>> /\ score' = 0 /\ stack' = [d \in DOMAIN stack |-> <<>>]
      /\ now' = 0 /\ item' = 1 /\ match' = FALSE /\ pipe' = 1 /\ doc' = <<>>
      /\ qpaths' = qpaths /\ depth' = depth /\ var_score' = var_score
      /\ champ_board' = champ_board /\ max' = max /\ who' = who /\ cache' = cache
      /\ stage_idx' = stage_idx
  BY DEF Clear, GoTo
<1>2. PathsOK' /\ NPaths' = NPaths /\ NDirs(qpaths)' = NDirs(qpaths)
  BY <1>1, SamePaths DEF ScoreInv
<1>3. /\ MaxPaths \in Nat \ {0} /\ MaxPush \in Nat \ {0} /\ NPaths \in 1 .. MaxPaths
      /\ NDirs(qpaths) \in 1 .. NPaths
  BY Numbers
<1>4. Len(var') = 0 /\ Len(doc') = 0 /\ var' \in Seq([symbol_id : Symbols, n_ck_unit : Cols])
      /\ doc' \in Seq(BranchWords)
  BY <1>1, EmptySeq
<1>5. \A u : ~LiveUnit(u)'
  BY <1>4 DEF LiveUnit
<1>6. \A c \in Cells : champ_board[c] = NoChamp
  <2>1. now \notin 1 .. NPaths
    BY <1>1, <1>3
  <2> QED BY <2>1, NoneBetween
<1>7. max = 0 /\ who = NULL
  BY <1>1 DEF ScoreInv, BoardInv, Between
<1>8. ScoreTypeOK'
  <2>1. check_board' \in [Units -> [ck_mark : Marks, id : 0 .. MaxPush]]
    <3>1. NoUnit \in [ck_mark : Marks, id : 0 .. MaxPush]
      BY <1>3 DEF NoUnit, Marks
    <3> QED BY <1>1, <3>1 DEF ScoreInv, ScoreTypeOK
  <2>2. stack' \in [1 .. MaxPaths -> Seq([ck : Units, var_idx : Cols])]
    <3>1. <<>> \in Seq([ck : Units, var_idx : Cols])
      BY EmptySeq
    <3> QED BY <1>1, <3>1 DEF ScoreInv, ScoreTypeOK
  <2>3. now' \in 0 .. NPaths' + 1 /\ item' \in 1 .. MaxPush + 1 /\ pipe' \in 1 .. MaxPaths
    <3>1. 0 \in 0 .. NPaths + 1 /\ 1 \in 1 .. MaxPush + 1 /\ 1 \in 1 .. MaxPaths
      BY <1>3
    <3> QED BY <1>1, <1>2, <3>1
  <2>4. match' \in BOOLEAN /\ score' \in Nat
    BY <1>1
  <2>5. Len(doc') <= MaxPush /\ DOMAIN var' = {}
    BY <1>1, <1>3, <1>4
  <2> QED BY <1>1, <2>1, <2>2, <2>3, <2>4, <2>5 DEF ScoreInv, ScoreTypeOK
<1>9. DocOK'
  <2>1. pipe' <= NDirs(qpaths)' /\ Len(doc') <= MaxPush /\ Len(var') <= Len(doc')
    BY <1>1, <1>2, <1>3, <1>4
  <2> QED BY <1>1, <1>4, <1>5, <2>1 DEF DocOK
<1>10. StackOK'
  <2>1. \A d \in 1 .. MaxPaths : stack'[d] = <<>> /\ Len(stack'[d]) = 0
    BY <1>1, EmptySeq DEF ScoreInv, ScoreTypeOK
  <2> QED BY <1>4, <2>1 DEF StackOK
<1>11. BoardInv'
  <2>1. Champions' /\ Distinct'
    BY <1>1, <1>6 DEF Champions, Distinct, NoChamp
  <2>2. Owned'
    BY <1>5 DEF Owned
  <2>3. Between'
    <3>1. 0 \notin 1 .. NPaths
      BY <1>3
    <3> QED BY <1>1, <1>2, <1>7, <3>1 DEF Between
  <2> QED BY <2>1, <2>2, <2>3 DEF BoardInv
<1> QED BY <1>2, <1>8, <1>9, <1>10, <1>11 DEF ScoreInv

---------------------------------------------------------------------------
(* Theorems *)

LEMMA StepInv == ScoreInv /\ [Next]_vars => ScoreInv'
<1> SUFFICES ASSUME ScoreInv, [Next]_vars PROVE ScoreInv'
  OBVIOUS
<1>1. CASE NextNode
  BY <1>1, NextNodeInv
<1>2. CASE NextDirs
  BY <1>2, NextDirsInv
<1>3. CASE \E symbol \in Symbols, fan \in DocFans : Push(symbol, fan)
  BY <1>3, PushInv
<1>4. CASE NextPipe
  BY <1>4, NextPipeInv
<1>5. CASE Calc
  BY <1>5, CalcInv
<1>6. CASE Consider
  BY <1>6, ConsiderInv
<1>7. CASE Exhausted
  BY <1>7, ExhaustedInv
<1>8. CASE MidStage
  BY <1>8, MidStageInv
<1>9. CASE EndStage
  BY <1>9, EndStageInv
<1>10. CASE Clear
  BY <1>10, ClearInv
<1>11. CASE UNCHANGED vars
  <2>1. PathsOK' /\ NPaths' = NPaths /\ NDirs(qpaths)' = NDirs(qpaths)
    BY <1>11, SamePaths DEF vars, ScoreInv
  <2>2. \A u : LiveUnit(u)' <=> LiveUnit(u)
    BY <1>11, SameUnits DEF vars, treeVars
  <2>3. ScoreTypeOK'
    BY <1>11, <2>1 DEF ScoreInv, ScoreTypeOK, vars, treeVars, calcVars
  <2>4. DocOK' /\ StackOK'
    BY <1>11, <2>1, <2>2 DEF ScoreInv, DocOK, StackOK, vars, treeVars, calcVars
  <2>5. BoardInv'
    BY <1>11, <2>1, <2>2
       DEF ScoreInv, BoardInv, Champions, Distinct, Owned, Between, vars, treeVars, calcVars
  <2> QED BY <2>1, <2>3, <2>4, <2>5 DEF ScoreInv
<1> QED BY <1>1, <1>2, <1>3, <1>4, <1>5, <1>6, <1>7, <1>8, <1>9, <1>10, <1>11 DEF Next

\* Whatever merge nodes, directories and documents came before, the searcher's
\* lists, the score tree and the two boards hold together.
THEOREM ScoreInvariant == Spec => []ScoreInv
BY InitInv, StepInv, PTL DEF Spec

\* No array of the score tree, the searcher or the cache is indexed past its
\* end, and no score is negative.
THEOREM ScoreTypes == Spec => []ScoreTypeOK
<1>1. ScoreInv => ScoreTypeOK
  BY DEF ScoreInv
<1> QED BY <1>1, ScoreInvariant, PTL

\* While score_calc() runs, the marked check units are the champions, each of
\* one query path only and of the variable it stands for.
THEOREM ChampionsAreMarked == Spec => []MarkedAreChamps
<1>1. ScoreInv => MarkedAreChamps
  <2> SUFFICES ASSUME ScoreInv, now \in 1 .. NPaths PROVE MarkedAreChamps
    BY DEF MarkedAreChamps
  <2>1. \A c \in Cells : champ_board[c].who # NULL =>
          /\ champ_board[c].who[2] = c[2]
          /\ check_board[champ_board[c].who].ck_mark = "MARKED"
    BY ChampIs DEF ScoreInv, BoardInv, Champions
  <2>2. \A c, e \in Cells : champ_board[c].who = champ_board[e].who /\ c # e
                            => champ_board[c].who = NULL
    BY DEF ScoreInv, BoardInv, Distinct
  <2>3. ASSUME NEW i \in DOMAIN var, NEW k \in 1 .. var[i].n_ck_unit,
               check_board[<<k, i>>].ck_mark = "MARKED"
        PROVE  \E c \in Cells : champ_board[c].who = <<k, i>>
    <3>1. /\ MaxPush \in Nat /\ Len(doc) \in 0 .. MaxPush /\ Len(var) \in 0 .. Len(doc)
          /\ DOMAIN var = 1 .. Len(var) /\ now # NPaths + 1
      BY Numbers
    <3>2. var[i].n_ck_unit \in Cols
      BY DEF ScoreInv, ScoreTypeOK
    <3>3. i \in Cols /\ k \in Cols
      BY <3>1, <3>2 DEF Cols
    <3>4. LiveUnit(<<k, i>>) /\ <<k, i>> \in Units
      BY <3>1, <3>3 DEF LiveUnit, Units
    <3> QED BY <2>3, <3>1, <3>4 DEF ScoreInv, BoardInv, Owned
  <2> QED BY <2>1, <2>2, <2>3 DEF MarkedAreChamps
<1> QED BY <1>1, ScoreInvariant, PTL

\* A document starts with no champion, no maximum, no winner and no score,
\* however the documents before it ended.
THEOREM CleanStart == Spec => []CleanBetweenDocuments
<1>1. ScoreInv => CleanBetweenDocuments
  <2> SUFFICES ASSUME ScoreInv, now = 0 PROVE CleanBetweenDocuments
    BY DEF CleanBetweenDocuments
  <2>1. now \notin 1 .. NPaths
    BY Numbers
  <2>2. \A c \in Cells : champ_board[c] = NoChamp
    BY <2>1, NoneBetween
  <2>3. max = 0 /\ who = NULL /\ score = 0
    BY DEF ScoreInv, BoardInv, Between
  <2> QED BY <2>2, <2>3 DEF CleanBetweenDocuments
<1> QED BY <1>1, ScoreInvariant, PTL

\* A crossed unit is no champion, and no step of score_calc() marks it anew.
LEMMA CrossedKept ==
  ScoreInv /\ [Next]_vars => \A u \in Units : /\ now \in 1 .. NPaths
                                             /\ check_board[u].ck_mark = "CROSSED"
                                             => check_board'[u].ck_mark = "CROSSED"
<1> SUFFICES ASSUME ScoreInv, [Next]_vars, now \in 1 .. NPaths,
                    NEW u \in Units, check_board[u].ck_mark = "CROSSED"
             PROVE  check_board'[u].ck_mark = "CROSSED"
  OBVIOUS
<1>1. now # 0 /\ now # NPaths + 1
  BY Numbers
<1>2. check_board \in [Units -> [ck_mark : Marks, id : 0 .. MaxPush]]
  BY DEF ScoreInv, ScoreTypeOK
<1>3. \A c \in Cells : champ_board[c].who # u
  <2> SUFFICES ASSUME NEW c \in Cells, champ_board[c].who = u PROVE FALSE
    OBVIOUS
  <2>1. champ_board[c] # NoChamp
    BY ChampIs, ScoreAssumption
  <2> QED BY <2>1 DEF ScoreInv, BoardInv, Champions
<1>4. CASE UNCHANGED check_board
  BY <1>4
<1>5. CASE Consider
  <2> DEFINE ck   == Relevant[item].ck
             cell == <<now, Relevant[item].var_idx>>
  <2>1. CASE /\ check_board[ck].ck_mark = "UNMARKED"
             /\ Replace(cell, ck, cache[<<now, check_board[ck].id>>])
    <3>1. u # ck
      BY <2>1
    <3>2. cell \in Cells
      BY <1>5, ItemIs DEF Consider
    <3>3. check_board' = [v \in Units |->
            IF v = ck THEN [check_board[v] EXCEPT !.ck_mark = "MARKED"]
            ELSE IF v = champ_board[cell].who
                 THEN [check_board[v] EXCEPT !.ck_mark = "UNMARKED"]
            ELSE check_board[v]]
      BY <2>1 DEF Replace
    <3> HIDE DEF ck, cell
    <3> QED BY <1>3, <3>1, <3>2, <3>3
  <2>2. CASE UNCHANGED <<champ_board, check_board>>
    BY <2>2
  <2> QED BY <1>5, <2>1, <2>2 DEF Consider
<1>6. CASE EndStage
  <2>1. ~\E c \in StageChamps : champ_board[c].who = u
    BY <1>3 DEF StageChamps
  <2> QED BY <1>6, <2>1 DEF EndStage
<1>7. CASE \E symbol \in Symbols, fan \in DocFans : Push(symbol, fan)
  BY <1>1, <1>7 DEF Push
<1>8. CASE Clear
  BY <1>1, <1>8 DEF Clear
<1> QED BY <1>4, <1>5, <1>6, <1>7, <1>8
        DEF Next, NextNode, NextDirs, NextPipe, Calc, Exhausted, MidStage, vars, treeVars

\* A branch word that a stage has matched for good is not matched again while
\* the document is scored.
THEOREM CrossedIsForGood == Spec => CrossedStaysCrossed
<1> DEFINE Stays == \A u \in Units : /\ now \in 1 .. NPaths
                                     /\ check_board[u].ck_mark = "CROSSED"
                                     => check_board'[u].ck_mark = "CROSSED"
<1>1. ScoreInv /\ [Next]_vars => [Stays]_vars
  BY CrossedKept
<1> QED BY <1>1, ScoreInvariant, PTL DEF Spec, CrossedStaysCrossed

---------------------------------------------------------------------------
(* Sums over the query paths *)

\* s[n] is the sum of h[1] to h[n].
IsSum(s, h, N) ==
  /\ s \in [0 .. N -> Nat] /\ s[0] = 0
  /\ \A n \in 1 .. N : s[n] = s[n - 1] + h[n]

LEMMA SumExists ==
  ASSUME NEW N \in Nat, NEW h, \A n \in 1 .. N : h[n] \in Nat
  PROVE  \E s : IsSum(s, h, N)
<1> DEFINE Bad == {k \in Nat : k <= N /\ ~\E s : IsSum(s, h, k)}
<1>1. ASSUME Bad # {} PROVE FALSE
  <2>1. PICK m \in Bad : \A k \in Bad : m <= k
    <3>1. Bad \in SUBSET Nat
      OBVIOUS
    <3> QED BY <1>1, <3>1, LeastOfNat
  <2>2. m \in Nat /\ m <= N /\ ~\E s : IsSum(s, h, m)
    BY <2>1
  <2>3. m # 0
    <3>1. [i \in 0 .. 0 |-> 0] \in [0 .. 0 -> Nat] /\ [i \in 0 .. 0 |-> 0][0] = 0
      OBVIOUS
    <3>2. IsSum([i \in 0 .. 0 |-> 0], h, 0)
      BY <3>1 DEF IsSum
    <3> QED BY <2>2, <3>2
  <2>4. m - 1 \in Nat /\ m - 1 <= N /\ ~(m <= m - 1) /\ m \in 1 .. N
    BY <2>2, <2>3
  <2>5. m - 1 \notin Bad
    <3> HIDE DEF Bad
    <3> QED BY <2>1, <2>4
  <2>6. PICK s : IsSum(s, h, m - 1)
    BY <2>4, <2>5
  <2> DEFINE t == [i \in 0 .. m |-> IF i = m THEN s[m - 1] + h[m] ELSE s[i]]
  <2>7. IsSum(t, h, m)
    <3>1. s \in [0 .. m - 1 -> Nat] /\ h[m] \in Nat /\ m - 1 \in 0 .. m - 1
      BY <2>4, <2>6 DEF IsSum
    <3>2. \A i \in 0 .. m : i # m => i \in 0 .. m - 1
      BY <2>4
    <3>3. t \in [0 .. m -> Nat]
      BY <3>1, <3>2
    <3>4. t[0] = 0
      BY <2>4, <2>6 DEF IsSum
    <3>5. ASSUME NEW n \in 1 .. m PROVE t[n] = t[n - 1] + h[n]
      <4>1. n - 1 \in 0 .. m /\ n - 1 # m /\ n \in 0 .. m
        BY <2>4
      <4>2. t[n - 1] = s[n - 1]
        BY <4>1
      <4>3. CASE n = m
        BY <4>1, <4>2, <4>3
      <4>4. CASE n # m
        <5>1. n \in 1 .. m - 1
          BY <2>4, <4>4
        <5>2. t[n] = s[n] /\ s[n] = s[n - 1] + h[n]
          BY <2>6, <4>1, <4>4, <5>1 DEF IsSum
        <5> QED BY <4>2, <5>2
      <4> QED BY <4>3, <4>4
    <3> QED BY <3>3, <3>4, <3>5 DEF IsSum
  <2> QED BY <2>2, <2>7
<1>2. N \notin Bad
  BY <1>1
<1> QED BY <1>2

\* Two series that differ in the k-th number at most.
LEMMA SumChange ==
  ASSUME NEW N \in Nat, NEW k \in 1 .. N, NEW h, NEW g, NEW s, NEW t,
         \A n \in 1 .. N : h[n] \in Nat /\ g[n] \in Nat,
         \A n \in 1 .. N : n # k => h[n] = g[n],
         IsSum(s, h, N), IsSum(t, g, N)
  PROVE  s[N] + g[k] = t[N] + h[k]
<1> DEFINE Eq(n) == IF n < k THEN s[n] = t[n] ELSE s[n] + g[k] = t[n] + h[k]
           Bad == {n \in Nat : n <= N /\ ~Eq(n)}
<1>0. \A n \in 0 .. N : s[n] \in Nat /\ t[n] \in Nat
  BY DEF IsSum
<1>1. ASSUME Bad # {} PROVE FALSE
  <2>1. PICK m \in Bad : \A n \in Bad : m <= n
    <3>1. Bad \in SUBSET Nat
      OBVIOUS
    <3> QED BY <1>1, <3>1, LeastOfNat
  <2>2. m \in Nat /\ m <= N /\ ~Eq(m)
    BY <2>1
  <2>3. m # 0
    <3>1. 0 < k /\ s[0] = 0 /\ t[0] = 0
      BY DEF IsSum
    <3> QED BY <2>2, <3>1
  <2>4. m - 1 \in Nat /\ m - 1 <= N /\ ~(m <= m - 1) /\ m \in 1 .. N
    BY <2>2, <2>3
  <2>5. Eq(m - 1)
    <3>1. m - 1 \notin Bad
      <4> HIDE DEF Bad
      <4> QED BY <2>1, <2>4
    <3> HIDE DEF Eq
    <3> QED BY <2>4, <3>1
  <2>6. /\ s[m] = s[m - 1] + h[m] /\ t[m] = t[m - 1] + g[m]
        /\ h[m] \in Nat /\ g[m] \in Nat /\ h[k] \in Nat /\ g[k] \in Nat
        /\ m # k => h[m] = g[m]
    BY <2>4 DEF IsSum
  <2>7. s[m - 1] \in Nat /\ t[m - 1] \in Nat
    BY <1>0, <2>4
  <2>8. CASE m < k
    <3>1. m - 1 < k /\ m # k
      BY <2>4, <2>8
    <3> QED BY <2>2, <2>5, <2>6, <2>8, <3>1
  <2>9. CASE m = k
    <3>1. m - 1 < k
      BY <2>4, <2>9
    <3>2. s[m - 1] = t[m - 1]
      BY <2>5, <3>1
    <3>3. s[m] + g[k] = t[m] + h[k]
      BY <2>6, <2>7, <2>9, <3>2
    <3> QED BY <2>2, <2>9, <3>3
  <2>10. CASE m > k
    <3>1. ~(m - 1 < k) /\ m # k /\ ~(m < k)
      BY <2>4, <2>10
    <3>2. s[m - 1] + g[k] = t[m - 1] + h[k]
      BY <2>5, <3>1
    <3>3. s[m] + g[k] = t[m] + h[k]
      BY <2>6, <2>7, <3>1, <3>2
    <3> QED BY <2>2, <3>1, <3>3
  <2> QED BY <2>4, <2>8, <2>9, <2>10
<1>2. N \notin Bad
  BY <1>1
<1>3. N <= N /\ ~(N < k)
  OBVIOUS
<1> QED BY <1>2, <1>3

---------------------------------------------------------------------------
(* The score of an assignment of branch words to query paths *)

Assignments == [1 .. NPaths -> 0 .. Len(doc)]

\* What query path n adds.
ValueOf(f, n) == IF f[n] = 0 THEN 0 ELSE ScoreOf(qpaths[n], doc[f[n]], depth)

LEMMA ValueNat ==
  ASSUME ScoreInv, NEW f \in Assignments, NEW n \in 1 .. NPaths
  PROVE  ValueOf(f, n) \in Nat
<1>1. Len(doc) \in Nat /\ f[n] \in 0 .. Len(doc)
  BY Numbers DEF Assignments
<1>2. CASE f[n] # 0
  <2>1. f[n] \in 1 .. Len(doc)
    BY <1>1, <1>2
  <2>2. doc[f[n]] \in BranchWords
    BY <2>1, ElementOfSeq DEF ScoreInv, DocOK
  <2>3. doc[f[n]].fan \in Seq(Nat) /\ doc[f[n]].fan # <<>>
    BY <2>2 DEF BranchWords
  <2>4. qpaths[n] \in QueryPaths /\ qpaths[n].fan # <<>>
    BY DEF ScoreInv, PathsOK, PathsAre, NPaths
  <2>5. qpaths[n].fan \in Seq(Nat)
    BY <2>4 DEF QueryPaths
  <2>6. depth \in Nat
    <3>1. depth \in 0 .. Len(Above) - 1 /\ Len(Above) \in Nat
      BY ScoreAssumption DEF ScoreInv, ScoreTypeOK
    <3> QED BY <3>1
  <2> QED BY <2>3, <2>4, <2>5, <2>6, ScoreOfNat DEF ValueOf
<1> QED BY <1>2 DEF ValueOf

LEMMA ScoreIsSum ==
  ASSUME ScoreInv, NEW f \in Assignments
  PROVE  \E s : /\ IsSum(s, [n \in 1 .. NPaths |-> ValueOf(f, n)], NPaths)
                /\ MatchingScore(f) = s[NPaths]
<1> DEFINE h == [n \in 1 .. NPaths |-> ValueOf(f, n)]
           sum[n \in 0 .. NPaths] ==
             IF n = 0 THEN 0
             ELSE sum[n - 1] + (IF f[n] = 0 THEN 0 ELSE ScoreOf(qpaths[n], doc[f[n]], depth))
           Rec(g) == [n \in 0 .. NPaths |->
             IF n = 0 THEN 0
             ELSE g[n - 1] + (IF f[n] = 0 THEN 0 ELSE ScoreOf(qpaths[n], doc[f[n]], depth))]
<1>1. NPaths \in Nat \ {0}
  BY Numbers
<1>2. \A n \in 1 .. NPaths : h[n] = ValueOf(f, n) /\ h[n] \in Nat
  BY ValueNat
<1> HIDE DEF h
<1>3. PICK s : IsSum(s, h, NPaths)
  BY <1>1, <1>2, SumExists
<1>4. \A n \in 1 .. NPaths :
        (IF f[n] = 0 THEN 0 ELSE ScoreOf(qpaths[n], doc[f[n]], depth)) = h[n]
  BY <1>2 DEF ValueOf
<1>5. s = Rec(s)
  <2>1. DOMAIN s = 0 .. NPaths /\ DOMAIN Rec(s) = 0 .. NPaths
    BY <1>3 DEF IsSum
  <2>2. ASSUME NEW n \in 0 .. NPaths PROVE s[n] = Rec(s)[n]
    <3>1. CASE n = 0
      BY <1>3, <3>1 DEF IsSum
    <3>2. CASE n # 0
      <4>1. n \in 1 .. NPaths
        BY <1>1, <3>2
      <4> QED BY <1>3, <1>4, <3>2, <4>1 DEF IsSum
    <3> QED BY <3>1, <3>2
  <2>3. s = [n \in 0 .. NPaths |-> s[n]]
    BY <1>3 DEF IsSum
  <2> HIDE DEF Rec
  <2>4. Rec(s) = [n \in 0 .. NPaths |-> Rec(s)[n]]
    BY DEF Rec
  <2> QED BY <2>2, <2>3, <2>4
<1>6. sum = Rec(sum)
  BY <1>5 DEF sum
<1> HIDE DEF sum
<1>7. sum[0] = 0 /\ \A n \in 1 .. NPaths : sum[n] = sum[n - 1] + h[n]
  <2>1. 0 \in 0 .. NPaths /\ \A n \in 1 .. NPaths : n \in 0 .. NPaths /\ n # 0
    BY <1>1
  <2>2. Rec(sum)[0] = 0 /\ \A n \in 1 .. NPaths : Rec(sum)[n] = sum[n - 1] + h[n]
    BY <1>4, <2>1
  <2> HIDE DEF Rec
  <2> QED BY <1>6, <2>2
<1> DEFINE Bad == {n \in Nat : n <= NPaths /\ sum[n] # s[n]}
<1>8. ASSUME Bad # {} PROVE FALSE
  <2>1. PICK m \in Bad : \A n \in Bad : m <= n
    <3>1. Bad \in SUBSET Nat
      OBVIOUS
    <3> QED BY <1>8, <3>1, LeastOfNat
  <2>2. m \in Nat /\ m <= NPaths /\ sum[m] # s[m] /\ m # 0
    BY <1>3, <1>7, <2>1 DEF IsSum
  <2>3. m - 1 \in Nat /\ m - 1 <= NPaths /\ ~(m <= m - 1) /\ m \in 1 .. NPaths
    BY <1>1, <2>2
  <2>4. m - 1 \notin Bad
    <3> HIDE DEF Bad
    <3> QED BY <2>1, <2>3
  <2>5. sum[m - 1] = s[m - 1]
    BY <2>3, <2>4
  <2> QED BY <1>3, <1>7, <2>2, <2>3, <2>5 DEF IsSum
<1>9. sum[NPaths] = s[NPaths]
  <2>1. NPaths \notin Bad
    BY <1>8
  <2> QED BY <1>1, <2>1
<1>10. MatchingScore(f) = sum[NPaths]
  BY DEF MatchingScore, sum
<1> QED BY <1>3, <1>9, <1>10 DEF h

\* A score is a number, and no assignment at all scores nothing.
LEMMA ScoreNat ==
  ASSUME ScoreInv, NEW f \in Assignments
  PROVE  /\ MatchingScore(f) \in Nat
         /\ (\A n \in 1 .. NPaths : f[n] = 0) => MatchingScore(f) = 0
<1> DEFINE h == [n \in 1 .. NPaths |-> ValueOf(f, n)]
           z == [n \in 0 .. NPaths |-> 0]
<1>1. NPaths \in Nat \ {0}
  BY Numbers
<1>2. PICK s : IsSum(s, h, NPaths) /\ MatchingScore(f) = s[NPaths]
  BY ScoreIsSum
<1>3. s[NPaths] \in Nat
  BY <1>1, <1>2 DEF IsSum
<1>4. ASSUME \A n \in 1 .. NPaths : f[n] = 0 PROVE s[NPaths] = 0
  <2>1. \A n \in 1 .. NPaths : h[n] = 0
    BY <1>4 DEF ValueOf
  <2> HIDE DEF h
  <2>2. IsSum(z, h, NPaths)
    <3>1. z \in [0 .. NPaths -> Nat] /\ 0 \in 0 .. NPaths
      BY <1>1
    <3>2. \A n \in 1 .. NPaths : n \in 0 .. NPaths /\ n - 1 \in 0 .. NPaths
      BY <1>1
    <3> QED BY <2>1, <3>1, <3>2 DEF IsSum
  <2>3. z[NPaths] = 0 /\ 1 \in 1 .. NPaths /\ h[1] = 0
    BY <1>1, <2>1
  <2> HIDE DEF z
  <2>4. s[NPaths] + h[1] = z[NPaths] + h[1]
    BY <1>1, <1>2, <2>1, <2>2, <2>3, SumChange
  <2> QED BY <1>3, <2>3, <2>4
<1> QED BY <1>2, <1>3, <1>4

\* Another branch word for one query path.
LEMMA ScoreChange ==
  ASSUME ScoreInv, NEW f \in Assignments, NEW g \in Assignments, NEW k \in 1 .. NPaths,
         \A n \in 1 .. NPaths : n # k => f[n] = g[n]
  PROVE  MatchingScore(f) + ValueOf(g, k) = MatchingScore(g) + ValueOf(f, k)
<1> DEFINE F == [n \in 1 .. NPaths |-> ValueOf(f, n)]
           G == [n \in 1 .. NPaths |-> ValueOf(g, n)]
<1>1. NPaths \in Nat
  BY Numbers
<1>2. PICK s : IsSum(s, F, NPaths) /\ MatchingScore(f) = s[NPaths]
  BY ScoreIsSum
<1>3. PICK t : IsSum(t, G, NPaths) /\ MatchingScore(g) = t[NPaths]
  BY ScoreIsSum
<1>4. \A n \in 1 .. NPaths : F[n] \in Nat /\ G[n] \in Nat
  BY ValueNat
<1>5. \A n \in 1 .. NPaths : n # k => F[n] = G[n]
  BY DEF ValueOf
<1>6. F[k] = ValueOf(f, k) /\ G[k] = ValueOf(g, k)
  OBVIOUS
<1> HIDE DEF F, G
<1>7. s[NPaths] + G[k] = t[NPaths] + F[k]
  BY <1>1, <1>2, <1>3, <1>4, <1>5, SumChange
<1> QED BY <1>2, <1>3, <1>6, <1>7

---------------------------------------------------------------------------
(* Branch words, champions and the assignment that the score stands for *)

\* Matching() and MatchingScore() for given query paths, document and depth.
MatchingOf(q, d, f) ==
  /\ \A i \in DOMAIN f : f[i] # 0 => d[f[i]].dir = q[i].dir
  /\ \A i, j \in DOMAIN f : i # j /\ f[i] # 0 /\ f[j] # 0 =>
       /\ f[i] # f[j]
       /\ q[i].symbol_id = q[j].symbol_id => d[f[i]].symbol_id = d[f[j]].symbol_id

TotalOf(q, d, dep, f) ==
  LET sum[n \in 0 .. Len(q)] ==
        IF n = 0 THEN 0
        ELSE sum[n - 1] + (IF f[n] = 0 THEN 0 ELSE ScoreOf(q[n], d[f[n]], dep))
  IN  sum[Len(q)]

LEMMA TotalIs ==
  \A f : /\ Matching(f) <=> MatchingOf(qpaths, doc, f)
         /\ MatchingScore(f) = TotalOf(qpaths, doc, depth, f)
BY DEF Matching, MatchingOf, MatchingScore, TotalOf, SameStage, NPaths

\* The branch word of the champion of query path j and variable i, if any.
ChampWord(j, i) ==
  IF champ_board[<<j, i>>].who = NULL THEN 0 ELSE WordOf(champ_board[<<j, i>>].who)

\* The assignment f of the finished stages, up to query path done, and that of
\* this stage if variable i wins it.
With(f, done, i) == [j \in 1 .. NPaths |-> IF j <= done THEN f[j] ELSE ChampWord(j, i)]

Assigned(f, done) ==
  /\ done < now /\ \A j \in done + 1 .. NPaths : f[j] = 0
  /\ \A j \in done + 1 .. now : SameStage(j, now)
  /\ done # 0 => ~SameStage(done, now)
  /\ MatchingOf(qpaths, doc, f) /\ TotalOf(qpaths, doc, depth, f) = score
  /\ \A i \in 1 .. NPaths : f[i] # 0 =>
       \E u \in Units : LiveUnit(u) /\ WordOf(u) = f[i] /\ check_board[u].ck_mark = "CROSSED"
  /\ \A i \in DOMAIN var :
       TotalOf(qpaths, doc, depth, With(f, done, i)) = score + Sums[i]

\* While score_calc() runs, the score is that of a matching of the stages that
\* are over, and each variable's sum what it would add to it.
MatchInv ==
  now \in 1 .. NPaths => \E f \in Assignments, done \in 0 .. NPaths : Assigned(f, done)

\* Before a document has branch words there is nothing to hold together.
LEMMA NoWords == ScoreInv /\ doc = <<>> => WordsOK
<1> SUFFICES ASSUME ScoreInv, doc = <<>> PROVE WordsOK
  OBVIOUS
<1>1. Len(doc) = 0 /\ \A u : ~LiveUnit(u)
  BY NothingYet
<1>2. \A d \in 1 .. MaxPaths : Len(stack[d]) = 0
  BY NothingYet, EmptySeq
<1> QED BY <1>1, <1>2 DEF WordsOK

\* The branch words of the check units stay while they are matched.
LEMMA WordsKept ==
  ASSUME ScoreInv, WordsOK, UNCHANGED <<qpaths, depth, doc, var, stack, cache>>,
         \A u \in Units : check_board'[u].id = check_board[u].id
  PROVE  WordsOK'
<1>1. \A u \in Units : WordOf(u)' = WordOf(u)
  BY DEF WordOf
<1>2. \A u : LiveUnit(u)' <=> LiveUnit(u)
  BY SameUnits
<1>3. NPaths' = NPaths
  BY DEF NPaths
<1>4. \A d \in 1 .. MaxPaths : \A k \in 1 .. Len(stack[d]) : stack[d][k].ck \in Units
  BY StackOf
<1>5. \A d \in 1 .. MaxPaths : \A k \in 1 .. Len(stack'[d]) :
        doc'[WordOf(stack[d][k].ck)'].dir = d
  <2> SUFFICES ASSUME NEW d \in 1 .. MaxPaths, NEW k \in 1 .. Len(stack[d])
               PROVE  doc[check_board'[stack[d][k].ck].id].dir = d
    BY DEF WordOf
  <2>1. doc[check_board[stack[d][k].ck].id].dir = d
    BY DEF WordsOK, WordOf
  <2> QED BY <1>4, <2>1
<1> QED BY <1>1, <1>2, <1>3, <1>5 DEF WordsOK

LEMMA IdsKept ==
  ASSUME ScoreInv, Consider \/ EndStage
  PROVE  \A u \in Units : check_board'[u].id = check_board[u].id
<1>1. check_board \in [Units -> [ck_mark : Marks, id : 0 .. MaxPush]]
  BY DEF ScoreInv, ScoreTypeOK
<1>2. CASE EndStage
  BY <1>1, <1>2 DEF EndStage
<1>3. CASE Consider
  <2>1. \A cell, ck, s : Replace(cell, ck, s) =>
          \A u \in Units : check_board'[u].id = check_board[u].id
    BY <1>1 DEF Replace
  <2> QED BY <1>3, <2>1 DEF Consider
<1> QED BY <1>2, <1>3

LEMMA StepWords ==
  ASSUME ScoreInv, ScoreInv', WordsOK, [Next]_vars
  PROVE  WordsOK'
<1>1. doc' = <<>> => WordsOK'
  <2>1. (ScoreInv /\ doc = <<>> => WordsOK)'
    BY NoWords, PTL
  <2> QED BY <2>1
<1>2. CASE NextNode \/ NextDirs \/ Clear
  BY <1>1, <1>2 DEF NextNode, NextDirs, Clear
<1>3. CASE \E symbol \in Symbols, fan \in DocFans : Push(symbol, fan)
  BY <1>3, PushInv
<1>4. CASE Consider \/ EndStage
  <2>1. UNCHANGED <<qpaths, depth, doc, var, stack, cache>>
    BY <1>4 DEF Consider, EndStage
  <2> QED BY <1>4, <2>1, IdsKept, WordsKept
<1>5. CASE NextPipe \/ Calc \/ Exhausted \/ MidStage \/ UNCHANGED vars
  <2>1. UNCHANGED <<qpaths, depth, doc, var, stack, cache, check_board>>
    BY <1>5 DEF NextPipe, Calc, Exhausted, MidStage, vars, treeVars
  <2> QED BY <2>1, WordsKept
<1> QED BY <1>2, <1>3, <1>4, <1>5 DEF Next

\* What a champion's cell says.
LEMMA ChampWordIs ==
  ASSUME ScoreInv, ChampsOK, NEW j \in 1 .. NPaths, NEW i \in DOMAIN var
  PROVE  /\ <<j, i>> \in Cells /\ ChampWord(j, i) \in 0 .. Len(doc)
         /\ ChampWord(j, i) = 0 => champ_board[<<j, i>>] = NoChamp
         /\ ChampWord(j, i) # 0 =>
              LET u == champ_board[<<j, i>>].who
              IN  /\ u \in Units /\ LiveUnit(u) /\ u[2] = i /\ WordOf(u) = ChampWord(j, i)
                  /\ check_board[u].ck_mark = "MARKED" /\ j \in stage_idx .. now
                  /\ doc[WordOf(u)].dir = qpaths[j].dir
                  /\ champ_board[<<j, i>>].max = ScoreOf(qpaths[j], doc[WordOf(u)], depth)
<1> DEFINE c == <<j, i>>
           u == champ_board[c].who
<1>1. /\ MaxPaths \in Nat /\ MaxPush \in Nat /\ NPaths \in 1 .. MaxPaths
      /\ Len(doc) \in 0 .. MaxPush /\ Len(var) \in 0 .. Len(doc) /\ DOMAIN var = 1 .. Len(var)
  BY Numbers
<1>2. c \in Cells
  <2>1. j \in 1 .. MaxPaths /\ i \in 1 .. MaxPush
    BY <1>1
  <2> QED BY <2>1 DEF Cells, Cols
<1>3. CASE u = NULL
  <2>1. ChampWord(j, i) = 0 /\ champ_board[c] = NoChamp
    BY <1>2, <1>3, ChampIs DEF ChampWord
  <2> QED BY <1>1, <1>2, <2>1
<1>4. CASE u # NULL
  <2>1. champ_board[c] # NoChamp /\ u \in Units
    BY <1>2, <1>4, ChampIs
  <2>2. LiveUnit(u) /\ u[2] = c[2] /\ c[1] \in stage_idx .. now
        /\ check_board[u].ck_mark = "MARKED"
    BY <1>2, <2>1 DEF ScoreInv, BoardInv, Champions
  <2>3. WordOf(u) \in 1 .. Len(doc)
    BY <2>1, <2>2 DEF ScoreInv, DocOK, WordOf
  <2>4. /\ doc[WordOf(u)].dir = qpaths[c[1]].dir
        /\ champ_board[c].max = ScoreOf(qpaths[c[1]], doc[WordOf(u)], depth)
    BY <1>2, <1>4 DEF ChampsOK
  <2>5. ChampWord(j, i) = WordOf(u)
    BY <1>4 DEF ChampWord
  <2>6. WordOf(u) \in 0 .. Len(doc) /\ WordOf(u) # 0
    BY <1>1, <2>3
  <2> QED BY <1>2, <2>1, <2>2, <2>4, <2>5, <2>6
<1> QED BY <1>3, <1>4

\* The winner of a query path has the greatest sum; without one all sums are 0.
LEMMA WinnerIs ==
  ASSUME ScoreInv, ChampsOK, now \in 1 .. NPaths
  PROVE  IF NewWho = NULL THEN NewMax = 0
         ELSE NewWho \in DOMAIN var /\ Sums[NewWho] = NewMax
<1>1. /\ Sums \in [Cols -> Nat]
      /\ NewMax \in Nat /\ NewMax >= max /\ \A i \in DOMAIN var : Sums[i] <= NewMax
      /\ NewMax # max => NewWho \in DOMAIN var /\ Sums[NewWho] = NewMax
  BY SumsAre
<1>2. IF who = NULL THEN max = 0 ELSE who \in DOMAIN var /\ var_score[who] = max
  BY DEF ChampsOK
<1>3. \A i \in DOMAIN var : i # NULL /\ i \in Cols
  <2>1. \A i \in DOMAIN var : i \in Cols
    BY Numbers DEF Cols
  <2> QED BY <2>1, ScoreAssumption
<1>4. CASE NewMax # max
  BY <1>1, <1>3, <1>4
<1>5. CASE NewMax = max /\ who = NULL
  BY <1>2, <1>5 DEF NewWho
<1>6. CASE NewMax = max /\ who # NULL
  <2>1. NewWho = who /\ who \in DOMAIN var /\ var_score[who] = max /\ who \in Cols
    BY <1>2, <1>3, <1>6 DEF NewWho
  <2>2. Sums[who] = max + champ_board[<<now, who>>].max
    BY <2>1 DEF Sums
  <2>3. <<now, who>> \in Cells
    <3>1. MaxPaths \in Nat /\ NPaths \in 1 .. MaxPaths
      BY Numbers
    <3>2. now \in 1 .. MaxPaths
      BY <3>1
    <3> QED BY <2>1, <3>2 DEF Cells
  <2>4. champ_board[<<now, who>>].max \in Nat /\ max \in Nat
    BY <2>3 DEF ScoreInv, ScoreTypeOK
  <2>5. Sums[who] <= max
    BY <1>1, <1>6, <2>1
  <2>6. Sums[who] = max
    BY <2>2, <2>4, <2>5
  <2> QED BY <1>6, <2>1, <2>6
<1> QED BY <1>4, <1>5, <1>6

\* The branch words stay, so what was said of the champions still holds.
LEMMA ChampsKept ==
  ASSUME ScoreInv, ChampsOK, UNCHANGED <<qpaths, depth, doc, champ_board, check_board>>
  PROVE  \A c \in Cells : champ_board'[c].who # NULL =>
           /\ doc'[WordOf(champ_board[c].who)'].dir = qpaths'[c[1]].dir
           /\ champ_board'[c].max =
                ScoreOf(qpaths'[c[1]], doc'[WordOf(champ_board[c].who)'], depth')
BY DEF ChampsOK, WordOf

\* The branch word that score_calc() is at is of the query path's directory, and
\* the cache has its score.
LEMMA ItemWord ==
  ASSUME ScoreInv, WordsOK, now \in 1 .. NPaths, item <= Len(Relevant)
  PROVE  /\ WordOf(Relevant[item].ck) \in 1 .. Len(doc)
         /\ doc[WordOf(Relevant[item].ck)].dir = qpaths[now].dir
         /\ cache[<<now, WordOf(Relevant[item].ck)>>]
              = ScoreOf(qpaths[now], doc[WordOf(Relevant[item].ck)], depth)
<1> DEFINE ck == Relevant[item].ck
<1>1. qpaths[now].dir \in 1 .. MaxPaths
  <2>1. MaxPaths \in Nat /\ NPaths \in 1 .. MaxPaths
    BY Numbers
  <2>2. qpaths[now].dir \in 1 .. NPaths
    BY DEF ScoreInv, PathsOK, PathsAre, NPaths
  <2> QED BY <2>1, <2>2
<1>2. item \in 1 .. Len(stack[qpaths[now].dir])
  <2>1. item \in 1 .. MaxPush /\ MaxPush \in Nat
    BY ItemIs, Numbers
  <2>2. Len(stack[qpaths[now].dir]) \in Nat
    BY <1>1, StackOf, LenProperties
  <2> QED BY <2>1, <2>2 DEF Relevant
<1>3. doc[WordOf(ck)].dir = qpaths[now].dir
  BY <1>1, <1>2 DEF WordsOK, Relevant
<1>4. WordOf(ck) \in 1 .. Len(doc)
  BY ItemIs DEF WordOf
<1> HIDE DEF ck
<1>5. cache[<<now, WordOf(ck)>>] = ScoreOf(qpaths[now], doc[WordOf(ck)], depth)
  BY <1>3, <1>4 DEF WordsOK
<1> QED BY <1>3, <1>4, <1>5 DEF ck

\* A champion more: its score is the cache's, which is that of its branch word.
LEMMA ConsiderChamps ==
  ASSUME ScoreInv, WordsOK, ChampsOK, Consider
  PROVE  ChampsOK'
<1> DEFINE ck   == Relevant[item].ck
           cell == <<now, Relevant[item].var_idx>>
           s    == cache[<<now, check_board[ck].id>>]
<1>1. /\ now \in 1 .. NPaths /\ item <= Len(Relevant)
      /\ Replace(cell, ck, s) \/ UNCHANGED <<champ_board, check_board>>
      /\ qpaths' = qpaths /\ depth' = depth /\ doc' = doc /\ var' = var
      /\ var_score' = var_score /\ max' = max /\ who' = who /\ now' = now
  BY DEF Consider
<1>2. ck \in Units /\ LiveUnit(ck) /\ cell \in Cells /\ WordOf(ck) \in 1 .. Len(doc)
  BY <1>1, ItemIs DEF WordOf
<1>3. doc[WordOf(ck)].dir = qpaths[now].dir /\ s = ScoreOf(qpaths[now], doc[WordOf(ck)], depth)
  BY <1>1, ItemWord DEF WordOf
<1> HIDE DEF ck, s
<1>4. \A u \in Units : WordOf(u)' = WordOf(u)
  BY IdsKept DEF WordOf
<1>5. NPaths' = NPaths
  BY <1>1 DEF NPaths
<1>6. ASSUME NEW c \in Cells, champ_board'[c].who # NULL
      PROVE  /\ doc'[check_board'[champ_board'[c].who].id].dir = qpaths'[c[1]].dir
             /\ champ_board'[c].max =
                  ScoreOf(qpaths'[c[1]], doc'[check_board'[champ_board'[c].who].id], depth')
  <2>1. CASE UNCHANGED <<champ_board, check_board>>
    BY <1>1, <1>6, <2>1 DEF ChampsOK, WordOf
  <2>2. CASE Replace(cell, ck, s)
    <3>1. champ_board' = [champ_board EXCEPT ![cell] = [max |-> s, who |-> ck]]
      BY <2>2 DEF Replace
    <3>2. champ_board'[c] = IF c = cell THEN [max |-> s, who |-> ck] ELSE champ_board[c]
      BY <1>2, <3>1 DEF ScoreInv, ScoreTypeOK
    <3>3. CASE c = cell
      <4>1. champ_board'[c].who = ck /\ champ_board'[c].max = s /\ c[1] = now
        BY <3>2, <3>3
      <4>2. check_board'[ck].id = WordOf(ck)
        BY <1>2, <1>4 DEF WordOf
      <4> QED BY <1>1, <1>3, <4>1, <4>2
    <3>4. CASE c # cell
      <4>1. champ_board'[c] = champ_board[c] /\ champ_board[c].who \in Units
        BY <1>6, <3>2, <3>4, ChampIs
      <4>2. check_board'[champ_board[c].who].id = WordOf(champ_board[c].who)
        BY <1>4, <4>1 DEF WordOf
      <4> QED BY <1>1, <1>6, <4>1, <4>2 DEF ChampsOK
    <3> QED BY <3>3, <3>4
  <2> QED BY <1>1, <2>1, <2>2
<1> QED BY <1>1, <1>5, <1>6 DEF ChampsOK, WordOf

LEMMA NoChampsIdle ==
  ScoreInv /\ now \notin 1 .. NPaths => \A c \in Cells : champ_board[c] = NoChamp
BY NoneBetween

LEMMA StepChamps ==
  ASSUME ScoreInv, ScoreInv', WordsOK, ChampsOK, [Next]_vars
  PROVE  ChampsOK'
<1>1. \A c \in Cells : champ_board'[c] = NoChamp => champ_board'[c].who = NULL
  BY DEF NoChamp
<1>2. now' \notin 1 .. NPaths' => \A c \in Cells : champ_board'[c].who = NULL
  <2>1. (ScoreInv /\ now \notin 1 .. NPaths => \A c \in Cells : champ_board[c] = NoChamp)'
    BY NoChampsIdle, PTL
  <2> QED BY <1>1, <2>1
<1>3. CASE NextNode \/ NextDirs \/ NextPipe
  <2>1. now' = 0 /\ now = 0 /\ UNCHANGED <<var, var_score>>
    BY <1>3 DEF NextNode, NextDirs, NextPipe, treeVars, calcVars
  <2>2. now' \notin 1 .. NPaths'
    BY <2>1 DEF ScoreInv, PathsOK, PathsAre, NPaths
  <2> QED BY <1>2, <2>1, <2>2 DEF ChampsOK
<1>4. CASE \E symbol \in Symbols, fan \in DocFans : Push(symbol, fan)
  BY <1>4, PushInv
<1>5. CASE Calc
  <2>1. /\ now = 0 /\ now' = 1 /\ UNCHANGED <<max, who, champ_board>>
    BY <1>5 DEF Calc, GoTo, treeVars
  <2>2. now \notin 1 .. NPaths /\ max = 0 /\ who = NULL
    BY <2>1, Numbers DEF ScoreInv, BoardInv, Between
  <2>3. \A c \in Cells : champ_board[c].who = NULL
    BY <2>2, NoneBetween DEF NoChamp
  <2> QED BY <2>1, <2>2, <2>3 DEF ChampsOK
<1>6. CASE Consider
  BY <1>6, ConsiderChamps
<1>7. CASE Exhausted
  <2>1. now' = NPaths + 1 /\ NPaths' = NPaths
    BY <1>7 DEF Exhausted, GoTo, NPaths
  <2>2. now' \notin 1 .. NPaths' /\ now' # 0
    <3>1. NPaths \in Nat
      BY Numbers
    <3>2. NPaths + 1 \notin 1 .. NPaths /\ NPaths + 1 # 0
      BY <3>1
    <3> QED BY <2>1, <3>2
  <2> QED BY <1>2, <2>2 DEF ChampsOK
<1>8. CASE MidStage
  <2>1. /\ now \in 1 .. NPaths /\ now' = now + 1 /\ var' = var
        /\ var_score' = Sums /\ max' = NewMax /\ who' = NewWho
        /\ UNCHANGED <<qpaths, depth, doc, champ_board, check_board>>
    BY <1>8 DEF MidStage, Scanned, GoTo
  <2>2. IF NewWho = NULL THEN NewMax = 0
        ELSE NewWho \in DOMAIN var /\ Sums[NewWho] = NewMax
    BY <2>1, WinnerIs
  <2>3. now' # 0
    <3>1. now + 1 # 0
      BY <2>1, Numbers
    <3> QED BY <2>1, <3>1
  <2> QED BY <2>1, <2>2, <2>3, ChampsKept DEF ChampsOK
<1>9. CASE EndStage
  <2>1. /\ now \in 1 .. NPaths /\ now' = now + 1 /\ max' = 0 /\ who' = NULL
        /\ champ_board' =
             [c \in Cells |-> IF c \in StageChamps THEN Cleared(c) ELSE champ_board[c]]
    BY <1>9 DEF EndStage, Scanned, GoTo
  <2>2. \A c \in Cells : champ_board'[c].who = NULL
    BY <2>1, StageHasAll DEF Cleared, NoChamp
  <2>3. now' # 0
    <3>1. now + 1 # 0
      BY <2>1, Numbers
    <3> QED BY <2>1, <3>1
  <2> QED BY <2>1, <2>2, <2>3 DEF ChampsOK
<1>10. CASE Clear
  <2>1. now' = 0 /\ var' = <<>> /\ NPaths' = NPaths
    BY <1>10 DEF Clear, GoTo, NPaths
  <2>2. now' \notin 1 .. NPaths' /\ DOMAIN var' = {}
    <3>1. 0 \notin 1 .. NPaths
      BY Numbers
    <3>2. DOMAIN var' = {}
      BY <2>1, EmptySeq
    <3> QED BY <2>1, <3>1, <3>2
  <2> QED BY <1>2, <2>2 DEF ChampsOK
<1>11. CASE UNCHANGED vars
  <2>1. UNCHANGED <<qpaths, depth, doc, champ_board, check_board, var, var_score, now, max, who>>
    BY <1>11 DEF vars, treeVars, calcVars
  <2>2. NPaths' = NPaths
    BY <2>1 DEF NPaths
  <2> QED BY <2>1, <2>2, ChampsKept DEF ChampsOK
<1> QED BY <1>3, <1>4, <1>5, <1>6, <1>7, <1>8, <1>9, <1>10, <1>11 DEF Next

\* If a variable wins the stage, what its champions add is a matching still.
LEMMA WithIs ==
  ASSUME ScoreInv, WordsOK, ChampsOK, now \in 1 .. NPaths,
         NEW f \in Assignments, NEW done \in 0 .. NPaths, Assigned(f, done),
         NEW i \in DOMAIN var
  PROVE  /\ With(f, done, i) \in Assignments
         /\ MatchingOf(qpaths, doc, With(f, done, i))
         /\ \A j \in now + 1 .. NPaths : With(f, done, i)[j] = 0
         /\ \A j \in 1 .. NPaths : With(f, done, i)[j] # 0 =>
              \E u \in Units :
                /\ LiveUnit(u) /\ WordOf(u) = With(f, done, i)[j]
                /\ \/ check_board[u].ck_mark = "CROSSED"
                   \/ u[2] = i /\ \E c \in Cells : champ_board[c].who = u
<1> DEFINE w == With(f, done, i)
<1>1. NPaths \in Nat /\ done \in Nat /\ now \in Nat /\ now <= NPaths
  BY Numbers
<1>2. /\ done < now /\ MatchingOf(qpaths, doc, f)
      /\ \A j \in done + 1 .. now : SameStage(j, now)
      /\ done # 0 => ~SameStage(done, now)
      /\ \A j \in 1 .. NPaths : f[j] # 0 =>
           \E u \in Units : /\ LiveUnit(u) /\ WordOf(u) = f[j]
                            /\ check_board[u].ck_mark = "CROSSED"
  BY DEF Assigned
<1>3. \A j \in 1 .. NPaths : f[j] \in 0 .. Len(doc) /\ ChampWord(j, i) \in 0 .. Len(doc)
  BY ChampWordIs DEF Assignments
<1>4. \A j \in 1 .. NPaths : w[j] = IF j <= done THEN f[j] ELSE ChampWord(j, i)
  BY DEF With
<1>5. w \in Assignments /\ DOMAIN w = 1 .. NPaths
  BY <1>3 DEF With, Assignments
<1> HIDE DEF w
<1>6. DOMAIN f = 1 .. NPaths
  BY DEF Assignments
\* The unit of a query path of the stages that are over, and of this stage.
<1>7. ASSUME NEW j \in 1 .. NPaths, j <= done, w[j] # 0
      PROVE  \E u \in Units : /\ LiveUnit(u) /\ WordOf(u) = w[j]
                              /\ check_board[u].ck_mark = "CROSSED"
  BY <1>2, <1>4, <1>7
<1>8. ASSUME NEW j \in 1 .. NPaths, ~(j <= done), w[j] # 0
      PROVE  LET u == champ_board[<<j, i>>].who
             IN  /\ u \in Units /\ LiveUnit(u) /\ WordOf(u) = w[j] /\ <<j, i>> \in Cells
                 /\ check_board[u].ck_mark = "MARKED" /\ j <= now /\ u[2] = i
                 /\ doc[w[j]].dir = qpaths[j].dir /\ doc[w[j]].symbol_id = var[i].symbol_id
  <2> DEFINE u == champ_board[<<j, i>>].who
  <2>1. w[j] = ChampWord(j, i) /\ ChampWord(j, i) # 0
    BY <1>4, <1>8
  <2>2. /\ u \in Units /\ LiveUnit(u) /\ u[2] = i /\ WordOf(u) = w[j] /\ <<j, i>> \in Cells
        /\ check_board[u].ck_mark = "MARKED" /\ j \in stage_idx .. now
        /\ doc[WordOf(u)].dir = qpaths[j].dir
    BY <2>1, ChampWordIs
  <2> HIDE DEF u
  <2>3. doc[WordOf(u)].symbol_id = var[i].symbol_id
    BY <2>2 DEF WordsOK
  <2>4. j <= now
    <3>1. stage_idx \in Nat
      BY Numbers DEF ScoreInv, ScoreTypeOK
    <3> QED BY <1>1, <2>2, <3>1
  <2> QED BY <2>2, <2>3, <2>4 DEF u
<1>9. ASSUME NEW j \in 1 .. NPaths, NEW k \in 1 .. NPaths, j <= done, ~(k <= done),
             w[j] # 0, w[k] # 0
      PROVE  w[j] # w[k] /\ qpaths[j].symbol_id # qpaths[k].symbol_id
  <2>1. w[j] # w[k]
    <3>1. PICK u \in Units : /\ LiveUnit(u) /\ WordOf(u) = w[j]
                             /\ check_board[u].ck_mark = "CROSSED"
      BY <1>7, <1>9
    <3>2. PICK v \in Units : /\ LiveUnit(v) /\ WordOf(v) = w[k]
                             /\ check_board[v].ck_mark = "MARKED"
      BY <1>8, <1>9
    <3> QED BY <3>1, <3>2 DEF WordsOK
  <2>2. ASSUME qpaths[j].symbol_id = qpaths[k].symbol_id PROVE FALSE
    <3>1. k <= now
      BY <1>8, <1>9
    <3>2. k \in done + 1 .. now /\ done \in j .. now /\ done # 0 /\ now \in 1 .. NPaths
      BY <1>1, <1>2, <1>9, <3>1
    <3>3. qpaths[j].symbol_id = qpaths[now].symbol_id
      BY <1>2, <2>2, <3>2 DEF SameStage
    <3>4. NameSorted(qpaths) /\ DOMAIN qpaths = 1 .. NPaths
      BY Numbers DEF ScoreInv, PathsOK, PathsAre
    <3>5. qpaths[done].symbol_id = qpaths[j].symbol_id
      BY <3>2, <3>3, <3>4 DEF NameSorted
    <3> QED BY <1>2, <3>2, <3>3, <3>5 DEF SameStage
  <2> QED BY <2>1, <2>2
<1>10. ASSUME NEW j \in 1 .. NPaths, w[j] # 0 PROVE doc[w[j]].dir = qpaths[j].dir
  <2>1. CASE j <= done
    BY <1>2, <1>4, <1>6, <1>10, <2>1 DEF MatchingOf
  <2>2. CASE ~(j <= done)
    BY <1>8, <1>10, <2>2
  <2> QED BY <2>1, <2>2
<1>11. ASSUME NEW j \in 1 .. NPaths, NEW k \in 1 .. NPaths, j # k, w[j] # 0, w[k] # 0
       PROVE  /\ w[j] # w[k]
              /\ qpaths[j].symbol_id = qpaths[k].symbol_id
                   => doc[w[j]].symbol_id = doc[w[k]].symbol_id
  <2>1. CASE j <= done /\ k <= done
    <3>1. w[j] = f[j] /\ w[k] = f[k]
      BY <1>4, <2>1
    <3> QED BY <1>2, <1>6, <1>11, <3>1 DEF MatchingOf
  <2>2. CASE j <= done /\ ~(k <= done)
    BY <1>9, <1>11, <2>2
  <2>3. CASE ~(j <= done) /\ k <= done
    BY <1>9, <1>11, <2>3
  <2>4. CASE ~(j <= done) /\ ~(k <= done)
    <3> DEFINE u == champ_board[<<j, i>>].who
               v == champ_board[<<k, i>>].who
    <3>1. /\ u \in Units /\ LiveUnit(u) /\ WordOf(u) = w[j] /\ <<j, i>> \in Cells
          /\ doc[w[j]].symbol_id = var[i].symbol_id
      BY <1>8, <1>11, <2>4
    <3>2. /\ v \in Units /\ LiveUnit(v) /\ WordOf(v) = w[k] /\ <<k, i>> \in Cells
          /\ doc[w[k]].symbol_id = var[i].symbol_id
      BY <1>8, <1>11, <2>4
    <3>3. u # v
      <4>1. u # NULL /\ <<j, i>> # <<k, i>>
        BY <1>11, <3>1, ScoreAssumption
      <4> QED BY <3>1, <3>2, <4>1 DEF ScoreInv, BoardInv, Distinct
    <3> HIDE DEF u, v
    <3> QED BY <3>1, <3>2, <3>3 DEF WordsOK
  <2> QED BY <2>1, <2>2, <2>3, <2>4
<1>12. MatchingOf(qpaths, doc, w)
  BY <1>5, <1>10, <1>11 DEF MatchingOf
<1>13. ASSUME NEW j \in now + 1 .. NPaths PROVE w[j] = 0
  <2>1. j \in 1 .. NPaths /\ ~(j <= done) /\ ~(j <= now)
    BY <1>1, <1>2
  <2> QED BY <1>8, <2>1
<1>14. ASSUME NEW j \in 1 .. NPaths, w[j] # 0
       PROVE  \E u \in Units :
                /\ LiveUnit(u) /\ WordOf(u) = w[j]
                /\ \/ check_board[u].ck_mark = "CROSSED"
                   \/ u[2] = i /\ \E c \in Cells : champ_board[c].who = u
  <2>1. CASE j <= done
    BY <1>7, <1>14, <2>1
  <2>2. CASE ~(j <= done)
    BY <1>8, <1>14, <2>2
  <2> QED BY <2>1, <2>2
<1> QED BY <1>5, <1>12, <1>13, <1>14 DEF w

\* Nothing is matched, and no score added, when score_calc() begins.
LEMMA CalcMatch ==
  ASSUME ScoreInv, ChampsOK, Calc
  PROVE  MatchInv'
<1>1. /\ now = 0 /\ now' = 1 /\ qpaths' = qpaths /\ depth' = depth /\ doc' = doc
      /\ var' = var /\ var_score' = var_score /\ check_board' = check_board
      /\ champ_board' = champ_board /\ score' = score /\ NPaths' = NPaths
  BY DEF Calc, GoTo, treeVars, NPaths
<1>2. NPaths \in Nat \ {0} /\ Len(doc) \in Nat /\ now \notin 1 .. NPaths /\ score = 0
  BY <1>1, Numbers DEF ScoreInv, BoardInv, Between
<1>3. /\ \A c \in Cells : champ_board[c] = NoChamp
      /\ \A i \in DOMAIN var : var_score[i] = 0 /\ i \in Cols /\ <<1, i>> \in Cells
  <2>1. \A i \in DOMAIN var : i \in Cols /\ <<1, i>> \in Cells
    <3>1. /\ DOMAIN var = 1 .. Len(var) /\ Len(var) \in 0 .. Len(doc)
          /\ Len(doc) \in 0 .. MaxPush /\ MaxPush \in Nat /\ 1 \in 1 .. MaxPaths
      BY Numbers
    <3>2. \A i \in DOMAIN var : i \in 1 .. MaxPush
      BY <3>1
    <3> QED BY <3>1, <3>2 DEF Cells, Cols
  <2> QED BY <1>1, <1>2, <2>1, NoneBetween DEF ChampsOK
<1>4. PICK z \in Assignments : z = [n \in 1 .. NPaths |-> 0]
  <2>1. [n \in 1 .. NPaths |-> 0] \in Assignments
    BY <1>2 DEF Assignments
  <2> QED BY <2>1
<1>5. TotalOf(qpaths, doc, depth, z) = 0
  BY <1>4, ScoreNat, TotalIs
<1>6. ASSUME NEW i \in DOMAIN var PROVE With(z, 0, i)' = z
  <2>1. \A j \in 1 .. NPaths : ~(j <= 0) /\ ChampWord(j, i)' = 0
    <3> SUFFICES ASSUME NEW j \in 1 .. NPaths PROVE ~(j <= 0) /\ ChampWord(j, i)' = 0
      OBVIOUS
    <3>1. ~(j <= 0)
      OBVIOUS
    <3>2. champ_board[<<j, i>>].who = NULL
      <4>1. <<j, i>> \in Cells
        <5>1. MaxPaths \in Nat /\ NPaths \in 1 .. MaxPaths /\ i \in Cols
          BY <1>3, Numbers
        <5>2. j \in 1 .. MaxPaths
          BY <5>1
        <5> QED BY <5>1, <5>2 DEF Cells
      <4> QED BY <1>3, <4>1 DEF NoChamp
    <3> QED BY <1>1, <3>1, <3>2 DEF ChampWord
  <2>2. With(z, 0, i)' = [j \in 1 .. NPaths |-> IF j <= 0 THEN z[j] ELSE ChampWord(j, i)']
    BY <1>1 DEF With
  <2> QED BY <1>4, <2>1, <2>2
<1>7. \A i \in DOMAIN var : Sums'[i] = 0
  <2> SUFFICES ASSUME NEW i \in DOMAIN var PROVE Sums'[i] = 0
    OBVIOUS
  <2>1. Sums'[i] = var_score[i] + champ_board[<<1, i>>].max
    BY <1>1, <1>3 DEF Sums
  <2>2. var_score[i] = 0 /\ champ_board[<<1, i>>].max = 0
    BY <1>3 DEF NoChamp
  <2> QED BY <2>1, <2>2
<1>8. MatchingOf(qpaths, doc, z)
  BY <1>4 DEF MatchingOf, Assignments
<1>9. Assigned(z, 0)'
  <2>1. 0 < 1 /\ \A j \in 0 + 1 .. NPaths : z[j] = 0
    BY <1>4
  <2>2. \A j \in 0 + 1 .. 1 : j = 1
    OBVIOUS
  <2>3. 0 = score + 0
    BY <1>2
  <2>4. \A i \in DOMAIN var' :
          TotalOf(qpaths', doc', depth', With(z, 0, i)') = score' + Sums'[i]
    BY <1>1, <1>2, <1>5, <1>6, <1>7, <2>3
  <2> QED BY <1>1, <1>2, <1>4, <1>5, <1>8, <2>1, <2>2, <2>4 DEF Assigned, SameStage
<1>10. z \in Assignments' /\ 0 \in 0 .. NPaths'
  BY <1>1, <1>2, <1>4 DEF Assignments
<1> QED BY <1>9, <1>10 DEF MatchInv

\* A champion more: its variable's sum grows by what the new branch word is
\* better than the old one.
LEMMA ConsiderMatch ==
  ASSUME ScoreInv, WordsOK, ChampsOK, MatchInv, Consider
  PROVE  MatchInv'
<1> DEFINE ck == Relevant[item].ck
           v  == Relevant[item].var_idx
           s  == cache[<<now, check_board[ck].id>>]
<1>1. /\ now \in 1 .. NPaths /\ item <= Len(Relevant)
      /\ Replace(<<now, v>>, ck, s) \/ UNCHANGED <<champ_board, check_board>>
      /\ qpaths' = qpaths /\ depth' = depth /\ doc' = doc /\ var' = var
      /\ var_score' = var_score /\ score' = score /\ now' = now /\ NPaths' = NPaths
  BY DEF Consider, NPaths
<1>2. /\ ck \in Units /\ LiveUnit(ck) /\ <<now, v>> \in Cells /\ ck[2] = v
      /\ WordOf(ck) \in 1 .. Len(doc)
  BY <1>1, ItemIs DEF WordOf
<1>3. s = ScoreOf(qpaths[now], doc[WordOf(ck)], depth) /\ s \in Nat
  BY <1>1, ItemWord, ItemIs DEF WordOf
<1> HIDE DEF ck, v, s
<1>4. \A u \in Units : WordOf(u)' = WordOf(u) /\ (LiveUnit(u)' <=> LiveUnit(u))
  <2>1. \A u \in Units : WordOf(u)' = WordOf(u)
    BY IdsKept DEF WordOf
  <2> QED BY <1>1, <2>1, SameUnits
<1>5. PICK f \in Assignments, done \in 0 .. NPaths : Assigned(f, done)
  BY <1>1 DEF MatchInv
<1>6. /\ done < now /\ \A j \in done + 1 .. NPaths : f[j] = 0
      /\ \A j \in done + 1 .. now : SameStage(j, now)
      /\ done # 0 => ~SameStage(done, now)
      /\ MatchingOf(qpaths, doc, f) /\ TotalOf(qpaths, doc, depth, f) = score
      /\ \A i \in 1 .. NPaths : f[i] # 0 =>
           \E u \in Units : /\ LiveUnit(u) /\ WordOf(u) = f[i]
                            /\ check_board[u].ck_mark = "CROSSED"
      /\ \A i \in DOMAIN var :
           TotalOf(qpaths, doc, depth, With(f, done, i)) = score + Sums[i]
  BY <1>5 DEF Assigned
<1>7. \A i \in 1 .. NPaths : f[i] # 0 =>
        \E u \in Units : /\ LiveUnit(u)' /\ WordOf(u)' = f[i]
                         /\ check_board'[u].ck_mark = "CROSSED"
  <2>1. [Next]_vars
    BY DEF Next
  <2>2. \A u \in Units : check_board[u].ck_mark = "CROSSED"
                         => check_board'[u].ck_mark = "CROSSED"
    BY <1>1, <2>1, CrossedKept
  <2> QED BY <1>4, <1>6, <2>2
<1>8. ASSUME NEW i \in DOMAIN var
      PROVE  TotalOf(qpaths, doc, depth, With(f, done, i)') = score + Sums'[i]
  <2>0. /\ MaxPaths \in Nat /\ MaxPush \in Nat /\ NPaths \in 1 .. MaxPaths
        /\ i \in Cols /\ now \in Nat
    <3>1. /\ DOMAIN var = 1 .. Len(var) /\ Len(var) \in 0 .. Len(doc)
          /\ Len(doc) \in 0 .. MaxPush /\ MaxPush \in Nat
          /\ MaxPaths \in Nat /\ NPaths \in 1 .. MaxPaths
      BY Numbers
    <3>2. i \in 1 .. MaxPush
      BY <3>1
    <3> QED BY <1>1, <3>1, <3>2 DEF Cols
  <2>1. \A j \in 1 .. NPaths : <<j, i>> \in Cells
    <3>1. \A j \in 1 .. NPaths : j \in 1 .. MaxPaths
      BY <2>0
    <3> QED BY <2>0, <3>1 DEF Cells
  <2>2. /\ Sums[i] = var_score[i] + champ_board[<<now, i>>].max
        /\ Sums'[i] = var_score[i] + champ_board'[<<now, i>>].max
    BY <1>1, <2>0 DEF Sums
  <2>3. /\ With(f, done, i) = [j \in 1 .. NPaths |-> IF j <= done THEN f[j] ELSE ChampWord(j, i)]
        /\ With(f, done, i)' =
             [j \in 1 .. NPaths |-> IF j <= done THEN f[j] ELSE ChampWord(j, i)']
    BY <1>1 DEF With
  <2>4. CASE \A j \in 1 .. NPaths : champ_board'[<<j, i>>] = champ_board[<<j, i>>]
    <3>1. \A j \in 1 .. NPaths : ChampWord(j, i)' = ChampWord(j, i)
      <4> SUFFICES ASSUME NEW j \in 1 .. NPaths
                   PROVE  ChampWord(j, i)' = ChampWord(j, i)
        OBVIOUS
      <4>1. champ_board[<<j, i>>].who # NULL => champ_board[<<j, i>>].who \in Units
        BY <2>1, ChampIs
      <4>2. champ_board[<<j, i>>].who # NULL =>
              check_board'[champ_board[<<j, i>>].who].id
                = check_board[champ_board[<<j, i>>].who].id
        BY <4>1, IdsKept
      <4> QED BY <2>4, <4>2 DEF ChampWord, WordOf
    <3>2. With(f, done, i)' = With(f, done, i)
      BY <2>3, <3>1
    <3> QED BY <1>1, <1>6, <2>2, <2>4, <3>2
  <2>5. CASE Replace(<<now, v>>, ck, s) /\ i = v
    <3>1. \A c \in Cells : champ_board'[c] = IF c = <<now, v>> THEN [max |-> s, who |-> ck]
                                             ELSE champ_board[c]
      BY <1>2, <2>5 DEF Replace, ScoreInv, ScoreTypeOK
    <3>2. champ_board'[<<now, i>>].max = s /\ champ_board'[<<now, i>>].who = ck
      BY <1>2, <2>5, <3>1
    <3>3. \A j \in 1 .. NPaths : j # now => ChampWord(j, i)' = ChampWord(j, i)
      <4> SUFFICES ASSUME NEW j \in 1 .. NPaths, j # now
                   PROVE  ChampWord(j, i)' = ChampWord(j, i)
        OBVIOUS
      <4>1. champ_board[<<j, i>>].who # NULL => champ_board[<<j, i>>].who \in Units
        BY <2>1, ChampIs
      <4>2. champ_board[<<j, i>>].who # NULL =>
              check_board'[champ_board[<<j, i>>].who].id
                = check_board[champ_board[<<j, i>>].who].id
        BY <4>1, IdsKept
      <4>3. champ_board'[<<j, i>>] = champ_board[<<j, i>>]
        <5>1. <<j, i>> # <<now, v>>
          OBVIOUS
        <5> QED BY <2>1, <3>1, <5>1
      <4> QED BY <4>2, <4>3 DEF ChampWord, WordOf
    <3>4. ASSUME NEW j \in 1 .. NPaths, j = now PROVE ChampWord(j, i)' = WordOf(ck)
      <4>1. ck # NULL
        BY <1>2, ScoreAssumption
      <4>2. check_board'[ck].id = check_board[ck].id
        BY <1>2, IdsKept
      <4>3. champ_board'[<<j, i>>].who = ck
        BY <3>2, <3>4
      <4> QED BY <4>1, <4>2, <4>3 DEF ChampWord, WordOf
    <3> DEFINE g == With(f, done, i)
               h == [j \in 1 .. NPaths |-> IF j = now THEN WordOf(ck) ELSE g[j]]
    <3>5. With(f, done, i)' = h
      <4>1. ~(now <= done)
        <5>1. done \in Nat
          BY <2>0
        <5> QED BY <1>6, <2>0, <5>1
      <4>2. \A j \in 1 .. NPaths : g[j] = IF j <= done THEN f[j] ELSE ChampWord(j, i)
        BY <2>3
      <4> HIDE DEF g
      <4>3. \A j \in 1 .. NPaths : (IF j <= done THEN f[j] ELSE ChampWord(j, i)')
                                   = (IF j = now THEN WordOf(ck) ELSE g[j])
        <5> SUFFICES ASSUME NEW j \in 1 .. NPaths
                     PROVE  (IF j <= done THEN f[j] ELSE ChampWord(j, i)')
                              = (IF j = now THEN WordOf(ck) ELSE g[j])
          OBVIOUS
        <5>1. CASE j = now
          BY <3>4, <4>1, <5>1
        <5>2. CASE j # now
          <6>1. ChampWord(j, i)' = ChampWord(j, i)
            BY <3>3, <5>2
          <6> QED BY <4>2, <5>2, <6>1
        <5> QED BY <5>1, <5>2
      <4> QED BY <2>3, <4>3
    <3>6. g \in Assignments
      BY <1>1, <1>5, WithIs
    <3>7. h \in Assignments
      <4>1. WordOf(ck) \in 0 .. Len(doc)
        BY <1>2
      <4> HIDE DEF g
      <4> QED BY <3>6, <4>1 DEF Assignments
    <3>8. ValueOf(g, now) = champ_board[<<now, i>>].max
      <4>1. g[now] = ChampWord(now, i)
        <5>1. ~(now <= done)
          <6>1. done \in Nat
            BY <2>0
          <6> QED BY <1>6, <2>0, <6>1
        <5> QED BY <1>1, <2>3, <5>1
      <4> HIDE DEF g
      <4>2. CASE ChampWord(now, i) = 0
        BY <1>1, <4>1, <4>2, ChampWordIs DEF ValueOf, NoChamp
      <4>3. CASE ChampWord(now, i) # 0
        <5>1. champ_board[<<now, i>>].max = ScoreOf(qpaths[now], doc[ChampWord(now, i)], depth)
          BY <1>1, <4>3, ChampWordIs
        <5> QED BY <4>1, <4>3, <5>1 DEF ValueOf
      <4> QED BY <4>2, <4>3
    <3>9. ValueOf(h, now) = s
      <4>1. h[now] = WordOf(ck) /\ WordOf(ck) # 0
        BY <1>1, <1>2
      <4> HIDE DEF h
      <4> QED BY <1>3, <4>1 DEF ValueOf
    <3>10. MatchingScore(h) + champ_board[<<now, i>>].max = MatchingScore(g) + s
      <4>1. \A n \in 1 .. NPaths : n # now => h[n] = g[n]
        OBVIOUS
      <4> HIDE DEF g, h
      <4>2. MatchingScore(h) + ValueOf(g, now) = MatchingScore(g) + ValueOf(h, now)
        BY <1>1, <3>6, <3>7, <4>1, ScoreChange
      <4> QED BY <3>8, <3>9, <4>2
    <3> HIDE DEF g, h
    <3>11. MatchingScore(g) = score + Sums[i]
      BY <1>6, TotalIs DEF g
    <3>12. MatchingScore(h) = score + (var_score[i] + s)
      <4>1. /\ MatchingScore(h) \in Nat /\ MatchingScore(g) \in Nat
        BY <3>6, <3>7, ScoreNat
      <4>2. score \in Nat /\ var_score[i] \in Nat /\ champ_board[<<now, i>>].max \in Nat
        BY <1>1, <2>0, <2>1 DEF ScoreInv, ScoreTypeOK
      <4> DEFINE M == MatchingScore(h)
                 G == MatchingScore(g)
                 x == champ_board[<<now, i>>].max
                 y == var_score[i]
      <4>3. /\ M \in Nat /\ G \in Nat /\ x \in Nat /\ y \in Nat /\ s \in Nat /\ score \in Nat
            /\ M + x = G + s /\ G = score + (y + x)
        BY <1>3, <2>2, <3>10, <3>11, <4>1, <4>2
      <4> HIDE DEF M, G, x, y
      <4>4. M = score + (y + s)
        BY <4>3
      <4> QED BY <4>4 DEF M, y
    <3> QED BY <2>2, <3>2, <3>5, <3>12, TotalIs
  <2>6. CASE Replace(<<now, v>>, ck, s) /\ i # v
    <3>1. \A j \in 1 .. NPaths : champ_board'[<<j, i>>] = champ_board[<<j, i>>]
      <4>1. \A c \in Cells : c # <<now, v>> => champ_board'[c] = champ_board[c]
        BY <1>2, <2>6 DEF Replace, ScoreInv, ScoreTypeOK
      <4>2. \A j \in 1 .. NPaths : <<j, i>> # <<now, v>>
        BY <2>6
      <4> QED BY <2>1, <4>1, <4>2
    <3> QED BY <2>4, <3>1
  <2> QED BY <1>1, <2>4, <2>5, <2>6
<1>9. Assigned(f, done)'
  <2>1. \A i \in DOMAIN var' :
          TotalOf(qpaths', doc', depth', With(f, done, i)') = score' + Sums'[i]
    BY <1>1, <1>8
  <2> QED BY <1>1, <1>6, <1>7, <2>1 DEF Assigned, SameStage
<1> QED BY <1>1, <1>5, <1>9 DEF MatchInv, Assignments

\* The next query path of the stage: the sums move to var_score.
LEMMA MidStageMatch ==
  ASSUME ScoreInv, WordsOK, ChampsOK, MatchInv, MidStage
  PROVE  MatchInv' /\ now' # NPaths' + 1
<1>1. /\ now \in 1 .. NPaths /\ ~NextStage /\ now' = now + 1 /\ var_score' = Sums
      /\ qpaths' = qpaths /\ depth' = depth /\ doc' = doc /\ var' = var
      /\ check_board' = check_board /\ champ_board' = champ_board
      /\ score' = score /\ NPaths' = NPaths
  BY DEF MidStage, Scanned, GoTo, NPaths
<1>2. now # NPaths /\ qpaths[now].symbol_id = qpaths[now + 1].symbol_id
  BY <1>1 DEF NextStage
<1>3. NPaths \in Nat /\ now \in Nat /\ now + 1 \in 1 .. NPaths /\ now + 1 # NPaths + 1
  <2>1. NPaths \in Nat
    BY Numbers
  <2> QED BY <1>1, <1>2, <2>1
<1>4. PICK f \in Assignments, done \in 0 .. NPaths : Assigned(f, done)
  BY <1>1 DEF MatchInv
<1>5. /\ done < now /\ \A j \in done + 1 .. NPaths : f[j] = 0
      /\ \A j \in done + 1 .. now : SameStage(j, now)
      /\ done # 0 => ~SameStage(done, now)
      /\ MatchingOf(qpaths, doc, f) /\ TotalOf(qpaths, doc, depth, f) = score
      /\ \A i \in 1 .. NPaths : f[i] # 0 =>
           \E u \in Units : /\ LiveUnit(u) /\ WordOf(u) = f[i]
                            /\ check_board[u].ck_mark = "CROSSED"
      /\ \A i \in DOMAIN var :
           TotalOf(qpaths, doc, depth, With(f, done, i)) = score + Sums[i]
  BY <1>4 DEF Assigned
<1>6. /\ done < now + 1 /\ \A j \in done + 1 .. now + 1 : SameStage(j, now + 1)
      /\ done # 0 => ~SameStage(done, now + 1)
  <2>1. \A j \in done + 1 .. now + 1 : j \in done + 1 .. now \/ j = now + 1
    BY <1>3
  <2> QED BY <1>2, <1>3, <1>5, <2>1 DEF SameStage
<1>7. \A i \in DOMAIN var : With(f, done, i)' = With(f, done, i)
  <2>1. \A i, j : ChampWord(j, i)' = ChampWord(j, i)
    BY <1>1 DEF ChampWord, WordOf
  <2> QED BY <1>1, <2>1 DEF With
<1>8. ASSUME NEW i \in DOMAIN var PROVE Sums'[i] = Sums[i]
  <2>1. i \in Cols /\ <<now + 1, i>> \in Cells
    <3>1. /\ DOMAIN var = 1 .. Len(var) /\ Len(var) \in 0 .. Len(doc)
          /\ Len(doc) \in 0 .. MaxPush /\ MaxPush \in Nat
          /\ MaxPaths \in Nat /\ NPaths \in 1 .. MaxPaths
      BY Numbers
    <3>2. i \in 1 .. MaxPush /\ now + 1 \in 1 .. MaxPaths
      BY <1>3, <3>1
    <3> QED BY <3>2 DEF Cells, Cols
  <2>2. champ_board[<<now + 1, i>>].max = 0
    <3>1. now + 1 \notin stage_idx .. now
      <4>1. stage_idx \in Nat
        BY Numbers DEF ScoreInv, ScoreTypeOK
      <4> QED BY <1>3, <4>1
    <3>2. champ_board[<<now + 1, i>>] = NoChamp
      BY <2>1, <3>1 DEF ScoreInv, BoardInv, Champions
    <3> QED BY <3>2 DEF NoChamp
  <2>3. Sums'[i] = Sums[i] + champ_board[<<now + 1, i>>].max
    BY <1>1, <2>1 DEF Sums
  <2>4. Sums[i] \in Nat
    BY <1>1, <2>1, SumsAre
  <2> QED BY <2>2, <2>3, <2>4
<1>9. \A i \in DOMAIN var' :
        TotalOf(qpaths', doc', depth', With(f, done, i)') = score' + Sums'[i]
  BY <1>1, <1>5, <1>7, <1>8
<1>10. Assigned(f, done)'
  <2>1. \A i \in 1 .. NPaths : f[i] # 0 =>
          \E u \in Units : /\ LiveUnit(u)' /\ WordOf(u)' = f[i]
                           /\ check_board'[u].ck_mark = "CROSSED"
    BY <1>1, <1>5, SameUnits DEF WordOf
  <2> QED BY <1>1, <1>5, <1>6, <1>9, <2>1 DEF Assigned, SameStage
<1> QED BY <1>1, <1>3, <1>4, <1>10 DEF MatchInv, Assignments

\* The winner's champions are matched for good, and its sum is what they add.
LEMMA StageWon ==
  ASSUME ScoreInv, WordsOK, ChampsOK, MatchInv, EndStage
  PROVE  \E g \in Assignments :
           /\ MatchingOf(qpaths, doc, g) /\ TotalOf(qpaths, doc, depth, g) = score + NewMax
           /\ \A j \in now + 1 .. NPaths : g[j] = 0
           /\ \A j \in 1 .. NPaths : g[j] # 0 =>
                \E u \in Units : /\ LiveUnit(u) /\ WordOf(u) = g[j]
                                 /\ check_board'[u].ck_mark = "CROSSED"
<1>1. /\ now \in 1 .. NPaths
      /\ check_board' =
           [u \in Units |-> IF \E c \in StageChamps : champ_board[c].who = u
                            THEN [check_board[u] EXCEPT !.ck_mark = NewMark(u)]
                            ELSE check_board[u]]
  BY DEF EndStage, Scanned
<1>2. PICK f \in Assignments, done \in 0 .. NPaths : Assigned(f, done)
  BY <1>1 DEF MatchInv
<1>3. \A u \in Units : check_board[u].ck_mark = "CROSSED"
                       => check_board'[u].ck_mark = "CROSSED"
  <2>1. [Next]_vars
    BY DEF Next
  <2> QED BY <1>1, <2>1, CrossedKept
<1>4. IF NewWho = NULL THEN NewMax = 0
      ELSE NewWho \in DOMAIN var /\ Sums[NewWho] = NewMax
  BY <1>1, WinnerIs
<1>5. CASE NewWho = NULL
  <2>1. /\ MatchingOf(qpaths, doc, f) /\ TotalOf(qpaths, doc, depth, f) = score
        /\ done < now /\ \A j \in done + 1 .. NPaths : f[j] = 0
        /\ \A j \in 1 .. NPaths : f[j] # 0 =>
             \E u \in Units : /\ LiveUnit(u) /\ WordOf(u) = f[j]
                              /\ check_board[u].ck_mark = "CROSSED"
    BY <1>2 DEF Assigned
  <2>2. \A j \in now + 1 .. NPaths : j \in done + 1 .. NPaths
    <3>1. done \in Nat /\ now \in Nat /\ NPaths \in Nat
      BY Numbers
    <3> QED BY <2>1, <3>1
  <2>3. score + NewMax = score
    <3>1. score \in Nat /\ NewMax = 0
      BY <1>4, <1>5 DEF ScoreInv, ScoreTypeOK
    <3> QED BY <3>1
  <2>4. /\ \A j \in now + 1 .. NPaths : f[j] = 0
        /\ \A j \in 1 .. NPaths : f[j] # 0 =>
             \E u \in Units : /\ LiveUnit(u) /\ WordOf(u) = f[j]
                              /\ check_board'[u].ck_mark = "CROSSED"
    BY <1>3, <2>1, <2>2
  <2> QED BY <2>1, <2>3, <2>4
<1>6. CASE NewWho # NULL
  <2>1. PICK i \in DOMAIN var : i = NewWho /\ Sums[i] = NewMax
    BY <1>4, <1>6
  <2>2. TotalOf(qpaths, doc, depth, With(f, done, i)) = score + NewMax
    BY <1>2, <2>1 DEF Assigned
  <2>3. /\ With(f, done, i) \in Assignments
        /\ MatchingOf(qpaths, doc, With(f, done, i))
        /\ \A j \in now + 1 .. NPaths : With(f, done, i)[j] = 0
        /\ \A j \in 1 .. NPaths : With(f, done, i)[j] # 0 =>
             \E u \in Units :
               /\ LiveUnit(u) /\ WordOf(u) = With(f, done, i)[j]
               /\ \/ check_board[u].ck_mark = "CROSSED"
                  \/ u[2] = i /\ \E c \in Cells : champ_board[c].who = u
    BY <1>1, <1>2, WithIs
  <2>4. ASSUME NEW u \in Units, u[2] = i, NEW c \in Cells, champ_board[c].who = u
        PROVE  check_board'[u].ck_mark = "CROSSED"
    <3>1. c \in StageChamps
      BY <1>1, <2>4, StageHasAll, ScoreAssumption
    <3>2. check_board[u] \in [ck_mark : Marks, id : 0 .. MaxPush]
      BY DEF ScoreInv, ScoreTypeOK
    <3>3. check_board'[u] = [check_board[u] EXCEPT !.ck_mark = NewMark(u)]
      BY <1>1, <2>4, <3>1
    <3>4. NewMark(u) = "CROSSED"
      BY <2>1, <2>4 DEF NewMark
    <3> QED BY <3>2, <3>3, <3>4
  <2>5. \A j \in 1 .. NPaths : With(f, done, i)[j] # 0 =>
          \E u \in Units : /\ LiveUnit(u) /\ WordOf(u) = With(f, done, i)[j]
                           /\ check_board'[u].ck_mark = "CROSSED"
    BY <1>3, <2>3, <2>4
  <2> QED BY <2>2, <2>3, <2>5
<1> QED BY <1>5, <1>6

\* A stage ends; the next one begins without champions, or the document's score
\* is that of a matching.
LEMMA EndStageMatch ==
  ASSUME ScoreInv, WordsOK, ChampsOK, MatchInv, EndStage
  PROVE  MatchInv' /\ ScoreIsMatching'
<1>1. /\ now \in 1 .. NPaths /\ NextStage /\ now' = now + 1
      /\ champ_board' =
           [c \in Cells |-> IF c \in StageChamps THEN Cleared(c) ELSE champ_board[c]]
      /\ var_score' = [i \in Cols |-> IF i \in DOMAIN var THEN 0 ELSE var_score[i]]
      /\ score' = score + NewMax
      /\ qpaths' = qpaths /\ depth' = depth /\ doc' = doc /\ var' = var /\ NPaths' = NPaths
  BY DEF EndStage, Scanned, GoTo, NPaths
<1>2. PICK g \in Assignments :
        /\ MatchingOf(qpaths, doc, g) /\ TotalOf(qpaths, doc, depth, g) = score + NewMax
        /\ \A j \in now + 1 .. NPaths : g[j] = 0
        /\ \A j \in 1 .. NPaths : g[j] # 0 =>
             \E u \in Units : /\ LiveUnit(u) /\ WordOf(u) = g[j]
                              /\ check_board'[u].ck_mark = "CROSSED"
  BY StageWon
<1>3. ScoreIsMatching'
  <2>1. (\A f : /\ Matching(f) <=> MatchingOf(qpaths, doc, f)
                /\ MatchingScore(f) = TotalOf(qpaths, doc, depth, f))'
    BY TotalIs, PTL
  <2>2. Matching(g)' /\ MatchingScore(g)' = score'
    BY <1>1, <1>2, <2>1
  <2>3. g \in [1 .. NPaths' -> 0 .. Len(doc')]
    BY <1>1 DEF Assignments
  <2> QED BY <2>2, <2>3 DEF ScoreIsMatching
<1>4. NPaths \in Nat /\ now \in Nat /\ now \in 0 .. NPaths
  BY <1>1, Numbers
<1>5. PICK done \in 0 .. NPaths : done = now
  BY <1>4
<1>6. \A c \in Cells : champ_board'[c] = NoChamp
  <2> SUFFICES ASSUME NEW c \in Cells PROVE champ_board'[c] = NoChamp
    OBVIOUS
  <2>1. CASE c \in StageChamps
    BY <1>1, <2>1 DEF Cleared
  <2>2. CASE c \notin StageChamps
    BY <1>1, <2>2, StageHasAll, ChampIs
  <2> QED BY <2>1, <2>2
<1>7. ASSUME now + 1 \in 1 .. NPaths PROVE Assigned(g, done)'
  <2>1. /\ done < now + 1 /\ \A j \in done + 1 .. NPaths : g[j] = 0
        /\ \A j \in done + 1 .. now + 1 : j = now + 1
    BY <1>2, <1>4, <1>5
  <2>2. ~SameStage(done, now + 1)
    <3>1. now # NPaths
      BY <1>4, <1>7
    <3> QED BY <1>1, <1>5, <3>1 DEF NextStage, SameStage
  <2>3. ASSUME NEW i \in DOMAIN var
        PROVE  Sums'[i] = 0 /\ With(g, done, i)' = g
    <3>1. /\ DOMAIN var = 1 .. Len(var) /\ Len(var) \in 0 .. Len(doc)
          /\ Len(doc) \in 0 .. MaxPush /\ MaxPush \in Nat
          /\ MaxPaths \in Nat /\ NPaths \in 1 .. MaxPaths
      BY Numbers
    <3>2. i \in Cols /\ \A j \in 1 .. NPaths : <<j, i>> \in Cells
      <4>1. i \in 1 .. MaxPush /\ \A j \in 1 .. NPaths : j \in 1 .. MaxPaths
        BY <3>1
      <4> QED BY <4>1 DEF Cells, Cols
    <3>3. Sums'[i] = 0
      <4>1. var_score'[i] = 0 /\ champ_board'[<<now + 1, i>>].max = 0
        BY <1>1, <1>6, <1>7, <3>2 DEF NoChamp
      <4>2. Sums'[i] = var_score'[i] + champ_board'[<<now + 1, i>>].max
        BY <1>1, <3>2 DEF Sums
      <4>3. 0 + 0 = 0
        OBVIOUS
      <4> QED BY <4>1, <4>2, <4>3
    <3>4. \A j \in 1 .. NPaths : ChampWord(j, i)' = 0
      BY <1>6, <3>2 DEF ChampWord, NoChamp
    <3>5. With(g, done, i)' =
            [j \in 1 .. NPaths |-> IF j <= done THEN g[j] ELSE ChampWord(j, i)']
      BY <1>1 DEF With
    <3>6. \A j \in 1 .. NPaths : (IF j <= done THEN g[j] ELSE ChampWord(j, i)') = g[j]
      <4>1. \A j \in 1 .. NPaths : ~(j <= done) => j \in done + 1 .. NPaths
        BY <1>4, <1>5
      <4> QED BY <2>1, <3>4, <4>1
    <3>7. g = [j \in 1 .. NPaths |-> g[j]]
      BY DEF Assignments
    <3> QED BY <3>3, <3>5, <3>6, <3>7
  <2>4. \A i \in DOMAIN var' :
          TotalOf(qpaths', doc', depth', With(g, done, i)') = score' + Sums'[i]
    <3>1. score + NewMax = (score + NewMax) + 0
      <4>1. score \in Nat /\ NewMax \in Nat
        BY <1>1, SumsAre DEF ScoreInv, ScoreTypeOK
      <4> QED BY <4>1
    <3> QED BY <1>1, <1>2, <2>3, <3>1
  <2>5. \A j \in 1 .. NPaths : g[j] # 0 =>
          \E u \in Units : /\ LiveUnit(u)' /\ WordOf(u)' = g[j]
                           /\ check_board'[u].ck_mark = "CROSSED"
    <3>1. \A u \in Units : WordOf(u)' = WordOf(u)
      BY IdsKept DEF WordOf
    <3> QED BY <1>1, <1>2, <3>1, SameUnits
  <2> QED BY <1>1, <1>2, <2>1, <2>2, <2>4, <2>5 DEF Assigned, SameStage
<1> QED BY <1>1, <1>3, <1>5, <1>7 DEF MatchInv, Assignments

LEMMA SomePath == ScoreInv => NPaths \in Nat \ {0}
<1> SUFFICES ASSUME ScoreInv PROVE NPaths \in Nat \ {0}
  OBVIOUS
<1>1. MaxPaths \in Nat /\ NPaths \in 1 .. MaxPaths
  BY Numbers
<1> QED BY <1>1

\* Every step keeps the matching that the score stands for.
LEMMA StepMatch ==
  ASSUME ScoreInv, ScoreInv', WordsOK, ChampsOK, MatchInv, ScoreIsMatching, [Next]_vars
  PROVE  MatchInv' /\ ScoreIsMatching'
<1>1. NPaths \in Nat \ {0} /\ NPaths' \in Nat \ {0}
  <2>1. (ScoreInv => NPaths \in Nat \ {0})'
    BY SomePath, PTL
  <2> QED BY <2>1, SomePath
<1>2. \A n \in Nat \ {0} : 0 \notin 1 .. n /\ 0 # n + 1 /\ 1 # n + 1 /\ n + 1 \notin 1 .. n
  OBVIOUS
<1>3. CASE now' = 0
  BY <1>1, <1>2, <1>3 DEF MatchInv, ScoreIsMatching
<1>4. CASE \/ NextNode \/ NextDirs \/ NextPipe
           \/ \E symbol \in Symbols, fan \in DocFans : Push(symbol, fan)
  <2>1. now' = 0
    BY <1>4 DEF NextNode, NextDirs, NextPipe, Push, calcVars
  <2> QED BY <1>3, <2>1
<1>5. CASE Calc
  <2>1. now' = 1 /\ NPaths' = NPaths
    BY <1>5 DEF Calc, GoTo, NPaths
  <2> QED BY <1>1, <1>2, <1>5, <2>1, CalcMatch DEF ScoreIsMatching
<1>6. CASE Consider
  <2>1. now' = now /\ NPaths' = NPaths /\ now \in 1 .. NPaths
    BY <1>6 DEF Consider, NPaths
  <2>2. now # NPaths + 1
    BY <1>1, <1>2, <2>1
  <2> QED BY <1>6, <2>1, <2>2, ConsiderMatch DEF ScoreIsMatching
<1>7. CASE Exhausted
  <2>1. /\ now' = NPaths + 1 /\ NPaths' = NPaths /\ score' = 0
        /\ qpaths' = qpaths /\ doc' = doc /\ depth' = depth
    BY <1>7 DEF Exhausted, GoTo, NPaths
  <2>2. PICK z \in Assignments : z = [n \in 1 .. NPaths |-> 0]
    <3>1. Len(doc) \in Nat
      BY Numbers
    <3>2. [n \in 1 .. NPaths |-> 0] \in Assignments
      BY <3>1 DEF Assignments
    <3> QED BY <3>2
  <2>3. MatchingOf(qpaths, doc, z) /\ TotalOf(qpaths, doc, depth, z) = 0
    BY <2>2, ScoreNat, TotalIs DEF MatchingOf
  <2>4. (\A f : /\ Matching(f) <=> MatchingOf(qpaths, doc, f)
                /\ MatchingScore(f) = TotalOf(qpaths, doc, depth, f))'
    BY TotalIs, PTL
  <2>5. ScoreIsMatching'
    BY <2>1, <2>2, <2>3, <2>4 DEF ScoreIsMatching, Assignments
  <2>6. MatchInv'
    BY <1>1, <1>2, <2>1 DEF MatchInv
  <2> QED BY <2>5, <2>6
<1>8. CASE MidStage
  BY <1>8, MidStageMatch DEF ScoreIsMatching
<1>9. CASE EndStage
  BY <1>9, EndStageMatch
<1>10. CASE Clear
  <2>1. now' = 0
    BY <1>10 DEF Clear, GoTo
  <2> QED BY <1>3, <2>1
<1>11. CASE UNCHANGED vars
  <2>1. /\ now' = now /\ NPaths' = NPaths /\ score' = score /\ Sums' = Sums
        /\ qpaths' = qpaths /\ doc' = doc /\ depth' = depth /\ var' = var
        /\ champ_board' = champ_board /\ check_board' = check_board
    BY <1>11 DEF vars, treeVars, calcVars, NPaths, Sums
  <2>2. (\A f : /\ Matching(f) <=> MatchingOf(qpaths, doc, f)
                /\ MatchingScore(f) = TotalOf(qpaths, doc, depth, f))'
    BY TotalIs, PTL
  <2>3. ScoreIsMatching'
    <3>1. \A f : /\ Matching(f)' <=> Matching(f)
                /\ MatchingScore(f)' = MatchingScore(f)
      BY <2>1, <2>2, TotalIs
    <3> QED BY <2>1, <3>1 DEF ScoreIsMatching
  <2>4. \A f, done : Assigned(f, done)' <=> Assigned(f, done)
    <3>1. \A f, done, i : With(f, done, i)' = With(f, done, i)
      BY <2>1 DEF With, ChampWord, WordOf
    <3>2. \A u : (LiveUnit(u)' <=> LiveUnit(u)) /\ WordOf(u)' = WordOf(u)
      BY <2>1, SameUnits DEF WordOf
    <3> QED BY <2>1, <3>1, <3>2 DEF Assigned, SameStage
  <2>5. MatchInv'
    BY <2>1, <2>4 DEF MatchInv, Assignments
  <2> QED BY <2>3, <2>5
<1> QED BY <1>4, <1>5, <1>6, <1>7, <1>8, <1>9, <1>10, <1>11 DEF Next

\* The score of a document, as it is when score_calc() ends, is the score of a
\* matching of its branch words to the query paths: no branch word counts twice,
\* none counts for a query path of another directory, and the query paths of one
\* variable count for branch words of one variable.
THEOREM ScoresAreMatchings == Spec => []ScoreIsMatching
<1> DEFINE IInv == ScoreInv /\ WordsOK /\ ChampsOK /\ MatchInv /\ ScoreIsMatching
<1>1. Init => IInv
  <2> SUFFICES ASSUME Init PROVE IInv
    OBVIOUS
  <2>1. ScoreInv /\ doc = <<>> /\ now = 0 /\ NPaths \in Nat \ {0}
    BY InitInv, SomePath DEF Init
  <2>2. WordsOK
    BY <2>1, NoWords
  <2>3. ChampsOK
    <3>1. \A c \in Cells : champ_board[c].who = NULL
      BY DEF Init, NoChamp
    <3>2. now \notin 1 .. NPaths /\ DOMAIN var = {}
      BY <2>1, EmptySeq DEF Init
    <3> QED BY <3>1, <3>2 DEF ChampsOK
  <2>4. now \notin 1 .. NPaths /\ now # NPaths + 1
    BY <2>1
  <2> QED BY <2>1, <2>2, <2>3, <2>4 DEF MatchInv, ScoreIsMatching
<1>2. IInv /\ [Next]_vars => IInv'
  BY StepInv, StepWords, StepChamps, StepMatch
<1>3. IInv => ScoreIsMatching
  OBVIOUS
<1> QED BY <1>1, <1>2, <1>3, PTL DEF Spec

=============================================================================
