------------------------------ MODULE PosMerge ------------------------------
(***************************************************************************)
(* search/posmerge.c: the n-way merge of sorted posting files through      *)
(* fixed-size read blocks.  One action per branch of posmerge()'s loops    *)
(* and of jump().  A buffer cell holds the file position of the item that  *)
(* was last read into it, 0 if nothing was: fread() of a short block       *)
(* leaves the older cells behind, and what the code later reads there is a *)
(* real hazard.  The pipes' buffers are never written beyond RD_NUM; an    *)
(* index that runs past the block is undefined behaviour ("overrun").      *)
(***************************************************************************)
EXTENDS Integers, Sequences

CONSTANTS N,        \* number of pipes
          RD_NUM,   \* BRWBLK_RD_NUM
          Ids,      \* document ids (CP_ID)
          Files     \* the posting files considered: sequences of ids

ASSUME PipesAssumption == N \in Nat \ {0}
ASSUME BlockAssumption == RD_NUM \in Nat \ {0}
ASSUME IdsAssumption   == Ids \subseteq Nat \ {0} /\ Ids # {}
ASSUME FilesAssumption ==
  \A f \in Files : /\ f \in Seq(Ids)
                   /\ \A j, k \in DOMAIN f : j <= k => f[j] <= f[k]

\* What the buffering can handle.  The code cannot tell "block full" from "file
\* exhausted on a block boundary": one file must not end on a boundary, none may
\* be empty, and none that ends on a boundary may have one id only in its last
\* block.  Otherwise an id may have any number of items, on any boundaries.
Boundary(n) == \E k \in 0 .. n : n = k * RD_NUM

FillsLastBlock(f) == Boundary(Len(f)) /\ f[Len(f) - RD_NUM + 1] = f[Len(f)]

Pipes == 0 .. N - 1

Sized(files) ==
  /\ \A p \in Pipes : files[p] # <<>> /\ ~FillsLastBlock(files[p])
  /\ \E p \in Pipes : ~Boundary(Len(files[p]))

VARIABLES
  file,     \* pipe -> its posting file
  junk,     \* pipe -> the id a never-written cell happens to show
  off,      \* pipe -> items read from the file so far (the FILE* position)
  buf, idx, end,          \* the block, the current item, the items loaded
  pc,       \* control point of posmerge()
  i,        \* the pipe of the running for loop
  max, goOn, ret,         \* max, go_on, ret
  calls,    \* callback calls of the current round: <<pipe, cell>>
  rounds    \* completed rounds (an ending call was made)

pipeVars == <<off, buf, idx, end>>
vars == <<file, junk, off, buf, idx, end, pc, i, max, goOn, ret, calls, rounds>>

Cells == 0 .. RD_NUM - 1

IdAt(p, c) == IF c = 0 THEN junk[p] ELSE file[p][c]
CurId(p)   == IdAt(p, buf[p][idx[p]])
FarId(p)   == IdAt(p, buf[p][end[p] - 1])

Left(p)  == Len(file[p]) - off[p]

\* Fault for the mutation test: a short read counts as a full one.
NReadFull(p) == RD_NUM

NRead(p) == IF Left(p) < RD_NUM THEN Left(p) ELSE RD_NUM

Block(p, o, n, old) == [c \in Cells |-> IF c < n THEN o + c + 1 ELSE old[c]]

rebuf(p) ==
  /\ off' = [off EXCEPT ![p] = @ + NRead(p)]
  /\ buf' = [buf EXCEPT ![p] = Block(p, off[p], NRead(p), @)]
  /\ idx' = [idx EXCEPT ![p] = 0]
  /\ end' = [end EXCEPT ![p] = NRead(p)]

Init ==
  /\ file \in [Pipes -> Files]
  /\ junk \in [Pipes -> Ids]
  /\ \A p \in Pipes : file[p] # <<>> => \A d \in Ids : junk[p] <= d
  /\ off = [p \in Pipes |-> 0]
  /\ buf = [p \in Pipes |-> [c \in Cells |-> 0]]
  /\ idx = [p \in Pipes |-> 0]
  /\ end = [p \in Pipes |-> 0]
  /\ pc = "open" /\ i = 0 /\ max = 0 /\ goOn = TRUE /\ ret = 0
  /\ calls = <<>> /\ rounds = <<>>

---------------------------------------------------------------------------
(* Opening and the initial read *)

OpenFails ==
  /\ pc = "open"
  /\ pc' = "exit_1"
  /\ UNCHANGED <<file, junk, pipeVars, i, max, goOn, ret, calls, rounds>>

InitialRead ==
  /\ pc = "open"
  /\ off' = [p \in Pipes |-> off[p] + NRead(p)]
  /\ buf' = [p \in Pipes |-> Block(p, off[p], NRead(p), buf[p])]
  /\ end' = [p \in Pipes |-> NRead(p)]
  /\ pc' = "scan"
  /\ UNCHANGED <<file, junk, idx, i, max, goOn, ret, calls, rounds>>

---------------------------------------------------------------------------
(* One look at the current items of all pipes *)

Scan ==
  /\ pc = "scan"
  /\ \A p \in Pipes : idx[p] < RD_NUM
  /\ max' \in {CurId(p) : p \in Pipes}
  /\ \A p \in Pipes : CurId(p) <= max'
  /\ i' = 0
  /\ pc' = IF \A p \in Pipes : CurId(p) = max' THEN "match" ELSE "jump"
  /\ UNCHANGED <<file, junk, pipeVars, goOn, ret, calls, rounds>>

---------------------------------------------------------------------------
(* Different ids: let every lower pipe jump to max *)

\* Go to the next pipe of the running loop, or to `after` behind the last one.
NextPipe(loop, after) ==
  IF i + 1 < N THEN i' = i + 1 /\ pc' = loop ELSE i' = i /\ pc' = after

JumpSkip ==
  /\ pc = "jump" /\ CurId(i) = max
  /\ NextPipe("jump", "again")
  /\ UNCHANGED <<file, junk, pipeVars, max, goOn, ret, calls, rounds>>

JumpEnter ==
  /\ pc = "jump" /\ CurId(i) # max
  /\ pc' = "jumping"
  /\ UNCHANGED <<file, junk, pipeVars, i, max, goOn, ret, calls, rounds>>

\* Fault for the mutation test: the far item must be strictly greater.
FarEnoughStrict(p) == end[p] # 0 /\ FarId(p) > max

FarEnough(p) == end[p] # 0 /\ FarId(p) >= max

\* Fault for the mutation test: the full block is not read on.
JumpFailEarly ==
  /\ pc = "jumping" /\ ~FarEnough(i)
  /\ pc' = "exit_0"
  /\ UNCHANGED <<file, junk, pipeVars, i, max, goOn, ret, calls, rounds>>

\* Fault for the mutation test: an exhausted file is read again, for ever.
JumpRetry ==
  /\ pc = "jumping" /\ ~FarEnough(i) /\ end[i] # RD_NUM
  /\ rebuf(i)
  /\ UNCHANGED <<file, junk, pc, i, max, goOn, ret, calls, rounds>>

JumpFail ==
  /\ pc = "jumping" /\ ~FarEnough(i) /\ end[i] # RD_NUM
  /\ pc' = "exit_0"
  /\ UNCHANGED <<file, junk, pipeVars, i, max, goOn, ret, calls, rounds>>

JumpRebuf ==
  /\ pc = "jumping" /\ ~FarEnough(i) /\ end[i] = RD_NUM
  /\ rebuf(i)
  /\ UNCHANGED <<file, junk, pc, i, max, goOn, ret, calls, rounds>>

\* while (*idx < *end && buf[*idx].id < target) (*idx)++
JumpLand ==
  /\ pc = "jumping" /\ FarEnough(i)
  /\ \E k \in idx[i] .. end[i] :
       /\ \A c \in idx[i] .. k - 1 : IdAt(i, buf[i][c]) < max
       /\ k < end[i] => IdAt(i, buf[i][k]) >= max
       /\ idx' = [idx EXCEPT ![i] = k]
  /\ NextPipe("jump", "again")
  /\ UNCHANGED <<file, junk, off, buf, end, max, goOn, ret, calls, rounds>>

---------------------------------------------------------------------------
(* Identical ids: report every item of that id, pipe by pipe *)

\* The call of the callback for the current item of pipe i.
Call == calls' = Append(calls, <<i, buf[i][idx[i]]>>)

Matching == pc = "match" /\ idx[i] < RD_NUM

MatchItem ==
  /\ Matching /\ CurId(i) = max
  /\ idx[i] + 1 # end[i]
  /\ Call
  /\ idx' = [idx EXCEPT ![i] = @ + 1]
  /\ UNCHANGED <<file, junk, off, buf, end, pc, i, max, goOn, ret, rounds>>

\* The block is used up and was full: there may be more of the file.
MatchRebuf ==
  /\ Matching /\ CurId(i) = max
  /\ idx[i] + 1 = end[i] /\ end[i] = RD_NUM
  /\ Call
  /\ rebuf(i)
  /\ UNCHANGED <<file, junk, pc, i, max, goOn, ret, rounds>>

\* Fault for the mutation test: an exhausted pipe does not end the merge.
MatchLastGoesOn ==
  /\ Matching /\ CurId(i) = max
  /\ idx[i] + 1 = end[i] /\ end[i] # RD_NUM
  /\ Call
  /\ idx' = [idx EXCEPT ![i] = @ + 1]
  /\ NextPipe("match", "tail")
  /\ UNCHANGED <<file, junk, off, buf, end, max, goOn, ret, rounds>>

\* The block was short: this pipe is exhausted.
MatchLast ==
  /\ Matching /\ CurId(i) = max
  /\ idx[i] + 1 = end[i] /\ end[i] # RD_NUM
  /\ Call
  /\ idx' = [idx EXCEPT ![i] = @ + 1]
  /\ goOn' = FALSE
  /\ NextPipe("match", "tail")
  /\ UNCHANGED <<file, junk, off, buf, end, max, ret, rounds>>

MatchOther ==
  /\ Matching /\ CurId(i) # max
  /\ NextPipe("match", "tail")
  /\ UNCHANGED <<file, junk, pipeVars, max, goOn, ret, calls, rounds>>

\* The ending call, whose result 1 stops the merge.
EndCall ==
  /\ pc = "tail"
  /\ rounds' = Append(rounds, [id |-> max, calls |-> calls])
  /\ calls' = <<>>
  /\ ret' \in {0, 1}
  /\ pc' = IF ret' = 1 THEN "exit_0" ELSE "again"
  /\ UNCHANGED <<file, junk, pipeVars, i, max, goOn>>

Again ==
  /\ pc = "again"
  /\ pc' = IF goOn THEN "scan" ELSE "exit_0"
  /\ UNCHANGED <<file, junk, pipeVars, i, max, goOn, ret, calls, rounds>>

---------------------------------------------------------------------------
(* Reading behind the block *)

Overrun ==
  /\ \/ pc = "scan" /\ \E p \in Pipes : idx[p] >= RD_NUM
     \/ pc = "match" /\ idx[i] >= RD_NUM
  /\ pc' = "overrun"
  /\ UNCHANGED <<file, junk, pipeVars, i, max, goOn, ret, calls, rounds>>

\* What the program does then is not known: nothing is said of what follows.
Overran == pc = "overrun" /\ UNCHANGED vars

Ended == {"exit_0", "exit_1"}

Returned == pc \in Ended /\ UNCHANGED vars

Step == \/ OpenFails \/ InitialRead \/ Scan
        \/ JumpSkip \/ JumpEnter \/ JumpFail \/ JumpRebuf \/ JumpLand
        \/ MatchItem \/ MatchRebuf \/ MatchLast \/ MatchOther
        \/ EndCall \/ Again \/ Overrun

Next == Step \/ Returned \/ Overran

\* posmerge() is one sequential call: it keeps taking steps until it returns.
Spec == Init /\ [][Next]_vars /\ WF_vars(Step)

---------------------------------------------------------------------------
(* Properties *)

\* Whatever the files are: no more is read of a file than it has, and an index
\* is one behind the block at most.
TypesOK ==
  /\ file \in [Pipes -> Files]
  /\ junk \in [Pipes -> Ids]
  /\ off \in [Pipes -> Nat] /\ \A p \in Pipes : off[p] <= Len(file[p])
  /\ buf \in [Pipes -> [Cells -> Nat]]
  /\ \A p \in Pipes : \A c \in Cells : buf[p][c] <= off[p]
  /\ idx \in [Pipes -> 0 .. RD_NUM]
  /\ end \in [Pipes -> 0 .. RD_NUM]
  /\ pc \in {"open", "scan", "jump", "jumping", "match", "tail", "again", "overrun"} \cup Ended
  /\ i \in Pipes
  /\ max \in Ids \cup {0}
  /\ max = 0 => pc \in {"open", "scan", "exit_1", "overrun"}
  /\ goOn \in BOOLEAN /\ ret \in {0, 1}
  /\ calls \in Seq(Pipes \X Nat)
  /\ rounds \in Seq([id : Ids, calls : Seq(Pipes \X Nat)])

\* Of files the buffering can handle no cell behind a block is looked at.
InBlocks ==
  Sized(file) =>
    /\ pc # "overrun"
    /\ pc \in {"scan", "jump"} => \A p \in Pipes : idx[p] < RD_NUM
    /\ pc = "match" => idx[i] < RD_NUM

\* The types of the variables, and the cells the code looks at.
TypeOK == TypesOK /\ InBlocks

LastId == IF rounds = <<>> THEN 0 ELSE rounds[Len(rounds)].id

\* Pipe p has a current item in its block.
Live(p) == idx[p] < end[p]

\* Pipe p was read to its end on a block boundary; its cursor shows the first
\* item of the last block again, whose id is below m.
Stale(p, m) == end[p] = 0 /\ idx[p] = 0 /\ CurId(p) < m

Ahead(p, m) == (Live(p) /\ CurId(p) > m) \/ Stale(p, m)

\* A block shows consecutive items of its file, ending at the file position.
BlockOK(p) ==
  /\ off[p] > 0 /\ end[p] <= off[p]
  /\ \A c \in 0 .. end[p] - 1 : buf[p][c] = off[p] - end[p] + c + 1
  /\ end[p] < RD_NUM => off[p] = Len(file[p])
  /\ end[p] \in {0, RD_NUM} => Boundary(off[p])
  /\ end[p] = 0 => /\ off[p] >= RD_NUM
                   /\ \A c \in Cells : buf[p][c] = off[p] - RD_NUM + c + 1

BlocksOK == pc \notin {"open", "exit_1"} => \A p \in Pipes : BlockOK(p)

\* Where the cursors stand at each control point.
CursorsOK ==
  /\ pc = "open" => idx = [p \in Pipes |-> 0] /\ off = idx /\ rounds = <<>>
  /\ pc \in {"scan", "jump"} => \A p \in Pipes : Ahead(p, LastId)
  /\ pc = "jumping" => \A p \in Pipes :
       IF p = i THEN end[p] > 0 => (Live(p) /\ CurId(p) > LastId)
                ELSE Ahead(p, LastId)
  /\ pc = "match" => \A p \in Pipes :
       /\ p > i => Live(p) /\ CurId(p) = max
       /\ p = i => (Live(p) /\ CurId(p) >= max) \/ Stale(p, max)
       /\ p < i /\ goOn => Ahead(p, max)
  /\ pc = "tail"  /\ goOn => \A p \in Pipes : Ahead(p, max)
  /\ pc = "again" /\ goOn => \A p \in Pipes : Ahead(p, LastId)
  /\ pc \in {"jump", "jumping", "match", "tail"} => max > LastId
  /\ pc # "overrun"

\* d occurs in every file.
Common(d) == \A p \in Pipes : \E k \in DOMAIN file[p] : file[p][k] = d

\* Items of pipe p that the cursor is past.
Passed(p) == off[p] - end[p] + idx[p]

\* No cursor is past a common id greater than m.
NonePassed(m) ==
  \A d \in Ids : Common(d) /\ d > m =>
     \A p \in Pipes : \A k \in 1 .. Passed(p) : file[p][k] < d

NoCommonAbove(m) == \A d \in Ids : Common(d) => d <= m

\* The common ids up to LastId are exactly the reported ones.
ReportedOK ==
  /\ \A r \in DOMAIN rounds : Common(rounds[r].id) /\ rounds[r].id <= LastId
  /\ \A d \in Ids : Common(d) /\ d <= LastId =>
       \E r \in DOMAIN rounds : rounds[r].id = d

ProgressOK ==
  /\ pc \in {"scan", "jump", "jumping"} => NonePassed(LastId)
  /\ pc \in {"match", "tail"} => NonePassed(max) /\ Common(max)
  /\ pc \in {"jump", "jumping", "match", "tail"} =>
       \A d \in Ids : Common(d) /\ d > LastId => d >= max
  /\ pc \in {"match", "tail"} /\ ~goOn => NoCommonAbove(max)
  /\ pc = "again" => IF goOn THEN NonePassed(LastId) ELSE NoCommonAbove(LastId)
  /\ pc \in {"open", "scan", "jump", "jumping"} => goOn
  /\ pc = "exit_0" /\ ret = 0 => NoCommonAbove(LastId)

\* For files the buffering can handle: the blocks show the files without a gap
\* (posmerge.c:48-58), no cursor passes a common id that was not reported
\* (60-84, 163-198), and no index runs past its block.
MergeInv ==
  Sized(file) => BlocksOK /\ CursorsOK /\ ReportedOK /\ ProgressOK

\* posmerge_print_buf() (posmerge.c:39-43) calls the cells before `end` "loaded
\* data" and the others "old numbers": a callback is given loaded data only.
CallbackGetsLoadedData ==
  [][Len(calls') > Len(calls) => Live(i)]_vars

\* The same for files the buffering can handle.
SizedGetsLoadedData ==
  [][Sized(file) /\ Len(calls') > Len(calls) => Live(i)]_vars

\* Each reported id is greater than the one before: none is reported twice.
RoundsIncrease ==
  [][Sized(file) /\ rounds' # rounds => LastId' > LastId]_vars

\* A merge that was not stopped has reported the ids common to all files, and
\* nothing else.
ReportsCommonIds ==
  Sized(file) /\ pc = "exit_0" =>
    /\ \A r \in DOMAIN rounds : Common(rounds[r].id)
    /\ ret = 0 => \A d \in Ids : Common(d) =>
         \E r \in DOMAIN rounds : rounds[r].id = d

\* Whatever the files hold the merge returns, or it goes behind its block, and
\* this only with files that the buffering cannot handle.
Terminates == <>(pc \in Ended \/ (pc = "overrun" /\ ~Sized(file)))

\* What a caller sees of the merge: it is running, or how it ended.
Outcome == CASE pc = "exit_0"  -> IF ret = 1 THEN "stopped" ELSE "exhausted"
             [] pc = "exit_1"  -> "failed"
             [] pc = "overrun" -> "overrun"
             [] OTHER          -> "merging"

C == INSTANCE MergeContract WITH status <- Outcome

\* posmerge() implements the contract of MergeContract: the ids common to all
\* files, each once, in increasing order, with all their items, then return.
Contract == C!ASpec

=============================================================================
