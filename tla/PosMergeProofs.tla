--------------------------- MODULE PosMergeProofs ---------------------------
(***************************************************************************)
(* Proofs about PosMerge for every number of pipes, block size and files:  *)
(* type correctness, the inductive invariant MergeInv, and what follows:   *)
(* the callback only gets loaded data, no id is reported twice, a merge    *)
(* that ends has reported exactly the ids common to all files, and         *)
(* posmerge() implements MergeContract step by step.                       *)
(***************************************************************************)
EXTENDS PosMerge, TLAPS

---------------------------------------------------------------------------
(* Type correctness *)

\* What fread() returns.
LEMMA NReadBound ==
  ASSUME TypesOK, NEW p \in Pipes
  PROVE  /\ Len(file[p]) \in Nat /\ off[p] \in Nat /\ off[p] <= Len(file[p])
         /\ NRead(p) \in 0 .. RD_NUM
         /\ off[p] + NRead(p) <= Len(file[p])
         /\ NRead(p) < RD_NUM => off[p] + NRead(p) = Len(file[p])
<1>1. Len(file[p]) \in Nat
  BY FilesAssumption DEF TypesOK
<1>2. off[p] \in Nat /\ off[p] <= Len(file[p])
  BY DEF TypesOK
<1> QED
  BY <1>1, <1>2, BlockAssumption DEF NRead, Left

\* A cell of a block shows an id.
LEMMA CellType ==
  ASSUME TypesOK, NEW p \in Pipes, NEW c \in Cells
  PROVE  /\ buf[p][c] \in Nat /\ buf[p][c] <= Len(file[p])
         /\ IdAt(p, buf[p][c]) \in Ids
<1>1. buf[p][c] \in Nat /\ buf[p][c] <= off[p] /\ off[p] <= Len(file[p])
  BY DEF TypesOK
<1>2. file[p] \in Seq(Ids) /\ Len(file[p]) \in Nat /\ junk[p] \in Ids /\ off[p] \in Nat
  BY FilesAssumption DEF TypesOK
<1>3. buf[p][c] # 0 => file[p][buf[p][c]] \in Ids
  BY <1>1, <1>2
<1> QED
  BY <1>1, <1>2, <1>3 DEF IdAt

\* The cell a cursor is at shows an id.
LEMMA CurType ==
  ASSUME TypesOK, NEW p \in Pipes, idx[p] < RD_NUM
  PROVE  idx[p] \in Cells /\ CurId(p) \in Ids
<1>1. idx[p] \in Cells
  BY BlockAssumption DEF TypesOK, Cells
<1> QED
  BY <1>1, CellType DEF CurId

\* What a block holds after a read.
LEMMA BlockType ==
  ASSUME TypesOK, NEW p \in Pipes, NEW c \in Cells
  PROVE  /\ Block(p, off[p], NRead(p), buf[p])[c] \in Nat
         /\ Block(p, off[p], NRead(p), buf[p])[c] <= off[p] + NRead(p)
<1>1. buf[p][c] \in Nat /\ buf[p][c] <= off[p] /\ c \in Nat
  BY BlockAssumption, SMTT(20) DEF TypesOK, Cells
<1>2. Block(p, off[p], NRead(p), buf[p])[c] =
        IF c < NRead(p) THEN off[p] + c + 1 ELSE buf[p][c]
  BY DEF Block
<1> QED
  BY <1>1, <1>2, NReadBound

\* A re-read keeps the types of the pipe's state.
LEMMA RebufType ==
  ASSUME TypesOK, NEW p \in Pipes, rebuf(p), UNCHANGED file
  PROVE  /\ off' \in [Pipes -> Nat] /\ \A q \in Pipes : off'[q] <= Len(file'[q])
         /\ buf' \in [Pipes -> [Cells -> Nat]]
         /\ \A q \in Pipes : \A c \in Cells : buf'[q][c] <= off'[q]
         /\ idx' \in [Pipes -> 0 .. RD_NUM]
         /\ end' \in [Pipes -> 0 .. RD_NUM]
<1>1. /\ Len(file[p]) \in Nat /\ off[p] \in Nat /\ off[p] <= Len(file[p])
      /\ NRead(p) \in 0 .. RD_NUM /\ off[p] + NRead(p) <= Len(file[p])
  BY NReadBound
<1>2. off' \in [Pipes -> Nat] /\ \A q \in Pipes : off'[q] <= Len(file'[q])
  BY <1>1, BlockAssumption DEF TypesOK, rebuf
<1>3. \A c \in Cells : /\ Block(p, off[p], NRead(p), buf[p])[c] \in Nat
                       /\ Block(p, off[p], NRead(p), buf[p])[c] <= off[p] + NRead(p)
  BY BlockType
<1>4. buf' \in [Pipes -> [Cells -> Nat]]
  <2>1. Block(p, off[p], NRead(p), buf[p]) \in [Cells -> Nat]
    BY <1>3 DEF Block
  <2> QED
    BY <2>1 DEF TypesOK, rebuf
<1>5. \A q \in Pipes : \A c \in Cells : buf'[q][c] <= off'[q]
  BY <1>1, <1>3 DEF TypesOK, rebuf
<1>6. idx' \in [Pipes -> 0 .. RD_NUM] /\ end' \in [Pipes -> 0 .. RD_NUM]
  BY <1>1, BlockAssumption DEF TypesOK, rebuf
<1> QED
  BY <1>2, <1>4, <1>5, <1>6

\* One more callback call.
LEMMA CallType ==
  ASSUME TypesOK, Matching, Call
  PROVE  calls' \in Seq(Pipes \X Nat)
<1>1. idx[i] \in Cells /\ i \in Pipes
  BY BlockAssumption DEF TypesOK, Matching, Cells
<1>2. buf[i][idx[i]] \in Nat
  BY <1>1 DEF TypesOK
<1>3. <<i, buf[i][idx[i]]>> \in Pipes \X Nat
  BY <1>1, <1>2
<1> QED
  BY <1>3 DEF TypesOK, Call

\* A loop over the pipes stays in range.
LEMMA NextPipeType ==
  ASSUME i \in Pipes, NEW loop, NEW after, NextPipe(loop, after)
  PROVE  i' \in Pipes /\ pc' \in {loop, after}
BY PipesAssumption DEF NextPipe, Pipes

\* The types, initially.
LEMMA TypeInit == Init => TypesOK
<1> SUFFICES ASSUME Init PROVE TypesOK
  OBVIOUS
<1>1. \A p \in Pipes : Len(file[p]) \in Nat
  BY FilesAssumption DEF Init
<1>2. 0 \in Pipes
  BY PipesAssumption DEF Pipes
<1> QED
  BY <1>1, <1>2, BlockAssumption DEF Init, TypesOK, Ended

\* Every step of posmerge() keeps the types.
LEMMA TypeStep == TypesOK /\ [Next]_vars => TypesOK'
<1> SUFFICES ASSUME TypesOK, [Next]_vars PROVE TypesOK'
  OBVIOUS
<1> USE PipesAssumption, BlockAssumption
<1>1. CASE OpenFails
  BY <1>1 DEF TypesOK, OpenFails, Ended, pipeVars
<1>2. CASE InitialRead
  <2>1. \A p \in Pipes :
          /\ NRead(p) \in 0 .. RD_NUM /\ off[p] + NRead(p) <= Len(file[p])
          /\ off[p] \in Nat
          /\ \A c \in Cells :
               /\ Block(p, off[p], NRead(p), buf[p])[c] \in Nat
               /\ Block(p, off[p], NRead(p), buf[p])[c] <= off[p] + NRead(p)
    BY NReadBound, BlockType
  <2>2. off' \in [Pipes -> Nat] /\ end' \in [Pipes -> 0 .. RD_NUM]
    BY <1>2, <2>1 DEF InitialRead
  <2>3. \A p \in Pipes : off'[p] <= Len(file'[p])
    BY <1>2, <2>1 DEF InitialRead
  <2>4. /\ buf' \in [Pipes -> [Cells -> Nat]]
        /\ \A p \in Pipes : \A c \in Cells : buf'[p][c] <= off'[p]
    <3>1. \A p \in Pipes : Block(p, off[p], NRead(p), buf[p]) \in [Cells -> Nat]
      BY <2>1 DEF Block
    <3> QED
      BY <1>2, <2>1, <3>1 DEF InitialRead
  <2> QED
    BY <1>2, <2>2, <2>3, <2>4 DEF TypesOK, InitialRead, Ended
<1>3. CASE Scan
  <2>1. \A p \in Pipes : CurId(p) \in Ids
    BY <1>3, CurType DEF Scan
  <2>2. max' \in Ids
    BY <1>3, <2>1 DEF Scan
  <2>3. i' = 0 /\ 0 \in Pipes
    BY <1>3 DEF Scan, Pipes
  <2>4. pc' \in {"match", "jump"}
    BY <1>3 DEF Scan
  <2>5. UNCHANGED <<file, junk, pipeVars, goOn, ret, calls, rounds>>
    BY <1>3 DEF Scan
  <2> QED
    BY <2>2, <2>3, <2>4, <2>5, IdsAssumption DEF TypesOK, Ended, pipeVars
<1>4. CASE JumpSkip
  <2>1. i' \in Pipes /\ pc' \in {"jump", "again"}
    BY <1>4, NextPipeType DEF TypesOK, JumpSkip
  <2> QED
    BY <1>4, <2>1 DEF TypesOK, JumpSkip, Ended, pipeVars
<1>5. CASE JumpEnter
  BY <1>5 DEF TypesOK, JumpEnter, Ended, pipeVars
<1>6. CASE JumpFail
  BY <1>6 DEF TypesOK, JumpFail, Ended, pipeVars
<1>7. CASE JumpRebuf
  <2>1. i \in Pipes /\ rebuf(i) /\ UNCHANGED file
    BY <1>7 DEF TypesOK, JumpRebuf
  <2> QED
    BY <1>7, <2>1, RebufType DEF TypesOK, JumpRebuf, Ended
<1>8. CASE JumpLand
  <2>1. idx' \in [Pipes -> 0 .. RD_NUM]
    BY <1>8 DEF TypesOK, JumpLand
  <2>2. i' \in Pipes /\ pc' \in {"jump", "again"}
    BY <1>8, NextPipeType DEF TypesOK, JumpLand
  <2> QED
    BY <1>8, <2>1, <2>2 DEF TypesOK, JumpLand, Ended
<1>9. CASE MatchItem
  <2>1. idx' \in [Pipes -> 0 .. RD_NUM]
    BY <1>9 DEF TypesOK, MatchItem, Matching
  <2> QED
    BY <1>9, <2>1, CallType DEF TypesOK, MatchItem, Matching, Ended
<1>10. CASE MatchRebuf
  <2>1. i \in Pipes /\ rebuf(i) /\ UNCHANGED file /\ Matching /\ Call
    BY <1>10 DEF TypesOK, MatchRebuf
  <2> QED
    BY <1>10, <2>1, CallType, RebufType DEF TypesOK, MatchRebuf, Ended
<1>11. CASE MatchLast
  <2>1. idx' \in [Pipes -> 0 .. RD_NUM]
    BY <1>11 DEF TypesOK, MatchLast, Matching
  <2>2. i' \in Pipes /\ pc' \in {"match", "tail"}
    BY <1>11, NextPipeType DEF TypesOK, MatchLast
  <2> QED
    BY <1>11, <2>1, <2>2, CallType DEF TypesOK, MatchLast, Matching, Ended
<1>12. CASE MatchOther
  <2>1. i' \in Pipes /\ pc' \in {"match", "tail"}
    BY <1>12, NextPipeType DEF TypesOK, MatchOther
  <2> QED
    BY <1>12, <2>1 DEF TypesOK, MatchOther, Matching, Ended, pipeVars
<1>13. CASE EndCall
  <2>1. rounds' \in Seq([id : Ids, calls : Seq(Pipes \X Nat)])
    <3>1. [id |-> max, calls |-> calls] \in [id : Ids, calls : Seq(Pipes \X Nat)]
      BY <1>13 DEF TypesOK, EndCall
    <3> QED
      BY <1>13, <3>1 DEF TypesOK, EndCall
  <2>2. calls' \in Seq(Pipes \X Nat)
    BY <1>13 DEF EndCall
  <2> QED
    BY <1>13, <2>1, <2>2 DEF TypesOK, EndCall, Ended, pipeVars
<1>14. CASE Again
  BY <1>14 DEF TypesOK, Again, Ended, pipeVars
<1>15. CASE Overrun
  BY <1>15 DEF TypesOK, Overrun, Ended, pipeVars
<1>16. CASE UNCHANGED vars
  BY <1>16 DEF TypesOK, vars, Ended
<1> QED
  BY <1>1, <1>2, <1>3, <1>4, <1>5, <1>6, <1>7, <1>8, <1>9, <1>10, <1>11,
     <1>12, <1>13, <1>14, <1>15, <1>16 DEF Next, Step, Returned, Overran

---------------------------------------------------------------------------
(* Files, blocks and cursors *)

\* A posting file is sorted and holds positive ids.
LEMMA Sorted ==
  ASSUME TypesOK, NEW p \in Pipes
  PROVE  /\ Len(file[p]) \in Nat /\ DOMAIN file[p] = 1 .. Len(file[p])
         /\ \A k \in 1 .. Len(file[p]) :
              file[p][k] \in Ids /\ file[p][k] \in Nat /\ file[p][k] > 0
         /\ \A j, k \in 1 .. Len(file[p]) : j <= k => file[p][j] <= file[p][k]
<1>1. file[p] \in Seq(Ids) /\ file[p] \in Files
  BY FilesAssumption DEF TypesOK
<1>2. Len(file[p]) \in Nat /\ DOMAIN file[p] = 1 .. Len(file[p])
  BY <1>1
<1>3. \A k \in 1 .. Len(file[p]) : file[p][k] \in Ids
  BY <1>1
<1>4. \A k \in 1 .. Len(file[p]) : file[p][k] \in Nat /\ file[p][k] > 0
  <2>1. \A d \in Ids : d \in Nat /\ d > 0
    BY IdsAssumption
  <2> QED
    BY <1>3, <2>1
<1>5. \A j, k \in 1 .. Len(file[p]) : j <= k => file[p][j] <= file[p][k]
  BY <1>1, <1>2, FilesAssumption
<1> QED
  BY <1>2, <1>3, <1>4, <1>5

\* The numbers of a pipe.
LEMMA Numbers ==
  ASSUME TypesOK, NEW p \in Pipes
  PROVE  /\ off[p] \in Nat /\ idx[p] \in Nat /\ end[p] \in Nat
         /\ idx[p] <= RD_NUM /\ end[p] <= RD_NUM /\ off[p] <= Len(file[p])
         /\ RD_NUM \in Nat /\ RD_NUM > 0
BY BlockAssumption DEF TypesOK

\* A loaded item is the item of the file that follows the passed ones.
LEMMA LoadedCell ==
  ASSUME TypesOK, NEW p \in Pipes, BlockOK(p), NEW c \in 0 .. end[p] - 1
  PROVE  /\ off[p] - end[p] + c + 1 \in 1 .. Len(file[p])
         /\ IdAt(p, buf[p][c]) = file[p][off[p] - end[p] + c + 1]
<1>1. buf[p][c] = off[p] - end[p] + c + 1 /\ c \in Nat /\ c < end[p]
  BY Numbers DEF BlockOK
<1>2. c \in Cells
  BY <1>1, Numbers DEF Cells
<1>3. buf[p][c] \in Nat /\ buf[p][c] <= Len(file[p])
  BY <1>2, CellType
<1>4. end[p] <= off[p]
  BY DEF BlockOK
<1> QED
  BY <1>1, <1>3, <1>4, Numbers DEF IdAt

\* A cursor inside the loaded items shows the item after the passed ones.
LEMMA LiveCursor ==
  ASSUME TypesOK, NEW p \in Pipes, BlockOK(p), Live(p)
  PROVE  /\ Passed(p) + 1 \in 1 .. Len(file[p]) /\ Passed(p) \in Nat
         /\ CurId(p) = file[p][Passed(p) + 1]
<1>1. idx[p] \in 0 .. end[p] - 1
  BY Numbers DEF Live
<1>2. /\ off[p] - end[p] + idx[p] + 1 \in 1 .. Len(file[p])
      /\ IdAt(p, buf[p][idx[p]]) = file[p][off[p] - end[p] + idx[p] + 1]
  BY <1>1, LoadedCell
<1> QED
  BY <1>2, Numbers DEF Passed, CurId

\* The last loaded cell shows the last item read from the file.
LEMMA FarItem ==
  ASSUME TypesOK, NEW p \in Pipes, BlockOK(p), end[p] > 0
  PROVE  off[p] \in 1 .. Len(file[p]) /\ FarId(p) = file[p][off[p]]
<1>1. end[p] - 1 \in 0 .. end[p] - 1
  BY Numbers
<1>2. /\ off[p] - end[p] + (end[p] - 1) + 1 \in 1 .. Len(file[p])
      /\ IdAt(p, buf[p][end[p] - 1]) = file[p][off[p] - end[p] + (end[p] - 1) + 1]
  BY <1>1, LoadedCell
<1>3. off[p] - end[p] + (end[p] - 1) + 1 = off[p]
  BY Numbers
<1> QED
  BY <1>2, <1>3 DEF FarId

\* A block re-read at the end of the file shows its last block again, whose
\* first item is smaller than its last one.
LEMMA StaleHead ==
  ASSUME TypesOK, NEW p \in Pipes, BlockOK(p), end[p] = 0, idx[p] = 0,
         ~FillsLastBlock(file[p])
  PROVE  /\ off[p] = Len(file[p]) /\ off[p] \in 1 .. Len(file[p])
         /\ Boundary(Len(file[p]))
         /\ CurId(p) \in Nat /\ CurId(p) < file[p][off[p]]
<1>1. off[p] = Len(file[p]) /\ off[p] \in 1 .. Len(file[p]) /\ Boundary(Len(file[p]))
  BY Numbers DEF BlockOK
<1> DEFINE k == off[p] - RD_NUM + 1
<1>2. k \in 1 .. Len(file[p]) /\ k + RD_NUM - 1 = off[p] /\ k <= off[p]
  BY <1>1, Numbers DEF BlockOK
<1>3. buf[p][0] = k
  <2>1. 0 \in Cells
    BY Numbers DEF Cells
  <2>2. buf[p][0] = off[p] - RD_NUM + 0 + 1
    BY <2>1 DEF BlockOK
  <2> QED
    BY <2>2, Numbers
<1>4. file[p][k] # file[p][off[p]]
  BY <1>1, <1>2, Sorted DEF FillsLastBlock
<1>5. file[p][k] <= file[p][off[p]] /\ file[p][k] \in Nat /\ file[p][off[p]] \in Nat
  BY <1>1, <1>2, Sorted
<1>6. CurId(p) = file[p][k]
  BY <1>2, <1>3 DEF CurId, IdAt
<1> QED
  BY <1>1, <1>4, <1>5, <1>6

\* A pipe the step leaves alone.
LEMMA SamePipe ==
  ASSUME NEW p \in Pipes, UNCHANGED <<file, junk>>,
         off'[p] = off[p], buf'[p] = buf[p], idx'[p] = idx[p], end'[p] = end[p]
  PROVE  /\ CurId(p)' = CurId(p) /\ Passed(p)' = Passed(p)
         /\ Live(p)' <=> Live(p)
         /\ BlockOK(p)' <=> BlockOK(p)
         /\ \A m : Stale(p, m)' <=> Stale(p, m)
         /\ \A m : Ahead(p, m)' <=> Ahead(p, m)
<1>1. CurId(p)' = CurId(p)
  BY DEF CurId, IdAt
<1>2. /\ Passed(p)' = Passed(p)
      /\ Live(p)' <=> Live(p)
      /\ \A m : Stale(p, m)' <=> Stale(p, m)
  <2>1. Passed(p)' = Passed(p)
    BY DEF Passed
  <2>2. Live(p)' <=> Live(p)
    BY DEF Live
  <2>3. \A m : Stale(p, m)' <=> Stale(p, m)
    BY <1>1 DEF Stale
  <2> QED
    BY <2>1, <2>2, <2>3
<1>3. \A m : Ahead(p, m)' <=> Ahead(p, m)
  BY <1>1, <1>2 DEF Ahead
<1>4. BlockOK(p)' <=> BlockOK(p)
  BY Zenon DEF BlockOK, Boundary
<1> QED
  BY <1>1, <1>2, <1>3, <1>4

\* The next block boundary is a block further.
LEMMA BoundaryNext ==
  ASSUME NEW n \in Nat, Boundary(n)
  PROVE  Boundary(n + RD_NUM)
<1>1. RD_NUM \in Nat /\ RD_NUM > 0
  BY BlockAssumption
<1>2. PICK k \in 0 .. n : n = k * RD_NUM
  BY DEF Boundary
<1>3. n + RD_NUM = (k + 1) * RD_NUM
  BY <1>1, <1>2
<1>4. k + 1 \in 0 .. n + RD_NUM
  BY <1>1, <1>2
<1> QED
  BY <1>3, <1>4 DEF Boundary

\* Reading on behind a full block.
LEMMA RebufBlock ==
  ASSUME TypesOK, NEW p \in Pipes, BlockOK(p), end[p] = RD_NUM, rebuf(p),
         UNCHANGED <<file, junk>>
  PROVE  /\ BlockOK(p)'
         /\ idx'[p] = 0 /\ Passed(p)' = off[p] /\ end'[p] \in Nat
         /\ end'[p] = 0 => off'[p] = off[p]
<1> DEFINE n == NRead(p)
<1>1. /\ Len(file[p]) \in Nat /\ off[p] \in Nat /\ off[p] <= Len(file[p])
      /\ n \in 0 .. RD_NUM /\ off[p] + n <= Len(file[p])
      /\ n < RD_NUM => off[p] + n = Len(file[p])
  BY NReadBound
<1>2. /\ off'[p] = off[p] + n /\ idx'[p] = 0 /\ end'[p] = n
      /\ \A c \in Cells : buf'[p][c] = IF c < n THEN off[p] + c + 1 ELSE buf[p][c]
  BY DEF rebuf, TypesOK, Block
<1>3. off[p] > 0 /\ end[p] <= off[p] /\ Boundary(off[p])
  BY BlockAssumption DEF BlockOK
<1>4. \A c \in 0 .. end'[p] - 1 : buf'[p][c] = off'[p] - end'[p] + c + 1
  <2> TAKE c \in 0 .. end'[p] - 1
  <2>1. c \in Cells /\ c < n
    BY <1>1, <1>2, BlockAssumption DEF Cells
  <2> QED
    BY <1>1, <1>2, <2>1
<1>5. end'[p] \in {0, RD_NUM} => Boundary(off'[p])
  BY <1>1, <1>2, <1>3, BoundaryNext
<1>6. ASSUME end'[p] = 0
      PROVE  off'[p] = off[p] /\ off'[p] >= RD_NUM /\
             \A c \in Cells : buf'[p][c] = off'[p] - RD_NUM + c + 1
  <2>1. off'[p] = off[p] /\ off'[p] >= RD_NUM
    BY <1>1, <1>2, <1>3, <1>6
  <2>2. ASSUME NEW c \in Cells PROVE buf'[p][c] = off'[p] - RD_NUM + c + 1
    <3>1. c \in 0 .. end[p] - 1 /\ ~(c < n)
      BY <1>1, <1>2, <1>6 DEF Cells
    <3>2. buf[p][c] = off[p] - end[p] + c + 1
      BY <3>1 DEF BlockOK
    <3> QED
      BY <1>2, <2>1, <3>1, <3>2
  <2> QED
    BY <2>1, <2>2
<1>7. BlockOK(p)'
  BY <1>1, <1>2, <1>3, <1>4, <1>5, <1>6, BlockAssumption DEF BlockOK
<1> QED
  BY <1>1, <1>2, <1>6, <1>7 DEF Passed

\* The first block.
LEMMA FirstBlock ==
  ASSUME TypesOK, InitialRead, NEW p \in Pipes, off[p] = 0, idx[p] = 0,
         file[p] # <<>>
  PROVE  BlockOK(p)' /\ Live(p)' /\ Passed(p)' = 0
<1> DEFINE n == NRead(p)
<1>1. /\ Len(file[p]) \in Nat /\ Len(file[p]) > 0 /\ RD_NUM \in Nat /\ RD_NUM > 0
      /\ n \in 0 .. RD_NUM /\ n <= Len(file[p])
      /\ n < RD_NUM => n = Len(file[p])
  BY NReadBound, Sorted, BlockAssumption, FilesAssumption, SMTT(20) DEF TypesOK
<1>2. /\ off'[p] = n /\ idx'[p] = 0 /\ end'[p] = n /\ UNCHANGED file
      /\ \A c \in Cells : buf'[p][c] = IF c < n THEN c + 1 ELSE buf[p][c]
  BY <1>1 DEF InitialRead, TypesOK, Block, Cells
<1>3. n > 0
  BY <1>1
<1>4. \A c \in 0 .. end'[p] - 1 : buf'[p][c] = off'[p] - end'[p] + c + 1
  <2> TAKE c \in 0 .. end'[p] - 1
  <2>1. c \in Cells /\ c < n
    BY <1>1, <1>2 DEF Cells
  <2> QED
    BY <1>1, <1>2, <2>1
<1>5. n = RD_NUM => Boundary(off'[p])
  <2>1. 1 \in 0 .. RD_NUM /\ RD_NUM = 1 * RD_NUM
    BY <1>1
  <2> QED
    BY <1>2, <2>1 DEF Boundary
<1>6. BlockOK(p)'
  BY <1>1, <1>2, <1>3, <1>4, <1>5 DEF BlockOK
<1> QED
  BY <1>1, <1>2, <1>3, <1>6 DEF Live, Passed

\* What the cursor of a pipe shows, as a formula that can be primed.
CursorFacts(p) ==
  BlockOK(p) =>
    /\ Live(p) => /\ Passed(p) + 1 \in 1 .. Len(file[p]) /\ Passed(p) \in Nat
                  /\ CurId(p) = file[p][Passed(p) + 1]
    /\ end[p] = 0 /\ idx[p] = 0 /\ ~FillsLastBlock(file[p]) =>
         /\ off[p] = Len(file[p]) /\ off[p] \in 1 .. Len(file[p])
         /\ Boundary(Len(file[p]))
         /\ CurId(p) \in Nat /\ CurId(p) < file[p][off[p]]

\* What CursorFacts says, of this state.
LEMMA CursorFactsNow == TypesOK => \A p \in Pipes : CursorFacts(p)
BY LiveCursor, StaleHead DEF CursorFacts

\* What CursorFacts says, of the next state.
LEMMA CursorFactsNext == TypesOK' => (\A p \in Pipes : CursorFacts(p))'
BY CursorFactsNow, PTL

---------------------------------------------------------------------------
(* What a step leaves alone *)

\* Ids are positive numbers.
LEMMA IdsNat == \A d \in Ids : d \in Nat /\ d > 0
BY IdsAssumption

\* An element of a sequence has the type of the elements.
LEMMA ElementType ==
  ASSUME NEW S, NEW s \in Seq(S), NEW r \in 1 .. Len(s)
  PROVE  s[r] \in S
OBVIOUS

\* The last element of a sequence has the type of the elements.
LEMMA LastElement ==
  ASSUME NEW S, NEW s \in Seq(S), s # <<>>
  PROVE  s[Len(s)] \in S
OBVIOUS

\* The last element after appending is the appended one.
LEMMA LastOfAppend ==
  ASSUME NEW S, NEW s \in Seq(S), NEW e
  PROVE  Append(s, e) # <<>> /\ Append(s, e)[Len(Append(s, e))] = e
OBVIOUS

\* ... at the last position.
LEMMA AppendLast ==
  ASSUME NEW S, NEW s \in Seq(S), NEW e
  PROVE  /\ Len(Append(s, e)) \in DOMAIN Append(s, e)
         /\ Append(s, e)[Len(Append(s, e))] = e
OBVIOUS

\* The last reported id is a number.
LEMMA LastIdType ==
  ASSUME TypesOK
  PROVE  LastId \in Nat
<1>1. CASE rounds = <<>>
  BY <1>1 DEF LastId
<1>2. CASE rounds # <<>>
  <2>1. rounds \in Seq([id : Ids, calls : Seq(Pipes \X Nat)])
    BY DEF TypesOK
  <2>2. rounds[Len(rounds)] \in [id : Ids, calls : Seq(Pipes \X Nat)]
    BY <1>2, <2>1, LastElement
  <2>3. rounds[Len(rounds)].id \in Ids
    BY <2>2
  <2> QED
    BY <1>2, <2>3, IdsNat DEF LastId
<1> QED
  BY <1>1, <1>2

\* What depends on the files only stays while the files do.
LEMMA FileFrame ==
  ASSUME UNCHANGED file
  PROVE  /\ \A d : Common(d)' <=> Common(d)
         /\ \A m : NoCommonAbove(m)' <=> NoCommonAbove(m)
         /\ Sized(file)' <=> Sized(file)
<1>1. \A d : Common(d)' <=> Common(d)
  BY DEF Common
<1>2. \A m : NoCommonAbove(m)' <=> NoCommonAbove(m)
  BY <1>1 DEF NoCommonAbove
<1> QED
  BY <1>1, <1>2

\* What depends on the reported rounds only stays while they do.
LEMMA RoundsFrame ==
  ASSUME UNCHANGED <<file, rounds>>, ReportedOK
  PROVE  LastId' = LastId /\ ReportedOK'
<1>1. LastId' = LastId
  BY DEF LastId
<1>2. \A d : Common(d)' <=> Common(d)
  BY FileFrame
<1> QED
  BY <1>1, <1>2 DEF ReportedOK

\* What depends on blocks and cursors only stays while they do.
LEMMA PipesFrame ==
  ASSUME UNCHANGED <<file, junk, pipeVars>>
  PROVE  /\ \A p \in Pipes : /\ CurId(p)' = CurId(p)
                             /\ Live(p)' <=> Live(p)
                             /\ BlockOK(p)' <=> BlockOK(p)
                             /\ \A m : Stale(p, m)' <=> Stale(p, m)
                             /\ \A m : Ahead(p, m)' <=> Ahead(p, m)
         /\ \A m : NonePassed(m)' <=> NonePassed(m)
<1>1. UNCHANGED <<file, junk>> /\ UNCHANGED <<off, buf, idx, end>>
  BY DEF pipeVars
<1>2. \A p \in Pipes : /\ CurId(p)' = CurId(p) /\ Passed(p)' = Passed(p)
                       /\ Live(p)' <=> Live(p)
                       /\ BlockOK(p)' <=> BlockOK(p)
                       /\ \A m : Stale(p, m)' <=> Stale(p, m)
                       /\ \A m : Ahead(p, m)' <=> Ahead(p, m)
  BY <1>1, SamePipe
<1>3. \A d : Common(d)' <=> Common(d)
  BY <1>1, FileFrame
<1>4. \A m : NonePassed(m)' <=> NonePassed(m)
  BY <1>1, <1>2, <1>3 DEF NonePassed
<1> QED
  BY <1>2, <1>4

\* max and LastId are numbers in this state.
LEMMA MaxType == TypesOK => max \in Nat /\ LastId \in Nat
<1> SUFFICES ASSUME TypesOK PROVE max \in Nat /\ LastId \in Nat
  OBVIOUS
<1>1. max \in Ids \cup {0}
  BY DEF TypesOK
<1> QED
  BY <1>1, LastIdType, IdsNat

\* max and LastId are numbers in the next state.
LEMMA MaxTypeNext == TypesOK' => (max \in Nat /\ LastId \in Nat)'
BY MaxType, PTL

\* A step that moves the cursor of one pipe and passes only items below every
\* pending common id.
LEMMA OnePipe ==
  ASSUME TypesOK, NEW q \in Pipes, UNCHANGED <<file, junk>>,
         \A p \in Pipes \ {q} : /\ off'[p] = off[p] /\ buf'[p] = buf[p]
                                /\ idx'[p] = idx[p] /\ end'[p] = end[p]
  PROVE  /\ \A p \in Pipes \ {q} : /\ CurId(p)' = CurId(p)
                                   /\ Live(p)' <=> Live(p)
                                   /\ BlockOK(p)' <=> BlockOK(p)
                                   /\ \A m : Ahead(p, m)' <=> Ahead(p, m)
         /\ \A m : /\ NonePassed(m)
                   /\ \A d \in Ids : Common(d) /\ d > m =>
                        \A k \in 1 .. Passed(q)' : file[q][k] < d
                   => NonePassed(m)'
<1>1. \A p \in Pipes \ {q} : /\ CurId(p)' = CurId(p) /\ Passed(p)' = Passed(p)
                             /\ Live(p)' <=> Live(p)
                             /\ BlockOK(p)' <=> BlockOK(p)
                             /\ \A m : Ahead(p, m)' <=> Ahead(p, m)
  BY SamePipe
<1>2. \A d : Common(d)' <=> Common(d)
  BY FileFrame
<1>3. ASSUME NEW m, NonePassed(m),
             \A d \in Ids : Common(d) /\ d > m =>
               \A k \in 1 .. Passed(q)' : file[q][k] < d
      PROVE  NonePassed(m)'
  <2>1. \A d \in Ids : Common(d) /\ d > m =>
           \A p \in Pipes : \A k \in 1 .. Passed(p)' : file'[p][k] < d
    BY <1>1, <1>3 DEF NonePassed
  <2> QED
    BY <1>2, <2>1 DEF NonePassed
<1> QED
  BY <1>1, <1>3

---------------------------------------------------------------------------
(* Every step preserves the invariant *)

Parts == BlocksOK /\ CursorsOK /\ ReportedOK /\ ProgressOK

\* The four parts hold initially.
LEMMA InitParts == Init => Parts
<1> SUFFICES ASSUME Init PROVE Parts
  OBVIOUS
<1>1. LastId = 0 /\ DOMAIN rounds = {}
  BY DEF Init, LastId
<1>2. \A d \in Ids : ~(d <= 0)
  BY IdsAssumption
<1> QED
  BY <1>1, <1>2 DEF Init, Parts, BlocksOK, CursorsOK, ReportedOK, ProgressOK

\* A failing fopen() keeps them.
LEMMA OpenFailsParts ==
  ASSUME TypesOK, Sized(file), Parts, OpenFails
  PROVE  Parts'
<1>1. pc' = "exit_1" /\ UNCHANGED <<file, rounds>>
  BY DEF OpenFails
<1>2. ReportedOK'
  BY <1>1, RoundsFrame DEF Parts
<1> QED
  BY <1>1, <1>2 DEF Parts, BlocksOK, CursorsOK, ProgressOK

\* The initial read establishes them for the blocks.
LEMMA InitialReadParts ==
  ASSUME TypesOK, TypesOK', Sized(file), Parts, InitialRead
  PROVE  Parts'
<1>1. /\ pc = "open" /\ pc' = "scan" /\ UNCHANGED <<file, rounds, goOn>>
      /\ rounds = <<>> /\ goOn /\ LastId = 0
      /\ \A p \in Pipes : off[p] = 0 /\ idx[p] = 0 /\ file[p] # <<>>
  BY DEF InitialRead, Parts, CursorsOK, ProgressOK, LastId, Sized
<1>2. \A p \in Pipes : BlockOK(p)' /\ Live(p)' /\ Passed(p)' = 0
  BY <1>1, FirstBlock
<1>3. LastId' = 0 /\ ReportedOK'
  BY <1>1, RoundsFrame DEF Parts
<1>4. \A p \in Pipes : CurId(p)' > 0
  <2> TAKE p \in Pipes
  <2>1. 1 \in 1 .. Len(file[p]) /\ CurId(p)' = file'[p][1]
    BY <1>1, <1>2, CursorFactsNext DEF CursorFacts
  <2> QED
    BY <1>1, <2>1, Sorted
<1>5. NonePassed(0)'
  BY <1>2 DEF NonePassed
<1>6. BlocksOK'
  BY <1>2 DEF BlocksOK
<1>7. CursorsOK'
  BY <1>1, <1>2, <1>3, <1>4 DEF CursorsOK, Ahead
<1>8. ProgressOK'
  BY <1>1, <1>3, <1>5 DEF ProgressOK
<1> QED
  BY <1>3, <1>6, <1>7, <1>8 DEF Parts

\* A scan finds the greatest current id, and no common id is below it.
LEMMA ScanParts ==
  ASSUME TypesOK, TypesOK', Sized(file), Parts, Scan
  PROVE  Parts'
<1>1. /\ pc = "scan" /\ pc' \in {"match", "jump"} /\ i' = 0
      /\ UNCHANGED <<file, junk, pipeVars, rounds, goOn>>
  BY DEF Scan
<1>2. \A p \in Pipes : BlockOK(p) /\ Ahead(p, LastId) /\ CurId(p) <= max'
  BY <1>1 DEF Scan, Parts, BlocksOK, CursorsOK
<1>3. NonePassed(LastId) /\ goOn
  BY <1>1 DEF Parts, ProgressOK
<1>4. LastId \in Nat /\ max' \in Nat
  BY MaxType, MaxTypeNext
<1>5. max' > LastId
  <2>1. PICK q \in Pipes : ~Boundary(Len(file[q]))
    BY DEF Sized
  <2>2. Live(q) /\ CurId(q) > LastId
    BY <1>2, <2>1, CursorFactsNow DEF CursorFacts, Ahead, Stale, Sized
  <2>3. CurId(q) \in Nat
    BY <1>2, <2>2, CursorFactsNow, Sorted DEF CursorFacts
  <2> QED
    BY <1>2, <1>4, <2>2, <2>3
<1>6. ASSUME NEW p \in Pipes, CurId(p) = max'
      PROVE  Live(p) /\ file[p][Passed(p) + 1] = max' /\ Passed(p) + 1 \in 1 .. Len(file[p])
  <2>1. Live(p)
    BY <1>2, <1>4, <1>5, <1>6 DEF Ahead, Stale
  <2> QED
    BY <1>2, <1>6, <2>1, CursorFactsNow DEF CursorFacts
<1>7. \A d \in Ids : Common(d) /\ d > LastId => d >= max'
  <2> TAKE d \in Ids
  <2> HAVE Common(d) /\ d > LastId
  <2>1. PICK q \in Pipes : CurId(q) = max'
    BY DEF Scan
  <2>2. PICK k \in DOMAIN file[q] : file[q][k] = d
    BY DEF Common
  <2>3. k \in 1 .. Len(file[q]) /\ d \in Nat
    BY <2>2, Sorted
  <2>4. k > Passed(q)
    BY <1>3, <2>2, <2>3, Numbers DEF NonePassed, Passed
  <2>5. Passed(q) + 1 <= k
    BY <2>3, <2>4, Numbers DEF Passed
  <2> QED
    BY <1>6, <2>1, <2>2, <2>3, <2>5, Sorted
<1>8. ReportedOK' /\ LastId' = LastId
  BY <1>1, RoundsFrame DEF Parts
<1>9. BlocksOK'
  BY <1>1, <1>2, PipesFrame DEF BlocksOK
<1>10. \A d : Common(d)' <=> Common(d)
  BY <1>1, FileFrame
<1>11. CASE pc' = "match"
  <2>1. \A p \in Pipes : CurId(p) = max'
    BY <1>11 DEF Scan
  <2>2. \A p \in Pipes : Live(p)' /\ CurId(p)' = max'
    BY <1>1, <1>6, <2>1, PipesFrame
  <2>3. \A p \in Pipes : ~(p < 0)
    BY DEF Pipes
  <2>4. CursorsOK'
    BY <1>1, <1>4, <1>5, <1>8, <1>11, <2>2, <2>3 DEF CursorsOK
  <2>5. Common(max')
    BY <1>6, <2>1, Sorted DEF Common
  <2>6. NonePassed(max')
    BY <1>3, <1>4, <1>5, IdsAssumption DEF NonePassed
  <2>7. NonePassed(max)' /\ Common(max)'
    BY <1>1, <1>10, <2>5, <2>6, PipesFrame
  <2>8. ProgressOK'
    BY <1>1, <1>3, <1>7, <1>8, <1>10, <1>11, <2>7 DEF ProgressOK
  <2> QED
    BY <1>8, <1>9, <2>4, <2>8 DEF Parts
<1>12. CASE pc' = "jump"
  <2>1. CursorsOK'
    BY <1>1, <1>2, <1>5, <1>8, <1>12, PipesFrame DEF CursorsOK
  <2>2. ProgressOK'
    BY <1>1, <1>3, <1>7, <1>8, <1>10, <1>12, PipesFrame DEF ProgressOK
  <2> QED
    BY <1>8, <1>9, <2>1, <2>2 DEF Parts
<1> QED
  BY <1>1, <1>11, <1>12

\* The control points of the jump loop.
LEMMA JumpSkipParts ==
  ASSUME TypesOK, Sized(file), Parts, JumpSkip
  PROVE  Parts'
<1>1. /\ pc = "jump" /\ pc' \in {"jump", "again"}
      /\ UNCHANGED <<file, junk, pipeVars, rounds, goOn, max>>
  BY NextPipeType DEF JumpSkip, TypesOK
<1>2. ReportedOK' /\ LastId' = LastId
  BY <1>1, RoundsFrame DEF Parts
<1>3. \A d : Common(d)' <=> Common(d)
  BY <1>1, FileFrame
<1>4. BlocksOK'
  BY <1>1, PipesFrame DEF BlocksOK, Parts
<1>5. CursorsOK'
  BY <1>1, <1>2, PipesFrame DEF CursorsOK, Parts
<1>6. ProgressOK'
  BY <1>1, <1>2, <1>3, PipesFrame DEF ProgressOK, Parts
<1> QED
  BY <1>2, <1>4, <1>5, <1>6 DEF Parts

\* Entering jump() keeps them.
LEMMA JumpEnterParts ==
  ASSUME TypesOK, Sized(file), Parts, JumpEnter
  PROVE  Parts'
<1>1. /\ pc = "jump" /\ pc' = "jumping"
      /\ UNCHANGED <<file, junk, pipeVars, rounds, goOn, max, i>>
  BY DEF JumpEnter
<1>2. ReportedOK' /\ LastId' = LastId
  BY <1>1, RoundsFrame DEF Parts
<1>3. \A d : Common(d)' <=> Common(d)
  BY <1>1, FileFrame
<1>4. BlocksOK'
  BY <1>1, PipesFrame DEF BlocksOK, Parts
<1>5. CursorsOK'
  <2>1. \A p \in Pipes : Ahead(p, LastId)
    BY <1>1 DEF Parts, CursorsOK
  <2>2. \A p \in Pipes : end'[p] > 0 => Live(p)' /\ CurId(p)' > LastId
    <3>1. UNCHANGED end
      BY <1>1 DEF pipeVars
    <3> QED
      BY <1>1, <2>1, <3>1, PipesFrame DEF Ahead, Stale
  <2> QED
    BY <1>1, <1>2, <2>1, <2>2, PipesFrame DEF CursorsOK, Parts
<1>6. ProgressOK'
  BY <1>1, <1>2, <1>3, PipesFrame DEF ProgressOK, Parts
<1> QED
  BY <1>2, <1>4, <1>5, <1>6 DEF Parts

\* A pipe that cannot reach max holds no pending common id.
LEMMA JumpFailParts ==
  ASSUME TypesOK, Sized(file), Parts, JumpFail
  PROVE  Parts'
<1>1. /\ pc = "jumping" /\ pc' = "exit_0" /\ i \in Pipes
      /\ ~FarEnough(i) /\ end[i] # RD_NUM
      /\ UNCHANGED <<file, junk, pipeVars, rounds, goOn, max, i>>
  BY DEF JumpFail, TypesOK
<1>2. ReportedOK' /\ LastId' = LastId
  BY <1>1, RoundsFrame DEF Parts
<1>3. BlockOK(i) /\ off[i] = Len(file[i])
  BY <1>1, Numbers DEF Parts, BlocksOK, BlockOK
<1>4. max \in Nat /\ LastId \in Nat
  BY MaxType
<1>5. ASSUME NEW d \in Ids, Common(d), d > LastId
      PROVE  FALSE
  <2>1. d >= max
    BY <1>1, <1>5 DEF Parts, ProgressOK
  <2>2. PICK k \in DOMAIN file[i] : file[i][k] = d
    BY <1>1, <1>5 DEF Common
  <2>3. k \in 1 .. Len(file[i]) /\ d \in Nat
    BY <1>1, <2>2, Sorted
  <2>4. CASE end[i] > 0
    <3>1. FarId(i) = file[i][Len(file[i])] /\ Len(file[i]) \in 1 .. Len(file[i])
      BY <1>1, <1>3, <2>4, FarItem
    <3>2. ~(FarId(i) >= max)
      BY <1>1, <2>4 DEF FarEnough
    <3> QED
      BY <1>1, <1>4, <2>1, <2>2, <2>3, <3>1, <3>2, Sorted
  <2>5. CASE end[i] = 0
    <3>1. k \in 1 .. Passed(i)
      BY <1>1, <1>3, <2>3, <2>5, Numbers DEF Passed
    <3>2. file[i][k] < d
      BY <1>1, <1>5, <3>1 DEF Parts, ProgressOK, NonePassed
    <3> QED
      BY <2>2, <2>3, <3>2
  <2> QED
    BY <1>1, <2>4, <2>5, Numbers
<1>6. NoCommonAbove(LastId)
  BY <1>4, <1>5, IdsAssumption DEF NoCommonAbove
<1>7. BlocksOK'
  BY <1>1, PipesFrame DEF BlocksOK, Parts
<1>8. CursorsOK'
  BY <1>1 DEF CursorsOK
<1>9. ProgressOK'
  BY <1>1, <1>2, <1>6, FileFrame DEF ProgressOK
<1> QED
  BY <1>2, <1>7, <1>8, <1>9 DEF Parts

\* What rebuf(q) leaves alone.
LEMMA RebufOthers ==
  ASSUME TypesOK, NEW q \in Pipes, rebuf(q)
  PROVE  \A p \in Pipes \ {q} : /\ off'[p] = off[p] /\ buf'[p] = buf[p]
                                /\ idx'[p] = idx[p] /\ end'[p] = end[p]
BY DEF TypesOK, rebuf

\* Reading a block on in jump() skips no common id.
LEMMA JumpRebufParts ==
  ASSUME TypesOK, TypesOK', Sized(file), Parts, JumpRebuf
  PROVE  Parts'
<1> PICK q \in Pipes : q = i
  BY DEF TypesOK
<1>1. /\ pc = "jumping" /\ pc' = "jumping" /\ i = q /\ i' = q
      /\ ~FarEnough(q) /\ end[q] = RD_NUM /\ rebuf(q)
      /\ UNCHANGED <<file, junk, rounds, goOn, max, pc>>
  BY DEF JumpRebuf
<1>2. ReportedOK' /\ LastId' = LastId
  BY <1>1, RoundsFrame DEF Parts
<1>3. BlockOK(q) /\ end[q] > 0 /\ Live(q) /\ CurId(q) > LastId
  BY <1>1, Numbers DEF Parts, BlocksOK, CursorsOK
<1>4. max \in Nat /\ LastId \in Nat
  BY MaxType
<1>5. off[q] \in 1 .. Len(file[q]) /\ file[q][off[q]] < max
  <2>1. off[q] \in 1 .. Len(file[q]) /\ FarId(q) = file[q][off[q]]
    BY <1>1, <1>3, FarItem
  <2> QED
    BY <1>1, <1>3, <1>4, <2>1, Sorted DEF FarEnough
<1>6. /\ BlockOK(q)' /\ idx'[q] = 0 /\ Passed(q)' = off[q] /\ end'[q] \in Nat
      /\ end'[q] = 0 => off'[q] = off[q]
  BY <1>1, <1>3, RebufBlock
<1>7. end'[q] > 0 => Live(q)' /\ CurId(q)' > LastId
  <2> HAVE end'[q] > 0
  <2>1. Live(q)'
    BY <1>6 DEF Live
  <2>2. off[q] + 1 \in 1 .. Len(file[q]) /\ CurId(q)' = file[q][off[q] + 1]
    BY <1>1, <1>6, <2>1, CursorFactsNext DEF CursorFacts
  <2>3. Passed(q) + 1 \in 1 .. Len(file[q]) /\ CurId(q) = file[q][Passed(q) + 1]
        /\ Passed(q) + 1 <= off[q] + 1
    BY <1>1, <1>3, CursorFactsNow, Numbers, SMTT(20) DEF CursorFacts, Passed, Live
  <2> QED
    BY <1>1, <1>3, <1>4, <2>1, <2>2, <2>3, Sorted
<1>8. \A d \in Ids : Common(d) /\ d > LastId =>
        \A k \in 1 .. Passed(q)' : file[q][k] < d
  <2> TAKE d \in Ids
  <2> HAVE Common(d) /\ d > LastId
  <2> TAKE k \in 1 .. Passed(q)'
  <2>1. d >= max /\ d \in Nat
    BY <1>1, IdsAssumption DEF Parts, ProgressOK
  <2>2. k \in 1 .. Len(file[q]) /\ k <= off[q]
    BY <1>5, <1>6
  <2> QED
    BY <1>1, <1>4, <1>5, <2>1, <2>2, Sorted
<1>9. /\ \A p \in Pipes \ {q} : /\ off'[p] = off[p] /\ buf'[p] = buf[p]
                                /\ idx'[p] = idx[p] /\ end'[p] = end[p]
  BY <1>1, RebufOthers
<1>10. NonePassed(LastId)'
  <2>1. NonePassed(LastId)
    BY <1>1 DEF Parts, ProgressOK
  <2> QED
    BY <1>1, <1>2, <1>8, <1>9, <2>1, OnePipe
<1>11. \A p \in Pipes \ {q} : /\ BlockOK(p)' <=> BlockOK(p)
                              /\ \A m : Ahead(p, m)' <=> Ahead(p, m)
  BY <1>1, <1>9, OnePipe
<1>12. BlocksOK'
  BY <1>1, <1>6, <1>11 DEF BlocksOK, Parts
<1>13. CursorsOK'
  BY <1>1, <1>2, <1>7, <1>11 DEF CursorsOK, Parts
<1>14. ProgressOK'
  BY <1>1, <1>2, <1>10, FileFrame DEF ProgressOK, Parts
<1> QED
  BY <1>2, <1>12, <1>13, <1>14 DEF Parts

\* Advancing inside the block in jump() skips no common id.
LEMMA JumpLandParts ==
  ASSUME TypesOK, TypesOK', Sized(file), Parts, JumpLand
  PROVE  Parts'
<1> PICK q \in Pipes : q = i
  BY DEF TypesOK
<1>1. /\ pc = "jumping" /\ pc' \in {"jump", "again"} /\ i = q /\ FarEnough(q)
      /\ UNCHANGED <<file, junk, off, buf, end, rounds, goOn, max>>
  BY NextPipeType DEF JumpLand
<1>2. ReportedOK' /\ LastId' = LastId
  BY <1>1, RoundsFrame DEF Parts
<1>3. max \in Nat /\ LastId \in Nat
  BY MaxType
<1>4. BlockOK(q) /\ end[q] > 0 /\ Live(q) /\ CurId(q) > LastId /\ max > LastId
  <2>1. end[q] > 0
    BY <1>1, Numbers DEF FarEnough
  <2> QED
    BY <1>1, <2>1 DEF Parts, BlocksOK, CursorsOK
<1>5. PICK k \in idx[q] .. end[q] :
        /\ \A c \in idx[q] .. k - 1 : IdAt(q, buf[q][c]) < max
        /\ k < end[q] => IdAt(q, buf[q][k]) >= max
        /\ idx' = [idx EXCEPT ![q] = k]
  BY <1>1 DEF JumpLand
<1>6. k \in Nat /\ k < end[q] /\ idx'[q] = k
  <2>1. k \in Nat /\ k <= end[q] /\ idx[q] <= k /\ idx[q] < end[q] /\ idx'[q] = k
    BY <1>4, <1>5, Numbers DEF Live, TypesOK
  <2>2. ASSUME k = end[q] PROVE FALSE
    <3>1. end[q] - 1 \in idx[q] .. k - 1
      BY <2>1, <2>2, Numbers
    <3>2. FarId(q) < max
      BY <1>5, <3>1 DEF FarId
    <3>3. FarId(q) >= max /\ FarId(q) \in Nat
      BY <1>1, <1>4, FarItem, Sorted DEF FarEnough
    <3> QED
      BY <1>3, <3>2, <3>3
  <2> QED
    BY <2>1, <2>2, Numbers
<1>7. /\ \A p \in Pipes \ {q} : /\ off'[p] = off[p] /\ buf'[p] = buf[p]
                                /\ idx'[p] = idx[p] /\ end'[p] = end[p]
  BY <1>1, <1>5 DEF TypesOK
<1>8. BlockOK(q)'
  BY <1>1, <1>4, Zenon DEF BlockOK, Boundary
<1>9. Live(q)' /\ CurId(q)' > LastId
  <2>1. Live(q)'
    BY <1>1, <1>6 DEF Live
  <2>2. CurId(q)' = IdAt(q, buf[q][k])
    BY <1>1, <1>6 DEF CurId, IdAt
  <2>3. IdAt(q, buf[q][k]) >= max /\ IdAt(q, buf[q][k]) \in Nat
    <3>1. k \in Cells
      BY <1>6, Numbers DEF Cells
    <3> QED
      BY <1>5, <1>6, <3>1, CellType, IdsNat
  <2> QED
    BY <1>3, <1>4, <2>1, <2>2, <2>3
<1>10. \A d \in Ids : Common(d) /\ d > LastId =>
         \A j \in 1 .. Passed(q)' : file[q][j] < d
  <2> TAKE d \in Ids
  <2> HAVE Common(d) /\ d > LastId
  <2> TAKE j \in 1 .. Passed(q)'
  <2>1. d >= max /\ d \in Nat
    BY <1>1, IdsNat DEF Parts, ProgressOK
  <2>2. Passed(q)' = off[q] - end[q] + k /\ j \in Nat /\ j > 0
    BY <1>1, <1>6, Numbers DEF Passed
  <2>3. CASE j <= Passed(q)
    <3>1. j \in 1 .. Passed(q)
      BY <2>2, <2>3, Numbers DEF Passed
    <3> QED
      BY <1>1, <3>1 DEF Parts, ProgressOK, NonePassed
  <2>4. CASE j > Passed(q)
    <3> DEFINE c == j - 1 - (off[q] - end[q])
    <3>1. c \in idx[q] .. k - 1 /\ c \in 0 .. end[q] - 1
      BY <1>6, <2>2, <2>4, Numbers, SMTT(20) DEF Passed
    <3>2. off[q] - end[q] + c + 1 = j
      BY <2>2, Numbers
    <3>3. IdAt(q, buf[q][c]) = file[q][j] /\ j \in 1 .. Len(file[q])
      BY <1>4, <3>1, <3>2, LoadedCell
    <3>4. IdAt(q, buf[q][c]) < max
      BY <1>5, <3>1
    <3> QED
      BY <1>3, <2>1, <3>3, <3>4, Sorted
  <2> QED
    BY <2>2, <2>3, <2>4, Numbers DEF Passed
<1>11. NonePassed(LastId)'
  <2>1. NonePassed(LastId)
    BY <1>1 DEF Parts, ProgressOK
  <2> QED
    BY <1>1, <1>2, <1>7, <1>10, <2>1, OnePipe
<1>12. \A p \in Pipes \ {q} : /\ BlockOK(p)' <=> BlockOK(p)
                              /\ \A m : Ahead(p, m)' <=> Ahead(p, m)
  BY <1>1, <1>7, OnePipe
<1>13. BlocksOK'
  BY <1>1, <1>8, <1>12 DEF BlocksOK, Parts
<1>14. \A p \in Pipes : Ahead(p, LastId)'
  <2>1. Ahead(q, LastId)'
    BY <1>2, <1>9 DEF Ahead
  <2>2. \A p \in Pipes \ {q} : Ahead(p, LastId)'
    BY <1>1, <1>2, <1>12 DEF Parts, CursorsOK
  <2> QED
    BY <2>1, <2>2
<1>15. CursorsOK'
  BY <1>1, <1>2, <1>4, <1>14 DEF CursorsOK
<1>16. ProgressOK'
  BY <1>1, <1>2, <1>11, FileFrame DEF ProgressOK, Parts
<1> QED
  BY <1>2, <1>13, <1>15, <1>16 DEF Parts

\* At a match the current item of the running pipe is a loaded one.
LEMMA MatchLive ==
  ASSUME TypesOK, Sized(file), Parts, pc = "match", NEW q \in Pipes, q = i,
         CurId(q) = max
  PROVE  /\ BlockOK(q) /\ Live(q) /\ max \in Nat
         /\ Passed(q) + 1 \in 1 .. Len(file[q]) /\ file[q][Passed(q) + 1] = max
<1>1. BlockOK(q) /\ ((Live(q) /\ CurId(q) >= max) \/ Stale(q, max)) /\ max \in Nat
  BY MaxType DEF Parts, BlocksOK, CursorsOK
<1>2. Live(q)
  BY <1>1 DEF Stale
<1> QED
  BY <1>1, <1>2, CursorFactsNow DEF CursorFacts

\* Reporting an item inside a block keeps them.
LEMMA MatchItemParts ==
  ASSUME TypesOK, TypesOK', Sized(file), Parts, MatchItem
  PROVE  Parts'
<1> PICK q \in Pipes : q = i
  BY DEF TypesOK
<1>1. /\ pc = "match" /\ pc' = "match" /\ i = q /\ i' = q
      /\ CurId(q) = max /\ idx[q] + 1 # end[q] /\ idx' = [idx EXCEPT ![q] = @ + 1]
      /\ UNCHANGED <<file, junk, off, buf, end, rounds, goOn, max>>
  BY DEF MatchItem, Matching
<1>2. ReportedOK' /\ LastId' = LastId
  BY <1>1, RoundsFrame DEF Parts
<1>3. /\ BlockOK(q) /\ Live(q) /\ max \in Nat
      /\ Passed(q) + 1 \in 1 .. Len(file[q]) /\ file[q][Passed(q) + 1] = max
  BY <1>1, MatchLive
<1>4. /\ \A p \in Pipes \ {q} : /\ off'[p] = off[p] /\ buf'[p] = buf[p]
                                /\ idx'[p] = idx[p] /\ end'[p] = end[p]
  BY <1>1 DEF TypesOK
<1>5. BlockOK(q)'
  BY <1>1, <1>3, Zenon DEF BlockOK, Boundary
<1>6. idx'[q] = idx[q] + 1 /\ Live(q)' /\ Passed(q)' = Passed(q) + 1
  <2>1. idx'[q] = idx[q] + 1
    BY <1>1 DEF TypesOK
  <2>2. Live(q)'
    BY <1>1, <1>3, <2>1, Numbers DEF Live
  <2>3. Passed(q)' = Passed(q) + 1
    BY <1>1, <2>1, Numbers DEF Passed
  <2> QED
    BY <2>1, <2>2, <2>3
<1>7. CurId(q)' >= max
  <2>1. Passed(q)' + 1 \in 1 .. Len(file[q]) /\ CurId(q)' = file[q][Passed(q)' + 1]
    BY <1>1, <1>5, <1>6, CursorFactsNext DEF CursorFacts
  <2> QED
    BY <1>3, <1>6, <2>1, Sorted
<1>8. NonePassed(max)'
  <2>1. NonePassed(max)
    BY <1>1 DEF Parts, ProgressOK
  <2>2. \A d \in Ids : Common(d) /\ d > max =>
          \A k \in 1 .. Passed(q)' : file[q][k] < d
    BY <1>3, <1>6, Sorted, IdsNat
  <2> QED
    BY <1>1, <1>4, <2>1, <2>2, OnePipe
<1>9. \A p \in Pipes \ {q} : /\ BlockOK(p)' <=> BlockOK(p)
                             /\ CurId(p)' = CurId(p)
                             /\ Live(p)' <=> Live(p)
                             /\ \A m : Ahead(p, m)' <=> Ahead(p, m)
  BY <1>1, <1>4, OnePipe
<1>10. BlocksOK'
  BY <1>1, <1>5, <1>9 DEF BlocksOK, Parts
<1>11. CursorsOK'
  <2>1. \A p \in Pipes :
          /\ p > i' => Live(p)' /\ CurId(p)' = max'
          /\ p = i' => (Live(p)' /\ CurId(p)' >= max') \/ Stale(p, max)'
          /\ p < i' /\ goOn' => Ahead(p, max)'
    <3> TAKE p \in Pipes
    <3>1. CASE p = q
      BY <1>1, <1>6, <1>7, <3>1 DEF Pipes
    <3>2. CASE p # q
      BY <1>1, <1>9, <3>2 DEF Parts, CursorsOK
    <3> QED
      BY <3>1, <3>2
  <2>2. max' > LastId'
    BY <1>1, <1>2 DEF CursorsOK, Parts
  <2> QED
    BY <1>1, <2>1, <2>2 DEF CursorsOK
<1>12. ProgressOK'
  BY <1>1, <1>2, <1>8, FileFrame DEF ProgressOK, Parts
<1> QED
  BY <1>2, <1>10, <1>11, <1>12 DEF Parts

\* Reporting the last item of a full block and reading on keeps them, also when
\* nothing is left to read.
LEMMA MatchRebufParts ==
  ASSUME TypesOK, TypesOK', Sized(file), Parts, MatchRebuf
  PROVE  Parts'
<1> PICK q \in Pipes : q = i
  BY DEF TypesOK
<1>1. /\ pc = "match" /\ pc' = "match" /\ i = q /\ i' = q /\ CurId(q) = max
      /\ idx[q] + 1 = end[q] /\ end[q] = RD_NUM /\ rebuf(q)
      /\ UNCHANGED <<file, junk, rounds, goOn, max>>
  BY DEF MatchRebuf, Matching
<1>2. ReportedOK' /\ LastId' = LastId
  BY <1>1, RoundsFrame DEF Parts
<1>3. /\ BlockOK(q) /\ Live(q) /\ max \in Nat
      /\ Passed(q) + 1 \in 1 .. Len(file[q]) /\ file[q][Passed(q) + 1] = max
      /\ Passed(q) + 1 = off[q]
  <2>1. Passed(q) + 1 = off[q]
    BY <1>1, Numbers DEF Passed
  <2> QED
    BY <1>1, <2>1, MatchLive
<1>4. /\ \A p \in Pipes \ {q} : /\ off'[p] = off[p] /\ buf'[p] = buf[p]
                                /\ idx'[p] = idx[p] /\ end'[p] = end[p]
  BY <1>1, RebufOthers
<1>5. /\ BlockOK(q)' /\ idx'[q] = 0 /\ Passed(q)' = off[q] /\ end'[q] \in Nat
      /\ end'[q] = 0 => off'[q] = off[q]
  BY <1>1, <1>3, RebufBlock
<1>6. (Live(q)' /\ CurId(q)' >= max) \/ Stale(q, max)'
  <2>1. CASE end'[q] > 0
    <3>1. Live(q)'
      BY <1>5, <2>1 DEF Live
    <3>2. off[q] + 1 \in 1 .. Len(file[q]) /\ CurId(q)' = file[q][off[q] + 1]
      BY <1>1, <1>5, <3>1, CursorFactsNext DEF CursorFacts
    <3> QED
      BY <1>3, <3>1, <3>2, Sorted
  <2>2. CASE end'[q] = 0
    <3>1. CurId(q)' < file[q][off[q]]
      BY <1>1, <1>5, <2>2, CursorFactsNext DEF CursorFacts, Sized
    <3> QED
      BY <1>1, <1>3, <1>5, <2>2, <3>1 DEF Stale
  <2> QED
    BY <1>5, <2>1, <2>2
<1>7. NonePassed(max)'
  <2>1. NonePassed(max)
    BY <1>1 DEF Parts, ProgressOK
  <2>2. \A d \in Ids : Common(d) /\ d > max =>
          \A k \in 1 .. Passed(q)' : file[q][k] < d
    BY <1>3, <1>5, Sorted, IdsNat
  <2> QED
    BY <1>1, <1>4, <2>1, <2>2, OnePipe
<1>8. \A p \in Pipes \ {q} : /\ BlockOK(p)' <=> BlockOK(p)
                             /\ CurId(p)' = CurId(p)
                             /\ Live(p)' <=> Live(p)
                             /\ \A m : Ahead(p, m)' <=> Ahead(p, m)
  BY <1>1, <1>4, OnePipe
<1>9. BlocksOK'
  BY <1>1, <1>5, <1>8 DEF BlocksOK, Parts
<1>10. CursorsOK'
  <2>1. \A p \in Pipes :
          /\ p > i' => Live(p)' /\ CurId(p)' = max'
          /\ p = i' => (Live(p)' /\ CurId(p)' >= max') \/ Stale(p, max)'
          /\ p < i' /\ goOn' => Ahead(p, max)'
    <3> TAKE p \in Pipes
    <3>1. CASE p = q
      BY <1>1, <1>6, <3>1 DEF Pipes
    <3>2. CASE p # q
      BY <1>1, <1>8, <3>2 DEF Parts, CursorsOK
    <3> QED
      BY <3>1, <3>2
  <2>2. max' > LastId'
    BY <1>1, <1>2 DEF CursorsOK, Parts
  <2> QED
    BY <1>1, <2>1, <2>2 DEF CursorsOK
<1>11. ProgressOK'
  BY <1>1, <1>2, <1>7, FileFrame DEF ProgressOK, Parts
<1> QED
  BY <1>2, <1>9, <1>10, <1>11 DEF Parts

\* Where a loop over the pipes goes.
LEMMA NextPipeCases ==
  ASSUME NEW q \in Pipes, q = i, NEW loop, NEW after, NextPipe(loop, after)
  PROVE  \/ pc' = loop /\ i' = q + 1 /\ q + 1 \in Pipes
         \/ pc' = after /\ i' = q /\ \A p \in Pipes : p <= q
BY PipesAssumption DEF NextPipe, Pipes

\* Reporting the last item of a file keeps them: no common id is left.
LEMMA MatchLastParts ==
  ASSUME TypesOK, TypesOK', Sized(file), Parts, MatchLast
  PROVE  Parts'
<1> PICK q \in Pipes : q = i
  BY DEF TypesOK
<1>1. /\ pc = "match" /\ i = q /\ CurId(q) = max /\ NextPipe("match", "tail")
      /\ idx[q] + 1 = end[q] /\ end[q] # RD_NUM /\ goOn' = FALSE
      /\ idx' = [idx EXCEPT ![q] = @ + 1]
      /\ UNCHANGED <<file, junk, off, buf, end, rounds, max>>
  BY DEF MatchLast, Matching
<1>2. ReportedOK' /\ LastId' = LastId
  BY <1>1, RoundsFrame DEF Parts
<1>3. \/ pc' = "match" /\ i' = q + 1 /\ q + 1 \in Pipes
      \/ pc' = "tail" /\ i' = q
  BY <1>1, NextPipeCases
<1>4. /\ BlockOK(q) /\ Live(q) /\ max \in Nat
      /\ Passed(q) + 1 \in 1 .. Len(file[q]) /\ file[q][Passed(q) + 1] = max
      /\ Passed(q) + 1 = off[q]
  BY <1>1, MatchLive, Numbers DEF Passed
<1>5. off[q] = Len(file[q])
  BY <1>1, <1>4, Numbers DEF BlockOK
<1>6. /\ \A p \in Pipes \ {q} : /\ off'[p] = off[p] /\ buf'[p] = buf[p]
                                /\ idx'[p] = idx[p] /\ end'[p] = end[p]
  BY <1>1 DEF TypesOK
<1>7. BlockOK(q)'
  BY <1>1, <1>4, Zenon DEF BlockOK, Boundary
<1>8. Passed(q)' = off[q]
  <2>1. idx'[q] = idx[q] + 1
    BY <1>1 DEF TypesOK
  <2> QED
    BY <1>1, <1>4, <2>1, Numbers DEF Passed
<1>9. NoCommonAbove(max)
  <2> SUFFICES ASSUME NEW d \in Ids, Common(d) PROVE d <= max
    BY DEF NoCommonAbove
  <2>1. PICK k \in DOMAIN file[q] : file[q][k] = d
    BY DEF Common
  <2> QED
    BY <1>4, <1>5, <2>1, Sorted
<1>10. NonePassed(max)'
  <2>1. NonePassed(max)
    BY <1>1 DEF Parts, ProgressOK
  <2>2. \A d \in Ids : Common(d) /\ d > max =>
          \A k \in 1 .. Passed(q)' : file[q][k] < d
    BY <1>4, <1>8, Sorted, IdsNat
  <2> QED
    BY <1>1, <1>6, <2>1, <2>2, OnePipe
<1>11. \A p \in Pipes \ {q} : /\ BlockOK(p)' <=> BlockOK(p)
                              /\ CurId(p)' = CurId(p)
                              /\ Live(p)' <=> Live(p)
  BY <1>1, <1>6, OnePipe
<1>12. BlocksOK'
  BY <1>1, <1>3, <1>7, <1>11 DEF BlocksOK, Parts
<1>13. max' > LastId' /\ max \in Nat
  BY <1>1, <1>2, <1>4 DEF CursorsOK, Parts
<1>14. CursorsOK'
  <2>1. CASE pc' = "tail"
    BY <1>1, <1>13, <2>1 DEF CursorsOK
  <2>2. CASE pc' = "match" /\ i' = q + 1
    <3>1. \A p \in Pipes : p > q => Live(p)' /\ CurId(p)' = max'
      <4> TAKE p \in Pipes
      <4> HAVE p > q
      <4>1. p # q
        BY DEF Pipes
      <4> QED
        BY <1>1, <1>11, <4>1 DEF Parts, CursorsOK
    <3>2. \A p \in Pipes : (p > i' => p > q) /\ (p = i' => p > q)
      BY <2>2 DEF Pipes
    <3>3. max' >= max'
      BY <1>1, <1>13
    <3>4. \A p \in Pipes :
            /\ p > i' => Live(p)' /\ CurId(p)' = max'
            /\ p = i' => (Live(p)' /\ CurId(p)' >= max') \/ Stale(p, max)'
      BY <3>1, <3>2, <3>3
    <3> QED
      BY <1>1, <1>13, <2>2, <3>4 DEF CursorsOK
  <2> QED
    BY <1>3, <2>1, <2>2
<1>15. ProgressOK'
  BY <1>1, <1>2, <1>3, <1>9, <1>10, FileFrame DEF ProgressOK, Parts
<1> QED
  BY <1>2, <1>12, <1>14, <1>15 DEF Parts

\* Leaving a pipe whose current id is greater keeps them.
LEMMA MatchOtherParts ==
  ASSUME TypesOK, TypesOK', Sized(file), Parts, MatchOther
  PROVE  Parts'
<1> PICK q \in Pipes : q = i
  BY DEF TypesOK
<1>1. /\ pc = "match" /\ i = q /\ CurId(q) # max /\ NextPipe("match", "tail")
      /\ UNCHANGED <<file, junk, pipeVars, rounds, goOn, max>>
  BY DEF MatchOther, Matching
<1>2. ReportedOK' /\ LastId' = LastId
  BY <1>1, RoundsFrame DEF Parts
<1>3. \/ pc' = "match" /\ i' = q + 1 /\ q + 1 \in Pipes
      \/ pc' = "tail" /\ i' = q /\ \A p \in Pipes : p <= q
  BY <1>1, NextPipeCases
<1>4. max \in Nat /\ max > LastId /\ BlockOK(q)
  BY <1>1, MaxType DEF Parts, BlocksOK, CursorsOK
<1>5. Ahead(q, max)
  <2>1. (Live(q) /\ CurId(q) >= max) \/ Stale(q, max)
    BY <1>1 DEF Parts, CursorsOK
  <2>2. Live(q) => CurId(q) \in Nat
    BY <1>4, CursorFactsNow, Sorted DEF CursorFacts
  <2> QED
    BY <1>1, <1>4, <2>1, <2>2 DEF Ahead
<1>6. BlocksOK'
  BY <1>1, <1>3, PipesFrame DEF BlocksOK, Parts
<1>7. \A p \in Pipes : p <= q /\ goOn => Ahead(p, max)'
  <2> TAKE p \in Pipes
  <2> HAVE p <= q /\ goOn
  <2>1. p = q \/ p < q
    BY DEF Pipes
  <2>2. Ahead(p, max)
    BY <1>1, <1>5, <2>1 DEF Parts, CursorsOK
  <2> QED
    BY <1>1, <2>2, PipesFrame
<1>8. CursorsOK'
  <2>1. max' > LastId'
    BY <1>1, <1>2, <1>4
  <2>2. CASE pc' = "tail" /\ i' = q /\ \A p \in Pipes : p <= q
    BY <1>1, <1>7, <2>1, <2>2 DEF CursorsOK
  <2>3. CASE pc' = "match" /\ i' = q + 1
    <3>1. \A p \in Pipes : p > q => Live(p)' /\ CurId(p)' = max'
      BY <1>1, PipesFrame DEF Parts, CursorsOK
    <3>2. \A p \in Pipes : /\ p > i' => p > q
                           /\ p = i' => p > q
                           /\ p < i' => p <= q
      BY <2>3 DEF Pipes
    <3>3. max' >= max'
      BY <1>1, <1>4
    <3>4. \A p \in Pipes :
            /\ p > i' => Live(p)' /\ CurId(p)' = max'
            /\ p = i' => (Live(p)' /\ CurId(p)' >= max') \/ Stale(p, max)'
            /\ p < i' /\ goOn' => Ahead(p, max)'
      BY <1>1, <1>7, <3>1, <3>2, <3>3
    <3> QED
      BY <2>1, <2>3, <3>4 DEF CursorsOK
  <2> QED
    BY <1>3, <2>2, <2>3
<1>9. ProgressOK'
  BY <1>1, <1>2, <1>3, FileFrame, PipesFrame DEF ProgressOK, Parts
<1> QED
  BY <1>2, <1>6, <1>8, <1>9 DEF Parts

\* The ending call makes max the last reported id.
LEMMA EndCallParts ==
  ASSUME TypesOK, TypesOK', Sized(file), Parts, EndCall
  PROVE  Parts'
<1>1. /\ pc = "tail" /\ pc' \in {"exit_0", "again"} /\ ret' \in {0, 1}
      /\ pc' = "exit_0" => ret' = 1
      /\ rounds' = Append(rounds, [id |-> max, calls |-> calls])
      /\ UNCHANGED <<file, junk, pipeVars, goOn, max>>
  BY DEF EndCall
<1>2. max \in Nat /\ LastId \in Nat /\ max > LastId /\ Common(max)
  BY <1>1, MaxType DEF Parts, CursorsOK, ProgressOK
<1>3. /\ Len(rounds) \in Nat /\ DOMAIN rounds = 1 .. Len(rounds)
      /\ DOMAIN rounds' = 1 .. Len(rounds) + 1
      /\ Len(rounds') = Len(rounds) + 1
      /\ \A r \in 1 .. Len(rounds) : rounds'[r] = rounds[r]
      /\ rounds'[Len(rounds) + 1] = [id |-> max, calls |-> calls]
  BY <1>1, SMTT(20) DEF TypesOK
<1>4. LastId' = max
  <2>1. rounds' # <<>>
    BY <1>3
  <2> QED
    BY <1>3, <2>1 DEF LastId
<1>5. \A d : Common(d)' <=> Common(d)
  BY <1>1, FileFrame
<1>6. ReportedOK'
  <2>1. ASSUME NEW r \in DOMAIN rounds'
        PROVE  Common(rounds'[r].id) /\ rounds'[r].id <= max
    <3>1. CASE r = Len(rounds) + 1
      BY <1>2, <1>3, <3>1
    <3>2. CASE r \in 1 .. Len(rounds)
      <4>1. Common(rounds[r].id) /\ rounds[r].id <= LastId
        BY <1>3, <3>2 DEF Parts, ReportedOK
      <4>2. rounds[r].id \in Nat
        <5>1. rounds[r] \in [id : Ids, calls : Seq(Pipes \X Nat)]
          <6>1. rounds \in Seq([id : Ids, calls : Seq(Pipes \X Nat)])
            BY DEF TypesOK
          <6> QED
            BY <3>2, <6>1, ElementType
        <5> QED
          BY <5>1, IdsNat
      <4> QED
        BY <1>2, <1>3, <3>2, <4>1, <4>2
    <3> QED
      BY <1>3, <2>1, <3>1, <3>2
  <2>2. ASSUME NEW d \in Ids, Common(d), d <= max
        PROVE  \E r \in DOMAIN rounds' : rounds'[r].id = d
    <3>1. CASE d <= LastId
      BY <1>3, <2>2, <3>1 DEF Parts, ReportedOK
    <3>2. CASE d > LastId
      <4>1. d = max
        <5>1. \A e \in Ids : Common(e) /\ e > LastId => e >= max
          BY <1>1 DEF Parts, ProgressOK
        <5> QED
          BY <1>2, <2>2, <3>2, <5>1, IdsNat
      <4> QED
        BY <1>3, <4>1
    <3> QED
      BY <1>2, <3>1, <3>2, IdsNat
  <2> QED
    BY <1>4, <1>5, <2>1, <2>2 DEF ReportedOK
<1>7. BlocksOK'
  BY <1>1, PipesFrame DEF BlocksOK, Parts
<1>8. CursorsOK'
  BY <1>1, <1>4, PipesFrame DEF CursorsOK, Parts
<1>9. ProgressOK'
  BY <1>1, <1>4, FileFrame, PipesFrame DEF ProgressOK, Parts
<1> QED
  BY <1>6, <1>7, <1>8, <1>9 DEF Parts

\* The test of go_on keeps them.
LEMMA AgainParts ==
  ASSUME TypesOK, Sized(file), Parts, Again
  PROVE  Parts'
<1>1. /\ pc = "again" /\ UNCHANGED <<file, junk, pipeVars, rounds, goOn, max>>
      /\ \/ goOn /\ pc' = "scan"
         \/ ~goOn /\ pc' = "exit_0"
  BY DEF Again
<1>2. ReportedOK' /\ LastId' = LastId
  BY <1>1, RoundsFrame DEF Parts
<1>3. BlocksOK'
  BY <1>1, PipesFrame DEF BlocksOK, Parts
<1>4. CursorsOK'
  BY <1>1, <1>2, PipesFrame DEF CursorsOK, Parts
<1>5. ProgressOK'
  BY <1>1, <1>2, FileFrame, PipesFrame DEF ProgressOK, Parts
<1> QED
  BY <1>2, <1>3, <1>4, <1>5 DEF Parts

\* No index runs past its block.
LEMMA NoOverrun ==
  ASSUME TypesOK, Sized(file), Parts, Overrun
  PROVE  FALSE
<1>1. CASE pc = "scan"
  <2>1. \A p \in Pipes : Ahead(p, LastId)
    BY <1>1 DEF Parts, CursorsOK
  <2>2. \A p \in Pipes : idx[p] < RD_NUM
    BY <2>1, Numbers DEF Ahead, Live, Stale
  <2> QED
    BY <1>1, <2>2, Numbers DEF Overrun
<1>2. CASE pc = "match"
  <2> PICK q \in Pipes : q = i
    BY DEF TypesOK
  <2>1. Live(q) \/ Stale(q, max)
    BY <1>2 DEF Parts, CursorsOK
  <2>2. idx[q] < RD_NUM
    BY <2>1, Numbers DEF Live, Stale
  <2> QED
    BY <1>2, <2>2, Numbers DEF Overrun
<1> QED
  BY <1>1, <1>2 DEF Overrun

---------------------------------------------------------------------------
(* The theorems *)

\* Every step of posmerge() keeps the four parts.
LEMMA PartsStep ==
  ASSUME TypesOK, TypesOK', Sized(file), Parts, [Next]_vars
  PROVE  Parts'
<1>1. CASE Step
  BY <1>1, OpenFailsParts, InitialReadParts, ScanParts, JumpSkipParts,
     JumpEnterParts, JumpFailParts, JumpRebufParts, JumpLandParts,
     MatchItemParts, MatchRebufParts, MatchLastParts, MatchOtherParts,
     EndCallParts, AgainParts, NoOverrun DEF Step
<1>2. CASE UNCHANGED vars
  <2>1. /\ UNCHANGED <<file, junk, pipeVars, rounds, goOn, max, i, pc, ret>>
        /\ UNCHANGED <<off, buf, idx, end>>
    BY <1>2 DEF vars, pipeVars
  <2>2. ReportedOK' /\ LastId' = LastId
    BY <2>1, RoundsFrame DEF Parts
  <2>3. BlocksOK'
    BY <2>1, PipesFrame DEF BlocksOK, Parts
  <2>4. CursorsOK'
    BY <2>1, <2>2, PipesFrame DEF CursorsOK, Parts
  <2>5. ProgressOK'
    BY <2>1, <2>2, FileFrame, PipesFrame DEF ProgressOK, Parts
  <2> QED
    BY <2>2, <2>3, <2>4, <2>5 DEF Parts
<1> QED
  BY <1>1, <1>2 DEF Next, Returned, Overran

\* The inductive invariant holds initially.
LEMMA InvInit == Init => TypesOK /\ MergeInv
BY TypeInit, InitParts DEF Parts, MergeInv

\* The files are only read.
LEMMA FileFixed ==
  ASSUME [Next]_vars
  PROVE  UNCHANGED file
BY DEF Next, Step, Returned, Overran, vars, OpenFails, InitialRead, Scan, JumpSkip,
   JumpEnter, JumpFail, JumpRebuf, JumpLand, MatchItem, MatchRebuf,
   MatchLast, MatchOther, EndCall, Again, Overrun

\* Every step of posmerge() keeps the inductive invariant.
LEMMA InvStep == TypesOK /\ MergeInv /\ [Next]_vars => (TypesOK /\ MergeInv)'
<1> SUFFICES ASSUME TypesOK, MergeInv, [Next]_vars PROVE (TypesOK /\ MergeInv)'
  OBVIOUS
<1>1. TypesOK'
  BY TypeStep
<1>2. UNCHANGED file
  BY FileFixed
<1>3. Sized(file) => Parts'
  BY <1>1, PartsStep DEF MergeInv, Parts
<1> QED
  BY <1>1, <1>2, <1>3 DEF MergeInv, Parts

\* The invariant behind the theorems below: for every number of pipes and block
\* size, what MergeInv says of blocks, cursors and reported ids holds throughout.
THEOREM MergeInvariant == Spec => [](TypesOK /\ MergeInv)
BY InvInit, InvStep, PTL DEF Spec

\* For every number of pipes and block size: whatever the files, rebuf() reads no
\* further than a file goes and an index is one behind its block at most; and if
\* the buffering can handle the files, posmerge() never looks at a cell behind a
\* block (posmerge.c:123-126, 145, 172).
THEOREM TypeCorrect == Spec => []TypeOK
<1>1. TypesOK /\ MergeInv => TypeOK
  <2> SUFFICES ASSUME TypesOK, MergeInv, Sized(file)
               PROVE  /\ pc # "overrun"
                      /\ pc \in {"scan", "jump"} => \A p \in Pipes : idx[p] < RD_NUM
                      /\ pc = "match" => idx[i] < RD_NUM
    BY DEF TypeOK, InBlocks
  <2>1. CursorsOK
    BY DEF MergeInv
  <2>2. \A p \in Pipes : \A m : Ahead(p, m) => idx[p] < RD_NUM
    BY Numbers DEF Ahead, Live, Stale
  <2>3. \A p \in Pipes : \A m : Live(p) \/ Stale(p, m) => idx[p] < RD_NUM
    BY Numbers DEF Live, Stale
  <2>4. i \in Pipes
    BY DEF TypesOK
  <2> QED
    BY <2>1, <2>2, <2>3, <2>4 DEF CursorsOK
<1> QED
  BY <1>1, MergeInvariant, PTL

\* For every number of pipes, block size and sized files: a merge that ends
\* has reported only common ids, and all of them unless it was stopped.
THEOREM MergeReportsCommonIds == Spec => []ReportsCommonIds
<1>1. MergeInv => ReportsCommonIds
  BY DEF MergeInv, ReportsCommonIds, ReportedOK, ProgressOK, NoCommonAbove
<1> QED
  BY <1>1, MergeInvariant, PTL

\* For every number of pipes, block size and sized files: the callback is
\* called with loaded items only.
THEOREM MergeGetsLoadedData == Spec => SizedGetsLoadedData
<1> DEFINE A == Sized(file) /\ Len(calls') > Len(calls) => Live(i)
<1>1. ASSUME TypesOK, MergeInv, [Next]_vars PROVE [A]_vars
  <2> SUFFICES ASSUME Sized(file), Len(calls') > Len(calls) PROVE Live(i)
    OBVIOUS
  <2>1. Len(calls) \in Nat
    BY <1>1 DEF TypesOK
  <2>2. MatchItem \/ MatchRebuf \/ MatchLast
    <3>1. CASE EndCall
      BY <2>1, <3>1 DEF EndCall
    <3>2. CASE UNCHANGED calls
      BY <2>1, <3>2
    <3> QED
      BY <1>1, <3>1, <3>2 DEF Next, Step, Returned, Overran, vars, OpenFails,
         InitialRead, Scan, JumpSkip, JumpEnter, JumpFail, JumpRebuf,
         JumpLand, MatchOther, Again, Overrun
  <2>3. pc = "match" /\ CurId(i) = max
    BY <2>2 DEF MatchItem, MatchRebuf, MatchLast, Matching
  <2> PICK q \in Pipes : q = i
    BY <1>1 DEF TypesOK
  <2> QED
    BY <1>1, <2>3, MatchLive DEF MergeInv, Parts
<1> QED
  BY <1>1, MergeInvariant, PTL DEF Spec, SizedGetsLoadedData

\* For every number of pipes, block size and sized files: the reported ids
\* increase.
THEOREM MergeRoundsIncrease == Spec => RoundsIncrease
<1> DEFINE A == Sized(file) /\ rounds' # rounds => LastId' > LastId
<1>1. ASSUME TypesOK, MergeInv, [Next]_vars PROVE [A]_vars
  <2> SUFFICES ASSUME Sized(file), rounds' # rounds PROVE LastId' > LastId
    OBVIOUS
  <2>1. EndCall
    BY <1>1 DEF Next, Step, Returned, Overran, vars, OpenFails, InitialRead, Scan,
       JumpSkip, JumpEnter, JumpFail, JumpRebuf, JumpLand, MatchItem,
       MatchRebuf, MatchLast, MatchOther, Again, Overrun
  <2>2. max > LastId
    BY <1>1, <2>1 DEF MergeInv, CursorsOK, EndCall
  <2>3. LastId' = max
    <3>1. rounds' = Append(rounds, [id |-> max, calls |-> calls])
      BY <2>1 DEF EndCall
    <3>2. rounds \in Seq([id : Ids, calls : Seq(Pipes \X Nat)])
      BY <1>1 DEF TypesOK
    <3>3. /\ rounds' # <<>>
          /\ rounds'[Len(rounds')] = [id |-> max, calls |-> calls]
      BY <3>1, <3>2, LastOfAppend
    <3> QED
      BY <3>3 DEF LastId
  <2> QED
    BY <2>2, <2>3
<1> QED
  BY <1>1, MergeInvariant, PTL DEF Spec, RoundsIncrease

---------------------------------------------------------------------------
(* The account of the callback calls *)

\* Item k of pipe p comes before the cursor that has passed n items of pipe q,
\* in the order of the callback calls.
Upto(p, k, q, n) == p < q \/ (p = q /\ k <= n)

\* cs calls the items of id m up to there: only those, all of them, in order.
Called(cs, m, q, n) ==
  /\ \A a, b \in DOMAIN cs : a < b => C!Before(cs[a], cs[b])
  /\ \A a \in DOMAIN cs : \E p \in Pipes : \E k \in DOMAIN file[p] :
       cs[a] = <<p, k>> /\ file[p][k] = m /\ Upto(p, k, q, n)
  /\ \A p \in Pipes : \A k \in DOMAIN file[p] :
       file[p][k] = m /\ Upto(p, k, q, n) =>
         \E a \in DOMAIN cs : cs[a] = <<p, k>>

\* Between two rounds nothing is called; in a round exactly what the cursor of
\* the running pipe is past, and no pipe behind it has passed an item of max.
CallsOK ==
  /\ pc \notin {"match", "tail"} => calls = <<>>
  /\ pc = "match" =>
       /\ Called(calls, max, i, Passed(i))
       /\ \A p \in Pipes : p > i => \A k \in 1 .. Passed(p) : file[p][k] # max
  /\ pc = "tail" => Called(calls, max, N, 0)
  /\ pc # "exit_0" => ret = 0

\* Calls of a file that does not change.
LEMMA CalledFrame ==
  ASSUME UNCHANGED file
  PROVE  \A cs, m, q, n : Called(cs, m, q, n)' <=> Called(cs, m, q, n)
BY DEF Called

\* Before the first item of m nothing has been called.
LEMMA CalledNone ==
  ASSUME TypesOK, NEW m, NEW n, \A k \in 1 .. n : file[0][k] # m, n \in Nat
  PROVE  Called(<<>>, m, 0, n)
<1>1. \A p \in Pipes : \A k \in DOMAIN file[p] : Upto(p, k, 0, n) => p = 0 /\ k \in 1 .. n
  BY Sorted DEF Upto, Pipes
<1>2. DOMAIN <<>> = {}
  OBVIOUS
<1> QED
  BY <1>1, <1>2 DEF Called

\* The elements after appending.
LEMMA AppendElements ==
  ASSUME NEW S, NEW s \in Seq(S), NEW e \in S
  PROVE  /\ Len(s) \in Nat
         /\ DOMAIN s = 1 .. Len(s)
         /\ DOMAIN Append(s, e) = 1 .. Len(s) + 1
         /\ \A a \in 1 .. Len(s) : Append(s, e)[a] = s[a]
         /\ Append(s, e)[Len(s) + 1] = e
OBVIOUS

\* Two positions of a sequence one longer.
LEMMA PositionsBelow ==
  ASSUME NEW n \in Nat, NEW a \in 1 .. n + 1, NEW b \in 1 .. n + 1, a < b
  PROVE  a \in 1 .. n /\ (b \in 1 .. n \/ b = n + 1)
OBVIOUS

\* Calling the item the cursor shows.
LEMMA CalledItem ==
  ASSUME TypesOK, NEW cs \in Seq(Pipes \X Nat), NEW m, NEW q \in Pipes,
         NEW n \in Nat, Called(cs, m, q, n),
         n + 1 \in DOMAIN file[q], file[q][n + 1] = m
  PROVE  Called(Append(cs, <<q, n + 1>>), m, q, n + 1)
<1> DEFINE new == <<q, n + 1>>
           ds == Append(cs, new)
<1>1. new \in Pipes \X Nat
  OBVIOUS
<1>2. /\ Len(cs) \in Nat /\ DOMAIN cs = 1 .. Len(cs)
      /\ DOMAIN ds = 1 .. Len(cs) + 1
      /\ \A a \in 1 .. Len(cs) : ds[a] = cs[a]
      /\ ds[Len(cs) + 1] = new
  BY <1>1, AppendElements
<1> HIDE DEF ds
<1>3. \A p \in Pipes : \A k \in DOMAIN file[p] :
        /\ k \in Nat /\ p \in Int /\ q \in Int
        /\ Upto(p, k, q, n) => Upto(p, k, q, n + 1)
        /\ Upto(p, k, q, n + 1) => Upto(p, k, q, n) \/ (p = q /\ k = n + 1)
        /\ Upto(p, k, q, n) => C!Before(<<p, k>>, new)
  BY Sorted DEF Upto, Pipes, C!Before
<1>4. \A a \in 1 .. Len(cs) : \E p \in Pipes : \E k \in DOMAIN file[p] :
        ds[a] = <<p, k>> /\ file[p][k] = m /\ Upto(p, k, q, n)
  BY <1>2 DEF Called
<1>5. \A a, b \in DOMAIN ds : a < b => C!Before(ds[a], ds[b])
  <2> SUFFICES ASSUME NEW a \in 1 .. Len(cs) + 1, NEW b \in 1 .. Len(cs) + 1, a < b
               PROVE  C!Before(ds[a], ds[b])
    BY <1>2
  <2>1. a \in 1 .. Len(cs) /\ (b \in 1 .. Len(cs) \/ b = Len(cs) + 1)
    BY <1>2, PositionsBelow
  <2>2. CASE b \in 1 .. Len(cs)
    BY <1>2, <2>1, <2>2 DEF Called
  <2>3. CASE b = Len(cs) + 1
    BY <1>2, <1>3, <1>4, <2>1, <2>3
  <2> QED
    BY <2>1, <2>2, <2>3
<1>6. \A a \in DOMAIN ds : \E p \in Pipes : \E k \in DOMAIN file[p] :
        ds[a] = <<p, k>> /\ file[p][k] = m /\ Upto(p, k, q, n + 1)
  <2> SUFFICES ASSUME NEW a \in 1 .. Len(cs) + 1
               PROVE  \E p \in Pipes : \E k \in DOMAIN file[p] :
                        ds[a] = <<p, k>> /\ file[p][k] = m /\ Upto(p, k, q, n + 1)
    BY <1>2
  <2>1. CASE a \in 1 .. Len(cs)
    <3>1. PICK p \in Pipes : \E k \in DOMAIN file[p] :
            ds[a] = <<p, k>> /\ file[p][k] = m /\ Upto(p, k, q, n)
      BY <1>4, <2>1
    <3>2. PICK k \in DOMAIN file[p] :
            ds[a] = <<p, k>> /\ file[p][k] = m /\ Upto(p, k, q, n)
      BY <3>1
    <3>3. Upto(p, k, q, n + 1)
      BY <1>3, <3>2
    <3> QED
      BY <3>2, <3>3
  <2>2. CASE a = Len(cs) + 1
    BY <1>2, <2>2 DEF Upto
  <2> QED
    BY <1>2, <2>1, <2>2
<1>7. ASSUME NEW p \in Pipes, NEW k \in DOMAIN file[p],
             file[p][k] = m, Upto(p, k, q, n + 1)
      PROVE  \E a \in DOMAIN ds : ds[a] = <<p, k>>
  <2>1. CASE Upto(p, k, q, n)
    <3>1. PICK a \in DOMAIN cs : cs[a] = <<p, k>>
      BY <1>7, <2>1 DEF Called
    <3>2. a \in DOMAIN ds
      BY <1>2, <3>1
    <3>3. ds[a] = cs[a]
      BY <1>2, <3>1
    <3> QED
      BY <3>1, <3>2, <3>3
  <2>2. CASE p = q /\ k = n + 1
    <3>1. Len(cs) + 1 \in DOMAIN ds
      BY <1>2
    <3> QED
      BY <1>2, <2>2, <3>1
  <2> QED
    BY <1>3, <1>7, <2>1, <2>2
<1> QED
  BY <1>5, <1>6, <1>7 DEF Called, ds

\* Leaving a pipe that has no more items of m for the one behind it, which has
\* passed none.
LEMMA CalledLeave ==
  ASSUME TypesOK, NEW cs, NEW m, NEW q \in Pipes, NEW n \in Nat, NEW r \in Nat,
         Called(cs, m, q, n),
         \A k \in DOMAIN file[q] : k > n => file[q][k] # m,
         q + 1 \in Pipes => \A k \in 1 .. r : file[q + 1][k] # m
  PROVE  Called(cs, m, q + 1, r)
<1>1. \A p \in Pipes : \A k \in DOMAIN file[p] :
        /\ Upto(p, k, q, n) => Upto(p, k, q + 1, r)
        /\ Upto(p, k, q + 1, r) /\ file[p][k] = m => Upto(p, k, q, n)
  <2> TAKE p \in Pipes
  <2> TAKE k \in DOMAIN file[p]
  <2>1. k \in Nat /\ k > 0 /\ p \in Int /\ q \in Int
    BY Sorted DEF Pipes
  <2>2. Upto(p, k, q, n) => Upto(p, k, q + 1, r)
    BY <2>1 DEF Upto
  <2>3. ASSUME Upto(p, k, q + 1, r), file[p][k] = m PROVE Upto(p, k, q, n)
    <3>1. CASE p < q
      BY <3>1 DEF Upto
    <3>2. CASE p = q
      BY <2>1, <2>3, <3>2 DEF Upto
    <3>3. CASE p = q + 1 /\ k <= r
      BY <2>1, <2>3, <3>3
    <3> QED
      BY <2>1, <2>3, <3>1, <3>2, <3>3 DEF Upto
  <2> QED
    BY <2>2, <2>3
<1> QED
  BY <1>1 DEF Called

\* The number of passed items.
LEMMA PassedType ==
  ASSUME TypesOK, NEW p \in Pipes, BlockOK(p)
  PROVE  Passed(p) \in Nat
BY Numbers DEF BlockOK, Passed

\* A look at all pipes that finds the same id begins a round.
LEMMA ScanCalls ==
  ASSUME TypesOK, TypesOK', Sized(file), Parts, Parts', CallsOK, Scan
  PROVE  CallsOK'
<1>1. /\ pc = "scan" /\ pc' \in {"match", "jump"} /\ i' = 0
      /\ UNCHANGED <<file, junk, pipeVars, rounds, calls, ret>>
      /\ UNCHANGED <<off, buf, idx, end>>
  BY DEF Scan, pipeVars
<1>2. calls' = <<>> /\ ret' = 0
  BY <1>1 DEF CallsOK
<1>3. CASE pc' = "match"
  <2>1. NonePassed(LastId)
    BY <1>1 DEF Parts, ProgressOK
  <2>2. Common(max)' /\ (max > LastId)'
    BY <1>3 DEF Parts, ProgressOK, CursorsOK
  <2>3. Common(max') /\ max' > LastId
    BY <1>1, <2>2, RoundsFrame, FileFrame DEF LastId
  <2>4. max' \in Ids
    <3>1. max' \in Ids \cup {0} /\ max' # 0
      BY <1>3, SMTT(20) DEF TypesOK, Ended
    <3> QED
      BY <3>1
  <2>5. \A p \in Pipes : Passed(p) \in Nat /\ Passed(p)' = Passed(p)
    BY <1>1, PassedType DEF Passed, Parts, BlocksOK
  <2>6. \A p \in Pipes : \A k \in 1 .. Passed(p) : file[p][k] # max'
    <3> TAKE p \in Pipes
    <3> TAKE k \in 1 .. Passed(p)
    <3>1. file[p][k] < max'
      BY <2>1, <2>3, <2>4 DEF NonePassed
    <3> QED
      BY <2>4, <3>1, IdsNat
  <2>7. 0 \in Pipes
    BY PipesAssumption DEF Pipes
  <2>8. Called(<<>>, max', 0, Passed(0))
    BY <2>5, <2>6, <2>7, CalledNone
  <2>9. Called(calls, max, i, Passed(i))'
    BY <1>1, <1>2, <2>5, <2>7, <2>8 DEF Called
  <2>10. \A p \in Pipes : \A k \in 1 .. Passed(p)' : file'[p][k] # max'
    BY <1>1, <2>5, <2>6
  <2> QED
    BY <1>2, <1>3, <2>9, <2>10 DEF CallsOK
<1>4. CASE pc' = "jump"
  BY <1>2, <1>4 DEF CallsOK
<1> QED
  BY <1>1, <1>3, <1>4

\* The callback gets the item behind the passed ones.
LEMMA ItemCalled ==
  ASSUME TypesOK, Sized(file), Parts, CallsOK, pc = "match",
         NEW q \in Pipes, q = i, CurId(q) = max, Call
  PROVE  Called(calls', max, q, Passed(q) + 1)
<1>1. /\ BlockOK(q) /\ Live(q) /\ max \in Nat
      /\ Passed(q) + 1 \in 1 .. Len(file[q]) /\ file[q][Passed(q) + 1] = max
  BY MatchLive
<1>2. Passed(q) \in Nat
  BY <1>1, PassedType
<1>3. buf[q][idx[q]] = Passed(q) + 1
  <2>1. idx[q] \in 0 .. end[q] - 1
    BY <1>1, Numbers DEF Live
  <2> QED
    BY <1>1, <2>1, Numbers DEF BlockOK, Passed
<1>4. calls' = Append(calls, <<q, Passed(q) + 1>>)
  BY <1>3 DEF Call
<1>5. calls \in Seq(Pipes \X Nat)
  BY DEF TypesOK
<1>6. Called(calls, max, q, Passed(q))
  BY DEF CallsOK
<1>7. Passed(q) + 1 \in DOMAIN file[q]
  BY <1>1, Sorted
<1> QED
  BY <1>1, <1>2, <1>4, <1>5, <1>6, <1>7, CalledItem

\* Leaving a pipe that has no more items of max.
LEMMA LeaveCalls ==
  ASSUME TypesOK, Sized(file), Parts, CallsOK, pc = "match",
         NEW q \in Pipes, q = i, NextPipe("match", "tail"),
         UNCHANGED <<file, off, end, max, ret>>,
         \A p \in Pipes : p # q => idx'[p] = idx[p],
         NEW n \in Nat, Called(calls', max, q, n),
         \A k \in DOMAIN file[q] : k > n => file[q][k] # max
  PROVE  CallsOK'
<1>1. \A p \in Pipes : p > q => /\ Passed(p)' = Passed(p) /\ Passed(p) \in Nat
                                /\ \A k \in 1 .. Passed(p) : file[p][k] # max
  <2>1. \A p \in Pipes : Passed(p) \in Nat
    BY PassedType DEF Parts, BlocksOK
  <2>2. \A p \in Pipes : p > q => p # q
    BY DEF Pipes
  <2>3. \A p \in Pipes : p > q => Passed(p)' = Passed(p)
    BY <2>2 DEF Passed
  <2>4. \A p \in Pipes : p > q => \A k \in 1 .. Passed(p) : file[p][k] # max
    BY DEF CallsOK
  <2> QED
    BY <2>1, <2>3, <2>4
<1>2. \/ pc' = "match" /\ i' = q + 1 /\ q + 1 \in Pipes
      \/ pc' = "tail" /\ i' = q /\ \A p \in Pipes : p <= q
  BY NextPipeCases
<1>3. ret' = 0
  BY DEF CallsOK
<1>4. CASE pc' = "match" /\ i' = q + 1 /\ q + 1 \in Pipes
  <2>1. q + 1 > q
    BY DEF Pipes
  <2>2. /\ Passed(q + 1)' = Passed(q + 1) /\ Passed(q + 1) \in Nat
        /\ \A k \in 1 .. Passed(q + 1) : file[q + 1][k] # max
    BY <1>1, <1>4, <2>1
  <2>3. Called(calls', max, q + 1, Passed(q + 1))
    BY <2>2, CalledLeave
  <2>4. Called(calls, max, i, Passed(i))'
    BY <1>4, <2>2, <2>3 DEF Called
  <2>5. \A p \in Pipes : p > q + 1 => p > q
    BY DEF Pipes
  <2>6. \A p \in Pipes : p > i' => \A k \in 1 .. Passed(p)' : file'[p][k] # max'
    BY <1>1, <1>4, <2>5
  <2> QED
    BY <1>3, <1>4, <2>4, <2>6 DEF CallsOK
<1>5. CASE pc' = "tail" /\ \A p \in Pipes : p <= q
  <2>1. q + 1 = N /\ q + 1 \notin Pipes
    BY <1>5, PipesAssumption DEF Pipes
  <2>2. Called(calls', max, N, 0)
    BY <2>1, CalledLeave
  <2>3. Called(calls, max, N, 0)'
    BY <2>2, CalledFrame DEF Called
  <2> QED
    BY <1>3, <1>5, <2>3 DEF CallsOK
<1> QED
  BY <1>2, <1>4, <1>5

\* Reporting an item inside a block.
LEMMA MatchItemCalls ==
  ASSUME TypesOK, Sized(file), Parts, CallsOK, MatchItem
  PROVE  CallsOK'
<1> PICK q \in Pipes : q = i
  BY DEF TypesOK
<1>1. /\ pc = "match" /\ pc' = "match" /\ CurId(q) = max /\ Call
      /\ idx' = [idx EXCEPT ![q] = @ + 1]
      /\ UNCHANGED <<file, off, end, i, max, ret>>
  BY DEF MatchItem, Matching
<1>2. Called(calls', max, q, Passed(q) + 1)
  BY <1>1, ItemCalled
<1>3. Passed(q)' = Passed(q) + 1
  <2>1. idx'[q] = idx[q] + 1
    BY <1>1 DEF TypesOK
  <2> QED
    BY <1>1, <2>1, Numbers DEF Passed
<1>4. Called(calls, max, i, Passed(i))'
  BY <1>1, <1>2, <1>3 DEF Called
<1>5. \A p \in Pipes : p > i' => \A k \in 1 .. Passed(p)' : file'[p][k] # max'
  <2> SUFFICES ASSUME NEW p \in Pipes, p > q
               PROVE  \A k \in 1 .. Passed(p)' : file[p][k] # max
    BY <1>1
  <2>1. p # q
    BY DEF Pipes
  <2>2. Passed(p)' = Passed(p)
    BY <1>1, <2>1 DEF Passed, TypesOK
  <2> QED
    BY <1>1, <2>2 DEF CallsOK
<1> QED
  BY <1>1, <1>4, <1>5 DEF CallsOK

\* Reporting the last item of a full block.
LEMMA MatchRebufCalls ==
  ASSUME TypesOK, Sized(file), Parts, CallsOK, MatchRebuf
  PROVE  CallsOK'
<1> PICK q \in Pipes : q = i
  BY DEF TypesOK
<1>1. /\ pc = "match" /\ pc' = "match" /\ CurId(q) = max /\ Call /\ rebuf(q)
      /\ idx[q] + 1 = end[q] /\ end[q] = RD_NUM
      /\ UNCHANGED <<file, junk, i, max, ret>>
  BY DEF MatchRebuf, Matching
<1>2. Called(calls', max, q, Passed(q) + 1)
  BY <1>1, ItemCalled
<1>3. Passed(q)' = Passed(q) + 1
  <2>1. Passed(q)' = off[q]
    BY <1>1, MatchLive, RebufBlock
  <2> QED
    BY <1>1, <2>1, Numbers DEF Passed
<1>4. Called(calls, max, i, Passed(i))'
  BY <1>1, <1>2, <1>3 DEF Called
<1>5. \A p \in Pipes : p > i' => \A k \in 1 .. Passed(p)' : file'[p][k] # max'
  <2> SUFFICES ASSUME NEW p \in Pipes, p > q
               PROVE  \A k \in 1 .. Passed(p)' : file[p][k] # max
    BY <1>1
  <2>1. p # q
    BY DEF Pipes
  <2>2. Passed(p)' = Passed(p)
    BY <1>1, <2>1 DEF Passed, TypesOK, rebuf
  <2> QED
    BY <1>1, <2>2 DEF CallsOK
<1> QED
  BY <1>1, <1>4, <1>5 DEF CallsOK

\* Reporting the last item of a file.
LEMMA MatchLastCalls ==
  ASSUME TypesOK, Sized(file), Parts, CallsOK, MatchLast
  PROVE  CallsOK'
<1> PICK q \in Pipes : q = i
  BY DEF TypesOK
<1>1. /\ pc = "match" /\ CurId(q) = max /\ Call /\ NextPipe("match", "tail")
      /\ idx[q] + 1 = end[q] /\ end[q] # RD_NUM
      /\ idx' = [idx EXCEPT ![q] = @ + 1]
      /\ UNCHANGED <<file, off, end, max, ret>>
  BY DEF MatchLast, Matching
<1>2. Called(calls', max, q, Passed(q) + 1)
  BY <1>1, ItemCalled
<1>3. /\ BlockOK(q) /\ Passed(q) \in Nat
      /\ Passed(q) + 1 = off[q] /\ off[q] = Len(file[q])
  <2>1. BlockOK(q)
    BY <1>1, MatchLive
  <2>2. Passed(q) + 1 = off[q]
    BY <1>1, Numbers DEF Passed
  <2>3. off[q] = Len(file[q])
    BY <1>1, <2>1, Numbers DEF BlockOK
  <2> QED
    BY <2>1, <2>2, <2>3, PassedType
<1>4. \A k \in DOMAIN file[q] : k > Passed(q) + 1 => file[q][k] # max
  BY <1>3, Sorted
<1>5. \A p \in Pipes : p # q => idx'[p] = idx[p]
  BY <1>1 DEF TypesOK
<1>6. Passed(q) + 1 \in Nat
  BY <1>3
<1> QED
  BY <1>1, <1>2, <1>4, <1>5, <1>6, LeaveCalls

\* Leaving a pipe whose current id is greater.
LEMMA MatchOtherCalls ==
  ASSUME TypesOK, Sized(file), Parts, CallsOK, MatchOther
  PROVE  CallsOK'
<1> PICK q \in Pipes : q = i
  BY DEF TypesOK
<1>1. /\ pc = "match" /\ CurId(q) # max /\ NextPipe("match", "tail")
      /\ UNCHANGED <<file, off, end, idx, max, ret, calls>>
  BY DEF MatchOther, Matching, pipeVars
<1>2. BlockOK(q) /\ Passed(q) \in Nat /\ max \in Nat
  BY <1>1, PassedType, MaxType DEF Parts, BlocksOK
<1>3. \A k \in DOMAIN file[q] : k > Passed(q) => file[q][k] # max
  <2>1. (Live(q) /\ CurId(q) >= max) \/ Stale(q, max)
    BY <1>1 DEF Parts, CursorsOK
  <2>2. CASE Live(q) /\ CurId(q) >= max
    <3>1. Passed(q) + 1 \in 1 .. Len(file[q]) /\ CurId(q) = file[q][Passed(q) + 1]
      BY <1>2, <2>2, LiveCursor
    <3>2. \A k \in DOMAIN file[q] : k > Passed(q) => Passed(q) + 1 <= k
      BY <1>2, Sorted
    <3>3. file[q][Passed(q) + 1] > max /\ file[q][Passed(q) + 1] \in Nat
      BY <1>1, <1>2, <2>2, <3>1, Sorted
    <3>4. \A k \in DOMAIN file[q] : k > Passed(q) =>
            file[q][k] >= file[q][Passed(q) + 1] /\ file[q][k] \in Nat
      BY <3>1, <3>2, Sorted
    <3> QED
      BY <1>2, <3>3, <3>4
  <2>3. CASE Stale(q, max)
    <3>1. off[q] = Len(file[q]) /\ end[q] = 0 /\ idx[q] = 0
      BY <1>2, <2>3, Numbers DEF Stale, BlockOK
    <3>2. Passed(q) = Len(file[q])
      BY <3>1, Numbers DEF Passed
    <3> QED
      BY <3>2, Sorted
  <2> QED
    BY <2>1, <2>2, <2>3
<1>4. Called(calls', max, q, Passed(q))
  BY <1>1 DEF CallsOK
<1> QED
  BY <1>1, <1>2, <1>3, <1>4, LeaveCalls

\* Every step keeps the account.
LEMMA CallsStep ==
  ASSUME TypesOK, TypesOK', Sized(file), Parts, Parts', CallsOK, [Next]_vars
  PROVE  CallsOK'
<1>1. CASE OpenFails \/ InitialRead
  BY <1>1 DEF CallsOK, OpenFails, InitialRead
<1>2. CASE JumpSkip \/ JumpLand
  <2>1. NextPipe("jump", "again")
    BY <1>2 DEF JumpSkip, JumpLand
  <2>2. pc' \in {"jump", "again"}
    BY <2>1 DEF NextPipe
  <2>3. pc \notin {"match", "tail", "exit_0"} /\ UNCHANGED <<calls, ret>>
    BY <1>2 DEF JumpSkip, JumpLand
  <2> QED
    BY <2>2, <2>3 DEF CallsOK
<1>3. CASE JumpEnter \/ JumpFail \/ JumpRebuf \/ Again
  BY <1>3 DEF CallsOK, JumpEnter, JumpFail, JumpRebuf, Again
<1>4. CASE EndCall
  BY <1>4 DEF CallsOK, EndCall
<1>5. CASE UNCHANGED vars
  <2>1. UNCHANGED <<file, pc, i, max, calls, ret, off, end, idx>>
    BY <1>5 DEF vars
  <2>2. \A p : Passed(p)' = Passed(p)
    BY <2>1 DEF Passed
  <2> QED
    BY <2>1, <2>2 DEF CallsOK, Called
<1> QED
  BY <1>1, <1>2, <1>3, <1>4, <1>5, ScanCalls, MatchItemCalls, MatchRebufCalls,
     MatchLastCalls, MatchOtherCalls, NoOverrun DEF Next, Step, Returned, Overran

\* The account holds throughout, for every number of pipes and block size.
LEMMA CallsInvariant == Spec => [](TypesOK /\ MergeInv /\ (Sized(file) => CallsOK))
<1> DEFINE A == TypesOK /\ MergeInv /\ (Sized(file) => CallsOK)
<1>1. Init => A
  BY InvInit DEF Init, CallsOK
<1>2. ASSUME A, [Next]_vars PROVE A'
  <2>1. (TypesOK /\ MergeInv)'
    BY <1>2, InvStep
  <2>2. UNCHANGED file
    BY <1>2, FileFixed
  <2>3. Sized(file)' <=> Sized(file)
    BY <2>2
  <2>4. ASSUME Sized(file) PROVE CallsOK'
    BY <1>2, <2>1, <2>3, <2>4, CallsStep DEF MergeInv, Parts
  <2> QED
    BY <2>1, <2>3, <2>4
<1> QED
  BY <1>1, <1>2, PTL DEF Spec

---------------------------------------------------------------------------
(* The step mapping *)

\* The two specifications speak of the same common ids.
LEMMA SameCommon ==
  ASSUME TypesOK
  PROVE  \A d : d \in C!CommonIds <=> (d \in Ids /\ Common(d))
<1>1. 0 \in Pipes
  BY PipesAssumption DEF Pipes
<1>2. \A d, p : p \in Pipes => (d \in C!IdsOf(file[p]) <=> \E k \in DOMAIN file[p] : file[p][k] = d)
  BY DEF C!IdsOf
<1>3. \A k \in DOMAIN file[0] : file[0][k] \in Ids
  BY <1>1, Sorted
<1> QED
  BY <1>1, <1>2, <1>3 DEF C!CommonIds, C!Pipes, Common, Pipes

\* ... and so of the same pending ones.
LEMMA SamePending ==
  ASSUME TypesOK
  PROVE  \A d : d \in C!Pending <=> (d \in Ids /\ Common(d) /\ d > LastId)
BY SameCommon DEF C!Pending, C!LastId, LastId

\* At the end of the matching loop the calls are the items of max, in order.
LEMMA CallsAreItems ==
  ASSUME TypesOK, Called(calls, max, N, 0)
  PROVE  C!IsRoundOf(max, [id |-> max, calls |-> calls])
<1>1. \A p \in Pipes : \A k \in DOMAIN file[p] : Upto(p, k, N, 0)
  BY PipesAssumption DEF Upto, Pipes
<1>2. \A c : c \in C!ItemsOf(max) <=>
        \E p \in Pipes : \E k \in DOMAIN file[p] : c = <<p, k>> /\ file[p][k] = max
  <2>1. \A c : c \in C!Items <=>
          \E p \in Pipes : \E k \in DOMAIN file[p] : c = <<p, k>>
    BY DEF C!Items, C!Pipes, Pipes
  <2> QED
    BY <2>1 DEF C!ItemsOf
<1>3. {calls[j] : j \in DOMAIN calls} = C!ItemsOf(max)
  BY <1>1, <1>2 DEF Called
<1> QED
  BY <1>3 DEF C!IsRoundOf, Called

\* The ending call delivers the round of the least pending id.
LEMMA EndCallDelivers ==
  ASSUME TypesOK, Sized(file), Parts, CallsOK, EndCall
  PROVE  C!Deliver
<1> DEFINE r == [id |-> max, calls |-> calls]
<1>1. /\ pc = "tail" /\ rounds' = Append(rounds, r)
      /\ ret' \in {0, 1}
      /\ pc' = IF ret' = 1 THEN "exit_0" ELSE "again"
  BY DEF EndCall
<1>2. C!IsRoundOf(max, r)
  BY <1>1, CallsAreItems DEF CallsOK
<1>3. max \in C!Pending
  <2>1. Common(max) /\ max > LastId
    BY <1>1 DEF Parts, ProgressOK, CursorsOK
  <2>2. max \in Ids
    <3>1. max \in Ids \cup {0} /\ max # 0
      BY <1>1, SMTT(20) DEF TypesOK, Ended
    <3> QED
      BY <3>1
  <2> QED
    BY <2>1, <2>2, SamePending
<1>4. \A e \in C!Pending : max <= e
  <2>1. \A d \in Ids : Common(d) /\ d > LastId => d >= max
    BY <1>1 DEF Parts, ProgressOK
  <2>2. max \in Nat
    BY MaxType
  <2> QED
    BY <2>1, <2>2, SamePending, IdsNat
<1>5. \E k \in DOMAIN rounds' : rounds' = Append(rounds, rounds'[k]) /\ rounds'[k] = r
  <2>1. r \in [id : Ids \cup {0}, calls : Seq(Pipes \X Nat)]
    BY DEF TypesOK
  <2>2. rounds \in Seq([id : Ids, calls : Seq(Pipes \X Nat)])
    BY DEF TypesOK
  <2>3. Len(rounds') \in DOMAIN rounds' /\ rounds'[Len(rounds')] = r
    BY <1>1, <2>2, AppendLast
  <2> QED
    BY <1>1, <2>3
<1>6. Outcome = "merging" /\ Outcome' \in {"merging", "stopped"}
  BY <1>1 DEF Outcome
<1> QED
  BY <1>2, <1>3, <1>4, <1>5, <1>6, Zenon DEF C!Deliver

\* A step that returns 0 is taken when no common id is left.
LEMMA ReturnExhausts ==
  ASSUME TypesOK, Sized(file), CallsOK, Parts', TypesOK', UNCHANGED <<file, rounds, ret>>,
         pc \in {"jumping", "again"}, pc' = "exit_0"
  PROVE  C!Exhaust
<1>1. ret = 0
  BY DEF CallsOK
<1>2. NoCommonAbove(LastId)
  <2>1. NoCommonAbove(LastId)'
    BY <1>1 DEF Parts, ProgressOK
  <2>2. LastId' = LastId /\ \A d : Common(d)' <=> Common(d)
    BY RoundsFrame, FileFrame DEF LastId
  <2> QED
    BY <2>1, <2>2 DEF NoCommonAbove
<1>3. C!Pending = {}
  <2>1. LastId \in Nat
    BY MaxType
  <2>2. \A d : d \in C!Pending => d \in Ids /\ d <= LastId /\ d > LastId
    BY <1>2, SamePending DEF NoCommonAbove
  <2> QED
    BY <2>1, <2>2, IdsNat
<1>4. Outcome = "merging" /\ Outcome' = "exhausted"
  BY <1>1 DEF Outcome
<1> QED
  BY <1>3, <1>4 DEF C!Exhaust

\* Every step of posmerge() is a step of the contract or leaves what the caller
\* sees alone.
LEMMA StepMaps ==
  ASSUME TypesOK, TypesOK', MergeInv, MergeInv', Sized(file) => CallsOK, [Next]_vars
  PROVE  [C!ANext]_(C!avars)
<1>1. UNCHANGED file
  BY FileFixed
<1>2. CASE ~Sized(file)
  BY <1>1, <1>2 DEF C!ANext, C!Unspecified
<1>3. CASE Sized(file)
  <2>1. Parts /\ Parts' /\ CallsOK
    BY <1>1, <1>3 DEF MergeInv, Parts
  <2>2. CASE OpenFails
    <3>1. rounds = <<>> /\ rounds' = rounds
      BY <2>1, <2>2 DEF OpenFails, Parts, CursorsOK
    <3>2. Outcome = "merging" /\ Outcome' = "failed"
      BY <2>2 DEF OpenFails, Outcome
    <3> QED
      BY <1>1, <3>1, <3>2 DEF C!ANext, C!Fail
  <2>3. CASE EndCall
    BY <1>1, <1>3, <2>1, <2>3, EndCallDelivers DEF C!ANext
  <2>4. CASE JumpFail \/ (Again /\ ~goOn)
    <3>1. /\ pc \in {"jumping", "again"} /\ pc' = "exit_0"
          /\ UNCHANGED <<file, rounds, ret>>
      BY <2>4 DEF JumpFail, Again
    <3> QED
      BY <1>1, <1>3, <2>1, <3>1, ReturnExhausts DEF C!ANext
  <2>5. CASE JumpSkip \/ JumpLand
    <3>1. NextPipe("jump", "again") /\ pc \in {"jump", "jumping"} /\ rounds' = rounds
      BY <2>5 DEF JumpSkip, JumpLand
    <3>2. pc' \in {"jump", "again"}
      BY <3>1 DEF NextPipe
    <3> QED
      BY <1>1, <3>1, <3>2 DEF C!avars, Outcome
  <2>6. CASE MatchLast \/ MatchOther
    <3>1. NextPipe("match", "tail") /\ pc = "match" /\ rounds' = rounds
      BY <2>6 DEF MatchLast, MatchOther, Matching
    <3>2. pc' \in {"match", "tail"}
      BY <3>1 DEF NextPipe
    <3> QED
      BY <1>1, <3>1, <3>2 DEF C!avars, Outcome
  <2>7. CASE InitialRead \/ Scan \/ JumpEnter
    BY <1>1, <2>7 DEF InitialRead, Scan, JumpEnter, C!avars, Outcome
  <2>8. CASE JumpRebuf \/ MatchItem \/ MatchRebuf \/ (Again /\ goOn)
    BY <1>1, <2>8 DEF JumpRebuf, MatchItem, MatchRebuf, Matching, Again, C!avars, Outcome
  <2>9. CASE UNCHANGED vars
    BY <2>9 DEF vars, C!avars, Outcome
  <2> QED
    BY <1>3, <2>1, <2>2, <2>3, <2>4, <2>5, <2>6, <2>7, <2>8, <2>9, NoOverrun
       DEF Next, Step, Returned, Overran
<1> QED
  BY <1>2, <1>3

\* For every number of pipes, block size and files: posmerge() implements
\* MergeContract.  For the sized files each ending call delivers the least id
\* common to all files that is not reported yet, with every item of it in
\* order, and the merge returns 0 only when none is left.
THEOREM MergeImplementsContract == Spec => Contract
<1> DEFINE A == TypesOK /\ MergeInv /\ (Sized(file) => CallsOK)
<1>1. Init => C!AInit
  BY DEF Init, C!AInit, Outcome
<1>2. A /\ A' /\ [Next]_vars => [C!ANext]_(C!avars)
  BY StepMaps
<1>3. Spec => []A
  BY CallsInvariant
<1> HIDE DEF A
<1> QED
  BY <1>1, <1>2, <1>3, PTL DEF Spec, Contract, C!ASpec

=============================================================================
