---------------------------- MODULE IndexProofs ----------------------------
(***************************************************************************)
(* Proofs about Index, for any number of runs, searches, subpaths and      *)
(* faults: the posting files stay in the order of their ids, and they      *)
(* do not change under a search.  Both follow from the one lock that every *)
(* process takes first, the one of formula.db.                             *)
(***************************************************************************)
EXTENDS Index, SequenceTheorems, FiniteSetTheorems, TLAPS

---------------------------------------------------------------------------
(* The inductive invariant *)

BeforePut == {"start", "parse", "posting", "check"} \cup DBs

\* How far a run is with its three values.
PutsInv ==
  \A r \in Runs : /\ pc[r] \in BeforePut => puts[r] = 0
                  /\ pc[r] = "put" => puts[r] < 3

\* A database is open for writing in one run at most, and in none while a
\* search has it open.
LockInv ==
  /\ \A r \in Runs, db \in DBs : db \in opened[r] => writer[db] = r
  /\ \A db \in DBs : readers[db] # {} => writer[db] = NONE
  /\ \A s \in Searches : spc[s] = "search" => s \in readers["formula"]

\* The id of a run that writes postings is the next one, and it stays the next
\* one, for the run has formula.db.
NextIdInv ==
  \A r \in Runs : pc[r] = "posting" => /\ "formula" \in opened[r]
                                       /\ id_new[r] = rnum \div 3 + 1

\* No item has an id that is yet to come.
ItemsInv ==
  \A d \in Dirs : \A k \in DOMAIN posting[d] : posting[d][k].id <= rnum \div 3 + 1

IndexInv ==
  IndexTypeOK /\ PutsInv /\ LockInv /\ NextIdInv /\ ItemsInv /\ PostingsSorted

---------------------------------------------------------------------------
(* Types *)

\* The types and the number of puts, initially.
LEMMA TypeInit == Init => IndexTypeOK /\ PutsInv
BY IndexAssumption DEF Init, IndexTypeOK, PutsInv, BeforePut, PCs, DBs

\* A fault is counted, and the count is bounded.
LEMMA FaultBound ==
  ASSUME IndexTypeOK, Fault
  PROVE  faults' \in 0 .. MaxFaults
BY IndexAssumption DEF IndexTypeOK, Fault

\* Every step of a run or a search keeps the types and the number of puts.
LEMMA TypeStep ==
  ASSUME IndexTypeOK, PutsInv, [Next]_vars
  PROVE  IndexTypeOK' /\ PutsInv'
<1> USE DEF Goto, SGoto, IndexTypeOK, PutsInv, BeforePut, PCs, DBs, dbVars, runVars
<1>0. \A r \in Runs : PathsOf[r] \in Seq(Dirs) /\ Len(PathsOf[r]) \in Nat
  BY IndexAssumption
<1>1. ASSUME NEW r \in Runs, Begin(r)
     PROVE  IndexTypeOK' /\ PutsInv'
  BY <1>1 DEF Begin
<1>2. ASSUME NEW r \in Runs, NEW db \in DBs, Open(r, db)
     PROVE  IndexTypeOK' /\ PutsInv'
  <2>1. After(db) \in {"webpage", "textree", "parse"}
    BY DEF After
  <2> QED
    BY <1>2, <2>1 DEF Open
<1>3. ASSUME NEW r \in Runs, NEW db \in DBs, OpenFails(r, db)
     PROVE  IndexTypeOK' /\ PutsInv'
  <2>1. After(db) \in {"webpage", "textree", "parse"}
    BY DEF After
  <2>2. faults' \in 0 .. MaxFaults
    BY <1>3, FaultBound DEF OpenFails
  <2> QED
    BY <1>3, <2>1, <2>2 DEF OpenFails
<1>4. ASSUME NEW r \in Runs, Reject(r)
     PROVE  IndexTypeOK' /\ PutsInv'
  BY <1>4 DEF Reject
<1>5. ASSUME NEW r \in Runs, Assign(r)
     PROVE  IndexTypeOK' /\ PutsInv'
  <2>1. id_new' \in [Runs -> Nat]
    BY <1>5 DEF Assign
  <2> QED
    BY <1>5, <2>1 DEF Assign
<1>6. ASSUME NEW r \in Runs, UseNull(r)
     PROVE  IndexTypeOK' /\ PutsInv'
  BY <1>6 DEF UseNull, Die
<1>7. ASSUME NEW r \in Runs, WritePosting(r)
     PROVE  IndexTypeOK' /\ PutsInv'
  <2>1. written[r] + 1 \in 1 .. Len(PathsOf[r])
    BY <1>7, <1>0, SMTT(20) DEF WritePosting
  <2>2. PathsOf[r][written[r] + 1] \in Dirs
    BY <2>1, <1>0
  <2>3. posting' \in [Dirs -> Seq([id : Nat, by : Runs])]
    BY <1>7, <2>2 DEF WritePosting
  <2>4. written' \in [Runs -> Nat] /\ \A q \in Runs : written'[q] <= Len(PathsOf[q])
    <3>1. /\ written' = [written EXCEPT ![r] = written[r] + 1]
          /\ written[r] < Len(PathsOf[r])
      BY <1>7 DEF WritePosting
    <3> QED
      BY <3>1, <1>0
  <2> QED
    BY <1>7, <2>3, <2>4 DEF WritePosting
<1>8. ASSUME NEW r \in Runs, SkipPosting(r)
     PROVE  IndexTypeOK' /\ PutsInv'
  <2>1. written' \in [Runs -> Nat] /\ \A q \in Runs : written'[q] <= Len(PathsOf[q])
    <3>1. /\ written' = [written EXCEPT ![r] = written[r] + 1]
          /\ written[r] < Len(PathsOf[r])
      BY <1>8 DEF SkipPosting
    <3> QED
      BY <3>1, <1>0
  <2>2. faults' \in 0 .. MaxFaults
    BY <1>8, FaultBound DEF SkipPosting
  <2> QED
    BY <1>8, <2>1, <2>2 DEF SkipPosting
<1>9. ASSUME NEW r \in Runs, PostingDone(r)
     PROVE  IndexTypeOK' /\ PutsInv'
  BY <1>9 DEF PostingDone
<1>10. ASSUME NEW r \in Runs, CheckNew(r)
     PROVE  IndexTypeOK' /\ PutsInv'
  BY <1>10 DEF CheckNew
<1>11. ASSUME NEW r \in Runs, NotNew(r)
     PROVE  IndexTypeOK' /\ PutsInv'
  BY <1>11 DEF NotNew, Die
<1>12. ASSUME NEW r \in Runs, PutValue(r)
     PROVE  IndexTypeOK' /\ PutsInv'
  <2>1. puts[r] \in 0 .. 2 /\ pc[r] = "put"
    BY <1>12 DEF PutValue
  <2>2. puts' = [puts EXCEPT ![r] = @ + 1]
    BY <1>12 DEF PutValue
  <2>3. puts' \in [Runs -> 0 .. 3]
    BY <2>1, <2>2
  <2>4. \/ puts[r] + 1 = 3 /\ pc' = [pc EXCEPT ![r] = "put_webpage"]
        \/ puts[r] + 1 # 3 /\ pc' = pc
    BY <1>12 DEF PutValue, Values
  <2>5. PutsInv'
    BY <2>1, <2>2, <2>4
  <2> QED
    BY <1>12, <2>3, <2>4, <2>5 DEF PutValue
<1>13. ASSUME NEW r \in Runs, PutFails(r)
     PROVE  IndexTypeOK' /\ PutsInv'
  <2>1. faults' \in 0 .. MaxFaults
    BY <1>13, FaultBound DEF PutFails
  <2> QED
    BY <1>13, <2>1 DEF PutFails
<1>14. ASSUME NEW r \in Runs, PutRef(r, "webpage", "put_webpage", "put_textree")
     PROVE  IndexTypeOK' /\ PutsInv'
  BY <1>14 DEF PutRef
<1>15. ASSUME NEW r \in Runs, PutRef(r, "textree", "put_textree", "close")
     PROVE  IndexTypeOK' /\ PutsInv'
  BY <1>15 DEF PutRef
<1>16. ASSUME NEW r \in Runs,
            PutRefFails(r, "webpage", "put_webpage", "put_textree")
     PROVE  IndexTypeOK' /\ PutsInv'
  <2>1. faults' \in 0 .. MaxFaults
    BY <1>16, FaultBound DEF PutRefFails
  <2> QED
    BY <1>16, <2>1 DEF PutRefFails
<1>17. ASSUME NEW r \in Runs, PutRefFails(r, "textree", "put_textree", "close")
     PROVE  IndexTypeOK' /\ PutsInv'
  <2>1. faults' \in 0 .. MaxFaults
    BY <1>17, FaultBound DEF PutRefFails
  <2> QED
    BY <1>17, <2>1 DEF PutRefFails
<1>18. ASSUME NEW r \in Runs, CloseFormula(r)
     PROVE  IndexTypeOK' /\ PutsInv'
  <2>1. puts[r] \in 0 .. 3 /\ id_new[r] \in Nat
    OBVIOUS
  <2>2. \A k \in 1 .. puts[r] : Values[k] \in {"n_brw", "frml", "url"}
    <3> TAKE k \in 1 .. puts[r]
    <3>1. k = 1 \/ k = 2 \/ k = 3
      BY <2>1
    <3> QED
      BY <3>1 DEF Values
  <2>3. Stored(r) \subseteq [id : Nat, by : Runs, val : {"n_brw", "frml", "url"}]
    BY <2>1, <2>2 DEF Stored
  <2>4. fdb' = fdb \cup Stored(r) /\ rnum' = rnum + puts[r]
    BY <1>18 DEF CloseFormula
  <2>5. fdb' \subseteq [id : Nat, by : Runs, val : {"n_brw", "frml", "url"}]
    BY <2>3, <2>4
  <2>6. rnum' \in Nat
    BY <2>1, <2>4
  <2> QED
    BY <1>18, <2>5, <2>6 DEF CloseFormula, Released
<1>19. ASSUME NEW r \in Runs, CloseWebpage(r)
     PROVE  IndexTypeOK' /\ PutsInv'
  <2>1. \A w \in wdb' : w.id \in Nat /\ w.by \in Runs
    BY <1>19 DEF CloseWebpage
  <2> QED
    BY <1>19, <2>1 DEF CloseWebpage, Released
<1>20. ASSUME NEW r \in Runs, CloseTextree(r)
     PROVE  IndexTypeOK' /\ PutsInv'
  BY <1>20 DEF CloseTextree, Released
<1>21. ASSUME NEW r \in Runs, Exit(r)
     PROVE  IndexTypeOK' /\ PutsInv'
  BY <1>21 DEF Exit
<1>22. ASSUME NEW r \in Runs, Crash(r)
     PROVE  IndexTypeOK' /\ PutsInv'
  <2>1. faults' \in 0 .. MaxFaults
    BY <1>22, FaultBound DEF Crash
  <2> QED
    BY <1>22, <2>1 DEF Crash, Die
<1>23. ASSUME NEW s \in Searches, SBegin(s)
     PROVE  IndexTypeOK' /\ PutsInv'
  BY <1>23 DEF SBegin
<1>24. ASSUME NEW s \in Searches, SOpen(s, "formula", "textree")
     PROVE  IndexTypeOK' /\ PutsInv'
  <2>1. readers' \in [DBs -> SUBSET Searches]
    BY <1>24 DEF SOpen
  <2> QED
    BY <1>24, <2>1 DEF SOpen
<1>25. ASSUME NEW s \in Searches, SOpen(s, "textree", "opened")
     PROVE  IndexTypeOK' /\ PutsInv'
  <2>1. readers' \in [DBs -> SUBSET Searches]
    BY <1>25 DEF SOpen
  <2> QED
    BY <1>25, <2>1 DEF SOpen
<1>26. ASSUME NEW s \in Searches, SReady(s)
     PROVE  IndexTypeOK' /\ PutsInv'
  BY <1>26 DEF SReady
<1>27. ASSUME NEW s \in Searches, SFound(s)
     PROVE  IndexTypeOK' /\ PutsInv'
  BY <1>27 DEF SFound
<1>28. ASSUME NEW s \in Searches, SClose(s, "formula")
     PROVE  IndexTypeOK' /\ PutsInv'
  BY <1>28 DEF SClose
<1>29. ASSUME NEW s \in Searches, SClose(s, "textree")
     PROVE  IndexTypeOK' /\ PutsInv'
  BY <1>29 DEF SClose
<1>30. ASSUME NEW s \in Searches, SExit(s)
     PROVE  IndexTypeOK' /\ PutsInv'
  BY <1>30 DEF SExit
<1>31. CASE UNCHANGED vars
  BY <1>31 DEF vars
<1> QED
  BY <1>1, <1>2, <1>3, <1>4, <1>5, <1>6, <1>7, <1>8, <1>9, <1>10, <1>11, <1>12, <1>13, <1>14, <1>15,
     <1>16, <1>17, <1>18, <1>19, <1>20, <1>21, <1>22, <1>23, <1>24, <1>25, <1>26, <1>27, <1>28, <1>29, <1>30, <1>31
  DEF Next, RunStep, RunFault, SearchStep, Finished

---------------------------------------------------------------------------
(* Locks *)

\* No database is open initially.
LEMMA LockInit == Init => LockInv
BY DEF Init, LockInv

\* The locks of tcbdbopen() exclude each other in every step.
LEMMA LockStep ==
  ASSUME IndexTypeOK, IndexTypeOK', LockInv, [Next]_vars
  PROVE  LockInv'
<1> USE DEF Goto, SGoto, LockInv, DBs, dbVars, runVars
<1>0. /\ writer \in [DBs -> Runs \cup {NONE}] /\ readers \in [DBs -> SUBSET Searches]
      /\ opened \in [Runs -> SUBSET DBs] /\ pc \in [Runs -> PCs]
      /\ DOMAIN spc = Searches /\ NONE \notin Runs
      /\ spc = [q \in Searches |-> spc[q]]
  BY IndexAssumption DEF IndexTypeOK
<1>1. ASSUME NEW r \in Runs, Begin(r)
     PROVE  LockInv'
  BY <1>1, <1>0 DEF Begin
<1>2. ASSUME NEW r \in Runs, NEW db \in DBs, Open(r, db)
     PROVE  LockInv'
  BY <1>2, <1>0 DEF Open
<1>3. ASSUME NEW r \in Runs, NEW db \in DBs, OpenFails(r, db)
     PROVE  LockInv'
  BY <1>3, <1>0 DEF OpenFails, Fault
<1>4. ASSUME NEW r \in Runs, Reject(r)
     PROVE  LockInv'
  BY <1>4, <1>0 DEF Reject
<1>5. ASSUME NEW r \in Runs, Assign(r)
     PROVE  LockInv'
  BY <1>5, <1>0 DEF Assign
<1>6. ASSUME NEW r \in Runs, UseNull(r)
     PROVE  LockInv'
  BY <1>6, <1>0 DEF UseNull, Die
<1>7. ASSUME NEW r \in Runs, WritePosting(r)
     PROVE  LockInv'
  BY <1>7, <1>0 DEF WritePosting
<1>8. ASSUME NEW r \in Runs, SkipPosting(r)
     PROVE  LockInv'
  BY <1>8, <1>0 DEF SkipPosting, Fault
<1>9. ASSUME NEW r \in Runs, PostingDone(r)
     PROVE  LockInv'
  BY <1>9, <1>0 DEF PostingDone
<1>10. ASSUME NEW r \in Runs, CheckNew(r)
     PROVE  LockInv'
  BY <1>10, <1>0 DEF CheckNew
<1>11. ASSUME NEW r \in Runs, NotNew(r)
     PROVE  LockInv'
  BY <1>11, <1>0 DEF NotNew, Die
<1>12. ASSUME NEW r \in Runs, PutValue(r)
     PROVE  LockInv'
  BY <1>12, <1>0 DEF PutValue, Values
<1>13. ASSUME NEW r \in Runs, PutFails(r)
     PROVE  LockInv'
  BY <1>13, <1>0 DEF PutFails
<1>14. ASSUME NEW r \in Runs, PutRef(r, "webpage", "put_webpage", "put_textree")
     PROVE  LockInv'
  BY <1>14, <1>0 DEF PutRef
<1>15. ASSUME NEW r \in Runs, PutRef(r, "textree", "put_textree", "close")
     PROVE  LockInv'
  BY <1>15, <1>0 DEF PutRef
<1>16. ASSUME NEW r \in Runs,
            PutRefFails(r, "webpage", "put_webpage", "put_textree")
     PROVE  LockInv'
  BY <1>16, <1>0 DEF PutRefFails
<1>17. ASSUME NEW r \in Runs, PutRefFails(r, "textree", "put_textree", "close")
     PROVE  LockInv'
  BY <1>17, <1>0 DEF PutRefFails
<1>18. ASSUME NEW r \in Runs, CloseFormula(r)
     PROVE  LockInv'
  BY <1>18, <1>0 DEF CloseFormula, Released, Stored
<1>19. ASSUME NEW r \in Runs, CloseWebpage(r)
     PROVE  LockInv'
  BY <1>19, <1>0 DEF CloseWebpage, Released
<1>20. ASSUME NEW r \in Runs, CloseTextree(r)
     PROVE  LockInv'
  BY <1>20, <1>0 DEF CloseTextree, Released
<1>21. ASSUME NEW r \in Runs, Exit(r)
     PROVE  LockInv'
  BY <1>21, <1>0 DEF Exit
<1>22. ASSUME NEW r \in Runs, Crash(r)
     PROVE  LockInv'
  BY <1>22, <1>0 DEF Crash, Die
<1>23. ASSUME NEW s \in Searches, SBegin(s)
     PROVE  LockInv'
  BY <1>23, <1>0 DEF SBegin
<1>24. ASSUME NEW s \in Searches, SOpen(s, "formula", "textree")
     PROVE  LockInv'
  BY <1>24, <1>0 DEF SOpen
<1>25. ASSUME NEW s \in Searches, SOpen(s, "textree", "opened")
     PROVE  LockInv'
  BY <1>25, <1>0 DEF SOpen
<1>26. ASSUME NEW s \in Searches, SReady(s)
     PROVE  LockInv'
  BY <1>26, <1>0 DEF SReady
<1>27. ASSUME NEW s \in Searches, SFound(s)
     PROVE  LockInv'
  BY <1>27, <1>0 DEF SFound
<1>28. ASSUME NEW s \in Searches, SClose(s, "formula")
     PROVE  LockInv'
  BY <1>28, <1>0 DEF SClose
<1>29. ASSUME NEW s \in Searches, SClose(s, "textree")
     PROVE  LockInv'
  BY <1>29, <1>0 DEF SClose
<1>30. ASSUME NEW s \in Searches, SExit(s)
     PROVE  LockInv'
  BY <1>30, <1>0 DEF SExit
<1>31. CASE UNCHANGED vars
  BY <1>31 DEF vars
<1> QED
  BY <1>1, <1>2, <1>3, <1>4, <1>5, <1>6, <1>7, <1>8, <1>9, <1>10, <1>11, <1>12, <1>13, <1>14, <1>15,
     <1>16, <1>17, <1>18, <1>19, <1>20, <1>21, <1>22, <1>23, <1>24, <1>25, <1>26, <1>27, <1>28, <1>29, <1>30, <1>31
  DEF Next, RunStep, RunFault, SearchStep, Finished

---------------------------------------------------------------------------
(* Who changes what *)

\* Only a run at "posting" appends to a posting file.
LEMMA OnlyWritePosting ==
  ASSUME [Next]_vars, ~ \E r \in Runs : WritePosting(r)
  PROVE  UNCHANGED posting
BY DEF Next, RunStep, RunFault, SearchStep, Finished, vars, dbVars, runVars, Begin, Open,
   OpenFails, Reject, Assign, UseNull, Die, SkipPosting, PostingDone, CheckNew, NotNew,
   PutValue, PutFails, PutRef, PutRefFails, CloseFormula, CloseWebpage, CloseTextree,
   Exit, Crash, SBegin, SOpen, SReady, SFound, SClose, SExit

\* Only closing formula.db stores in it.
LEMMA OnlyCloseFormula ==
  ASSUME [Next]_vars, ~ \E r \in Runs : CloseFormula(r)
  PROVE  UNCHANGED <<fdb, rnum>>
BY ZenonT(40) DEF Next, RunStep, RunFault, SearchStep, Finished, vars, dbVars, runVars, Begin, Open,
   OpenFails, Reject, Assign, UseNull, Die, WritePosting, SkipPosting, PostingDone,
   CheckNew, NotNew, PutValue, PutFails, PutRef, PutRefFails, CloseWebpage, CloseTextree,
   Exit, Crash, SBegin, SOpen, SReady, SFound, SClose, SExit

---------------------------------------------------------------------------
(* Ids *)

\* A run that has formula.db open computes an id that is not below any
\* id in a posting file, and no other run can change that.
LEMMA NextIdStep ==
  ASSUME IndexTypeOK, LockInv, NextIdInv, [Next]_vars
  PROVE  NextIdInv'
<1> USE DEF Goto, SGoto, NextIdInv, dbVars, runVars
<1>0. /\ pc \in [Runs -> PCs] /\ opened \in [Runs -> SUBSET DBs]
      /\ id_new \in [Runs -> Nat]
      /\ \A r \in Runs : "formula" \in opened[r] => writer["formula"] = r
      /\ \A r \in Runs : pc[r] = "posting" => writer["formula"] = r
  BY DEF IndexTypeOK, LockInv, DBs
<1>1. ASSUME NEW r \in Runs, Begin(r)
     PROVE  NextIdInv'
  BY <1>1, <1>0 DEF Begin
<1>2. ASSUME NEW r \in Runs, NEW db \in DBs, Open(r, db)
     PROVE  NextIdInv'
  <2>1. After(db) # "posting"
    BY DEF After, DBs
  <2>2. opened' = [opened EXCEPT ![r] = opened[r] \cup {db}] /\ id_new' = id_new /\ rnum' = rnum
    BY <1>2, <1>0 DEF Open
  <2>3. pc' = [pc EXCEPT ![r] = After(db)]
    BY <1>2, <1>0 DEF Open
  <2> QED
    BY <2>1, <2>2, <2>3, <1>0
<1>3. ASSUME NEW r \in Runs, NEW db \in DBs, OpenFails(r, db)
     PROVE  NextIdInv'
  <2>1. After(db) # "posting"
    BY DEF After, DBs
  <2>2. opened' = opened /\ id_new' = id_new /\ rnum' = rnum
    BY <1>3, <1>0 DEF OpenFails
  <2>3. pc' = [pc EXCEPT ![r] = After(db)]
    BY <1>3, <1>0 DEF OpenFails
  <2> QED
    BY <2>1, <2>2, <2>3, <1>0
<1>4. ASSUME NEW r \in Runs, Reject(r)
     PROVE  NextIdInv'
  BY <1>4, <1>0 DEF Reject
<1>5. ASSUME NEW r \in Runs, Assign(r)
     PROVE  NextIdInv'
  BY <1>5, <1>0 DEF Assign
<1>6. ASSUME NEW r \in Runs, UseNull(r)
     PROVE  NextIdInv'
  BY <1>6, <1>0 DEF UseNull, Die
<1>7. ASSUME NEW r \in Runs, WritePosting(r)
     PROVE  NextIdInv'
  BY <1>7, <1>0 DEF WritePosting
<1>8. ASSUME NEW r \in Runs, SkipPosting(r)
     PROVE  NextIdInv'
  BY <1>8, <1>0 DEF SkipPosting, Fault
<1>9. ASSUME NEW r \in Runs, PostingDone(r)
     PROVE  NextIdInv'
  BY <1>9, <1>0 DEF PostingDone
<1>10. ASSUME NEW r \in Runs, CheckNew(r)
     PROVE  NextIdInv'
  BY <1>10, <1>0 DEF CheckNew
<1>11. ASSUME NEW r \in Runs, NotNew(r)
     PROVE  NextIdInv'
  BY <1>11, <1>0 DEF NotNew, Die
<1>12. ASSUME NEW r \in Runs, PutValue(r)
     PROVE  NextIdInv'
  BY <1>12, <1>0 DEF PutValue, Values
<1>13. ASSUME NEW r \in Runs, PutFails(r)
     PROVE  NextIdInv'
  BY <1>13, <1>0 DEF PutFails
<1>14. ASSUME NEW r \in Runs, PutRef(r, "webpage", "put_webpage", "put_textree")
     PROVE  NextIdInv'
  BY <1>14, <1>0 DEF PutRef
<1>15. ASSUME NEW r \in Runs, PutRef(r, "textree", "put_textree", "close")
     PROVE  NextIdInv'
  BY <1>15, <1>0 DEF PutRef
<1>16. ASSUME NEW r \in Runs,
            PutRefFails(r, "webpage", "put_webpage", "put_textree")
     PROVE  NextIdInv'
  BY <1>16, <1>0 DEF PutRefFails
<1>17. ASSUME NEW r \in Runs, PutRefFails(r, "textree", "put_textree", "close")
     PROVE  NextIdInv'
  BY <1>17, <1>0 DEF PutRefFails
<1>18. ASSUME NEW r \in Runs, CloseFormula(r)
     PROVE  NextIdInv'
  <2>1. pc[r] = "close" /\ writer["formula"] = r /\ pc' = pc /\ id_new' = id_new
    BY <1>18, <1>0 DEF CloseFormula, Released
  <2>2. \A q \in Runs : pc[q] # "posting"
    BY <2>1, <1>0
  <2> QED
    BY <2>1, <2>2
<1>19. ASSUME NEW r \in Runs, CloseWebpage(r)
     PROVE  NextIdInv'
  BY <1>19, <1>0 DEF CloseWebpage, Released
<1>20. ASSUME NEW r \in Runs, CloseTextree(r)
     PROVE  NextIdInv'
  BY <1>20, <1>0 DEF CloseTextree, Released
<1>21. ASSUME NEW r \in Runs, Exit(r)
     PROVE  NextIdInv'
  BY <1>21, <1>0 DEF Exit
<1>22. ASSUME NEW r \in Runs, Crash(r)
     PROVE  NextIdInv'
  BY <1>22, <1>0 DEF Crash, Die
<1>23. ASSUME NEW s \in Searches, SBegin(s)
     PROVE  NextIdInv'
  BY <1>23, <1>0 DEF SBegin
<1>24. ASSUME NEW s \in Searches, SOpen(s, "formula", "textree")
     PROVE  NextIdInv'
  BY <1>24, <1>0 DEF SOpen
<1>25. ASSUME NEW s \in Searches, SOpen(s, "textree", "opened")
     PROVE  NextIdInv'
  BY <1>25, <1>0 DEF SOpen
<1>26. ASSUME NEW s \in Searches, SReady(s)
     PROVE  NextIdInv'
  BY <1>26, <1>0 DEF SReady
<1>27. ASSUME NEW s \in Searches, SFound(s)
     PROVE  NextIdInv'
  BY <1>27, <1>0 DEF SFound
<1>28. ASSUME NEW s \in Searches, SClose(s, "formula")
     PROVE  NextIdInv'
  BY <1>28, <1>0 DEF SClose
<1>29. ASSUME NEW s \in Searches, SClose(s, "textree")
     PROVE  NextIdInv'
  BY <1>29, <1>0 DEF SClose
<1>30. ASSUME NEW s \in Searches, SExit(s)
     PROVE  NextIdInv'
  BY <1>30, <1>0 DEF SExit
<1>31. CASE UNCHANGED vars
  BY <1>31 DEF vars
<1> QED
  BY <1>1, <1>2, <1>3, <1>4, <1>5, <1>6, <1>7, <1>8, <1>9, <1>10, <1>11, <1>12, <1>13, <1>14, <1>15,
     <1>16, <1>17, <1>18, <1>19, <1>20, <1>21, <1>22, <1>23, <1>24, <1>25, <1>26, <1>27, <1>28, <1>29, <1>30, <1>31
  DEF Next, RunStep, RunFault, SearchStep, Finished

\* The number of records, and so the next id, only grows.
LEMMA RecordsGrow ==
  ASSUME IndexTypeOK, [Next]_vars
  PROVE  /\ rnum \in Nat /\ rnum' \in Nat
         /\ rnum \div 3 + 1 <= rnum' \div 3 + 1
<1>1. rnum \in Nat /\ puts \in [Runs -> 0 .. 3]
  BY DEF IndexTypeOK
<1>2. rnum' \in Nat /\ rnum <= rnum'
  <2>1. CASE UNCHANGED <<fdb, rnum>>
    BY <2>1, <1>1
  <2>2. ASSUME NEW r \in Runs, CloseFormula(r) PROVE rnum' \in Nat /\ rnum <= rnum'
    BY <2>2, <1>1 DEF CloseFormula
  <2> QED
    BY <2>1, <2>2, OnlyCloseFormula
<1>3. \A m, n \in Nat : m <= n => m \div 3 + 1 <= n \div 3 + 1
  OBVIOUS
<1> QED
  BY <1>1, <1>2, <1>3

\* An appended item has the next id, which no item exceeds.
LEMMA PostingStep ==
  ASSUME IndexTypeOK, NextIdInv, ItemsInv, PostingsSorted, [Next]_vars
  PROVE  ItemsInv' /\ PostingsSorted'
<1>1. /\ rnum \in Nat /\ rnum' \in Nat /\ rnum \div 3 + 1 <= rnum' \div 3 + 1
      /\ rnum \div 3 + 1 \in Nat /\ rnum' \div 3 + 1 \in Nat
  BY RecordsGrow
<1>2. posting \in [Dirs -> Seq([id : Nat, by : Runs])]
  BY DEF IndexTypeOK
<1>3. \A d \in Dirs : \A k \in DOMAIN posting[d] : posting[d][k].id \in Nat
  <2> TAKE d \in Dirs
  <2> TAKE k \in DOMAIN posting[d]
  <2>1. posting[d] \in Seq([id : Nat, by : Runs])
    BY <1>2
  <2>2. ASSUME NEW S, NEW q \in Seq(S), NEW l \in DOMAIN q PROVE q[l] \in S
    BY ElementOfSeq
  <2>3. posting[d][k] \in [id : Nat, by : Runs]
    BY <2>1, <2>2
  <2> QED
    BY <2>3
<1>4. CASE UNCHANGED posting
  <2>1. PostingsSorted'
    BY <1>4 DEF PostingsSorted
  <2>2. ItemsInv'
    <3> SUFFICES ASSUME NEW d \in Dirs, NEW k \in DOMAIN posting[d]
                 PROVE  posting[d][k].id <= rnum' \div 3 + 1
      BY <1>4 DEF ItemsInv
    <3> DEFINE i == posting[d][k].id
               m == rnum \div 3 + 1
               n == rnum' \div 3 + 1
    <3>1. i \in Nat /\ m \in Nat /\ n \in Nat /\ i <= m /\ m <= n
      BY <1>1, <1>3 DEF ItemsInv
    <3> HIDE DEF i, m, n
    <3>2. i <= n
      BY <3>1
    <3> QED
      BY <3>2 DEF i, n
  <2> QED
    BY <2>1, <2>2
<1>5. ASSUME NEW r \in Runs, WritePosting(r)
      PROVE  ItemsInv' /\ PostingsSorted'
  <2> DEFINE e == PathsOf[r][written[r] + 1]
             it == [id |-> id_new[r], by |-> r]
  <2>1. /\ posting' = [posting EXCEPT ![e] = Append(posting[e], it)]
        /\ pc[r] = "posting" /\ rnum' = rnum
    BY <1>5 DEF WritePosting, dbVars
  <2>2. it.id = rnum \div 3 + 1
    BY <2>1 DEF NextIdInv
  <2>3. \A d \in Dirs : d # e => posting'[d] = posting[d]
    BY <2>1, <1>2
  <2>4. ASSUME e \in Dirs
        PROVE  /\ posting'[e] = Append(posting[e], it)
               /\ DOMAIN posting[e] = 1 .. Len(posting[e]) /\ Len(posting[e]) \in Nat
               /\ DOMAIN posting'[e] = 1 .. Len(posting[e]) + 1
               /\ \A k \in 1 .. Len(posting[e]) : posting'[e][k] = posting[e][k]
               /\ posting'[e][Len(posting[e]) + 1] = it
    <3>1. posting'[e] = Append(posting[e], it) /\ posting[e] \in Seq([id : Nat, by : Runs])
      BY <2>1, <2>4, <1>2
    <3>2. it \in [id : Nat, by : Runs]
      BY <2>2, <1>1
    <3> HIDE DEF it, e
    <3>3. posting'[e] \in Seq([id : Nat, by : Runs]) /\ Len(posting'[e]) = Len(posting[e]) + 1
      BY <3>1, <3>2
    <3>4. \A k \in 1 .. Len(posting[e]) : posting'[e][k] = posting[e][k]
      BY <3>1, <3>2
    <3>5. posting'[e][Len(posting[e]) + 1] = it
      BY <3>1, <3>2
    <3>6. /\ DOMAIN posting[e] = 1 .. Len(posting[e]) /\ Len(posting[e]) \in Nat
          /\ DOMAIN posting'[e] = 1 .. Len(posting[e]) + 1
      BY <3>1, <3>3
    <3> QED
      BY <3>1, <3>4, <3>5, <3>6
  <2> HIDE DEF it, e
  <2>5. ItemsInv'
    <3> SUFFICES ASSUME NEW d \in Dirs, NEW k \in DOMAIN posting'[d]
                 PROVE  posting'[d][k].id <= rnum' \div 3 + 1
      BY DEF ItemsInv
    <3>1. CASE d # e
      BY <3>1, <2>1, <2>3 DEF ItemsInv
    <3>2. CASE d = e /\ k \in 1 .. Len(posting[e])
      BY <3>2, <2>1, <2>4 DEF ItemsInv
    <3>3. CASE d = e /\ k = Len(posting[e]) + 1
      BY <3>3, <2>1, <2>2, <2>4, <1>1
    <3> QED
      BY <3>1, <3>2, <3>3, <2>4
  <2>6. PostingsSorted'
    <3> SUFFICES ASSUME NEW d \in Dirs, NEW j \in DOMAIN posting'[d],
                        NEW k \in DOMAIN posting'[d], j <= k
                 PROVE  posting'[d][j].id <= posting'[d][k].id
      BY DEF PostingsSorted
    <3>1. CASE d # e
      BY <3>1, <2>3 DEF PostingsSorted
    <3>2. CASE d = e /\ k \in 1 .. Len(posting[e])
      <4>1. j \in 1 .. Len(posting[e])
        BY <3>2, <2>4
      <4> QED
        BY <4>1, <3>2, <2>4 DEF PostingsSorted
    <3>3. CASE d = e /\ k = Len(posting[e]) + 1
      <4>1. posting'[d][k].id = rnum' \div 3 + 1
        BY <3>3, <2>1, <2>2, <2>4
      <4> QED
        BY <4>1, <2>5 DEF ItemsInv
    <3> QED
      BY <3>1, <3>2, <3>3, <2>4
  <2> QED
    BY <2>5, <2>6
<1> QED
  BY <1>4, <1>5, OnlyWritePosting

---------------------------------------------------------------------------
(* Records: what a run stores in formula.db, and who refers to it *)

Writing == {"posting", "check", "put", "put_webpage", "put_textree"}

\* The record of run r under id has its three values in db.
CompleteIn(db, id, r) ==
  \A val \in {"n_brw", "frml", "url"} : [id |-> id, by |-> r, val |-> val] \in db

\* A run that writes has formula.db open; it refers to its record after the three
\* puts only, and stores them before it stores the references.
StoreInv ==
  \A r \in Runs :
    /\ pc[r] \in Writing => "formula" \in opened[r]
    /\ pc[r] \in {"put_webpage", "put_textree"} => puts[r] = 3
    /\ pc[r] \in BeforePut \cup {"put", "put_webpage"} => refs[r] = {}
    /\ refs[r] # {} => puts[r] = 3
    /\ pc[r] = "close" /\ refs[r] # {} /\ "formula" \notin opened[r]
       => CompleteIn(fdb, id_new[r], r)

\* The id of a run that has puts to store has no value of another run.
FreshInv ==
  \A r \in Runs :
    /\ "formula" \in opened[r]
    /\ \/ pc[r] \in {"put", "put_webpage", "put_textree"}
       \/ pc[r] = "close" /\ puts[r] > 0
    => ~HasValues(id_new[r])

\* The references are to complete records.
RefsInv == \A w \in wdb \cup tdb : CompleteIn(fdb, w.id, w.by)

\* The steps of a search change nothing a run has written or is about to write.
LEMMA SearchFrame ==
  ASSUME NEW s \in Searches, SBegin(s) \/ SearchStep(s)
  PROVE  UNCHANGED <<posting, fdb, rnum, wdb, tdb, pc, opened, id_new, written, puts,
                     refs, faults>>
BY DEF SBegin, SearchStep, SOpen, SReady, SFound, SClose, SExit, SGoto, dbVars, runVars

\* What a run stores when it closes formula.db.
LEMMA StoredValues ==
  ASSUME IndexTypeOK, NEW r \in Runs
  PROVE  /\ \A v \in Stored(r) : v.id = id_new[r] /\ v.by = r
         /\ puts[r] = 0 => Stored(r) = {}
         /\ puts[r] = 3 => CompleteIn(Stored(r), id_new[r], r)
<1>1. puts[r] \in 0 .. 3
  BY DEF IndexTypeOK
<1>2. \A v \in Stored(r) : v.id = id_new[r] /\ v.by = r
  BY DEF Stored
<1>3. ASSUME puts[r] = 0 PROVE Stored(r) = {}
  <2>1. 1 .. puts[r] = {}
    BY <1>3
  <2> QED
    BY <2>1 DEF Stored
<1>4. ASSUME puts[r] = 3 PROVE CompleteIn(Stored(r), id_new[r], r)
  <2>1. /\ 1 \in 1 .. puts[r] /\ 2 \in 1 .. puts[r] /\ 3 \in 1 .. puts[r]
        /\ Values[1] = "n_brw" /\ Values[2] = "frml" /\ Values[3] = "url"
    BY <1>4 DEF Values
  <2> QED
    BY <2>1 DEF Stored, CompleteIn
<1> QED
  BY <1>2, <1>3, <1>4

\* formula.db only grows, so a complete record stays complete.
LEMMA RecordsStay ==
  ASSUME [Next]_vars
  PROVE  /\ fdb \subseteq fdb'
         /\ \A id : \A r : CompleteIn(fdb, id, r) => CompleteIn(fdb', id, r)
<1>1. fdb \subseteq fdb'
  BY OnlyCloseFormula DEF CloseFormula
<1> QED
  BY <1>1 DEF CompleteIn

\* Three different elements make a set of three.
LEMMA ThreeElements ==
  ASSUME NEW a, NEW b, NEW c, a # b, a # c, b # c
  PROVE  Cardinality({a, b, c}) = 3
<1>1. IsFiniteSet({}) /\ Cardinality({}) = 0
  BY FS_EmptySet
<1>2. IsFiniteSet({a}) /\ Cardinality({a}) = 1
  BY FS_Singleton
<1>3. IsFiniteSet({a} \cup {b}) /\ Cardinality({a} \cup {b}) = 2
  BY <1>2, FS_AddElement
<1>4. Cardinality(({a} \cup {b}) \cup {c}) = 3
  BY <1>3, FS_AddElement
<1>5. {a, b, c} = ({a} \cup {b}) \cup {c}
  OBVIOUS
<1> QED
  BY <1>4, <1>5

\* A complete record has three values: a run puts no value twice.
LEMMA CompleteIsThree ==
  ASSUME IndexTypeOK, NEW id \in Nat, NEW r \in Runs, CompleteIn(fdb, id, r)
  PROVE  Cardinality(ValuesOf(id, r)) = 3
<1> DEFINE val(x) == [id |-> id, by |-> r, val |-> x]
           S == {val("n_brw"), val("frml"), val("url")}
<1>1. ValuesOf(id, r) \subseteq S
  <2> SUFFICES ASSUME NEW v \in ValuesOf(id, r) PROVE v \in S
    OBVIOUS
  <2>1. /\ v \in [id : Nat, by : Runs, val : {"n_brw", "frml", "url"}]
        /\ v.id = id /\ v.by = r
    BY DEF ValuesOf, IndexTypeOK
  <2>2. v = val(v.val) /\ v.val \in {"n_brw", "frml", "url"}
    BY <2>1
  <2> QED
    BY <2>2
<1>2. S \subseteq ValuesOf(id, r)
  BY DEF CompleteIn, ValuesOf
<1>3. val("n_brw") # val("frml") /\ val("n_brw") # val("url") /\ val("frml") # val("url")
  <2>1. val("n_brw").val = "n_brw" /\ val("frml").val = "frml" /\ val("url").val = "url"
    OBVIOUS
  <2> QED
    BY <2>1
<1> HIDE DEF val
<1>4. Cardinality(S) = 3
  BY <1>3, ThreeElements
<1> QED
  BY <1>1, <1>2, <1>4


\* A run opens formula.db before it writes and closes it first.
LEMMA StoreStep ==
  ASSUME IndexTypeOK, PutsInv, LockInv, StoreInv, [Next]_vars
  PROVE  StoreInv'
<1> USE DEF Goto, StoreInv, Writing, BeforePut, DBs, dbVars
<1>0. /\ pc \in [Runs -> PCs] /\ opened \in [Runs -> SUBSET DBs]
      /\ puts \in [Runs -> 0 .. 3] /\ id_new \in [Runs -> Nat]
      /\ refs \in [Runs -> SUBSET {"webpage", "textree"}]
      /\ PutsInv
  BY DEF IndexTypeOK
<1>c. \A id : \A q : CompleteIn(fdb, id, q) => CompleteIn(fdb', id, q)
  BY RecordsStay

<1>1. ASSUME NEW r \in Runs, Begin(r)
     PROVE  StoreInv'
  BY <1>1, <1>0, <1>c DEF Begin
<1>2. ASSUME NEW r \in Runs, NEW db \in DBs, Open(r, db)
     PROVE  StoreInv'
  <2>1. After(db) \in {"webpage", "textree", "parse"}
    BY DEF After
  <2> QED
    BY <1>2, <2>1, <1>0, <1>c DEF Open, PutsInv
<1>3. ASSUME NEW r \in Runs, NEW db \in DBs, OpenFails(r, db)
     PROVE  StoreInv'
  <2>1. After(db) \in {"webpage", "textree", "parse"}
    BY DEF After
  <2> QED
    BY <1>3, <2>1, <1>0, <1>c DEF OpenFails, PutsInv
<1>4. ASSUME NEW r \in Runs, Reject(r)
     PROVE  StoreInv'
  BY <1>4, <1>0, <1>c DEF Reject
<1>5. ASSUME NEW r \in Runs, Assign(r)
     PROVE  StoreInv'
  BY <1>5, <1>0, <1>c DEF Assign
<1>6. ASSUME NEW r \in Runs, UseNull(r)
     PROVE  StoreInv'
  BY <1>6, <1>0, <1>c DEF UseNull, Die
<1>7. ASSUME NEW r \in Runs, WritePosting(r)
     PROVE  StoreInv'
  BY <1>7, <1>0, <1>c DEF WritePosting
<1>8. ASSUME NEW r \in Runs, SkipPosting(r)
     PROVE  StoreInv'
  BY <1>8, <1>0, <1>c DEF SkipPosting, Fault
<1>9. ASSUME NEW r \in Runs, PostingDone(r)
     PROVE  StoreInv'
  BY <1>9, <1>0, <1>c DEF PostingDone
<1>10. ASSUME NEW r \in Runs, CheckNew(r)
     PROVE  StoreInv'
  BY <1>10, <1>0, <1>c DEF CheckNew
<1>11. ASSUME NEW r \in Runs, NotNew(r)
     PROVE  StoreInv'
  BY <1>11, <1>0, <1>c DEF NotNew, Die
<1>12. ASSUME NEW r \in Runs, PutValue(r)
     PROVE  StoreInv'
  BY <1>12, <1>0, <1>c DEF PutValue, Values
<1>13. ASSUME NEW r \in Runs, PutFails(r)
     PROVE  StoreInv'
  BY <1>13, <1>0, <1>c DEF PutFails, Fault
<1>14. ASSUME NEW r \in Runs, PutRef(r, "webpage", "put_webpage", "put_textree")
     PROVE  StoreInv'
  BY <1>14, <1>0, <1>c DEF PutRef
<1>15. ASSUME NEW r \in Runs, PutRef(r, "textree", "put_textree", "close")
     PROVE  StoreInv'
  BY <1>15, <1>0, <1>c DEF PutRef
<1>16. ASSUME NEW r \in Runs,
            PutRefFails(r, "webpage", "put_webpage", "put_textree")
     PROVE  StoreInv'
  BY <1>16, <1>0, <1>c DEF PutRefFails, Fault
<1>17. ASSUME NEW r \in Runs, PutRefFails(r, "textree", "put_textree", "close")
     PROVE  StoreInv'
  BY <1>17, <1>0, <1>c DEF PutRefFails, Fault
<1>18. ASSUME NEW r \in Runs, CloseFormula(r)
     PROVE  StoreInv'
  <2>1. puts[r] = 3 => CompleteIn(fdb', id_new[r], r)
    BY <1>18, StoredValues DEF CloseFormula, CompleteIn
  <2> QED
    BY <1>18, <2>1, <1>0, <1>c DEF CloseFormula, Released
<1>19. ASSUME NEW r \in Runs, CloseWebpage(r)
     PROVE  StoreInv'
  BY <1>19, <1>0, <1>c DEF CloseWebpage, Released
<1>20. ASSUME NEW r \in Runs, CloseTextree(r)
     PROVE  StoreInv'
  BY <1>20, <1>0, <1>c DEF CloseTextree, Released
<1>21. ASSUME NEW r \in Runs, Exit(r)
     PROVE  StoreInv'
  BY <1>21, <1>0, <1>c DEF Exit
<1>22. ASSUME NEW r \in Runs, Crash(r)
     PROVE  StoreInv'
  BY <1>22, <1>0, <1>c DEF Crash, Die, Fault
<1>23. ASSUME NEW s \in Searches, SBegin(s) \/ SearchStep(s)
     PROVE  StoreInv'
  BY <1>23, SearchFrame
<1>24. CASE UNCHANGED vars
  BY <1>24 DEF vars, runVars
<1> QED
  BY <1>1, <1>2, <1>3, <1>4, <1>5, <1>6, <1>7, <1>8, <1>9, <1>10, <1>11, <1>12, <1>13, <1>14, <1>15,
     <1>16, <1>17, <1>18, <1>19, <1>20, <1>21, <1>22, <1>23, <1>24
  DEF Next, RunStep, RunFault, Finished

\* Nobody stores under the id a run has checked, for the run has formula.db.
LEMMA FreshStep ==
  ASSUME IndexTypeOK, PutsInv, LockInv, StoreInv, FreshInv, [Next]_vars
  PROVE  FreshInv'
<1> USE DEF Goto, FreshInv, HasValues, DBs, dbVars
<1>0. /\ pc \in [Runs -> PCs] /\ opened \in [Runs -> SUBSET DBs]
      /\ puts \in [Runs -> 0 .. 3] /\ id_new \in [Runs -> Nat]
      /\ \A r \in Runs : "formula" \in opened[r] => writer["formula"] = r
      /\ \A r \in Runs : pc[r] \in BeforePut => puts[r] = 0
  BY DEF IndexTypeOK, LockInv, PutsInv

<1>1. ASSUME NEW r \in Runs, Begin(r)
     PROVE  FreshInv'
  BY <1>1, <1>0 DEF Begin
<1>2. ASSUME NEW r \in Runs, NEW db \in DBs, Open(r, db)
     PROVE  FreshInv'
  <2>1. After(db) \in {"webpage", "textree", "parse"}
    BY DEF After
  <2>2. /\ pc' = [pc EXCEPT ![r] = After(db)] /\ puts' = puts /\ id_new' = id_new /\ fdb' = fdb
        /\ opened' = [opened EXCEPT ![r] = opened[r] \cup {db}]
    BY <1>2 DEF Open
  <2> QED
    BY <2>1, <2>2, <1>0
<1>3. ASSUME NEW r \in Runs, NEW db \in DBs, OpenFails(r, db)
     PROVE  FreshInv'
  <2>1. After(db) \in {"webpage", "textree", "parse"}
    BY DEF After
  <2>2. /\ pc' = [pc EXCEPT ![r] = After(db)] /\ puts' = puts /\ id_new' = id_new /\ fdb' = fdb
        /\ opened' = opened
    BY <1>3 DEF OpenFails
  <2> QED
    BY <2>1, <2>2, <1>0
<1>4. ASSUME NEW r \in Runs, Reject(r)
     PROVE  FreshInv'
  BY <1>4, <1>0 DEF Reject, BeforePut
<1>5. ASSUME NEW r \in Runs, Assign(r)
     PROVE  FreshInv'
  BY <1>5, <1>0 DEF Assign
<1>6. ASSUME NEW r \in Runs, UseNull(r)
     PROVE  FreshInv'
  BY <1>6, <1>0 DEF UseNull, Die
<1>7. ASSUME NEW r \in Runs, WritePosting(r)
     PROVE  FreshInv'
  BY <1>7, <1>0 DEF WritePosting
<1>8. ASSUME NEW r \in Runs, SkipPosting(r)
     PROVE  FreshInv'
  BY <1>8, <1>0 DEF SkipPosting, Fault
<1>9. ASSUME NEW r \in Runs, PostingDone(r)
     PROVE  FreshInv'
  BY <1>9, <1>0 DEF PostingDone
<1>10. ASSUME NEW r \in Runs, CheckNew(r)
     PROVE  FreshInv'
  BY <1>10, <1>0 DEF CheckNew
<1>11. ASSUME NEW r \in Runs, NotNew(r)
     PROVE  FreshInv'
  BY <1>11, <1>0 DEF NotNew, Die
<1>12. ASSUME NEW r \in Runs, PutValue(r)
     PROVE  FreshInv'
  <2>1. /\ pc[r] = "put" /\ fdb' = fdb /\ opened' = opened /\ id_new' = id_new
        /\ puts' = [puts EXCEPT ![r] = puts[r] + 1]
        /\ \A q \in Runs : q # r => pc'[q] = pc[q]
    BY <1>12, <1>0 DEF PutValue
  <2> QED
    BY <2>1, <1>0
<1>13. ASSUME NEW r \in Runs, PutFails(r)
     PROVE  FreshInv'
  BY <1>13, <1>0 DEF PutFails, Fault
<1>14. ASSUME NEW r \in Runs, PutRef(r, "webpage", "put_webpage", "put_textree")
     PROVE  FreshInv'
  BY <1>14, <1>0 DEF PutRef
<1>15. ASSUME NEW r \in Runs, PutRef(r, "textree", "put_textree", "close")
     PROVE  FreshInv'
  BY <1>15, <1>0 DEF PutRef
<1>16. ASSUME NEW r \in Runs,
            PutRefFails(r, "webpage", "put_webpage", "put_textree")
     PROVE  FreshInv'
  BY <1>16, <1>0 DEF PutRefFails, Fault
<1>17. ASSUME NEW r \in Runs, PutRefFails(r, "textree", "put_textree", "close")
     PROVE  FreshInv'
  BY <1>17, <1>0 DEF PutRefFails, Fault
<1>18. ASSUME NEW r \in Runs, CloseFormula(r)
     PROVE  FreshInv'
  <2>1. /\ opened' = [opened EXCEPT ![r] = opened[r] \ {"formula"}]
        /\ writer["formula"] = r /\ pc' = pc /\ puts' = puts /\ id_new' = id_new
    BY <1>18, <1>0 DEF CloseFormula, Released
  <2>2. \A q \in Runs : "formula" \notin opened'[q]
    BY <2>1, <1>0
  <2> QED
    BY <2>2
<1>19. ASSUME NEW r \in Runs, CloseWebpage(r)
     PROVE  FreshInv'
  BY <1>19, <1>0 DEF CloseWebpage, Released
<1>20. ASSUME NEW r \in Runs, CloseTextree(r)
     PROVE  FreshInv'
  BY <1>20, <1>0 DEF CloseTextree, Released
<1>21. ASSUME NEW r \in Runs, Exit(r)
     PROVE  FreshInv'
  BY <1>21, <1>0 DEF Exit
<1>22. ASSUME NEW r \in Runs, Crash(r)
     PROVE  FreshInv'
  BY <1>22, <1>0 DEF Crash, Die, Fault
<1>23. ASSUME NEW s \in Searches, SBegin(s) \/ SearchStep(s)
     PROVE  FreshInv'
  BY <1>23, SearchFrame
<1>24. CASE UNCHANGED vars
  BY <1>24 DEF vars, runVars
<1> QED
  BY <1>1, <1>2, <1>3, <1>4, <1>5, <1>6, <1>7, <1>8, <1>9, <1>10, <1>11, <1>12, <1>13, <1>14, <1>15,
     <1>16, <1>17, <1>18, <1>19, <1>20, <1>21, <1>22, <1>23, <1>24
  DEF Next, RunStep, RunFault, Finished

\* The record of an id keeps the values of one run.
LEMMA RecordStep ==
  ASSUME IndexTypeOK, FreshInv, RecordOfOneRun, [Next]_vars
  PROVE  RecordOfOneRun'
<1>1. CASE UNCHANGED <<fdb, rnum>>
  BY <1>1 DEF RecordOfOneRun
<1>2. ASSUME NEW r \in Runs, CloseFormula(r) PROVE RecordOfOneRun'
  <2>1. fdb' = fdb \cup Stored(r) /\ pc[r] = "close" /\ "formula" \in opened[r]
    BY <1>2 DEF CloseFormula, Released
  <2>2. puts[r] \in 0 .. 3 /\ (puts[r] = 0 \/ puts[r] > 0)
    BY DEF IndexTypeOK
  <2>3. CASE puts[r] = 0
    BY <2>3, <2>1, StoredValues DEF RecordOfOneRun
  <2>4. CASE puts[r] > 0
    <3>1. \A v \in fdb : v.id # id_new[r]
      BY <2>4, <2>1 DEF FreshInv, HasValues
    <3> QED
      BY <3>1, <2>1, StoredValues DEF RecordOfOneRun
  <2> QED
    BY <2>2, <2>3, <2>4
<1> QED
  BY <1>1, <1>2, OnlyCloseFormula

\* Only closing a database stores references in it.
LEMMA OnlyCloseRefs ==
  ASSUME [Next]_vars, ~ \E r \in Runs : CloseWebpage(r) \/ CloseTextree(r)
  PROVE  UNCHANGED <<wdb, tdb>>
BY ZenonT(40) DEF Next, RunStep, RunFault, SearchStep, Finished, vars, dbVars, runVars,
   Begin, Open, OpenFails, Reject, Assign, UseNull, Die, WritePosting, SkipPosting,
   PostingDone, CheckNew, NotNew, PutValue, PutFails, PutRef, PutRefFails, CloseFormula,
   Exit, Crash, SBegin, SOpen, SReady, SFound, SClose, SExit

\* A reference is stored after the record it is to.
LEMMA RefsStep ==
  ASSUME IndexTypeOK, StoreInv, RefsInv, [Next]_vars
  PROVE  RefsInv'
<1>1. \A w \in wdb \cup tdb : CompleteIn(fdb', w.id, w.by)
  BY RecordsStay DEF RefsInv
<1>2. ASSUME NEW r \in Runs, CloseWebpage(r) \/ CloseTextree(r)
      PROVE  \A w \in (wdb' \cup tdb') \ (wdb \cup tdb) :
               w.id = id_new[r] /\ w.by = r /\ refs[r] # {}
  BY <1>2 DEF CloseWebpage, CloseTextree
<1>3. ASSUME NEW r \in Runs, CloseWebpage(r) \/ CloseTextree(r), refs[r] # {}
      PROVE  CompleteIn(fdb', id_new[r], r)
  <2>1. pc[r] = "close" /\ "formula" \notin opened[r] /\ fdb' = fdb
    BY <1>3 DEF CloseWebpage, CloseTextree
  <2> QED
    BY <2>1, <1>3 DEF StoreInv
<1>4. CASE UNCHANGED <<wdb, tdb>>
  BY <1>1, <1>4 DEF RefsInv
<1> QED
  BY <1>1, <1>2, <1>3, <1>4, OnlyCloseRefs DEF RefsInv

---------------------------------------------------------------------------
(* An index that no failure has touched *)

\* The ids are 1, 2, .. and each has a complete record.
NumbersOK ==
  /\ rnum % 3 = 0
  /\ \A v \in fdb : v.id \in 1 .. rnum \div 3
  /\ \A id \in 1 .. rnum \div 3 : \E r \in Runs : CompleteIn(fdb, id, r)

\* The run that has formula.db open goes for the next id, with three puts or, if
\* its formula was rejected, with none.
RunsOK ==
  \A r \in Runs :
    /\ pc[r] \in Writing => id_new[r] = rnum \div 3 + 1
    /\ pc[r] = "close" /\ "formula" \in opened[r] =>
         puts[r] = 0 \/ (puts[r] = 3 /\ id_new[r] = rnum \div 3 + 1)

\* A run that is going to store a record.
Holds(r) ==
  \/ pc[r] \in Writing
  \/ pc[r] = "close" /\ "formula" \in opened[r] /\ puts[r] = 3

\* Every item is of a complete record or of a run that is going to store it.
ItemsOK ==
  \A d \in Dirs : \A k \in DOMAIN posting[d] :
    LET it == posting[d][k]
    IN  CompleteIn(fdb, it.id, it.by) \/ (it.id = id_new[it.by] /\ Holds(it.by))

NoFaultInv == faults = 0 => NumbersOK /\ RunsOK /\ ItemsOK

\* What a posting file has.
LEMMA ItemsTyped ==
  ASSUME IndexTypeOK
  PROVE  \A d \in Dirs : \A k \in DOMAIN posting[d] :
           posting[d][k].id \in Nat /\ posting[d][k].by \in Runs
<1> SUFFICES ASSUME NEW d \in Dirs, NEW k \in DOMAIN posting[d]
             PROVE  posting[d][k].id \in Nat /\ posting[d][k].by \in Runs
  OBVIOUS
<1>1. posting[d] \in Seq([id : Nat, by : Runs])
  BY DEF IndexTypeOK
<1>2. posting[d][k] \in [id : Nat, by : Runs]
  <2>1. ASSUME NEW S, NEW q \in Seq(S), NEW l \in DOMAIN q PROVE q[l] \in S
    BY ElementOfSeq
  <2> QED
    BY <1>1, <2>1
<1> QED
  BY <1>2

\* A step without a failure that neither writes nor stores keeps the numbers, and
\* the runs that are going to store still are.
LEMMA QuietStep ==
  ASSUME IndexTypeOK, PutsInv, LockInv, StoreInv, NumbersOK, RunsOK, faults' = 0, [Next]_vars,
         ~ \E r \in Runs : CloseFormula(r)
  PROVE  /\ RunsOK'
         /\ \A q \in Runs : Holds(q) => Holds(q)' /\ id_new'[q] = id_new[q]
<1> DEFINE G == RunsOK' /\ \A q \in Runs : Holds(q) => Holds(q)' /\ id_new'[q] = id_new[q]
<1> USE DEF Goto, RunsOK, Holds, Writing, dbVars
<1>0. /\ pc \in [Runs -> PCs] /\ opened \in [Runs -> SUBSET DBs]
      /\ puts \in [Runs -> 0 .. 3] /\ id_new \in [Runs -> Nat]
      /\ rnum \in Nat /\ faults \in Nat
      /\ \A r \in Runs : pc[r] \in BeforePut => puts[r] = 0
      /\ \A r \in Runs : pc[r] \in {"put_webpage", "put_textree"} => puts[r] = 3
  BY IndexAssumption DEF IndexTypeOK, PutsInv, StoreInv
<1>f. ~Fault
  BY <1>0 DEF Fault
<1>1. ASSUME NEW r \in Runs, Begin(r)
     PROVE  G
  BY <1>1, <1>0 DEF Begin
<1>2. ASSUME NEW r \in Runs, NEW db \in DBs, Open(r, db)
     PROVE  G
  <2>1. After(db) \in {"webpage", "textree", "parse"} /\ db \in {"formula", "webpage", "textree"}
    BY DEF After, DBs
  <2>2. /\ pc' = [pc EXCEPT ![r] = After(db)] /\ puts' = puts /\ id_new' = id_new /\ rnum' = rnum
        /\ opened' = [opened EXCEPT ![r] = opened[r] \cup {db}] /\ pc[r] = db
    BY <1>2 DEF Open
  <2> QED
    BY <2>1, <2>2, <1>0
<1>3. ASSUME NEW r \in Runs, NEW db \in DBs, OpenFails(r, db)
     PROVE  G
  BY <1>3, <1>f DEF OpenFails
<1>4. ASSUME NEW r \in Runs, Reject(r)
     PROVE  G
  BY <1>4, <1>0 DEF Reject, BeforePut
<1>5. ASSUME NEW r \in Runs, Assign(r)
     PROVE  G
  BY <1>5, <1>0 DEF Assign
<1>6. ASSUME NEW r \in Runs, UseNull(r)
     PROVE  G
  BY <1>6, <1>0 DEF UseNull, Die
<1>7. ASSUME NEW r \in Runs, WritePosting(r)
     PROVE  G
  BY <1>7, <1>0 DEF WritePosting
<1>8. ASSUME NEW r \in Runs, SkipPosting(r)
     PROVE  G
  BY <1>8, <1>f DEF SkipPosting
<1>9. ASSUME NEW r \in Runs, PostingDone(r)
     PROVE  G
  BY <1>9, <1>0 DEF PostingDone
<1>10. ASSUME NEW r \in Runs, CheckNew(r)
     PROVE  G
  BY <1>10, <1>0 DEF CheckNew
<1>11. ASSUME NEW r \in Runs, NotNew(r)
     PROVE  G
  <2>1. PICK v \in fdb : v.id = id_new[r]
    BY <1>11 DEF NotNew, HasValues
  <2>2. v.id \in 1 .. rnum \div 3 /\ id_new[r] = rnum \div 3 + 1 /\ rnum \div 3 \in Nat
    BY <1>11, <1>0 DEF NotNew, NumbersOK
  <2> QED
    BY <2>1, <2>2
<1>12. ASSUME NEW r \in Runs, PutValue(r)
     PROVE  G
  <2>1. /\ pc[r] = "put" /\ rnum' = rnum /\ opened' = opened /\ id_new' = id_new
        /\ puts' = [puts EXCEPT ![r] = puts[r] + 1]
        /\ \A q \in Runs : q # r => pc'[q] = pc[q]
        /\ pc'[r] \in {"put", "put_webpage"}
    BY <1>12, <1>0 DEF PutValue
  <2> QED
    BY <2>1, <1>0
<1>13. ASSUME NEW r \in Runs, PutFails(r)
     PROVE  G
  BY <1>13, <1>f DEF PutFails
<1>14. ASSUME NEW r \in Runs, PutRef(r, "webpage", "put_webpage", "put_textree")
     PROVE  G
  BY <1>14, <1>0 DEF PutRef
<1>15. ASSUME NEW r \in Runs, PutRef(r, "textree", "put_textree", "close")
     PROVE  G
  <2>1. /\ pc[r] = "put_textree" /\ rnum' = rnum /\ opened' = opened /\ id_new' = id_new
        /\ puts' = puts /\ pc' = [pc EXCEPT ![r] = "close"]
    BY <1>15 DEF PutRef
  <2>2. puts[r] = 3 /\ id_new[r] = rnum \div 3 + 1 /\ "formula" \in opened[r]
    BY <2>1, <1>0 DEF StoreInv
  <2> QED
    BY <2>1, <2>2, <1>0
<1>16. ASSUME NEW r \in Runs,
            PutRefFails(r, "webpage", "put_webpage", "put_textree")
     PROVE  G
  BY <1>16, <1>f DEF PutRefFails
<1>17. ASSUME NEW r \in Runs, PutRefFails(r, "textree", "put_textree", "close")
     PROVE  G
  BY <1>17, <1>f DEF PutRefFails
<1>18. ASSUME NEW r \in Runs, CloseFormula(r)
     PROVE  G
  BY <1>18
<1>19. ASSUME NEW r \in Runs, CloseWebpage(r)
     PROVE  G
  BY <1>19, <1>0 DEF CloseWebpage, Released
<1>20. ASSUME NEW r \in Runs, CloseTextree(r)
     PROVE  G
  BY <1>20, <1>0 DEF CloseTextree, Released
<1>21. ASSUME NEW r \in Runs, Exit(r)
     PROVE  G
  BY <1>21, <1>0 DEF Exit
<1>22. ASSUME NEW r \in Runs, Crash(r)
     PROVE  G
  BY <1>22, <1>f DEF Crash
<1>23. ASSUME NEW s \in Searches, SBegin(s) \/ SearchStep(s)
     PROVE  G
  BY <1>23, SearchFrame
<1>24. ASSUME UNCHANGED vars
       PROVE  G
  BY <1>24 DEF vars, runVars
<1> HIDE DEF G, Goto, RunsOK, Holds, Writing, dbVars
<1>25. ASSUME NEW r \in Runs, RunStep(r)
       PROVE  G
  BY <1>25, <1>2, <1>4, <1>5, <1>6, <1>7, <1>9, <1>10, <1>11, <1>12, <1>14, <1>15, <1>18, <1>19,
     <1>20, <1>21 DEF RunStep
<1>26. ASSUME NEW r \in Runs, RunFault(r)
       PROVE  G
  BY <1>26, <1>3, <1>8, <1>13, <1>16, <1>17, <1>22 DEF RunFault
<1>27. G
  BY <1>1, <1>23, <1>24, <1>25, <1>26 DEF Next, Finished
<1> QED
  BY <1>27 DEF G

\* A run that stores three values under the next id completes it.
LEMMA CloseStep ==
  ASSUME IndexTypeOK, LockInv, StoreInv, NumbersOK, RunsOK, ItemsOK,
         NEW r \in Runs, CloseFormula(r),
         \A id : \A q : CompleteIn(fdb, id, q) => CompleteIn(fdb', id, q)
  PROVE  NumbersOK' /\ RunsOK' /\ ItemsOK'
<1>0. /\ pc \in [Runs -> PCs] /\ opened \in [Runs -> SUBSET DBs]
      /\ puts[r] \in 0 .. 3 /\ rnum \in Nat
      /\ \A q \in Runs : "formula" \in opened[q] => writer["formula"] = q
  BY DEF IndexTypeOK, LockInv, DBs
<1>1. /\ pc[r] = "close" /\ "formula" \in opened[r] /\ pc' = pc /\ puts' = puts
      /\ opened' = [opened EXCEPT ![r] = opened[r] \ {"formula"}] /\ id_new' = id_new
      /\ fdb' = fdb \cup Stored(r) /\ rnum' = rnum + puts[r] /\ posting' = posting
  BY DEF CloseFormula, Released
<1>2. \A q \in Runs : "formula" \notin opened'[q] /\ pc'[q] \notin Writing
  BY <1>0, <1>1 DEF StoreInv, Writing
<1>3. RunsOK'
  BY <1>2 DEF RunsOK
<1>4. \A q \in Runs : Holds(q) => q = r
  BY <1>0, <1>1 DEF Holds, StoreInv
<1>5. puts[r] = 0 \/ (puts[r] = 3 /\ id_new[r] = rnum \div 3 + 1)
  BY <1>1 DEF RunsOK
<1>6. puts[r] = 3 => CompleteIn(fdb', id_new[r], r)
  BY <1>1, StoredValues DEF CompleteIn
<1>7. NumbersOK'
  <2>1. CASE puts[r] = 0
    <3>1. fdb' = fdb /\ rnum' = rnum
      BY <2>1, <1>0, <1>1, StoredValues
    <3> QED
      BY <3>1 DEF NumbersOK
  <2>2. CASE puts[r] = 3 /\ id_new[r] = rnum \div 3 + 1
    <3>1. /\ rnum' = rnum + 3 /\ rnum' % 3 = 0 /\ rnum \div 3 \in Nat
          /\ rnum' \div 3 = rnum \div 3 + 1
      BY <2>2, <1>0, <1>1 DEF NumbersOK
    <3>2. \A id \in 1 .. rnum' \div 3 : id \in 1 .. rnum \div 3 \/ id = id_new[r]
      BY <3>1, <2>2
    <3>3. id_new[r] \in 1 .. rnum' \div 3 /\ \A id \in 1 .. rnum \div 3 : id \in 1 .. rnum' \div 3
      BY <3>1, <2>2
    <3>4. \A v \in fdb' : v.id \in 1 .. rnum' \div 3
      BY <3>3, <1>1, StoredValues DEF NumbersOK
    <3>5. \A id \in 1 .. rnum' \div 3 : \E q \in Runs : CompleteIn(fdb', id, q)
      BY <3>2, <1>6, <2>2 DEF NumbersOK
    <3> QED
      BY <3>1, <3>4, <3>5 DEF NumbersOK
  <2> QED
    BY <1>5, <2>1, <2>2
<1>8. ItemsOK'
  <2> SUFFICES ASSUME NEW d \in Dirs, NEW k \in DOMAIN posting[d]
               PROVE  CompleteIn(fdb', posting[d][k].id, posting[d][k].by)
    BY <1>1 DEF ItemsOK
  <2>1. CASE CompleteIn(fdb, posting[d][k].id, posting[d][k].by)
    BY <2>1
  <2>2. CASE posting[d][k].id = id_new[posting[d][k].by] /\ Holds(posting[d][k].by)
    <3>1. posting[d][k].by = r
      BY <2>2, <1>4, ItemsTyped
    <3>2. puts[r] = 3
      BY <2>2, <3>1, <1>1 DEF Holds, Writing
    <3> QED
      BY <2>2, <3>1, <3>2, <1>6
  <2> QED
    BY <2>1, <2>2 DEF ItemsOK
<1> QED
  BY <1>3, <1>7, <1>8

\* As long as nothing fails, the index stays as a sequence of runs leaves it.
LEMMA NoFaultStep ==
  ASSUME IndexTypeOK, PutsInv, LockInv, StoreInv, NoFaultInv, [Next]_vars
  PROVE  NoFaultInv'
<1> SUFFICES ASSUME faults' = 0 PROVE NumbersOK' /\ RunsOK' /\ ItemsOK'
  BY DEF NoFaultInv
<1>1. faults = 0
  <2>1. faults \in Nat
    BY IndexAssumption DEF IndexTypeOK
  <2>2. faults' = faults \/ faults' = faults + 1
    BY ZenonT(40) DEF Next, RunStep, RunFault, SearchStep, Finished, vars, Fault, Begin, Open,
       OpenFails, Reject, Assign, UseNull, Die, WritePosting, SkipPosting, PostingDone,
       CheckNew, NotNew, PutValue, PutFails, PutRef, PutRefFails, CloseFormula,
       CloseWebpage, CloseTextree, Exit, Crash, SBegin, SOpen, SReady, SFound, SClose, SExit
  <2> QED
    BY <2>1, <2>2
<1>2. NumbersOK /\ RunsOK /\ ItemsOK
  BY <1>1 DEF NoFaultInv
<1>3. \A id : \A q : CompleteIn(fdb, id, q) => CompleteIn(fdb', id, q)
  BY RecordsStay
<1>4. CASE \E r \in Runs : CloseFormula(r)
  BY <1>2, <1>3, <1>4, CloseStep
<1>5. CASE ~ \E r \in Runs : CloseFormula(r)
  <2>1. fdb' = fdb /\ rnum' = rnum
    BY <1>5, OnlyCloseFormula
  <2>2. RunsOK' /\ \A q \in Runs : Holds(q) => Holds(q)' /\ id_new'[q] = id_new[q]
    BY <1>2, <1>5, QuietStep
  <2>3. NumbersOK'
    BY <2>1, <1>2 DEF NumbersOK
  <2>4. \A d \in Dirs : \A k \in DOMAIN posting[d] : \A q \in Runs :
          posting[d][k].by = q => \/ CompleteIn(fdb', posting[d][k].id, q)
                                  \/ posting[d][k].id = id_new'[q] /\ Holds(q)'
    <3> SUFFICES ASSUME NEW d \in Dirs, NEW k \in DOMAIN posting[d], NEW q \in Runs,
                        posting[d][k].by = q
                 PROVE  \/ CompleteIn(fdb', posting[d][k].id, q)
                        \/ posting[d][k].id = id_new'[q] /\ Holds(q)'
      OBVIOUS
    <3>1. \/ CompleteIn(fdb, posting[d][k].id, q)
          \/ posting[d][k].id = id_new[q] /\ Holds(q)
      BY <1>2 DEF ItemsOK
    <3> QED
      BY <3>1, <2>1, <2>2
  <2>5. IndexTypeOK'
    BY TypeStep
  <2>6. (\A d \in Dirs : \A k \in DOMAIN posting[d] :
           posting[d][k].id \in Nat /\ posting[d][k].by \in Runs)'
    BY <2>5, ItemsTyped, PTL
  <2>7. ASSUME \A d \in Dirs : \A k \in DOMAIN posting'[d] : \A q \in Runs :
                 posting'[d][k].by = q => \/ CompleteIn(fdb', posting'[d][k].id, q)
                                          \/ posting'[d][k].id = id_new'[q] /\ Holds(q)'
        PROVE  ItemsOK'
    BY <2>6, <2>7 DEF ItemsOK, Holds
  <2>8. ASSUME UNCHANGED posting
        PROVE  ItemsOK'
    <3>1. ASSUME NEW d \in Dirs, NEW k \in DOMAIN posting'[d], NEW q \in Runs,
                 posting'[d][k].by = q
          PROVE  \/ CompleteIn(fdb', posting'[d][k].id, q)
                 \/ posting'[d][k].id = id_new'[q] /\ Holds(q)'
      <4>1. k \in DOMAIN posting[d] /\ posting'[d][k] = posting[d][k]
        BY <2>8
      <4> QED
        BY <4>1, <3>1, <2>4
    <3> QED
      BY <3>1, <2>7
  <2>9. ASSUME NEW r \in Runs, WritePosting(r) PROVE ItemsOK'
    <3> DEFINE e == PathsOf[r][written[r] + 1]
               n == [id |-> id_new[r], by |-> r]
    <3>1. /\ posting' = [posting EXCEPT ![e] = Append(posting[e], n)]
          /\ pc[r] = "posting" /\ id_new' = id_new /\ pc' = pc
      BY <2>9 DEF WritePosting, runVars
    <3>2. posting \in [Dirs -> Seq([id : Nat, by : Runs])] /\ n \in [id : Nat, by : Runs]
      BY DEF IndexTypeOK
    <3>3. n.id = id_new'[r] /\ Holds(r)' /\ n.by = r
      BY <3>1 DEF Holds, Writing
    <3> HIDE DEF e, n
    <3>4. ASSUME NEW d \in Dirs, NEW k \in DOMAIN posting'[d], NEW q \in Runs,
                 posting'[d][k].by = q
          PROVE  \/ CompleteIn(fdb', posting'[d][k].id, q)
                 \/ posting'[d][k].id = id_new'[q] /\ Holds(q)'
      <4>1. \/ k \in DOMAIN posting[d] /\ posting'[d][k] = posting[d][k]
            \/ posting'[d][k] = n
        BY <3>1, <3>2, SMTT(20)
      <4>2. CASE k \in DOMAIN posting[d] /\ posting'[d][k] = posting[d][k]
        BY <4>2, <3>4, <2>4
      <4>3. CASE posting'[d][k] = n
        BY <4>3, <3>3, <3>4
      <4> QED
        BY <4>1, <4>2, <4>3
    <3> QED
      BY <3>4, <2>7
  <2> QED
    BY <2>2, <2>3, <2>8, <2>9, OnlyWritePosting
<1> QED
  BY <1>4, <1>5

---------------------------------------------------------------------------
(* The theorems *)

\* The inductive invariant holds initially.
LEMMA IndexInit == Init => IndexInv
<1> SUFFICES ASSUME Init PROVE IndexInv
  OBVIOUS
<1>1. NextIdInv
  BY DEF Init, NextIdInv
<1>2. ItemsInv /\ PostingsSorted
  BY DEF Init, ItemsInv, PostingsSorted
<1> QED
  BY <1>1, <1>2, TypeInit, LockInit DEF IndexInv

\* Every step of index.c and of a search keeps the inductive invariant.
LEMMA IndexStep == IndexInv /\ [Next]_vars => IndexInv'
BY TypeStep, LockStep, NextIdStep, PostingStep DEF IndexInv

\* The invariant behind the theorems below.
THEOREM IndexInvariant == Spec => []IndexInv
BY IndexInit, IndexStep, PTL DEF Spec

\* Types, for any runs, searches, formulas and number of faults.
THEOREM IndexTypeCorrect == Spec => []IndexTypeOK
<1>1. IndexInv => IndexTypeOK
  BY DEF IndexInv
<1> QED
  BY <1>1, IndexInvariant, PTL

\* The ids of a posting file never decrease, whatever calls fail and wherever the
\* runs die: the order posmerge() needs comes from formula.db's lock, which a
\* run takes before it computes its id and keeps until its postings are written.
THEOREM PostingsAreSorted == Spec => []PostingsSorted
<1>1. IndexInv => PostingsSorted
  BY DEF IndexInv
<1> QED
  BY <1>1, IndexInvariant, PTL

\* Nothing a search reads changes while it reads: a run that appends or stores
\* has formula.db open for writing, a search that reads has it open for reading.
THEOREM SearchesReadStable == Spec => SearchReadsStable
<1>1. IndexInv /\ [Next]_vars
      => [(\E s \in Searches : spc[s] = "search") => UNCHANGED <<posting, fdb, rnum>>]_vars
  <2> SUFFICES ASSUME IndexInv, [Next]_vars, NEW s \in Searches, spc[s] = "search"
               PROVE  UNCHANGED <<posting, fdb, rnum>>
    OBVIOUS
  <2>1. writer["formula"] = NONE
    BY DEF IndexInv, LockInv, DBs
  <2>2. ~ \E r \in Runs : WritePosting(r)
    BY <2>1, IndexAssumption DEF IndexInv, NextIdInv, LockInv, WritePosting, DBs
  <2>3. ~ \E r \in Runs : CloseFormula(r)
    BY <2>1, IndexAssumption DEF IndexInv, LockInv, CloseFormula, Released, DBs
  <2> QED
    BY <2>2, <2>3, OnlyWritePosting, OnlyCloseFormula
<1> QED
  BY <1>1, IndexInvariant, PTL DEF Spec, SearchReadsStable

\* What the runs have stored holds initially: there is nothing.
LEMMA RecordsInit == Init => StoreInv /\ FreshInv /\ RefsInv /\ RecordOfOneRun /\ NoFaultInv
<1> SUFFICES ASSUME Init PROVE StoreInv /\ FreshInv /\ RefsInv /\ RecordOfOneRun /\ NoFaultInv
  OBVIOUS
<1>1. StoreInv /\ FreshInv /\ RefsInv /\ RecordOfOneRun
  BY DEF Init, StoreInv, FreshInv, RefsInv, RecordOfOneRun, Writing
<1>2. rnum = 0 /\ rnum % 3 = 0 /\ 1 .. rnum \div 3 = {}
  BY DEF Init
<1>3. NumbersOK
  BY <1>2 DEF Init, NumbersOK
<1>4. RunsOK /\ ItemsOK
  BY DEF Init, RunsOK, ItemsOK, Writing
<1> QED
  BY <1>1, <1>3, <1>4 DEF NoFaultInv

\* The invariant behind the theorems about records: a run keeps formula.db from
\* before it computes its id until it has stored all it puts.
THEOREM RecordsInvariant ==
  Spec => [](IndexInv /\ StoreInv /\ FreshInv /\ RefsInv /\ RecordOfOneRun /\ NoFaultInv)
<1>1. IndexInv => IndexTypeOK /\ PutsInv /\ LockInv
  BY DEF IndexInv
<1>2. IndexInv /\ StoreInv /\ FreshInv /\ RefsInv /\ RecordOfOneRun /\ NoFaultInv /\ [Next]_vars
      => (IndexInv /\ StoreInv /\ FreshInv /\ RefsInv /\ RecordOfOneRun /\ NoFaultInv)'
  BY <1>1, IndexStep, StoreStep, FreshStep, RefsStep, RecordStep, NoFaultStep
<1> QED
  BY <1>2, IndexInit, RecordsInit, PTL DEF Spec

\* The record of an id has the values of one run, whatever fails: the check of
\* index_formula() holds until the values are stored.
THEOREM OneRunPerRecord == Spec => []RecordOfOneRun
BY RecordsInvariant, PTL

\* webpage.db and textree.db refer to complete records only, whatever fails and
\* wherever the runs die: what is put third is stored after what is put first.
THEOREM RefsAlwaysResolve == Spec => []RefsResolve
<1>1. IndexInv /\ RefsInv => RefsResolve
  <2> SUFFICES ASSUME IndexInv, RefsInv, NEW w \in wdb \cup tdb
               PROVE  Cardinality(ValuesOf(w.id, w.by)) = 3
    BY DEF RefsResolve
  <2>1. IndexTypeOK /\ w.id \in Nat /\ w.by \in Runs
    BY DEF IndexInv, IndexTypeOK
  <2> QED
    BY <2>1, CompleteIsThree DEF RefsInv
<1> QED
  BY <1>1, RecordsInvariant, PTL

\* Without a failure, any number of runs in any order leave the ids 1, 2, .. with
\* complete records, and postings of these ids only.
THEOREM FaultFreeIndexIsWhole == Spec => []FaultFreeIndex
<1>1. IndexInv /\ StoreInv /\ NoFaultInv => FaultFreeIndex
  <2> SUFFICES ASSUME IndexInv, StoreInv, NoFaultInv, faults = 0
               PROVE  /\ rnum % 3 = 0
                      /\ \A v \in fdb : v.id \in 1 .. rnum \div 3
                      /\ \A id \in 1 .. rnum \div 3 :
                           \E r \in Runs : Cardinality(ValuesOf(id, r)) = 3
                      /\ \A d \in Dirs : \A k \in DOMAIN posting[d] :
                           \/ Cardinality(ValuesOf(posting[d][k].id, posting[d][k].by)) = 3
                           \/ writer["formula"] = posting[d][k].by
    BY DEF FaultFreeIndex
  <2>1. IndexTypeOK /\ LockInv /\ NumbersOK /\ ItemsOK
    BY DEF IndexInv, NoFaultInv
  <2>2. \A id \in Nat : \A r \in Runs :
          CompleteIn(fdb, id, r) => Cardinality(ValuesOf(id, r)) = 3
    BY <2>1, CompleteIsThree
  <2>3. \A id \in 1 .. rnum \div 3 : id \in Nat
    OBVIOUS
  <2>4. \A id \in 1 .. rnum \div 3 : \E r \in Runs : Cardinality(ValuesOf(id, r)) = 3
    BY <2>1, <2>2, <2>3 DEF NumbersOK
  <2>5. \A r \in Runs : Holds(r) => writer["formula"] = r
    BY <2>1 DEF Holds, StoreInv, LockInv, DBs
  <2>6. ASSUME NEW d \in Dirs, NEW k \in DOMAIN posting[d]
        PROVE  \/ Cardinality(ValuesOf(posting[d][k].id, posting[d][k].by)) = 3
               \/ writer["formula"] = posting[d][k].by
    <3>1. posting[d][k].id \in Nat /\ posting[d][k].by \in Runs
      BY <2>1, ItemsTyped
    <3> QED
      BY <3>1, <2>1, <2>2, <2>5 DEF ItemsOK
  <2> QED
    BY <2>1, <2>4, <2>6 DEF NumbersOK
<1> QED
  BY <1>1, RecordsInvariant, PTL

=============================================================================
