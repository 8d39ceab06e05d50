------------------------------- MODULE Index -------------------------------
(***************************************************************************)
(* index/index.c: index.out runs, one per formula, that share the posting  *)
(* files under col/ and three key-value databases, and searches that read  *)
(* them.  The databases are Tokyo Cabinet B+ trees (external), as          *)
(* index/db-wraper.c uses them: tcbdbopen() waits for an exclusive lock to *)
(* write and for a shared one to read, what was put is stored when the     *)
(* database is closed, and a process that dies without closing it leaves   *)
(* it as it was and loses its locks.  Posting files have no lock at all.   *)
(***************************************************************************)
EXTENDS Integers, Sequences, FiniteSets

CONSTANTS Runs,       \* index.out processes, one formula each
          Searches,   \* processes that call cp_search() once
          Dirs,       \* directories under col/
          PathsOf,    \* run -> the directories of its formula's subpaths
          UrlOf,      \* run -> its -u argument
          NONE,       \* no process
          MaxFaults   \* bound: failing calls and crashes

ASSUME IndexAssumption ==
  /\ PathsOf \in [Runs -> Seq(Dirs)] /\ \A r \in Runs : PathsOf[r] # <<>>
  /\ NONE \notin Runs
  /\ MaxFaults \in Nat

DBs    == {"formula", "webpage", "textree"}
Values == <<"n_brw", "frml", "url">>

VARIABLES
  posting,   \* dir -> <<[id, by], ...>>: posting.bin, with the run that wrote
  fdb,       \* formula.db: the values [id, by, val]
  rnum,      \* tcbdbrnum(formula.db)
  wdb, tdb,  \* webpage.db: [url, id, by]; textree.db: [id, by]
  created,   \* the databases whose file exists
  writer,    \* db -> the run that has it open for writing, or NONE
  readers,   \* db -> the searches that have it open
  pc,        \* run -> control point of main()
  opened,    \* run -> the databases it has open
  id_new,    \* run -> id_new
  written,   \* run -> subpaths written by posting_write()
  puts,      \* run -> values put into formula.db, not stored yet
  refs,      \* run -> of the other two, those it put into, not stored yet
  spc,       \* search -> control point
  faults     \* failing calls and crashes so far

dbVars  == <<fdb, rnum, wdb, tdb, created>>
runVars == <<pc, opened, id_new, written, puts, refs>>
vars    == <<posting, dbVars, writer, readers, runVars, spc, faults>>

Init ==
  /\ posting = [d \in Dirs |-> <<>>]
  /\ fdb = {} /\ rnum = 0 /\ wdb = {} /\ tdb = {} /\ created = {}
  /\ writer = [db \in DBs |-> NONE]
  /\ readers = [db \in DBs |-> {}]
  /\ pc = [r \in Runs |-> "start"]
  /\ opened = [r \in Runs |-> {}]
  /\ id_new = [r \in Runs |-> 0]
  /\ written = [r \in Runs |-> 0]
  /\ puts = [r \in Runs |-> 0]
  /\ refs = [r \in Runs |-> {}]
  /\ spc = [s \in Searches |-> "start"]
  /\ faults = 0

Goto(r, l) == pc' = [pc EXCEPT ![r] = l]

Fault == faults < MaxFaults /\ faults' = faults + 1

---------------------------------------------------------------------------
(* Opening: main() opens the three databases in one order and waits *)

\* Where main() goes when the call for db has returned.
After(db) == CASE db = "formula" -> "webpage"
               [] db = "webpage" -> "textree"
               [] db = "textree" -> "parse"

Begin(r) ==
  /\ pc[r] = "start"
  /\ Goto(r, "formula")
  /\ UNCHANGED <<posting, dbVars, writer, readers, opened, id_new, written, puts,
                 refs, spc, faults>>

\* Fault for the mutation test: the writer does not wait for readers.
OpenNoWait(r, db) ==
  /\ pc[r] = db
  /\ writer[db] = NONE
  /\ writer' = [writer EXCEPT ![db] = r]
  /\ opened' = [opened EXCEPT ![r] = @ \cup {db}]
  /\ created' = created \cup {db}
  /\ Goto(r, After(db))
  /\ UNCHANGED <<posting, fdb, rnum, wdb, tdb, readers, id_new, written, puts, refs,
                 spc, faults>>

\* db_init(.., DB_OMOD_WR)
Open(r, db) ==
  /\ pc[r] = db
  /\ writer[db] = NONE /\ readers[db] = {}
  /\ writer' = [writer EXCEPT ![db] = r]
  /\ opened' = [opened EXCEPT ![r] = @ \cup {db}]
  /\ created' = created \cup {db}
  /\ Goto(r, After(db))
  /\ UNCHANGED <<posting, fdb, rnum, wdb, tdb, readers, id_new, written, puts, refs,
                 spc, faults>>

\* db_init() returns NULL; main() goes on without the database.
OpenFails(r, db) ==
  /\ pc[r] = db /\ Fault
  /\ Goto(r, After(db))
  /\ UNCHANGED <<posting, dbVars, writer, readers, opened, id_new, written, puts,
                 refs, spc>>

---------------------------------------------------------------------------
(* Parsing, and the new id *)

\* Bad arguments, a formula that does not parse, too many leaves or subpaths.
Reject(r) ==
  /\ pc[r] = "parse"
  /\ Goto(r, "close")
  /\ UNCHANGED <<posting, dbVars, writer, readers, opened, id_new, written, puts,
                 refs, spc, faults>>

\* Fault for the mutation test: ids start at the number of formulas.
AssignLast(r) ==
  /\ pc[r] = "parse" /\ "formula" \in opened[r]
  /\ id_new' = [id_new EXCEPT ![r] = rnum \div 3]
  /\ Goto(r, "posting")
  /\ UNCHANGED <<posting, dbVars, writer, readers, opened, written, puts, refs, spc,
                 faults>>

\* records / 3 + 1; the trace of a number that is not a multiple of 3 stops
\* nothing.
Assign(r) ==
  /\ pc[r] = "parse" /\ "formula" \in opened[r]
  /\ id_new' = [id_new EXCEPT ![r] = rnum \div 3 + 1]
  /\ Goto(r, "posting")
  /\ UNCHANGED <<posting, dbVars, writer, readers, opened, written, puts, refs, spc,
                 faults>>

\* The process ends without closing its databases.
Die(r) ==
  /\ Goto(r, "done")
  /\ writer' = [db \in DBs |-> IF writer[db] = r THEN NONE ELSE writer[db]]
  /\ opened' = [opened EXCEPT ![r] = {}]
  /\ UNCHANGED <<posting, dbVars, readers, id_new, written, puts, refs, spc>>

\* tcbdbrnum(NULL): db_formula is used before it is checked (index.c:250, 283).
UseNull(r) ==
  /\ pc[r] = "parse" /\ "formula" \notin opened[r]
  /\ Die(r) /\ UNCHANGED faults

---------------------------------------------------------------------------
(* posting_write(): one item per subpath, appended to the file of its path *)

\* Fault for the mutation test: the item is put at the file's front.
WritePostingFront(r) ==
  /\ pc[r] = "posting" /\ written[r] < Len(PathsOf[r])
  /\ LET d == PathsOf[r][written[r] + 1]
     IN  posting' = [posting EXCEPT ![d] = <<[id |-> id_new[r], by |-> r]>> \o @]
  /\ written' = [written EXCEPT ![r] = @ + 1]
  /\ UNCHANGED <<dbVars, writer, readers, pc, opened, id_new, puts, refs, spc, faults>>

WritePosting(r) ==
  /\ pc[r] = "posting" /\ written[r] < Len(PathsOf[r])
  /\ LET d == PathsOf[r][written[r] + 1]
     IN  posting' = [posting EXCEPT ![d] = Append(@, [id |-> id_new[r], by |-> r])]
  /\ written' = [written EXCEPT ![r] = @ + 1]
  /\ UNCHANGED <<dbVars, writer, readers, pc, opened, id_new, puts, refs, spc, faults>>

\* fopen() fails: the item is missing, and nothing says so.
SkipPosting(r) ==
  /\ pc[r] = "posting" /\ written[r] < Len(PathsOf[r]) /\ Fault
  /\ written' = [written EXCEPT ![r] = @ + 1]
  /\ UNCHANGED <<posting, dbVars, writer, readers, pc, opened, id_new, puts, refs, spc>>

PostingDone(r) ==
  /\ pc[r] = "posting" /\ written[r] = Len(PathsOf[r])
  /\ Goto(r, "check")
  /\ UNCHANGED <<posting, dbVars, writer, readers, opened, id_new, written, puts,
                 refs, spc, faults>>

---------------------------------------------------------------------------
(* index_formula(): the id must be new; then three values, one by one *)

\* db_num_values(db_formula, id) # 0
HasValues(id) == \E v \in fdb : v.id = id

\* Fault for the mutation test: the id is not checked.
NoCheck(r) ==
  /\ pc[r] = "check"
  /\ Goto(r, "put")
  /\ UNCHANGED <<posting, dbVars, writer, readers, opened, id_new, written, puts,
                 refs, spc, faults>>

CheckNew(r) ==
  /\ pc[r] = "check" /\ ~HasValues(id_new[r])
  /\ Goto(r, "put")
  /\ UNCHANGED <<posting, dbVars, writer, readers, opened, id_new, written, puts,
                 refs, spc, faults>>

\* CP_FATAL
NotNew(r) ==
  /\ pc[r] = "check" /\ HasValues(id_new[r])
  /\ Die(r) /\ UNCHANGED faults

PutValue(r) ==
  /\ pc[r] = "put"
  /\ puts' = [puts EXCEPT ![r] = @ + 1]
  /\ IF puts[r] + 1 = Len(Values) THEN Goto(r, "put_webpage") ELSE UNCHANGED pc
  /\ UNCHANGED <<posting, dbVars, writer, readers, opened, id_new, written, refs, spc,
                 faults>>

\* The values put before stay.
PutFails(r) ==
  /\ pc[r] = "put" /\ Fault
  /\ Goto(r, "close")
  /\ UNCHANGED <<posting, dbVars, writer, readers, opened, id_new, written, puts,
                 refs, spc>>

\* index_webpage() and index_textree(), when their database is open.
PutRef(r, db, at, after) ==
  /\ pc[r] = at
  /\ refs' = IF db \in opened[r] THEN [refs EXCEPT ![r] = @ \cup {db}] ELSE refs
  /\ Goto(r, after)
  /\ UNCHANGED <<posting, dbVars, writer, readers, opened, id_new, written, puts, spc,
                 faults>>

\* Their result is not looked at.
PutRefFails(r, db, at, after) ==
  /\ pc[r] = at /\ db \in opened[r] /\ Fault
  /\ Goto(r, after)
  /\ UNCHANGED <<posting, dbVars, writer, readers, opened, id_new, written, puts,
                 refs, spc>>

---------------------------------------------------------------------------
(* exit: db_release() in the order of opening stores what was put *)

Released(r, db) ==
  /\ db \in opened[r]
  /\ opened' = [opened EXCEPT ![r] = @ \ {db}]
  /\ writer' = [writer EXCEPT ![db] = NONE]

Stored(r) ==
  {[id |-> id_new[r], by |-> r, val |-> Values[k]] : k \in 1 .. puts[r]}

CloseFormula(r) ==
  /\ pc[r] = "close"
  /\ Released(r, "formula")
  /\ fdb' = fdb \cup Stored(r)
  /\ rnum' = rnum + puts[r]
  /\ UNCHANGED <<posting, wdb, tdb, created, readers, pc, id_new, written, puts, refs,
                 spc, faults>>

\* Fault for the mutation test: webpage.db is closed before formula.db.
CloseWebpageFirst(r) ==
  /\ pc[r] = "close"
  /\ Released(r, "webpage")
  /\ wdb' = IF "webpage" \in refs[r]
            THEN wdb \cup {[url |-> UrlOf[r], id |-> id_new[r], by |-> r]} ELSE wdb
  /\ UNCHANGED <<posting, fdb, rnum, tdb, created, readers, pc, id_new, written, puts,
                 refs, spc, faults>>

CloseWebpage(r) ==
  /\ pc[r] = "close" /\ "formula" \notin opened[r]
  /\ Released(r, "webpage")
  /\ wdb' = IF "webpage" \in refs[r]
            THEN wdb \cup {[url |-> UrlOf[r], id |-> id_new[r], by |-> r]} ELSE wdb
  /\ UNCHANGED <<posting, fdb, rnum, tdb, created, readers, pc, id_new, written, puts,
                 refs, spc, faults>>

CloseTextree(r) ==
  /\ pc[r] = "close" /\ opened[r] = {"textree"}
  /\ Released(r, "textree")
  /\ tdb' = IF "textree" \in refs[r]
            THEN tdb \cup {[id |-> id_new[r], by |-> r]} ELSE tdb
  /\ UNCHANGED <<posting, fdb, rnum, wdb, created, readers, pc, id_new, written, puts,
                 refs, spc, faults>>

\* Fault for the mutation test: the databases are not released at exit.
ExitOpen(r) ==
  /\ pc[r] = "close"
  /\ Goto(r, "done")
  /\ UNCHANGED <<posting, dbVars, writer, readers, opened, id_new, written, puts,
                 refs, spc, faults>>

Exit(r) ==
  /\ pc[r] = "close" /\ opened[r] = {}
  /\ Goto(r, "done")
  /\ UNCHANGED <<posting, dbVars, writer, readers, opened, id_new, written, puts,
                 refs, spc, faults>>

\* The process is killed.
Crash(r) ==
  /\ pc[r] \notin {"start", "done"} /\ Fault
  /\ Die(r)

RunStep(r) ==
  \/ \E db \in DBs : Open(r, db)
  \/ Reject(r) \/ Assign(r) \/ UseNull(r)
  \/ WritePosting(r) \/ PostingDone(r)
  \/ CheckNew(r) \/ NotNew(r) \/ PutValue(r)
  \/ PutRef(r, "webpage", "put_webpage", "put_textree")
  \/ PutRef(r, "textree", "put_textree", "close")
  \/ CloseFormula(r) \/ CloseWebpage(r) \/ CloseTextree(r) \/ Exit(r)

RunFault(r) ==
  \/ \E db \in DBs : OpenFails(r, db)
  \/ SkipPosting(r) \/ PutFails(r) \/ Crash(r)
  \/ PutRefFails(r, "webpage", "put_webpage", "put_textree")
  \/ PutRefFails(r, "textree", "put_textree", "close")

---------------------------------------------------------------------------
(* A search: rank_init() opens formula.db and textree.db, the posting     *)
(* files are read, rank_free() closes both                                *)

SGoto(s, l) == spc' = [spc EXCEPT ![s] = l]

SBegin(s) ==
  /\ spc[s] = "start"
  /\ SGoto(s, "formula")
  /\ UNCHANGED <<posting, dbVars, writer, readers, runVars, faults>>

\* db_init(.., DB_OMOD_RD); NULL if the file does not exist.
SOpen(s, db, after) ==
  /\ spc[s] = db
  /\ IF db \in created
     THEN /\ writer[db] = NONE
          /\ readers' = [readers EXCEPT ![db] = @ \cup {s}]
     ELSE UNCHANGED readers
  /\ SGoto(s, after)
  /\ UNCHANGED <<posting, dbVars, writer, runVars, faults>>

\* The search proper needs formula.db.
SReady(s) ==
  /\ spc[s] = "opened"
  /\ SGoto(s, IF s \in readers["formula"] THEN "search" ELSE "close")
  /\ UNCHANGED <<posting, dbVars, writer, readers, runVars, faults>>

SFound(s) ==
  /\ spc[s] = "search"
  /\ SGoto(s, "close")
  /\ UNCHANGED <<posting, dbVars, writer, readers, runVars, faults>>

SClose(s, db) ==
  /\ spc[s] = "close" /\ s \in readers[db]
  /\ db = "textree" => s \notin readers["formula"]
  /\ readers' = [readers EXCEPT ![db] = @ \ {s}]
  /\ UNCHANGED <<posting, dbVars, writer, runVars, spc, faults>>

SExit(s) ==
  /\ spc[s] = "close" /\ \A db \in DBs : s \notin readers[db]
  /\ SGoto(s, "done")
  /\ UNCHANGED <<posting, dbVars, writer, readers, runVars, faults>>

SearchStep(s) ==
  \/ SOpen(s, "formula", "textree") \/ SOpen(s, "textree", "opened")
  \/ SReady(s) \/ SFound(s)
  \/ SClose(s, "formula") \/ SClose(s, "textree") \/ SExit(s)

Finished ==
  /\ \A r \in Runs : pc[r] = "done"
  /\ \A s \in Searches : spc[s] = "done"
  /\ UNCHANGED vars

Next ==
  \/ \E r \in Runs : Begin(r) \/ RunStep(r) \/ RunFault(r)
  \/ \E s \in Searches : SBegin(s) \/ SearchStep(s)
  \/ Finished

\* A process that was started is scheduled; no call need fail.
Spec ==
  /\ Init /\ [][Next]_vars
  /\ \A r \in Runs : WF_vars(RunStep(r))
  /\ \A s \in Searches : WF_vars(SearchStep(s))

---------------------------------------------------------------------------
(* Properties *)

PCs == {"start", "parse", "posting", "check", "put", "put_webpage", "put_textree",
        "close", "done"} \cup DBs

\* The types of the variables.
IndexTypeOK ==
  /\ posting \in [Dirs -> Seq([id : Nat, by : Runs])]
  /\ fdb \subseteq [id : Nat, by : Runs, val : {"n_brw", "frml", "url"}]
  /\ rnum \in Nat
  /\ \A w \in wdb : w.id \in Nat /\ w.by \in Runs
  /\ tdb \subseteq [id : Nat, by : Runs]
  /\ created \subseteq DBs
  /\ writer \in [DBs -> Runs \cup {NONE}]
  /\ readers \in [DBs -> SUBSET Searches]
  /\ pc \in [Runs -> PCs]
  /\ opened \in [Runs -> SUBSET DBs]
  /\ id_new \in [Runs -> Nat]
  /\ written \in [Runs -> Nat] /\ \A r \in Runs : written[r] <= Len(PathsOf[r])
  /\ puts \in [Runs -> 0 .. 3]
  /\ refs \in [Runs -> SUBSET {"webpage", "textree"}]
  /\ spc \in [Searches -> {"start", "formula", "textree", "opened", "search",
                           "close", "done"}]
  /\ faults \in 0 .. MaxFaults

\* The ids in a posting file never decrease, whatever fails and whoever dies in
\* between: what posmerge() relies on.
PostingsSorted ==
  \A d \in Dirs : \A j, k \in DOMAIN posting[d] :
    j <= k => posting[d][j].id <= posting[d][k].id

ValuesOf(id, r) == {v \in fdb : v.id = id /\ v.by = r}

\* As long as nothing failed, formula.db has the three values of the ids 1, 2,
\* .. without a gap, and every posting item is of such an id, or of the run
\* that still has formula.db open.
FaultFreeIndex ==
  faults = 0 =>
    /\ rnum % 3 = 0
    /\ \A v \in fdb : v.id \in 1 .. rnum \div 3
    /\ \A id \in 1 .. rnum \div 3 : \E r \in Runs : Cardinality(ValuesOf(id, r)) = 3
    /\ \A d \in Dirs : \A k \in DOMAIN posting[d] :
         LET it == posting[d][k]
         IN  \/ Cardinality(ValuesOf(it.id, it.by)) = 3
             \/ writer["formula"] = it.by

\* The record of an id has the values of one run: no formula gets the url or
\* the number of branch words of another one.
RecordOfOneRun == \A v, w \in fdb : v.id = w.id => v.by = w.by

\* What webpage.db and textree.db refer to is a complete record, whatever fails:
\* formula.db is written and closed first.
RefsResolve ==
  \A w \in wdb \cup tdb : Cardinality(ValuesOf(w.id, w.by)) = 3

\* "id_new must be new" (index.c:83).
IdIsNew == \A r \in Runs : pc[r] = "check" => ~HasValues(id_new[r])

\* No posting file and no record changes under a search, although only the
\* databases are locked: the lock of formula.db covers the posting files.
SearchReadsStable ==
  [][(\E s \in Searches : spc[s] = "search") => UNCHANGED <<posting, fdb, rnum>>]_vars

\* Every process that was started ends: nobody waits for a lock for ever.
RunsEnd ==
  []<>(/\ \A r \in Runs : pc[r] \in {"start", "done"}
       /\ \A s \in Searches : spc[s] \in {"start", "done"})

=============================================================================
