------------------------------ MODULE DirMerge ------------------------------
(***************************************************************************)
(* search/dirmerge.c with the callback of search.c: a search goes down     *)
(* several directories of the index at once, into every subdirectory that  *)
(* all of them have, and merges the posting files it finds on the way.     *)
(* dir_merge() calls itself; its frames are on an explicit stack.          *)
(***************************************************************************)
EXTENDS Integers, Sequences, FiniteSets, SequencesExt

CONSTANTS N,          \* directories to merge, rlv_array_len
          Names,      \* subdirectory names
          Paths,      \* relative paths a directory may have
          Postings,   \* the sets of paths that may have all their posting files
          Heads,      \* the sets of paths that may have head.bin in every directory
          ItemsAt,    \* relative path -> items posmerge() scans there
          IdsAt,      \* relative path -> directory -> ids of its posting.bin
          MAX_SEARCH_ITEMS,
          MaxFails    \* bound: calls of opendir() and fopen() that fail

ASSUME DirMergeAssumption ==
  /\ N \in Nat \ {0} /\ MaxFails \in Nat /\ MAX_SEARCH_ITEMS \in Nat
  /\ <<>> \in Paths /\ Paths \subseteq Seq(Names) /\ Postings \subseteq SUBSET Paths
  /\ Heads \subseteq SUBSET Paths
  /\ ItemsAt \in [Paths -> Nat]
  /\ IdsAt \in [Paths -> [1 .. N -> SUBSET Nat]]
  /\ \A p \in Paths : \A i \in 1 .. N : IdsAt[p][i] # {} /\ IsFiniteSet(IdsAt[p][i])

VARIABLES
  tree,     \* directory -> its relative paths: the index, which does not change
  posted,   \* where every directory has a posting.bin
  headed,   \* where every directory has a head.bin, and it opens
  thorough, \* en_thorough_search
  en_headprune,
  frames,   \* calls of dir_merge(), the innermost last: [rel, pc, unread, ret]
  handles,  \* open directory streams: <<directory, rel>>
  visited,  \* relative paths of the calls of merge_dir_callbk(), in order
  scanned,  \* n_posmerge_scanned_items
  fails,    \* calls of opendir() and of posmerge()'s fopen() that failed
  lost,     \* history: directories visited of which a posting.bin did not open
  result    \* what the outermost call returned; -1 before

index == <<tree, posted, headed, thorough, en_headprune>>
vars  == <<index, frames, handles, visited, scanned, fails, lost, result>>

Dirs  == 1 .. N
Frame == [rel : Paths, pc : {"open", "callback", "read", "exit"},
          unread : SUBSET Names, ret : {0, 1}]

\* An index has the directories above each directory.
Trees == {t \in SUBSET Paths : \A p \in t : \A k \in 0 .. Len(p) : SubSeq(p, 1, k) \in t}

Call(rel) == [rel |-> rel, pc |-> "open", unread |-> {}, ret |-> 0]

Init ==
  /\ tree \in [Dirs -> Trees]
  /\ posted \in Postings /\ headed \in Heads
  /\ thorough \in BOOLEAN /\ en_headprune \in BOOLEAN
  /\ frames = <<Call(<<>>)>>
  /\ handles = {} /\ visited = <<>> /\ scanned = 0 /\ fails = 0 /\ lost = {}
  /\ result = -1

top == frames[Len(frames)]
SetTop(f) == frames' = [frames EXCEPT ![Len(frames)] = f]
At(pc) == result = -1 /\ top.pc = pc

\* The directories of the innermost call that are open.
OpenHere == {i \in Dirs : <<i, top.rel>> \in handles}

---------------------------------------------------------------------------
(* opendir() on every directory, in order *)

OpenDir ==
  /\ At("open") /\ OpenHere # Dirs
  /\ LET i == Cardinality(OpenHere) + 1
     IN  /\ top.rel \in tree[i]
         /\ handles' = handles \cup {<<i, top.rel>>}
  /\ UNCHANGED <<index, frames, visited, scanned, fails, lost, result>>

\* Fault for the mutation test: no way out when a directory does not open.
OpenDirRetry ==
  /\ At("open") /\ OpenHere # Dirs
  /\ top.rel \notin tree[Cardinality(OpenHere) + 1]
  /\ UNCHANGED vars

\* The directory is not there, or the process is out of descriptors.
OpenDirFails ==
  /\ At("open") /\ OpenHere # Dirs
  /\ IF top.rel \in tree[Cardinality(OpenHere) + 1]
     THEN fails < MaxFails /\ fails' = fails + 1
     ELSE UNCHANGED fails
  /\ SetTop([top EXCEPT !.pc = "exit"])
  /\ UNCHANGED <<index, handles, visited, scanned, lost, result>>

AllOpen ==
  /\ At("open") /\ OpenHere = Dirs
  /\ SetTop([top EXCEPT !.pc = "callback"])
  /\ UNCHANGED <<index, handles, visited, scanned, fails, lost, result>>

---------------------------------------------------------------------------
(* merge_dir_callbk() *)

LimitExceeded == ~thorough /\ scanned > MAX_SEARCH_ITEMS

Stop ==
  /\ At("callback") /\ LimitExceeded
  /\ SetTop([top EXCEPT !.pc = "exit", !.ret = 1])
  /\ UNCHANGED <<index, handles, visited, scanned, fails, lost, result>>

\* The subdirectories of the first directory, which readdir() gives in any order.
Subdirs(i, rel) == {name \in Names : Append(rel, name) \in tree[i]}

\* posmerge_possible(): head.bin holds the least and the greatest id of the
\* posting.bin beside it.  Where one is missing or does not open, a merge may be
\* possible (posmerge.c:245-262).
maxmin(rel) == Max({Min(IdsAt[rel][i]) : i \in Dirs})
minmax(rel) == Min({Max(IdsAt[rel][i]) : i \in Dirs})

\* Fault for the mutation test: ranges that share one id only are apart.
posmerge_strictly_possible(rel) == rel \in headed => minmax(rel) > maxmin(rel)

posmerge_possible(rel) == rel \in headed => minmax(rel) >= maxmin(rel)

Pruned(rel) == en_headprune /\ ~posmerge_possible(rel)

\* posmerge() runs if every posting file is there; its callback never stops it.
Merged(rel) == rel \in posted /\ ~Pruned(rel)

\* The ids that all the posting files have, which posmerge() reports.
IdsInAll(rel) == {id \in IdsAt[rel][1] : \A i \in Dirs : id \in IdsAt[rel][i]}

\* The callback is through with the directory, and does not stop the search.
CallbackDone ==
  /\ At("callback") /\ ~LimitExceeded
  /\ visited' = Append(visited, top.rel)
  /\ SetTop([top EXCEPT !.pc = "read", !.unread = Subdirs(1, top.rel)])
  /\ UNCHANGED <<index, handles, result>>

Visit ==
  /\ CallbackDone
  /\ scanned' = scanned + (IF Merged(top.rel) THEN ItemsAt[top.rel] ELSE 0)
  /\ UNCHANGED <<fails, lost>>

\* A posting.bin is there but posmerge() cannot open it: nothing is read, nothing
\* is reported, and posmerge() returns 0 as it does after a merge.
PostingOpenFails ==
  /\ CallbackDone /\ Merged(top.rel)
  /\ fails < MaxFails /\ fails' = fails + 1
  /\ lost' = lost \cup {top.rel}
  /\ UNCHANGED scanned

---------------------------------------------------------------------------
(* readdir() on the first directory, dir_exists() on the others *)

AllHave(name) == \A i \in 2 .. N : name \in Subdirs(i, top.rel)

Skip(name) ==
  /\ At("read") /\ name \in top.unread /\ ~AllHave(name)
  /\ SetTop([top EXCEPT !.unread = top.unread \ {name}])
  /\ UNCHANGED <<index, handles, visited, scanned, fails, lost, result>>

Descend(name) ==
  /\ At("read") /\ name \in top.unread /\ AllHave(name)
  /\ frames' = Append([frames EXCEPT ![Len(frames)].unread = top.unread \ {name}],
                      Call(Append(top.rel, name)))
  /\ UNCHANGED <<index, handles, visited, scanned, fails, lost, result>>

AllRead ==
  /\ At("read") /\ top.unread = {}
  /\ SetTop([top EXCEPT !.pc = "exit"])
  /\ UNCHANGED <<index, handles, visited, scanned, fails, lost, result>>

---------------------------------------------------------------------------
(* exit: closedir(), and back to the call above *)

\* Fault for the mutation test: a stopped call does not close.
ClosedUnlessStopped == IF top.ret = 1 THEN handles ELSE handles \ {<<i, top.rel>> : i \in Dirs}

Closed == handles \ {<<i, top.rel>> : i \in Dirs}

\* Fault for the mutation test: the call above goes on after a stop.
ReturnOn(above) == above

\* A stopped call stops the call above.
ReturnTo(above) == IF top.ret = 1 THEN [above EXCEPT !.pc = "exit", !.ret = 1] ELSE above

ReturnUp ==
  /\ At("exit") /\ Len(frames) > 1
  /\ handles' = Closed
  /\ frames' = [Front(frames) EXCEPT ![Len(frames) - 1] = ReturnTo(@)]
  /\ UNCHANGED <<index, visited, scanned, fails, lost, result>>

ReturnOut ==
  /\ At("exit") /\ Len(frames) = 1
  /\ handles' = Closed
  /\ result' = top.ret
  /\ UNCHANGED <<index, frames, visited, scanned, fails, lost>>

Finished == result # -1 /\ UNCHANGED vars

\* The steps inside the outermost call that do not visit a directory.
Inside ==
  \/ OpenDir \/ OpenDirFails \/ AllOpen \/ Stop
  \/ (\E name \in Names : Skip(name) \/ Descend(name)) \/ AllRead
  \/ ReturnUp

Step == Inside \/ Visit \/ PostingOpenFails \/ ReturnOut

Next == Step \/ Finished

Spec == Init /\ [][Next]_vars

---------------------------------------------------------------------------
(* Properties *)

\* Every directory above rel is in every tree, so rel is reached if it is in all.
Common == {p \in Paths : \A i \in Dirs : p \in tree[i]}

\* The types of the variables.
DirMergeTypeOK ==
  /\ frames \in Seq(Frame) /\ frames # <<>>
  /\ handles \subseteq Dirs \X Paths
  /\ visited \in Seq(Paths)
  /\ scanned \in Nat /\ fails \in 0 .. MaxFails /\ result \in {-1, 0, 1}
  /\ lost \subseteq Paths

\* The directories that all have in common are visited, each once and only
\* these; with no failure and no stop all of them are.
VisitsCommon ==
  /\ ToSet(visited) \subseteq Common
  /\ \A j, k \in DOMAIN visited : visited[j] = visited[k] => j = k
  /\ result = 0 /\ fails = 0 => ToSet(visited) = Common

\* A directory stream is open for a call on the stack only, and none when the
\* outermost call has returned.
HandlesOfFrames ==
  /\ \A h \in handles : \E k \in DOMAIN frames : frames[k].rel = h[2]
  /\ result # -1 => handles = {}

=============================================================================
