---------------------------- MODULE SearchProofs ----------------------------
(***************************************************************************)
(* Theorems about DirMerge, Search and NodeSearch, for every value of the  *)
(* constants: dir_merge() visits the directories that all have, whatever   *)
(* the trees; what cp_search() and its callers allocate is released once   *)
(* and nothing is left; the search with its merges takes the driver's      *)
(* steps only; the directory streams of dir_merge() are closed; a merge    *)
(* stops at the scan limit; an answer called good has every document it    *)
(* should have.                                                            *)
(***************************************************************************)
EXTENDS NodeSearch, FiniteSetTheorems, WellFoundedInduction, TLAPS

---------------------------------------------------------------------------
(* The directory merge *)

\* The trees, and the types of what the merge changes.
Typed ==
  /\ tree \in [Dirs -> Trees] /\ posted \in SUBSET Paths
  /\ frames \in Seq(Frame) /\ frames # <<>>
  /\ handles \subseteq Dirs \X Paths
  /\ visited \in Seq(Paths)
  /\ scanned \in Nat /\ fails \in 0 .. MaxFails /\ result \in {-1, 0, 1}
  /\ lost \subseteq Paths

\* The path p is at or below the directory of the k-th call.
Under(p, k) == Len(p) >= k - 1 /\ \A i \in 1 .. k - 1 : p[i] = frames[k].rel[i]

\* Each call is for a subdirectory that the call above has read, and waits there.
Chain ==
  /\ \A k \in DOMAIN frames : /\ Len(frames[k].rel) = k - 1
                              /\ frames[k].unread \subseteq Subdirs(1, frames[k].rel)
                              /\ frames[k].ret = 1 => frames[k].pc = "exit"
  /\ \A k \in DOMAIN frames : \A j \in 1 .. k - 1 :
       /\ frames[j].pc = "read"
       /\ Under(frames[k].rel, j) /\ frames[k].rel[j] \notin frames[j].unread

\* Streams are of directories that exist, and of calls on the stack; a call that
\* has come as far as its callback has all of its own.
Streams ==
  /\ \A i \in Dirs : \A p \in Paths : <<i, p>> \in handles =>
       p \in tree[i] /\ \E k \in DOMAIN frames : frames[k].rel = p
  /\ \A k \in DOMAIN frames : frames[k].pc \in {"callback", "read"} =>
       \A i \in Dirs : <<i, frames[k].rel>> \in handles
  /\ result # -1 => handles = {}

DirInv1 == Typed /\ Chain /\ Streams

---------------------------------------------------------------------------
(* The stack *)

\* What a new top of the stack leaves alone.
LEMMA TopSet ==
  ASSUME frames \in Seq(Frame), frames # <<>>, NEW f \in Frame, SetTop(f)
  PROVE  /\ frames' \in Seq(Frame) /\ frames' # <<>> /\ Len(frames') = Len(frames)
         /\ frames'[Len(frames)] = f
         /\ \A k \in 1 .. Len(frames) - 1 : frames'[k] = frames[k]
  BY DEF SetTop

\* The innermost call is one of the calls.
LEMMA TopIsFrame ==
  ASSUME frames \in Seq(Frame), frames # <<>>
  PROVE  /\ Len(frames) \in Nat \ {0} /\ top = frames[Len(frames)] /\ top \in Frame
         /\ DOMAIN frames = 1 .. Len(frames)
  BY DEF top

\* The next stream is of one of the directories.
LEMMA NextStream ==
  ASSUME handles \subseteq Dirs \X Paths, OpenHere # Dirs
  PROVE  Cardinality(OpenHere) + 1 \in Dirs
<1>1. IsFiniteSet(Dirs) /\ Cardinality(Dirs) = N
  BY FS_Interval, DirMergeAssumption DEF Dirs
<1>2. OpenHere \subseteq Dirs
  BY DEF OpenHere
<1>3. /\ IsFiniteSet(OpenHere)
      /\ Cardinality(OpenHere) <= Cardinality(Dirs)
      /\ Cardinality(OpenHere) # Cardinality(Dirs)
  BY <1>1, <1>2, FS_Subset
<1>4. Cardinality(OpenHere) \in Nat
  BY <1>3, FS_CardinalityType
<1> QED BY <1>1, <1>3, <1>4, DirMergeAssumption DEF Dirs

---------------------------------------------------------------------------
(* Types, calls and streams *)

\* A stream is opened, or does not open and ends the call.
LEMMA OpenDirInv1 == DirInv1 /\ OpenDir => DirInv1'
<1> SUFFICES ASSUME DirInv1, OpenDir PROVE DirInv1'
  OBVIOUS
<1> DEFINE i == Cardinality(OpenHere) + 1
<1>1. /\ i \in Dirs /\ top.rel \in tree[i] /\ handles' = handles \cup {<<i, top.rel>>}
      /\ UNCHANGED <<index, frames, visited, scanned, fails, lost, result>> /\ result = -1
      /\ top.rel \in Paths
  BY NextStream, TopIsFrame DEF OpenDir, At, DirInv1, Typed, Frame
<1> HIDE DEF i
<1>2. Typed' BY <1>1 DEF DirInv1, Typed, index
<1>3. Chain' BY <1>1 DEF DirInv1, Chain, Under, Subdirs, index
<1>4. Streams'
  BY <1>1, TopIsFrame DEF DirInv1, Typed, Streams, index
<1> QED BY <1>2, <1>3, <1>4 DEF DirInv1

\* A step that changes the top of the stack, without unread names, and no streams.
LEMMA TopStepInv1 ==
  ASSUME DirInv1, result = -1, UNCHANGED <<index, handles, result>>,
         NEW f \in Frame, SetTop(f), f.rel = top.rel, f.unread \subseteq Subdirs(1, top.rel),
         f.ret = 1 => f.pc = "exit",
         f.pc \in {"callback", "read"} => OpenHere = Dirs \/ top.pc \in {"callback", "read"},
         visited' \in Seq(Paths), scanned' \in Nat, fails' \in 0 .. MaxFails, lost' \subseteq Paths
  PROVE  DirInv1'
<1>0. /\ frames' \in Seq(Frame) /\ frames' # <<>> /\ DOMAIN frames' = 1 .. Len(frames)
      /\ frames'[Len(frames)] = f
      /\ \A k \in 1 .. Len(frames) - 1 : frames'[k] = frames[k]
  BY TopSet DEF DirInv1, Typed
<1>1. Typed' BY <1>0 DEF DirInv1, Typed, index
<1>2. \A k \in 1 .. Len(frames) : frames'[k].rel = frames[k].rel
  BY <1>0, TopIsFrame DEF DirInv1, Typed
<1>3. Chain'
  <2>1. ASSUME NEW k \in DOMAIN frames'
        PROVE  /\ Len(frames'[k].rel) = k - 1
               /\ frames'[k].unread \subseteq Subdirs(1, frames[k].rel)'
               /\ frames'[k].ret = 1 => frames'[k].pc = "exit"
    <3>1. UNCHANGED tree
      BY DEF index
    <3>2. /\ Len(frames[k].rel) = k - 1 /\ frames[k].unread \subseteq Subdirs(1, frames[k].rel)
          /\ frames[k].ret = 1 => frames[k].pc = "exit"
      BY <1>0, TopIsFrame DEF DirInv1, Typed, Chain
    <3>3. CASE k = Len(frames)
      BY <1>0, <3>1, <3>2, <3>3 DEF Subdirs, top
    <3>4. CASE k # Len(frames)
      BY <1>0, <3>1, <3>2, <3>4, TopIsFrame DEF Subdirs, DirInv1, Typed
    <3> QED BY <3>3, <3>4
  <2>2. ASSUME NEW k \in DOMAIN frames', NEW j \in 1 .. k - 1
        PROVE  /\ frames'[j].pc = "read"
               /\ Under(frames[k].rel, j)' /\ frames'[k].rel[j] \notin frames'[j].unread
    <3>1. /\ k \in DOMAIN frames /\ k \in 1 .. Len(frames) /\ j \in 1 .. Len(frames) - 1
      BY <1>0, TopIsFrame DEF DirInv1, Typed
    <3>2. /\ frames[j].pc = "read"
          /\ Under(frames[k].rel, j) /\ frames[k].rel[j] \notin frames[j].unread
      BY <3>1 DEF DirInv1, Chain
    <3>3. frames'[j] = frames[j] /\ frames'[k].rel = frames[k].rel
      BY <1>0, <1>2, <3>1
    <3> QED BY <3>2, <3>3 DEF Under
  <2> QED BY <2>1, <2>2 DEF Chain
<1>4. Streams'
  <2>1. ASSUME NEW i \in Dirs, NEW p \in Paths, <<i, p>> \in handles
        PROVE  p \in tree'[i] /\ \E k \in DOMAIN frames' : frames'[k].rel = p
    <3>1. p \in tree[i]
      BY <2>1 DEF DirInv1, Streams
    <3>2. PICK k \in DOMAIN frames : frames[k].rel = p
      BY <2>1 DEF DirInv1, Streams
    <3>3. k \in DOMAIN frames' /\ frames'[k].rel = p
      BY <1>0, <1>2, <3>2, TopIsFrame DEF DirInv1, Typed
    <3> QED BY <3>1, <3>3 DEF index
  <2>2. ASSUME NEW k \in DOMAIN frames', frames'[k].pc \in {"callback", "read"}, NEW i \in Dirs
        PROVE  <<i, frames'[k].rel>> \in handles
    BY <1>0, <1>2, <2>2, TopIsFrame DEF DirInv1, Typed, Streams, OpenHere
  <2> QED BY <2>1, <2>2 DEF Streams, DirInv1
<1> QED BY <1>1, <1>3, <1>4 DEF DirInv1

\* The call above goes on, or is stopped too; the streams of the call are closed.
LEMMA ReturnUpInv1 == DirInv1 /\ ReturnUp => DirInv1'
<1> SUFFICES ASSUME DirInv1, ReturnUp PROVE DirInv1'
  OBVIOUS
<1> DEFINE L == Len(frames)
           above == ReturnTo(frames[L - 1])
<1>0. /\ L \in Nat /\ L > 1 /\ DOMAIN frames = 1 .. L /\ top = frames[L] /\ top.pc = "exit"
      /\ \A k \in 1 .. L : frames[k] \in Frame
      /\ UNCHANGED <<tree, posted, visited, scanned, fails, lost, result>> /\ result = -1
      /\ handles' = handles \ {<<i, top.rel>> : i \in Dirs}
  BY DEF ReturnUp, At, DirInv1, Typed, top, Closed, index
<1>1. above \in Frame /\ above.rel = frames[L - 1].rel /\ above.unread = frames[L - 1].unread
      /\ (above.pc = frames[L - 1].pc \/ above.pc = "exit")
      /\ (above.ret = 1 => above.pc = "exit")
  <2>1. frames[L - 1] \in Frame /\ (frames[L - 1].ret = 1 => frames[L - 1].pc = "exit")
    BY <1>0 DEF DirInv1, Chain
  <2> QED BY <2>1 DEF ReturnTo, Frame
<1>2. /\ Front(frames) \in Seq(Frame) /\ Len(Front(frames)) = L - 1
      /\ \A k \in 1 .. L - 1 : Front(frames)[k] = frames[k]
  BY <1>0 DEF Front, DirInv1, Typed
<1> HIDE DEF L
<1>3. frames' = [Front(frames) EXCEPT ![L - 1] = above]
  <2>1. frames' = [Front(frames) EXCEPT ![L - 1] = ReturnTo(Front(frames)[L - 1])]
    BY DEF ReturnUp, L
  <2>2. Front(frames)[L - 1] = frames[L - 1]
    BY <1>0, <1>2
  <2> QED BY <2>1, <2>2
<1> HIDE DEF above
<1>4. /\ frames' \in Seq(Frame) /\ DOMAIN frames' = 1 .. L - 1 /\ frames' # <<>>
      /\ frames'[L - 1] = above /\ \A k \in 1 .. L - 2 : frames'[k] = frames[k]
  BY <1>0, <1>1, <1>2, <1>3
<1>5. \A k \in 1 .. L - 1 : /\ frames'[k].rel = frames[k].rel
                            /\ frames'[k].unread = frames[k].unread
                            /\ frames'[k].pc = frames[k].pc \/ frames'[k].pc = "exit"
                            /\ frames'[k].ret = 1 => frames'[k].pc = "exit"
  <2>1. ASSUME NEW k \in 1 .. L - 1 PROVE frames[k].ret = 1 => frames[k].pc = "exit"
    BY <1>0 DEF DirInv1, Chain
  <2>2. L - 1 \in 1 .. L - 1 /\ \A k \in 1 .. L - 1 : k = L - 1 \/ k \in 1 .. L - 2
    BY <1>0
  <2> QED BY <1>1, <1>4, <2>1, <2>2
<1>6. Typed' BY <1>0, <1>4 DEF DirInv1, Typed
<1>7. Chain'
  <2>1. ASSUME NEW k \in 1 .. L - 1
        PROVE  /\ Len(frames'[k].rel) = k - 1
               /\ frames'[k].unread \subseteq Subdirs(1, frames[k].rel)'
               /\ frames'[k].ret = 1 => frames'[k].pc = "exit"
    <3>1. /\ Len(frames[k].rel) = k - 1 /\ frames[k].unread \subseteq Subdirs(1, frames[k].rel)
      <4>1. k \in DOMAIN frames
        BY <1>0
      <4> QED BY <4>1 DEF DirInv1, Chain
    <3>2. UNCHANGED tree
      BY <1>0
    <3>3. /\ frames'[k].rel = frames[k].rel /\ frames'[k].unread = frames[k].unread
          /\ frames'[k].ret = 1 => frames'[k].pc = "exit"
      BY <1>5
    <3> QED BY <3>1, <3>2, <3>3 DEF Subdirs
  <2>2. ASSUME NEW k \in 1 .. L - 1, NEW j \in 1 .. k - 1
        PROVE  /\ frames'[j].pc = "read"
               /\ Under(frames[k].rel, j)' /\ frames'[k].rel[j] \notin frames'[j].unread
    <3>1. /\ frames[j].pc = "read"
          /\ Under(frames[k].rel, j) /\ frames[k].rel[j] \notin frames[j].unread
      <4>1. k \in DOMAIN frames
        BY <1>0
      <4> QED BY <4>1 DEF DirInv1, Chain
    <3>2. frames'[j] = frames[j] /\ frames'[k].rel = frames[k].rel
      BY <1>0, <1>4, <1>5
    <3> QED BY <3>1, <3>2 DEF Under
  <2> QED BY <1>4, <2>1, <2>2 DEF Chain
<1>8. Streams'
  <2>1. ASSUME NEW i \in Dirs, NEW p \in Paths, <<i, p>> \in handles'
        PROVE  p \in tree'[i] /\ \E k \in DOMAIN frames' : frames'[k].rel = p
    <3>1. p # top.rel /\ <<i, p>> \in handles
      BY <1>0, <2>1
    <3>2. PICK k \in DOMAIN frames : frames[k].rel = p
      BY <3>1 DEF DirInv1, Streams
    <3>3. k \in 1 .. L - 1
      BY <1>0, <3>1, <3>2
    <3> QED BY <1>0, <1>4, <1>5, <3>1, <3>2, <3>3 DEF DirInv1, Streams
  <2>2. ASSUME NEW k \in DOMAIN frames', frames'[k].pc \in {"callback", "read"}, NEW i \in Dirs
        PROVE  <<i, frames'[k].rel>> \in handles'
    <3>1. frames'[k].rel = frames[k].rel /\ <<i, frames[k].rel>> \in handles
      BY <1>0, <1>4, <1>5, <2>2 DEF DirInv1, Streams
    <3>2. Len(frames[k].rel) = k - 1 /\ Len(top.rel) = L - 1 /\ k < L
      <4>1. k \in 1 .. L - 1 /\ k \in DOMAIN frames /\ L \in DOMAIN frames /\ top = frames[L]
        BY <1>0, <1>4
      <4>2. Len(frames[k].rel) = k - 1 /\ Len(frames[L].rel) = L - 1
        BY <4>1 DEF DirInv1, Chain
      <4>3. k < L
        BY <1>0, <4>1
      <4> QED BY <4>1, <4>2, <4>3
    <3>3. frames[k].rel # top.rel
      BY <1>0, <1>4, <3>2
    <3> QED BY <1>0, <3>1, <3>3
  <2> QED BY <1>0, <2>1, <2>2 DEF Streams
<1> QED BY <1>6, <1>7, <1>8 DEF DirInv1

\* The outermost call leaves no stream open.
LEMMA ReturnOutInv1 == DirInv1 /\ ReturnOut => DirInv1'
<1> SUFFICES ASSUME DirInv1, ReturnOut PROVE DirInv1'
  OBVIOUS
<1>0. /\ UNCHANGED <<tree, posted, frames, visited, scanned, fails, lost>>
      /\ Len(frames) = 1 /\ top = frames[1] /\ top \in Frame /\ top.pc = "exit"
      /\ result' = top.ret /\ result' \in {0, 1}
      /\ handles' = handles \ {<<i, top.rel>> : i \in Dirs}
  BY TopIsFrame DEF ReturnOut, At, DirInv1, Typed, Closed, index, Frame
<1>1. handles' = {}
  BY <1>0, TopIsFrame DEF DirInv1, Typed, Streams
<1>2. Typed' BY <1>0, <1>1 DEF DirInv1, Typed
<1>3. Chain' BY <1>0 DEF DirInv1, Chain, Under, Subdirs
<1>4. Streams' BY <1>0, <1>1, TopIsFrame DEF DirInv1, Typed, Streams
<1> QED BY <1>2, <1>3, <1>4 DEF DirInv1

\* A call for the subdirectory that all have.
LEMMA DescendInv1 == ASSUME NEW name, DirInv1, Descend(name) PROVE DirInv1'
<1> DEFINE L == Len(frames)
           rest == [top EXCEPT !.unread = top.unread \ {name}]
           new == Call(Append(top.rel, name))
<1>0. /\ L \in Nat /\ L > 0 /\ DOMAIN frames = 1 .. L /\ top = frames[L] /\ top \in Frame
      /\ \A k \in 1 .. L : frames[k] \in Frame
      /\ top.pc = "read" /\ name \in top.unread /\ AllHave(name) /\ name \in Names
      /\ Len(top.rel) = L - 1 /\ top.unread \subseteq Subdirs(1, top.rel) /\ top.ret # 1
      /\ UNCHANGED <<tree, posted, handles, visited, scanned, fails, lost, result>> /\ result = -1
  <2>1. /\ L \in Nat /\ L > 0 /\ DOMAIN frames = 1 .. L /\ top = frames[L] /\ top \in Frame
        /\ \A k \in 1 .. L : frames[k] \in Frame
    BY TopIsFrame DEF DirInv1, Typed
  <2>2. /\ top.pc = "read" /\ name \in top.unread /\ AllHave(name) /\ result = -1
        /\ UNCHANGED <<tree, posted, handles, visited, scanned, fails, lost, result>>
    BY DEF Descend, At, index
  <2>3. /\ Len(top.rel) = L - 1 /\ top.unread \subseteq Subdirs(1, top.rel)
        /\ top.ret = 1 => top.pc = "exit"
    <3>1. ASSUME NEW k \in DOMAIN frames, frames[k] = top
          PROVE  /\ Len(top.rel) = k - 1 /\ top.unread \subseteq Subdirs(1, top.rel)
                 /\ top.ret = 1 => top.pc = "exit"
      BY <3>1, Zenon DEF DirInv1, Chain
    <3>2. L \in DOMAIN frames
      BY <2>1
    <3> QED BY <2>1, <3>1, <3>2
  <2> QED BY <2>1, <2>2, <2>3 DEF Subdirs
<1> HIDE DEF L
<1>1. /\ Append(top.rel, name) \in Paths /\ top.rel \in Paths /\ top.rel \in Seq(Names)
      /\ Len(Append(top.rel, name)) = L
      /\ \A i \in 1 .. L - 1 : Append(top.rel, name)[i] = top.rel[i]
      /\ Append(top.rel, name)[L] = name
  <2>1. Append(top.rel, name) \in tree[1] /\ tree[1] \subseteq Paths
    <3>1. tree[1] \in Trees
      BY DirMergeAssumption DEF DirInv1, Typed, Dirs
    <3> QED BY <1>0, <3>1 DEF Subdirs, Trees
  <2>2. top.rel \in Paths /\ top.rel \in Seq(Names)
    BY <1>0, DirMergeAssumption DEF Frame
  <2> QED BY <1>0, <2>1, <2>2
<1>2. /\ rest \in Frame /\ rest.rel = top.rel /\ rest.unread = top.unread \ {name}
      /\ rest.pc = "read" /\ rest.ret # 1
  BY <1>0 DEF Frame
<1>3. /\ new \in Frame /\ new.rel = Append(top.rel, name) /\ new.unread = {}
      /\ new.pc = "open" /\ new.ret # 1
  BY <1>1 DEF Call, Frame
<1> HIDE DEF new, rest
<1>4. frames' = Append([frames EXCEPT ![L] = rest], new)
  <2>1. [frames EXCEPT ![L].unread = top.unread \ {name}] = [frames EXCEPT ![L] = rest]
    BY <1>0 DEF rest
  <2> QED BY <2>1 DEF Descend, new, L
<1>5. /\ frames' \in Seq(Frame) /\ DOMAIN frames' = 1 .. L + 1 /\ frames' # <<>>
      /\ Len(frames') = L + 1
      /\ frames'[L + 1] = new /\ frames'[L] = rest /\ \A k \in 1 .. L - 1 : frames'[k] = frames[k]
  <2>1. frames \in Seq(Frame) /\ Len(frames) = L
    BY DEF DirInv1, Typed, L
  <2>2. /\ [frames EXCEPT ![L] = rest] \in Seq(Frame) /\ Len([frames EXCEPT ![L] = rest]) = L
        /\ [frames EXCEPT ![L] = rest][L] = rest
        /\ \A k \in 1 .. L - 1 : [frames EXCEPT ![L] = rest][k] = frames[k]
    BY <1>0, <1>2, <2>1
  <2> QED BY <1>0, <1>3, <1>4, <2>2
<1>6. \A k \in 1 .. L : frames'[k].rel = frames[k].rel /\ frames'[k].pc = frames[k].pc
                       /\ frames'[k].unread \subseteq frames[k].unread
                       /\ frames'[k].ret = frames[k].ret
  BY <1>0, <1>2, <1>5 DEF rest, Frame
<1>7. Typed' BY <1>0, <1>5 DEF DirInv1, Typed
<1>8. Chain'
  <2>1. ASSUME NEW k \in 1 .. L + 1
        PROVE  /\ Len(frames'[k].rel) = k - 1
               /\ frames'[k].unread \subseteq Subdirs(1, frames[k].rel)'
               /\ frames'[k].ret = 1 => frames'[k].pc = "exit"
    <3>1. CASE k = L + 1
      BY <1>0, <1>1, <1>3, <1>5, <3>1
    <3>2. CASE k \in 1 .. L
      <4>1. /\ Len(frames[k].rel) = k - 1 /\ frames[k].unread \subseteq Subdirs(1, frames[k].rel)
            /\ frames[k].ret = 1 => frames[k].pc = "exit"
        BY <1>0, <3>2 DEF DirInv1, Chain
      <4> QED BY <1>0, <1>6, <3>2, <4>1 DEF Subdirs
    <3> QED BY <1>0, <3>1, <3>2
  <2>2. ASSUME NEW k \in 1 .. L + 1, NEW j \in 1 .. k - 1
        PROVE  /\ frames'[j].pc = "read"
               /\ Under(frames[k].rel, j)' /\ frames'[k].rel[j] \notin frames'[j].unread
    <3>1. CASE k = L + 1 /\ j = L
      <4>1. /\ frames'[k].rel = Append(top.rel, name) /\ frames'[j].rel = top.rel
            /\ frames'[j].pc = "read" /\ frames'[j].unread = top.unread \ {name}
        BY <1>2, <1>3, <1>5, <3>1
      <4>2. /\ Len(frames'[k].rel) >= j - 1 /\ frames'[k].rel[j] = name
            /\ \A i \in 1 .. j - 1 : frames'[k].rel[i] = frames'[j].rel[i]
        BY <1>0, <1>1, <3>1, <4>1
      <4> QED BY <4>1, <4>2 DEF Under
    <3>2. CASE k = L + 1 /\ j \in 1 .. L - 1
      <4>1. /\ frames[j].pc = "read"
            /\ Under(top.rel, j) /\ top.rel[j] \notin frames[j].unread
        <5>1. L \in DOMAIN frames /\ top = frames[L] /\ j \in 1 .. L - 1
          BY <1>0, <3>2
        <5> QED BY <5>1 DEF DirInv1, Chain
      <4>2. frames'[j] = frames[j] /\ frames'[k].rel = Append(top.rel, name) /\ j \in Nat
        <5>1. j \in Nat
          BY <1>0, <3>2
        <5>2. frames'[j] = frames[j]
          BY <1>5, <3>2
        <5>3. frames'[k] = new /\ new.rel = Append(top.rel, name)
          BY <1>3, <1>5, <3>2
        <5> QED BY <5>1, <5>2, <5>3
      <4>3. frames'[k].rel[j] = top.rel[j]
        BY <1>0, <1>1, <3>2, <4>2
      <4>4. Under(frames[k].rel, j)'
        <5>1. \A i \in 1 .. j - 1 : frames'[j].rel[i] = top.rel[i] /\ i \in 1 .. L - 1
          BY <1>0, <3>2, <4>1, <4>2 DEF Under
        <5>2. \A i \in 1 .. L - 1 : frames'[k].rel[i] = top.rel[i]
          BY <1>0, <1>1, <4>2
        <5>3. Len(frames'[k].rel) >= j - 1
          BY <1>0, <1>1, <3>2, <4>2
        <5> QED BY <5>1, <5>2, <5>3 DEF Under
      <4> QED BY <4>1, <4>2, <4>3, <4>4
    <3>3. CASE k \in 1 .. L
      <4>1. /\ frames[j].pc = "read"
            /\ Under(frames[k].rel, j) /\ frames[k].rel[j] \notin frames[j].unread
        <5>1. k \in DOMAIN frames
          BY <1>0, <3>3
        <5> QED BY <5>1 DEF DirInv1, Chain
      <4>2. frames'[j] = frames[j] /\ frames'[k].rel = frames[k].rel
        BY <1>0, <1>5, <1>6, <3>3
      <4> QED BY <4>1, <4>2 DEF Under
    <3> QED BY <1>0, <3>1, <3>2, <3>3
  <2> QED BY <1>5, <2>1, <2>2 DEF Chain
<1>9. Streams'
  <2>1. ASSUME NEW i \in Dirs, NEW p \in Paths, <<i, p>> \in handles
        PROVE  p \in tree'[i] /\ \E k \in DOMAIN frames' : frames'[k].rel = p
    <3>1. PICK k \in DOMAIN frames : frames[k].rel = p
      BY <2>1 DEF DirInv1, Streams
    <3> QED BY <1>0, <1>5, <1>6, <2>1, <3>1 DEF DirInv1, Streams
  <2>2. ASSUME NEW k \in DOMAIN frames', frames'[k].pc \in {"callback", "read"}, NEW i \in Dirs
        PROVE  <<i, frames'[k].rel>> \in handles
    BY <1>0, <1>3, <1>5, <1>6, <2>2 DEF DirInv1, Streams
  <2> QED BY <1>0, <2>1, <2>2 DEF Streams
<1> QED BY <1>7, <1>8, <1>9 DEF DirInv1

\* The outcome of every step of the merge for types, calls and streams.
LEMMA StepInv1 == DirInv1 /\ Step => DirInv1'
<1> SUFFICES ASSUME DirInv1, Step PROVE DirInv1'
  OBVIOUS
<1>0. /\ top \in Frame /\ top.unread \subseteq Subdirs(1, top.rel) /\ fails \in 0 .. MaxFails
      /\ Len(frames) \in DOMAIN frames
  <2>1. Len(frames) \in DOMAIN frames /\ frames[Len(frames)] = top /\ top \in Frame
    BY TopIsFrame DEF DirInv1, Typed
  <2>2. ASSUME NEW k \in DOMAIN frames, frames[k] = top
        PROVE  top.unread \subseteq Subdirs(1, top.rel)
    BY <2>2, Zenon DEF DirInv1, Chain
  <2> QED BY <2>1, <2>2 DEF DirInv1, Typed
<1> USE <1>0
<1>1. CASE OpenDir
  BY <1>1, OpenDirInv1
<1>2. CASE OpenDirFails
  <2>1. fails' \in 0 .. MaxFails
    BY <1>2, DirMergeAssumption DEF OpenDirFails, DirInv1, Typed
  <2> DEFINE f == [top EXCEPT !.pc = "exit"]
  <2>2. f \in Frame /\ f.rel = top.rel /\ f.unread = top.unread /\ f.pc = "exit"
    BY DEF Frame
  <2>3. /\ result = -1 /\ UNCHANGED <<index, handles, visited, scanned, lost, result>> /\ SetTop(f)
    BY <1>2 DEF OpenDirFails, At
  <2> HIDE DEF f
  <2> QED BY <2>1, <2>2, <2>3, TopStepInv1 DEF DirInv1, Typed
<1>3. CASE AllOpen
  <2> DEFINE f == [top EXCEPT !.pc = "callback"]
  <2>1. f \in Frame /\ f.rel = top.rel /\ f.unread = top.unread /\ f.ret = top.ret
    BY DEF Frame
  <2>2. /\ result = -1 /\ UNCHANGED <<index, handles, visited, scanned, fails, lost, result>> /\ SetTop(f)
        /\ top.pc = "open" /\ OpenHere = Dirs
    BY <1>3 DEF AllOpen, At
  <2>3. f.ret # 1
    <3>1. ASSUME NEW k \in DOMAIN frames, frames[k] = top PROVE top.ret = 1 => top.pc = "exit"
      BY <3>1 DEF DirInv1, Chain
    <3> QED BY <2>1, <2>2, <3>1 DEF top
  <2> HIDE DEF f
  <2> QED BY <2>1, <2>2, <2>3, TopStepInv1 DEF DirInv1, Typed
<1>4. CASE Stop
  <2> DEFINE f == [top EXCEPT !.pc = "exit", !.ret = 1]
  <2>1. f \in Frame /\ f.rel = top.rel /\ f.unread = top.unread /\ f.pc = "exit"
    BY DEF Frame
  <2>2. /\ result = -1 /\ UNCHANGED <<index, handles, visited, scanned, fails, lost, result>> /\ SetTop(f)
    BY <1>4 DEF Stop, At
  <2> HIDE DEF f
  <2> QED BY <2>1, <2>2, TopStepInv1 DEF DirInv1, Typed
<1>5. ASSUME CallbackDone, scanned' \in Nat, fails' \in 0 .. MaxFails, lost' \subseteq Paths
      PROVE  DirInv1'
  <2> DEFINE f == [top EXCEPT !.pc = "read", !.unread = Subdirs(1, top.rel)]
  <2>1. Subdirs(1, top.rel) \subseteq Names
    BY DEF Subdirs
  <2>2. f \in Frame /\ f.rel = top.rel /\ f.unread = Subdirs(1, top.rel) /\ f.ret = top.ret
        /\ top.rel \in Paths
    BY <2>1 DEF Frame
  <2>3. /\ result = -1 /\ UNCHANGED <<index, handles, result>> /\ SetTop(f)
        /\ top.pc = "callback"
    BY <1>5 DEF CallbackDone, At
  <2>4. f.ret # 1
    <3>1. ASSUME NEW k \in DOMAIN frames, frames[k] = top PROVE top.ret = 1 => top.pc = "exit"
      BY <3>1 DEF DirInv1, Chain
    <3> QED BY <2>2, <2>3, <3>1 DEF top
  <2>5. visited' \in Seq(Paths)
    <3>1. visited \in Seq(Paths)
      BY DEF DirInv1, Typed
    <3> QED BY <1>5, <2>2, <3>1 DEF CallbackDone
  <2> HIDE DEF f
  <2> QED BY <1>5, <2>2, <2>3, <2>4, <2>5, TopStepInv1
<1>a. CASE Visit
  <2>1. ItemsAt[top.rel] \in Nat
    BY DirMergeAssumption DEF Frame
  <2>2. scanned \in Nat /\ lost \subseteq Paths
    BY DEF DirInv1, Typed
  <2>3. \/ scanned' = scanned + ItemsAt[top.rel]
        \/ scanned' = scanned + 0
    BY <1>a DEF Visit
  <2> QED BY <1>5, <1>a, <2>1, <2>2, <2>3 DEF Visit
<1>b. CASE PostingOpenFails
  <2>1. fails' \in 0 .. MaxFails
    BY <1>b, DirMergeAssumption DEF PostingOpenFails
  <2>2. scanned' \in Nat /\ lost' \subseteq Paths
    BY <1>b DEF PostingOpenFails, DirInv1, Typed, Frame
  <2> QED BY <1>5, <1>b, <2>1, <2>2 DEF PostingOpenFails
<1>6. ASSUME NEW name \in Names, Skip(name) PROVE DirInv1'
  <2> DEFINE f == [top EXCEPT !.unread = top.unread \ {name}]
  <2>1. f \in Frame /\ f.rel = top.rel /\ f.unread \subseteq top.unread /\ f.ret = top.ret
        /\ f.pc = top.pc
    BY DEF Frame
  <2>2. /\ result = -1 /\ UNCHANGED <<index, handles, visited, scanned, fails, lost, result>> /\ SetTop(f)
        /\ top.pc = "read"
    BY <1>6 DEF Skip, At
  <2>3. f.ret = 1 => f.pc = "exit"
    <3>1. ASSUME NEW k \in DOMAIN frames, frames[k] = top PROVE top.ret = 1 => top.pc = "exit"
      BY <3>1 DEF DirInv1, Chain
    <3> QED BY <2>1, <2>2, <3>1 DEF top
  <2> HIDE DEF f
  <2>4. f.unread \subseteq Subdirs(1, top.rel)
    BY <2>1
  <2> QED BY <2>1, <2>2, <2>3, <2>4, TopStepInv1 DEF DirInv1, Typed
<1>7. ASSUME NEW name \in Names, Descend(name) PROVE DirInv1'
  BY <1>7, DescendInv1
<1>8. CASE AllRead
  <2> DEFINE f == [top EXCEPT !.pc = "exit"]
  <2>1. f \in Frame /\ f.rel = top.rel /\ f.unread = top.unread /\ f.pc = "exit"
    BY DEF Frame
  <2>2. /\ result = -1 /\ UNCHANGED <<index, handles, visited, scanned, fails, lost, result>> /\ SetTop(f)
    BY <1>8 DEF AllRead, At
  <2> HIDE DEF f
  <2> QED BY <2>1, <2>2, TopStepInv1 DEF DirInv1, Typed
<1>9. CASE ReturnUp
  BY <1>9, ReturnUpInv1
<1>10. CASE ReturnOut
  BY <1>10, ReturnOutInv1
<1> QED BY <1>1, <1>2, <1>3, <1>4, <1>a, <1>b, <1>6, <1>7, <1>8, <1>9, <1>10 DEF Step, Inside

---------------------------------------------------------------------------
(* Which directories are visited, and which still will be *)

\* No directory is visited again: what a call is about to visit or to read was
\* not visited.
Visits ==
  /\ \A v \in DOMAIN visited : visited[v] \in Common
  /\ \A v, w \in DOMAIN visited : visited[v] = visited[w] => v = w
  /\ \A v \in DOMAIN visited : \A k \in DOMAIN frames : Under(visited[v], k) =>
       /\ frames[k].pc \notin {"open", "callback"}
       /\ frames[k].pc = "read" /\ Len(visited[v]) >= k => visited[v][k] \notin frames[k].unread

\* The call k will come to p.
Ahead(p, k) ==
  /\ Under(p, k)
  /\ \/ frames[k].pc \in {"open", "callback"}
     \/ frames[k].pc = "read" /\ Len(p) >= k /\ p[k] \in frames[k].unread

Seen(p) == \E v \in DOMAIN visited : visited[v] = p

\* Without failures and stops, what is in common is visited or a call comes to it.
Complete ==
  /\ fails = 0 /\ top.ret = 0 /\ result = -1 =>
       \A p \in Common : Seen(p) \/ \E k \in DOMAIN frames : Ahead(p, k)
  /\ fails = 0 /\ result = 0 => \A p \in Common : Seen(p)

DirInv2 == Visits /\ Complete

\* The directories above a directory are there.
LEMMA Above ==
  ASSUME NEW t \in Trees, NEW p \in t, NEW q \in Seq(Names), Len(q) <= Len(p),
         \A i \in 1 .. Len(q) : p[i] = q[i]
  PROVE  q \in t
<1>1. p \in Seq(Names)
  BY DirMergeAssumption DEF Trees
<1>2. q = SubSeq(p, 1, Len(q))
  BY <1>1
<1>3. Len(q) \in 0 .. Len(p)
  BY <1>1
<1> QED BY <1>2, <1>3 DEF Trees

\* A directory in common below the innermost call: the call's directory is in
\* common too, and so is the subdirectory on the way.
LEMMA CommonAbove ==
  ASSUME DirInv1, NEW p \in Common, Under(p, Len(frames))
  PROVE  /\ top.rel \in Common
         /\ Len(p) < Len(frames) => p = top.rel
         /\ Len(p) >= Len(frames) =>
              p[Len(frames)] \in Names /\ \A i \in Dirs : p[Len(frames)] \in Subdirs(i, top.rel)
<1> DEFINE L == Len(frames)
<1>1. L \in Nat \ {0} /\ top \in Frame /\ top = frames[L] /\ L \in DOMAIN frames
  BY TopIsFrame DEF DirInv1, Typed
<1>2. Len(top.rel) = L - 1
  BY <1>1 DEF DirInv1, Chain
<1>3. top.rel \in Paths /\ top.rel \in Seq(Names) /\ p \in Paths /\ p \in Seq(Names)
  BY <1>1, DirMergeAssumption DEF Frame, Common
<1>4. Len(p) >= L - 1 /\ \A i \in 1 .. L - 1 : p[i] = top.rel[i]
  BY <1>1 DEF Under
<1>5. \A i \in Dirs : tree[i] \in Trees /\ p \in tree[i]
  BY DEF Common, DirInv1, Typed
<1> HIDE DEF L
<1>6. ASSUME NEW i \in Dirs PROVE top.rel \in tree[i]
  <2>1. Len(top.rel) <= Len(p) /\ \A j \in 1 .. Len(top.rel) : p[j] = top.rel[j]
    BY <1>1, <1>2, <1>3, <1>4
  <2> QED BY <1>3, <1>5, <2>1, Above
<1>7. ASSUME Len(p) < L PROVE p = top.rel
  <2>1. Len(p) \in Nat /\ Len(p) = L - 1 /\ L \in Nat
    BY <1>1, <1>3, <1>4, <1>7
  <2>2. Len(p) = Len(top.rel) /\ \A i \in 1 .. Len(p) : p[i] = top.rel[i]
    BY <1>2, <1>4, <2>1
  <2> HIDE DEF top
  <2> QED BY <1>3, <2>2
<1>8. ASSUME Len(p) >= L, NEW i \in Dirs PROVE p[L] \in Names /\ p[L] \in Subdirs(i, top.rel)
  <2> DEFINE q == Append(top.rel, p[L])
  <2>1. p[L] \in Names
    BY <1>1, <1>3, <1>8
  <2>2. q \in Seq(Names) /\ Len(q) = L /\ \A j \in 1 .. L : p[j] = q[j]
    BY <1>1, <1>2, <1>3, <1>4, <2>1
  <2> HIDE DEF q
  <2>3. q \in tree[i]
    BY <1>1, <1>3, <1>5, <1>8, <2>2, Above
  <2> QED BY <2>1, <2>3 DEF q, Subdirs
<1>9. 1 \in Dirs
  BY DirMergeAssumption DEF Dirs
<1> QED BY <1>3, <1>6, <1>7, <1>8, <1>9 DEF Common, L

\* Of a step that changes the top of the stack and keeps its directory: what is
\* under a call stays under it.
LEMMA TopStepUnder ==
  ASSUME DirInv1, NEW f \in Frame, SetTop(f), f.rel = top.rel
  PROVE  /\ DOMAIN frames' = DOMAIN frames /\ Len(frames) \in DOMAIN frames
         /\ frames'[Len(frames)] = f /\ top' = f
         /\ \A k \in DOMAIN frames : k # Len(frames) => frames'[k] = frames[k]
         /\ \A p, k : k \in DOMAIN frames => (Under(p, k)' <=> Under(p, k))
<1>1. /\ frames' \in Seq(Frame) /\ Len(frames') = Len(frames) /\ Len(frames) \in Nat \ {0}
      /\ DOMAIN frames = 1 .. Len(frames) /\ DOMAIN frames' = 1 .. Len(frames)
      /\ frames'[Len(frames)] = f
      /\ \A k \in 1 .. Len(frames) - 1 : frames'[k] = frames[k]
      /\ top = frames[Len(frames)] /\ top' = frames'[Len(frames')]
  BY TopSet, TopIsFrame DEF DirInv1, Typed, top
<1>2. \A k \in DOMAIN frames : k # Len(frames) => frames'[k] = frames[k]
  BY <1>1
<1>3. \A k \in DOMAIN frames : frames'[k].rel = frames[k].rel
  BY <1>1, <1>2
<1>4. ASSUME NEW p, NEW k \in DOMAIN frames PROVE Under(p, k)' <=> Under(p, k)
  BY <1>3 DEF Under
<1> QED BY <1>1, <1>2, <1>4

\* Such a step without a visit visits nothing again.
LEMMA TopStepVisits ==
  ASSUME DirInv1, Visits, NEW f \in Frame, SetTop(f), f.rel = top.rel,
         UNCHANGED <<index, visited>>,
         f.pc \in {"open", "callback"} => top.pc \in {"open", "callback"},
         f.pc = "read" => top.pc = "read" /\ f.unread \subseteq top.unread
  PROVE  Visits'
<1> DEFINE L == Len(frames)
<1>1. /\ DOMAIN frames' = DOMAIN frames /\ L \in DOMAIN frames
      /\ frames'[L] = f /\ frames[L] = top
      /\ \A k \in DOMAIN frames : k # L => frames'[k] = frames[k]
      /\ \A p, k : k \in DOMAIN frames => (Under(p, k)' <=> Under(p, k))
  BY TopStepUnder DEF top
<1> HIDE DEF L
<1>2. UNCHANGED <<Common, visited>>
  BY DEF Common, index
<1>3. ASSUME NEW v \in DOMAIN visited, NEW k \in DOMAIN frames, Under(visited[v], k)
      PROVE  /\ frames'[k].pc \notin {"open", "callback"}
             /\ frames'[k].pc = "read" /\ Len(visited[v]) >= k =>
                  visited[v][k] \notin frames'[k].unread
  <2>1. /\ frames[k].pc \notin {"open", "callback"}
        /\ frames[k].pc = "read" /\ Len(visited[v]) >= k => visited[v][k] \notin frames[k].unread
    BY <1>3 DEF Visits
  <2> QED BY <1>1, <2>1
<1>4. ASSUME NEW v \in DOMAIN visited', NEW k \in DOMAIN frames', Under(visited[v], k)'
      PROVE  /\ frames'[k].pc \notin {"open", "callback"}
             /\ frames'[k].pc = "read" /\ Len(visited'[v]) >= k =>
                  visited'[v][k] \notin frames'[k].unread
  <2>1. visited' = visited /\ v \in DOMAIN visited /\ k \in DOMAIN frames
    BY <1>1, <1>2, <1>4
  <2>2. Under(visited[v], k)
    BY <1>1, <1>4, <2>1
  <2> QED BY <1>3, <2>1, <2>2
<1> QED BY <1>2, <1>4 DEF Visits

\* Such a step loses none of the directories that the innermost call would come to.
LEMMA TopStepComplete ==
  ASSUME DirInv1, Complete, result = -1, NEW f \in Frame, SetTop(f), f.rel = top.rel,
         UNCHANGED <<index, result>>, f.ret = 0 => top.ret = 0, fails' = 0 => fails = 0,
         \A p : Seen(p) => Seen(p)',
         fails' = 0 /\ f.ret = 0 =>
           \A p \in Common : Ahead(p, Len(frames)) =>
             \/ Seen(p)'
             \/ f.pc \in {"open", "callback"}
             \/ f.pc = "read" /\ Len(p) >= Len(frames) /\ p[Len(frames)] \in f.unread
  PROVE  Complete'
<1> DEFINE L == Len(frames)
<1>1. /\ DOMAIN frames' = DOMAIN frames /\ L \in DOMAIN frames
      /\ frames'[L] = f /\ frames[L] = top /\ top' = f
      /\ \A k \in DOMAIN frames : k # L => frames'[k] = frames[k]
      /\ \A p, k : k \in DOMAIN frames => (Under(p, k)' <=> Under(p, k))
  BY TopStepUnder DEF top
<1> HIDE DEF L
<1>2. Common' = Common /\ result' = -1
  BY DEF Common, index
<1>3. ASSUME fails' = 0, f.ret = 0, NEW p \in Common
      PROVE  Seen(p)' \/ \E k \in DOMAIN frames' : Ahead(p, k)'
  <2>1. Seen(p) \/ \E k \in DOMAIN frames : Ahead(p, k)
    BY <1>2, <1>3 DEF Complete
  <2>2. CASE Seen(p)
    BY <2>2
  <2>3. ASSUME NEW k \in DOMAIN frames, Ahead(p, k), k # L PROVE Ahead(p, k)'
    BY <1>1, <2>3 DEF Ahead
  <2>4. ASSUME NEW k \in DOMAIN frames, Ahead(p, k), k = L PROVE Seen(p)' \/ Ahead(p, k)'
    <3>1. Under(p, k)'
      BY <1>1, <2>4 DEF Ahead
    <3>2. \/ Seen(p)'
          \/ f.pc \in {"open", "callback"}
          \/ f.pc = "read" /\ Len(p) >= k /\ p[k] \in f.unread
      BY <1>3, <2>4 DEF L
    <3> QED BY <1>1, <2>4, <3>1, <3>2 DEF Ahead
  <2> QED BY <1>1, <2>1, <2>2, <2>3, <2>4
<1> QED BY <1>1, <1>2, <1>3 DEF Complete

\* A visit: the directory is in common, and was not visited before.
LEMMA VisitInv2 ==
  ASSUME DirInv1, DirInv2, CallbackDone, fails' = 0 => fails = 0
  PROVE  DirInv2'
<1> DEFINE L == Len(frames)
           f == [top EXCEPT !.pc = "read", !.unread = Subdirs(1, top.rel)]
<1>1. /\ result = -1 /\ top.pc = "callback" /\ visited' = Append(visited, top.rel) /\ SetTop(f)
      /\ UNCHANGED <<index, handles, result>> /\ (fails' = 0 => fails = 0)
  BY DEF CallbackDone, At
<1>2. /\ L \in DOMAIN frames /\ frames[L] = top /\ top \in Frame /\ L \in Nat \ {0}
      /\ DOMAIN frames = 1 .. L
  BY TopIsFrame DEF DirInv1, Typed
<1>3. Subdirs(1, top.rel) \subseteq Names
  BY DEF Subdirs
<1>4. f \in Frame /\ f.rel = top.rel /\ f.pc = "read" /\ f.ret = top.ret
      /\ f.unread = Subdirs(1, top.rel)
  BY <1>2, <1>3 DEF Frame
<1> HIDE DEF L, f
<1>5. /\ DOMAIN frames' = DOMAIN frames /\ frames'[L] = f
      /\ \A k \in DOMAIN frames : k # L => frames'[k] = frames[k]
      /\ \A p, k : k \in DOMAIN frames => (Under(p, k)' <=> Under(p, k))
  BY <1>1, <1>4, TopStepUnder DEF L
<1>6. Common' = Common
  BY <1>1 DEF Common, index
<1>7. Len(top.rel) = L - 1
  BY <1>2 DEF DirInv1, Chain
<1>8. /\ visited \in Seq(Paths) /\ Len(visited) \in Nat
      /\ DOMAIN visited = 1 .. Len(visited) /\ DOMAIN visited' = 1 .. Len(visited) + 1
      /\ visited'[Len(visited) + 1] = top.rel
      /\ \A v \in DOMAIN visited : visited'[v] = visited[v]
  BY <1>1, <1>2 DEF DirInv1, Typed, Frame
<1>9. \A v \in DOMAIN visited : ~Under(visited[v], L)
  BY <1>1, <1>2 DEF DirInv2, Visits
<1>10. Under(top.rel, L)
  BY <1>2, <1>7 DEF Under
<1>11. top.rel \in Common
  <2>1. top.rel \in Paths
    BY <1>2 DEF Frame
  <2>2. ASSUME NEW i \in Dirs PROVE <<i, top.rel>> \in handles
    BY <1>1, <1>2 DEF DirInv1, Streams
  <2>3. ASSUME NEW i \in Dirs PROVE top.rel \in tree[i]
    BY <2>1, <2>2 DEF DirInv1, Streams
  <2> QED BY <2>1, <2>3 DEF Common
<1>12. Visits'
  <2>1. \A v \in DOMAIN visited' : visited'[v] \in Common'
    BY <1>6, <1>8, <1>11 DEF DirInv2, Visits
  <2>2. ASSUME NEW v \in DOMAIN visited', NEW w \in DOMAIN visited', visited'[v] = visited'[w]
        PROVE  v = w
    BY <1>8, <1>9, <1>10, <2>2 DEF DirInv2, Visits
  <2>3. ASSUME NEW v \in DOMAIN visited', NEW k \in DOMAIN frames', Under(visited'[v], k)
        PROVE  /\ frames'[k].pc \notin {"open", "callback"}
               /\ frames'[k].pc = "read" /\ Len(visited'[v]) >= k =>
                    visited'[v][k] \notin frames'[k].unread
    <3>1. CASE v \in DOMAIN visited /\ k = L
      BY <1>8, <1>9, <2>3, <3>1
    <3>2. CASE v \in DOMAIN visited /\ k # L
      BY <1>5, <1>8, <2>3, <3>2 DEF DirInv2, Visits
    <3>3. CASE v = Len(visited) + 1 /\ k = L
      BY <1>2, <1>4, <1>5, <1>7, <1>8, <3>3
    <3>4. CASE v = Len(visited) + 1 /\ k # L
      <4>1. k \in 1 .. L - 1
        BY <1>2, <1>5, <3>4
      <4>2. frames[k].pc = "read" /\ top.rel[k] \notin frames[k].unread
        BY <1>2, <4>1 DEF DirInv1, Chain
      <4> QED BY <1>5, <1>8, <3>4, <4>2
    <3> QED BY <1>8, <3>1, <3>2, <3>3, <3>4
  <2>4. ASSUME NEW v \in DOMAIN visited', NEW k \in DOMAIN frames', Under(visited[v], k)'
        PROVE  /\ frames'[k].pc \notin {"open", "callback"}
               /\ frames'[k].pc = "read" /\ Len(visited'[v]) >= k =>
                    visited'[v][k] \notin frames'[k].unread
    <3>1. Under(visited'[v], k)
      <4>1. ASSUME NEW p, p = visited'[v] PROVE Under(p, k)
        <5>1. Under(p, k)'
          BY <2>4, <4>1 DEF Under
        <5> QED BY <1>5, <5>1
      <4> QED BY <4>1
    <3> QED BY <2>3, <3>1
  <2> QED BY <2>1, <2>2, <2>4 DEF Visits
<1>13. Complete'
  <2>1. \A p : Seen(p) => Seen(p)'
    BY <1>8 DEF Seen
  <2>2. ASSUME NEW p \in Common, Ahead(p, L)
        PROVE  Seen(p)' \/ (Len(p) >= L /\ p[L] \in f.unread)
    <3>1. /\ Len(p) < L => p = top.rel
          /\ Len(p) >= L => \A i \in Dirs : p[L] \in Subdirs(i, top.rel)
      BY <2>2, CommonAbove DEF Ahead, L
    <3>3. Len(p) \in Nat
      BY DirMergeAssumption DEF Common
    <3>4. 1 \in Dirs
      BY DirMergeAssumption DEF Dirs
    <3>5. CASE Len(p) < L
      <4>1. p = top.rel
        BY <3>1, <3>5
      <4>2. visited'[Len(visited) + 1] = p /\ Len(visited) + 1 \in DOMAIN visited'
        BY <1>8, <4>1
      <4> QED BY <4>2 DEF Seen
    <3> QED BY <1>2, <1>4, <3>1, <3>3, <3>4, <3>5
  <2> QED BY <1>1, <1>2, <1>4, <2>1, <2>2, TopStepComplete DEF DirInv2, L
<1> QED BY <1>12, <1>13 DEF DirInv2

\* Streams opened, and the return from the outermost call, change no call.
LEMMA SameFramesInv2 ==
  ASSUME DirInv2, UNCHANGED <<index, frames, visited, fails>>,
         result' = result \/ (result = -1 /\ result' = top.ret /\ top.pc = "exit"
                                /\ Len(frames) = 1 /\ DOMAIN frames = {1})
  PROVE  DirInv2'
<1>1. Common' = Common /\ top' = top
  BY DEF Common, index, top
<1>2. Visits'
  BY <1>1 DEF DirInv2, Visits, Under
<1>3. Complete'
  <2>1. CASE result' = result
    BY <1>1, <2>1 DEF DirInv2, Complete, Seen, Ahead, Under
  <2>2. CASE result' # result
    <3>1. top = frames[1] /\ result = -1 /\ result' = top.ret /\ top.pc = "exit"
          /\ DOMAIN frames = {1}
      BY <2>2 DEF top
    <3>2. ASSUME fails = 0, top.ret = 0, NEW p \in Common PROVE Seen(p)
      <4>1. ASSUME NEW k \in DOMAIN frames PROVE ~Ahead(p, k)
        BY <3>1, <4>1 DEF Ahead
      <4> QED BY <3>1, <3>2, <4>1 DEF DirInv2, Complete
    <3>3. \A p : Seen(p) => Seen(p)'
      BY DEF Seen
    <3>4. ~(fails = 0 /\ top.ret = 0 /\ result' = -1)
      BY <3>1
    <3>5. fails = 0 /\ result' = 0 => \A p \in Common : Seen(p)'
      BY <3>1, <3>2, <3>3
    <3> QED BY <1>1, <3>4, <3>5 DEF Complete
  <2> QED BY <2>1, <2>2
<1> QED BY <1>2, <1>3 DEF DirInv2

\* A call for a subdirectory: what was to be read there is now ahead of the new
\* call, and nothing in it was visited.
LEMMA DescendInv2 == ASSUME NEW name, DirInv1, DirInv2, Descend(name) PROVE DirInv2'
<1>0. PICK L : L = Len(frames)
  OBVIOUS
<1>1. /\ L \in Nat /\ L > 0 /\ DOMAIN frames = 1 .. L /\ top = frames[L]
      /\ \A k \in 1 .. L : frames[k] \in Frame
      /\ frames \in Seq(Frame)
  BY <1>0, TopIsFrame DEF DirInv1, Typed
<1>2. /\ result = -1 /\ top.pc = "read" /\ name \in top.unread
      /\ UNCHANGED <<index, visited, fails, result>>
      /\ frames' = Append([frames EXCEPT ![L].unread = top.unread \ {name}],
                          Call(Append(top.rel, name)))
  BY <1>0 DEF Descend, At
<1>3. Len(top.rel) = L - 1 /\ top.ret # 1
  <2>1. ASSUME NEW k \in DOMAIN frames, frames[k] = top
        PROVE  Len(top.rel) = k - 1 /\ (top.ret = 1 => top.pc = "exit")
    BY <2>1, Zenon DEF DirInv1, Chain
  <2>2. L \in DOMAIN frames
    BY <1>1
  <2> QED BY <1>1, <1>2, <2>1, <2>2
<1>4. /\ DOMAIN frames' = 1 .. L + 1 /\ Len(frames') = L + 1
      /\ \A k \in 1 .. L - 1 : frames'[k] = frames[k]
      /\ frames'[L].rel = top.rel /\ frames'[L].pc = "read" /\ frames'[L].ret = top.ret
      /\ frames'[L].unread = top.unread \ {name}
      /\ frames'[L + 1] = Call(Append(top.rel, name))
  <2> DEFINE rest == [frames EXCEPT ![L].unread = top.unread \ {name}]
  <2>1. rest \in Seq(Frame) /\ Len(rest) = L
    BY <1>0, <1>1 DEF Frame
  <2>2. /\ \A k \in 1 .. L - 1 : rest[k] = frames[k]
        /\ rest[L] = [top EXCEPT !.unread = top.unread \ {name}]
    <3>1. rest = [frames EXCEPT ![L] = [top EXCEPT !.unread = top.unread \ {name}]]
      BY <1>1
    <3>2. L \in DOMAIN frames /\ 1 .. L - 1 \subseteq DOMAIN frames /\ L \notin 1 .. L - 1
      BY <1>1
    <3> HIDE DEF rest
    <3> QED BY <3>1, <3>2
  <2> HIDE DEF rest
  <2>3. /\ DOMAIN frames' = 1 .. L + 1 /\ Len(frames') = L + 1
        /\ \A k \in 1 .. L : frames'[k] = rest[k]
        /\ frames'[L + 1] = Call(Append(top.rel, name))
    BY <1>1, <1>2, <2>1 DEF rest
  <2> QED BY <1>1, <1>2, <2>2, <2>3 DEF Frame
<1>5. /\ top' = frames'[L + 1] /\ top'.ret = 0 /\ top'.pc = "open" /\ top.ret = 0
      /\ top'.rel = Append(top.rel, name)
  BY <1>1, <1>3, <1>4 DEF top, Call, Frame
<1>6. Common' = Common
  BY <1>2 DEF Common, index
<1>7. \A p : \A k \in 1 .. L : Under(p, k)' <=> Under(p, k)
  <2>1. \A k \in 1 .. L : frames'[k].rel = frames[k].rel
    BY <1>1, <1>4
  <2>2. ASSUME NEW p, NEW k \in 1 .. L PROVE Under(p, k)' <=> Under(p, k)
    BY <2>1 DEF Under
  <2> QED BY <2>2
<1>8. top.rel \in Seq(Names)
  BY <1>1, DirMergeAssumption DEF Frame
<1>9. ASSUME NEW p \in Seq(Names)
      PROVE  Under(p, L + 1)' <=> Under(p, L) /\ Len(p) >= L /\ p[L] = name
  <2>1. /\ L \in 1 .. L
        /\ \A i \in 1 .. L - 1 : frames'[L + 1].rel[i] = top.rel[i]
        /\ frames'[L + 1].rel[L] = name
    BY <1>1, <1>3, <1>4, <1>5, <1>8
  <2>2. Under(p, L + 1)' <=> Len(p) >= L /\ \A i \in 1 .. L : p[i] = frames'[L + 1].rel[i]
    BY <1>1 DEF Under
  <2>3. Under(p, L) <=> Len(p) >= L - 1 /\ \A i \in 1 .. L - 1 : p[i] = top.rel[i]
    BY <1>1, Zenon DEF Under
  <2>4. \A i \in 1 .. L : i = L \/ i \in 1 .. L - 1
    BY <1>1
  <2>5. Len(p) >= L => Len(p) >= L - 1
    BY <1>1
  <2>6. ASSUME Under(p, L + 1)' PROVE Under(p, L) /\ Len(p) >= L /\ p[L] = name
    <3>1. Len(p) >= L /\ \A i \in 1 .. L : p[i] = frames'[L + 1].rel[i]
      BY <2>2, <2>6
    <3>2. 1 .. L - 1 \subseteq 1 .. L
      BY <1>1
    <3>3. \A i \in 1 .. L - 1 : p[i] = top.rel[i]
      BY <2>1, <3>1, <3>2
    <3> QED BY <2>1, <2>3, <2>5, <3>1, <3>3
  <2>7. ASSUME Under(p, L), Len(p) >= L, p[L] = name PROVE Under(p, L + 1)'
    <3>1. \A i \in 1 .. L - 1 : p[i] = top.rel[i]
      BY <2>3, <2>7
    <3>2. \A i \in 1 .. L : p[i] = frames'[L + 1].rel[i]
      BY <2>1, <2>4, <2>7, <3>1
    <3> QED BY <2>2, <2>7, <3>2
  <2> QED BY <2>6, <2>7
<1>10. Visits'
  <2>1. ASSUME NEW v \in DOMAIN visited, NEW k \in 1 .. L + 1, Under(visited[v], k)'
        PROVE  /\ frames'[k].pc \notin {"open", "callback"}
               /\ frames'[k].pc = "read" /\ Len(visited[v]) >= k =>
                    visited[v][k] \notin frames'[k].unread
    <3>0. Under(visited[v], k)' => \E p : p = visited[v] /\ Under(p, k)'
      BY <1>2
    <3>1. CASE k \in 1 .. L - 1
      <4>1. Under(visited[v], k)
        BY <1>1, <1>7, <2>1, <3>0, <3>1
      <4> QED BY <1>1, <1>4, <3>1, <4>1 DEF DirInv2, Visits
    <3>2. CASE k = L
      <4>1. Under(visited[v], k)
        BY <1>1, <1>7, <2>1, <3>0, <3>2
      <4>2. Len(visited[v]) >= k => visited[v][k] \notin top.unread
        BY <1>1, <1>2, <3>2, <4>1 DEF DirInv2, Visits
      <4> QED BY <1>4, <3>2, <4>2
    <3>3. CASE k = L + 1
      <4>1. visited[v] \in Seq(Names)
        BY DirMergeAssumption DEF DirInv1, Typed
      <4>2. Under(visited[v], L) /\ Len(visited[v]) >= L /\ visited[v][L] = name
        BY <1>9, <2>1, <3>0, <3>3, <4>1
      <4>3. visited[v][L] \notin top.unread
        BY <1>1, <1>2, <4>2 DEF DirInv2, Visits
      <4> QED BY <1>2, <4>2, <4>3
    <3> QED BY <1>1, <3>1, <3>2, <3>3
  <2>2. visited' = visited
    BY <1>2
  <2> QED BY <1>4, <1>6, <2>1, <2>2 DEF DirInv2, Visits
<1>11. Complete'
  <2>1. ASSUME fails = 0, NEW p \in Common
        PROVE  Seen(p)' \/ \E k \in 1 .. L + 1 : Ahead(p, k)'
    <3>1. Seen(p) \/ \E k \in 1 .. L : Ahead(p, k)
      BY <1>1, <1>2, <1>5, <2>1 DEF DirInv2, Complete
    <3>2. Seen(p) => Seen(p)'
      BY <1>2 DEF Seen
    <3>3. ASSUME NEW k \in 1 .. L - 1, Ahead(p, k) PROVE Ahead(p, k)'
      <4>1. Under(p, k)' <=> Under(p, k)
        BY <1>1, <1>7
      <4> QED BY <1>4, <3>3, <4>1 DEF Ahead
    <3>4. ASSUME NEW k, k = L, Ahead(p, k) PROVE Ahead(p, k)' \/ Ahead(p, L + 1)'
      <4>1. Under(p, k) /\ Len(p) >= k /\ p[k] \in top.unread
        BY <1>1, <1>2, <3>4 DEF Ahead
      <4>2. CASE p[k] = name
        <5>1. p \in Seq(Names)
          BY DirMergeAssumption DEF Common
        <5>2. Under(p, L + 1)'
          BY <1>9, <3>4, <4>1, <4>2, <5>1
        <5>3. frames'[L + 1].pc = "open"
          BY <1>4, <1>5
        <5> QED BY <5>2, <5>3 DEF Ahead
      <4>3. CASE p[k] # name
        <5>1. Under(p, k)'
          BY <1>1, <1>7, <3>4, <4>1
        <5> QED BY <1>4, <3>4, <4>1, <4>3, <5>1 DEF Ahead
      <4> QED BY <4>2, <4>3
    <3>5. L \in 1 .. L + 1 /\ L + 1 \in 1 .. L + 1 /\ 1 .. L - 1 \subseteq 1 .. L + 1
          /\ \A k \in 1 .. L : k = L \/ k \in 1 .. L - 1
      BY <1>1
    <3>6. ASSUME NEW k \in 1 .. L, Ahead(p, k) PROVE \E j \in 1 .. L + 1 : Ahead(p, j)'
      BY <3>3, <3>4, <3>5, <3>6
    <3> QED BY <3>1, <3>2, <3>6
  <2>2. fails' = fails /\ result' = -1
    BY <1>2
  <2> QED BY <1>4, <1>6, <2>1, <2>2 DEF Complete
<1> QED BY <1>10, <1>11 DEF DirInv2

\* A call that returns had nothing ahead.
LEMMA ReturnUpInv2 == DirInv1 /\ DirInv2 /\ ReturnUp => DirInv2'
<1> SUFFICES ASSUME DirInv1, DirInv2, ReturnUp PROVE DirInv2'
  OBVIOUS
<1>0. PICK L : L = Len(frames)
  OBVIOUS
<1>1. /\ L \in Nat /\ L > 1 /\ DOMAIN frames = 1 .. L /\ top = frames[L] /\ top.pc = "exit"
      /\ \A k \in 1 .. L : frames[k] \in Frame
      /\ UNCHANGED <<index, visited, fails, result>> /\ result = -1
  BY <1>0 DEF ReturnUp, At, DirInv1, Typed, top
<1>2. /\ Front(frames) \in Seq(Frame) /\ Len(Front(frames)) = L - 1
      /\ \A k \in 1 .. L - 1 : Front(frames)[k] = frames[k]
  BY <1>0, <1>1 DEF Front, DirInv1, Typed
<1>3. frames' = [Front(frames) EXCEPT ![L - 1] = ReturnTo(Front(frames)[L - 1])]
  BY <1>0 DEF ReturnUp
<1>4. ReturnTo(frames[L - 1]) \in Frame
  <2>1. frames[L - 1] \in Frame
    BY <1>1
  <2> QED BY <2>1 DEF ReturnTo, Frame
<1>5. /\ DOMAIN frames' = 1 .. L - 1 /\ Len(frames') = L - 1
      /\ frames'[L - 1] = ReturnTo(frames[L - 1])
      /\ \A k \in 1 .. L - 2 : frames'[k] = frames[k]
      /\ top' = ReturnTo(frames[L - 1])
  <2>1. frames' = [Front(frames) EXCEPT ![L - 1] = ReturnTo(frames[L - 1])]
    <3>1. L - 1 \in 1 .. L - 1
      BY <1>1
    <3>2. Front(frames)[L - 1] = frames[L - 1]
      BY <1>2, <3>1
    <3> QED BY <1>3, <3>2
  <2>2. /\ DOMAIN frames' = 1 .. L - 1 /\ Len(frames') = L - 1
        /\ frames'[L - 1] = ReturnTo(frames[L - 1])
        /\ \A k \in 1 .. L - 2 : frames'[k] = frames[k]
    BY <1>1, <1>2, <1>4, <2>1
  <2> QED BY <2>2 DEF top
<1>6. \A k \in 1 .. L - 1 : /\ frames'[k].rel = frames[k].rel
                            /\ frames'[k].unread = frames[k].unread
                            /\ frames'[k].pc = frames[k].pc \/ frames'[k].pc = "exit"
  <2>1. /\ ReturnTo(frames[L - 1]).rel = frames[L - 1].rel
        /\ ReturnTo(frames[L - 1]).unread = frames[L - 1].unread
        /\ ReturnTo(frames[L - 1]).pc = frames[L - 1].pc \/ ReturnTo(frames[L - 1]).pc = "exit"
    BY <1>1 DEF ReturnTo, Frame
  <2>2. \A k \in 1 .. L - 1 : k = L - 1 \/ k \in 1 .. L - 2
    BY <1>1
  <2> QED BY <1>5, <2>1, <2>2
<1>7. \A p : \A k \in 1 .. L - 1 : Under(p, k)' <=> Under(p, k)
  <2>1. ASSUME NEW p, NEW k \in 1 .. L - 1 PROVE Under(p, k)' <=> Under(p, k)
    BY <1>6 DEF Under
  <2> QED BY <2>1
<1>8. Common' = Common /\ 1 .. L - 1 \subseteq 1 .. L /\ visited' = visited
  BY <1>1 DEF Common, index
<1>9. Visits'
  <2>1. ASSUME NEW v \in DOMAIN visited, NEW k \in 1 .. L - 1, Under(visited[v], k)'
        PROVE  /\ frames'[k].pc \notin {"open", "callback"}
               /\ frames'[k].pc = "read" /\ Len(visited[v]) >= k =>
                    visited[v][k] \notin frames'[k].unread
    <3>0. Under(visited[v], k)' => \E p : p = visited[v] /\ Under(p, k)'
      BY <1>8
    <3>1. Under(visited[v], k)
      BY <1>7, <2>1, <3>0
    <3>2. /\ frames[k].pc \notin {"open", "callback"}
          /\ frames[k].pc = "read" /\ Len(visited[v]) >= k => visited[v][k] \notin frames[k].unread
      BY <1>1, <1>8, <3>1 DEF DirInv2, Visits
    <3> QED BY <1>6, <3>2
  <2> QED BY <1>5, <1>8, <2>1 DEF DirInv2, Visits
<1>10. Complete'
  <2>1. CASE top.ret = 1
    <3>1. top'.ret = 1
      BY <1>1, <1>5, <2>1 DEF ReturnTo, Frame
    <3> QED BY <1>1, <3>1 DEF Complete
  <2>2. CASE top.ret = 0
    <3>1. \A k \in 1 .. L - 1 : frames'[k] = frames[k]
      <4>1. frames'[L - 1] = frames[L - 1]
        BY <1>5, <2>2 DEF ReturnTo
      <4>2. \A k \in 1 .. L - 1 : k = L - 1 \/ k \in 1 .. L - 2
        BY <1>1
      <4> QED BY <1>5, <4>1, <4>2
    <3>2. ASSUME fails = 0, NEW p \in Common
          PROVE  Seen(p)' \/ \E k \in 1 .. L - 1 : Ahead(p, k)'
      <4>1. Seen(p) \/ \E k \in 1 .. L : Ahead(p, k)
        BY <1>1, <2>2, <3>2 DEF DirInv2, Complete
      <4>2. Seen(p) => Seen(p)'
        BY <1>8 DEF Seen
      <4>3. ASSUME NEW k \in 1 .. L, Ahead(p, k) PROVE k \in 1 .. L - 1
        BY <1>1, <4>3 DEF Ahead
      <4>4. ASSUME NEW k \in 1 .. L - 1, Ahead(p, k) PROVE Ahead(p, k)'
        <5>1. Under(p, k)' <=> Under(p, k)
          BY <1>7
        <5> QED BY <3>1, <4>4, <5>1 DEF Ahead
      <4> QED BY <4>1, <4>2, <4>3, <4>4
    <3> QED BY <1>1, <1>5, <1>8, <3>2 DEF Complete
  <2> QED BY <1>1, <2>1, <2>2 DEF Frame
<1> QED BY <1>9, <1>10 DEF DirInv2

\* Every step of the merge keeps what was visited and what is ahead.
LEMMA StepInv2 == DirInv1 /\ DirInv2 /\ Step => DirInv2'
<1> SUFFICES ASSUME DirInv1, DirInv2, Step PROVE DirInv2'
  OBVIOUS
<1>0. /\ top \in Frame /\ fails \in 0 .. MaxFails /\ Visits /\ Complete
      /\ Len(frames) \in DOMAIN frames /\ frames[Len(frames)] = top /\ frames \in Seq(Frame)
      /\ DOMAIN frames = 1 .. Len(frames)
  BY TopIsFrame DEF DirInv1, DirInv2, Typed
<1>a. ASSUME UNCHANGED visited, NEW p, Seen(p) PROVE Seen(p)'
  BY <1>a DEF Seen
<1>1. CASE OpenDir
  BY <1>1, SameFramesInv2 DEF OpenDir
<1>2. CASE OpenDirFails
  <2> DEFINE f == [top EXCEPT !.pc = "exit"]
  <2>1. f \in Frame /\ f.rel = top.rel /\ f.ret = top.ret /\ f.pc = "exit"
    BY <1>0 DEF Frame
  <2>2. /\ result = -1 /\ UNCHANGED <<index, handles, visited, scanned, lost, result>> /\ SetTop(f)
        /\ OpenHere # Dirs
    BY <1>2 DEF OpenDirFails, At
  <2>3. fails' = 0 => fails = 0 /\ top.rel \notin tree[Cardinality(OpenHere) + 1]
    BY <1>0, <1>2, DirMergeAssumption DEF OpenDirFails
  <2>4. fails' = 0 => \A p \in Common : ~Ahead(p, Len(frames))
    <3>1. ASSUME NEW p \in Common, Ahead(p, Len(frames)) PROVE top.rel \in Common
      BY <3>1, CommonAbove DEF Ahead
    <3>2. Cardinality(OpenHere) + 1 \in Dirs
      BY <2>2, NextStream DEF DirInv1, Typed
    <3> QED BY <2>3, <3>1, <3>2 DEF Common
  <2> HIDE DEF f
  <2>5. Visits'
    BY <1>0, <2>1, <2>2, TopStepVisits
  <2>6. Complete'
    BY <1>0, <1>a, <2>1, <2>2, <2>3, <2>4, TopStepComplete
  <2> QED BY <2>5, <2>6 DEF DirInv2
<1>3. CASE AllOpen
  <2> DEFINE f == [top EXCEPT !.pc = "callback"]
  <2>1. f \in Frame /\ f.rel = top.rel /\ f.ret = top.ret /\ f.pc = "callback"
    BY <1>0 DEF Frame
  <2>2. /\ result = -1 /\ UNCHANGED <<index, handles, visited, scanned, fails, lost, result>> /\ SetTop(f)
        /\ top.pc = "open"
    BY <1>3 DEF AllOpen, At
  <2> HIDE DEF f
  <2>3. Visits'
    BY <1>0, <2>1, <2>2, TopStepVisits
  <2>4. Complete'
    BY <1>0, <1>a, <2>1, <2>2, TopStepComplete
  <2> QED BY <2>3, <2>4 DEF DirInv2
<1>4. CASE Stop
  <2> DEFINE f == [top EXCEPT !.pc = "exit", !.ret = 1]
  <2>1. f \in Frame /\ f.rel = top.rel /\ f.ret = 1 /\ f.pc = "exit"
    BY <1>0 DEF Frame
  <2>2. /\ result = -1 /\ UNCHANGED <<index, handles, visited, scanned, fails, lost, result>> /\ SetTop(f)
    BY <1>4 DEF Stop, At
  <2> HIDE DEF f
  <2>3. Visits'
    BY <1>0, <2>1, <2>2, TopStepVisits
  <2>4. Complete'
    BY <1>0, <1>a, <2>1, <2>2, TopStepComplete
  <2> QED BY <2>3, <2>4 DEF DirInv2
<1>5. CASE Visit \/ PostingOpenFails
  BY <1>0, <1>5, VisitInv2, DirMergeAssumption DEF Visit, PostingOpenFails
<1>6. ASSUME NEW name \in Names, Skip(name) PROVE DirInv2'
  <2> DEFINE f == [top EXCEPT !.unread = top.unread \ {name}]
  <2>1. f \in Frame /\ f.rel = top.rel /\ f.unread = top.unread \ {name} /\ f.ret = top.ret
        /\ f.pc = top.pc
    BY <1>0 DEF Frame
  <2>2. /\ result = -1 /\ UNCHANGED <<index, handles, visited, scanned, fails, lost, result>> /\ SetTop(f)
        /\ top.pc = "read" /\ ~AllHave(name)
    BY <1>6 DEF Skip, At
  <2>3. ASSUME NEW p \in Common, Ahead(p, Len(frames))
        PROVE  Len(p) >= Len(frames) /\ p[Len(frames)] \in f.unread
    <3>1. Under(p, Len(frames)) /\ Len(p) >= Len(frames) /\ p[Len(frames)] \in top.unread
      BY <1>0, <2>2, <2>3 DEF Ahead
    <3>2. \A i \in Dirs : p[Len(frames)] \in Subdirs(i, top.rel)
      BY <3>1, CommonAbove
    <3>3. 2 .. N \subseteq Dirs
      BY DirMergeAssumption DEF Dirs
    <3>4. p[Len(frames)] # name
      BY <2>2, <3>2, <3>3 DEF AllHave
    <3> QED BY <2>1, <3>1, <3>4
  <2> HIDE DEF f
  <2>4. Visits'
    BY <1>0, <2>1, <2>2, TopStepVisits
  <2>5. Complete'
    BY <1>0, <1>a, <2>1, <2>2, <2>3, TopStepComplete
  <2> QED BY <2>4, <2>5 DEF DirInv2
<1>7. ASSUME NEW name \in Names, Descend(name) PROVE DirInv2'
  BY <1>7, DescendInv2
<1>8. CASE AllRead
  <2> DEFINE f == [top EXCEPT !.pc = "exit"]
  <2>1. f \in Frame /\ f.rel = top.rel /\ f.ret = top.ret /\ f.pc = "exit"
    BY <1>0 DEF Frame
  <2>2. /\ result = -1 /\ UNCHANGED <<index, handles, visited, scanned, fails, lost, result>> /\ SetTop(f)
        /\ top.pc = "read" /\ top.unread = {}
    BY <1>8 DEF AllRead, At
  <2>3. \A p : ~Ahead(p, Len(frames))
    BY <1>0, <2>2 DEF Ahead
  <2> HIDE DEF f
  <2>4. Visits'
    BY <1>0, <2>1, <2>2, TopStepVisits
  <2>5. Complete'
    BY <1>0, <1>a, <2>1, <2>2, <2>3, TopStepComplete
  <2> QED BY <2>4, <2>5 DEF DirInv2
<1>9. CASE ReturnUp
  BY <1>9, ReturnUpInv2
<1>10. CASE ReturnOut
  <2>1. /\ UNCHANGED <<index, visited, frames, fails>> /\ result = -1 /\ result' = top.ret
        /\ top.pc = "exit" /\ Len(frames) = 1
    BY <1>10 DEF ReturnOut, At
  <2>2. DOMAIN frames = {1}
    BY <1>0, <2>1
  <2> QED BY <2>1, <2>2, SameFramesInv2
<1> QED BY <1>1, <1>2, <1>3, <1>4, <1>5, <1>6, <1>7, <1>8, <1>9, <1>10 DEF Step, Inside

---------------------------------------------------------------------------
(* The inductive invariant *)

DirInv == DirInv1 /\ DirInv2

\* A merge that has not begun, or nothing to merge.
Fresh ==
  /\ tree \in [Dirs -> Trees] /\ posted \in SUBSET Paths
  /\ frames = <<Call(<<>>)>> /\ handles = {} /\ visited = <<>>
  /\ scanned \in Nat /\ fails \in 0 .. MaxFails /\ lost \subseteq Paths
  /\ result = -1 \/ (result = 0 /\ Common = {})

\* What a merge starts with satisfies the invariant.
LEMMA FreshInv == Fresh => DirInv
<1> SUFFICES ASSUME Fresh PROVE DirInv
  OBVIOUS
<1> USE DEF Fresh
<1>1. /\ Call(<<>>) \in Frame /\ Call(<<>>).rel = <<>> /\ Call(<<>>).pc = "open"
      /\ Call(<<>>).unread = {} /\ Call(<<>>).ret = 0
  BY DirMergeAssumption DEF Call, Frame
<1>2. /\ frames \in Seq(Frame) /\ frames # <<>> /\ Len(frames) = 1 /\ DOMAIN frames = {1}
      /\ frames[1] = Call(<<>>)
  BY <1>1
<1>3. Typed BY <1>2 DEF Typed
<1>4. Chain BY <1>1, <1>2 DEF Chain
<1>5. Streams BY <1>1, <1>2 DEF Streams
<1>6. Visits BY DEF Visits
<1>7. ASSUME NEW p \in Common PROVE Ahead(p, 1)
  <2>1. Len(p) \in Nat
    BY DirMergeAssumption DEF Common
  <2> QED BY <1>1, <1>2, <2>1 DEF Ahead, Under
<1>8. Complete BY <1>2, <1>7 DEF Complete
<1> QED BY <1>3, <1>4, <1>5, <1>6, <1>8 DEF DirInv, DirInv1, DirInv2

\* The merge keeps the invariant.
LEMMA DirInvStep == DirInv /\ Step => DirInv'
  BY StepInv1, StepInv2 DEF DirInv

\* What leaves the merge alone keeps the invariant.
LEMMA DirInvStutter == DirInv /\ UNCHANGED vars => DirInv'
<1> SUFFICES ASSUME DirInv, UNCHANGED vars PROVE DirInv'
  OBVIOUS
<1>1. UNCHANGED <<index, frames, handles, visited, scanned, fails, lost, result>>
  BY DEF vars
<1>2. Typed' BY <1>1 DEF DirInv, DirInv1, Typed, index
<1>3. Chain' BY <1>1 DEF DirInv, DirInv1, Chain, Under, Subdirs, index
<1>4. Streams' BY <1>1 DEF DirInv, DirInv1, Streams, index
<1>5. DirInv2' BY <1>1, SameFramesInv2 DEF DirInv
<1> QED BY <1>2, <1>3, <1>4, <1>5 DEF DirInv, DirInv1

\* The directories in common are visited, each once, only these, and all of them.
LEMMA InvVisitsCommon == DirInv => VisitsCommon
<1> SUFFICES ASSUME DirInv PROVE VisitsCommon
  OBVIOUS
<1>1. visited \in Seq(Paths)
  BY DEF DirInv, DirInv1, Typed
<1>2. ToSet(visited) = {visited[v] : v \in DOMAIN visited}
  BY DEF ToSet
<1>3. ToSet(visited) \subseteq Common
  BY <1>2 DEF DirInv, DirInv2, Visits
<1>4. \A j, k \in DOMAIN visited : visited[j] = visited[k] => j = k
  BY DEF DirInv, DirInv2, Visits
<1>5. ASSUME result = 0, fails = 0, NEW p \in Common PROVE p \in ToSet(visited)
  BY <1>2, <1>5 DEF DirInv, DirInv2, Complete, Seen
<1> QED BY <1>3, <1>4, <1>5 DEF VisitsCommon

\* The open streams are of calls on the stack, and of none after the merge.
LEMMA InvHandlesOfFrames == DirInv => HandlesOfFrames
<1> SUFFICES ASSUME DirInv PROVE HandlesOfFrames
  OBVIOUS
<1>1. ASSUME NEW h \in handles PROVE \E k \in DOMAIN frames : frames[k].rel = h[2]
  <2>1. PICK i \in Dirs, p \in Paths : h = <<i, p>>
    BY DEF DirInv, DirInv1, Typed
  <2> QED BY <2>1 DEF DirInv, DirInv1, Streams
<1> QED BY <1>1 DEF HandlesOfFrames, DirInv, DirInv1, Streams

\* One merge: dir_merge() visits what the directories have in common.
THEOREM MergeVisitsCommon == Spec => []VisitsCommon
<1>1. Init => DirInv
  <2>1. Init => Fresh
    BY DirMergeAssumption DEF Init, Fresh
  <2> QED BY <2>1, FreshInv
<1>2. DirInv /\ [Next]_vars => DirInv'
  BY DirInvStep, DirInvStutter DEF Next, Finished
<1> QED BY <1>1, <1>2, InvVisitsCommon, PTL DEF Spec


---------------------------------------------------------------------------
(* The driver: who holds what, by where the program is *)

Holding == {"no_db", "collection", "parse", "update", "node", "merge_search",
            "node_exit", "node_exit_break", "sort", "exit", "returned"}
Searching == {"node", "merge_search", "node_exit", "node_exit_break", "sort"}

\* The query belongs to the front end, from options to the end.
QueryHeld ==
  /\ pc = "start" => query # "set"
  /\ pc \notin {"start", "front_exit", "done"} => query = "set"
  /\ pc # "done" => (query = "set" <=> mem["query"] = "live")
  /\ pc = "done" => mem["query"] # "live"
  /\ "query" \in double => pc = "done"

\* The rank is there from rank_init() to rank_free(), but for a missing database.
RankHeld ==
  /\ n_items > 0 <=> mem["keep"] = "live"
  /\ pc \in {"start", "options", "rank_init"} => \A x \in RankRes : mem[x] = "none"
  /\ ret_code = "DB_MISSING" => pc \in {"exit", "returned", "front_exit", "done"}
  /\ pc \in Holding /\ ret_code # "DB_MISSING" =>
       /\ mem["heap.array"] = "live"
       /\ mem["db_formula"] \in {"none", "live"} /\ mem["db_textree"] \in {"none", "live"}
  /\ pc \notin Holding \/ ret_code = "DB_MISSING" => \A x \in RankRes : mem[x] # "live"

\* What cp_search() allocates for itself.
SearchHeld ==
  /\ mem["parser_root"] = "live" => pc \in Searching \cup {"update", "exit"}
  /\ \A x \in SearchRes : mem[x] = "live" <=> pc \in Searching
  /\ mem["li_subpath"] = "live" => pc = "node_exit_break"
  /\ mem["li_query_path"] = "live" => pc \in {"merge_search", "node_exit", "node_exit_break"}

\* The merge nodes of the query, and how many are done.
NodeCount ==
  /\ pc \in {"start", "options", "rank_init", "no_db", "collection", "parse", "update"}
       => n_nodes = 0
  /\ pc \in {"node", "merge_search", "node_exit", "node_exit_break"} => node < n_nodes

SearchInv ==
  SearchTypeOK /\ QueryHeld /\ RankHeld /\ SearchHeld /\ NodeCount /\ ReleasedOnce

\* At the start nothing is held.
LEMMA SearchInvInit == SearchInit => SearchInv
<1> SUFFICES ASSUME SearchInit PROVE SearchInv
  OBVIOUS
<1> USE SearchAssumption DEF SearchInit
<1>1. SearchTypeOK
  <2>1. en_merges_nd_se \in BOOLEAN /\ ret_err \in BOOLEAN
    OBVIOUS
  <2> QED BY <2>1 DEF SearchTypeOK, Res
<1>2. QueryHeld BY DEF QueryHeld, Res
<1>3. RankHeld BY DEF RankHeld, Holding, Res, RankRes
<1>4. SearchHeld BY DEF SearchHeld, Searching, Res, SearchRes
<1> QED BY <1>1, <1>2, <1>3, <1>4 DEF SearchInv, NodeCount, ReleasedOnce

Status == {"none", "live", "freed"}

\* What is allocated keeps the types of the books.
LEMMA Allocated ==
  ASSUME mem \in [Res -> Status], double \subseteq Res, NEW xs, Alloc(xs), UNCHANGED double
  PROVE  mem' \in [Res -> Status] /\ double' \subseteq Res
  BY DEF Alloc, Status

\* What is released keeps the types of the books.
LEMMA Released ==
  ASSUME mem \in [Res -> Status], double \subseteq Res, NEW xs \in SUBSET Res, Release(xs)
  PROVE  mem' \in [Res -> Status] /\ double' \subseteq Res
  BY DEF Release, Status

\* Every step of the driver keeps the books.
LEMMA SearchInvStep == SearchInv /\ [SearchNext]_searchVars => SearchInv'
<1> SUFFICES ASSUME SearchInv, [SearchNext]_searchVars PROVE SearchInv'
  OBVIOUS
<1> USE SearchAssumption
<1>1. CASE GetQuery
  <2>1. mem' \in [Res -> Status] /\ double' \subseteq Res
    BY <1>1, Allocated DEF GetQuery, SearchInv, SearchTypeOK, Status
  <2> USE <1>1 DEF SearchInv, GetQuery, Alloc, Release, Fail, front
  <2>2. SearchTypeOK' /\ NodeCount' BY <2>1 DEF SearchTypeOK, NodeCount, Status
  <2>3. QueryHeld' BY DEF SearchTypeOK, QueryHeld, Res, RankRes, SearchRes
  <2>4. RankHeld' BY DEF SearchTypeOK, RankHeld, Holding, RankRes, SearchRes, Res
  <2>5. SearchHeld' BY DEF SearchTypeOK, SearchHeld, Searching, RankRes, SearchRes, Res
  <2>6. ReleasedOnce'
    BY DEF SearchTypeOK, QueryHeld, RankHeld, SearchHeld, Holding, Searching, ReleasedOnce,
           RankRes, SearchRes, Res
  <2> QED BY <2>2, <2>3, <2>4, <2>5, <2>6
<1>2. CASE NoQuery
  <2>1. mem' \in [Res -> Status] /\ double' \subseteq Res
    BY <1>2 DEF NoQuery, SearchInv, SearchTypeOK, Status
  <2> USE <1>2 DEF SearchInv, NoQuery, Alloc, Release, Fail, front
  <2>2. SearchTypeOK' /\ NodeCount' BY <2>1 DEF SearchTypeOK, NodeCount, Status
  <2>3. QueryHeld' BY DEF SearchTypeOK, QueryHeld, Res, RankRes, SearchRes
  <2>4. RankHeld' BY DEF SearchTypeOK, RankHeld, Holding, RankRes, SearchRes, Res
  <2>5. SearchHeld' BY DEF SearchTypeOK, SearchHeld, Searching, RankRes, SearchRes, Res
  <2>6. ReleasedOnce'
    BY DEF SearchTypeOK, QueryHeld, RankHeld, SearchHeld, Holding, Searching, ReleasedOnce,
           RankRes, SearchRes, Res
  <2> QED BY <2>2, <2>3, <2>4, <2>5, <2>6
<1>3. CASE NoQueryString
  BY <1>3 DEF NoQueryString, Alloc, Release, Fail, front, NodeCount,
             SearchInv, SearchTypeOK, QueryHeld, RankHeld, SearchHeld, ReleasedOnce,
             Holding, Searching, RankRes, SearchRes, Res
<1>4. CASE BadOption
  BY <1>4 DEF BadOption, Alloc, Release, Fail, front, NodeCount,
             SearchInv, SearchTypeOK, QueryHeld, RankHeld, SearchHeld, ReleasedOnce,
             Holding, Searching, RankRes, SearchRes, Res
<1>5. CASE CallSearch
  BY <1>5 DEF CallSearch, Alloc, Release, Fail, front, NodeCount,
             SearchInv, SearchTypeOK, QueryHeld, RankHeld, SearchHeld, ReleasedOnce,
             Holding, Searching, RankRes, SearchRes, Res
<1>6. ASSUME NEW dbs \in SUBSET {"db_formula", "db_textree"}, RankInit(dbs) PROVE SearchInv'
  <2>1. mem' \in [Res -> Status] /\ double' \subseteq Res
    BY <1>6, Allocated DEF RankInit, SearchInv, SearchTypeOK, Status
  <2> USE <1>6 DEF SearchInv, RankInit, Alloc, Release, Fail, front
  <2>2. SearchTypeOK' /\ NodeCount' BY <2>1 DEF SearchTypeOK, NodeCount, Status
  <2>3. QueryHeld' BY DEF SearchTypeOK, QueryHeld, Res, RankRes, SearchRes
  <2>4. RankHeld' BY DEF SearchTypeOK, RankHeld, Holding, RankRes, SearchRes, Res
  <2>5. SearchHeld' BY DEF SearchTypeOK, SearchHeld, Searching, RankRes, SearchRes, Res
  <2>6. ReleasedOnce'
    BY DEF SearchTypeOK, QueryHeld, RankHeld, SearchHeld, Holding, Searching, ReleasedOnce,
           RankRes, SearchRes, Res
  <2> QED BY <2>2, <2>3, <2>4, <2>5, <2>6
<1>7. CASE NoDB
  <2>1. mem' \in [Res -> Status] /\ double' \subseteq Res
    <3>1. RankFreed \in SUBSET Res BY DEF RankFreed, Res, RankRes
    <3> QED BY <1>7, <3>1, Released DEF NoDB, SearchInv, SearchTypeOK, Status
  <2> USE <1>7 DEF SearchInv, NoDB, RankFreed, Alloc, Release, Fail, front
  <2>2. SearchTypeOK' /\ NodeCount' BY <2>1 DEF SearchTypeOK, NodeCount, Status
  <2>3. QueryHeld' BY DEF SearchTypeOK, QueryHeld, Res, RankRes, SearchRes
  <2>4. RankHeld' BY DEF SearchTypeOK, RankHeld, Holding, RankRes, SearchRes, Res
  <2>5. SearchHeld' BY DEF SearchTypeOK, SearchHeld, Searching, RankRes, SearchRes, Res
  <2>6. ReleasedOnce'
    BY DEF SearchTypeOK, QueryHeld, RankHeld, SearchHeld, Holding, Searching, ReleasedOnce,
           RankRes, SearchRes, Res
  <2> QED BY <2>2, <2>3, <2>4, <2>5, <2>6
<1>8. CASE NoCollection("COL_UNSET") \/ NoCollection("COL_MISSING")
  BY <1>8 DEF NoCollection, Alloc, Release, Fail, front, NodeCount,
             SearchInv, SearchTypeOK, QueryHeld, RankHeld, SearchHeld, ReleasedOnce,
             Holding, Searching, RankRes, SearchRes, Res
<1>9. CASE CollectionFound
  BY <1>9 DEF CollectionFound, Alloc, Release, Fail, front, NodeCount,
             SearchInv, SearchTypeOK, QueryHeld, RankHeld, SearchHeld, ReleasedOnce,
             Holding, Searching, RankRes, SearchRes, Res
<1>10. CASE ParserFails
  BY <1>10 DEF ParserFails, Alloc, Release, Fail, front, NodeCount,
             SearchInv, SearchTypeOK, QueryHeld, RankHeld, SearchHeld, ReleasedOnce,
             Holding, Searching, RankRes, SearchRes, Res
<1>11. CASE Parsed
  BY <1>11 DEF Parsed, Alloc, Release, Fail, front, NodeCount,
             SearchInv, SearchTypeOK, QueryHeld, RankHeld, SearchHeld, ReleasedOnce,
             Holding, Searching, RankRes, SearchRes, Res
<1>12. CASE TooManyLeaves
  BY <1>12 DEF TooManyLeaves, Alloc, Release, Fail, front, NodeCount,
             SearchInv, SearchTypeOK, QueryHeld, RankHeld, SearchHeld, ReleasedOnce,
             Holding, Searching, RankRes, SearchRes, Res
<1>13. CASE Updated
  <2>1. mem' \in [Res -> Status] /\ double' \subseteq Res
    BY <1>13, Allocated DEF Updated, SearchInv, SearchTypeOK, Status
  <2> USE <1>13 DEF SearchInv, Updated, Alloc, Release, Fail, front
  <2>2. SearchTypeOK' /\ NodeCount' BY <2>1 DEF SearchTypeOK, NodeCount, Status
  <2>3. QueryHeld' BY DEF SearchTypeOK, QueryHeld, Res, RankRes, SearchRes
  <2>4. RankHeld' BY DEF SearchTypeOK, RankHeld, Holding, RankRes, SearchRes, Res
  <2>5. SearchHeld' BY DEF SearchTypeOK, SearchHeld, Searching, RankRes, SearchRes, Res
  <2>6. ReleasedOnce'
    BY DEF SearchTypeOK, QueryHeld, RankHeld, SearchHeld, Holding, Searching, ReleasedOnce,
           RankRes, SearchRes, Res
  <2> QED BY <2>2, <2>3, <2>4, <2>5, <2>6
<1>14. ASSUME NEW some \in BOOLEAN, SubpathError(some) PROVE SearchInv'
  BY <1>14 DEF SubpathError, Alloc, Release, Fail, front, NodeCount,
             SearchInv, SearchTypeOK, QueryHeld, RankHeld, SearchHeld, ReleasedOnce,
             Holding, Searching, RankRes, SearchRes, Res
<1>15. CASE Sort
  <2>1. mem' \in [Res -> Status] /\ double' \subseteq Res
    <3>1. SearchRes \in SUBSET Res BY DEF Res, SearchRes
    <3> QED BY <1>15, <3>1, Released DEF Sort, SearchInv, SearchTypeOK, Status
  <2> USE <1>15 DEF SearchInv, Sort, Alloc, Release, Fail, front
  <2>2. SearchTypeOK' /\ NodeCount' BY <2>1 DEF SearchTypeOK, NodeCount, Status
  <2>3. QueryHeld' BY DEF SearchTypeOK, QueryHeld, Res, RankRes, SearchRes
  <2>4. RankHeld' BY DEF SearchTypeOK, RankHeld, Holding, RankRes, SearchRes, Res
  <2>5. SearchHeld' BY DEF SearchTypeOK, SearchHeld, Searching, RankRes, SearchRes, Res
  <2>6. ReleasedOnce'
    BY DEF SearchTypeOK, QueryHeld, RankHeld, SearchHeld, Holding, Searching, ReleasedOnce,
           RankRes, SearchRes, Res
  <2> QED BY <2>2, <2>3, <2>4, <2>5, <2>6
<1>16. CASE Exit
  BY <1>16 DEF Exit, Alloc, Release, Fail, front, NodeCount,
             SearchInv, SearchTypeOK, QueryHeld, RankHeld, SearchHeld, ReleasedOnce,
             Holding, Searching, RankRes, SearchRes, Res
<1>17. CASE RankFree
  <2>1. mem' \in [Res -> Status] /\ double' \subseteq Res
    <3>1. RankFreed \in SUBSET Res BY DEF RankFreed, Res, RankRes
    <3> QED BY <1>17, <3>1, Released DEF RankFree, SearchInv, SearchTypeOK, Status
  <2> USE <1>17 DEF SearchInv, RankFree, RankFreed, Alloc, Release, Fail, front
  <2>2. SearchTypeOK' /\ NodeCount' BY <2>1 DEF SearchTypeOK, NodeCount, Status
  <2>3. QueryHeld' BY DEF SearchTypeOK, QueryHeld, Res, RankRes, SearchRes
  <2>4. RankHeld' BY DEF SearchTypeOK, RankHeld, Holding, RankRes, SearchRes, Res
  <2>5. SearchHeld' BY DEF SearchTypeOK, SearchHeld, Searching, RankRes, SearchRes, Res
  <2>6. ReleasedOnce'
    BY DEF SearchTypeOK, QueryHeld, RankHeld, SearchHeld, Holding, Searching, ReleasedOnce,
           RankRes, SearchRes, Res
  <2> QED BY <2>2, <2>3, <2>4, <2>5, <2>6
<1>18. CASE QueryFree
  <2>1. mem' \in [Res -> Status] /\ double' \subseteq Res
    <3>1. {"query"} \in SUBSET Res BY DEF Res
    <3> QED BY <1>18, <3>1, Released DEF QueryFree, SearchInv, SearchTypeOK, Status
  <2> USE <1>18 DEF SearchInv, QueryFree, Alloc, Release, Fail, front
  <2>2. SearchTypeOK' /\ NodeCount' BY <2>1 DEF SearchTypeOK, NodeCount, Status
  <2>3. QueryHeld' BY DEF SearchTypeOK, QueryHeld, Res, RankRes, SearchRes
  <2>4. RankHeld' BY DEF SearchTypeOK, RankHeld, Holding, RankRes, SearchRes, Res
  <2>5. SearchHeld' BY DEF SearchTypeOK, SearchHeld, Searching, RankRes, SearchRes, Res
  <2>6. ReleasedOnce'
    BY DEF SearchTypeOK, QueryHeld, RankHeld, SearchHeld, Holding, Searching, ReleasedOnce,
           RankRes, SearchRes, Res
  <2> QED BY <2>2, <2>3, <2>4, <2>5, <2>6
<1>19. CASE NodeExit
  <2>1. mem' \in [Res -> Status] /\ double' \subseteq Res
    <3>1. NodeFreed \in SUBSET Res BY DEF NodeFreed, Res
    <3> QED BY <1>19, <3>1, Released DEF NodeExit, SearchInv, SearchTypeOK, Status
  <2> USE <1>19 DEF SearchInv, NodeExit, NodeFreed, Alloc, Release, Fail, front
  <2>2. SearchTypeOK' /\ NodeCount' BY <2>1 DEF SearchTypeOK, NodeCount, Status
  <2>3. QueryHeld' BY DEF SearchTypeOK, QueryHeld, Res, RankRes, SearchRes
  <2>4. RankHeld' BY DEF SearchTypeOK, RankHeld, Holding, RankRes, SearchRes, Res
  <2>5. SearchHeld' BY DEF SearchTypeOK, SearchHeld, Searching, RankRes, SearchRes, Res
  <2>6. ReleasedOnce'
    BY DEF SearchTypeOK, QueryHeld, RankHeld, SearchHeld, Holding, Searching, ReleasedOnce,
           RankRes, SearchRes, Res
  <2> QED BY <2>2, <2>3, <2>4, <2>5, <2>6
<1>20. CASE Construct
  BY <1>20 DEF Construct, Alloc, Release, Fail, front, NodeCount,
             SearchInv, SearchTypeOK, QueryHeld, RankHeld, SearchHeld, ReleasedOnce,
             Holding, Searching, RankRes, SearchRes, Res
<1>21. ASSUME NEW found \in 0 .. MaxFound, Offer(found) PROVE SearchInv'
  BY <1>21 DEF Offer, Alloc, Release, Fail, front, NodeCount,
             SearchInv, SearchTypeOK, QueryHeld, RankHeld, SearchHeld, ReleasedOnce,
             Holding, Searching, RankRes, SearchRes, Res
<1>22. CASE MergeDone
  BY <1>22 DEF MergeDone, GoOn, Alloc, Release, Fail, front, NodeCount,
             SearchInv, SearchTypeOK, QueryHeld, RankHeld, SearchHeld, ReleasedOnce,
             Holding, Searching, RankRes, SearchRes, Res
<1>23. CASE UNCHANGED searchVars
  BY <1>23 DEF searchVars, Alloc, Release, Fail, front, NodeCount,
             SearchInv, SearchTypeOK, QueryHeld, RankHeld, SearchHeld, ReleasedOnce,
             Holding, Searching, RankRes, SearchRes, Res
<1> QED
  BY <1>1, <1>2, <1>3, <1>4, <1>5, <1>6, <1>7, <1>8, <1>9, <1>10, <1>11, <1>12, <1>13, <1>14,
     <1>15, <1>16, <1>17, <1>18, <1>19, <1>20, <1>21, <1>22, <1>23
  DEF SearchNext, SearchStep, Driver, SearchFinished

\* The inductive invariant of the driver.
THEOREM SearchInvariant == SearchInit /\ [][SearchNext]_searchVars => []SearchInv
  BY SearchInvInit, SearchInvStep, PTL

---------------------------------------------------------------------------
(* The search with its merges *)

PostedOK == posted \subseteq Paths

\* A merge node has posting files where the index has directories.
LEMMA PostedInPaths == NodeSpec => []PostedOK
<1>1. NodeInit => PostedOK
  BY DEF NodeInit, PostedOK
<1>2. PostedOK /\ [NodeNext]_nodeVars => PostedOK'
  <2> SUFFICES ASSUME posted \subseteq Paths, [NodeNext]_nodeVars PROVE posted' \subseteq Paths
    BY DEF PostedOK
  <2>1. CASE StartNode
    BY <2>1, DirMergeAssumption DEF StartNode, BeginMerge, BeginIndex
  <2>2. CASE LeaveNode
    BY <2>2 DEF LeaveNode
  <2>3. CASE UNCHANGED index
    BY <2>3 DEF index
  <2>4. InNode \/ VisitOffers \/ VisitFails \/ EndNode => UNCHANGED index
    BY DEF InNode, Inside, VisitOffers, VisitFails, EndNode, OpenDir, OpenDirFails, AllOpen, Stop,
           Skip, Descend, AllRead, ReturnUp, Visit, PostingOpenFails, CallbackDone, ReturnOut
  <2>5. OutsideNode \/ UNCHANGED nodeVars => UNCHANGED index
    BY DEF OutsideNode, nodeVars, dirVars
  <2> QED BY <2>1, <2>2, <2>3, <2>4, <2>5 DEF NodeNext, NodeStep, NodeFinished
<1> QED BY <1>1, <1>2, PTL DEF NodeSpec

\* The documents with a score are some of those in all posting files.
LEMMA FoundInBounds ==
  \A p \in Paths : Cardinality(IdsInAll(p) \cap scored[p]) \in 0 .. MaxFound
<1> SUFFICES ASSUME NEW p \in Paths PROVE Cardinality(IdsInAll(p) \cap scored[p]) \in 0 .. MaxFound
  OBVIOUS
<1>1. 1 \in 1 .. N
  BY DirMergeAssumption
<1>2. IsFiniteSet(IdsAt[p][1])
  BY <1>1, DirMergeAssumption
<1>3. IsFiniteSet(IdsInAll(p))
  BY <1>2, FS_Subset DEF IdsInAll
<1> DEFINE S == IdsInAll(p)
           T == S \cap scored[p]
<1>4. IsFiniteSet(S) /\ T \subseteq S
  BY <1>3
<1>5. Cardinality(S) \in 0 .. MaxFound
  BY NodeSearchAssumption
<1> HIDE DEF S, T
<1>6. IsFiniteSet(T) /\ Cardinality(T) <= Cardinality(S) /\ Cardinality(T) \in Nat
  BY <1>4, FS_Subset, FS_CardinalityType
<1> QED BY <1>5, <1>6, SearchAssumption DEF S, T

\* A step of the search with its merges is a step of the driver, in which a merge
\* node just finds documents, or leaves the driver where it is.
LEMMA NodeStepImplements ==
  PostedOK /\ [NodeNext]_nodeVars => [SearchNext]_searchVars
<1> SUFFICES ASSUME posted \subseteq Paths, [NodeNext]_nodeVars PROVE [SearchNext]_searchVars
  BY DEF PostedOK
<1> USE DEF SearchNext, SearchStep
<1>1. CASE OutsideNode BY <1>1 DEF OutsideNode
<1>2. CASE StartNode BY <1>2 DEF StartNode
<1>3. CASE InNode BY <1>3 DEF InNode
<1>4. CASE VisitOffers
  <2>1. Found(top.rel) \in 0 .. MaxFound
    BY FoundInBounds, SearchAssumption DEF Found, Merged
  <2> QED BY <1>4, <2>1 DEF VisitOffers
<1>8. CASE VisitFails BY <1>8 DEF VisitFails
<1>5. CASE EndNode BY <1>5 DEF EndNode
<1>6. CASE LeaveNode BY <1>6 DEF LeaveNode
<1>7. CASE UNCHANGED nodeVars BY <1>7 DEF nodeVars
<1> QED BY <1>1, <1>2, <1>3, <1>4, <1>5, <1>6, <1>7, <1>8 DEF NodeNext, NodeStep, NodeFinished

\* The search with its merges implements the driver alone, but for the fairness.
THEOREM NodeImplementsDriver == NodeSpec => SearchInit /\ [][SearchNext]_searchVars
<1>1. NodeInit => SearchInit
  BY DEF NodeInit
<1> QED BY <1>1, PostedInPaths, NodeStepImplements, PTL DEF NodeSpec

\* Whatever fails in the search, in its front ends or in a merge, nothing is
\* released twice, but for what the code does with a missing database.
THEOREM SearchReleasesOnce == NodeSpec => []ReleasedOnce
<1>1. SearchInv => ReleasedOnce
  BY DEF SearchInv
<1> QED BY <1>1, NodeImplementsDriver, SearchInvariant, PTL

\* Whatever fails, nothing that was allocated is left at the end.
THEOREM SearchLeavesNothing == NodeSpec => []NothingLeft
<1>1. SearchInv => NothingLeft
  BY DEF SearchInv, QueryHeld, RankHeld, SearchHeld, NothingLeft, Holding, Searching, Res,
         RankRes, SearchRes
<1> QED BY <1>1, NodeImplementsDriver, SearchInvariant, PTL

---------------------------------------------------------------------------
(* The merges of the search *)

\* A merge runs while the driver waits for it, from a stack of one call.
MergeInv == DirInv /\ (result = -1 <=> pc = "merge_search")

\* Before the first merge, and between two, there is nothing in common.
LEMMA NoTreesFresh ==
  ASSUME tree = NoTrees, posted = {}, frames = <<Call(<<>>)>>, visited = <<>>, result = 0,
         handles = {}, scanned \in Nat, fails \in 0 .. MaxFails, lost = {}
  PROVE  Fresh
<1>1. {} \in Trees
  BY DEF Trees
<1>2. tree \in [Dirs -> Trees]
  BY <1>1 DEF NoTrees
<1>3. 1 \in Dirs
  BY DirMergeAssumption DEF Dirs
<1>4. tree[1] = {}
  BY <1>3 DEF NoTrees
<1>5. Common = {}
  BY <1>3, <1>4 DEF Common
<1> QED BY <1>2, <1>5 DEF Fresh

\* Each merge node's merge keeps the invariant, and finds what it needs.
LEMMA MergeInvStep == MergeInv /\ [NodeNext]_nodeVars => MergeInv'
<1> SUFFICES ASSUME MergeInv, [NodeNext]_nodeVars PROVE MergeInv'
  OBVIOUS
<1>0. /\ scanned \in Nat /\ fails \in 0 .. MaxFails
      /\ result # -1 => handles = {}
      /\ top \in Frame
  BY TopIsFrame DEF MergeInv, DirInv, DirInv1, Typed, Streams
<1>1. CASE OutsideNode
  <2>1. DirInv'
    BY <1>1, DirInvStutter DEF OutsideNode, dirVars, vars, MergeInv
  <2>2. pc # "merge_search" /\ pc' # "merge_search"
    BY <1>1 DEF OutsideNode, Driver, GetQuery, NoQuery, NoQueryString, BadOption, CallSearch,
       RankInit, NoDB, NoCollection, CollectionFound, ParserFails, Parsed, TooManyLeaves, Updated,
       SubpathError, Sort, Exit, RankFree, QueryFree, Fail
  <2> QED BY <1>1, <2>1, <2>2 DEF MergeInv, OutsideNode, dirVars
<1>2. CASE StartNode
  <2>1. pc = "node" /\ pc' = "merge_search" /\ result' = -1
    BY <1>2 DEF StartNode, Construct, BeginMerge, BeginIndex
  <2>2. /\ tree' \in [Dirs -> Trees] /\ posted' \in Postings
        /\ frames' = <<Call(<<>>)>> /\ visited' = <<>> /\ scanned' = 0 /\ lost' = {}
        /\ UNCHANGED <<handles, fails>>
    BY <1>2 DEF StartNode, BeginMerge, BeginIndex
  <2>3. handles' = {} /\ posted' \in SUBSET Paths
    BY <1>0, <2>1, <2>2, DirMergeAssumption DEF MergeInv
  <2>4. Fresh'
    BY <1>0, <2>1, <2>2, <2>3 DEF Fresh
  <2>5. DirInv'
    BY <2>4, FreshInv, PTL
  <2> QED BY <2>1, <2>5 DEF MergeInv
<1>3. CASE InNode
  <2>1. Step /\ result = -1 /\ result' = result /\ pc' = pc
    BY <1>3 DEF InNode, Step, Inside, searchVars, OpenDir, OpenDirFails, AllOpen, Stop, Skip,
       Descend, AllRead, ReturnUp, At
  <2> QED BY <2>1, DirInvStep DEF MergeInv
<1>4. CASE VisitOffers
  <2>1. Step /\ result' = result /\ pc' = pc
    BY <1>4 DEF VisitOffers, Step, Visit, CallbackDone, Offer
  <2> QED BY <2>1, DirInvStep DEF MergeInv
<1>8. CASE VisitFails
  <2>1. Step /\ result' = result /\ pc' = pc
    BY <1>8 DEF VisitFails, Step, PostingOpenFails, CallbackDone, searchVars
  <2> QED BY <2>1, DirInvStep DEF MergeInv
<1>5. CASE EndNode
  <2>1. Step /\ result' \in {0, 1} /\ pc' # "merge_search"
    BY <1>0, <1>5 DEF EndNode, Step, ReturnOut, MergeDone, Frame
  <2> QED BY <2>1, DirInvStep DEF MergeInv
<1>6. CASE LeaveNode
  <2>1. pc # "merge_search" /\ pc' # "merge_search" /\ result' = 0
    BY <1>6 DEF LeaveNode, NodeExit
  <2>2. /\ tree' = NoTrees /\ posted' = {} /\ frames' = <<Call(<<>>)>> /\ visited' = <<>>
        /\ lost' = {} /\ UNCHANGED <<handles, scanned, fails>>
    BY <1>6 DEF LeaveNode
  <2>3. handles' = {}
    BY <1>0, <2>1, <2>2 DEF MergeInv
  <2>4. {} \in Trees /\ 1 \in Dirs
    BY DirMergeAssumption DEF Trees, Dirs
  <2>5. tree' \in [Dirs -> Trees] /\ tree'[1] = {}
    BY <2>2, <2>4 DEF NoTrees
  <2>6. Common' = {}
    BY <2>4, <2>5 DEF Common
  <2>7. Fresh'
    BY <1>0, <2>1, <2>2, <2>3, <2>5, <2>6 DEF Fresh
  <2>8. DirInv'
    BY <2>7, FreshInv, PTL
  <2> QED BY <2>1, <2>8 DEF MergeInv
<1>7. CASE UNCHANGED nodeVars
  BY <1>7, DirInvStutter DEF nodeVars, dirVars, searchVars, vars, MergeInv
<1> QED BY <1>1, <1>2, <1>3, <1>4, <1>5, <1>6, <1>7, <1>8 DEF NodeNext, NodeStep, NodeFinished

\* The invariant of the merges holds in the whole search.
THEOREM MergesInvariant == NodeSpec => []MergeInv
<1>1. NodeInit => MergeInv
  <2> SUFFICES ASSUME NodeInit PROVE MergeInv
    OBVIOUS
  <2>1. Fresh
    BY NoTreesFresh, DirMergeAssumption DEF NodeInit
  <2>2. result = 0 /\ pc = "start"
    BY DEF NodeInit, SearchInit
  <2> QED BY <2>1, <2>2, FreshInv DEF MergeInv
<1> QED BY <1>1, MergeInvStep, PTL DEF NodeSpec

\* For every merge node, the directories that all of its subpaths have are
\* visited, each once and only these; with no failure and no stop, all of them.
THEOREM SearchVisitsCommon == NodeSpec => []VisitsCommon
<1>1. MergeInv => VisitsCommon
  BY InvVisitsCommon DEF MergeInv
<1> QED BY <1>1, MergesInvariant, PTL

\* Directory streams are open for calls on the stack only, whatever failed, and
\* none is open between two merges.
THEOREM SearchClosesStreams == NodeSpec => []HandlesOfFrames
<1>1. MergeInv => HandlesOfFrames
  BY InvHandlesOfFrames DEF MergeInv
<1> QED BY <1>1, MergesInvariant, PTL

\* The variables of the search and of its merges keep their types.
THEOREM NodeTypesCorrect == NodeSpec => []NodeTypeOK
<1>1. SearchInv /\ MergeInv => NodeTypeOK
  BY DEF SearchInv, MergeInv, DirInv, DirInv1, Typed, NodeTypeOK, DirMergeTypeOK
<1> QED BY <1>1, NodeImplementsDriver, SearchInvariant, MergesInvariant, PTL

---------------------------------------------------------------------------
(* Sums of a function's values over a finite set *)

\* g has the sum of w over every subset of S, as SumFunctionOnSet() comes to it.
Pick(s) == CHOOSE x \in s : TRUE

IsFold(g, w, S) ==
  /\ g \in [SUBSET S -> Nat] /\ g[{}] = 0
  /\ \A s \in SUBSET S : s # {} => g[s] = w[Pick(s)] + g[s \ {Pick(s)}]

LEMMA PickIs == \A s : s # {} => Pick(s) \in s
  BY DEF Pick

\* Every set of natural numbers but the empty one has a least one.
LEMMA LeastOfNat ==
  ASSUME NEW S \in SUBSET Nat, S # {}
  PROVE  \E m \in S : \A n \in S : m <= n
<1> DEFINE R == {x \in Nat \X Nat : x[1] < x[2]}
<1>1. IsWellFoundedOn(OpToRel(<, Nat), Nat)
  BY NatLessThanWellFounded
<1>2. OpToRel(<, Nat) = R
  BY DEF OpToRel
<1>3. IsWellFoundedOn(R, Nat)
  BY <1>1, <1>2
<1>4. \A n, m \in Nat : n < m => <<n, m>> \in R
  OBVIOUS
<1> HIDE DEF R
<1>5. PICK m \in S : \A n \in S : <<n, m>> \notin R
  BY <1>3, WFMin
<1>6. ASSUME NEW n \in S PROVE m <= n
  <2>1. <<n, m>> \notin R /\ n \in Nat /\ m \in Nat
    BY <1>5
  <2> QED BY <1>4, <2>1
<1> QED BY <1>6

\* A smallest subset of those in B.
LEMMA SmallestOf ==
  ASSUME NEW S, IsFiniteSet(S), NEW B \in SUBSET (SUBSET S), B # {}
  PROVE  \E s \in B : \A t \in B : t \in SUBSET s => t = s
<1> DEFINE K == {Cardinality(s) : s \in B}
<1>1. \A s \in B : IsFiniteSet(s) /\ Cardinality(s) \in Nat
  BY FS_Subset, FS_CardinalityType
<1>2. K \in SUBSET Nat /\ K # {}
  BY <1>1
<1>3. PICK m \in K : \A n \in K : m <= n
  BY <1>2, LeastOfNat
<1>4. PICK s \in B : Cardinality(s) = m
  OBVIOUS
<1>5. ASSUME NEW t \in B, t \in SUBSET s PROVE t = s
  <2>1. Cardinality(t) <= Cardinality(s) /\ (Cardinality(s) = Cardinality(t) => s = t)
    BY <1>1, <1>4, <1>5, FS_Subset
  <2>2. m <= Cardinality(t)
    BY <1>3
  <2> QED BY <1>1, <1>4, <2>1, <2>2
<1> QED BY <1>5

\* What is left of a set.
LEMMA Less ==
  ASSUME NEW S, NEW s \in SUBSET S, NEW x \in s
  PROVE  s \ {x} \in SUBSET S /\ s \ {x} \in SUBSET s /\ s \ {x} # s
  OBVIOUS

\* There is such a g: it is built up from the small subsets to the large ones.
LEMMA FoldExists ==
  ASSUME NEW S, IsFiniteSet(S), NEW w, \A x \in S : w[x] \in Nat
  PROVE  \E g : IsFold(g, w, S)
<1> DEFINE Small(n) == {s \in SUBSET S : Cardinality(s) <= n}
           Upto(g, n) ==
             /\ g \in [Small(n) -> Nat] /\ g[{}] = 0
             /\ \A s \in Small(n) : s # {} => g[s] = w[Pick(s)] + g[s \ {Pick(s)}]
           Bad == {n \in Nat : ~\E g : Upto(g, n)}
<1>0. \A s \in SUBSET S : IsFiniteSet(s) /\ Cardinality(s) \in Nat /\ (Cardinality(s) = 0 <=> s = {})
  BY FS_Subset, FS_CardinalityType, FS_EmptySet
<1>1. \A s \in SUBSET S : s # {} =>
        Pick(s) \in S /\ s \ {Pick(s)} \in SUBSET S /\ Cardinality(s \ {Pick(s)}) = Cardinality(s) - 1
  <2> SUFFICES ASSUME NEW s \in SUBSET S, s # {}
               PROVE  Pick(s) \in S /\ s \ {Pick(s)} \in SUBSET S
                      /\ Cardinality(s \ {Pick(s)}) = Cardinality(s) - 1
    OBVIOUS
  <2>1. Pick(s) \in s
    BY PickIs
  <2> QED BY <1>0, <2>1, FS_RemoveElement
<1>2. ASSUME Bad # {} PROVE FALSE
  <2>1. PICK m \in Bad : \A n \in Bad : m <= n
    <3>1. Bad \in SUBSET Nat
      OBVIOUS
    <3> HIDE DEF Bad
    <3> QED BY <1>2, <3>1, LeastOfNat
  <2>2. m \in Nat /\ ~\E g : Upto(g, m)
    BY <2>1
  <2>3. m # 0
    <3>1. \A s \in Small(0) : s = {}
      BY <1>0
    <3>2. {} \in Small(0)
      BY <1>0, FS_EmptySet
    <3> DEFINE z == [s \in Small(0) |-> 0]
    <3> HIDE DEF Small
    <3>3. z \in [Small(0) -> Nat] /\ z[{}] = 0
      BY <3>2
    <3>4. Upto(z, 0)
      BY <3>1, <3>3
    <3> HIDE DEF Upto
    <3> QED BY <2>2, <3>4
  <2>4. m - 1 \in Nat /\ ~(m <= m - 1)
    BY <2>2, <2>3
  <2>5. PICK g : Upto(g, m - 1)
    <3>1. m - 1 \notin Bad
      <4> HIDE DEF Bad
      <4> QED BY <2>1, <2>4
    <3> HIDE DEF Upto
    <3> QED BY <2>4, <3>1
  <2> DEFINE h == [s \in Small(m) |-> IF s \in Small(m - 1) THEN g[s]
                                      ELSE w[Pick(s)] + g[s \ {Pick(s)}]]
  <2>6. Upto(h, m)
    <3>1. {} \in Small(m - 1) /\ {} \in Small(m)
      BY <1>0, <2>2, <2>4, FS_EmptySet
    <3>2. \A s \in Small(m) : s # {} =>
            s \ {Pick(s)} \in Small(m - 1) /\ s \ {Pick(s)} \in Small(m) /\ w[Pick(s)] \in Nat
      <4> SUFFICES ASSUME NEW s \in Small(m), s # {}
                   PROVE  /\ s \ {Pick(s)} \in Small(m - 1) /\ s \ {Pick(s)} \in Small(m)
                          /\ w[Pick(s)] \in Nat
        OBVIOUS
      <4>1. s \in SUBSET S /\ Cardinality(s) <= m /\ Cardinality(s) \in Nat
        BY <1>0
      <4>2. /\ Pick(s) \in S /\ s \ {Pick(s)} \in SUBSET S
            /\ Cardinality(s \ {Pick(s)}) = Cardinality(s) - 1
        BY <1>1, <4>1
      <4>3. Cardinality(s) - 1 <= m - 1 /\ Cardinality(s) - 1 <= m
        BY <2>2, <4>1
      <4> QED BY <4>2, <4>3
    <3>3. \A s \in Small(m - 1) : s \in Small(m)
      <4> SUFFICES ASSUME NEW s \in SUBSET S, Cardinality(s) <= m - 1 PROVE Cardinality(s) <= m
        OBVIOUS
      <4> QED BY <1>0, <2>2
    <3> HIDE DEF Small
    <3>4. h \in [Small(m) -> Nat]
      <4> SUFFICES ASSUME NEW s \in Small(m)
                   PROVE  (IF s \in Small(m - 1) THEN g[s]
                           ELSE w[Pick(s)] + g[s \ {Pick(s)}]) \in Nat
        OBVIOUS
      <4>1. CASE s \in Small(m - 1)
        BY <2>5, <4>1
      <4>2. CASE s \notin Small(m - 1)
        <5>1. s # {}
          BY <3>1, <4>2
        <5>2. w[Pick(s)] \in Nat /\ g[s \ {Pick(s)}] \in Nat
          BY <2>5, <3>2, <5>1
        <5> QED BY <4>2, <5>2
      <4> QED BY <4>1, <4>2
    <3>5. h[{}] = 0
      BY <2>5, <3>1
    <3>6. ASSUME NEW s \in Small(m), s # {} PROVE h[s] = w[Pick(s)] + h[s \ {Pick(s)}]
      <4>1. h[s \ {Pick(s)}] = g[s \ {Pick(s)}]
        BY <3>2, <3>6
      <4>2. h[s] = w[Pick(s)] + g[s \ {Pick(s)}]
        BY <2>5, <3>6
      <4> QED BY <4>1, <4>2
    <3> HIDE DEF h
    <3> QED BY <3>4, <3>5, <3>6
  <2> HIDE DEF Upto, h
  <2> QED BY <2>2, <2>6
<1>3. Cardinality(S) \in Nat /\ Small(Cardinality(S)) = SUBSET S
  <2>1. \A s \in SUBSET S : Cardinality(s) <= Cardinality(S)
    BY FS_Subset
  <2> QED BY <1>0, <2>1
<1>4. PICK g : Upto(g, Cardinality(S))
  <2>1. Cardinality(S) \notin Bad
    BY <1>2
  <2> HIDE DEF Upto
  <2> QED BY <1>3, <2>1
<1>5. IsFold(g, w, S)
  <2> HIDE DEF Small
  <2> QED BY <1>3, <1>4 DEF IsFold
<1> QED BY <1>5

\* It does not matter which element is taken first.
LEMMA FoldAny ==
  ASSUME NEW S, IsFiniteSet(S), NEW w, \A x \in S : w[x] \in Nat, NEW g, IsFold(g, w, S)
  PROVE  \A s \in SUBSET S : \A y \in s : g[s] = w[y] + g[s \ {y}]
<1> DEFINE Bad == {s \in SUBSET S : \E y \in s : g[s] # w[y] + g[s \ {y}]}
<1>1. ASSUME Bad # {} PROVE FALSE
  <2>1. PICK s \in Bad : \A t \in Bad : t \in SUBSET s => t = s
    <3>1. Bad \in SUBSET (SUBSET S)
      OBVIOUS
    <3> HIDE DEF Bad
    <3> QED BY <1>1, <3>1, SmallestOf
  <2>2. s \in SUBSET S
    OBVIOUS
  <2>3. PICK y \in s : g[s] # w[y] + g[s \ {y}]
    OBVIOUS
  <2> DEFINE c == Pick(s)
  <2>4. c \in s /\ g[s] = w[c] + g[s \ {c}]
    BY <2>2, <2>3, PickIs DEF IsFold
  <2> HIDE DEF c
  <2>5. c # y
    BY <2>3, <2>4
  <2>6. /\ s \ {c} \in SUBSET S /\ s \ {c} \notin Bad
        /\ s \ {y} \in SUBSET S /\ s \ {y} \notin Bad
    BY <2>1, <2>2, <2>3, <2>4
  <2>7. g[s \ {c}] = w[y] + g[(s \ {c}) \ {y}] /\ g[s \ {y}] = w[c] + g[(s \ {y}) \ {c}]
    BY <2>3, <2>4, <2>5, <2>6
  <2>8. (s \ {c}) \ {y} = (s \ {y}) \ {c} /\ (s \ {c}) \ {y} \in SUBSET S
    BY <2>2
  <2>9. w[y] \in Nat /\ w[c] \in Nat /\ g[(s \ {c}) \ {y}] \in Nat
    BY <2>2, <2>3, <2>4, <2>8 DEF IsFold
  <2>10. g[s] = w[c] + (w[y] + g[(s \ {c}) \ {y}]) /\ g[s \ {y}] = w[c] + g[(s \ {c}) \ {y}]
    BY <2>4, <2>7, <2>8
  <2>11. \A a, b, d \in Nat : a + (b + d) = b + (a + d)
    OBVIOUS
  <2> QED BY <2>3, <2>9, <2>10, <2>11
<1> QED BY <1>1

\* The sum over a set does not depend on the larger set it is taken from, nor on
\* other elements' values.
LEMMA FoldSame ==
  ASSUME NEW T, NEW S \in SUBSET T, IsFiniteSet(S), NEW w, NEW v,
         \A x \in S : w[x] = v[x], NEW g, NEW h, IsFold(g, w, S), IsFold(h, v, T)
  PROVE  \A s \in SUBSET S : g[s] = h[s]
<1> DEFINE Bad == {s \in SUBSET S : g[s] # h[s]}
<1>1. ASSUME Bad # {} PROVE FALSE
  <2>1. PICK s \in Bad : \A t \in Bad : t \in SUBSET s => t = s
    <3>1. Bad \in SUBSET (SUBSET S)
      OBVIOUS
    <3> HIDE DEF Bad
    <3> QED BY <1>1, <3>1, SmallestOf
  <2>2. s \in SUBSET S /\ s \in SUBSET T /\ g[s] # h[s]
    OBVIOUS
  <2>3. s # {}
    BY <2>2 DEF IsFold
  <2> DEFINE c == Pick(s)
  <2>4. c \in s /\ g[s] = w[c] + g[s \ {c}] /\ h[s] = v[c] + h[s \ {c}]
    BY <2>2, <2>3, PickIs DEF IsFold
  <2> HIDE DEF c
  <2>5. s \ {c} \in SUBSET S /\ s \ {c} \notin Bad
    BY <2>1, <2>2, <2>4
  <2>6. g[s \ {c}] = h[s \ {c}] /\ w[c] = v[c]
    BY <2>2, <2>4, <2>5
  <2> QED BY <2>2, <2>4, <2>6
<1> QED BY <1>1

\* SumFunctionOnSet() is such a sum.
LEMMA SumIsFold ==
  ASSUME NEW S, IsFiniteSet(S), NEW w, \A x \in S : w[x] \in Nat
  PROVE  \E g : IsFold(g, w, S) /\ SumFunctionOnSet(w, S) = g[S]
<1> DEFINE iter[s \in SUBSET S] ==
             IF s = {} THEN 0 ELSE w[CHOOSE x \in s : TRUE] + iter[s \ {CHOOSE x \in s : TRUE}]
           Rec(g) == [s \in SUBSET S |->
             IF s = {} THEN 0 ELSE w[CHOOSE x \in s : TRUE] + g[s \ {CHOOSE x \in s : TRUE}]]
<1>1. PICK g : IsFold(g, w, S)
  BY FoldExists
<1>2. g = Rec(g)
  <2>1. ASSUME NEW s \in SUBSET S PROVE g[s] = Rec(g)[s]
    <3>1. CASE s = {}
      BY <1>1, <3>1 DEF IsFold
    <3>2. CASE s # {}
      BY <1>1, <3>2 DEF IsFold, Pick
    <3> QED BY <3>1, <3>2
  <2>2. g = [s \in SUBSET S |-> g[s]]
    BY <1>1 DEF IsFold
  <2> HIDE DEF Rec
  <2>3. Rec(g) = [s \in SUBSET S |-> Rec(g)[s]]
    BY DEF Rec
  <2> QED BY <2>1, <2>2, <2>3
<1>3. iter = Rec(iter)
  BY <1>2 DEF iter
<1>4. SumFunctionOnSet(w, S) = iter[S]
  BY DEF SumFunctionOnSet, FoldFunctionOnSet, MapThenFoldSet, iter
<1> HIDE DEF iter
<1>5. \A s \in SUBSET S : iter[s] = IF s = {} THEN 0 ELSE w[Pick(s)] + iter[s \ {Pick(s)}]
  BY <1>3 DEF Pick
<1>6. \A s \in SUBSET S : iter[s] = g[s]
  <2> DEFINE Bad == {s \in SUBSET S : iter[s] # g[s]}
  <2>1. ASSUME Bad # {} PROVE FALSE
    <3>1. PICK s \in Bad : \A t \in Bad : t \in SUBSET s => t = s
      <4>1. Bad \in SUBSET (SUBSET S)
        OBVIOUS
      <4> HIDE DEF Bad
      <4> QED BY <2>1, <4>1, SmallestOf
    <3>2. s \in SUBSET S /\ iter[s] # g[s]
      OBVIOUS
    <3>3. s # {}
      BY <1>1, <1>5, <3>2 DEF IsFold
    <3> DEFINE c == Pick(s)
    <3>4. c \in s /\ g[s] = w[c] + g[s \ {c}] /\ iter[s] = w[c] + iter[s \ {c}]
      BY <1>1, <1>5, <3>2, <3>3, PickIs DEF IsFold
    <3> HIDE DEF c
    <3>5. s \ {c} \in SUBSET S /\ s \ {c} \notin Bad
      BY <3>1, <3>2, <3>4
    <3> QED BY <3>2, <3>4, <3>5
  <2> QED BY <2>1
<1> QED BY <1>1, <1>4, <1>6

\* What the sums are: a number, that of another element added, and that of a
\* function with the same values, or with zeroes on more elements.
LEMMA SumNat ==
  ASSUME NEW S, IsFiniteSet(S), NEW w, \A x \in S : w[x] \in Nat
  PROVE  SumFunctionOnSet(w, S) \in Nat /\ (S = {} => SumFunctionOnSet(w, S) = 0)
<1>1. PICK g : IsFold(g, w, S) /\ SumFunctionOnSet(w, S) = g[S]
  BY SumIsFold
<1> QED BY <1>1 DEF IsFold

LEMMA SumAdd ==
  ASSUME NEW S, IsFiniteSet(S), NEW y, y \notin S, NEW w, NEW v, v[y] \in Nat,
         \A x \in S : w[x] \in Nat /\ v[x] = w[x]
  PROVE  SumFunctionOnSet(v, S \cup {y}) = SumFunctionOnSet(w, S) + v[y]
<1> DEFINE T == S \cup {y}
<1>1. IsFiniteSet(T) /\ S \in SUBSET T /\ T \in SUBSET T /\ y \in T /\ T \ {y} = S
  BY FS_AddElement
<1>2. \A x \in T : v[x] \in Nat
  OBVIOUS
<1>3. PICK g : IsFold(g, w, S) /\ SumFunctionOnSet(w, S) = g[S]
  BY SumIsFold
<1> HIDE DEF T
<1>4. PICK h : IsFold(h, v, T) /\ SumFunctionOnSet(v, T) = h[T]
  BY <1>1, <1>2, SumIsFold
<1>5. h[T] = v[y] + h[S]
  BY <1>1, <1>2, <1>4, FoldAny
<1>6. g[S] = h[S]
  BY <1>1, <1>3, <1>4, FoldSame
<1>7. h[S] \in Nat
  BY <1>1, <1>4 DEF IsFold
<1> QED BY <1>3, <1>4, <1>5, <1>6, <1>7 DEF T

LEMMA SumSame ==
  ASSUME NEW T, IsFiniteSet(T), NEW S \in SUBSET T, NEW w, NEW v, \A x \in T : v[x] \in Nat,
         \A x \in S : w[x] = v[x], \A x \in T \ S : v[x] = 0
  PROVE  SumFunctionOnSet(w, S) = SumFunctionOnSet(v, T)
<1>1. IsFiniteSet(S) /\ \A x \in S : w[x] \in Nat
  BY FS_Subset
<1>2. PICK g : IsFold(g, w, S) /\ SumFunctionOnSet(w, S) = g[S]
  BY <1>1, SumIsFold
<1>3. PICK h : IsFold(h, v, T) /\ SumFunctionOnSet(v, T) = h[T]
  BY SumIsFold
<1>4. g[S] = h[S]
  <2>1. IsFold(g, w, S) /\ IsFold(h, v, T) /\ S \in SUBSET T /\ (\A x \in S : w[x] = v[x])
    BY <1>2, <1>3
  <2>2. IsFiniteSet(S)
    BY <1>1
  <2>3. \A s \in SUBSET S : g[s] = h[s]
    BY <2>1, <2>2, FoldSame
  <2> QED BY <2>3
<1> DEFINE Bad == {s \in SUBSET T : S \in SUBSET s /\ h[s] # h[S]}
<1>5. ASSUME Bad # {} PROVE FALSE
  <2>1. PICK s \in Bad : \A t \in Bad : t \in SUBSET s => t = s
    <3>1. Bad \in SUBSET (SUBSET T)
      OBVIOUS
    <3>2. IsFiniteSet(T) /\ Bad # {}
      BY <1>5
    <3> HIDE DEF Bad
    <3> QED BY <3>1, <3>2, SmallestOf
  <2>2. s \in SUBSET T /\ S \in SUBSET s /\ h[s] # h[S]
    OBVIOUS
  <2>3. PICK y \in s : y \notin S
    BY <2>2
  <2>4. h[s] = v[y] + h[s \ {y}] /\ v[y] = 0
    BY <1>3, <2>2, <2>3, FoldAny
  <2>5. s \ {y} \in SUBSET T /\ S \in SUBSET (s \ {y}) /\ s \ {y} \notin Bad
    BY <2>1, <2>2, <2>3
  <2>6. h[s \ {y}] = h[S] /\ h[s \ {y}] \in Nat
    BY <1>3, <2>5 DEF IsFold
  <2> QED BY <2>2, <2>4, <2>6
<1>6. h[T] = h[S]
  BY <1>5
<1> QED BY <1>2, <1>3, <1>4, <1>6

\* The elements of a sequence are finitely many.
LEMMA FiniteToSet ==
  ASSUME NEW S, NEW s \in Seq(S)
  PROVE  IsFiniteSet(ToSet(s)) /\ ToSet(s) \in SUBSET S
<1>1. Len(s) \in Nat /\ DOMAIN s = 1 .. Len(s)
  OBVIOUS
<1>2. s \in Surjection(1 .. Len(s), ToSet(s))
  BY <1>1 DEF Surjection, ToSet
<1>3. IsFiniteSet(1 .. Len(s))
  BY <1>1, FS_Interval
<1> QED BY <1>1, <1>2, <1>3, FS_Surjection DEF ToSet
---------------------------------------------------------------------------
(* The scan limit *)

\* A visit is of a path that was not visited before.
LEMMA VisitAdds ==
  ASSUME DirInv, CallbackDone, Visit \/ PostingOpenFails
  PROVE  /\ top.rel \in Paths /\ top.rel \notin ToSet(visited)
         /\ IsFiniteSet(ToSet(visited)) /\ ToSet(visited) \in SUBSET Paths
         /\ ToSet(visited') = ToSet(visited) \cup {top.rel}
         /\ visited' # <<>> /\ Front(visited') = visited
<1>1. top.rel \in Paths /\ visited \in Seq(Paths) /\ Len(visited) \in Nat
  BY TopIsFrame DEF DirInv, DirInv1, Typed, Frame
<1>2. visited' = Append(visited, top.rel)
  BY DEF CallbackDone
<1>3. DirInv'
  BY DirInvStep DEF Step
<1>4. \A v, w \in DOMAIN visited' : visited'[v] = visited'[w] => v = w
  BY <1>3 DEF DirInv, DirInv2, Visits
<1> DEFINE x == top.rel
<1> HIDE DEF x
<1>5. /\ visited' = Append(visited, x) /\ x \in Paths
  BY <1>1, <1>2 DEF x
<1>6. /\ DOMAIN visited = 1 .. Len(visited) /\ DOMAIN visited' = 1 .. Len(visited) + 1
      /\ visited'[Len(visited) + 1] = x /\ \A v \in DOMAIN visited : visited'[v] = visited[v]
  BY <1>1, <1>5
<1>7. x \notin ToSet(visited)
  <2>1. ASSUME NEW v \in DOMAIN visited PROVE visited[v] # x
    <3>1. v \in DOMAIN visited' /\ Len(visited) + 1 \in DOMAIN visited' /\ v # Len(visited) + 1
      BY <1>1, <1>6
    <3> QED BY <1>4, <1>6, <3>1
  <2> QED BY <2>1 DEF ToSet
<1>8. ToSet(visited') = ToSet(visited) \cup {x}
  <2>1. DOMAIN visited' = DOMAIN visited \cup {Len(visited) + 1}
    BY <1>1, <1>6
  <2> QED BY <1>6, <2>1 DEF ToSet
<1>9. IsFiniteSet(ToSet(visited)) /\ ToSet(visited) \in SUBSET Paths
  BY <1>1, FiniteToSet
<1>10. visited' # <<>> /\ Front(visited') = visited
  BY <1>1, <1>5 DEF Front
<1> QED BY <1>1, <1>7, <1>8, <1>9, <1>10 DEF x

\* While a merge runs the counter has the items of the directories visited; a call
\* that was stopped stays stopped, for there was too much to scan.
ScanInv ==
  /\ lost \subseteq ToSet(visited)
  /\ result = -1 => /\ scanned = ItemsIn(ToSet(visited))
                    /\ \A k \in DOMAIN frames : frames[k].ret = 1 => LimitExceeded
  /\ ScanLimit

\* What is scanned in a directory is a number.
LEMMA ItemsOfNat == \A p \in Paths : ItemsOf[p] \in Nat
  BY DirMergeAssumption DEF ItemsOf

\* As long as the index is the same, the same directories are merged.
LEMMA MergedSame ==
  ASSUME UNCHANGED index PROVE \A p : Merged(p)' <=> Merged(p)
<1>1. UNCHANGED <<posted, headed, en_headprune>>
  BY DEF index
<1> QED BY <1>1 DEF Merged, Pruned, posmerge_possible, maxmin, minmax

\* As long as the index is the same, the same paths have the same items.
LEMMA ItemsSame ==
  ASSUME UNCHANGED <<index, lost>> PROVE ItemsOf' = ItemsOf
<1>1. UNCHANGED lost
  OBVIOUS
<1>2. \A p : Merged(p)' <=> Merged(p)
  BY MergedSame
<1>3. ASSUME NEW p \in Paths
      PROVE  (IF Merged(p)' /\ p \notin lost' THEN ItemsAt[p] ELSE 0)
               = (IF Merged(p) /\ p \notin lost THEN ItemsAt[p] ELSE 0)
  BY <1>1, <1>2
<1>4. ItemsOf' = [p \in Paths |-> IF Merged(p)' /\ p \notin lost' THEN ItemsAt[p] ELSE 0]
  BY DEF ItemsOf
<1> QED BY <1>3, <1>4 DEF ItemsOf

\* There is a reason to stop.
Stopped == LimitExceeded \/ \E j \in DOMAIN frames : frames[j].ret = 1

\* A new top of the stack has 1 to return only if that of a call on the stack or
\* the limit is the reason.
LEMMA TopStops ==
  ASSUME frames \in Seq(Frame), frames # <<>>, NEW f \in Frame, SetTop(f), f.ret = 1 => Stopped
  PROVE  \A k \in DOMAIN frames' : frames'[k].ret = 1 => Stopped
<1> SUFFICES ASSUME NEW k \in DOMAIN frames', frames'[k].ret = 1 PROVE Stopped
  OBVIOUS
<1> DEFINE L == Len(frames)
<1>1. frames' = [frames EXCEPT ![L] = f]
  BY DEF SetTop
<1>2. k \in DOMAIN frames /\ (k = L => frames'[k] = f) /\ (k # L => frames'[k] = frames[k])
  BY <1>1
<1> HIDE DEF L
<1> QED BY <1>2 DEF Stopped

\* A step inside a merge that visits no directory: only a call that stops, or that
\* comes back from one that was stopped, has 1 to return.
LEMMA InsideStops ==
  ASSUME DirInv, Inside
  PROVE  /\ UNCHANGED <<index, visited, scanned, lost, result>>
         /\ \A k \in DOMAIN frames' : frames'[k].ret = 1 => Stopped
<1>1. UNCHANGED <<index, visited, scanned, lost, result>>
  BY DEF Inside, OpenDir, OpenDirFails, AllOpen, Stop, Skip, Descend, AllRead, ReturnUp
<1>2. /\ frames \in Seq(Frame) /\ frames # <<>> /\ Len(frames) \in Nat \ {0}
      /\ top = frames[Len(frames)] /\ top \in Frame /\ DOMAIN frames = 1 .. Len(frames)
      /\ \A k \in DOMAIN frames : frames[k] \in Frame
  BY TopIsFrame DEF DirInv, DirInv1, Typed
<1> DEFINE L == Len(frames)
<1> SUFFICES \A k \in DOMAIN frames' : frames'[k].ret = 1 => Stopped
  BY <1>1
<1>3. top.ret = 1 => Stopped
  BY <1>2 DEF Stopped
<1>4. CASE OpenDir
  BY <1>4, <1>2 DEF OpenDir, Stopped
<1>5. CASE OpenDirFails
  <2> DEFINE f == [top EXCEPT !.pc = "exit"]
  <2>1. SetTop(f)
    BY <1>5 DEF OpenDirFails
  <2>2. f \in Frame /\ f.ret = top.ret
    BY <1>2 DEF Frame
  <2> HIDE DEF f
  <2> QED BY <1>2, <1>3, TopStops, <2>1, <2>2
<1>6. CASE AllOpen
  <2> DEFINE f == [top EXCEPT !.pc = "callback"]
  <2>1. SetTop(f)
    BY <1>6 DEF AllOpen
  <2>2. f \in Frame /\ f.ret = top.ret
    BY <1>2 DEF Frame
  <2> HIDE DEF f
  <2> QED BY <1>2, <1>3, TopStops, <2>1, <2>2
<1>7. CASE Stop
  <2> DEFINE f == [top EXCEPT !.pc = "exit", !.ret = 1]
  <2>1. SetTop(f) /\ LimitExceeded
    BY <1>7 DEF Stop
  <2>2. f \in Frame
    BY <1>2 DEF Frame
  <2>3. Stopped
    BY <2>1 DEF Stopped
  <2> HIDE DEF f
  <2> QED BY <1>2, TopStops, <2>1, <2>2, <2>3
<1>8. ASSUME NEW name \in Names, Skip(name)
      PROVE  \A k \in DOMAIN frames' : frames'[k].ret = 1 => Stopped
  <2> DEFINE f == [top EXCEPT !.unread = top.unread \ {name}]
  <2>1. SetTop(f)
    BY <1>8 DEF Skip
  <2>2. f \in Frame /\ f.ret = top.ret
    BY <1>2 DEF Frame
  <2> HIDE DEF f
  <2>3. f.ret = 1 => Stopped
    BY <1>3, <2>2
  <2> QED BY <1>2, TopStops, <2>1, <2>2, <2>3
<1>9. ASSUME NEW name \in Names, Descend(name), NEW k \in DOMAIN frames', frames'[k].ret = 1
       PROVE  Stopped
  <2> DEFINE fs == [frames EXCEPT ![L].unread = top.unread \ {name}]
             new == Call(Append(top.rel, name))
  <2>1. frames' = Append(fs, new) /\ new.ret = 0
    BY <1>9 DEF Descend, Call
  <2>2. fs \in Seq(Frame) /\ Len(fs) = L /\ \A j \in 1 .. L : fs[j].ret = frames[j].ret
    <3>1. [top EXCEPT !.unread = top.unread \ {name}] \in Frame
      BY <1>2 DEF Frame
    <3>2. fs = [frames EXCEPT ![L] = [top EXCEPT !.unread = top.unread \ {name}]]
      BY <1>2
    <3> QED BY <1>2, <3>1, <3>2
  <2> HIDE DEF fs, new
  <2>3. k \in 1 .. L + 1 /\ (k = L + 1 => frames'[k] = new) /\ (k # L + 1 => k \in 1 .. L /\ frames'[k] = fs[k])
    BY <1>2, <1>9, <2>1, <2>2
  <2>4. k # L + 1
    BY <1>9, <2>1, <2>3
  <2> QED BY <1>2, <1>9, <2>2, <2>3, <2>4 DEF Stopped
<1>10. CASE AllRead
  <2> DEFINE f == [top EXCEPT !.pc = "exit"]
  <2>1. SetTop(f)
    BY <1>10 DEF AllRead
  <2>2. f \in Frame /\ f.ret = top.ret
    BY <1>2 DEF Frame
  <2> HIDE DEF f
  <2> QED BY <1>2, <1>3, TopStops, <2>1, <2>2
<1>11. ASSUME ReturnUp, NEW k \in DOMAIN frames', frames'[k].ret = 1
       PROVE  Stopped
  <2>1. /\ L > 1 /\ frames' = [Front(frames) EXCEPT ![L - 1] = ReturnTo(Front(frames)[L - 1])]
    BY <1>11 DEF ReturnUp
  <2>2. /\ Front(frames) \in Seq(Frame) /\ DOMAIN Front(frames) = 1 .. L - 1
        /\ \A j \in 1 .. L - 1 : Front(frames)[j] = frames[j]
    BY <1>2, <2>1 DEF Front
  <2>3. /\ k \in 1 .. L - 1 /\ k \in DOMAIN frames
        /\ frames'[k] = IF k = L - 1 THEN ReturnTo(frames[k]) ELSE frames[k]
    BY <1>2, <1>11, <2>1, <2>2
  <2>4. top.ret # 1 => ReturnTo(frames[k]) = frames[k]
    BY DEF ReturnTo
  <2> HIDE DEF L
  <2> QED BY <1>3, <1>11, <2>3, <2>4 DEF Stopped
<1> QED BY <1>4, <1>5, <1>6, <1>7, <1>8, <1>9, <1>10, <1>11 DEF Inside

\* A visit adds the items of its directory to the counter; there are none if a
\* posting file did not open.
LEMMA VisitScans ==
  ASSUME DirInv, CallbackDone, Visit \/ PostingOpenFails, lost \subseteq ToSet(visited)
  PROVE  /\ scanned' = scanned + ItemsOf'[top.rel]
         /\ ItemsIn(ToSet(visited))' = ItemsIn(ToSet(visited)) + ItemsOf'[top.rel]
         /\ ItemsIn(ToSet(Front(visited)))' = ItemsIn(ToSet(visited))
         /\ lost' \subseteq ToSet(visited')
<1>1. /\ top.rel \in Paths /\ top.rel \notin ToSet(visited)
      /\ IsFiniteSet(ToSet(visited)) /\ ToSet(visited) \in SUBSET Paths
      /\ ToSet(visited') = ToSet(visited) \cup {top.rel} /\ Front(visited') = visited
  BY VisitAdds
<1>2. \A p : Merged(p)' <=> Merged(p)
  BY MergedSame DEF CallbackDone
<1> DEFINE y == top.rel
           S == ToSet(visited)
           w == ItemsOf
           v == [p \in Paths |-> IF Merged(p) /\ p \notin lost' THEN ItemsAt[p] ELSE 0]
<1>3. ItemsOf' = v
  <2>1. ItemsOf' = [p \in Paths |-> IF Merged(p)' /\ p \notin lost' THEN ItemsAt[p] ELSE 0]
    BY DEF ItemsOf
  <2> QED BY <1>2, <2>1
<1>4. lost' = lost \/ lost' = lost \cup {y}
  BY DEF Visit, PostingOpenFails
<1>5. \A x \in S : v[x] = w[x]
  BY <1>1, <1>4 DEF ItemsOf
<1>6. scanned' = scanned + v[y]
  <2>1. CASE Visit
    <3>1. y \notin lost'
      BY <1>1, <2>1 DEF Visit
    <3> QED BY <1>1, <2>1, <3>1 DEF Visit
  <2>2. CASE PostingOpenFails
    <3>1. v[y] = 0 /\ scanned' = scanned /\ scanned \in Nat
      BY <1>1, <2>2 DEF PostingOpenFails, DirInv, DirInv1, Typed
    <3> QED BY <3>1
  <2> QED BY <2>1, <2>2
<1>7. \A x \in Paths : v[x] \in Nat /\ w[x] \in Nat
  BY ItemsOfNat, DirMergeAssumption
<1>8. IsFiniteSet(S) /\ S \in SUBSET S /\ y \notin S /\ S \in SUBSET Paths /\ y \in Paths
  BY <1>1
<1>9. ItemsIn(S) = SumFunctionOnSet(w, S)
  BY DEF ItemsIn
<1>10. ItemsIn(S)' = SumFunctionOnSet(v, S \cup {y})
  BY <1>1, <1>3 DEF ItemsIn
<1>11. ItemsIn(ToSet(Front(visited)))' = SumFunctionOnSet(v, S)
  BY <1>1, <1>3 DEF ItemsIn
<1>12. /\ SumFunctionOnSet(v, S \cup {y}) = SumFunctionOnSet(w, S) + v[y]
       /\ SumFunctionOnSet(v, S) = SumFunctionOnSet(w, S)
  <2> HIDE DEF w, v, S, y
  <2>1. SumFunctionOnSet(v, S \cup {y}) = SumFunctionOnSet(w, S) + v[y]
    <3>1. IsFiniteSet(S) /\ y \notin S /\ v[y] \in Nat
      BY <1>7, <1>8
    <3>2. \A x \in S : w[x] \in Nat /\ v[x] = w[x]
      BY <1>5, <1>7, <1>8
    <3> QED BY <3>1, <3>2, SumAdd
  <2>2. SumFunctionOnSet(w, S) = SumFunctionOnSet(v, S)
    <3>1. IsFiniteSet(S) /\ S \in SUBSET S /\ \A x \in S : v[x] \in Nat /\ w[x] = v[x]
      BY <1>5, <1>7, <1>8
    <3> QED BY <3>1, SumSame
  <2> QED BY <2>1, <2>2
<1>13. lost' \subseteq ToSet(visited')
  BY <1>1, <1>4
<1> HIDE DEF v
<1> QED BY <1>3, <1>6, <1>9, <1>10, <1>11, <1>12, <1>13

\* What leaves the index and the visits alone leaves their items alone.
LEMMA ScanSame ==
  ASSUME UNCHANGED <<index, visited, lost>>
  PROVE  /\ ItemsIn(ToSet(visited))' = ItemsIn(ToSet(visited))
         /\ (Exceeded(ToSet(visited)))' <=> Exceeded(ToSet(visited))
         /\ (Exceeded(ToSet(Front(visited))))' <=> Exceeded(ToSet(Front(visited)))
<1>1. ItemsOf' = ItemsOf /\ visited' = visited /\ thorough' = thorough
  BY ItemsSame DEF index
<1>2. ItemsIn(ToSet(visited))' = ItemsIn(ToSet(visited))
  BY <1>1 DEF ItemsIn
<1>3. ItemsIn(ToSet(Front(visited)))' = ItemsIn(ToSet(Front(visited)))
  BY <1>1 DEF ItemsIn
<1> QED BY <1>1, <1>2, <1>3 DEF Exceeded

\* Each step of the search keeps the invariant of the scan.
LEMMA ScanInvStep == MergeInv /\ ScanInv /\ [NodeNext]_nodeVars => ScanInv'
<1> SUFFICES ASSUME MergeInv, ScanInv, [NodeNext]_nodeVars PROVE ScanInv'
  OBVIOUS
<1>0. /\ frames \in Seq(Frame) /\ frames # <<>> /\ Len(frames) \in Nat \ {0}
      /\ top = frames[Len(frames)] /\ top \in Frame /\ DOMAIN frames = 1 .. Len(frames)
      /\ \A k \in DOMAIN frames : frames[k] \in Frame
  BY TopIsFrame DEF MergeInv, DirInv, DirInv1, Typed
<1>a. top.ret = 1 => Stopped
  BY <1>0 DEF Stopped
<1>1. ASSUME UNCHANGED dirVars PROVE ScanInv'
  <2>1. UNCHANGED <<index, frames, visited, scanned, lost, result, thorough>>
    BY <1>1 DEF dirVars, index
  <2> QED BY <2>1, ScanSame DEF ScanInv, ScanLimit, LimitExceeded
<1>2. ASSUME visited' = <<>>, frames' = <<Call(<<>>)>>, scanned' = 0 \/ result' = 0, result' # 1,
             lost' = {}
      PROVE  ScanInv'
  <2>1. ItemsIn({})' = 0
    BY SumNat, FS_EmptySet DEF ItemsIn
  <2>2. ToSet(visited') = {}
    BY <1>2 DEF ToSet
  <2>3. ItemsIn(ToSet(visited))' = 0
    BY <2>1, <2>2 DEF ItemsIn
  <2>4. \A k \in DOMAIN frames' : frames'[k].ret # 1
    BY <1>2 DEF Call
  <2> QED BY <1>2, <2>3, <2>4 DEF ScanInv, ScanLimit
<1>3. CASE StartNode
  BY <1>2, <1>3 DEF StartNode, BeginMerge, BeginIndex
<1>4. CASE InNode
  <2>1. Inside /\ DirInv
    BY <1>4 DEF InNode, MergeInv
  <2>2. /\ UNCHANGED <<index, visited, scanned, lost, result, thorough>>
        /\ \A k \in DOMAIN frames' : frames'[k].ret = 1 => Stopped
    BY <2>1, InsideStops DEF index
  <2> QED BY <2>2, ScanSame DEF ScanInv, ScanLimit, LimitExceeded, Stopped
<1>5. CASE VisitOffers \/ VisitFails
  <2>1. /\ CallbackDone /\ (Visit \/ PostingOpenFails) /\ DirInv /\ ~LimitExceeded /\ result = -1
        /\ UNCHANGED <<index, thorough, result>>
    BY <1>5 DEF VisitOffers, VisitFails, Visit, PostingOpenFails, CallbackDone, MergeInv, index, At
  <2>2. /\ scanned' = ItemsIn(ToSet(visited))' /\ lost' \subseteq ToSet(visited')
        /\ ItemsIn(ToSet(Front(visited)))' = scanned
    BY <2>1, VisitScans DEF ScanInv
  <2>3. \A k \in DOMAIN frames' : frames'[k].ret # 1
    <3> DEFINE f == [top EXCEPT !.pc = "read", !.unread = Subdirs(1, top.rel)]
    <3>1. ~Stopped
      BY <2>1 DEF Stopped, ScanInv
    <3>2. SetTop(f)
      BY <2>1 DEF CallbackDone
    <3>3. f \in Frame /\ f.ret = top.ret
      BY <1>0 DEF Frame, Subdirs
    <3> HIDE DEF f
    <3>4. f.ret = 1 => Stopped
      BY <1>a, <3>3
    <3> QED BY <1>0, <3>1, <3>2, <3>3, <3>4, TopStops
  <2>4. ~Exceeded(ToSet(Front(visited)))'
    BY <2>1, <2>2 DEF LimitExceeded, Exceeded
  <2> QED BY <2>1, <2>2, <2>3, <2>4 DEF ScanInv, ScanLimit
<1>6. CASE EndNode
  <2>1. /\ result = -1 /\ result' = top.ret
        /\ UNCHANGED <<index, frames, visited, scanned, lost, thorough>>
    BY <1>6 DEF EndNode, ReturnOut, At, index
  <2>2. result' # -1
    BY <1>0, <2>1 DEF Frame
  <2>3. result' = 1 => Exceeded(ToSet(visited))
    <3>1. result' = 1 => LimitExceeded
      BY <1>a, <2>1 DEF ScanInv, Stopped
    <3> QED BY <2>1, <3>1 DEF ScanInv, LimitExceeded, Exceeded
  <2> QED BY <2>1, <2>2, <2>3, ScanSame DEF ScanInv, ScanLimit
<1>7. CASE LeaveNode
  BY <1>2, <1>7 DEF LeaveNode
<1> QED
  BY <1>1, <1>3, <1>4, <1>5, <1>6, <1>7
  DEF NodeNext, NodeStep, NodeFinished, OutsideNode, nodeVars

\* A merge stops when more than MAX_SEARCH_ITEMS items of its own directories were
\* scanned, and at the first directory after that.
THEOREM MergeStopsAtLimit == NodeSpec => []ScanLimit
<1>1. NodeInit => ScanInv
  BY DEF NodeInit, ScanInv, ScanLimit
<1>2. ScanInv => ScanLimit
  BY DEF ScanInv
<1> QED BY <1>1, <1>2, ScanInvStep, MergesInvariant, PTL DEF NodeSpec

---------------------------------------------------------------------------
(* The ranges of head.bin *)

\* The least of a set of numbers.
LEMMA MinIs ==
  ASSUME NEW S \in SUBSET Nat, S # {}
  PROVE  Min(S) \in S /\ \A y \in S : Min(S) <= y
<1>1. PICK m \in S : \A n \in S : m <= n
  BY LeastOfNat
<1> QED BY <1>1 DEF Min

\* The greatest of a finite set of numbers.
LEMMA MaxIs ==
  ASSUME NEW S, IsFiniteSet(S), S # {}, \A x \in S : x \in Nat
  PROVE  Max(S) \in S /\ \A y \in S : y <= Max(S)
<1> DEFINE Bad == {s \in SUBSET S : s # {} /\ ~\E m \in s : \A n \in s : n <= m}
<1>1. ASSUME Bad # {} PROVE FALSE
  <2>1. PICK s \in Bad : \A t \in Bad : t \in SUBSET s => t = s
    <3>1. Bad \in SUBSET (SUBSET S)
      OBVIOUS
    <3>2. IsFiniteSet(S) /\ Bad # {}
      BY <1>1
    <3> HIDE DEF Bad
    <3> QED BY <3>1, <3>2, SmallestOf
  <2>2. s \in SUBSET S /\ s # {} /\ ~\E m \in s : \A n \in s : n <= m
    OBVIOUS
  <2>3. PICK x \in s : TRUE
    BY <2>2
  <2>4. \A n \in s : n \in Nat
    BY <2>2
  <2>5. s \ {x} # {}
    BY <2>2, <2>3, <2>4
  <2>6. s \ {x} \notin Bad /\ s \ {x} \in SUBSET S
    <3>1. s \ {x} \in SUBSET S /\ s \ {x} \in SUBSET s /\ s \ {x} # s
      BY <2>2, <2>3
    <3> HIDE DEF Bad
    <3> QED BY <2>1, <3>1
  <2>7. PICK m \in s \ {x} : \A n \in s \ {x} : n <= m
    BY <2>5, <2>6
  <2>8. CASE x <= m
    BY <2>2, <2>7, <2>8
  <2>9. CASE ~(x <= m)
    <3>1. \A n \in s : n <= x
      BY <2>3, <2>4, <2>7, <2>9
    <3> QED BY <2>2, <2>3, <3>1
  <2> QED BY <2>8, <2>9
<1>2. PICK m \in S : \A n \in S : n <= m
  BY <1>1
<1> QED BY <1>2 DEF Max

\* There is a first directory.
LEMMA FirstDir == 1 \in Dirs
<1>1. N \in Nat \ {0}
  BY DirMergeAssumption
<1> QED BY <1>1 DEF Dirs

\* What is computed for each directory is a finite set.
LEMMA FiniteOverDirs ==
  ASSUME NEW f
  PROVE  {f[i] : i \in Dirs} # {} /\ IsFiniteSet({f[i] : i \in Dirs})
<1> DEFINE T == {f[i] : i \in Dirs}
           g == [i \in Dirs |-> f[i]]
<1>1. IsFiniteSet(Dirs) /\ 1 \in Dirs
  BY FS_Interval, FirstDir, DirMergeAssumption DEF Dirs
<1>2. g \in Surjection(Dirs, T)
  BY DEF Surjection
<1>3. IsFiniteSet(T)
  BY <1>1, <1>2, FS_Surjection
<1>4. T # {}
  BY <1>1
<1> QED BY <1>3, <1>4

\* Pruning loses no document: posting files that have an id in common have ranges
\* that overlap.
LEMMA PrunedHaveNone ==
  ASSUME NEW p \in Paths, ~posmerge_possible(p)
  PROVE  IdsInAll(p) = {}
<1> SUFFICES ASSUME NEW id \in IdsInAll(p) PROVE posmerge_possible(p)
  OBVIOUS
<1> DEFINE least    == [i \in Dirs |-> Min(IdsAt[p][i])]
           greatest == [i \in Dirs |-> Max(IdsAt[p][i])]
           Ls == {least[i] : i \in Dirs}
           Gs == {greatest[i] : i \in Dirs}
<1>1. ASSUME NEW i \in Dirs
      PROVE  IdsAt[p][i] \in SUBSET Nat /\ IdsAt[p][i] # {} /\ IsFiniteSet(IdsAt[p][i])
  <2>1. IdsAt \in [Paths -> [Dirs -> SUBSET Nat]]
    BY DirMergeAssumption DEF Dirs
  <2>2. \A q \in Paths : \A j \in Dirs : IdsAt[q][j] # {} /\ IsFiniteSet(IdsAt[q][j])
    BY DirMergeAssumption DEF Dirs
  <2>3. IdsAt[p] \in [Dirs -> SUBSET Nat]
    BY <2>1
  <2> QED BY <2>2, <2>3
<1>2. ASSUME NEW i \in Dirs PROVE id \in IdsAt[p][i]
  BY DEF IdsInAll
<1>3. id \in Nat
  <2>1. 1 \in Dirs
    BY FirstDir
  <2> QED BY <1>1, <1>2, <2>1
<1>4. ASSUME NEW i \in Dirs
      PROVE  least[i] \in Nat /\ least[i] <= id /\ greatest[i] \in Nat /\ id <= greatest[i]
  <2>1. Min(IdsAt[p][i]) \in Nat /\ Min(IdsAt[p][i]) <= id
    BY <1>1, <1>2, MinIs
  <2>2. Max(IdsAt[p][i]) \in Nat /\ id <= Max(IdsAt[p][i])
    BY <1>1, <1>2, MaxIs
  <2> QED BY <2>1, <2>2
<1>5. maxmin(p) = Max(Ls) /\ minmax(p) = Min(Gs)
  <2>1. Ls = {Min(IdsAt[p][i]) : i \in Dirs} /\ Gs = {Max(IdsAt[p][i]) : i \in Dirs}
    OBVIOUS
  <2> QED BY <2>1 DEF maxmin, minmax
<1> HIDE DEF least, greatest
<1>6. Max(Ls) \in Ls /\ Min(Gs) \in Gs
  <2>1. Ls # {} /\ IsFiniteSet(Ls) /\ Gs # {}
    BY FiniteOverDirs
  <2>2. Ls \in SUBSET Nat /\ Gs \in SUBSET Nat
    BY <1>4
  <2> HIDE DEF Ls, Gs
  <2> QED BY <2>1, <2>2, MinIs, MaxIs
<1>7. Max(Ls) \in Nat /\ Max(Ls) <= id
  BY <1>4, <1>6
<1>8. Min(Gs) \in Nat /\ id <= Min(Gs)
  BY <1>4, <1>6
<1>9. \A a, b, c \in Nat : a <= b /\ b <= c => c >= a
  OBVIOUS
<1> HIDE DEF Ls, Gs
<1> QED BY <1>3, <1>5, <1>7, <1>8, <1>9 DEF posmerge_possible

---------------------------------------------------------------------------
(* A good answer has all documents *)

\* How many of n documents the ranking set takes.
Kept(n) == IF n > Capacity THEN Capacity ELSE n

LEMMA KeptIs == \A n \in Nat : Min({Capacity, n}) = Kept(n)
<1> SUFFICES ASSUME NEW n \in Nat PROVE Min({Capacity, n}) = Kept(n)
  OBVIOUS
<1>1. Capacity \in Nat
  BY SearchAssumption
<1>2. Min({Capacity, n}) \in {Capacity, n} /\ \A y \in {Capacity, n} : Min({Capacity, n}) <= y
  BY <1>1, MinIs
<1> QED BY <1>1, <1>2 DEF Kept

LEMMA KeptAdds ==
  ASSUME NEW a \in Nat, NEW b \in Nat PROVE Kept(Kept(a) + b) = Kept(a + b) /\ Kept(a) \in 0 .. Capacity
<1>1. Capacity \in Nat
  BY SearchAssumption
<1> QED BY <1>1 DEF Kept

\* The documents of each path, and of the directories ps.
FoundOf == [p \in Paths |-> Found(p)]
FoundIn(ps) == SumFunctionOnSet(FoundOf, ps)

\* Without a failure or a stop the ranking set has the documents of the merge nodes
\* that were searched; during a merge, those of the nodes before and of the
\* directories visited.
DocumentsInv ==
  ret_code # "DB_MISSING" /\ pc \notin {"front_exit", "done"} /\ fails = 0 /\ ~limited =>
    /\ result # -1 => n_items = due
    /\ result = -1 => \E d \in 0 .. Capacity :
         /\ due = Min({Capacity, d + DueIn(tree, posted, scored)})
         /\ n_items = Kept(d + FoundIn(ToSet(visited)))

LEMMA FoundOfNat == \A p \in Paths : FoundOf[p] \in Nat /\ FoundOf[p] = Found(p)
  BY FoundInBounds, SearchAssumption DEF FoundOf, Found

\* As long as the index is the same, the same paths have the same documents.
LEMMA FoundSame ==
  ASSUME UNCHANGED <<index, scored>> PROVE FoundOf' = FoundOf
<1>2. \A p : Merged(p)' <=> Merged(p)
  BY MergedSame
<1>3. ASSUME NEW p \in Paths PROVE Found(p)' = Found(p)
  BY <1>2 DEF Found, IdsInAll
<1>4. FoundOf' = [p \in Paths |-> Found(p)']
  BY DEF FoundOf
<1> QED BY <1>3, <1>4 DEF FoundOf

\* What was found where all directories in common were visited is what is due:
\* where there are no posting files, or they are pruned, nothing is.
LEMMA FoundIsDue ==
  ASSUME posted \in SUBSET Paths, IsFiniteSet(Common)
  PROVE  FoundIn(Common) = DueIn(tree, posted, scored) /\ FoundIn(Common) \in Nat
<1> DEFINE T == Common
           S == InCommon(tree, posted)
           w == IdsOf(scored)
           v == FoundOf
<1>1. T \in SUBSET Paths /\ S \in SUBSET T
  BY DEF Common, InCommon
<1>2. \A x \in T : v[x] \in Nat
  BY <1>1, FoundOfNat
<1>3. ASSUME NEW x \in S PROVE w[x] = v[x]
  <2>1. x \in posted /\ x \in Paths
    BY DEF InCommon
  <2>2. w[x] = Cardinality(IdsInAll(x) \cap scored[x]) /\ v[x] = Found(x)
    BY <2>1 DEF IdsOf, FoundOf
  <2>3. CASE Pruned(x)
    <3>1. IdsInAll(x) \cap scored[x] = {}
      BY <2>1, <2>3, PrunedHaveNone DEF Pruned
    <3> QED BY <2>2, <2>3, <3>1, FS_EmptySet DEF Found, Merged
  <2>4. CASE ~Pruned(x)
    BY <2>1, <2>2, <2>4 DEF Found, Merged
  <2> QED BY <2>3, <2>4
<1>4. ASSUME NEW x \in T \ S PROVE v[x] = 0
  <2>1. x \in Paths /\ x \notin posted
    BY DEF Common, InCommon
  <2> QED BY <2>1 DEF FoundOf, Found, Merged
<1>5. SumFunctionOnSet(w, S) = SumFunctionOnSet(v, T) /\ SumFunctionOnSet(v, T) \in Nat
  <2>1. IsFiniteSet(T)
    OBVIOUS
  <2> HIDE DEF S, T, w, v
  <2> QED BY <1>1, <1>2, <1>3, <1>4, <2>1, SumSame, SumNat
<1> QED BY <1>5 DEF FoundIn, DueIn

\* A visit offers the documents of its directory.
LEMMA VisitFinds ==
  ASSUME DirInv, Visit, UNCHANGED scored
  PROVE  /\ FoundIn(ToSet(visited)) \in Nat /\ Found(top.rel) \in Nat
         /\ FoundIn(ToSet(visited))' = FoundIn(ToSet(visited)) + Found(top.rel)
<1>1. /\ top.rel \in Paths /\ top.rel \notin ToSet(visited)
      /\ IsFiniteSet(ToSet(visited)) /\ ToSet(visited) \in SUBSET Paths
      /\ ToSet(visited') = ToSet(visited) \cup {top.rel}
  BY VisitAdds DEF Visit
<1>2. FoundOf' = FoundOf
  BY FoundSame DEF Visit, CallbackDone
<1> DEFINE y == top.rel
           S == ToSet(visited)
           w == FoundOf
<1>3. IsFiniteSet(S) /\ y \notin S /\ w[y] \in Nat /\ \A x \in S : w[x] \in Nat /\ w[x] = w[x]
  BY <1>1, FoundOfNat
<1>4. FoundIn(S)' = SumFunctionOnSet(w, S \cup {y})
  BY <1>1, <1>2 DEF FoundIn
<1>5. /\ SumFunctionOnSet(w, S \cup {y}) = SumFunctionOnSet(w, S) + w[y]
      /\ SumFunctionOnSet(w, S) \in Nat
  <2> HIDE DEF w, S, y
  <2>1. SumFunctionOnSet(w, S) \in Nat
    BY <1>3, SumNat
  <2>2. SumFunctionOnSet(w, S \cup {y}) = SumFunctionOnSet(w, S) + w[y]
    BY <1>3, SumAdd
  <2> QED BY <2>1, <2>2
<1>6. Found(y) = w[y]
  BY <1>1, FoundOfNat
<1> QED BY <1>3, <1>4, <1>5, <1>6 DEF FoundIn

\* Each step of the search keeps the account of the documents.
LEMMA DocumentsInvStep ==
  SearchInv /\ MergeInv /\ DocumentsInv /\ [NodeNext]_nodeVars => DocumentsInv'
<1> SUFFICES ASSUME SearchInv, MergeInv, DocumentsInv, [NodeNext]_nodeVars,
                    ret_code' # "DB_MISSING", pc' \notin {"front_exit", "done"},
                    fails' = 0, ~limited'
             PROVE  /\ result' # -1 => n_items' = due'
                    /\ result' = -1 => \E d \in 0 .. Capacity :
                         /\ due' = Min({Capacity, d + DueIn(tree', posted', scored')})
                         /\ n_items' = Kept(d + FoundIn(ToSet(visited))')
  BY DEF DocumentsInv
<1>0. /\ Capacity \in Nat /\ n_items \in 0 .. Capacity /\ fails \in Nat
      /\ DirInv /\ (result = -1 <=> pc = "merge_search")
  BY SearchAssumption DEF SearchInv, SearchTypeOK, MergeInv, DirInv, DirInv1, Typed
<1>1. CASE OutsideNode
  <2>1. UNCHANGED <<tree, posted, visited, fails, result, scored, due, limited, index>>
    BY <1>1 DEF OutsideNode, dirVars, index
  <2>2. /\ pc # "merge_search" /\ pc \notin {"front_exit", "done"} /\ ret_code # "DB_MISSING"
        /\ n_items' = n_items
    BY <1>1 DEF OutsideNode, Driver, GetQuery, NoQuery, NoQueryString, BadOption, CallSearch,
       RankInit, NoDB, NoCollection, CollectionFound, ParserFails, Parsed, TooManyLeaves, Updated,
       SubpathError, Sort, Exit, RankFree, QueryFree, Fail, front,
       SearchInv, RankHeld
  <2> QED BY <1>0, <2>1, <2>2 DEF DocumentsInv
<1>2. CASE StartNode
  <2>1. /\ pc = "node" /\ result' = -1 /\ n_items' = n_items /\ visited' = <<>>
        /\ due' = Min({Capacity, due + DueIn(tree', posted', scored')})
        /\ UNCHANGED <<fails, limited, ret_code>>
    BY <1>2 DEF StartNode, Construct, BeginMerge, BeginIndex
  <2>2. n_items = due
    BY <1>0, <2>1 DEF DocumentsInv
  <2>3. FoundIn(ToSet(visited))' = 0
    <3>1. FoundIn({})' = 0
      BY SumNat, FS_EmptySet DEF FoundIn
    <3>2. ToSet(visited') = {}
      BY <2>1 DEF ToSet
    <3> QED BY <3>1, <3>2 DEF FoundIn
  <2>4. n_items = Kept(n_items + 0)
    BY <1>0 DEF Kept
  <2> QED BY <1>0, <2>1, <2>2, <2>3, <2>4
<1>3. ASSUME UNCHANGED <<index, visited, result, n_items, scored, due, ret_code, pc, limited>>,
             fails = 0
      PROVE  /\ result' # -1 => n_items' = due'
             /\ result' = -1 => \E d \in 0 .. Capacity :
                  /\ due' = Min({Capacity, d + DueIn(tree', posted', scored')})
                  /\ n_items' = Kept(d + FoundIn(ToSet(visited))')
  <2>1. FoundIn(ToSet(visited))' = FoundIn(ToSet(visited)) /\ UNCHANGED <<tree, posted>>
    BY <1>3, FoundSame DEF FoundIn, index
  <2> QED BY <1>3, <2>1 DEF DocumentsInv
<1>4. CASE InNode
  <2>1. UNCHANGED <<index, visited, result, n_items, scored, due, ret_code, pc, limited>>
    BY <1>0, <1>4, InsideStops DEF InNode, searchVars
  <2>2. fails' = fails \/ fails' = fails + 1
    BY <1>4 DEF InNode, Inside, OpenDir, OpenDirFails, AllOpen, Stop, Skip, Descend, AllRead,
       ReturnUp
  <2>3. fails = 0
    BY <1>0, <2>2
  <2> QED BY <1>3, <2>1, <2>3
<1>5. CASE VisitOffers
  <2>1. /\ Visit /\ result = -1 /\ result' = -1 
        /\ UNCHANGED <<tree, posted, fails, scored, due, limited, ret_code, pc>>
    BY <1>5 DEF VisitOffers, Visit, CallbackDone, At, index, Offer
  <2>2. PICK d \in 0 .. Capacity :
          /\ due = Min({Capacity, d + DueIn(tree, posted, scored)})
          /\ n_items = Kept(d + FoundIn(ToSet(visited)))
    BY <2>1 DEF DocumentsInv
  <2>3. n_items' = Kept(n_items + Found(top.rel))
    BY <1>5 DEF VisitOffers, Offer, Kept
  <2>4. /\ FoundIn(ToSet(visited)) \in Nat /\ Found(top.rel) \in Nat
        /\ FoundIn(ToSet(visited))' = FoundIn(ToSet(visited)) + Found(top.rel)
    BY <1>0, <2>1, VisitFinds
  <2>5. n_items' = Kept(d + FoundIn(ToSet(visited))')
    <3> DEFINE a == FoundIn(ToSet(visited))
               b == Found(top.rel)
    <3>1. a \in Nat /\ b \in Nat /\ d \in Nat /\ n_items = Kept(d + a) /\ n_items' = Kept(n_items + b)
      BY <2>2, <2>3, <2>4
    <3> HIDE DEF a, b
    <3>2. d + a \in Nat /\ (d + a) + b = d + (a + b)
      BY <3>1
    <3>3. Kept(Kept(d + a) + b) = Kept((d + a) + b)
      BY <3>1, <3>2, KeptAdds
    <3>4. n_items' = Kept(d + (a + b))
      BY <3>1, <3>2, <3>3
    <3> QED BY <2>4, <3>4 DEF a, b
  <2> QED BY <2>1, <2>2, <2>5
<1>9. CASE VisitFails
  BY <1>0, <1>9 DEF VisitFails, PostingOpenFails
<1>6. CASE EndNode
  <2>1. /\ Step /\ result = -1 /\ result' = top.ret /\ limited' = (limited \/ top.ret = 1)
        /\ pc = "merge_search"
        /\ UNCHANGED <<index, tree, posted, visited, fails, n_items, scored, due, ret_code>>
    BY <1>0, <1>6 DEF EndNode, Step, ReturnOut, At, MergeDone, index
  <2>2. result' = 0 /\ ~limited
    <3>1. top \in Frame
      BY <1>0, TopIsFrame DEF DirInv, DirInv1, Typed
    <3> QED BY <2>1, <3>1 DEF Frame
  <2>3. ToSet(visited) = Common /\ Common' = Common
    <3>1. DirInv'
      BY <1>0, <2>1, DirInvStep
    <3>2. VisitsCommon'
      BY <3>1, InvVisitsCommon, PTL
    <3> QED BY <2>1, <2>2, <3>2 DEF VisitsCommon, Common, index
  <2>4. PICK d \in 0 .. Capacity :
          /\ due = Min({Capacity, d + DueIn(tree, posted, scored)})
          /\ n_items = Kept(d + FoundIn(ToSet(visited)))
    BY <2>1, <2>2 DEF DocumentsInv
  <2>5. FoundIn(Common) = DueIn(tree, posted, scored) /\ FoundIn(Common) \in Nat
    <3>1. posted \in SUBSET Paths /\ visited \in Seq(Paths)
      BY <1>0 DEF DirInv, DirInv1, Typed
    <3>2. IsFiniteSet(Common)
      BY <2>3, <3>1, FiniteToSet
    <3> QED BY <3>1, <3>2, FoundIsDue
  <2>6. d + FoundIn(Common) \in Nat
    BY <1>0, <2>4, <2>5
  <2>7. n_items = due
    BY <2>3, <2>4, <2>5, <2>6, KeptIs
  <2> QED BY <2>1, <2>2, <2>7
<1>7. CASE LeaveNode
  BY <1>0, <1>7 DEF LeaveNode, NodeExit, DocumentsInv
<1>8. CASE UNCHANGED nodeVars
  BY <1>3, <1>8 DEF nodeVars, dirVars, searchVars
<1> QED BY <1>1, <1>2, <1>4, <1>5, <1>6, <1>7, <1>8, <1>9 DEF NodeNext, NodeStep, NodeFinished

\* The merge nodes that were searched are all, or enough, or the one asked for.
Enough ==
  node = n_nodes \/ n_items >= STOP_MERG_ND_RK_ITEMS \/ (~en_merges_nd_se /\ node = 1)

\* How the loop over the merge nodes goes on and ends.
LoopInv ==
  /\ ~en_merges_nd_se /\ pc \in {"node", "merge_search", "node_exit", "node_exit_break"} => node = 0
  /\ pc = "node_exit" => GoOn(n_items)
  /\ pc = "node_exit_break" => ret_err \/ ~GoOn(n_items)
  /\ pc = "sort" => ret_err \/ Enough
  /\ ret_err => pc \in {"node_exit_break", "sort"} \/ ret_code # "GOOD"
  /\ pc \in {"exit", "returned"} /\ ret_code = "GOOD" => Enough

LEMMA LoopInvStep == SearchInv /\ LoopInv /\ [SearchNext]_searchVars => LoopInv'
<1> SUFFICES ASSUME SearchInv, LoopInv, [SearchNext]_searchVars PROVE LoopInv'
  OBVIOUS
<1>0. /\ node \in Nat /\ n_nodes \in Nat /\ n_items \in Nat
      /\ pc = "update" => node = 0
      /\ pc \in {"node_exit", "node_exit_break"} => node < n_nodes
      /\ en_merges_nd_se \in BOOLEAN /\ STOP_MERG_ND_RK_ITEMS \in Nat
  BY SearchAssumption DEF SearchInv, SearchTypeOK, NodeCount
<1>1. CASE GetQuery \/ NoQuery \/ NoQueryString \/ BadOption \/ CallSearch
  BY <1>1 DEF GetQuery, NoQuery, NoQueryString, BadOption, CallSearch, LoopInv
<1>2. ASSUME NEW dbs \in SUBSET {"db_formula", "db_textree"}, RankInit(dbs) PROVE LoopInv'
  BY <1>2 DEF RankInit, LoopInv
<1>3. CASE NoDB \/ NoCollection("COL_UNSET") \/ NoCollection("COL_MISSING") \/ ParserFails \/ TooManyLeaves
  BY <1>3 DEF NoDB, NoCollection, ParserFails, TooManyLeaves, Fail, LoopInv
<1>4. CASE CollectionFound \/ Parsed
  BY <1>4 DEF CollectionFound, Parsed, LoopInv
<1>5. CASE Updated
  BY <1>0, <1>5 DEF Updated, LoopInv
<1>6. ASSUME NEW some \in BOOLEAN, SubpathError(some) PROVE LoopInv'
  BY <1>6 DEF SubpathError, LoopInv
<1>7. CASE Sort
  BY <1>7 DEF Sort, LoopInv, Enough
<1>8. CASE Exit
  BY <1>8 DEF Exit, LoopInv, Enough
<1>9. CASE RankFree \/ QueryFree
  BY <1>9 DEF RankFree, QueryFree, LoopInv
<1>10. CASE NodeExit
  <2>1. /\ pc \in {"node_exit", "node_exit_break"} /\ node' = node + 1
        /\ pc' = IF pc = "node_exit" /\ node + 1 < n_nodes THEN "node" ELSE "sort"
        /\ UNCHANGED <<ret_code, n_nodes, n_items, en_merges_nd_se, ret_err>>
    BY <1>10 DEF NodeExit
  <2>2. CASE pc = "node_exit"
    <3>1. en_merges_nd_se /\ ret_code' = ret_code /\ (ret_err => ret_code # "GOOD")
      BY <2>1, <2>2 DEF LoopInv, GoOn
    <3>2. pc' = "node" \/ (pc' = "sort" /\ node' = n_nodes')
      BY <1>0, <2>1, <2>2
    <3> QED BY <2>1, <3>1, <3>2 DEF LoopInv, Enough
  <2>3. CASE pc = "node_exit_break"
    <3>1. pc' = "sort"
      BY <2>1, <2>3
    <3>2. ret_err \/ n_items >= STOP_MERG_ND_RK_ITEMS \/ (~en_merges_nd_se /\ node = 0)
      BY <1>0, <2>3 DEF LoopInv, GoOn
    <3>3. ret_err' \/ Enough'
      BY <1>0, <2>1, <3>2 DEF Enough
    <3> QED BY <2>1, <3>1, <3>3 DEF LoopInv
  <2> QED BY <2>1, <2>2, <2>3
<1>11. CASE Construct
  BY <1>11 DEF Construct, LoopInv
<1>12. ASSUME NEW found \in 0 .. MaxFound, Offer(found) PROVE LoopInv'
  BY <1>12 DEF Offer, LoopInv
<1>13. CASE MergeDone
  BY <1>13 DEF MergeDone, LoopInv, GoOn
<1>14. CASE UNCHANGED searchVars
  BY <1>14 DEF searchVars, LoopInv, GoOn, Enough
<1> QED
  BY <1>1, <1>2, <1>3, <1>4, <1>5, <1>6, <1>7, <1>8, <1>9, <1>10, <1>11, <1>12, <1>13, <1>14
  DEF SearchNext, SearchStep, Driver, SearchFinished

\* An answer called good has every document of the merge nodes it went through, as
\* many as the set takes, unless a directory did not open or a merge was stopped;
\* pruning by head.bin loses none; and the loop left no merge node out too early.
THEOREM GoodAnswerHasAll == NodeSpec => []AnswerHasAll
<1>1. NodeInit => DocumentsInv /\ LoopInv
  BY DEF NodeInit, SearchInit, DocumentsInv, LoopInv
<1>2. SearchInv /\ MergeInv /\ DocumentsInv /\ LoopInv => AnswerHasAll
  BY DEF MergeInv, DocumentsInv, LoopInv, AnswerHasAll, Enough
<1>3. NodeSpec => []SearchInv
  BY NodeImplementsDriver, SearchInvariant, PTL
<1>4. NodeSpec => []LoopInv
  <2>1. SearchInit => LoopInv
    BY DEF SearchInit, LoopInv
  <2>2. SearchInit /\ [][SearchNext]_searchVars => []LoopInv
    BY <2>1, LoopInvStep, SearchInvariant, PTL
  <2> QED BY <2>2, NodeImplementsDriver, PTL
<1>5. NodeSpec => []DocumentsInv
  BY <1>1, <1>3, MergesInvariant, DocumentsInvStep, PTL DEF NodeSpec
<1> QED BY <1>2, <1>3, <1>4, <1>5, MergesInvariant, PTL

=============================================================================
