----------------------------- MODULE RankProofs -----------------------------
(***************************************************************************)
(* Proofs about Rank and its heap, for every capacity, every comparison    *)
(* function that is a strict weak order and any number of documents: the   *)
(* heap order between operations; that the heap and rank.keep hold the     *)
(* same items in every state of every operation; that the best documents   *)
(* are kept, sorted best first, and shown once by the pages.               *)
(***************************************************************************)
EXTENDS Rank, TLAPS, NaturalsInduction, WellFoundedInduction, FiniteSetTheorems

---------------------------------------------------------------------------
(* The tree in the array *)

\* The father of an index that is not the root.
LEMMA FatherIs ==
  ASSUME NEW k \in Nat \ {0}
  PROVE  /\ Father(k) \in Nat /\ Father(k) < k
         /\ k = 2 * Father(k) + 1 \/ k = 2 * Father(k) + 2
BY DEF Father

\* The order of two cells: ltf is a strict weak order.
LEMMA WeakOrder ==
  ASSUME HeapTypeOK, NEW a \in Items, NEW b \in Items, NEW c \in Items
  PROVE  /\ ~Lt(ltf, a, a)
         /\ Lt(ltf, a, b) => ~Lt(ltf, b, a)
         /\ ~Lt(ltf, a, b) /\ ~Lt(ltf, b, c) => ~Lt(ltf, a, c)
BY OrderAssumption DEF HeapTypeOK

\* A cell in the heap holds an item.
LEMMA CellIsItem ==
  ASSUME HeapTypeOK, NEW k \in 0 .. end - 1
  PROVE  array[k] \in Items /\ k \in Indexes
BY SizeAssumption DEF HeapTypeOK, Indexes

\* What two swapped cells show.
LEMMA SwappedIs ==
  ASSUME HeapTypeOK, NEW j \in Indexes, NEW l \in Indexes
  PROVE  /\ Swapped(j, l) \in [Indexes -> Items \cup {NULL}]
         /\ Swapped(j, l)[l] = array[j]
         /\ Swapped(j, l)[j] = array[l]
         /\ \A k \in Indexes : k # j /\ k # l => Swapped(j, l)[k] = array[k]
BY DEF HeapTypeOK, Swapped

\* min_son(): the index or one of its sons, and no son is less.
LEMMA MinSonIs ==
  ASSUME HeapTypeOK, NEW h \in 0 .. end - 1
  PROVE  /\ MinSon(h) \in 0 .. end - 1
         /\ MinSon(h) # h => /\ Father(MinSon(h)) = h /\ MinSon(h) > h
                             /\ Lt(ltf, array[MinSon(h)], array[h])
         /\ \A k \in 1 .. end - 1 :
              Father(k) = h => ~Lt(ltf, array[k], array[MinSon(h)])
<1> DEFINE r == RightSon(h)
           l == r - 1
           m == IF r < end /\ Lt(ltf, array[r], array[h]) THEN r ELSE h
<1>1. end \in Nat /\ h \in Nat
  BY SizeAssumption DEF HeapTypeOK
<1>2. r \in Nat /\ l \in Nat /\ r = 2 * h + 2 /\ l = 2 * h + 1
  BY <1>1 DEF RightSon
<1>3. Father(r) = h /\ Father(l) = h
  BY <1>1, <1>2 DEF Father
<1>4. MinSon(h) = IF l < end /\ Lt(ltf, array[l], array[m]) THEN l ELSE m
  BY DEF MinSon
<1>5. ASSUME NEW k \in 1 .. end - 1, Father(k) = h PROVE k = r \/ k = l
  BY <1>1, <1>2, <1>5, FatherIs
<1>6. array[h] \in Items
  BY CellIsItem
<1>7. r < end => array[r] \in Items
  BY <1>1, <1>2, CellIsItem
<1>8. l < end => array[l] \in Items
  BY <1>1, <1>2, CellIsItem
<1>9. m \in 0 .. end - 1 /\ array[m] \in Items
  BY <1>1, <1>2, <1>6, <1>7
<1>10. MinSon(h) \in 0 .. end - 1
  BY <1>1, <1>2, <1>4, <1>9
<1>11. ~Lt(ltf, array[h], array[m])
  <2>1. CASE m = h
    BY <2>1, <1>6, WeakOrder
  <2>2. CASE m # h
    BY <2>2, <1>6, <1>7, WeakOrder
  <2> QED
    BY <2>1, <2>2
<1>12. r < end => ~Lt(ltf, array[r], array[m])
  <2>1. CASE m = h
    BY <2>1, <1>1, <1>2
  <2>2. CASE m # h
    BY <2>2, <1>7, WeakOrder
  <2> QED
    BY <2>1, <2>2
<1>13. CASE l < end /\ Lt(ltf, array[l], array[m])
  <2>1. MinSon(h) = l
    BY <1>4, <1>13
  <2>2. ~Lt(ltf, array[m], array[l])
    BY <1>13, <1>8, <1>9, WeakOrder
  <2>3. Lt(ltf, array[l], array[h])
    <3>1. SUFFICES ASSUME ~Lt(ltf, array[l], array[h]) PROVE FALSE
      OBVIOUS
    <3>2. ~Lt(ltf, array[l], array[m])
      BY <3>1, <1>11, <1>13, <1>8, <1>9, <1>6, WeakOrder
    <3> QED
      BY <3>2, <1>13
  <2>4. r < end => ~Lt(ltf, array[r], array[l])
    BY <2>2, <1>12, <1>7, <1>8, <1>9, <1>13, WeakOrder
  <2>5. ~Lt(ltf, array[l], array[l])
    BY <1>13, <1>8, WeakOrder
  <2>6. \A k \in 1 .. end - 1 :
          Father(k) = h => ~Lt(ltf, array[k], array[MinSon(h)])
    BY <2>1, <2>4, <2>5, <1>5, <1>1, <1>2
  <2> QED
    BY <2>1, <2>3, <2>6, <1>10, <1>3, <1>2, <1>1
<1>14. CASE ~(l < end /\ Lt(ltf, array[l], array[m]))
  <2>1. MinSon(h) = m
    BY <1>4, <1>14
  <2>2. m # h => m = r /\ Lt(ltf, array[m], array[h])
    OBVIOUS
  <2>3. \A k \in 1 .. end - 1 :
          Father(k) = h => ~Lt(ltf, array[k], array[MinSon(h)])
    BY <2>1, <1>12, <1>14, <1>5, <1>1, <1>2
  <2> QED
    BY <2>1, <2>2, <2>3, <1>10, <1>3, <1>2, <1>1
<1> QED
  BY <1>13, <1>14

---------------------------------------------------------------------------
(* Each heap step keeps the types and the order *)

\* Facts that every order proof needs about a father in the heap.
LEMMA FatherInHeap ==
  ASSUME HeapTypeOK, NEW k \in 1 .. end - 1
  PROVE  /\ k \in 0 .. end - 1 /\ Father(k) \in 0 .. end - 1
         /\ Father(k) \in Nat /\ Father(k) < k
         /\ array[k] \in Items /\ array[Father(k)] \in Items
<1>1. end \in Nat /\ k \in Nat \ {0}
  BY SizeAssumption DEF HeapTypeOK
<1>2. Father(k) \in Nat /\ Father(k) < k
  BY <1>1, FatherIs
<1>3. k \in 0 .. end - 1 /\ Father(k) \in 0 .. end - 1
  BY <1>1, <1>2
<1> QED
  BY <1>2, <1>3, CellIsItem

\* minheap_insert() puts the new item behind the heap: the only one that may be
\* out of order.
LEMMA InsertKeeps ==
  ASSUME HeapTypeOK, HeapInv, NEW x \in Items, Insert(x)
  PROVE  HeapTypeOK' /\ HeapInv'
<1>1. end \in Nat /\ end < Size /\ end' = end + 1 /\ end \in Indexes
  BY SizeAssumption DEF HeapTypeOK, Insert, Full, Indexes
<1>2. /\ op = "idle" /\ op' = "up" /\ at' = end /\ ltf' = ltf
      /\ root' = root /\ next' = next
      /\ array' = [array EXCEPT ![end] = x]
  BY DEF Insert
<1>3. array' \in [Indexes -> Items \cup {NULL}]
  BY <1>2 DEF HeapTypeOK
<1>4. \A k \in Indexes : k # end => array'[k] = array[k]
  BY <1>2 DEF HeapTypeOK
<1>5. array'[end] = x
  BY <1>1, <1>2 DEF HeapTypeOK
<1>6. ASSUME NEW k \in 0 .. end' - 1 PROVE array'[k] \in Items
  <2>1. CASE k = end
    BY <2>1, <1>5
  <2>2. CASE k # end
    <3>1. k \in 0 .. end - 1
      BY <2>2, <1>1
    <3> QED
      BY <3>1, <2>2, <1>4, CellIsItem
  <2> QED
    BY <2>1, <2>2
<1>7. HeapTypeOK'
  BY <1>1, <1>2, <1>3, <1>6, SizeAssumption DEF HeapTypeOK
<1>8. OrderedFrom(0) /\ root = 0
  BY <1>2 DEF HeapInv
<1>9. OrderedUp(at)'
  <2> SUFFICES ASSUME NEW k \in 1 .. end' - 1
               PROVE  /\ k # at' => Ordered(k)'
                      /\ Father(k) = at' /\ at' # 0 =>
                           ~Lt(ltf', array'[k], array'[Father(at')])
    BY DEF OrderedUp, Father
  <2>1. k \in Nat \ {0} /\ k <= end
    BY <1>1
  <2>2. Father(k) \in Nat /\ Father(k) < k
    BY <2>1, FatherIs
  <2>3. ASSUME k # end PROVE Ordered(k)'
    <3>1. k \in 1 .. end - 1
      BY <2>1, <2>3, <1>1
    <3>2. Ordered(k)
      BY <3>1, <1>8, <2>2 DEF OrderedFrom
    <3>3. k \in Indexes /\ Father(k) \in Indexes /\ Father(k) # end
      BY <3>1, <2>2, <1>1, SizeAssumption DEF Indexes
    <3>4. array'[k] = array[k] /\ array'[Father(k)] = array[Father(k)]
      BY <3>3, <2>3, <1>4
    <3> QED
      BY <3>2, <3>4, <1>2 DEF Ordered, Father
  <2>4. Father(k) # end
    BY <2>1, <2>2, <1>1
  <2> QED
    BY <2>3, <2>4, <1>2
<1> QED
  BY <1>2, <1>7, <1>8, <1>9 DEF HeapInv

\* One level up, the item swapped with its father when it is less.
LEMMA ShiftUpKeeps ==
  ASSUME HeapTypeOK, HeapInv, ShiftUp
  PROVE  HeapTypeOK' /\ HeapInv'
<1> DEFINE h == at
           f == Father(at)
<1>1. /\ op = "up" /\ h # 0 /\ op' = "up" /\ at' = f
      /\ end' = end /\ ltf' = ltf /\ root' = root /\ next' = next
  BY DEF ShiftUp
<1>2. h \in 1 .. end - 1 /\ end \in Nat
  BY <1>1, SizeAssumption DEF HeapTypeOK
<1>3. /\ h \in 0 .. end - 1 /\ f \in 0 .. end - 1 /\ f \in Nat /\ f < h
      /\ array[h] \in Items /\ array[f] \in Items
  BY <1>2, FatherInHeap
<1>4. h \in Indexes /\ f \in Indexes
  BY <1>3, CellIsItem
<1>5. OrderedUp(h) /\ root = 0
  BY <1>1 DEF HeapInv
<1> HIDE DEF h, f
<1>6. CASE Lt(ltf, array[h], array[f])
  <2>1. array' = Swapped(h, f)
    BY <1>6 DEF ShiftUp, h, f
  <2>2. /\ array' \in [Indexes -> Items \cup {NULL}]
        /\ array'[f] = array[h] /\ array'[h] = array[f]
        /\ \A k \in Indexes : k # h /\ k # f => array'[k] = array[k]
    BY <2>1, <1>4, SwappedIs
  <2>3. ASSUME NEW k \in 0 .. end - 1 PROVE array'[k] \in Items
    BY <2>2, <1>3, CellIsItem
  <2>4. HeapTypeOK'
    BY <2>2, <2>3, <1>1, <1>3, <1>2 DEF HeapTypeOK
  <2>5. ASSUME NEW k \in 1 .. end - 1, k # f PROVE Ordered(k)'
    <3>1. /\ k \in 0 .. end - 1 /\ Father(k) \in 0 .. end - 1
          /\ Father(k) < k
          /\ array[k] \in Items /\ array[Father(k)] \in Items
          /\ k \in Indexes /\ Father(k) \in Indexes
      BY FatherInHeap, CellIsItem
    <3>2. SUFFICES ~Lt(ltf, array'[k], array'[Father(k)])
      BY <1>1 DEF Ordered, Father
    <3>3. CASE k = h
      <4>1. Father(k) = f
        BY <3>3 DEF h, f
      <4>2. array'[k] = array[f] /\ array'[Father(k)] = array[h]
        BY <4>1, <3>3, <2>2
      <4> QED
        BY <4>2, <1>6, <1>3, WeakOrder
    <3>4. CASE k # h /\ Father(k) = h
      <4>1. array'[k] = array[k] /\ array'[Father(k)] = array[f]
        BY <3>4, <3>1, <2>2, <2>5
      <4>2. ~Lt(ltf, array[k], array[Father(h)])
        BY <3>4, <1>5, <1>2 DEF OrderedUp
      <4> QED
        BY <4>1, <4>2 DEF f, h
    <3>5. CASE k # h /\ Father(k) = f
      <4>1. array'[k] = array[k] /\ array'[Father(k)] = array[h]
        BY <3>5, <3>1, <2>2, <2>5
      <4>2. ~Lt(ltf, array[k], array[f])
        BY <3>5, <1>5 DEF OrderedUp, Ordered
      <4>3. ~Lt(ltf, array[f], array[h])
        BY <1>6, <1>3, WeakOrder
      <4> QED
        BY <4>1, <4>2, <4>3, <3>1, <1>3, WeakOrder
    <3>6. CASE k # h /\ Father(k) # h /\ Father(k) # f
      <4>1. array'[k] = array[k] /\ array'[Father(k)] = array[Father(k)]
        BY <3>6, <3>1, <2>2, <2>5
      <4>2. ~Lt(ltf, array[k], array[Father(k)])
        BY <3>6, <1>5 DEF OrderedUp, Ordered
      <4> QED
        BY <4>1, <4>2
    <3> QED
      BY <3>3, <3>4, <3>5, <3>6
  <2>6. ASSUME NEW k \in 1 .. end - 1, Father(k) = f, f # 0
        PROVE  ~Lt(ltf, array'[k], array'[Father(f)])
    <3>1. f \in 1 .. end - 1
      BY <1>3, <1>2, <2>6
    <3>2. /\ Father(f) \in 0 .. end - 1 /\ Father(f) < f
          /\ array[Father(f)] \in Items /\ Father(f) \in Indexes
      BY <3>1, FatherInHeap, CellIsItem
    <3>3. array'[Father(f)] = array[Father(f)]
      BY <3>2, <2>2, <1>3
    <3>4. ~Lt(ltf, array[f], array[Father(f)])
      BY <3>1, <1>3, <1>5 DEF OrderedUp, Ordered
    <3>5. CASE k = h
      BY <3>5, <3>3, <3>4, <2>2
    <3>6. CASE k # h
      <4>1. /\ array[k] \in Items /\ k \in Indexes /\ k # f
        BY <2>6, FatherInHeap, CellIsItem
      <4>2. array'[k] = array[k]
        BY <4>1, <3>6, <2>2
      <4>3. ~Lt(ltf, array[k], array[f])
        BY <3>6, <2>6, <1>5 DEF OrderedUp, Ordered
      <4> QED
        BY <4>1, <4>2, <4>3, <3>2, <3>3, <3>4, <1>3, WeakOrder
    <3> QED
      BY <3>5, <3>6
  <2>7. OrderedUp(at)'
    BY <2>5, <2>6, <1>1 DEF OrderedUp, Father, f
  <2> QED
    BY <2>4, <2>7, <1>1, <1>5 DEF HeapInv
<1>7. CASE ~Lt(ltf, array[h], array[f])
  <2>1. array' = array
    BY <1>7 DEF ShiftUp, h, f
  <2>2. HeapTypeOK'
    BY <2>1, <1>1, <1>3, <1>2 DEF HeapTypeOK
  <2>3. ASSUME NEW k \in 1 .. end - 1 PROVE ~Lt(ltf, array[k], array[Father(k)])
    <3>1. CASE k = h
      BY <3>1, <1>7 DEF h, f
    <3>2. CASE k # h
      BY <3>2, <1>5 DEF OrderedUp, Ordered
    <3> QED
      BY <3>1, <3>2
  <2>4. ASSUME NEW k \in 1 .. end - 1, Father(k) = f, f # 0
        PROVE  ~Lt(ltf, array[k], array[Father(f)])
    <3>1. f \in 1 .. end - 1
      BY <1>3, <1>2, <2>4
    <3>2. array[Father(f)] \in Items /\ array[k] \in Items
      BY <3>1, FatherInHeap
    <3> QED
      BY <3>1, <3>2, <2>3, <2>4, <1>3, WeakOrder
  <2>5. OrderedUp(at)'
    BY <2>1, <2>3, <2>4, <1>1 DEF OrderedUp, Ordered, Father, f
  <2> QED
    BY <2>2, <2>5, <1>1, <1>5 DEF HeapInv
<1> QED
  BY <1>6, <1>7

\* At the root the whole heap is in order.
LEMMA UpDoneKeeps ==
  ASSUME HeapTypeOK, HeapInv, UpDone
  PROVE  HeapTypeOK' /\ HeapInv'
<1>1. /\ op = "up" /\ at = 0 /\ op' = "idle"
      /\ array' = array /\ end' = end /\ ltf' = ltf
      /\ root' = root /\ next' = next /\ at' = at
  BY DEF UpDone
<1>2. HeapTypeOK'
  BY <1>1 DEF HeapTypeOK
<1>3. OrderedUp(0) /\ root = 0
  BY <1>1 DEF HeapInv
<1>4. \A k \in 1 .. end - 1 : ~Lt(ltf, array[k], array[Father(k)])
  <2> TAKE k \in 1 .. end - 1
  <2>1. k # 0
    OBVIOUS
  <2> QED
    BY <1>3, <2>1 DEF OrderedUp, Ordered
<1>5. OrderedFrom(0)'
  BY <1>1, <1>4 DEF OrderedFrom, Ordered, Father
<1> QED
  BY <1>1, <1>2, <1>3, <1>5 DEF HeapInv

\* min_shift_down() swaps the hole with its least son.
LEMMA ShiftDownKeeps ==
  ASSUME HeapTypeOK, HeapInv, ShiftDown
  PROVE  HeapTypeOK' /\ HeapInv'
<1> DEFINE h == at
           m == MinSon(at)
<1>1. /\ op = "down" /\ op' = "down" /\ m # h /\ at' = m
      /\ array' = Swapped(m, h)
      /\ end' = end /\ ltf' = ltf /\ root' = root /\ next' = next
  BY DEF ShiftDown
<1>2. end \in Nat /\ h \in Nat /\ root \in Nat
  BY SizeAssumption DEF HeapTypeOK
<1>3. h < end
  <2>1. SUFFICES ASSUME ~(h < end) PROVE FALSE
    OBVIOUS
  <2>2. h = 0 /\ end = 0
    BY <2>1, <1>1, <1>2 DEF HeapTypeOK
  <2>3. RightSon(0) = 2
    BY DEF RightSon
  <2>4. ~(RightSon(0) < end) /\ ~(RightSon(0) - 1 < end)
    BY <2>2, <2>3
  <2>5. MinSon(0) = 0
    BY <2>4 DEF MinSon
  <2> QED
    BY <2>2, <2>5, <1>1
<1>4. /\ m \in 0 .. end - 1 /\ h \in 0 .. end - 1
      /\ Father(m) = h /\ m > h /\ Lt(ltf, array[m], array[h])
      /\ \A k \in 1 .. end - 1 :
           Father(k) = h => ~Lt(ltf, array[k], array[m])
  BY <1>1, <1>2, <1>3, MinSonIs
<1>5. /\ m \in Indexes /\ h \in Indexes
      /\ array[m] \in Items /\ array[h] \in Items
  BY <1>4, CellIsItem
<1>6. OrderedDown(root, h) /\ h >= root
  BY <1>1 DEF HeapInv
<1> HIDE DEF h, m
<1>7. /\ array' \in [Indexes -> Items \cup {NULL}]
      /\ array'[h] = array[m] /\ array'[m] = array[h]
      /\ \A k \in Indexes : k # h /\ k # m => array'[k] = array[k]
  BY <1>1, <1>5, SwappedIs
<1>8. ASSUME NEW k \in 0 .. end - 1 PROVE array'[k] \in Items
  BY <1>7, <1>5, CellIsItem
<1>9. HeapTypeOK'
  BY <1>1, <1>2, <1>4, <1>7, <1>8 DEF HeapTypeOK
<1>10. ASSUME NEW k \in 1 .. end - 1, Father(k) >= root, Father(k) # m
       PROVE  ~Lt(ltf, array'[k], array'[Father(k)])
  <2>1. /\ k \in Indexes /\ Father(k) \in Indexes /\ Father(k) < k
        /\ array[k] \in Items /\ array[Father(k)] \in Items
        /\ Father(k) \in Nat
    BY FatherInHeap, CellIsItem
  <2>2. CASE k = m
    <3>1. array'[k] = array[h] /\ array'[Father(k)] = array[m]
      BY <2>2, <1>4, <1>7
    <3> QED
      BY <3>1, <1>4, <1>5, WeakOrder
  <2>3. CASE k # m /\ Father(k) = h
    <3>1. array'[k] = array[k] /\ array'[Father(k)] = array[m]
      BY <2>1, <2>3, <1>7
    <3> QED
      BY <3>1, <2>3, <1>4
  <2>4. CASE k = h
    <3>1. array'[k] = array[m] /\ array'[Father(k)] = array[Father(k)]
      BY <2>1, <2>4, <1>7, <1>10
    <3>2. h # 0 /\ m \in 1 .. end - 1
      BY <2>4, <1>2, <1>4
    <3>3. ~Lt(ltf, array[m], array[Father(h)])
      BY <3>2, <2>4, <1>4, <1>6, <1>10 DEF OrderedDown
    <3> QED
      BY <3>1, <3>3, <2>4
  <2>5. CASE k # m /\ k # h /\ Father(k) # h
    <3>1. array'[k] = array[k] /\ array'[Father(k)] = array[Father(k)]
      BY <2>1, <2>5, <1>7, <1>10
    <3>2. ~Lt(ltf, array[k], array[Father(k)])
      BY <2>5, <1>6, <1>10 DEF OrderedDown, Ordered
    <3> QED
      BY <3>1, <3>2
  <2> QED
    BY <2>2, <2>3, <2>4, <2>5
<1>11. ASSUME NEW k \in 1 .. end - 1, Father(k) = m
       PROVE  ~Lt(ltf, array'[k], array'[Father(m)])
  <2>1. k \in Indexes /\ Father(k) < k /\ k \in Nat
    BY FatherInHeap, CellIsItem
  <2>2. k # m /\ k # h
    BY <2>1, <1>11, <1>4, <1>2
  <2>3. array'[k] = array[k] /\ array'[Father(m)] = array[m]
    BY <2>1, <2>2, <1>4, <1>7
  <2>4. ~Lt(ltf, array[k], array[Father(k)])
    BY <1>2, <1>4, <1>6, <1>11 DEF OrderedDown, Ordered
  <2> QED
    BY <2>3, <2>4, <1>11
<1>12. OrderedDown(root, at)'
  BY <1>1, <1>10, <1>11 DEF OrderedDown, Ordered, Father
<1>13. at' >= root'
  BY <1>1, <1>2, <1>4, <1>6
<1>14. next # "heapify" => root = 0
  BY <1>1 DEF HeapInv
<1> QED
  BY <1>1, <1>9, <1>12, <1>13, <1>14 DEF HeapInv

\* No son is less than the hole: the order holds from the root index on.
LEMMA DownDoneKeeps ==
  ASSUME HeapTypeOK, HeapInv, DownDone
  PROVE  HeapTypeOK' /\ HeapInv'
<1>1. /\ op = "down" /\ MinSon(at) = at /\ op' = next
      /\ array' = array /\ end' = end /\ ltf' = ltf
      /\ at' = at /\ root' = root /\ next' = next
  BY DEF DownDone
<1>2. HeapTypeOK'
  BY <1>1 DEF HeapTypeOK
<1>3. /\ OrderedDown(root, at) /\ at \in Nat /\ end \in Nat
      /\ next # "heapify" => root = 0
  BY <1>1, SizeAssumption DEF HeapInv, HeapTypeOK
<1>4. ASSUME NEW k \in 1 .. end - 1, Father(k) >= root
      PROVE  ~Lt(ltf, array[k], array[Father(k)])
  <2>1. CASE Father(k) = at
    <3>1. at \in 0 .. end - 1
      BY <2>1, FatherInHeap
    <3> QED
      BY <3>1, <2>1, <1>1, MinSonIs
  <2>2. CASE Father(k) # at
    BY <2>2, <1>3, <1>4 DEF OrderedDown, Ordered
  <2> QED
    BY <2>1, <2>2
<1>5. OrderedFrom(root)'
  BY <1>1, <1>4 DEF OrderedFrom, Ordered, Father
<1>6. next \in {"idle", "heapify", "sort"}
  BY DEF HeapTypeOK
<1> QED
  BY <1>1, <1>2, <1>3, <1>5, <1>6 DEF HeapInv

\* minheap_replace() of the top: only the top may be out of order.
LEMMA ReplaceTopKeeps ==
  ASSUME HeapTypeOK, HeapInv, NEW x \in Items, Replace(x)
  PROVE  HeapTypeOK' /\ HeapInv'
<1>1. /\ op = "idle" /\ end > 0 /\ op' = "down" /\ at' = 0 /\ next' = "idle"
      /\ array' = [array EXCEPT ![0] = x]
      /\ end' = end /\ ltf' = ltf /\ root' = root
  BY DEF Replace, CallShiftDown
<1>2. end \in Nat /\ 0 \in Indexes
  BY <1>1, SizeAssumption DEF HeapTypeOK, Indexes
<1>3. /\ array' \in [Indexes -> Items \cup {NULL}]
      /\ array'[0] = x /\ \A k \in Indexes : k # 0 => array'[k] = array[k]
  BY <1>1, <1>2 DEF HeapTypeOK
<1>4. ASSUME NEW k \in 0 .. end - 1 PROVE array'[k] \in Items
  BY <1>3, CellIsItem
<1>5. HeapTypeOK'
  BY <1>1, <1>2, <1>3, <1>4 DEF HeapTypeOK
<1>6. OrderedFrom(0) /\ root = 0
  BY <1>1 DEF HeapInv
<1>7. ASSUME NEW k \in 1 .. end - 1, Father(k) # 0
      PROVE  ~Lt(ltf, array'[k], array'[Father(k)])
  <2>1. /\ k \in Indexes /\ Father(k) \in Indexes /\ k # 0 /\ Father(k) >= 0
    BY FatherInHeap, CellIsItem
  <2>2. ~Lt(ltf, array[k], array[Father(k)])
    BY <2>1, <1>6 DEF OrderedFrom, Ordered
  <2> QED
    BY <2>1, <2>2, <1>3, <1>7
<1>8. OrderedDown(root, at)'
  BY <1>1, <1>6, <1>7 DEF OrderedDown, Ordered, Father
<1> QED
  BY <1>1, <1>2, <1>5, <1>6, <1>8 DEF HeapInv

\* heap_sort_desc() starts with the last index that has a son.
LEMMA SortDescKeeps ==
  ASSUME HeapTypeOK, HeapInv, NEW g \in Compares, SortDesc(g)
  PROVE  HeapTypeOK' /\ HeapInv'
<1> DEFINE half == end \div 2
<1>1. /\ op = "idle" /\ ltf' = g /\ array' = array /\ end' = end
  BY DEF SortDesc
<1>2. /\ end \in Nat /\ half \in Nat /\ 2 * half <= end /\ end <= 2 * half + 1
  BY SizeAssumption DEF HeapTypeOK
<1>3. root = 0
  BY <1>1 DEF HeapInv
<1>4. CASE half = 0
  <2>1. op' = "sort" /\ at' = at /\ root' = root /\ next' = next
    BY <1>4 DEF SortDesc
  <2>2. HeapTypeOK'
    BY <2>1, <1>1 DEF HeapTypeOK
  <2>3. 1 .. end - 1 = {}
    BY <1>2, <1>4
  <2>4. OrderedFrom(0)'
    BY <2>3, <1>1 DEF OrderedFrom
  <2> QED
    BY <2>1, <2>2, <2>4, <1>3 DEF HeapInv
<1>5. CASE half # 0
  <2>1. /\ op' = "down" /\ at' = half - 1 /\ root' = half - 1
        /\ next' = "heapify"
    BY <1>5 DEF SortDesc, CallShiftDown
  <2>2. half - 1 \in Nat /\ half - 1 < end
    BY <1>2, <1>5
  <2> HIDE DEF half
  <2>3. HeapTypeOK'
    BY <2>1, <2>2, <1>1 DEF HeapTypeOK
  <2>4. ASSUME NEW k \in 1 .. end - 1, Father(k) >= half - 1 PROVE Father(k) = half - 1
    <3>1. k \in Nat \ {0} /\ k <= 2 * half
      BY <1>2
    <3>2. /\ Father(k) \in Nat
          /\ k = 2 * Father(k) + 1 \/ k = 2 * Father(k) + 2
      BY <3>1, FatherIs
    <3> QED
      BY <3>1, <3>2, <2>4, <1>2
  <2>5. ASSUME half - 1 # 0 PROVE ~(Father(half - 1) >= half - 1)
    <3>1. half - 1 \in Nat \ {0}
      BY <2>5, <2>2
    <3>2. Father(half - 1) \in Nat /\ Father(half - 1) < half - 1
      BY <3>1, FatherIs
    <3> QED
      BY <3>1, <3>2
  <2>6. OrderedDown(root, at)'
    BY <2>1, <2>4, <2>5, <1>1 DEF OrderedDown, Father
  <2> QED
    BY <2>1, <2>2, <2>3, <2>6 DEF HeapInv
<1> QED
  BY <1>4, <1>5

\* The next call of minheap_heapify()'s loop keeps the invariant.
LEMMA HeapifyNextKeeps ==
  ASSUME HeapTypeOK, HeapInv, HeapifyNext
  PROVE  HeapTypeOK' /\ HeapInv'
<1> DEFINE r == root - 1
<1>1. /\ op = "heapify" /\ root # 0 /\ root' = r /\ op' = "down"
      /\ at' = r /\ next' = "heapify"
      /\ array' = array /\ end' = end /\ ltf' = ltf
  BY DEF HeapifyNext, CallShiftDown
<1>2. /\ end \in Nat /\ r \in Nat /\ root \in Nat /\ root < end /\ r < end
  BY <1>1, SizeAssumption DEF HeapTypeOK
<1>3. HeapTypeOK'
  BY <1>1, <1>2 DEF HeapTypeOK
<1>4. OrderedFrom(root)
  BY <1>1 DEF HeapInv
<1>5. ASSUME NEW k \in 1 .. end - 1, Father(k) >= r, Father(k) # r
      PROVE  Ordered(k)
  <2>1. Father(k) \in Nat
    BY FatherInHeap
  <2>2. Father(k) >= root
    BY <2>1, <1>2, <1>5
  <2> QED
    BY <2>2, <1>4 DEF OrderedFrom
<1>6. r # 0 => ~(Father(r) >= r)
  BY <1>2, FatherIs
<1> HIDE DEF r
<1>7. OrderedDown(root, at)'
  BY <1>1, <1>5, <1>6 DEF OrderedDown, Ordered, Father
<1> QED
  BY <1>1, <1>2, <1>3, <1>7 DEF HeapInv

\* The end of minheap_heapify() keeps it: the whole heap is in order.
LEMMA HeapifyDoneKeeps ==
  ASSUME HeapTypeOK, HeapInv, HeapifyDone
  PROVE  HeapTypeOK' /\ HeapInv'
<1>1. /\ op = "heapify" /\ root = 0 /\ op' = "sort"
      /\ array' = array /\ end' = end /\ ltf' = ltf
      /\ at' = at /\ root' = root /\ next' = next
  BY DEF HeapifyDone
<1>2. HeapTypeOK'
  BY <1>1 DEF HeapTypeOK
<1>3. OrderedFrom(0)'
  BY <1>1 DEF HeapInv, OrderedFrom, Ordered, Father
<1> QED
  BY <1>1, <1>2, <1>3 DEF HeapInv

\* The least item goes behind the heap, the last one to the top.
LEMMA SortStepKeeps ==
  ASSUME HeapTypeOK, HeapInv, SortStep
  PROVE  HeapTypeOK' /\ HeapInv'
<1> DEFINE e == end - 1
<1>1. /\ op = "sort" /\ end # 0 /\ end' = e /\ array' = Swapped(0, e)
      /\ op' = "down" /\ at' = 0 /\ next' = "sort"
      /\ ltf' = ltf /\ root' = root
  BY DEF SortStep, CallShiftDown
<1>2. /\ end \in Nat /\ e \in Nat /\ e < end /\ end <= Size
      /\ 0 \in 0 .. end - 1 /\ e \in 0 .. end - 1
  BY <1>1, SizeAssumption DEF HeapTypeOK
<1>3. 0 \in Indexes /\ e \in Indexes /\ array[0] \in Items /\ array[e] \in Items
  BY <1>2, CellIsItem
<1> HIDE DEF e
<1>4. /\ array' \in [Indexes -> Items \cup {NULL}]
      /\ array'[0] = array[e] /\ array'[e] = array[0]
      /\ \A k \in Indexes : k # 0 /\ k # e => array'[k] = array[k]
  BY <1>1, <1>3, SwappedIs
<1>5. ASSUME NEW k \in 0 .. e - 1 PROVE array'[k] \in Items
  <2>1. k \in 0 .. end - 1
    BY <1>2
  <2>2. array[k] \in Items /\ k \in Indexes
    BY <2>1, CellIsItem
  <2> QED
    BY <2>2, <1>3, <1>4
<1>6. HeapTypeOK'
  BY <1>1, <1>2, <1>4, <1>5, SizeAssumption DEF HeapTypeOK
<1>7. OrderedFrom(0) /\ root = 0
  BY <1>1 DEF HeapInv
<1>8. ASSUME NEW k \in 1 .. e - 1, Father(k) # 0
      PROVE  ~Lt(ltf, array'[k], array'[Father(k)])
  <2>1. k \in 1 .. end - 1 /\ k # 0 /\ k # e
    BY <1>2
  <2>2. /\ Father(k) < k /\ Father(k) \in Nat
        /\ k \in Indexes /\ Father(k) \in Indexes
    BY <2>1, FatherInHeap, CellIsItem
  <2>3. Father(k) # e
    BY <2>2, <1>2
  <2>4. ~Lt(ltf, array[k], array[Father(k)])
    BY <2>1, <2>2, <1>7 DEF OrderedFrom, Ordered
  <2> QED
    BY <2>1, <2>2, <2>3, <2>4, <1>4, <1>8
<1>9. OrderedDown(root, at)'
  BY <1>1, <1>7, <1>8 DEF OrderedDown, Ordered, Father
<1> QED
  BY <1>1, <1>6, <1>7, <1>9 DEF HeapInv

\* The end of heap_sort_desc() keeps it.
LEMMA SortDoneKeeps ==
  ASSUME HeapTypeOK, HeapInv, SortDone
  PROVE  HeapTypeOK' /\ HeapInv'
<1>1. /\ op = "sort" /\ end = 0 /\ op' = "sorted"
      /\ array' = array /\ end' = end /\ ltf' = ltf
      /\ at' = at /\ root' = root /\ next' = next
  BY DEF SortDone
<1>2. HeapTypeOK'
  BY <1>1 DEF HeapTypeOK
<1> QED
  BY <1>1, <1>2 DEF HeapInv

\* Every step of a running heap operation keeps the types and the order.
LEMMA HeapStepKeeps ==
  ASSUME HeapTypeOK, HeapInv, HeapStep
  PROVE  HeapTypeOK' /\ HeapInv'
BY ShiftUpKeeps, UpDoneKeeps, ShiftDownKeeps, DownDoneKeeps, HeapifyNextKeeps,
   HeapifyDoneKeeps, SortStepKeeps, SortDoneKeeps DEF HeapStep

---------------------------------------------------------------------------
(* The ranking set *)

\* Which heap operations run in which phase, and where the heap ends.
PhaseOK ==
  /\ phase = "search" => op \in {"idle", "up", "down"} /\ next = "idle"
  /\ phase \in {"stop", "records"} => op = "idle"
  /\ phase = "sort" => /\ op \in {"down", "heapify", "sort", "sorted"}
                       /\ op = "down" => next # "idle"
  /\ phase # "sort" => ltf = "stage0"
  /\ end <= n_items
  /\ \A x \in keep : x.no <= offers

RankInv == RankTypeOK /\ HeapInv /\ KeepIsHeap /\ PhaseOK

\* What the fields of an item are.
LEMMA ItemFields ==
  ASSUME NEW x \in Items
  PROVE  /\ x.no \in 1 .. MaxOffers /\ x.score \in Scores
         /\ x.depth \in Depths /\ x.score \in Nat /\ x.depth \in Nat
         /\ x.n_brw \in Nat
BY HeapOfItems, RankAssumption DEF RankItems

\* An item allocated by the current call has an address of its own.
LEMMA NewItemIs ==
  ASSUME RankTypeOK, offers < MaxOffers, NEW score \in Scores
  PROVE  NewItem(score) \in Items /\ NewItem(score).no = offers + 1
BY HeapOfItems, RankAssumption DEF RankTypeOK, RankItems, NewItem

\* A permutation of the cells below n_items keeps rank.keep and the array equal.
LEMMA SwapKeepsItems ==
  ASSUME RankTypeOK, KeepIsHeap, NEW j \in 0 .. n_items - 1, NEW l \in 0 .. n_items - 1,
         array' = Swapped(j, l), keep' = keep, n_items' = n_items
  PROVE  /\ keep' = {array'[k] : k \in 0 .. n_items' - 1}
         /\ \A q, k \in 0 .. n_items' - 1 : q # k => array'[q].no # array'[k].no
<1>1. j \in Indexes /\ l \in Indexes /\ n_items \in Nat /\ HeapTypeOK
      /\ \A k \in 0 .. n_items - 1 : k \in Indexes
  BY SizeAssumption DEF RankTypeOK, Indexes
<1>2. /\ array'[l] = array[j] /\ array'[j] = array[l]
      /\ \A k \in Indexes : k # j /\ k # l => array'[k] = array[k]
  BY <1>1, SwappedIs
<1>3. keep = {array[k] : k \in 0 .. n_items - 1}
  BY DEF KeepIsHeap
<1>4. \A q, k \in 0 .. n_items - 1 : q # k => array[q].no # array[k].no
  BY DEF KeepIsHeap
<1>5. \A k \in 0 .. n_items - 1 : \E q \in 0 .. n_items - 1 : array'[k] = array[q]
  BY <1>1, <1>2
<1>6. \A k \in 0 .. n_items - 1 : \E q \in 0 .. n_items - 1 : array[k] = array'[q]
  BY <1>1, <1>2
<1>7. {array'[k] : k \in 0 .. n_items - 1} = {array[k] : k \in 0 .. n_items - 1}
  <2>1. ASSUME NEW k \in 0 .. n_items - 1
        PROVE  array'[k] \in {array[q] : q \in 0 .. n_items - 1}
    BY <1>5
  <2>2. ASSUME NEW k \in 0 .. n_items - 1
        PROVE  array[k] \in {array'[q] : q \in 0 .. n_items - 1}
    BY <1>6
  <2> QED
    BY <2>1, <2>2
<1>8. ASSUME NEW q \in 0 .. n_items - 1, NEW k \in 0 .. n_items - 1, q # k
      PROVE  array'[q].no # array'[k].no
  <2> DEFINE at0(x) == IF x = j THEN l ELSE IF x = l THEN j ELSE x
  <2>1. array'[q] = array[at0(q)] /\ array'[k] = array[at0(k)]
    BY <1>1, <1>2
  <2>2. at0(q) # at0(k) /\ at0(q) \in 0 .. n_items - 1 /\ at0(k) \in 0 .. n_items - 1
    BY <1>8
  <2> HIDE DEF at0
  <2> QED
    BY <2>1, <2>2, <1>4
<1> QED
  BY <1>3, <1>7, <1>8

\* A running heap operation moves items, and never drops or duplicates one.
LEMMA HeapKeepsRank ==
  ASSUME RankInv, Heap
  PROVE  RankInv'
<1>1. RankTypeOK /\ HeapTypeOK /\ HeapInv /\ KeepIsHeap /\ PhaseOK
  BY DEF RankInv, RankTypeOK
<1>2. HeapStep /\ UNCHANGED <<rankVars, searchVars>>
  BY DEF Heap
<1>3. HeapTypeOK' /\ HeapInv'
  BY <1>1, <1>2, HeapStepKeeps
<1>4. /\ keep' = keep /\ n_items' = n_items /\ offers' = offers /\ lost' = lost
      /\ rot_depth' = rot_depth /\ node' = node /\ phase' = phase
      /\ inOrder' = inOrder
  BY <1>2 DEF rankVars, searchVars
<1>5. RankTypeOK'
  BY <1>1, <1>3, <1>4 DEF RankTypeOK
<1>6. end \in Nat /\ n_items \in Nat /\ end <= n_items /\ n_items <= Size
  BY <1>1, SizeAssumption DEF RankTypeOK, HeapTypeOK, PhaseOK
<1>7. /\ keep' = {array'[k] : k \in 0 .. n_items' - 1}
      /\ \A q, k \in 0 .. n_items' - 1 : q # k => array'[q].no # array'[k].no
  <2>1. CASE array' = array
    BY <2>1, <1>1, <1>4 DEF KeepIsHeap
  <2>2. CASE ShiftUp
    <3>1. /\ at \in 1 .. end - 1
          /\ array' = Swapped(at, Father(at)) \/ array' = array
      BY <2>2, <1>1, <1>6 DEF ShiftUp, HeapTypeOK
    <3>2. Father(at) \in 0 .. end - 1
      BY <3>1, <1>1, FatherInHeap
    <3>3. at \in 0 .. n_items - 1 /\ Father(at) \in 0 .. n_items - 1
      BY <3>1, <3>2, <1>6
    <3> QED
      BY <2>1, <3>1, <3>3, <1>1, <1>4, SwapKeepsItems
  <2>3. CASE ShiftDown
    <3>1. array' = Swapped(MinSon(at), at) /\ op = "down" /\ MinSon(at) # at
      BY <2>3 DEF ShiftDown
    <3>2. CASE at < end
      <4>1. at \in 0 .. end - 1
        BY <3>2, <1>1, <1>6 DEF HeapTypeOK
      <4>2. MinSon(at) \in 0 .. end - 1
        BY <4>1, <1>1, MinSonIs
      <4>3. at \in 0 .. n_items - 1 /\ MinSon(at) \in 0 .. n_items - 1
        BY <4>1, <4>2, <1>6
      <4> QED
        BY <3>1, <4>3, <1>1, <1>4, SwapKeepsItems
    <3>3. CASE ~(at < end)
      <4>1. at = 0 /\ end = 0
        BY <3>1, <3>3, <1>1, <1>6 DEF HeapTypeOK
      <4>2. ~(RightSon(0) < end) /\ ~(RightSon(0) - 1 < end)
        BY <4>1 DEF RightSon
      <4>3. MinSon(0) = 0
        BY <4>2 DEF MinSon
      <4> QED
        BY <4>1, <4>3, <3>1
    <3> QED
      BY <3>2, <3>3
  <2>4. CASE SortStep
    <3>1. array' = Swapped(0, end - 1) /\ end # 0
      BY <2>4 DEF SortStep
    <3>2. 0 \in 0 .. n_items - 1 /\ end - 1 \in 0 .. n_items - 1
      BY <3>1, <1>6
    <3> QED
      BY <3>1, <3>2, <1>1, <1>4, SwapKeepsItems
  <2> QED
    BY <2>1, <2>2, <2>3, <2>4, <1>2
    DEF HeapStep, UpDone, DownDone, HeapifyNext, HeapifyDone, SortDone
<1>8. phase # "sort" => end' = end
  BY <1>1, <1>2 DEF HeapStep, ShiftUp, UpDone, ShiftDown, DownDone, HeapifyNext,
     HeapifyDone, SortStep, SortDone, PhaseOK, RankTypeOK
<1>9. KeepIsHeap'
  BY <1>1, <1>4, <1>7, <1>8 DEF KeepIsHeap
<1>10. end' <= end /\ ltf' = ltf
  BY <1>2, <1>6 DEF HeapStep, ShiftUp, UpDone, ShiftDown, DownDone, HeapifyNext,
     HeapifyDone, SortStep, SortDone
<1>11. end' \in Nat
  BY <1>3, SizeAssumption DEF HeapTypeOK
<1>12. phase # "sort" => op' \in {"idle", "up", "down"} /\ next' = next /\ phase = "search"
  BY <1>1, <1>2 DEF HeapStep, ShiftUp, UpDone, ShiftDown, DownDone, HeapifyNext,
     HeapifyDone, SortStep, SortDone, PhaseOK, RankTypeOK
<1>13. phase = "sort" => /\ op' \in {"down", "heapify", "sort", "sorted"}
                         /\ op' = "down" => next' # "idle"
  BY <1>1, <1>2 DEF HeapStep, ShiftUp, UpDone, ShiftDown, DownDone, HeapifyNext,
     HeapifyDone, SortStep, SortDone, CallShiftDown, PhaseOK, HeapTypeOK
<1>14. PhaseOK'
  BY <1>1, <1>4, <1>6, <1>10, <1>11, <1>12, <1>13 DEF PhaseOK
<1> QED
  BY <1>3, <1>5, <1>9, <1>14 DEF RankInv

\* rank_filter() with room left keeps it.
LEMMA FilterInsertKeeps ==
  ASSUME RankInv, NEW score \in Scores, FilterInsert(score)
  PROVE  RankInv'
<1> DEFINE x == NewItem(score)
<1>1. RankTypeOK /\ HeapTypeOK /\ HeapInv /\ KeepIsHeap /\ PhaseOK
  BY DEF RankInv, RankTypeOK
<1>2. /\ Insert(x) /\ ~Full /\ offers < MaxOffers /\ phase = "search" /\ op = "idle"
      /\ offers' = offers + 1 /\ keep' = keep \cup {x} /\ n_items' = n_items + 1
      /\ lost' = lost /\ rot_depth' = rot_depth /\ node' = node
      /\ phase' = phase /\ inOrder' = inOrder
  BY DEF FilterInsert, Offer, searchVars
<1>3. x \in Items /\ x.no = offers + 1
  BY <1>1, <1>2, NewItemIs
<1> HIDE DEF x
<1>4. HeapTypeOK' /\ HeapInv'
  BY <1>1, <1>2, <1>3, InsertKeeps
<1>5. /\ array' = [array EXCEPT ![end] = x] /\ end' = end + 1
      /\ op' = "up" /\ next' = next /\ ltf' = ltf
  BY <1>2 DEF Insert
<1>6. /\ end = n_items /\ n_items \in Nat /\ n_items < Size /\ end \in Indexes
      /\ offers \in Nat /\ MaxOffers \in Nat
  BY <1>1, <1>2, SizeAssumption, RankAssumption
  DEF KeepIsHeap, RankTypeOK, HeapTypeOK, Full, Indexes
<1>7. /\ array'[n_items] = x
      /\ \A k \in 0 .. n_items - 1 : array'[k] = array[k] /\ k \in Indexes
  BY <1>1, <1>5, <1>6, SizeAssumption DEF HeapTypeOK, Indexes
<1>8. RankTypeOK'
  BY <1>1, <1>2, <1>3, <1>4, <1>6, SizeAssumption DEF RankTypeOK
<1>9. ASSUME NEW k \in 0 .. n_items - 1
      PROVE  array[k] \in keep /\ array[k].no # x.no
  <2>1. array[k] \in keep
    BY <1>1 DEF KeepIsHeap
  <2>2. array[k].no <= offers /\ array[k].no \in Nat
    BY <2>1, <1>1, ItemFields DEF PhaseOK, RankTypeOK
  <2> QED
    BY <2>1, <2>2, <1>3, <1>6
<1>10. keep' = {array'[k] : k \in 0 .. n_items' - 1}
  <2>1. keep = {array[k] : k \in 0 .. n_items - 1}
    BY <1>1 DEF KeepIsHeap
  <2>2. 0 .. n_items' - 1 = (0 .. n_items - 1) \cup {n_items}
    BY <1>2, <1>6
  <2>3. ASSUME NEW k \in 0 .. n_items' - 1 PROVE array'[k] \in keep'
    BY <2>2, <1>2, <1>7, <1>9
  <2>4. ASSUME NEW y \in keep'
        PROVE  \E k \in 0 .. n_items' - 1 : y = array'[k]
    <3>1. CASE y = x
      BY <3>1, <2>2, <1>7
    <3>2. CASE y \in keep
      <4>1. PICK k \in 0 .. n_items - 1 : y = array[k]
        BY <3>2, <2>1
      <4> QED
        BY <4>1, <2>2, <1>7
    <3> QED
      BY <2>4, <3>1, <3>2, <1>2
  <2> QED
    BY <2>3, <2>4
<1>11. ASSUME NEW j \in 0 .. n_items' - 1, NEW k \in 0 .. n_items' - 1, j # k
       PROVE  array'[j].no # array'[k].no
  <2>1. CASE j = n_items
    <3>1. k \in 0 .. n_items - 1
      BY <2>1, <1>11, <1>2, <1>6
    <3> QED
      BY <2>1, <3>1, <1>7, <1>9
  <2>2. CASE k = n_items
    <3>1. j \in 0 .. n_items - 1
      BY <2>2, <1>11, <1>2, <1>6
    <3> QED
      BY <2>2, <3>1, <1>7, <1>9
  <2>3. CASE j # n_items /\ k # n_items
    <3>1. j \in 0 .. n_items - 1 /\ k \in 0 .. n_items - 1
      BY <2>3, <1>2, <1>6
    <3> QED
      BY <3>1, <1>7, <1>11, <1>1 DEF KeepIsHeap
  <2> QED
    BY <2>1, <2>2, <2>3
<1>12. KeepIsHeap'
  BY <1>2, <1>5, <1>6, <1>10, <1>11 DEF KeepIsHeap
<1>13. \A y \in keep' : y.no <= offers'
  <2>1. ASSUME NEW y \in keep PROVE y.no <= offers + 1
    <3>1. y.no \in Nat /\ y.no <= offers
      BY <1>1, ItemFields DEF RankTypeOK, PhaseOK
    <3> QED
      BY <3>1, <1>6
  <2> QED
    BY <2>1, <1>2, <1>3, <1>6
<1>14. PhaseOK'
  BY <1>1, <1>2, <1>5, <1>6, <1>13 DEF PhaseOK
<1> QED
  BY <1>4, <1>8, <1>12, <1>14 DEF RankInv

\* The top goes from the list and from the heap in one step.
LEMMA FilterReplaceKeeps ==
  ASSUME RankInv, NEW score \in Scores, FilterReplace(score)
  PROVE  RankInv'
<1> DEFINE x == NewItem(score)
<1>1. RankTypeOK /\ HeapTypeOK /\ HeapInv /\ KeepIsHeap /\ PhaseOK
  BY DEF RankInv, RankTypeOK
<1>2. /\ Replace(x) /\ Full /\ offers < MaxOffers /\ phase = "search" /\ op = "idle"
      /\ offers' = offers + 1 /\ keep' = (keep \ {heap_top}) \cup {x}
      /\ lost' = lost \cup {<<heap_top.depth, heap_top.score>>}
      /\ n_items' = n_items /\ rot_depth' = rot_depth /\ node' = node
      /\ phase' = phase /\ inOrder' = inOrder
  BY DEF FilterReplace, Offer, searchVars
<1>3. x \in Items /\ x.no = offers + 1
  BY <1>1, <1>2, NewItemIs
<1> HIDE DEF x
<1>4. HeapTypeOK' /\ HeapInv'
  BY <1>1, <1>2, <1>3, ReplaceTopKeeps
<1>5. /\ array' = [array EXCEPT ![0] = x] /\ end' = end /\ end > 0
      /\ op' = "down" /\ next' = "idle" /\ ltf' = ltf
  BY <1>2 DEF Replace, CallShiftDown
<1>6. /\ end = n_items /\ n_items \in Nat /\ n_items = Size /\ 0 \in 0 .. n_items - 1
      /\ offers \in Nat /\ MaxOffers \in Nat
  BY <1>1, <1>2, <1>5, SizeAssumption, RankAssumption
  DEF KeepIsHeap, RankTypeOK, HeapTypeOK, Full
<1>7. /\ array'[0] = x
      /\ \A k \in 0 .. n_items - 1 : k # 0 => array'[k] = array[k]
  BY <1>1, <1>5, <1>6 DEF HeapTypeOK, Indexes
<1>8. heap_top \in keep /\ heap_top \in Items
  BY <1>1, <1>6 DEF KeepIsHeap, heap_top, RankTypeOK
<1>9. heap_top.depth \in Depths /\ heap_top.score \in Scores
  BY <1>8, ItemFields
<1>10. RankTypeOK'
  BY <1>1, <1>2, <1>3, <1>4, <1>6, <1>9 DEF RankTypeOK
<1>11. ASSUME NEW k \in 0 .. n_items - 1
       PROVE  array[k] \in keep /\ array[k].no # x.no
  <2>1. array[k] \in keep
    BY <1>1 DEF KeepIsHeap
  <2>2. array[k].no <= offers /\ array[k].no \in Nat
    BY <2>1, <1>1, ItemFields DEF PhaseOK, RankTypeOK
  <2> QED
    BY <2>1, <2>2, <1>3, <1>6
<1>12. keep' = {array'[k] : k \in 0 .. n_items' - 1}
  <2>1. keep = {array[k] : k \in 0 .. n_items - 1}
    BY <1>1 DEF KeepIsHeap
  <2>2. ASSUME NEW k \in 0 .. n_items - 1 PROVE array'[k] \in keep'
    <3>1. CASE k = 0
      BY <3>1, <1>2, <1>7
    <3>2. CASE k # 0
      <4>1. array[k].no # array[0].no
        BY <3>2, <1>1, <1>6 DEF KeepIsHeap
      <4> QED
        BY <4>1, <3>2, <1>2, <1>7, <1>11 DEF heap_top
    <3> QED
      BY <3>1, <3>2
  <2>3. ASSUME NEW y \in keep'
        PROVE  \E k \in 0 .. n_items - 1 : y = array'[k]
    <3>1. CASE y = x
      BY <3>1, <1>6, <1>7
    <3>2. CASE y \in keep /\ y # heap_top
      <4>1. PICK k \in 0 .. n_items - 1 : y = array[k]
        BY <3>2, <2>1
      <4>2. k # 0
        BY <4>1, <3>2 DEF heap_top
      <4> QED
        BY <4>1, <4>2, <1>7
    <3> QED
      BY <2>3, <3>1, <3>2, <1>2
  <2> QED
    BY <2>2, <2>3, <1>2
<1>13. ASSUME NEW j \in 0 .. n_items - 1, NEW k \in 0 .. n_items - 1, j # k
       PROVE  array'[j].no # array'[k].no
  <2>1. CASE j = 0
    BY <2>1, <1>7, <1>11, <1>13
  <2>2. CASE k = 0
    BY <2>2, <1>7, <1>11, <1>13
  <2>3. CASE j # 0 /\ k # 0
    BY <2>3, <1>7, <1>13, <1>1 DEF KeepIsHeap
  <2> QED
    BY <2>1, <2>2, <2>3
<1>14. KeepIsHeap'
  BY <1>2, <1>5, <1>6, <1>12, <1>13 DEF KeepIsHeap
<1>15. \A y \in keep' : y.no <= offers'
  <2>1. ASSUME NEW y \in keep PROVE y.no <= offers + 1
    <3>1. y.no \in Nat /\ y.no <= offers
      BY <1>1, ItemFields DEF RankTypeOK, PhaseOK
    <3> QED
      BY <3>1, <1>6
  <2> QED
    BY <2>1, <1>2, <1>3, <1>6
<1>16. PhaseOK'
  BY <1>1, <1>2, <1>5, <1>6, <1>15 DEF PhaseOK
<1> QED
  BY <1>4, <1>10, <1>14, <1>16 DEF RankInv

\* set_frml_rec() changes n_brw only, which stage 0 does not look at.
LEMMA SetFrmlRecKeeps ==
  ASSUME RankInv, SetFrmlRec
  PROVE  RankInv'
<1>1. RankTypeOK /\ HeapTypeOK /\ HeapInv /\ KeepIsHeap /\ PhaseOK
  BY DEF RankInv, RankTypeOK
<1>2. PICK brw \in [0 .. end - 1 -> Brws] :
        /\ array' = [k \in Indexes |-> IF k < end THEN WithBrw(array[k], brw[k]) ELSE array[k]]
        /\ keep' = {WithBrw(array[k], brw[k]) : k \in 0 .. end - 1}
  BY DEF SetFrmlRec
<1>3. /\ phase = "stop" /\ phase' = "records"
      /\ end' = end /\ ltf' = ltf /\ op' = op /\ at' = at /\ root' = root
      /\ next' = next /\ n_items' = n_items /\ offers' = offers /\ lost' = lost
      /\ rot_depth' = rot_depth /\ node' = node /\ inOrder' = inOrder
  BY DEF SetFrmlRec
<1>4. /\ end = n_items /\ end \in Nat /\ end <= Size /\ op = "idle" /\ ltf = "stage0"
      /\ \A k \in 0 .. end - 1 : k \in Indexes
  BY <1>1, <1>3, SizeAssumption DEF KeepIsHeap, PhaseOK, RankTypeOK, HeapTypeOK, Indexes
<1>5. ASSUME NEW k \in 0 .. end - 1
      PROVE  /\ array'[k] = WithBrw(array[k], brw[k])
             /\ array'[k] \in Items
             /\ array'[k].no = array[k].no /\ array'[k].score = array[k].score
             /\ array'[k].depth = array[k].depth
  <2>1. array'[k] = WithBrw(array[k], brw[k])
    BY <1>2, <1>4
  <2>2. array[k] \in RankItems /\ brw[k] \in Brws
    BY <1>1, CellIsItem, HeapOfItems
  <2>3. /\ WithBrw(array[k], brw[k]) \in RankItems
        /\ WithBrw(array[k], brw[k]).no = array[k].no
        /\ WithBrw(array[k], brw[k]).score = array[k].score
        /\ WithBrw(array[k], brw[k]).depth = array[k].depth
    BY <2>2 DEF WithBrw, RankItems
  <2> QED
    BY <2>1, <2>3, HeapOfItems
<1>6. array' \in [Indexes -> Items \cup {NULL}]
  <2>1. ASSUME NEW k \in Indexes
        PROVE  (IF k < end THEN WithBrw(array[k], brw[k]) ELSE array[k]) \in Items \cup {NULL}
    <3>1. CASE k < end
      <4>1. k \in 0 .. end - 1
        BY <3>1, <1>4, SizeAssumption DEF Indexes
      <4> QED
        BY <4>1, <3>1, <1>5
    <3>2. CASE ~(k < end)
      BY <3>2, <1>1 DEF HeapTypeOK
    <3> QED
      BY <3>1, <3>2
  <2> QED
    BY <2>1, <1>2
<1>7. HeapTypeOK'
  BY <1>1, <1>3, <1>5, <1>6 DEF HeapTypeOK
<1>8. OrderedFrom(0)'
  <2>1. ASSUME NEW k \in 1 .. end - 1
        PROVE  ~Lt(ltf, array'[k], array'[Father(k)])
    <3>1. /\ k \in 0 .. end - 1 /\ Father(k) \in 0 .. end - 1 /\ Father(k) >= 0
          /\ array[k] \in Items /\ array[Father(k)] \in Items
      BY <1>1, FatherInHeap
    <3>2. ~Lt(ltf, array[k], array[Father(k)])
      BY <3>1, <1>1, <1>4 DEF HeapInv, OrderedFrom, Ordered
    <3>3. ~less_than_stage0(array[k], array[Father(k)])
      BY <3>1, <3>2, <1>4, HeapOfItems DEF LessThan
    <3>4. ~less_than_stage0(array'[k], array'[Father(k)])
      BY <3>1, <3>3, <1>5 DEF less_than_stage0
    <3> QED
      BY <3>1, <3>4, <1>4, <1>5, HeapOfItems DEF LessThan
  <2> QED
    BY <2>1, <1>3 DEF OrderedFrom, Ordered, Father
<1>9. HeapInv'
  BY <1>1, <1>3, <1>4, <1>8 DEF HeapInv
<1>10. keep' = {array'[k] : k \in 0 .. n_items' - 1}
  BY <1>2, <1>3, <1>4, <1>5
<1>11. ASSUME NEW j \in 0 .. n_items - 1, NEW k \in 0 .. n_items - 1, j # k
       PROVE  array'[j].no # array'[k].no
  BY <1>1, <1>4, <1>5, <1>11 DEF KeepIsHeap
<1>12. KeepIsHeap'
  BY <1>3, <1>4, <1>10, <1>11 DEF KeepIsHeap
<1>13. keep' \subseteq Items
  BY <1>10, <1>3, <1>4, <1>5
<1>14. RankTypeOK'
  BY <1>1, <1>3, <1>7, <1>13 DEF RankTypeOK
<1>15. \A y \in keep' : y.no <= offers'
  <2>1. ASSUME NEW k \in 0 .. end - 1 PROVE array'[k].no <= offers
    <3>1. array[k] \in keep
      BY <1>1, <1>4 DEF KeepIsHeap
    <3> QED
      BY <3>1, <1>1, <1>5 DEF PhaseOK
  <2> QED
    BY <2>1, <1>3, <1>4, <1>10
<1>16. PhaseOK'
  BY <1>1, <1>3, <1>4, <1>15 DEF PhaseOK
<1> QED
  BY <1>9, <1>12, <1>14, <1>16 DEF RankInv

\* The call of heap_sort_desc() under the other order keeps it.
LEMMA FinalSortKeeps ==
  ASSUME RankInv, FinalSort
  PROVE  RankInv'
<1>1. RankTypeOK /\ HeapTypeOK /\ HeapInv /\ KeepIsHeap /\ PhaseOK
  BY DEF RankInv, RankTypeOK
<1>2. /\ SortDesc("stage1") /\ phase = "records" /\ phase' = "sort"
      /\ keep' = keep /\ n_items' = n_items /\ offers' = offers /\ lost' = lost
      /\ rot_depth' = rot_depth /\ node' = node /\ inOrder' = inOrder
  BY DEF FinalSort, rankVars
<1>3. HeapTypeOK' /\ HeapInv'
  BY <1>1, <1>2, HeapOfItems, SortDescKeeps
<1>4. /\ array' = array /\ end' = end
      /\ op' = "sort" \/ (op' = "down" /\ next' = "heapify")
  BY <1>2 DEF SortDesc, CallShiftDown
<1>5. RankTypeOK'
  BY <1>1, <1>2, <1>3 DEF RankTypeOK
<1>6. KeepIsHeap'
  BY <1>1, <1>2, <1>4 DEF KeepIsHeap
<1>7. PhaseOK'
  BY <1>1, <1>2, <1>4 DEF PhaseOK
<1> QED
  BY <1>3, <1>5, <1>6, <1>7 DEF RankInv

---------------------------------------------------------------------------
(* The theorems *)

\* The inductive invariant holds initially.
LEMMA RankInit == Init => RankInv
<1> SUFFICES ASSUME Init PROVE RankInv
  OBVIOUS
<1>1. /\ array = [k \in Indexes |-> NULL] /\ end = 0 /\ ltf = "stage0"
      /\ op = "idle" /\ at = 0 /\ root = 0 /\ next = "idle"
      /\ keep = {} /\ n_items = 0 /\ offers = 0 /\ lost = {}
      /\ rot_depth = 0 /\ node = 1 /\ phase = "search" /\ inOrder = TRUE
  BY DEF Init, HeapInit
<1>2. 0 .. 0 - 1 = {} /\ 1 .. 0 - 1 = {}
  OBVIOUS
<1>3. HeapTypeOK
  BY <1>1, <1>2, SizeAssumption, HeapOfItems DEF HeapTypeOK
<1>4. RankTypeOK
  BY <1>1, <1>3, SizeAssumption, RankAssumption DEF RankTypeOK
<1>5. HeapInv
  BY <1>1, <1>2 DEF HeapInv, OrderedFrom
<1>6. KeepIsHeap /\ PhaseOK
  BY <1>1, <1>2 DEF KeepIsHeap, PhaseOK
<1> QED
  BY <1>4, <1>5, <1>6 DEF RankInv

\* Every step of the ranking keeps the inductive invariant.
LEMMA RankStep == RankInv /\ [Next]_vars => RankInv'
<1> SUFFICES ASSUME RankInv, [Next]_vars PROVE RankInv'
  OBVIOUS
<1>1. RankTypeOK /\ HeapTypeOK /\ HeapInv /\ KeepIsHeap /\ PhaseOK
  BY DEF RankInv, RankTypeOK
<1>2. ASSUME NEW score \in Scores, FilterInsert(score) PROVE RankInv'
  BY <1>2, FilterInsertKeeps
<1>3. ASSUME NEW score \in Scores, FilterReplace(score) PROVE RankInv'
  BY <1>3, FilterReplaceKeeps
<1>4. ASSUME NEW score \in Scores, FilterDrop(score) PROVE RankInv'
  <2>1. /\ UNCHANGED <<heapVars, keep, n_items, searchVars>>
        /\ offers' = offers + 1 /\ offers < MaxOffers
        /\ lost' = lost \cup {<<rot_depth, score>>}
    BY <1>4 DEF FilterDrop, Offer
  <2>2. /\ UNCHANGED <<array, end, ltf, op, at, root, next>>
        /\ UNCHANGED <<keep, n_items, rot_depth, node, phase, inOrder>>
    BY <2>1 DEF heapVars, searchVars
  <2>3. RankTypeOK'
    BY <1>1, <2>1, <2>2, RankAssumption DEF RankTypeOK, HeapTypeOK
  <2>4. HeapInv' /\ KeepIsHeap'
    BY <1>1, <2>2 DEF HeapInv, OrderedFrom, OrderedUp, OrderedDown, Ordered, KeepIsHeap
  <2>5. \A x \in keep : x.no <= offers + 1
    BY <1>1, ItemFields, RankAssumption DEF PhaseOK, RankTypeOK
  <2>6. PhaseOK'
    BY <1>1, <2>1, <2>2, <2>5 DEF PhaseOK
  <2> QED
    BY <2>3, <2>4, <2>6 DEF RankInv
<1>5. ASSUME NextNode \/ StopNodes PROVE RankInv'
  <2>1. /\ UNCHANGED <<array, end, ltf, op, at, root, next>>
        /\ UNCHANGED <<keep, n_items, offers, lost>>
        /\ phase = "search" /\ op = "idle" /\ phase' \in {"search", "stop"}
        /\ rot_depth' \in Depths /\ node' \in Nat
    BY <1>1, <1>5 DEF NextNode, StopNodes, heapVars, rankVars, RankTypeOK
  <2>5. inOrder' \in BOOLEAN
    <3>1. CASE inOrder' = (inOrder /\ rot_depth <= rot_depth')
      BY <3>1, Zenon
    <3>2. CASE inOrder' = inOrder
      BY <3>2, <1>1 DEF RankTypeOK
    <3> QED
      BY <3>1, <3>2, <1>5, Zenon DEF NextNode, StopNodes
  <2>2. RankTypeOK'
    BY <1>1, <2>1, <2>5 DEF RankTypeOK, HeapTypeOK
  <2>3. HeapInv' /\ KeepIsHeap'
    BY <1>1, <2>1 DEF HeapInv, OrderedFrom, OrderedUp, OrderedDown, Ordered, KeepIsHeap
  <2>4. PhaseOK'
    BY <1>1, <2>1 DEF PhaseOK
  <2> QED
    BY <2>2, <2>3, <2>4 DEF RankInv
<1>6. ASSUME UNCHANGED vars PROVE RankInv'
  <2>1. /\ UNCHANGED <<array, end, ltf, op, at, root, next>>
        /\ UNCHANGED <<keep, n_items, offers, lost, rot_depth, node, phase, inOrder>>
    BY <1>6 DEF vars, heapVars, rankVars, searchVars
  <2>2. RankTypeOK' /\ HeapInv' /\ KeepIsHeap' /\ PhaseOK'
    BY <1>1, <2>1 DEF RankTypeOK, HeapTypeOK, HeapInv, OrderedFrom, OrderedUp,
       OrderedDown, Ordered, KeepIsHeap, PhaseOK
  <2> QED
    BY <2>2 DEF RankInv
<1> QED
  BY <1>2, <1>3, <1>4, <1>5, <1>6, SetFrmlRecKeeps, FinalSortKeeps, HeapKeepsRank
  DEF Next, Finished

\* The invariant behind the theorems below.
THEOREM RankInvariant == Spec => []RankInv
BY RankInit, RankStep, PTL DEF Spec

\* Types, for every capacity, number of merge nodes, documents and scores.
THEOREM RankTypeCorrect == Spec => []RankTypeOK
<1>1. RankInv => RankTypeOK
  BY DEF RankInv
<1> QED
  BY <1>1, RankInvariant, PTL

\* Between two heap operations no item is less than its father.
THEOREM HeapIsOrdered == Spec => []HeapOrder
<1>1. RankInv => HeapOrder
  <2> SUFFICES ASSUME RankInv, op = "idle", NEW k \in 1 .. end - 1 PROVE Ordered(k)
    BY DEF HeapOrder
  <2>1. HeapTypeOK /\ OrderedFrom(0)
    BY DEF RankInv, RankTypeOK, HeapInv
  <2>2. Father(k) >= 0
    BY <2>1, FatherInHeap
  <2> QED
    BY <2>1, <2>2 DEF OrderedFrom
<1> QED
  BY <1>1, RankInvariant, PTL

\* The heap and rank.keep hold the same items in every state.
THEOREM KeepIsAlwaysHeap == Spec => []KeepIsHeap
<1>1. RankInv => KeepIsHeap
  BY DEF RankInv
<1> QED
  BY <1>1, RankInvariant, PTL

---------------------------------------------------------------------------
(* The sort: the least item of the heap goes behind it *)

\* Every set of natural numbers but the empty one has a least one.
LEMMA LeastIndex ==
  ASSUME NEW S \in SUBSET Nat, S # {}
  PROVE  \E m \in S : \A n \in S : m <= n
<1> DEFINE R == {x \in Nat \X Nat : x[1] < x[2]}
<1>1. IsWellFoundedOn(R, Nat)
  <2>1. OpToRel(<, Nat) = R
    BY DEF OpToRel
  <2> QED
    BY <2>1, NatLessThanWellFounded
<1>2. \A n, m \in Nat : n < m => <<n, m>> \in R
  OBVIOUS
<1> HIDE DEF R
<1>3. PICK m \in S : \A n \in S : <<n, m>> \notin R
  BY <1>1, WFMin
<1>4. ASSUME NEW n \in S PROVE m <= n
  <2>1. n \in Nat /\ m \in Nat /\ ~(n < m)
    BY <1>2, <1>3
  <2> QED
    BY <2>1
<1> QED
  BY <1>4

\* In an ordered heap no item is less than the one at index 0.
LEMMA RootIsLeast ==
  ASSUME HeapTypeOK, OrderedFrom(0), NEW k \in 0 .. end - 1
  PROVE  ~Lt(ltf, array[k], array[0])
<1> DEFINE S == {i \in 0 .. end - 1 : Lt(ltf, array[i], array[0])}
<1>1. SUFFICES ASSUME S # {} PROVE FALSE
  OBVIOUS
<1>2. end \in Nat /\ S \in SUBSET Nat
  BY SizeAssumption DEF HeapTypeOK
<1>3. PICK m \in S : \A i \in S : m <= i
  BY <1>1, <1>2, LeastIndex
<1>4. m \in 0 .. end - 1 /\ m \in Nat /\ 0 \in 0 .. end - 1 /\ array[0] \in Items
  BY <1>2, <1>3, CellIsItem
<1>5. m # 0
  <2>1. ~Lt(ltf, array[0], array[0])
    BY <1>4, WeakOrder
  <2> QED
    BY <1>3, <2>1
<1>6. m \in 1 .. end - 1
  BY <1>4, <1>5
<1>7. /\ Father(m) \in 0 .. end - 1 /\ Father(m) >= 0 /\ Father(m) < m
      /\ array[m] \in Items /\ array[Father(m)] \in Items
  BY <1>6, FatherInHeap
<1>8. Father(m) \notin S
  BY <1>2, <1>3, <1>4, <1>7
<1>9. ~Lt(ltf, array[Father(m)], array[0])
  BY <1>7, <1>8
<1>10. ~Lt(ltf, array[m], array[Father(m)])
  BY <1>6, <1>7 DEF OrderedFrom, Ordered
<1>11. ~Lt(ltf, array[m], array[0])
  BY <1>4, <1>7, <1>9, <1>10, WeakOrder
<1> QED
  BY <1>3, <1>11

\* What is behind the heap is in order, and nothing in the heap is less.
SortInv ==
  /\ phase = "sort" => ltf = "stage1"
  /\ \A j, k \in 0 .. n_items - 1 : j < k /\ end <= k => ~Lt(ltf, array[j], array[k])

\* Two cells of the heap are swapped: the cells behind it stay what they are.
LEMMA SwapInHeapSorts ==
  ASSUME RankInv, SortInv, NEW q \in 0 .. end - 1, NEW l \in 0 .. end - 1,
         array' = Swapped(q, l), end' = end, ltf' = ltf, n_items' = n_items, phase' = phase
  PROVE  SortInv'
<1>1. HeapTypeOK /\ end \in Nat /\ n_items \in Nat /\ end <= n_items
      /\ \A k \in 0 .. n_items - 1 : k \in Indexes
  BY SizeAssumption DEF RankInv, RankTypeOK, HeapTypeOK, PhaseOK, Indexes
<1>2. /\ array'[l] = array[q] /\ array'[q] = array[l]
      /\ \A k \in Indexes : k # q /\ k # l => array'[k] = array[k]
  BY <1>1, SwappedIs, CellIsItem
<1>3. ASSUME NEW j \in 0 .. n_items - 1, NEW k \in 0 .. n_items - 1, j < k, end <= k
      PROVE  ~Lt(ltf, array'[j], array'[k])
  <2>1. array'[k] = array[k]
    BY <1>1, <1>2, <1>3
  <2>2. PICK i \in 0 .. n_items - 1 : i < k /\ array'[j] = array[i]
    BY <1>1, <1>2, <1>3
  <2> QED
    BY <2>1, <2>2, <1>3 DEF SortInv
<1> QED
  BY <1>3 DEF SortInv

\* minheap_delete(): the item at index 0 is the next one behind the heap.
LEMMA SortStepSorts ==
  ASSUME RankInv, SortInv, SortStep, n_items' = n_items, phase' = phase
  PROVE  SortInv'
<1> DEFINE e == end - 1
<1>1. HeapTypeOK /\ end \in Nat /\ n_items \in Nat /\ end <= n_items
      /\ \A k \in 0 .. n_items - 1 : k \in Indexes
  BY SizeAssumption DEF RankInv, RankTypeOK, HeapTypeOK, PhaseOK, Indexes
<1>2. end # 0 /\ end' = e /\ array' = Swapped(0, e) /\ ltf' = ltf /\ op = "sort"
  BY DEF SortStep
<1>3. OrderedFrom(0)
  BY <1>2 DEF RankInv, HeapInv
<1>4. e \in 0 .. end - 1 /\ 0 \in 0 .. end - 1 /\ e \in 0 .. n_items - 1
  BY <1>1, <1>2
<1>5. /\ array'[e] = array[0] /\ array'[0] = array[e]
      /\ \A k \in Indexes : k # 0 /\ k # e => array'[k] = array[k]
  BY <1>1, <1>2, <1>4, SwappedIs, CellIsItem
<1>6. ASSUME NEW j \in 0 .. n_items - 1, NEW k \in 0 .. n_items - 1, j < k, e <= k
      PROVE  ~Lt(ltf, array'[j], array'[k])
  <2>1. CASE k = e
    <3>1. PICK i \in 0 .. end - 1 : array'[j] = array[i]
      BY <1>1, <1>4, <1>5, <1>6, <2>1
    <3>2. array'[k] = array[0]
      BY <1>5, <2>1
    <3> QED
      BY <3>1, <3>2, <1>1, <1>3, RootIsLeast
  <2>2. CASE k # e
    <3>1. end <= k /\ array'[k] = array[k]
      BY <1>1, <1>5, <1>6, <2>2
    <3>2. PICK i \in 0 .. n_items - 1 : i < k /\ array'[j] = array[i]
      BY <1>1, <1>2, <1>4, <1>5, <1>6, <3>1
    <3> QED
      BY <3>1, <3>2 DEF SortInv
  <2> QED
    BY <2>1, <2>2
<1> QED
  BY <1>2, <1>6 DEF SortInv

\* Outside of the sort the heap holds all items, so nothing is behind it.
LEMMA NothingBehind ==
  ASSUME end' = n_items', n_items' \in Nat, phase' # "sort"
  PROVE  SortInv'
<1>1. \A n \in Nat : \A k \in 0 .. n - 1 : ~(n <= k)
  OBVIOUS
<1>2. \A k \in 0 .. n_items' - 1 : ~(end' <= k)
  BY <1>1
<1> QED
  BY <1>2 DEF SortInv

\* Every step keeps the order behind the heap.
LEMMA SortInvStep == RankInv /\ SortInv /\ [Next]_vars => SortInv'
<1> SUFFICES ASSUME RankInv, SortInv, [Next]_vars PROVE SortInv'
  OBVIOUS
<1>1. RankInv' /\ n_items' \in Nat
  BY RankStep, SizeAssumption DEF RankInv, RankTypeOK
<1>2. CASE phase' # "sort"
  <2>1. end' = n_items'
    BY <1>1, <1>2 DEF RankInv, KeepIsHeap
  <2> QED
    BY <2>1, <1>1, <1>2, NothingBehind
<1>3. CASE FinalSort
  <2>1. /\ ltf' = "stage1" /\ n_items' = n_items /\ end' = end /\ phase = "records"
    BY <1>3 DEF FinalSort, rankVars, SortDesc
  <2>2. end' = n_items'
    BY <2>1 DEF RankInv, KeepIsHeap
  <2> QED
    BY <2>1, <2>2, <1>1 DEF SortInv
<1>4. CASE Heap
  <2>1. HeapStep /\ n_items' = n_items /\ phase' = phase
    BY <1>4 DEF Heap, rankVars, searchVars
  <2>2. HeapTypeOK /\ end \in Nat
    BY SizeAssumption DEF RankInv, RankTypeOK, HeapTypeOK
  <2>3. CASE UNCHANGED <<array, end, ltf>>
    BY <2>1, <2>3 DEF SortInv
  <2>4. CASE ShiftUp
    <3>1. /\ at \in 1 .. end - 1 /\ end' = end /\ ltf' = ltf
          /\ array' = Swapped(at, Father(at)) \/ array' = array
      BY <2>2, <2>4 DEF ShiftUp, HeapTypeOK
    <3>2. at \in 0 .. end - 1 /\ Father(at) \in 0 .. end - 1
      BY <2>2, <3>1, FatherInHeap
    <3> QED
      BY <2>1, <2>3, <3>1, <3>2, SwapInHeapSorts
  <2>5. CASE ShiftDown
    <3>1. /\ array' = Swapped(MinSon(at), at) /\ op = "down" /\ MinSon(at) # at
          /\ end' = end /\ ltf' = ltf
      BY <2>5 DEF ShiftDown
    <3>2. CASE at < end
      <4>1. at \in 0 .. end - 1 /\ MinSon(at) \in 0 .. end - 1
        BY <2>2, <3>2, MinSonIs DEF HeapTypeOK
      <4> QED
        BY <2>1, <3>1, <4>1, SwapInHeapSorts
    <3>3. CASE ~(at < end)
      <4>1. at = 0 /\ end = 0
        BY <2>2, <3>1, <3>3 DEF HeapTypeOK
      <4>2. ~(RightSon(0) < end) /\ ~(RightSon(0) - 1 < end)
        BY <4>1 DEF RightSon
      <4>3. MinSon(0) = 0
        BY <4>2 DEF MinSon
      <4> QED
        BY <4>1, <4>3, <3>1
    <3> QED
      BY <3>2, <3>3
  <2>6. CASE SortStep
    BY <2>1, <2>6, SortStepSorts
  <2> QED
    BY <2>1, <2>3, <2>4, <2>5, <2>6
    DEF HeapStep, UpDone, DownDone, HeapifyNext, HeapifyDone, SortDone
<1>5. CASE UNCHANGED vars
  BY <1>5 DEF vars, heapVars, rankVars, searchVars, SortInv
<1>6. CASE phase = "sort" /\ Next
  BY <1>4, <1>5, <1>6
  DEF Next, FilterInsert, FilterReplace, FilterDrop, Offer, NextNode, StopNodes,
      SetFrmlRec, FinalSort, Finished
<1>7. CASE phase # "sort" /\ Next
  BY <1>2, <1>3, <1>4, <1>5, <1>7
  DEF Next, FilterInsert, FilterReplace, FilterDrop, Offer, searchVars, NextNode,
      StopNodes, SetFrmlRec, Finished
<1> QED
  BY <1>5, <1>6, <1>7

\* After rank_sort() the results are best first, for every capacity, number of
\* documents, scores, depths and branch word counts.
THEOREM ResultsBestFirst == Spec => []SortedBestFirst
<1>1. Init /\ RankInv => SortInv
  <2> SUFFICES ASSUME Init PROVE SortInv
    OBVIOUS
  <2>1. n_items = 0 /\ phase = "search"
    BY DEF Init
  <2> QED
    BY <2>1 DEF SortInv
<1>2. RankInv /\ SortInv => SortedBestFirst
  <2> SUFFICES ASSUME RankInv, SortInv, op = "sorted",
                      NEW j \in 0 .. n_items - 1, NEW k \in 0 .. n_items - 1, j < k
               PROVE  ~less_than_stage1(array[j], array[k])
    BY DEF SortedBestFirst
  <2>1. phase = "sort" /\ ltf = "stage1" /\ end = 0
    BY DEF RankInv, RankTypeOK, PhaseOK, SortInv, HeapInv
  <2>2. array[j] \in Items /\ array[k] \in Items
    BY DEF RankInv, RankTypeOK, KeepIsHeap
  <2>3. ~Lt(ltf, array[j], array[k])
    BY <2>1 DEF SortInv
  <2> QED
    BY <2>1, <2>2, <2>3, HeapOfItems DEF LessThan
<1> QED
  BY <1>1, <1>2, RankInit, RankInvariant, SortInvStep, PTL DEF Spec

---------------------------------------------------------------------------
(* What is dropped or replaced *)

\* Nothing is dropped before the set is full; in depth order no kept item is
\* deeper than the node being searched; a full set has an item of this node, as
\* no node begins once there are STOP items.
BestInv ==
  /\ lost # {} => n_items = Size
  /\ inOrder => \A x \in keep : x.depth <= rot_depth
  /\ STOP <= Size /\ n_items = Size => \E x \in keep : x.depth = rot_depth
  /\ STOP <= Size /\ inOrder =>
       \A l \in lost : \A x \in keep :
         ~ less_than_stage0(x, [depth |-> l[1], score |-> l[2]])

\* A document that is lost, by its depth and score.
LEMMA LostIs ==
  ASSUME RankTypeOK, NEW l \in lost
  PROVE  l[1] \in Nat /\ l[2] \in Nat
BY RankAssumption DEF RankTypeOK

\* Stage 0 against a lost document.
LEMMA NotBelow ==
  ASSUME NEW x \in Items, NEW d \in Nat, NEW s \in Nat
  PROVE  ~less_than_stage0(x, [depth |-> d, score |-> s])
           <=> x.depth < d \/ (x.depth = d /\ s <= x.score)
BY ItemFields DEF less_than_stage0

\* In an idle heap under stage 0 the item at the top is the least of those kept.
LEMMA TopIsLeast ==
  ASSUME RankInv, phase = "search", op = "idle", NEW x \in keep
  PROVE  ~less_than_stage0(x, array[0]) /\ array[0] \in keep /\ array[0] \in Items
         /\ x \in Items
<1>1. /\ HeapTypeOK /\ OrderedFrom(0) /\ ltf = "stage0" /\ end = n_items
      /\ keep = {array[k] : k \in 0 .. n_items - 1} /\ keep \subseteq Items
      /\ n_items \in Nat
  BY SizeAssumption DEF RankInv, RankTypeOK, HeapInv, KeepIsHeap, PhaseOK
<1>2. PICK k \in 0 .. end - 1 : x = array[k]
  BY <1>1
<1>3. 0 \in 0 .. end - 1
  BY <1>1, <1>2
<1>4. ~Lt(ltf, array[k], array[0])
  BY <1>1, RootIsLeast
<1>5. array[0] \in keep /\ array[0] \in Items
  BY <1>1, <1>3
<1> QED
  BY <1>1, <1>2, <1>4, <1>5, HeapOfItems DEF LessThan

\* A new item of a node: one more that is not deeper.
LEMMA InsertIsBest ==
  ASSUME RankInv, BestInv, NEW score \in Scores, FilterInsert(score)
  PROVE  BestInv'
<1>1. /\ n_items' = n_items + 1 /\ lost' = lost /\ keep' = keep \cup {NewItem(score)}
      /\ rot_depth' = rot_depth /\ inOrder' = inOrder /\ phase = "search" /\ end # Size
  BY DEF FilterInsert, Offer, searchVars, Full
<1>2. n_items # Size /\ lost = {} /\ rot_depth \in Nat
  BY <1>1, RankAssumption DEF RankInv, RankTypeOK, KeepIsHeap, BestInv
<1>3. NewItem(score).depth = rot_depth
  BY DEF NewItem
<1> QED
  BY <1>1, <1>2, <1>3 DEF BestInv

\* A document of the node, whose score is above that of the top, replaces it.
LEMMA ReplaceIsBest ==
  ASSUME RankInv, BestInv, NEW score \in Scores, FilterReplace(score)
  PROVE  BestInv'
<1> DEFINE new == NewItem(score)
           top == array[0]
<1>1. /\ n_items' = n_items /\ keep' = (keep \ {top}) \cup {new}
      /\ lost' = lost \cup {<<top.depth, top.score>>}
      /\ rot_depth' = rot_depth /\ inOrder' = inOrder /\ phase = "search" /\ op = "idle"
      /\ end = Size /\ top.score < score /\ offers < MaxOffers
  BY DEF FilterReplace, Offer, searchVars, Full, heap_top
<1>2. /\ n_items = Size /\ rot_depth \in Nat /\ RankTypeOK /\ Size \in Nat /\ Size > 0
      /\ keep \subseteq Items
  BY <1>1, SizeAssumption, RankAssumption DEF RankInv, RankTypeOK, KeepIsHeap
<1>3. new \in Items /\ new.depth = rot_depth /\ new.score = score
  BY <1>1, <1>2, NewItemIs DEF NewItem
<1>4. top \in keep
  <2>1. keep = {array[k] : k \in 0 .. n_items - 1} /\ 0 \in 0 .. n_items - 1
    BY <1>2 DEF RankInv, KeepIsHeap
  <2> QED
    BY <2>1
<1>5. \A x \in keep : ~less_than_stage0(x, top) /\ x \in Items
  BY <1>1, TopIsLeast
<1>6. /\ top.depth \in Nat /\ top.score \in Nat /\ score \in Nat
      /\ \A x \in keep : x.depth \in Nat /\ x.score \in Nat
  BY <1>3, <1>4, <1>5, ItemFields
<1>7. lost' # {} => n_items' = Size
  BY <1>1, <1>2
<1>8. inOrder' => \A x \in keep' : x.depth <= rot_depth'
  BY <1>1, <1>2, <1>3 DEF BestInv
<1>9. \E x \in keep' : x.depth = rot_depth'
  BY <1>1, <1>3
<1>10. ASSUME STOP <= Size, inOrder, NEW l \in lost', NEW x \in keep'
       PROVE  ~less_than_stage0(x, [depth |-> l[1], score |-> l[2]])
  <2>1. top.depth = rot_depth
    <3>1. PICK y \in keep : y.depth = rot_depth
      BY <1>2, <1>10 DEF BestInv
    <3>2. top.depth <= rot_depth
      BY <1>4, <1>10 DEF BestInv
    <3>3. ~(y.depth > top.depth)
      BY <3>1, <1>5, <1>6 DEF less_than_stage0
    <3> QED
      BY <3>1, <3>2, <3>3, <1>2, <1>6
  <2>2. l \in lost => l[1] \in Nat /\ l[2] \in Nat
    BY <1>2, LostIs
  <2>3. CASE l \in lost /\ x \in keep
    BY <2>3, <1>10 DEF BestInv
  <2>4. CASE l \in lost /\ x = new
    <3>1. ~less_than_stage0(top, [depth |-> l[1], score |-> l[2]])
      BY <2>4, <1>4, <1>10 DEF BestInv
    <3>2. top.depth < l[1] \/ (top.depth = l[1] /\ l[2] <= top.score)
      BY <3>1, <2>2, <2>4, <1>4, <1>5, NotBelow
    <3>3. x.depth < l[1] \/ (x.depth = l[1] /\ l[2] <= x.score)
      BY <3>2, <2>1, <2>2, <2>4, <1>1, <1>3, <1>6
    <3> QED
      BY <3>3, <2>2, <2>4, <1>3, NotBelow
  <2>5. CASE l = <<top.depth, top.score>> /\ x \in keep
    <3>1. ~less_than_stage0(x, top)
      BY <2>5, <1>5
    <3> QED
      BY <3>1, <2>5 DEF less_than_stage0
  <2>6. CASE l = <<top.depth, top.score>> /\ x = new
    <3>1. x.depth = l[1] /\ l[2] <= x.score
      BY <2>1, <2>6, <1>1, <1>3, <1>6
    <3> QED
      BY <3>1, <2>6, <1>3, <1>6, NotBelow
  <2> QED
    BY <2>3, <2>4, <2>5, <2>6, <1>1, <1>10
<1> QED
  BY <1>1, <1>2, <1>7, <1>8, <1>9, <1>10 DEF BestInv

\* A document of the node, whose score is not above that of the top, is dropped.
LEMMA DropIsBest ==
  ASSUME RankInv, BestInv, NEW score \in Scores, FilterDrop(score)
  PROVE  BestInv'
<1> DEFINE top == array[0]
<1>1. /\ n_items' = n_items /\ keep' = keep /\ lost' = lost \cup {<<rot_depth, score>>}
      /\ rot_depth' = rot_depth /\ inOrder' = inOrder /\ phase = "search" /\ op = "idle"
      /\ end = Size /\ ~(top.score < score)
  BY DEF FilterDrop, Offer, searchVars, Full, heap_top
<1>2. /\ n_items = Size /\ rot_depth \in Nat /\ score \in Nat
  BY <1>1, RankAssumption DEF RankInv, RankTypeOK, KeepIsHeap
<1>3. ASSUME inOrder, NEW x \in keep
      PROVE  ~less_than_stage0(x, [depth |-> rot_depth, score |-> score])
  <2>1. ~less_than_stage0(x, top) /\ top \in keep /\ top \in Items /\ x \in Items
    BY <1>1, TopIsLeast
  <2>2. x.depth <= rot_depth /\ top.depth <= rot_depth
    BY <1>3, <2>1 DEF BestInv
  <2>3. /\ x.depth \in Nat /\ x.score \in Nat /\ top.depth \in Nat /\ top.score \in Nat
    BY <2>1, ItemFields
  <2>4. x.depth < top.depth \/ (x.depth = top.depth /\ top.score <= x.score)
    BY <2>1, <2>3 DEF less_than_stage0
  <2>5. x.depth < rot_depth \/ (x.depth = rot_depth /\ score <= x.score)
    BY <2>2, <2>3, <2>4, <1>1, <1>2
  <2> QED
    BY <2>1, <2>5, <1>2, NotBelow
<1>4. ASSUME STOP <= Size, inOrder, NEW l \in lost', NEW x \in keep
      PROVE  ~less_than_stage0(x, [depth |-> l[1], score |-> l[2]])
  BY <1>1, <1>3, <1>4 DEF BestInv
<1> QED
  BY <1>1, <1>2, <1>4 DEF BestInv

\* Every step keeps the best: a node begins only while there is room.
LEMMA BestInvStep == RankInv /\ BestInv /\ [Next]_vars => BestInv'
<1> SUFFICES ASSUME RankInv, BestInv, [Next]_vars PROVE BestInv'
  OBVIOUS
<1>1. ASSUME NEW score \in Scores, FilterInsert(score) PROVE BestInv'
  BY <1>1, InsertIsBest
<1>2. ASSUME NEW score \in Scores, FilterReplace(score) PROVE BestInv'
  BY <1>2, ReplaceIsBest
<1>3. ASSUME NEW score \in Scores, FilterDrop(score) PROVE BestInv'
  BY <1>3, DropIsBest
<1>4. CASE NextNode
  <2>1. /\ n_items' = n_items /\ keep' = keep /\ lost' = lost /\ n_items < STOP
        /\ inOrder' = (inOrder /\ rot_depth <= rot_depth') /\ rot_depth' \in Depths
    BY <1>4 DEF NextNode, rankVars
  <2>2. /\ n_items \in Nat /\ Size \in Nat /\ STOP \in Nat /\ keep \subseteq Items
        /\ rot_depth \in Nat /\ rot_depth' \in Nat
    BY <2>1, SizeAssumption, RankAssumption DEF RankInv, RankTypeOK
  <2>3. inOrder' => inOrder /\ rot_depth <= rot_depth'
    BY <2>1
  <2>4. ASSUME inOrder', NEW x \in keep PROVE x.depth <= rot_depth'
    <3>1. x.depth <= rot_depth /\ x.depth \in Nat
      BY <2>2, <2>3, <2>4, ItemFields DEF BestInv
    <3> QED
      BY <3>1, <2>2, <2>3, <2>4
  <2>5. STOP <= Size => n_items # Size
    BY <2>1, <2>2
  <2> QED
    BY <2>1, <2>3, <2>4, <2>5 DEF BestInv
<1>5. CASE SetFrmlRec
  <2>1. PICK brw \in [0 .. end - 1 -> Brws] :
          keep' = {WithBrw(array[k], brw[k]) : k \in 0 .. end - 1}
    BY <1>5 DEF SetFrmlRec
  <2>2. /\ n_items' = n_items /\ lost' = lost /\ rot_depth' = rot_depth /\ inOrder' = inOrder
        /\ phase = "stop"
    BY <1>5 DEF SetFrmlRec
  <2>3. /\ end = n_items /\ keep = {array[k] : k \in 0 .. n_items - 1}
        /\ keep \subseteq RankItems
    BY <2>2, HeapOfItems DEF RankInv, RankTypeOK, KeepIsHeap
  <2>4. ASSUME NEW x \in RankItems, NEW b
        PROVE  WithBrw(x, b).depth = x.depth /\ WithBrw(x, b).score = x.score
    BY DEF WithBrw, RankItems
  <2>5. \A y \in keep' : \E x \in keep : y.depth = x.depth /\ y.score = x.score
    <3>1. ASSUME NEW k \in 0 .. end - 1
          PROVE  \E x \in keep : /\ WithBrw(array[k], brw[k]).depth = x.depth
                                 /\ WithBrw(array[k], brw[k]).score = x.score
      BY <2>3, <2>4
    <3> QED
      BY <2>1, <3>1
  <2>6. \A x \in keep : \E y \in keep' : y.depth = x.depth
    <3>1. ASSUME NEW k \in 0 .. end - 1
          PROVE  \E y \in keep' : y.depth = array[k].depth
      BY <2>1, <2>3, <2>4
    <3> QED
      BY <2>3, <3>1
  <2> QED
    BY <2>2, <2>5, <2>6 DEF BestInv, less_than_stage0
<1>6. CASE StopNodes \/ FinalSort \/ Heap \/ UNCHANGED vars
  <2>1. UNCHANGED <<keep, lost, n_items, rot_depth, inOrder>>
    BY <1>6 DEF StopNodes, FinalSort, Heap, vars, rankVars, searchVars
  <2> QED
    BY <2>1 DEF BestInv
<1> QED
  BY <1>1, <1>2, <1>3, <1>4, <1>5, <1>6 DEF Next, Finished

\* With a capacity not below STOP and merge nodes in depth order no document is
\* lost that is better than one that is kept, for every number of documents,
\* nodes, depths and scores, although rank_filter() compares scores only.
THEOREM BestAreKept == Spec => []KeepsBest
<1>1. Init => BestInv
  <2> SUFFICES ASSUME Init PROVE BestInv
    OBVIOUS
  <2>1. n_items = 0 /\ lost = {} /\ keep = {} /\ Size # 0
    BY RankAssumption, SizeAssumption DEF Init
  <2> QED
    BY <2>1 DEF BestInv
<1>2. BestInv => KeepsBest
  BY DEF BestInv, KeepsBest
<1> QED
  BY <1>1, <1>2, RankInvariant, BestInvStep, PTL DEF Spec

---------------------------------------------------------------------------
(* The result pages *)

\* Division by a positive number.
LEMMA DivIs ==
  ASSUME NEW a \in Nat, NEW b \in Nat \ {0}
  PROVE  /\ a \div b \in Nat
         /\ (a \div b) * b <= a /\ a < (a \div b) * b + b
         /\ a % b = a - (a \div b) * b
<1>1. a \div b \in Int
  OBVIOUS
<1>2. (a \div b) * b <= a
  OBVIOUS
<1>3. a < (a \div b) * b + b
  OBVIOUS
<1>4. a % b = a - (a \div b) * b
  OBVIOUS
<1>5. ASSUME NEW x \in Int, a < x * b + b PROVE x >= 0
  <2>1. SUFFICES ASSUME x <= -1 PROVE FALSE
    OBVIOUS
  <2>2. x * b <= (-1) * b
    BY <2>1
  <2> QED
    BY <2>2, <1>5
<1> QED
  BY <1>1, <1>2, <1>3, <1>4, <1>5

\* A smaller number is its own remainder.
LEMMA SmallRemainder ==
  ASSUME NEW a \in Nat, NEW b \in Nat \ {0}, a < b
  PROVE  a % b = a
OBVIOUS

\* Multiples of the page size.
LEMMA Multiples ==
  ASSUME NEW j \in Nat, NEW k \in Nat, NEW b \in Nat
  PROVE  /\ j * b \in Nat /\ (j + 1) * b = j * b + b
         /\ j <= k => j * b <= k * b
OBVIOUS

\* div_ceil(): enough pages of this size, and none of them starts behind the end.
LEMMA CeilIs ==
  ASSUME NEW a \in Nat, NEW b \in Nat \ {0}
  PROVE  /\ div_ceil(a, b) \in Nat /\ div_ceil(a, b) * b \in Nat /\ a <= div_ceil(a, b) * b
         /\ \A k \in 0 .. div_ceil(a, b) - 1 : k * b < a
<1> DEFINE q == a \div b
           c == div_ceil(a, b)
<1>1. /\ q \in Nat /\ q * b <= a /\ a < q * b + b /\ a % b = a - q * b
  BY DivIs
<1>2. q * b \in Nat /\ (q + 1) * b = q * b + b
  BY <1>1, Multiples
<1>3. CASE a % b = 0
  <2>1. c = q /\ a = q * b
    BY <1>1, <1>2, <1>3 DEF div_ceil
  <2>2. ASSUME NEW k \in 0 .. c - 1 PROVE k * b < a
    <3>1. k \in Nat /\ k + 1 \in Nat /\ k + 1 <= q
      BY <2>1, <1>1
    <3>2. k * b \in Nat /\ (k + 1) * b = k * b + b /\ (k + 1) * b <= q * b
      BY <3>1, <1>1, Multiples
    <3> QED
      BY <3>2, <2>1, <1>2
  <2> QED
    BY <2>1, <2>2, <1>1, <1>2
<1>4. CASE a % b # 0
  <2>1. c = q + 1 /\ q * b < a
    BY <1>1, <1>2, <1>4 DEF div_ceil
  <2>2. ASSUME NEW k \in 0 .. c - 1 PROVE k * b < a
    <3>1. k \in Nat /\ k <= q
      BY <2>1, <1>1
    <3>2. k * b \in Nat /\ k * b <= q * b
      BY <3>1, <1>1, Multiples
    <3> QED
      BY <3>2, <2>1, <1>2
  <2> QED
    BY <2>1, <2>2, <1>1, <1>2
<1> QED
  BY <1>3, <1>4

\* A page is an interval that is not empty, from a multiple of the page size to
\* the next one or to the end.
LEMMA WindowIs ==
  ASSUME n_items \in Nat, NEW per \in Nat \ {0}, NEW page \in 0 .. tot_page(per) - 1
  PROVE  \E to \in Nat :
           /\ rank_window(page, per) = page * per .. to - 1
           /\ page * per \in Nat /\ page * per < to /\ to <= n_items /\ to <= page * per + per
           /\ to = n_items \/ to = page * per + per
<1>1. tot_page(per) = div_ceil(n_items, per) /\ tot_page(per) \in Nat
  BY CeilIs DEF tot_page
<1>2. page \in Nat /\ page * per < n_items
  BY <1>1, CeilIs
<1>3. page * per \in Nat /\ (page + 1) * per = page * per + per
  BY <1>2, Multiples
<1>4. ~(page >= tot_page(per))
  BY <1>1
<1> DEFINE to == IF (page + 1) * per > n_items THEN n_items ELSE (page + 1) * per
<1>5. rank_window(page, per) = page * per .. to - 1
  BY <1>4 DEF rank_window
<1>6. /\ to \in Nat /\ page * per < to /\ to <= n_items /\ to <= page * per + per
      /\ to = n_items \/ to = page * per + per
  BY <1>2, <1>3
<1> QED
  BY <1>3, <1>5, <1>6

\* Behind the last page there is nothing.
LEMMA NoWindow ==
  ASSUME n_items \in Nat, NEW per \in Nat \ {0}
  PROVE  rank_window(tot_page(per), per) = {} /\ tot_page(per) \in Nat
<1>1. tot_page(per) \in Nat
  BY CeilIs DEF tot_page
<1> QED
  BY <1>1 DEF rank_window

\* Every result is on a page.
LEMMA AllShown ==
  ASSUME n_items \in Nat, NEW per \in Nat \ {0}
  PROVE  UNION {rank_window(p, per) : p \in 0 .. tot_page(per) - 1} = 0 .. n_items - 1
<1> DEFINE T == tot_page(per)
<1>1. T = div_ceil(n_items, per) /\ T \in Nat /\ T * per \in Nat /\ n_items <= T * per
  BY CeilIs DEF tot_page
<1>2. ASSUME NEW p \in 0 .. T - 1, NEW i \in rank_window(p, per) PROVE i \in 0 .. n_items - 1
  <2>1. PICK to \in Nat : /\ rank_window(p, per) = p * per .. to - 1
                          /\ p * per \in Nat /\ to <= n_items
    BY WindowIs
  <2> QED
    BY <2>1, <1>2
<1>3. ASSUME NEW i \in 0 .. n_items - 1 PROVE \E p \in 0 .. T - 1 : i \in rank_window(p, per)
  <2> DEFINE p == i \div per
  <2>1. i \in Nat /\ p \in Nat /\ p * per <= i /\ i < p * per + per
    BY <1>3, DivIs
  <2>2. p * per \in Nat
    BY <2>1, Multiples
  <2> HIDE DEF p
  <2>3. p \in 0 .. T - 1
    <3>1. SUFFICES ASSUME T <= p PROVE FALSE
      BY <2>1, <1>1
    <3>2. T * per <= p * per
      BY <3>1, <2>1, <1>1, Multiples
    <3> QED
      BY <3>2, <2>1, <2>2, <1>1, <1>3
  <2>4. PICK to \in Nat : /\ rank_window(p, per) = p * per .. to - 1
                          /\ to = n_items \/ to = p * per + per
    BY <2>3, WindowIs
  <2>5. i \in rank_window(p, per)
    BY <2>1, <2>2, <2>4, <1>3
  <2> QED
    BY <2>3, <2>5
<1> QED
  BY <1>2, <1>3

\* No result is on two pages.
LEMMA ShownOnce ==
  ASSUME n_items \in Nat, NEW per \in Nat \ {0},
         NEW j \in 0 .. tot_page(per) - 1, NEW k \in 0 .. tot_page(per) - 1, j < k
  PROVE  rank_window(j, per) \cap rank_window(k, per) = {}
<1>1. PICK to \in Nat : /\ rank_window(j, per) = j * per .. to - 1
                        /\ to <= j * per + per
  BY WindowIs
<1>2. PICK to2 \in Nat : rank_window(k, per) = k * per .. to2 - 1
  BY WindowIs
<1>3. tot_page(per) \in Nat
  BY NoWindow
<1>4. /\ j \in Nat /\ k \in Nat /\ j + 1 \in Nat /\ j + 1 <= k
  BY <1>3
<1>5. /\ j * per \in Nat /\ k * per \in Nat /\ (j + 1) * per = j * per + per
      /\ (j + 1) * per <= k * per
  BY <1>4, Multiples
<1>6. to <= k * per
  BY <1>1, <1>5
<1>7. ASSUME NEW i \in rank_window(j, per) PROVE i \notin rank_window(k, per)
  BY <1>1, <1>2, <1>5, <1>6, <1>7
<1> QED
  BY <1>7

\* A BOOL can count the results of a page that has no more than it can hold.
LEMMA CountFits ==
  ASSUME n_items \in Nat, NEW per \in Nat \ {0}, per <= UINT8_MAX,
         NEW p \in 0 .. tot_page(per)
  PROVE  rank_window_foreach(p, per) = 0 <=> rank_window(p, per) = {}
<1>1. UINT8_MAX + 1 \in Nat \ {0} /\ tot_page(per) \in Nat
  BY RankAssumption, NoWindow
<1>2. CASE p = tot_page(per)
  <2>1. Cardinality(rank_window(p, per)) = 0 /\ rank_window(p, per) = {}
    BY <1>2, NoWindow, FS_EmptySet
  <2> QED
    BY <2>1, <1>1 DEF rank_window_foreach
<1>3. CASE p # tot_page(per)
  <2>1. p \in 0 .. tot_page(per) - 1
    BY <1>1, <1>3
  <2>2. PICK to \in Nat :
          /\ rank_window(p, per) = p * per .. to - 1
          /\ p * per \in Nat /\ p * per < to /\ to <= p * per + per
    BY <2>1, WindowIs
  <2>3. Cardinality(p * per .. to - 1) = to - p * per
    BY <2>2, FS_Interval
  <2>4. Cardinality(rank_window(p, per)) \in 1 .. UINT8_MAX
    BY <2>2, <2>3, RankAssumption
  <2>5. Cardinality(rank_window(p, per)) \in Nat
        /\ Cardinality(rank_window(p, per)) < UINT8_MAX + 1
    BY <2>4, RankAssumption
  <2>6. rank_window_foreach(p, per) # 0
    BY <2>4, <2>5, <1>1, SmallRemainder DEF rank_window_foreach
  <2>7. p * per \in rank_window(p, per)
    BY <2>2
  <2> QED
    BY <2>6, <2>7
<1> QED
  BY <1>2, <1>3

\* The pages show every result once, and no page is empty, for every number of
\* results and every page size.
THEOREM PagesShowAllOnce == Spec => []PagesPartition
<1>1. RankInv => PagesPartition
  <2> SUFFICES ASSUME RankInv, NEW per \in 1 .. MaxPage
               PROVE  LET pages == 0 .. tot_page(per) - 1
                      IN  /\ UNION {rank_window(p, per) : p \in pages} = 0 .. n_items - 1
                          /\ \A p \in pages : rank_window(p, per) # {}
                          /\ \A p, q \in pages :
                               p # q => rank_window(p, per) \cap rank_window(q, per) = {}
                          /\ per <= UINT8_MAX =>
                               \A p \in 0 .. tot_page(per) :
                                 rank_window_foreach(p, per) = 0 <=> rank_window(p, per) = {}
    BY DEF PagesPartition
  <2> DEFINE pages == 0 .. tot_page(per) - 1
  <2>1. n_items \in Nat /\ per \in Nat \ {0}
    BY SizeAssumption DEF RankInv, RankTypeOK
  <2>2. UNION {rank_window(p, per) : p \in pages} = 0 .. n_items - 1
    BY <2>1, AllShown
  <2>3. ASSUME NEW p \in pages PROVE rank_window(p, per) # {}
    <3>1. PICK to \in Nat : /\ rank_window(p, per) = p * per .. to - 1
                            /\ p * per \in Nat /\ p * per < to
      BY <2>1, WindowIs
    <3>2. p * per \in rank_window(p, per)
      BY <3>1
    <3> QED
      BY <3>2
  <2>4. ASSUME NEW p \in pages, NEW q \in pages, p # q
        PROVE  rank_window(p, per) \cap rank_window(q, per) = {}
    <3>1. tot_page(per) \in Nat
      BY <2>1, NoWindow
    <3>2. CASE p < q
      BY <2>1, <3>2, ShownOnce
    <3>3. CASE q < p
      <4>1. rank_window(q, per) \cap rank_window(p, per) = {}
        BY <2>1, <3>3, ShownOnce
      <4> QED
        BY <4>1
    <3> QED
      BY <2>4, <3>1, <3>2, <3>3
  <2>5. ASSUME per <= UINT8_MAX, NEW p \in 0 .. tot_page(per)
        PROVE  rank_window_foreach(p, per) = 0 <=> rank_window(p, per) = {}
    BY <2>1, <2>5, CountFits
  <2> QED
    BY <2>2, <2>3, <2>4, <2>5
<1> QED
  BY <1>1, RankInvariant, PTL

=============================================================================
