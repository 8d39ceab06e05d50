------------------------------ MODULE MinHeap ------------------------------
(***************************************************************************)
(* search/minheap.c: the array heap under the ranking list, one action per *)
(* iteration of its loops.  The least item is at index 0.  Lt is the       *)
(* callback of heap_set_callbk(): Lt(f, a, b) is the result of comparison  *)
(* function f on a and b.                                                  *)
(***************************************************************************)
EXTENDS Integers

CONSTANTS Size,         \* heap_create()'s size
          Items,        \* what array cells point to
          NULL,         \* a cell nothing was stored in (calloc)
          Compares,     \* the comparison functions
          Lt(_, _, _)   \* (*ltf)(a, b)

ASSUME SizeAssumption == Size \in Nat
ASSUME NullAssumption == NULL \notin Items

\* Every comparison function is a strict weak order.
ASSUME OrderAssumption ==
  \A f \in Compares : \A a, b, c \in Items :
    /\ Lt(f, a, b) \in BOOLEAN
    /\ ~Lt(f, a, a)
    /\ ~Lt(f, a, b) /\ ~Lt(f, b, c) => ~Lt(f, a, c)
    /\ Lt(f, a, b) => ~Lt(f, b, a)

VARIABLES
  array, end, ltf,  \* struct heap
  op,     \* the loop that runs: "idle", "up", "down", "heapify", "sort", "sorted"
  at,     \* its index i
  root,   \* minheap_heapify()'s index; 0 outside of it
  next    \* where min_shift_down() returns to

heapVars == <<array, end, ltf, op, at, root, next>>

Indexes == 0 .. Size - 1

Father(k)   == (k - 1) \div 2
RightSon(k) == 2 * k + 2

Swapped(j, k) == [array EXCEPT ![j] = array[k], ![k] = array[j]]

\* Fault for the mutation test: full one item too late.
FullLate == end > Size

Full == end = Size

HeapInit ==
  /\ array = [k \in Indexes |-> NULL]
  /\ end = 0 /\ ltf \in Compares
  /\ op = "idle" /\ at = 0 /\ root = 0 /\ next = "idle"

---------------------------------------------------------------------------
(* minheap_insert: append, then compare up to the root, swapping or not *)

Insert(x) ==
  /\ op = "idle" /\ ~Full
  /\ array' = [array EXCEPT ![end] = x]
  /\ end' = end + 1
  /\ at' = end
  /\ op' = "up"
  /\ UNCHANGED <<ltf, root, next>>

\* Fault for the mutation test: only one level is climbed.
ShiftUpOnce ==
  /\ op = "up" /\ at # 0
  /\ array' = IF Lt(ltf, array[at], array[Father(at)])
              THEN Swapped(at, Father(at)) ELSE array
  /\ at' = 0
  /\ UNCHANGED <<end, ltf, op, root, next>>

ShiftUp ==
  /\ op = "up" /\ at # 0
  /\ array' = IF Lt(ltf, array[at], array[Father(at)])
              THEN Swapped(at, Father(at)) ELSE array
  /\ at' = Father(at)
  /\ UNCHANGED <<end, ltf, op, root, next>>

UpDone ==
  /\ op = "up" /\ at = 0
  /\ op' = "idle"
  /\ UNCHANGED <<array, end, ltf, at, root, next>>

---------------------------------------------------------------------------
(* min_shift_down: swap with the smaller son until neither is smaller *)

MinSon(k) ==
  LET r == RightSon(k)
      l == r - 1
      m == IF r < end /\ Lt(ltf, array[r], array[k]) THEN r ELSE k
  IN  IF l < end /\ Lt(ltf, array[l], array[m]) THEN l ELSE m

\* Call min_shift_down(k) and then go on at `cont`.
CallShiftDown(k, cont) ==
  /\ op' = "down" /\ at' = k /\ next' = cont

ShiftDown ==
  /\ op = "down" /\ MinSon(at) # at
  /\ array' = Swapped(MinSon(at), at)
  /\ at' = MinSon(at)
  /\ UNCHANGED <<end, ltf, op, root, next>>

DownDone ==
  /\ op = "down" /\ MinSon(at) = at
  /\ op' = next
  /\ UNCHANGED <<array, end, ltf, at, root, next>>

\* minheap_replace(h, 0, x)
Replace(x) ==
  /\ op = "idle" /\ end > 0
  /\ array' = [array EXCEPT ![0] = x]
  /\ CallShiftDown(0, "idle")
  /\ UNCHANGED <<end, ltf, root>>

---------------------------------------------------------------------------
(* heap_sort_desc under another comparison function: heapify, then move   *)
(* the least item behind the heap until the heap is empty                 *)

\* heap_set_callbk() and the entry of heap_sort_desc().
SortDesc(f) ==
  /\ op = "idle"
  /\ ltf' = f
  /\ IF end \div 2 = 0
     THEN /\ op' = "sort"
          /\ UNCHANGED <<at, root, next>>
     ELSE /\ root' = (end \div 2) - 1
          /\ CallShiftDown((end \div 2) - 1, "heapify")
  /\ UNCHANGED <<array, end>>

HeapifyNext ==
  /\ op = "heapify" /\ root # 0
  /\ root' = root - 1
  /\ CallShiftDown(root - 1, "heapify")
  /\ UNCHANGED <<array, end, ltf>>

HeapifyDone ==
  /\ op = "heapify" /\ root = 0
  /\ op' = "sort"
  /\ UNCHANGED <<array, end, ltf, at, root, next>>

\* minheap_delete(h, 0)
SortStep ==
  /\ op = "sort" /\ end # 0
  /\ end' = end - 1
  /\ array' = Swapped(0, end - 1)
  /\ CallShiftDown(0, "sort")
  /\ UNCHANGED <<ltf, root>>

SortDone ==
  /\ op = "sort" /\ end = 0
  /\ op' = "sorted"
  /\ UNCHANGED <<array, end, ltf, at, root, next>>

\* The steps of a running heap operation.
HeapStep == \/ ShiftUp \/ UpDone \/ ShiftDown \/ DownDone
            \/ HeapifyNext \/ HeapifyDone \/ SortStep \/ SortDone

---------------------------------------------------------------------------
(* Properties *)

\* The types of the variables; a running operation is at an index of the heap.
HeapTypeOK ==
  /\ end \in 0 .. Size
  /\ array \in [Indexes -> Items \cup {NULL}]
  /\ \A k \in 0 .. end - 1 : array[k] \in Items
  /\ ltf \in Compares
  /\ op \in {"idle", "up", "down", "heapify", "sort", "sorted"}
  /\ next \in {"idle", "heapify", "sort"}
  /\ at \in Nat /\ root \in Nat
  /\ op = "up" => at < end
  /\ op = "down" => (at < end \/ (at = 0 /\ next = "sort"))
  /\ (op = "heapify" \/ (op = "down" /\ next = "heapify")) => root < end

\* Index k is not less than its father.
Ordered(k) == ~Lt(ltf, array[k], array[Father(k)])

\* Every index but `except` that has a father at or behind r is in order, and so
\* are the sons of a hole with the father of the hole.
OrderedUp(hole) ==
  \A k \in 1 .. end - 1 :
    /\ k # hole => Ordered(k)
    /\ Father(k) = hole /\ hole # 0 => ~Lt(ltf, array[k], array[Father(hole)])

OrderedDown(r, hole) ==
  \A k \in 1 .. end - 1 :
    /\ Father(k) >= r /\ Father(k) # hole => Ordered(k)
    /\ Father(k) = hole /\ hole # 0 /\ Father(hole) >= r =>
         ~Lt(ltf, array[k], array[Father(hole)])

OrderedFrom(r) == \A k \in 1 .. end - 1 : Father(k) >= r => Ordered(k)

\* Where the heap order holds while an operation runs.
HeapInv ==
  /\ op \in {"idle", "sort"} => OrderedFrom(0) /\ root = 0
  /\ op = "up" => OrderedUp(at) /\ root = 0
  /\ op = "down" => OrderedDown(root, at) /\ at >= root
  /\ op = "down" /\ next # "heapify" => root = 0
  /\ op = "heapify" => OrderedFrom(root)
  /\ op = "sorted" => end = 0

\* Between two operations every item is at least as good as its father.
HeapOrder == op = "idle" => \A k \in 1 .. end - 1 : Ordered(k)

=============================================================================
