--------------------------- MODULE TexTreeProofs ---------------------------
(***************************************************************************)
(* The tree of a formula is well formed in every step, from the parser's   *)
(* first reduction to the release of the last node: on any memory of       *)
(* linked lists, the operations of Lists keep a forest; a traversal stays  *)
(* in it although its callbacks detach, free and attach nodes; and every   *)
(* tree has one owner.                                                     *)
(***************************************************************************)
EXTENDS TexTree, FiniteSetTheorems, WellFoundedInduction, SequenceTheorems, TLAPS

---------------------------------------------------------------------------
(* Sets and functions *)

\* Induction over the naturals.
LEMMA SetInduction ==
  ASSUME NEW S, 0 \in S, \A k \in Nat : k \in S => k + 1 \in S
  PROVE  \A k \in Nat : k \in S
<1> DEFINE B == {k \in Nat : k \notin S}
           R == {x \in Nat \X Nat : x[1] < x[2]}
<1>1. IsWellFoundedOn(R, Nat)
  BY NatLessThanWellFounded DEF OpToRel
<1>2. \A n, m \in Nat : n < m => <<n, m>> \in R
  OBVIOUS
<1> HIDE DEF R
<1> SUFFICES ASSUME B # {} PROVE FALSE
  OBVIOUS
<1>3. B \in SUBSET Nat
  OBVIOUS
<1>4. PICK m \in B : \A n \in B : <<n, m>> \notin R
  BY <1>1, <1>3, WFMin
<1>5. m \in Nat /\ m \notin S /\ m # 0
  OBVIOUS
<1>6. m - 1 \in Nat /\ m - 1 < m /\ (m - 1) + 1 = m
  BY <1>5
<1>7. m - 1 \in S
  BY <1>2, <1>4, <1>5, <1>6
<1> QED BY <1>5, <1>6, <1>7

---------------------------------------------------------------------------
(* The links of the nodes *)

Head0 == [now : Nodes \cup {NULL}, last : Nodes \cup {NULL}]
Memory == [prev : [Nodes -> Nodes], next : [Nodes -> Nodes],
           father : [Nodes -> Nodes \cup {NULL}], sons : [Nodes -> Head0]]

\* The head of a list.
It(now, last) == [now |-> now, last |-> last]

\* A function with one value changed.
Put(g, x, y) == [g EXCEPT ![x] = y]

\* The values of a function that is changed at one place.
LEMMA PutValues ==
  ASSUME NEW T, NEW g \in [Nodes -> T], NEW x \in Nodes, NEW y \in T
  PROVE  /\ Put(g, x, y) \in [Nodes -> T]
         /\ \A c \in Nodes : Put(g, x, y)[c] = IF c = x THEN y ELSE g[c]
BY DEF Put

\* No node is NULL.
LEMMA NodeNotNull == NULL \notin Nodes
BY DEF Nodes, NULL

\* What list_tk() does to the two strings it fastens.
Fastened(m, a, b) ==
  [m EXCEPT !.prev = [m.prev EXCEPT ![a.now] = b.last, ![b.now] = a.last],
            !.next = [m.next EXCEPT ![a.last] = b.now, ![b.last] = a.now]]

\* The fields of the head of a list.
LEMMA ItFields ==
  \A x, y \in Nodes \cup {NULL} : It(x, y).now = x /\ It(x, y).last = y /\ It(x, y) \in Head0
BY DEF It, Head0

\* list_tk() of two strings that are not empty.
LEMMA Fasten ==
  ASSUME NEW m \in Memory, NEW i0, NEW i1, i1.now # NULL
  PROVE  /\ i0.now # NULL => /\ list_tk(m, i0, i1).mem = Fastened(m, i0, i1)
                             /\ list_tk(m, i0, i1).i0 = It(i0.now, i1.last)
         /\ i0.now = NULL => /\ list_tk(m, i0, i1).mem = Fastened(m, i1, i1)
                             /\ list_tk(m, i0, i1).i0 = It(i1.now, i1.last)
<1>1. ASSUME i0.now # NULL
      PROVE  /\ list_tk(m, i0, i1).mem = Fastened(m, i0, i1)
             /\ list_tk(m, i0, i1).i0 = It(i0.now, i1.last)
  BY <1>1, Zenon DEF list_tk, Fastened, It
<1>2. ASSUME i0.now = NULL
      PROVE  /\ list_tk(m, i0, i1).mem = Fastened(m, i1, i1)
             /\ list_tk(m, i0, i1).i0 = It(i1.now, i1.last)
  BY <1>2, Zenon DEF list_tk, Fastened, It
<1> QED BY <1>1, <1>2

\* It leaves a memory.
LEMMA FastenedType ==
  ASSUME NEW m \in Memory, NEW a, NEW b, a.now \in Nodes, a.last \in Nodes, b.now \in Nodes, b.last \in Nodes,
         NEW r, r = Fastened(m, a, b)
  PROVE  /\ r \in Memory /\ r.father = m.father /\ r.sons = m.sons
         /\ r.prev = [m.prev EXCEPT ![a.now] = b.last, ![b.now] = a.last]
         /\ r.next = [m.next EXCEPT ![a.last] = b.now, ![b.last] = a.now]
<1> QED BY DEF Fastened, Memory

\* Linking a node that is on no list at the tail of a list, an empty one or not.
LEMMA AttachMemory ==
  ASSUME NEW m \in Memory, NEW n \in Nodes, NEW f \in Nodes,
         m.father[n] = NULL, m.prev[n] = n,
         NEW a, a = tree_attach(m, n, f)
  PROVE  \E t, w : /\ t = Fastened(m, IF m.sons[f].now = NULL THEN It(n, n) ELSE m.sons[f], It(n, n))
                   /\ w = It(IF m.sons[f].now = NULL THEN n ELSE m.sons[f].now, n)
                   /\ t \in Memory => /\ a \in Memory /\ a.father = Put(t.father, n, f)
                                      /\ a.sons = Put(t.sons, f, w)
                                      /\ a.prev = t.prev /\ a.next = t.next
<1> DEFINE h == m.sons[f]
           one == It(n, n)
           tied == list_tk(m, h, one)
<1>1. n # NULL /\ h.now \in Nodes \cup {NULL} /\ h.last \in Nodes \cup {NULL}
  BY NodeNotNull DEF Memory, Head0
<1>2. a = [tied.mem EXCEPT !.sons = [tied.mem.sons EXCEPT ![f] = tied.i0], !.father = [tied.mem.father EXCEPT ![n] = f]]
  <2>1. list_get_it(m, n) = one
    BY DEF list_get_it, It
  <2> QED BY <2>1, Zenon DEF tree_attach
<1>7. one.now = n /\ one.last = n /\ one \in Head0
  BY ItFields
<1>3. /\ h.now # NULL => tied.mem = Fastened(m, h, one) /\ tied.i0 = It(h.now, n)
      /\ h.now = NULL => tied.mem = Fastened(m, one, one) /\ tied.i0 = It(n, n)
  BY <1>1, <1>7, Fasten
<1> HIDE DEF tied, h
<1>4. ASSUME NEW t \in Memory, NEW w \in Head0,
             a = [t EXCEPT !.sons = [t.sons EXCEPT ![f] = w], !.father = [t.father EXCEPT ![n] = f]]
      PROVE  /\ a \in Memory /\ a.father = Put(t.father, n, f)
             /\ a.sons = Put(t.sons, f, w) /\ a.prev = t.prev /\ a.next = t.next
  <2> DEFINE S == [t.sons EXCEPT ![f] = w]
             F == Put(t.father, n, f)
  <2>1. S \in [Nodes -> Head0] /\ F \in [Nodes -> Nodes \cup {NULL}]
    BY DEF Memory, Put
  <2> HIDE DEF S, F
  <2>2. a = [t EXCEPT !.sons = S, !.father = F]
    BY <1>4 DEF S, F, Put
  <2>3. a.sons = S /\ a.father = F /\ a.prev = t.prev /\ a.next = t.next
    BY <2>2 DEF Memory
  <2>4. a \in Memory
    BY <2>1, <2>2 DEF Memory
  <2> QED BY <2>3, <2>4, Zenon DEF S, F, Put
<1> DEFINE w == It(IF h.now = NULL THEN n ELSE h.now, n)
           t == Fastened(m, IF h.now = NULL THEN one ELSE h, one)
<1>5. t = tied.mem /\ w = tied.i0 /\ w \in Head0
  BY <1>1, <1>3, ItFields
<1> HIDE DEF t, w
<1>6. a = [t EXCEPT !.sons = [t.sons EXCEPT ![f] = w], !.father = [t.father EXCEPT ![n] = f]]
  BY <1>2, <1>5, Zenon
<1> HIDE DEF w
<1>8. t \in Memory => /\ a \in Memory /\ a.father = Put(t.father, n, f)
                      /\ a.sons = Put(t.sons, f, w) /\ a.prev = t.prev /\ a.next = t.next
  BY <1>4, <1>5, <1>6, ZenonT(60) DEF Put
<1> QED BY <1>8, Zenon DEF t, w, h

\* tree_attach() to a node that has no sons.
LEMMA AttachFirst ==
  ASSUME NEW m \in Memory, NEW n \in Nodes, NEW f \in Nodes,
         m.father[n] = NULL, m.prev[n] = n, m.sons[f].now = NULL,
         NEW a, a = tree_attach(m, n, f)
  PROVE  /\ a \in Memory
         /\ \A c \in Nodes : /\ a.father[c] = IF c = n THEN f ELSE m.father[c]
                             /\ a.sons[c] = IF c = f THEN It(n, n) ELSE m.sons[c]
                             /\ a.prev[c] = IF c = n THEN n ELSE m.prev[c]
                             /\ a.next[c] = IF c = n THEN n ELSE m.next[c]
<1> DEFINE one == It(n, n)
<1>1. PICK t, w : /\ t = Fastened(m, one, one) /\ w = one
                  /\ t \in Memory => /\ a \in Memory /\ a.father = Put(t.father, n, f)
                                     /\ a.sons = Put(t.sons, f, w)
                                     /\ a.prev = t.prev /\ a.next = t.next
  <2>1. PICK t, w :
          /\ t = Fastened(m, IF m.sons[f].now = NULL THEN It(n, n) ELSE m.sons[f], It(n, n))
          /\ w = It(IF m.sons[f].now = NULL THEN n ELSE m.sons[f].now, n)
          /\ t \in Memory => /\ a \in Memory /\ a.father = Put(t.father, n, f)
                             /\ a.sons = Put(t.sons, f, w)
                             /\ a.prev = t.prev /\ a.next = t.next
    BY AttachMemory
  <2> QED BY <2>1, Zenon
<1>2. one.now = n /\ one.last = n
  BY ItFields
<1> HIDE DEF one
<1>3. /\ t \in Memory /\ t.father = m.father /\ t.sons = m.sons
      /\ t.prev = [m.prev EXCEPT ![n] = n, ![n] = n]
      /\ t.next = [m.next EXCEPT ![n] = n, ![n] = n]
  BY <1>1, <1>2, FastenedType
<1>4. \A c \in Nodes : /\ t.prev[c] = IF c = n THEN n ELSE m.prev[c]
                       /\ t.next[c] = IF c = n THEN n ELSE m.next[c]
  BY <1>3 DEF Memory
<1>5. \A c \in Nodes : /\ Put(m.father, n, f)[c] = IF c = n THEN f ELSE m.father[c]
                       /\ Put(m.sons, f, one)[c] = IF c = f THEN one ELSE m.sons[c]
  BY DEF Memory, Put
<1>6. /\ a \in Memory /\ a.father = Put(m.father, n, f) /\ a.sons = Put(m.sons, f, one)
      /\ a.prev = t.prev /\ a.next = t.next
  BY <1>1, <1>3, Zenon
<1> QED BY <1>4, <1>5, <1>6, ZenonT(60) DEF one

\* tree_attach() to a node that has sons.
LEMMA AttachLast ==
  ASSUME NEW m \in Memory, NEW n \in Nodes, NEW f \in Nodes,
         m.father[n] = NULL, m.prev[n] = n, m.sons[f].now # NULL, m.sons[f].last # NULL,
         NEW a, a = tree_attach(m, n, f)
  PROVE  /\ a \in Memory
         /\ \A c \in Nodes :
              /\ a.father[c] = IF c = n THEN f ELSE m.father[c]
              /\ a.sons[c] = IF c = f THEN It(m.sons[f].now, n) ELSE m.sons[c]
              /\ a.prev[c] = IF c = n THEN m.sons[f].last ELSE IF c = m.sons[f].now THEN n ELSE m.prev[c]
              /\ a.next[c] = IF c = n THEN m.sons[f].now ELSE IF c = m.sons[f].last THEN n ELSE m.next[c]
<1> DEFINE one == It(n, n)
           h == m.sons[f]
<1>1. PICK t, w : /\ t = Fastened(m, h, one) /\ w = It(h.now, n)
                  /\ t \in Memory => /\ a \in Memory /\ a.father = Put(t.father, n, f)
                                     /\ a.sons = Put(t.sons, f, w)
                                     /\ a.prev = t.prev /\ a.next = t.next
  <2>1. PICK t, w :
          /\ t = Fastened(m, IF m.sons[f].now = NULL THEN It(n, n) ELSE m.sons[f], It(n, n))
          /\ w = It(IF m.sons[f].now = NULL THEN n ELSE m.sons[f].now, n)
          /\ t \in Memory => /\ a \in Memory /\ a.father = Put(t.father, n, f)
                             /\ a.sons = Put(t.sons, f, w)
                             /\ a.prev = t.prev /\ a.next = t.next
    BY AttachMemory
  <2> QED BY <2>1, Zenon
<1>2. one.now = n /\ one.last = n /\ h.now \in Nodes /\ h.last \in Nodes
  BY ItFields DEF Memory, Head0
<1> HIDE DEF one, h
<1>3. /\ t \in Memory /\ t.father = m.father /\ t.sons = m.sons
      /\ t.prev = [m.prev EXCEPT ![h.now] = n, ![n] = h.last]
      /\ t.next = [m.next EXCEPT ![h.last] = n, ![n] = h.now]
  BY <1>1, <1>2, FastenedType
<1>4. \A c \in Nodes :
        /\ t.prev[c] = IF c = n THEN h.last ELSE IF c = h.now THEN n ELSE m.prev[c]
        /\ t.next[c] = IF c = n THEN h.now ELSE IF c = h.last THEN n ELSE m.next[c]
  BY <1>2, <1>3 DEF Memory
<1>5. \A c \in Nodes : /\ Put(m.father, n, f)[c] = IF c = n THEN f ELSE m.father[c]
                       /\ Put(m.sons, f, w)[c] = IF c = f THEN w ELSE m.sons[c]
  BY DEF Memory, Put
<1>6. /\ a \in Memory /\ a.father = Put(m.father, n, f) /\ a.sons = Put(m.sons, f, w)
      /\ a.prev = t.prev /\ a.next = t.next
  BY <1>1, <1>3, Zenon
<1> QED BY <1>1, <1>4, <1>5, <1>6 DEF h

\* The head of the list that the node n has left.
NewHead(m, d, n) ==
  LET h     == m.sons[m.father[n]]
      first == IF h.now = n THEN m.next[n] ELSE h.now
  IN  It(first, d.prev[first])

\* Unlinking a node from the list of its father.
LEMMA DetachLinks ==
  ASSUME NEW m \in Memory, NEW n \in Nodes, NEW f \in Nodes, m.father[n] = f,
         m.prev[m.next[n]] = n, m.sons[f].now # NULL,
         NEW d, d = tree_detach(m, n)
  PROVE  /\ d \in Memory
         /\ \A c \in Nodes : d.father[c] = IF c = n THEN NULL ELSE m.father[c]
         /\ m.sons[f].now = m.sons[f].last =>
              \A c \in Nodes : /\ d.sons[c] = IF c = f THEN LIST_NULL ELSE m.sons[c]
                               /\ d.prev[c] = m.prev[c] /\ d.next[c] = m.next[c]
         /\ m.sons[f].now # m.sons[f].last =>
              \A c \in Nodes :
                /\ d.sons[c] = IF c = f THEN NewHead(m, d, n) ELSE m.sons[c]
                /\ d.prev[c] = IF c = m.next[n] THEN m.prev[n] ELSE IF c = n THEN n ELSE m.prev[c]
                /\ d.next[c] = IF c = n THEN n ELSE IF c = m.prev[n] THEN m.next[n] ELSE m.next[c]
<1> DEFINE h == m.sons[f]
           u == Unlinked(m, n)
           own == It(n, m.prev[n])
           rest == It(m.next[n], n)
           t == Fastened(m, own, rest)
           first == IF h.now = n THEN m.next[n] ELSE h.now
<1>1. n # NULL /\ f # NULL /\ h \in Head0 /\ m.next[n] \in Nodes /\ m.prev[n] \in Nodes /\ m.next[n] # NULL
  BY NodeNotNull DEF Memory
<1>2. d = [u EXCEPT !.father = [u.father EXCEPT ![n] = NULL]]
  BY Zenon DEF tree_detach
<1>3. list_tk(m, list_get_it(m, n), list_get_it(m, m.next[n])).mem = t
  <2>1. list_get_it(m, n) = own /\ list_get_it(m, m.next[n]) = rest
    BY DEF list_get_it, It
  <2>2. own.now # NULL /\ rest.now # NULL
    BY <1>1, ItFields
  <2>3. list_tk(m, own, rest).mem = Fastened(m, own, rest)
    BY <2>2, Fasten
  <2> QED BY <2>1, <2>3, Zenon
<1>4. /\ t \in Memory /\ t.father = m.father /\ t.sons = m.sons
      /\ t.prev = [m.prev EXCEPT ![n] = n, ![m.next[n]] = m.prev[n]]
      /\ t.next = [m.next EXCEPT ![m.prev[n]] = m.next[n], ![n] = n]
  <2>1. /\ own.now = n /\ own.last = m.prev[n] /\ rest.now = m.next[n] /\ rest.last = n
    BY <1>1, ItFields
  <2> HIDE DEF own, rest
  <2> QED BY <1>1, <2>1, FastenedType
<1>5. ASSUME NEW w \in Memory, NEW v \in Head0, u = [w EXCEPT !.sons = [w.sons EXCEPT ![f] = v]]
      PROVE  /\ d \in Memory /\ d.father = [w.father EXCEPT ![n] = NULL]
             /\ d.sons = [w.sons EXCEPT ![f] = v] /\ d.prev = w.prev /\ d.next = w.next
  <2> DEFINE S == [w.sons EXCEPT ![f] = v]
             F == [u.father EXCEPT ![n] = NULL]
  <2>0. u.father = w.father
    BY <1>5 DEF Memory
  <2>1. S \in [Nodes -> Head0] /\ F \in [Nodes -> Nodes \cup {NULL}]
    BY <2>0 DEF Memory
  <2> HIDE DEF S, u
  <2>2. u = [w EXCEPT !.sons = S]
    BY <1>5 DEF S
  <2>3. u \in Memory /\ u.sons = S /\ u.prev = w.prev /\ u.next = w.next
    BY <2>1, <2>2 DEF Memory
  <2> HIDE DEF F
  <2>4. d = [u EXCEPT !.father = F]
    BY <1>2 DEF F
  <2>5. d \in Memory /\ d.father = F /\ d.sons = S /\ d.prev = w.prev /\ d.next = w.next
    BY <2>1, <2>3, <2>4 DEF Memory
  <2> QED BY <2>0, <2>5 DEF F, S
<1>6. ASSUME h.now = h.last
      PROVE  /\ d \in Memory
             /\ d.father = [m.father EXCEPT ![n] = NULL]
             /\ d.sons = [m.sons EXCEPT ![f] = LIST_NULL]
             /\ d.prev = m.prev /\ d.next = m.next
  <2>1. u = [m EXCEPT !.sons = [m.sons EXCEPT ![f] = LIST_NULL]]
    BY <1>6, Zenon DEF Unlinked
  <2>2. LIST_NULL \in Head0
    BY DEF LIST_NULL, Head0
  <2> QED BY <1>5, <2>1, <2>2, Zenon
<1>7. ASSUME h.now # h.last
      PROVE  /\ d \in Memory
             /\ d.father = [m.father EXCEPT ![n] = NULL]
             /\ d.prev = [m.prev EXCEPT ![n] = n, ![m.next[n]] = m.prev[n]]
             /\ d.next = [m.next EXCEPT ![m.prev[n]] = m.next[n], ![n] = n]
             /\ d.sons = [m.sons EXCEPT ![f] = It(first, d.prev[first])]
  <2> DEFINE v == It(first, t.prev[first])
  <2>1. u = [t EXCEPT !.sons = [t.sons EXCEPT ![f] = v]]
    BY <1>3, <1>7, Zenon DEF Unlinked, list_get_it, It
  <2>2. v \in Head0
    BY <1>1, <1>4, ItFields DEF Memory, Head0
  <2> HIDE DEF t, v, u
  <2>3. /\ d \in Memory /\ d.father = [t.father EXCEPT ![n] = NULL]
        /\ d.sons = [t.sons EXCEPT ![f] = v] /\ d.prev = t.prev /\ d.next = t.next
    BY <1>4, <1>5, <2>1, <2>2, Zenon
  <2> QED BY <1>4, <2>3 DEF v
<1>8. /\ d \in Memory
      /\ \A c \in Nodes : d.father[c] = IF c = n THEN NULL ELSE m.father[c]
  BY <1>6, <1>7 DEF Memory
<1>9. ASSUME h.now = h.last, NEW c \in Nodes
      PROVE  /\ d.sons[c] = IF c = f THEN LIST_NULL ELSE m.sons[c]
             /\ d.prev[c] = m.prev[c] /\ d.next[c] = m.next[c]
  BY <1>6, <1>9 DEF Memory
<1>10. ASSUME h.now # h.last, NEW c \in Nodes
       PROVE  /\ d.sons[c] = IF c = f THEN It(first, d.prev[first]) ELSE m.sons[c]
              /\ d.prev[c] = IF c = m.next[n] THEN m.prev[n] ELSE IF c = n THEN n ELSE m.prev[c]
              /\ d.next[c] = IF c = n THEN n ELSE IF c = m.prev[n] THEN m.next[n] ELSE m.next[c]
  BY <1>1, <1>7, <1>10 DEF Memory
<1>11. It(first, d.prev[first]) = NewHead(m, d, n)
  BY DEF NewHead
<1> HIDE DEF first
<1> QED BY <1>8, <1>9, <1>10, <1>11 DEF h

---------------------------------------------------------------------------
(* The lists of sons *)

\* The sequence s is the list of the sons of f.
IsList(m, f, s) ==
  /\ s \in Seq(Nodes)
  /\ \A i, j \in 1 .. Len(s) : s[i] = s[j] => i = j
  /\ \A n \in Nodes : m.father[n] = f <=> \E i \in 1 .. Len(s) : s[i] = n
  /\ Len(s) = 0 => m.sons[f] = LIST_NULL
  /\ Len(s) # 0 => m.sons[f] = It(s[1], s[Len(s)])
  /\ \A i \in 1 .. Len(s) : /\ m.next[s[i]] = IF i = Len(s) THEN s[1] ELSE s[i + 1]
                            /\ m.prev[s[i]] = IF i = 1 THEN s[Len(s)] ELSE s[i - 1]

\* A list does not depend on the links of other nodes.
LEMMA ListKept ==
  ASSUME NEW m, NEW a, NEW g \in Nodes, NEW s, IsList(m, g, s),
         a.sons[g] = m.sons[g],
         \A n \in Nodes : a.father[n] = g <=> m.father[n] = g,
         \A n \in Nodes : m.father[n] = g => a.next[n] = m.next[n] /\ a.prev[n] = m.prev[n]
  PROVE  IsList(a, g, s)
<1>1. Len(s) \in Nat /\ \A i \in 1 .. Len(s) : s[i] \in Nodes /\ m.father[s[i]] = g
  BY DEF IsList
<1>2. \A i \in 1 .. Len(s) : a.next[s[i]] = m.next[s[i]] /\ a.prev[s[i]] = m.prev[s[i]]
  BY <1>1
<1>3. \A n \in Nodes : a.father[n] = g <=> \E i \in 1 .. Len(s) : s[i] = n
  BY DEF IsList
<1>4. \A i \in 1 .. Len(s) : /\ a.next[s[i]] = IF i = Len(s) THEN s[1] ELSE s[i + 1]
                            /\ a.prev[s[i]] = IF i = 1 THEN s[Len(s)] ELSE s[i - 1]
  BY <1>2 DEF IsList
<1>5. /\ Len(s) = 0 => a.sons[g] = LIST_NULL
      /\ Len(s) # 0 => a.sons[g] = It(s[1], s[Len(s)])
  BY DEF IsList
<1> QED BY <1>3, <1>4, <1>5 DEF IsList

\* The head and the neighbours of a list that is not empty.
LEMMA ListHead ==
  ASSUME NEW m, NEW f \in Nodes, NEW s, IsList(m, f, s)
  PROVE  /\ Len(s) \in Nat /\ DOMAIN s = 1 .. Len(s)
         /\ \A i \in 1 .. Len(s) : s[i] \in Nodes /\ s[i] # NULL /\ m.father[s[i]] = f
         /\ Len(s) = 0 <=> m.sons[f].now = NULL
         /\ Len(s) = 0 => m.sons[f] = LIST_NULL /\ \A n \in Nodes : m.father[n] # f
         /\ Len(s) > 0 => /\ m.sons[f].now = s[1] /\ m.sons[f].last = s[Len(s)]
                          /\ m.sons[f].now \in Nodes /\ m.sons[f].last \in Nodes
                          /\ m.father[m.sons[f].now] = f /\ m.father[m.sons[f].last] = f
<1>1. Len(s) \in Nat /\ DOMAIN s = 1 .. Len(s) /\ \A i \in 1 .. Len(s) : s[i] \in Nodes /\ s[i] # NULL
  BY NodeNotNull DEF IsList
<1>2. ASSUME NEW i \in 1 .. Len(s) PROVE m.father[s[i]] = f
  <2>1. \E j \in 1 .. Len(s) : s[j] = s[i]
    OBVIOUS
  <2> QED BY <1>1, <2>1 DEF IsList
<1>3. Len(s) = 0 => m.sons[f] = LIST_NULL /\ \A n \in Nodes : m.father[n] # f
  BY DEF IsList
<1>5. Len(s) > 0 => 1 \in 1 .. Len(s) /\ Len(s) \in 1 .. Len(s)
  BY <1>1
<1>4. Len(s) > 0 => m.sons[f].now = s[1] /\ m.sons[f].last = s[Len(s)]
  <2>1. Len(s) # 0 => m.sons[f] = It(s[1], s[Len(s)])
    BY DEF IsList
  <2>2. Len(s) > 0 => It(s[1], s[Len(s)]).now = s[1] /\ It(s[1], s[Len(s)]).last = s[Len(s)]
    BY <1>1, <1>5, ItFields
  <2> QED BY <1>1, <2>1, <2>2
<1> QED BY <1>1, <1>2, <1>3, <1>4, <1>5 DEF LIST_NULL

\* tree_attach(): the node is the last of the list, the other lists are as before.
LEMMA AttachList ==
  ASSUME NEW m \in Memory, NEW n \in Nodes, NEW f \in Nodes, NEW s, IsList(m, f, s),
         m.father[n] = NULL, m.prev[n] = n,
         NEW a, a = tree_attach(m, n, f)
  PROVE  /\ a \in Memory
         /\ \A c \in Nodes : a.father[c] = IF c = n THEN f ELSE m.father[c]
         /\ IsList(a, f, Append(s, n))
         /\ \A g \in Nodes \ {f} : a.sons[g] = m.sons[g]
         /\ \A c \in Nodes \ {n} : m.father[c] # f => a.next[c] = m.next[c] /\ a.prev[c] = m.prev[c]
<1> DEFINE L == Len(s)
           t == Append(s, n)
<1>1. /\ L \in Nat /\ s \in Seq(Nodes)
      /\ \A i \in 1 .. L : s[i] \in Nodes /\ s[i] # NULL /\ m.father[s[i]] = f /\ s[i] # n
  BY ListHead, NodeNotNull DEF IsList
<1>2. /\ t \in Seq(Nodes) /\ Len(t) = L + 1 /\ t[L + 1] = n /\ \A i \in 1 .. L : t[i] = s[i]
  BY <1>1
<1>3. \A i \in 1 .. L + 1 : i \in 1 .. L \/ i = L + 1
  BY <1>1
<1>4. \A i, j \in 1 .. Len(t) : t[i] = t[j] => i = j
  BY <1>1, <1>2, <1>3 DEF IsList
<1>5. CASE L = 0
  <2>1. m.sons[f].now = NULL
    BY <1>5, ListHead
  <2>2. /\ a \in Memory
        /\ \A c \in Nodes : /\ a.father[c] = IF c = n THEN f ELSE m.father[c]
                            /\ a.sons[c] = IF c = f THEN It(n, n) ELSE m.sons[c]
                            /\ a.prev[c] = IF c = n THEN n ELSE m.prev[c]
                            /\ a.next[c] = IF c = n THEN n ELSE m.next[c]
    BY <2>1, AttachFirst
  <2>4. \A c \in Nodes : m.father[c] # f
    BY <1>5 DEF IsList
  <2>5. IsList(a, f, t)
    BY <1>2, <1>4, <1>5, <2>2, <2>4 DEF IsList
  <2> QED BY <2>2, <2>5
<1>6. CASE L > 0
  <2>1. /\ m.sons[f].now = s[1] /\ m.sons[f].last = s[L] /\ 1 \in 1 .. L /\ L \in 1 .. L
    BY <1>1, <1>6, ListHead
  <2>2. /\ a \in Memory
        /\ \A c \in Nodes :
             /\ a.father[c] = IF c = n THEN f ELSE m.father[c]
             /\ a.sons[c] = IF c = f THEN It(s[1], n) ELSE m.sons[c]
             /\ a.prev[c] = IF c = n THEN s[L] ELSE IF c = s[1] THEN n ELSE m.prev[c]
             /\ a.next[c] = IF c = n THEN s[1] ELSE IF c = s[L] THEN n ELSE m.next[c]
    <3>1. m.sons[f].now # NULL /\ m.sons[f].last # NULL /\ m.sons[f].now # n
      BY <1>1, <2>1
    <3>2. /\ a \in Memory
          /\ \A c \in Nodes :
               /\ a.father[c] = IF c = n THEN f ELSE m.father[c]
               /\ a.sons[c] = IF c = f THEN It(m.sons[f].now, n) ELSE m.sons[c]
               /\ a.prev[c] = IF c = n THEN m.sons[f].last ELSE IF c = m.sons[f].now THEN n ELSE m.prev[c]
               /\ a.next[c] = IF c = n THEN m.sons[f].now ELSE IF c = m.sons[f].last THEN n ELSE m.next[c]
      BY <3>1, AttachLast
    <3> QED BY <2>1, <3>2
  <2>3. /\ a.sons[f] = It(s[1], n) /\ a.father[n] = f
        /\ a.prev[s[1]] = n /\ a.prev[n] = s[L] /\ a.next[s[L]] = n /\ a.next[n] = s[1]
        /\ \A c \in Nodes \ {n} : a.father[c] = m.father[c]
        /\ \A g \in Nodes \ {f} : a.sons[g] = m.sons[g]
        /\ \A c \in Nodes \ {n} : c # s[1] => a.prev[c] = m.prev[c]
        /\ \A c \in Nodes \ {n} : c # s[L] => a.next[c] = m.next[c]
    BY <1>1, <2>1, <2>2
  <2>4. \A c \in Nodes : a.father[c] = f <=> \E i \in 1 .. Len(t) : t[i] = c
    <3> TAKE c \in Nodes
    <3>1. CASE c = n
      <4>1. L + 1 \in 1 .. Len(t)
        BY <1>1, <1>2
      <4> QED BY <1>2, <2>3, <3>1, <4>1
    <3>2. CASE c # n
      <4>1. a.father[c] = f <=> \E i \in 1 .. L : s[i] = c
        BY <2>3, <3>2 DEF IsList
      <4>2. (\E i \in 1 .. L : s[i] = c) <=> \E i \in 1 .. Len(t) : t[i] = c
        BY <1>1, <1>2, <1>3, <3>2
      <4> QED BY <4>1, <4>2
    <3> QED BY <3>1, <3>2
  <2>5. ASSUME NEW i \in 1 .. Len(t)
        PROVE  /\ a.next[t[i]] = IF i = Len(t) THEN t[1] ELSE t[i + 1]
               /\ a.prev[t[i]] = IF i = 1 THEN t[Len(t)] ELSE t[i - 1]
    <3>0. t[1] = s[1] /\ t[L] = s[L]
      BY <1>2, <2>1
    <3>1. CASE i = L + 1
      BY <1>1, <1>2, <1>6, <2>3, <3>0, <3>1
    <3>2. CASE i \in 1 .. L
      <4>1. t[i] = s[i] /\ s[i] # n /\ i # Len(t) /\ s[i] \in Nodes
        BY <1>1, <1>2, <3>2
      <4>2. /\ m.next[s[i]] = IF i = L THEN s[1] ELSE s[i + 1]
            /\ m.prev[s[i]] = IF i = 1 THEN s[L] ELSE s[i - 1]
        BY <3>2 DEF IsList
      <4>3. i = L => t[i + 1] = n
        BY <1>2
      <4>4. i # L => t[i + 1] = s[i + 1] /\ s[i] # s[L]
        <5>1. i # L => i + 1 \in 1 .. L
          BY <1>1, <3>2
        <5> QED BY <1>2, <2>1, <3>2, <5>1 DEF IsList
      <4>5. i # 1 => t[i - 1] = s[i - 1] /\ s[i] # s[1]
        <5>1. i # 1 => i - 1 \in 1 .. L
          BY <1>1, <3>2
        <5> QED BY <1>2, <2>1, <3>2, <5>1 DEF IsList
      <4>6. a.next[t[i]] = IF i = Len(t) THEN t[1] ELSE t[i + 1]
        BY <2>3, <4>1, <4>2, <4>3, <4>4
      <4>7. a.prev[t[i]] = IF i = 1 THEN t[Len(t)] ELSE t[i - 1]
        BY <1>2, <2>3, <4>1, <4>2, <4>5
      <4> QED BY <4>6, <4>7
    <3> QED BY <1>2, <1>3, <3>1, <3>2
  <2>6. IsList(a, f, t)
    <3>1. Len(t) # 0 /\ a.sons[f] = It(t[1], t[Len(t)])
      BY <1>1, <1>2, <1>6, <2>1, <2>3
    <3> HIDE DEF t
    <3> QED BY <1>2, <1>4, <2>4, <2>5, <3>1 DEF IsList
  <2> QED BY <1>1, <2>1, <2>2, <2>3, <2>6
<1> QED BY <1>1, <1>5, <1>6

\* The list s without its i-th node.
Without(s, i) == [j \in 1 .. Len(s) - 1 |-> IF j < i THEN s[j] ELSE s[j + 1]]

\* tree_detach(): the node leaves the list and is alone, the other lists are as
\* before, and the node that followed it follows the one before it.
LEMMA DetachList ==
  ASSUME NEW m \in Memory, NEW f \in Nodes, NEW s, IsList(m, f, s), NEW i \in 1 .. Len(s),
         NEW n \in Nodes, n = s[i],
         NEW d, d = tree_detach(m, n)
  PROVE  /\ d \in Memory
         /\ \A c \in Nodes : d.father[c] = IF c = n THEN NULL ELSE m.father[c]
         /\ IsList(d, f, Without(s, i))
         /\ d.next[n] = n /\ d.prev[n] = n
         /\ \A g \in Nodes \ {f} : d.sons[g] = m.sons[g]
         /\ \A c \in Nodes \ {n} : m.father[c] # f => d.next[c] = m.next[c] /\ d.prev[c] = m.prev[c]
         /\ Len(s) > 1 => /\ m.next[n] \in Nodes \ {n} /\ m.father[m.next[n]] = f
                          /\ d.next[d.prev[m.next[n]]] = m.next[n]
<1> DEFINE L == Len(s)
           t == Without(s, i)
           x == m.next[n]
           y == m.prev[n]
<1>1. /\ L \in Nat /\ L > 0 /\ s \in Seq(Nodes) /\ 1 \in 1 .. L /\ L \in 1 .. L
      /\ \A j \in 1 .. L : s[j] \in Nodes /\ s[j] # NULL /\ m.father[s[j]] = f
      /\ m.sons[f].now = s[1] /\ m.sons[f].last = s[L] /\ m.sons[f].now # NULL
      /\ m.father[n] = f
  BY ListHead DEF IsList
<1>2. \A j, k \in 1 .. L : s[j] = s[k] => j = k
  BY DEF IsList
<1>3. \A j \in 1 .. L : /\ m.next[s[j]] = IF j = L THEN s[1] ELSE s[j + 1]
                        /\ m.prev[s[j]] = IF j = 1 THEN s[L] ELSE s[j - 1]
  BY DEF IsList
<1>4. x = IF i = L THEN s[1] ELSE s[i + 1]
  BY <1>3
<1>5. y = IF i = 1 THEN s[L] ELSE s[i - 1]
  BY <1>3
<1>6. m.prev[x] = n /\ m.next[y] = n /\ x \in Nodes /\ y \in Nodes /\ m.father[x] = f /\ m.father[y] = f
  <2>1. i # L => i + 1 \in 1 .. L /\ i + 1 # 1 /\ (i + 1) - 1 = i
    BY <1>1
  <2>2. i # 1 => i - 1 \in 1 .. L /\ i - 1 # L /\ (i - 1) + 1 = i
    BY <1>1
  <2>3. m.prev[x] = n /\ x \in Nodes /\ m.father[x] = f
    BY <1>1, <1>3, <1>4, <2>1
  <2>4. m.next[y] = n /\ y \in Nodes /\ m.father[y] = f
    BY <1>1, <1>3, <1>5, <2>2
  <2> QED BY <2>3, <2>4
<1>7. /\ d \in Memory
      /\ \A c \in Nodes : d.father[c] = IF c = n THEN NULL ELSE m.father[c]
      /\ m.sons[f].now = m.sons[f].last =>
           \A c \in Nodes : /\ d.sons[c] = IF c = f THEN LIST_NULL ELSE m.sons[c]
                            /\ d.prev[c] = m.prev[c] /\ d.next[c] = m.next[c]
      /\ m.sons[f].now # m.sons[f].last =>
           \A c \in Nodes :
             /\ d.sons[c] = IF c = f THEN NewHead(m, d, n) ELSE m.sons[c]
             /\ d.prev[c] = IF c = x THEN y ELSE IF c = n THEN n ELSE m.prev[c]
             /\ d.next[c] = IF c = n THEN n ELSE IF c = y THEN x ELSE m.next[c]
  BY <1>1, <1>6, DetachLinks
<1>8. m.sons[f].now = m.sons[f].last <=> L = 1
  BY <1>1, <1>2
<1>9. /\ t \in Seq(Nodes) /\ Len(t) = L - 1
      /\ \A j \in 1 .. L - 1 : t[j] = IF j < i THEN s[j] ELSE s[j + 1]
  <2>1. \A j \in 1 .. L - 1 : j \in 1 .. L /\ j + 1 \in 1 .. L
    BY <1>1
  <2>2. t \in [1 .. L - 1 -> Nodes] /\ L - 1 \in Nat
    BY <1>1, <2>1 DEF Without
  <2>3. t \in Seq(Nodes) /\ Len(t) = L - 1
    BY <2>2
  <2> QED BY <2>3 DEF Without
<1> HIDE DEF t
<1>10. \A j, k \in 1 .. Len(t) : t[j] = t[k] => j = k
  <2>1. \A j \in 1 .. L - 1 : j \in 1 .. L /\ j + 1 \in 1 .. L
    BY <1>1
  <2> QED BY <1>1, <1>2, <1>9, <2>1
<1>11. \A c \in Nodes : d.father[c] = f <=> \E j \in 1 .. Len(t) : t[j] = c
  <2> TAKE c \in Nodes
  <2>1. ASSUME d.father[c] = f PROVE \E j \in 1 .. Len(t) : t[j] = c
    <3>1. PICK k \in 1 .. L : s[k] = c
      BY <1>1, <1>7, <2>1, NodeNotNull DEF IsList
    <3>2. k # i
      BY <1>7, <2>1, <3>1, NodeNotNull
    <3>3. CASE k < i
      <4>1. k \in 1 .. L - 1
        BY <1>1, <3>3
      <4> QED BY <1>9, <3>1, <3>3, <4>1
    <3>4. CASE k > i
      <4>1. k - 1 \in 1 .. L - 1 /\ ~(k - 1 < i) /\ (k - 1) + 1 = k
        BY <1>1, <3>4
      <4> QED BY <1>9, <3>1, <4>1
    <3> QED BY <1>1, <3>2, <3>3, <3>4
  <2>2. ASSUME NEW j \in 1 .. Len(t), t[j] = c PROVE d.father[c] = f
    <3>1. \E k \in 1 .. L : k # i /\ s[k] = c
      <4>1. j \in 1 .. L /\ j + 1 \in 1 .. L
        BY <1>1, <1>9
      <4> QED BY <1>1, <1>9, <2>2, <4>1
    <3> QED BY <1>1, <1>2, <1>7, <3>1
  <2> QED BY <2>1, <2>2
<1>12. CASE L = 1
  <2>1. Len(t) = 0 /\ x = n /\ y = n /\ i = 1
    BY <1>1, <1>4, <1>5, <1>9, <1>12
  <2>2. \A c \in Nodes : /\ d.sons[c] = IF c = f THEN LIST_NULL ELSE m.sons[c]
                         /\ d.prev[c] = m.prev[c] /\ d.next[c] = m.next[c]
    BY <1>7, <1>8, <1>12
  <2>3. IsList(d, f, t)
    BY <1>9, <1>11, <2>1, <2>2 DEF IsList
  <2>4. \A g \in Nodes \ {f} : d.sons[g] = m.sons[g]
    BY <2>2
  <2> QED BY <1>6, <1>7, <1>12, <2>1, <2>2, <2>3, <2>4 DEF t
<1>13. CASE L > 1
  <2>1. \A c \in Nodes :
          /\ d.sons[c] = IF c = f THEN NewHead(m, d, n) ELSE m.sons[c]
          /\ d.prev[c] = IF c = x THEN y ELSE IF c = n THEN n ELSE m.prev[c]
          /\ d.next[c] = IF c = n THEN n ELSE IF c = y THEN x ELSE m.next[c]
    <3>1. m.sons[f].now # m.sons[f].last
      BY <1>1, <1>8, <1>13
    <3> QED BY <1>7, <3>1, Zenon
  <2>2. x # n /\ y # n
    <3>1. i # L => i + 1 \in 1 .. L /\ i + 1 # i
      BY <1>1
    <3>2. i # 1 => i - 1 \in 1 .. L /\ i - 1 # i
      BY <1>1
    <3> QED BY <1>1, <1>2, <1>4, <1>5, <1>13, <3>1, <3>2
  <2>0. /\ \A j \in 1 .. L : d.next[s[j]] = IF j = i THEN n ELSE IF s[j] = y THEN x ELSE m.next[s[j]]
        /\ \A j \in 1 .. L : j # i => d.prev[s[j]] = IF s[j] = x THEN y ELSE m.prev[s[j]]
    BY <1>1, <1>2, <2>1
  <2>3. ASSUME NEW j \in 1 .. Len(t) PROVE d.next[t[j]] = IF j = Len(t) THEN t[1] ELSE t[j + 1]
    <3>0. j \in 1 .. L - 1 /\ j \in 1 .. L /\ j + 1 \in 1 .. L
      BY <1>1, <1>9
    <3>1. CASE j < i - 1
      <4>1. t[j] = s[j] /\ t[j + 1] = s[j + 1] /\ j # Len(t) /\ j # L /\ j # i
        BY <1>1, <1>9, <3>0, <3>1, SMTT(60)
      <4>2. i # 1 /\ i - 1 \in 1 .. L
        BY <1>1, <3>0, <3>1
      <4>3. s[j] # y
        BY <1>2, <1>5, <3>0, <3>1, <4>2
      <4> QED BY <1>3, <2>0, <3>0, <4>1, <4>3
    <3>2. CASE j = i - 1
      <4>1. t[j] = s[i - 1] /\ i # 1 /\ i - 1 \in 1 .. L /\ j # i
        BY <1>1, <1>9, <3>0, <3>2
      <4>2. t[j] = y /\ d.next[t[j]] = x
        BY <1>5, <2>0, <3>0, <3>2, <4>1
      <4>3. CASE i = L
        <5>1. t[1] = s[1] /\ j = Len(t)
          BY <1>1, <1>9, <1>13, <3>2, <4>3
        <5> QED BY <1>4, <4>2, <4>3, <5>1
      <4>4. CASE i # L
        <5>1. j # Len(t) /\ j + 1 = i /\ t[i] = s[i + 1]
          BY <1>1, <1>9, <3>2, <4>4
        <5> QED BY <1>4, <4>2, <4>4, <5>1
      <4> QED BY <4>3, <4>4
    <3>3. CASE j >= i /\ j = L - 1
      <4>1. t[j] = s[L] /\ j = Len(t) /\ L # i
        BY <1>1, <1>9, <3>0, <3>3
      <4>2. CASE i = 1
        <5>1. t[1] = s[i + 1] /\ i # L
          BY <1>1, <1>9, <1>13, <4>2
        <5>2. x = t[1] /\ y = s[L]
          BY <1>4, <1>5, <4>2, <5>1
        <5>3. d.next[s[L]] = x
          BY <1>1, <2>0, <4>1, <5>2
        <5> QED BY <4>1, <5>2, <5>3
      <4>3. CASE i # 1
        <5>1. t[1] = s[1] /\ i - 1 \in 1 .. L /\ i - 1 # L
          BY <1>1, <1>9, <1>13, <4>3
        <5>2. s[L] # y
          BY <1>1, <1>2, <1>5, <4>3, <5>1
        <5> QED BY <1>1, <1>3, <2>0, <4>1, <5>1, <5>2, SMTT(60)
      <4> QED BY <4>2, <4>3
    <3>4. CASE j >= i /\ j # L - 1
      <4>1. /\ t[j] = s[j + 1] /\ t[j + 1] = s[(j + 1) + 1] /\ j # Len(t) /\ j + 1 # L /\ j + 1 # i
            /\ j + 1 # i - 1
        BY <1>1, <1>9, <3>0, <3>4
      <4>2. s[j + 1] # y
        <5>1. i # 1 => i - 1 \in 1 .. L
          BY <1>1
        <5> QED BY <1>1, <1>2, <1>5, <3>0, <4>1, <5>1
      <4> QED BY <1>3, <2>0, <3>0, <4>1, <4>2
    <3> QED BY <1>1, <3>0, <3>1, <3>2, <3>3, <3>4
  <2>4. ASSUME NEW j \in 1 .. Len(t) PROVE d.prev[t[j]] = IF j = 1 THEN t[Len(t)] ELSE t[j - 1]
    <3>0. j \in 1 .. L - 1 /\ j \in 1 .. L /\ j + 1 \in 1 .. L
      BY <1>1, <1>9
    <3>1. CASE j < i /\ j = 1
      <4>1. t[j] = s[1] /\ j # i /\ i # 1
        BY <1>9, <3>0, <3>1
      <4>2. CASE i = L
        <5>1. t[Len(t)] = s[i - 1]
          BY <1>1, <1>9, <1>13, <4>2
        <5> QED BY <1>1, <1>4, <1>5, <2>0, <3>1, <4>1, <4>2, <5>1
      <4>3. CASE i # L
        <5>1. t[Len(t)] = s[L] /\ i + 1 \in 1 .. L /\ i + 1 # 1
          BY <1>1, <1>9, <1>13, <4>3
        <5>2. s[1] # x
          BY <1>1, <1>2, <1>4, <4>3, <5>1
        <5> QED BY <1>1, <1>3, <2>0, <3>1, <4>1, <5>1, <5>2
      <4> QED BY <4>2, <4>3
    <3>2. CASE j < i /\ j # 1
      <4>1. t[j] = s[j] /\ t[j - 1] = s[j - 1] /\ j # i
        BY <1>1, <1>9, <3>0, <3>2
      <4>2. s[j] # x
        <5>1. i # L => i + 1 \in 1 .. L /\ i + 1 # j
          BY <1>1, <3>2
        <5> QED BY <1>1, <1>2, <1>4, <3>0, <3>2, <5>1
      <4> QED BY <1>3, <2>0, <3>0, <3>2, <4>1, <4>2
    <3>3. CASE j = i
      <4>1. t[j] = s[i + 1] /\ i # L /\ i + 1 \in 1 .. L /\ i + 1 # i
        BY <1>1, <1>9, <3>0, <3>3
      <4>2. d.prev[t[j]] = y
        BY <1>4, <2>0, <4>1
      <4>3. i = 1 => t[Len(t)] = s[L]
        BY <1>1, <1>9, <1>13
      <4>4. i # 1 => t[i - 1] = s[i - 1]
        BY <1>1, <1>9, <3>0, <3>3
      <4> QED BY <1>5, <3>3, <4>2, <4>3, <4>4
    <3>4. CASE j > i
      <4>1. t[j] = s[j + 1] /\ t[j - 1] = s[j] /\ j + 1 # i /\ j # 1 /\ j + 1 # 1 /\ (j + 1) - 1 = j
        BY <1>1, <1>9, <3>0, <3>4, SMTT(60)
      <4>2. s[j + 1] # x
        <5>1. i # L /\ i + 1 \in 1 .. L /\ i + 1 # j + 1
          BY <1>1, <3>0, <3>4
        <5> QED BY <1>1, <1>2, <1>4, <3>0, <5>1
      <4> QED BY <1>3, <2>0, <3>0, <4>1, <4>2
    <3> QED BY <1>1, <3>0, <3>1, <3>2, <3>3, <3>4
  <2>5. d.sons[f] = It(t[1], t[Len(t)])
    <3>1. (IF s[1] = n THEN x ELSE s[1]) = t[1]
      <4>1. CASE i = 1
        <5>1. t[1] = s[i + 1] /\ i # L
          BY <1>1, <1>9, <1>13, <4>1
        <5> QED BY <1>4, <4>1, <5>1
      <4>2. CASE i # 1
        <5>1. t[1] = s[1] /\ s[1] # s[i]
          BY <1>1, <1>2, <1>9, <1>13, <4>2
        <5> QED BY <5>1
      <4> QED BY <4>1, <4>2
    <3>2. NewHead(m, d, n) = It(t[1], d.prev[t[1]])
      <4>1. m.sons[m.father[n]].now = s[1]
        BY <1>1
      <4> QED BY <3>1, <4>1, Zenon DEF NewHead
    <3>3. 1 \in 1 .. Len(t)
      BY <1>1, <1>9, <1>13
    <3>4. d.prev[t[1]] = t[Len(t)]
      BY <2>4, <3>3
    <3> QED BY <2>1, <3>2, <3>4
  <2>6. IsList(d, f, t)
    <3>1. Len(t) # 0
      BY <1>1, <1>9, <1>13
    <3> QED BY <1>9, <1>10, <1>11, <2>3, <2>4, <2>5, <3>1 DEF IsList
  <2>7. \A g \in Nodes \ {f} : d.sons[g] = m.sons[g]
    BY <2>1
  <2>8. \A c \in Nodes \ {n} : m.father[c] # f => d.next[c] = m.next[c] /\ d.prev[c] = m.prev[c]
    BY <1>6, <2>1
  <2>9. d.next[n] = n /\ d.prev[n] = n /\ d.next[d.prev[x]] = x
    BY <1>6, <2>1, <2>2
  <2> QED BY <1>6, <1>7, <2>2, <2>6, <2>7, <2>8, <2>9 DEF t
<1>14. L = 1 \/ L > 1
  <2>1. \A k \in Nat : k > 0 => k = 1 \/ k > 1
    OBVIOUS
  <2> QED BY <1>1, <2>1, Zenon
<1> QED BY <1>12, <1>13, <1>14, Zenon

---------------------------------------------------------------------------
(* Forests: every node has the list of its sons, a node without a father is *)
(* alone on its ring, and fathers are higher than their sons.               *)

Higher(m, H, h) ==
  /\ H \in Nat /\ h \in [Nodes -> 0 .. H]
  /\ \A n \in Nodes : m.father[n] # NULL => h[n] < h[m.father[n]]

Forest(m) ==
  /\ m \in Memory
  /\ \A f \in Nodes : \E s : IsList(m, f, s)
  /\ \A n \in Nodes : m.father[n] = NULL => m.next[n] = n /\ m.prev[n] = n
  /\ \E H, h : Higher(m, H, h)

\* A root can be attached to another root.
LEMMA AttachForest ==
  ASSUME NEW m, Forest(m), NEW n \in Nodes, NEW f \in Nodes, n # f,
         m.father[n] = NULL, m.father[f] = NULL,
         NEW a, a = tree_attach(m, n, f)
  PROVE  /\ Forest(a)
         /\ \A c \in Nodes : a.father[c] = IF c = n THEN f ELSE m.father[c]
         /\ \A g \in Nodes \ {f} : a.sons[g] = m.sons[g]
         /\ \A c \in Nodes \ {n} : m.father[c] # f => a.next[c] = m.next[c] /\ a.prev[c] = m.prev[c]
<1>1. PICK s : IsList(m, f, s)
  BY DEF Forest
<1>2. /\ a \in Memory
      /\ \A c \in Nodes : a.father[c] = IF c = n THEN f ELSE m.father[c]
      /\ IsList(a, f, Append(s, n))
      /\ \A g \in Nodes \ {f} : a.sons[g] = m.sons[g]
      /\ \A c \in Nodes \ {n} : m.father[c] # f => a.next[c] = m.next[c] /\ a.prev[c] = m.prev[c]
  <2>1. m \in Memory /\ m.prev[n] = n
    BY DEF Forest
  <2> QED BY <1>1, <2>1, AttachList
<1>3. ASSUME NEW g \in Nodes PROVE \E r : IsList(a, g, r)
  <2>1. CASE g = f
    BY <1>2, <2>1
  <2>2. CASE g # f
    <3>1. PICK r : IsList(m, g, r)
      BY DEF Forest
    <3>2. \A c \in Nodes : a.father[c] = g <=> m.father[c] = g
      BY <1>2, <2>2, NodeNotNull
    <3>3. \A c \in Nodes : m.father[c] = g => a.next[c] = m.next[c] /\ a.prev[c] = m.prev[c]
      BY <1>2, <2>2, NodeNotNull
    <3>4. a.sons[g] = m.sons[g]
      BY <1>2, <2>2
    <3>5. IsList(a, g, r)
      BY <3>1, <3>2, <3>3, <3>4, ListKept
    <3> QED BY <3>5
  <2> QED BY <2>1, <2>2
<1>4. \A c \in Nodes : a.father[c] = NULL => a.next[c] = c /\ a.prev[c] = c
  BY <1>2, NodeNotNull DEF Forest
<1>5. \E H, h : Higher(a, H, h)
  <2>1. PICK H, h : Higher(m, H, h)
    BY DEF Forest
  <2> DEFINE k == [c \in Nodes |-> IF c = f THEN H + 1 ELSE h[c]]
  <2>2. H + 1 \in Nat /\ k \in [Nodes -> 0 .. H + 1]
    BY <2>1 DEF Higher
  <2>3. ASSUME NEW c \in Nodes, a.father[c] # NULL PROVE k[c] < k[a.father[c]]
    <3>1. c # f
      BY <1>2, <2>3
    <3>2. h[c] \in 0 .. H /\ H \in Nat
      BY <2>1 DEF Higher
    <3>3. CASE a.father[c] = f
      BY <3>1, <3>2, <3>3
    <3>4. CASE a.father[c] # f
      <4>1. a.father[c] = m.father[c] /\ m.father[c] \in Nodes
        BY <1>2, <2>3, <3>4 DEF Forest, Memory
      <4>2. h[c] < h[m.father[c]]
        BY <2>1, <2>3, <4>1 DEF Higher
      <4> QED BY <3>1, <3>4, <4>1, <4>2
    <3> QED BY <3>3, <3>4
  <2>4. Higher(a, H + 1, k)
    BY <2>2, <2>3 DEF Higher
  <2> QED BY <2>4
<1> QED BY <1>2, <1>3, <1>4, <1>5 DEF Forest

\* A node can be detached: it is a root then, and the list goes on behind it.
LEMMA DetachForest ==
  ASSUME NEW m, Forest(m), NEW n \in Nodes, NEW f \in Nodes, m.father[n] = f,
         NEW d, d = tree_detach(m, n)
  PROVE  /\ Forest(d)
         /\ \A c \in Nodes : d.father[c] = IF c = n THEN NULL ELSE m.father[c]
         /\ \A g \in Nodes \ {f} : d.sons[g] = m.sons[g]
         /\ \A c \in Nodes \ {n} : m.father[c] # f => d.next[c] = m.next[c] /\ d.prev[c] = m.prev[c]
         /\ d.sons[f].now = NULL => d.sons[f] = LIST_NULL
         /\ d.sons[f].now # NULL => /\ m.next[n] \in Nodes \ {n} /\ m.father[m.next[n]] = f
                                    /\ d.next[d.prev[m.next[n]]] = m.next[n]
<1>1. PICK s : IsList(m, f, s)
  BY DEF Forest
<1>2. PICK i \in 1 .. Len(s) : s[i] = n
  BY <1>1 DEF IsList
<1>0. m \in Memory
  BY DEF Forest
<1>3. /\ d \in Memory
      /\ \A c \in Nodes : d.father[c] = IF c = n THEN NULL ELSE m.father[c]
      /\ IsList(d, f, Without(s, i))
      /\ d.next[n] = n /\ d.prev[n] = n
      /\ \A g \in Nodes \ {f} : d.sons[g] = m.sons[g]
      /\ \A c \in Nodes \ {n} : m.father[c] # f => d.next[c] = m.next[c] /\ d.prev[c] = m.prev[c]
      /\ Len(s) > 1 => /\ m.next[n] \in Nodes \ {n} /\ m.father[m.next[n]] = f
                       /\ d.next[d.prev[m.next[n]]] = m.next[n]
  BY <1>0, <1>1, <1>2, DetachList
<1>4. /\ d.sons[f].now = NULL => d.sons[f] = LIST_NULL
      /\ d.sons[f].now # NULL => Len(s) > 1
  <2> DEFINE t == Without(s, i)
  <2>1. Len(s) \in Nat
    BY <1>1, ListHead
  <2>2. t = [j \in 1 .. Len(s) - 1 |-> t[j]] /\ Len(t) \in Nat
    BY <1>3, ListHead DEF Without
  <2>3. Len(s) > 0 => Len(t) = Len(s) - 1
    <3>1. DOMAIN t = 1 .. Len(s) - 1
      BY DEF Without
    <3>2. DOMAIN t = 1 .. Len(t)
      BY <1>3, ListHead
    <3> QED BY <2>1, <2>2, <3>1, <3>2
  <2> HIDE DEF t
  <2>4. Len(t) = 0 <=> d.sons[f].now = NULL
    BY <1>3, ListHead DEF t
  <2>5. Len(t) = 0 => d.sons[f] = LIST_NULL
    BY <1>3, ListHead DEF t
  <2>6. Len(s) > 0
    BY <1>2, <2>1
  <2>7. Len(t) # 0 => Len(s) > 1
    BY <2>1, <2>3, <2>6
  <2> QED BY <2>4, <2>5, <2>7
<1>5. ASSUME NEW g \in Nodes PROVE \E r : IsList(d, g, r)
  <2>1. CASE g = f
    BY <1>3, <2>1
  <2>2. CASE g # f
    <3>1. PICK r : IsList(m, g, r)
      BY DEF Forest
    <3>2. \A c \in Nodes : d.father[c] = g <=> m.father[c] = g
      BY <1>3, <2>2, NodeNotNull
    <3>3. \A c \in Nodes : m.father[c] = g => d.next[c] = m.next[c] /\ d.prev[c] = m.prev[c]
      BY <1>3, <2>2, NodeNotNull
    <3>4. d.sons[g] = m.sons[g]
      BY <1>3, <2>2
    <3>5. IsList(d, g, r)
      BY <3>1, <3>2, <3>3, <3>4, ListKept
    <3> QED BY <3>5
  <2> QED BY <2>1, <2>2
<1>6. \A c \in Nodes : d.father[c] = NULL => d.next[c] = c /\ d.prev[c] = c
  <2> TAKE c \in Nodes
  <2>1. c # n /\ d.father[c] = NULL => m.father[c] = NULL /\ m.father[c] # f
    BY <1>3, NodeNotNull
  <2> QED BY <1>3, <2>1 DEF Forest
<1>7. \E H, h : Higher(d, H, h)
  <2>1. PICK H, h : Higher(m, H, h)
    BY DEF Forest
  <2>2. \A c \in Nodes : d.father[c] # NULL => d.father[c] = m.father[c]
    BY <1>3
  <2>3. Higher(d, H, h)
    BY <2>1, <2>2 DEF Higher
  <2> QED BY <2>3
<1>8. Forest(d)
  BY <1>3, <1>5, <1>6, <1>7 DEF Forest
<1> QED BY <1>3, <1>4, <1>8

\* In a forest the first and the last son of a node are its sons.
LEMMA ForestSons ==
  ASSUME NEW m, Forest(m), NEW f \in Nodes
  PROVE  /\ m.sons[f].now = NULL => m.sons[f] = LIST_NULL /\ \A c \in Nodes : m.father[c] # f
         /\ m.sons[f].now # NULL => /\ m.sons[f].now \in Nodes /\ m.sons[f].last \in Nodes
                                    /\ m.father[m.sons[f].now] = f
<1>1. PICK s : IsList(m, f, s)
  BY DEF Forest
<1>2. /\ Len(s) \in Nat /\ (Len(s) = 0 <=> m.sons[f].now = NULL)
  BY <1>1, ListHead
<1>3. /\ Len(s) = 0 => m.sons[f] = LIST_NULL /\ \A c \in Nodes : m.father[c] # f
  BY <1>1, ListHead
<1>4. Len(s) > 0 => /\ m.sons[f].now \in Nodes /\ m.sons[f].last \in Nodes
                    /\ m.father[m.sons[f].now] = f
  BY <1>1, ListHead
<1> QED BY <1>2, <1>3, <1>4

\* The next node of a list has the same father.
LEMMA ForestNext ==
  ASSUME NEW m, Forest(m), NEW n \in Nodes
  PROVE  m.next[n] \in Nodes /\ m.father[m.next[n]] = m.father[n]
<1>1. CASE m.father[n] = NULL
  BY <1>1 DEF Forest
<1>2. CASE m.father[n] # NULL
  <2> DEFINE f == m.father[n]
  <2>1. f \in Nodes
    BY <1>2 DEF Forest, Memory
  <2>2. PICK s : IsList(m, f, s)
    BY <2>1 DEF Forest
  <2>3. PICK i \in 1 .. Len(s) : s[i] = n
    BY <2>2 DEF IsList
  <2>4. Len(s) \in Nat /\ \A j \in 1 .. Len(s) : s[j] \in Nodes /\ m.father[s[j]] = f
    <3> HIDE DEF f
    <3>1. Len(s) \in Nat
      BY <2>1, <2>2, ListHead
    <3>2. ASSUME NEW j \in 1 .. Len(s) PROVE s[j] \in Nodes /\ m.father[s[j]] = f
      BY <2>1, <2>2, ListHead
    <3> QED BY <3>1, <3>2
  <2>5. m.next[n] = IF i = Len(s) THEN s[1] ELSE s[i + 1]
    BY <2>2, <2>3 DEF IsList
  <2>6. 1 \in 1 .. Len(s) /\ (i # Len(s) => i + 1 \in 1 .. Len(s))
    BY <2>3, <2>4
  <2> QED BY <2>4, <2>5, <2>6
<1> QED BY <1>1, <1>2

\* Each node is lower than its father, and no node is its own father.
LEMMA ForestFather ==
  ASSUME NEW m, Forest(m), NEW n \in Nodes
  PROVE  /\ m.father[n] \in Nodes \cup {NULL}
         /\ m.father[n] # n
<1>1. PICK H, h : Higher(m, H, h)
  BY DEF Forest
<1>2. m.father[n] \in Nodes \cup {NULL}
  BY DEF Forest, Memory
<1>3. m.father[n] # n
  <2>1. h[n] \in 0 .. H /\ H \in Nat
    BY <1>1 DEF Higher
  <2>2. m.father[n] # NULL => h[n] < h[m.father[n]]
    BY <1>1 DEF Higher
  <2> QED BY <2>1, <2>2, NodeNotNull
<1> QED BY <1>2, <1>3

\* Every set of nodes that is not empty has a node whose father is not in it.
LEMMA ForestTop ==
  ASSUME NEW m, Forest(m), NEW B \in SUBSET Nodes, B # {}
  PROVE  \E n \in B : m.father[n] \notin B
<1>1. PICK H, h : Higher(m, H, h)
  BY DEF Forest
<1> DEFINE S == {k \in Nat : \A n \in B : H - h[n] <= k => \E c \in B : m.father[c] \notin B}
<1>2. H \in Nat /\ \A n \in Nodes : h[n] \in 0 .. H
  BY <1>1 DEF Higher
<1>3. 0 \in S
  <2> SUFFICES ASSUME NEW n \in B, H - h[n] <= 0 PROVE \E c \in B : m.father[c] \notin B
    OBVIOUS
  <2>1. h[n] = H
    BY <1>2
  <2>2. CASE m.father[n] \in B
    <3>1. m.father[n] \in Nodes /\ m.father[n] # NULL
      BY <2>2, NodeNotNull
    <3>2. h[n] < h[m.father[n]] /\ h[m.father[n]] \in 0 .. H
      BY <1>1, <3>1 DEF Higher
    <3> QED BY <1>2, <2>1, <3>2
  <2> QED BY <2>2
<1>4. ASSUME NEW k \in Nat, k \in S PROVE k + 1 \in S
  <2> SUFFICES ASSUME NEW n \in B, H - h[n] <= k + 1 PROVE \E c \in B : m.father[c] \notin B
    OBVIOUS
  <2>1. CASE m.father[n] \in B
    <3>1. m.father[n] \in Nodes /\ m.father[n] # NULL
      BY <2>1, NodeNotNull
    <3>2. h[n] < h[m.father[n]] /\ h[m.father[n]] \in 0 .. H /\ h[n] \in 0 .. H
      BY <1>1, <3>1 DEF Higher
    <3>3. H - h[m.father[n]] <= k
      BY <1>2, <3>2
    <3> QED BY <1>4, <2>1, <3>3
  <2> QED BY <2>1
<1>5. \A k \in Nat : k \in S
  <2> HIDE DEF S
  <2> QED BY <1>3, <1>4, SetInduction
<1>6. PICK n \in B : TRUE
  OBVIOUS
<1>7. H - h[n] \in Nat /\ H - h[n] <= H - h[n]
  BY <1>2
<1> QED BY <1>5, <1>7

---------------------------------------------------------------------------
(* Ways through a forest: down to the first leaf, and up to the root *)

Places == [now : Nodes, fwd : Nodes]

\* A way down from n, from a node to one of its sons, that ends in a leaf.
IsDown(m, n, s) ==
  /\ s \in Seq(Places) /\ Len(s) > 0 /\ s[1].now = n
  /\ \A i \in 1 .. Len(s) : s[i].fwd = m.next[s[i].now]
  /\ \A i \in 2 .. Len(s) : s[i].now = m.sons[s[i - 1].now].now /\ s[i - 1].now = m.father[s[i].now]
  /\ m.sons[s[Len(s)].now].now = NULL

\* The recursion of Down().
Descent(m, d) ==
  d = [k \in Nodes |-> IF m.sons[k].now = NULL THEN <<Place(m, k)>>
                       ELSE <<Place(m, k)>> \o d[m.sons[k].now]]

\* The recursion of Down() ends: a son is lower than its father.
LEMMA DescentExists ==
  ASSUME NEW m, Forest(m)
  PROVE  \E d : Descent(m, d)
<1>1. PICK H, h : Higher(m, H, h)
  BY DEF Forest
<1> DEFINE E(d, n) == d[n] = IF m.sons[n].now = NULL THEN <<Place(m, n)>>
                             ELSE <<Place(m, n)>> \o d[m.sons[n].now]
           IsPart(d, k) == /\ d = [n \in Nodes |-> d[n]]
                           /\ \A n \in Nodes : h[n] < k => E(d, n)
           S == {k \in Nat : \E d : IsPart(d, k)}
<1>2. H \in Nat /\ \A n \in Nodes : h[n] \in 0 .. H
  BY <1>1 DEF Higher
<1>3. \A n \in Nodes : m.sons[n].now # NULL => m.sons[n].now \in Nodes /\ h[m.sons[n].now] < h[n]
  <2> TAKE n \in Nodes
  <2>1. m.sons[n].now # NULL => m.sons[n].now \in Nodes /\ m.father[m.sons[n].now] = n
    BY ForestSons
  <2> QED BY <1>1, <2>1, NodeNotNull DEF Higher
<1>4. 0 \in S
  <2> DEFINE d == [n \in Nodes |-> 0]
  <2>1. IsPart(d, 0)
    BY <1>2
  <2> QED BY <2>1
<1>5. ASSUME NEW k \in Nat, k \in S PROVE k + 1 \in S
  <2>1. PICK g : IsPart(g, k)
    BY <1>5
  <2> DEFINE d == [n \in Nodes |-> IF h[n] < k THEN g[n]
                                   ELSE IF m.sons[n].now = NULL THEN <<Place(m, n)>>
                                   ELSE <<Place(m, n)>> \o g[m.sons[n].now]]
  <2>2. ASSUME NEW n \in Nodes, h[n] < k + 1 PROVE E(d, n)
    <3>1. m.sons[n].now # NULL => d[m.sons[n].now] = g[m.sons[n].now]
      BY <1>2, <1>3, <2>2
    <3>2. CASE h[n] < k
      BY <2>1, <3>1, <3>2
    <3>3. CASE ~(h[n] < k)
      BY <3>1, <3>3
    <3> QED BY <3>2, <3>3
  <2>3. IsPart(d, k + 1)
    BY <2>2
  <2> HIDE DEF d, IsPart
  <2> QED BY <2>3
<1>6. H + 1 \in S
  <2> HIDE DEF S
  <2>1. \A k \in Nat : k \in S
    BY <1>4, <1>5, SetInduction
  <2> QED BY <1>2, <2>1
<1>7. PICK d : IsPart(d, H + 1)
  BY <1>6
<1>8. ASSUME NEW n \in Nodes PROVE E(d, n)
  <2>1. h[n] < H + 1
    BY <1>2
  <2> HIDE DEF E
  <2> QED BY <1>7, <2>1
<1>9. Descent(m, d)
  BY <1>7, <1>8, Zenon DEF Descent
<1> QED BY <1>9

\* A way down from a son, with its father before it.
LEMMA DownStep ==
  ASSUME NEW m, Forest(m), NEW n \in Nodes, NEW s, m.sons[n].now # NULL,
         IsDown(m, m.sons[n].now, s)
  PROVE  IsDown(m, n, <<Place(m, n)>> \o s)
<1> DEFINE t == <<Place(m, n)>> \o s
           f == Place(m, n)
<1>1. f \in Places /\ f.now = n /\ f.fwd = m.next[n]
  BY ForestNext DEF Place, Places
<1>2. m.father[m.sons[n].now] = n
  BY ForestSons
<1> HIDE DEF f
<1>3. s \in Seq(Places) /\ Len(s) \in Nat /\ Len(s) > 0
  BY DEF IsDown
<1>4. /\ t \in Seq(Places) /\ Len(t) = Len(s) + 1 /\ t[1] = f
      /\ \A i \in 2 .. Len(s) + 1 : t[i] = s[i - 1]
  BY <1>1, <1>3 DEF f
<1> HIDE DEF t
<1>5. \A i \in 1 .. Len(t) : t[i].fwd = m.next[t[i].now]
  <2> TAKE i \in 1 .. Len(t)
  <2>1. i # 1 => i \in 2 .. Len(s) + 1 /\ i - 1 \in 1 .. Len(s)
    BY <1>3, <1>4
  <2> QED BY <1>1, <1>4, <2>1 DEF IsDown
<1>6. \A i \in 2 .. Len(t) : t[i].now = m.sons[t[i - 1].now].now /\ t[i - 1].now = m.father[t[i].now]
  <2> TAKE i \in 2 .. Len(t)
  <2>1. CASE i = 2
    <3>1. t[i] = s[1] /\ t[i - 1] = f
      BY <1>3, <1>4, <2>1
    <3> QED BY <1>1, <1>2, <3>1 DEF IsDown
  <2>2. CASE i # 2
    <3>1. i - 1 \in 2 .. Len(s) /\ i \in 2 .. Len(s) + 1 /\ i - 1 \in 2 .. Len(s) + 1
      BY <1>3, <1>4, <2>2
    <3> QED BY <1>4, <3>1 DEF IsDown
  <2> QED BY <2>1, <2>2
<1>7. t[Len(t)] = s[Len(s)]
  BY <1>3, <1>4
<1> QED BY <1>1, <1>3, <1>4, <1>5, <1>6, <1>7 DEF IsDown, t, f

\* What Down() returns.
LEMMA DownIsDown ==
  ASSUME NEW m, Forest(m), NEW n \in Nodes
  PROVE  IsDown(m, n, Down(m, n))
<1> DEFINE d == CHOOSE d : Descent(m, d)
<1>1. Descent(m, d)
  BY DescentExists
<1>2. Down(m, n) = d[n]
  BY DEF Down, Descent
<1> HIDE DEF d
<1>3. PICK H, h : Higher(m, H, h)
  BY DEF Forest
<1>4. H \in Nat /\ \A c \in Nodes : h[c] \in 0 .. H
  BY <1>3 DEF Higher
<1> DEFINE S == {k \in Nat : \A c \in Nodes : h[c] < k => IsDown(m, c, d[c])}
<1>5. 0 \in S
  BY <1>4
<1>6. ASSUME NEW k \in Nat, k \in S PROVE k + 1 \in S
  <2> SUFFICES ASSUME NEW c \in Nodes, h[c] < k + 1 PROVE IsDown(m, c, d[c])
    OBVIOUS
  <2>1. CASE m.sons[c].now = NULL
    <3>1. d[c] = <<Place(m, c)>>
      BY <1>1, <2>1, Zenon DEF Descent
    <3>2. Place(m, c) \in Places /\ Place(m, c).now = c /\ Place(m, c).fwd = m.next[c]
      BY ForestNext DEF Place, Places
    <3> QED BY <2>1, <3>1, <3>2 DEF IsDown
  <2>2. CASE m.sons[c].now # NULL
    <3>1. m.sons[c].now \in Nodes /\ m.father[m.sons[c].now] = c
      BY <2>2, ForestSons
    <3>2. h[m.sons[c].now] < h[c]
      BY <1>3, <3>1, NodeNotNull DEF Higher
    <3>3. IsDown(m, m.sons[c].now, d[m.sons[c].now])
      BY <1>4, <1>6, <3>1, <3>2
    <3>4. d[c] = <<Place(m, c)>> \o d[m.sons[c].now]
      BY <1>1, <2>2, Zenon DEF Descent
    <3> QED BY <2>2, <3>3, <3>4, DownStep
  <2> QED BY <2>1, <2>2
<1>7. \A k \in Nat : k \in S
  <2> HIDE DEF S
  <2> QED BY <1>5, <1>6, SetInduction
<1>8. H + 1 \in S /\ h[n] < H + 1
  BY <1>4, <1>7
<1> QED BY <1>2, <1>8

\* The recursion of Up().
Ascent(m, r, u) ==
  u = [k \in Nodes |-> IF k = r \/ m.father[k] = NULL THEN <<k>> ELSE <<k>> \o u[m.father[k]]]

\* The recursion of Up() ends: a father is higher than its son.
LEMMA AscentExists ==
  ASSUME NEW m, Forest(m), NEW r
  PROVE  \E u : Ascent(m, r, u)
<1>1. PICK H, h : Higher(m, H, h)
  BY DEF Forest
<1> DEFINE E(u, n) == u[n] = IF n = r \/ m.father[n] = NULL THEN <<n>> ELSE <<n>> \o u[m.father[n]]
           IsPart(u, k) == /\ u = [n \in Nodes |-> u[n]]
                           /\ \A n \in Nodes : H - h[n] < k => E(u, n)
           S == {k \in Nat : \E u : IsPart(u, k)}
<1>2. H \in Nat /\ \A n \in Nodes : h[n] \in 0 .. H
  BY <1>1 DEF Higher
<1>3. \A n \in Nodes : m.father[n] # NULL => m.father[n] \in Nodes /\ H - h[m.father[n]] < H - h[n]
  <2> TAKE n \in Nodes
  <2> SUFFICES ASSUME m.father[n] # NULL
               PROVE  m.father[n] \in Nodes /\ H - h[m.father[n]] < H - h[n]
    OBVIOUS
  <2>1. m.father[n] \in Nodes
    BY ForestFather
  <2>2. h[n] < h[m.father[n]]
    BY <1>1 DEF Higher
  <2>3. h[n] \in 0 .. H /\ h[m.father[n]] \in 0 .. H
    BY <1>2, <2>1
  <2> QED BY <1>2, <2>1, <2>2, <2>3
<1>4. 0 \in S
  <2> DEFINE u == [n \in Nodes |-> 0]
  <2>1. \A n \in Nodes : ~(H - h[n] < 0)
    BY <1>2
  <2>2. IsPart(u, 0)
    BY <2>1
  <2> QED BY <2>2
<1>5. ASSUME NEW k \in Nat, k \in S PROVE k + 1 \in S
  <2>1. PICK g : IsPart(g, k)
    BY <1>5
  <2> DEFINE u == [n \in Nodes |-> IF H - h[n] < k THEN g[n]
                                   ELSE IF n = r \/ m.father[n] = NULL THEN <<n>>
                                   ELSE <<n>> \o g[m.father[n]]]
  <2>2. ASSUME NEW n \in Nodes, H - h[n] < k + 1 PROVE E(u, n)
    <3>1. m.father[n] # NULL => u[m.father[n]] = g[m.father[n]]
      <4>1. ASSUME m.father[n] # NULL PROVE m.father[n] \in Nodes /\ H - h[m.father[n]] < k
        <5>1. m.father[n] \in Nodes /\ H - h[m.father[n]] < H - h[n]
          BY <1>3, <4>1
        <5>2. h[n] \in 0 .. H /\ h[m.father[n]] \in 0 .. H
          BY <1>2, <5>1
        <5> QED BY <1>2, <2>2, <5>1, <5>2
      <4> QED BY <4>1
    <3>2. CASE H - h[n] < k
      <4>1. u[n] = g[n]
        BY <3>2
      <4>2. E(g, n)
        BY <2>1, <3>2
      <4> HIDE DEF u
      <4> QED BY <3>1, <4>1, <4>2
    <3>3. CASE ~(H - h[n] < k)
      <4>1. u[n] = IF n = r \/ m.father[n] = NULL THEN <<n>> ELSE <<n>> \o g[m.father[n]]
        BY <3>3
      <4> HIDE DEF u
      <4> QED BY <3>1, <4>1
    <3> QED BY <3>2, <3>3
  <2>3. IsPart(u, k + 1)
    BY <2>2
  <2> HIDE DEF u, IsPart
  <2> QED BY <2>3
<1>6. H + 1 \in S
  <2> HIDE DEF S
  <2>1. \A k \in Nat : k \in S
    BY <1>4, <1>5, SetInduction
  <2> QED BY <1>2, <2>1
<1>7. PICK u : IsPart(u, H + 1)
  BY <1>6
<1>8. ASSUME NEW n \in Nodes PROVE E(u, n)
  <2>1. h[n] \in 0 .. H
    BY <1>2
  <2>2. H - h[n] < H + 1
    BY <1>2, <2>1
  <2> HIDE DEF E
  <2> QED BY <1>7, <2>2
<1>9. Ascent(m, r, u)
  BY <1>7, <1>8, Zenon DEF Ascent
<1> QED BY <1>9

---------------------------------------------------------------------------
(* The places of a traversal: each is in the list of sons of the one before *)

Trail(m, s) ==
  /\ s \in Seq(Places)
  /\ \A i \in 1 .. Len(s) : s[i].fwd = m.next[s[i].now]
  /\ \A i \in 2 .. Len(s) : s[i - 1].now = m.father[s[i].now]

TopLeaf(m, s) == s # <<>> => m.sons[s[Len(s)].now].now = NULL

\* What Down() returns are the places of a traversal.
LEMMA WayOfDown ==
  ASSUME NEW m, Forest(m), NEW n \in Nodes, NEW s, s = Down(m, n)
  PROVE  Trail(m, s) /\ TopLeaf(m, s) /\ s # <<>> /\ Len(s) \in Nat /\ Len(s) > 0 /\ s[1].now = n
<1>1. IsDown(m, n, s)
  BY DownIsDown
<1>2. Len(s) \in Nat /\ Len(s) > 0 /\ s # <<>>
  BY <1>1 DEF IsDown
<1> QED BY <1>1, <1>2 DEF IsDown, Trail, TopLeaf

\* The nodes of the places are all different.
LEMMA WayLower ==
  ASSUME NEW m, Forest(m), NEW H, NEW h, Higher(m, H, h), NEW s, Trail(m, s)
  PROVE  \A i, j \in 1 .. Len(s) : i < j => h[s[j].now] < h[s[i].now]
<1>1. Len(s) \in Nat /\ \A i \in 1 .. Len(s) : s[i].now \in Nodes
  <2>1. s \in Seq(Places)
    BY DEF Trail
  <2>2. Len(s) \in Nat /\ \A i \in 1 .. Len(s) : s[i] \in Places
    BY <2>1
  <2> QED BY <2>2 DEF Places
<1>2. H \in Nat /\ \A c \in Nodes : h[c] \in 0 .. H
  BY DEF Higher
<1>3. \A i \in 2 .. Len(s) : h[s[i].now] < h[s[i - 1].now]
  <2> TAKE i \in 2 .. Len(s)
  <2>1. i \in 1 .. Len(s) /\ i - 1 \in 1 .. Len(s)
    BY <1>1
  <2>2. s[i - 1].now = m.father[s[i].now] /\ s[i - 1].now \in Nodes /\ s[i].now \in Nodes
    BY <1>1, <2>1 DEF Trail
  <2> QED BY <2>2, NodeNotNull DEF Higher
<1> DEFINE S == {k \in Nat : \A i, j \in 1 .. Len(s) : i < j /\ j <= k => h[s[j].now] < h[s[i].now]}
<1>4. 0 \in S
  BY <1>1
<1>5. ASSUME NEW k \in Nat, k \in S PROVE k + 1 \in S
  <2> SUFFICES ASSUME NEW i \in 1 .. Len(s), NEW j \in 1 .. Len(s), i < j, j <= k + 1
               PROVE  h[s[j].now] < h[s[i].now]
    OBVIOUS
  <2>1. j \in 2 .. Len(s) /\ j - 1 \in 1 .. Len(s) /\ j - 1 <= k /\ (i = j - 1 \/ i < j - 1)
    BY <1>1
  <2>2. h[s[j].now] < h[s[j - 1].now]
    BY <1>3, <2>1
  <2>3. i # j - 1 => h[s[j - 1].now] < h[s[i].now]
    BY <1>5, <2>1
  <2>4. h[s[j].now] \in Int /\ h[s[i].now] \in Int /\ h[s[j - 1].now] \in Int
    BY <1>1, <1>2, <2>1
  <2> QED BY <2>1, <2>2, <2>3, <2>4
<1>6. \A k \in Nat : k \in S
  <2> HIDE DEF S
  <2> QED BY <1>4, <1>5, SetInduction
<1>7. Len(s) \in S
  BY <1>1, <1>6
<1> QED BY <1>1, <1>7

\* All but the last element of a sequence.
LEMMA FrontSeq ==
  ASSUME NEW S, NEW s \in Seq(S), s # <<>>
  PROVE  /\ Front(s) \in Seq(S) /\ Len(Front(s)) = Len(s) - 1
         /\ \A i \in 1 .. Len(s) - 1 : Front(s)[i] = s[i]
<1>1. Len(s) \in Nat /\ Len(s) > 0
  OBVIOUS
<1>2. Front(s) = SubSeq(s, 1, Len(s) - 1)
  BY DEF Front
<1> DEFINE n == Len(s) - 1
<1>3. 1 \in Int /\ n \in Int /\ n >= 0 /\ \A i \in 1 .. n : s[i] \in S
  BY <1>1
<1> HIDE DEF n
<1>4. /\ SubSeq(s, 1, n) \in Seq(S)
      /\ Len(SubSeq(s, 1, n)) = IF 1 <= n THEN n - 1 + 1 ELSE 0
      /\ \A i \in 1 .. n - 1 + 1 : SubSeq(s, 1, n)[i] = s[1 + i - 1]
  BY ONLY <1>3, SubSeqProperties
<1>5. n - 1 + 1 = n /\ \A i \in 1 .. n : 1 + i - 1 = i
  BY <1>3
<1>6. Len(SubSeq(s, 1, n)) = n
  BY ONLY <1>3, <1>4
<1>7. \A i \in 1 .. n : SubSeq(s, 1, n)[i] = s[i]
  BY <1>4, <1>5
<1> QED BY <1>2, <1>4, <1>6, <1>7, Zenon DEF n

\* All but the last place of a way.
LEMMA WayFront ==
  ASSUME NEW m, NEW s, Trail(m, s), s # <<>>
  PROVE  /\ Trail(m, Front(s)) /\ Len(s) \in Nat /\ Len(s) > 0 /\ Len(Front(s)) = Len(s) - 1
         /\ \A i \in 1 .. Len(s) - 1 : Front(s)[i] = s[i]
<1>1. s \in Seq(Places) /\ Len(s) \in Nat /\ Len(s) > 0
  BY DEF Trail
<1>2. /\ Front(s) \in Seq(Places) /\ Len(Front(s)) = Len(s) - 1
      /\ \A i \in 1 .. Len(s) - 1 : Front(s)[i] = s[i]
  BY <1>1, FrontSeq
<1>3. \A i \in 1 .. Len(Front(s)) : Front(s)[i].fwd = m.next[Front(s)[i].now]
  <2>1. \A i \in 1 .. Len(s) - 1 : i \in 1 .. Len(s)
    BY <1>1
  <2> QED BY <1>2, <2>1 DEF Trail
<1>4. \A i \in 2 .. Len(Front(s)) : Front(s)[i - 1].now = m.father[Front(s)[i].now]
  <2>1. \A i \in 2 .. Len(s) - 1 : i \in 2 .. Len(s) /\ i \in 1 .. Len(s) - 1 /\ i - 1 \in 1 .. Len(s) - 1
    BY <1>1
  <2> QED BY <1>2, <2>1 DEF Trail
<1> HIDE DEF Front
<1> QED BY <1>1, <1>2, <1>3, <1>4 DEF Trail

\* A way that goes on with another one below it.
LEMMA WayBelow ==
  ASSUME NEW m, NEW r, Trail(m, r), r # <<>>, NEW s, Trail(m, s), s # <<>>,
         m.father[s[1].now] = r[Len(r)].now
  PROVE  /\ Trail(m, r \o s) /\ r \o s # <<>> /\ (r \o s)[1] = r[1]
         /\ Len(r \o s) = Len(r) + Len(s) /\ Len(r) \in Nat /\ Len(s) \in Nat
         /\ \A i \in 1 .. Len(r) : (r \o s)[i] = r[i]
         /\ \A i \in 1 .. Len(s) : (r \o s)[Len(r) + i] = s[i]
         /\ TopLeaf(m, s) => TopLeaf(m, r \o s)
<1> DEFINE t == r \o s
           K == Len(r)
<1>1. K \in Nat /\ Len(s) \in Nat /\ K > 0 /\ Len(s) > 0 /\ r \in Seq(Places) /\ s \in Seq(Places)
  BY DEF Trail
<1>2. /\ t \in Seq(Places) /\ Len(t) = K + Len(s)
      /\ \A i \in 1 .. K : t[i] = r[i]
      /\ \A i \in K + 1 .. K + Len(s) : t[i] = s[i - K]
  BY <1>1
<1> HIDE DEF t
<1>3. \A i \in 1 .. Len(t) : t[i].fwd = m.next[t[i].now]
  <2> TAKE i \in 1 .. Len(t)
  <2>1. i \in 1 .. K \/ (i \in K + 1 .. K + Len(s) /\ i - K \in 1 .. Len(s))
    BY <1>1, <1>2
  <2> QED BY <1>2, <2>1 DEF Trail
<1>4. \A i \in 2 .. Len(t) : t[i - 1].now = m.father[t[i].now]
  <2> TAKE i \in 2 .. Len(t)
  <2>1. CASE i <= K
    <3>1. i \in 1 .. K /\ i - 1 \in 1 .. K /\ i \in 2 .. K
      BY <1>1, <2>1
    <3> QED BY <1>2, <3>1 DEF Trail
  <2>2. CASE i = K + 1
    <3>1. t[i] = s[1] /\ t[i - 1] = r[K]
      BY <1>1, <1>2, <2>2
    <3> QED BY <3>1
  <2>3. CASE i > K + 1
    <3>1. i \in K + 1 .. K + Len(s) /\ i - 1 \in K + 1 .. K + Len(s) /\ i - K \in 2 .. Len(s) /\ (i - 1) - K = (i - K) - 1
      BY <1>1, <1>2, <2>3
    <3>2. t[i] = s[i - K] /\ t[i - 1] = s[(i - K) - 1]
      BY <1>2, <3>1
    <3>3. s[(i - K) - 1].now = m.father[s[i - K].now]
      BY <3>1 DEF Trail
    <3> QED BY <3>2, <3>3
  <2> QED BY <1>1, <2>1, <2>2, <2>3
<1>5. Trail(m, t)
  BY <1>2, <1>3, <1>4 DEF Trail
<1>6. \A i \in 1 .. Len(s) : t[K + i] = s[i]
  <2> TAKE i \in 1 .. Len(s)
  <2>1. K + i \in K + 1 .. K + Len(s) /\ (K + i) - K = i
    BY <1>1
  <2> QED BY <1>2, <2>1
<1>7. t # <<>> /\ t[1] = r[1] /\ t[Len(t)] = s[Len(s)]
  BY <1>1, <1>2, <1>6
<1>8. TopLeaf(m, s) => TopLeaf(m, t)
  BY <1>7 DEF TopLeaf
<1> QED BY <1>1, <1>2, <1>5, <1>6, <1>7, <1>8 DEF t

\* A callback that leaves the links as they are: the traversal goes up, or on to
\* the next son of the same father.
LEMMA WalkOn ==
  ASSUME NEW m, Forest(m), NEW s, Trail(m, s), s # <<>>, NEW t, NEW break \in BOOLEAN,
         t = IF Len(s) = 1 THEN <<>>
             ELSE IF break THEN Front(s) ELSE Front(s) \o Down(m, s[Len(s)].fwd)
  PROVE  Trail(m, t) /\ (t # <<>> => t[1] = s[1])
<1>1. /\ Trail(m, Front(s)) /\ Len(s) \in Nat /\ Len(s) > 0 /\ Len(Front(s)) = Len(s) - 1
      /\ \A i \in 1 .. Len(s) - 1 : Front(s)[i] = s[i]
  BY WayFront
<1>2. CASE Len(s) = 1
  BY <1>2 DEF Trail
<1>3. CASE Len(s) # 1 /\ break
  <2>1. t = Front(s) /\ 1 \in 1 .. Len(s) - 1
    BY <1>1, <1>3
  <2>2. Front(s)[1] = s[1]
    BY <1>1, <2>1
  <2> QED BY <1>1, <2>1, <2>2, Zenon
<1>4. CASE Len(s) # 1 /\ ~break
  <2> DEFINE x == s[Len(s)].fwd
             r == Front(s)
  <2>1. /\ t = r \o Down(m, x) /\ 1 \in 1 .. Len(s) - 1 /\ Len(s) - 1 \in 1 .. Len(s) - 1
        /\ Len(s) \in 1 .. Len(s) /\ Len(s) \in 2 .. Len(s)
    BY <1>1, <1>4
  <2>2. s[Len(s)].now \in Nodes /\ x = m.next[s[Len(s)].now] /\ s[Len(s) - 1].now = m.father[s[Len(s)].now]
    <3>1. s[Len(s)] \in Places
      BY <2>1 DEF Trail
    <3>2. s[Len(s)].now \in Nodes
      BY <3>1 DEF Places
    <3> QED BY <2>1, <3>2 DEF Trail
  <2>3. x \in Nodes /\ m.father[x] = s[Len(s) - 1].now
    BY <2>2, ForestNext
  <2> HIDE DEF x
  <2>4. r # <<>> /\ r[Len(r)] = s[Len(s) - 1] /\ r[1] = s[1]
    BY <1>1, <2>1
  <2>5. Trail(m, Down(m, x)) /\ Down(m, x) # <<>> /\ Down(m, x)[1].now = x
    BY <2>3, WayOfDown
  <2> HIDE DEF r
  <2>6. Trail(m, r \o Down(m, x)) /\ (r \o Down(m, x))[1] = r[1]
    <3>1. Trail(m, r)
      BY <1>1 DEF r
    <3> QED BY <2>3, <2>4, <2>5, <3>1, WayBelow
  <2> QED BY <2>1, <2>4, <2>6
<1> QED BY <1>2, <1>3, <1>4

\* All but the last place of a way are as they were when the last node is
\* detached.
LEMMA WayDetach ==
  ASSUME NEW m, Forest(m), NEW s, Trail(m, s), Len(s) > 1,
         NEW n, n = s[Len(s)].now, NEW d, d = tree_detach(m, n)
  PROVE  Trail(d, Front(s))
<1>1. /\ Trail(m, Front(s)) /\ Len(s) \in Nat /\ Len(Front(s)) = Len(s) - 1
      /\ \A i \in 1 .. Len(s) - 1 : Front(s)[i] = s[i]
  <2>1. s # <<>>
    BY DEF Trail
  <2> QED BY <2>1, WayFront
<1> DEFINE K == Len(s) - 1
           f == s[K].now
<1>2. /\ K \in 1 .. Len(s) /\ Len(s) \in 2 .. Len(s) /\ K \in Nat
      /\ \A i \in 1 .. K : i \in 1 .. Len(s) /\ i < Len(s) /\ i <= K
      /\ \A i \in 2 .. K : i \in 1 .. K /\ i \in 2 .. Len(s) /\ i - 1 \in 1 .. K /\ i - 1 < K
  BY <1>1
<1>3. \A i \in 1 .. Len(s) : s[i].now \in Nodes
  <2>1. s \in Seq(Places)
    BY DEF Trail
  <2>2. \A i \in 1 .. Len(s) : s[i] \in Places
    BY <2>1
  <2> QED BY <2>2 DEF Places
<1>4. n \in Nodes /\ f \in Nodes /\ m.father[n] = f
  BY <1>2, <1>3 DEF Trail
<1>5. /\ \A c \in Nodes : d.father[c] = IF c = n THEN NULL ELSE m.father[c]
      /\ \A c \in Nodes \ {n} : m.father[c] # f => d.next[c] = m.next[c]
  BY <1>4, DetachForest
<1>6. PICK H, h : Higher(m, H, h)
  BY DEF Forest
<1>7. \A i, j \in 1 .. Len(s) : i < j => h[s[j].now] < h[s[i].now]
  BY <1>6, WayLower
<1>8. \A c \in Nodes : h[c] \in Int /\ (m.father[c] # NULL => h[c] < h[m.father[c]])
  BY <1>6 DEF Higher
<1>9. ASSUME NEW i \in 1 .. K
      PROVE  s[i].now \in Nodes \ {n} /\ m.father[s[i].now] # f
  <2>1. h[n] < h[s[i].now] /\ (i = K \/ h[f] < h[s[i].now])
    BY <1>2, <1>7
  <2>2. s[i].now \in Nodes
    BY <1>2, <1>3
  <2>3. h[n] \in Int /\ h[f] \in Int /\ h[s[i].now] \in Int
    BY <1>4, <1>8, <2>2
  <2>4. m.father[s[i].now] = f => h[s[i].now] < h[f]
    BY <1>4, <1>8, <2>2, NodeNotNull
  <2> HIDE DEF f
  <2>5. m.father[s[i].now] # f
    <3>1. i = K => s[i].now = f
      BY DEF f
    <3> QED BY <2>1, <2>3, <2>4, <3>1
  <2> QED BY <2>1, <2>2, <2>3, <2>5
<1> HIDE DEF f
<1>10. \A i \in 1 .. Len(Front(s)) : Front(s)[i].fwd = d.next[Front(s)[i].now]
  <2> TAKE i \in 1 .. Len(Front(s))
  <2>1. i \in 1 .. K /\ Front(s)[i] = s[i]
    BY <1>1
  <2>2. s[i].fwd = m.next[s[i].now]
    BY <1>2, <2>1 DEF Trail
  <2>3. d.next[s[i].now] = m.next[s[i].now]
    BY <1>5, <1>9, <2>1
  <2> QED BY <2>1, <2>2, <2>3
<1>11. \A i \in 2 .. Len(Front(s)) : Front(s)[i - 1].now = d.father[Front(s)[i].now]
  <2> TAKE i \in 2 .. Len(Front(s))
  <2>1. i \in 2 .. K /\ i \in 1 .. K /\ i - 1 \in 1 .. K
    BY <1>1
  <2>2. Front(s)[i] = s[i] /\ Front(s)[i - 1] = s[i - 1]
    BY <1>1, <2>1
  <2>3. s[i - 1].now = m.father[s[i].now]
    BY <1>2, <2>1 DEF Trail
  <2>4. d.father[s[i].now] = m.father[s[i].now]
    BY <1>5, <1>9, <2>1
  <2> QED BY <2>2, <2>3, <2>4
<1> QED BY <1>1, <1>10, <1>11 DEF Trail

\* The places are of nodes.
LEMMA WayNodes ==
  ASSUME NEW m, Forest(m), NEW s, Trail(m, s)
  PROVE  Len(s) \in Nat /\ \A i \in 1 .. Len(s) : s[i].now \in Nodes /\ s[i].fwd \in Nodes
<1>1. s \in Seq(Places)
  BY DEF Trail
<1>2. Len(s) \in Nat /\ \A i \in 1 .. Len(s) : s[i] \in Places
  BY <1>1
<1> QED BY <1>2 DEF Places

\* A traversal at the places s goes on at t, after a son of f was detached: with
\* x, if that is another son of f.
GoesOn(d, f, s, x, t) ==
  /\ d.sons[f].now = NULL => t = Front(s)
  /\ d.sons[f].now # NULL => x \in Nodes /\ d.father[x] = f /\ t = Front(s) \o Down(d, x)

\* It is at a leaf then, and began where it began.
AtLeaf(d, s, t) == Trail(d, t) /\ TopLeaf(d, t) /\ t # <<>> /\ t[1] = s[1]

\* The current node, a leaf, is detached and freed; its father is next, if that
\* was its last son, or the son that followed.
LEMMA WalkDetached ==
  ASSUME NEW m, Forest(m), NEW s, Trail(m, s), Len(s) > 1,
         NEW n \in Nodes, n = s[Len(s)].now, NEW f \in Nodes, m.father[n] = f,
         NEW d, d = tree_detach(m, n), NEW x, NEW t, GoesOn(d, f, s, x, t)
  PROVE  AtLeaf(d, s, t)
<1>1. /\ Len(s) \in Nat /\ Len(Front(s)) = Len(s) - 1
      /\ \A i \in 1 .. Len(s) - 1 : Front(s)[i] = s[i]
  <2>1. s # <<>>
    BY DEF Trail
  <2>2. /\ Len(s) \in Nat /\ Len(Front(s)) = Len(s) - 1
        /\ \A i \in 1 .. Len(s) - 1 : Front(s)[i] = s[i]
    BY ONLY Trail(m, s), <2>1, WayFront
  <2> QED BY <2>2
<1> DEFINE r == Front(s)
<1>2. Trail(d, r)
  BY WayDetach
<1>3. Len(s) \in 2 .. Len(s) /\ Len(s) - 1 \in 1 .. Len(s) /\ 1 \in 1 .. Len(s) - 1 /\ Len(s) - 1 \in 1 .. Len(s) - 1
  BY <1>1
<1>4. n \in Nodes /\ f \in Nodes /\ f = s[Len(s) - 1].now
  <2>1. n \in Nodes /\ s[Len(s) - 1].now \in Nodes
    BY <1>3, WayNodes
  <2>2. s[Len(s) - 1].now = m.father[s[Len(s)].now]
    BY <1>3 DEF Trail
  <2> QED BY <2>1, <2>2
<1>5. r # <<>> /\ r[Len(r)] = s[Len(s) - 1] /\ r[1] = s[1]
  BY <1>1, <1>3
<1> HIDE DEF r
<1>6. Forest(d)
  BY <1>4, DetachForest
<1>7. CASE d.sons[f].now = NULL
  <2>1. t = r
    BY <1>7 DEF r, GoesOn
  <2>2. TopLeaf(d, r)
    BY <1>4, <1>5, <1>7 DEF TopLeaf
  <2> QED BY <1>2, <1>4, <1>5, <2>1, <2>2, Zenon DEF AtLeaf
<1>8. CASE d.sons[f].now # NULL
  <2> DEFINE e == Down(d, x)
  <2>1. x \in Nodes /\ d.father[x] = f
    BY <1>8 DEF GoesOn
  <2>2. t = r \o e
    BY <1>8 DEF r, GoesOn
  <2>3. Trail(d, e) /\ TopLeaf(d, e) /\ e # <<>> /\ e[1].now = x
    BY <1>6, <2>1, WayOfDown
  <2> HIDE DEF e
  <2>4. d.father[e[1].now] = r[Len(r)].now
    BY <1>4, <1>5, <2>1, <2>3
  <2>5. Trail(d, r \o e) /\ r \o e # <<>> /\ (r \o e)[1] = r[1] /\ (TopLeaf(d, e) => TopLeaf(d, r \o e))
    BY <1>2, <1>5, <2>3, <2>4, WayBelow
  <2> QED BY <1>4, <1>5, <2>2, <2>3, <2>5, Zenon DEF AtLeaf
<1> QED BY <1>7, <1>8

---------------------------------------------------------------------------
(* Who owns the roots: the values on the parser's stack and the trees that  *)
(* are still to be attached or released.                                    *)

Calls == [call : {"attach", "release"}, f : Nodes \cup {NULL}, s : Nodes]

\* Nobody owns a root twice, and what a tree is to be attached to is a value on
\* the stack or a tree that is attached later.
Distinct(st, td) ==
  /\ st \in Seq(Nodes) /\ td \in Seq(Calls)
  /\ \A i, j \in 1 .. Len(st) : st[i] = st[j] => i = j
  /\ \A i, j \in 1 .. Len(td) : td[i].s = td[j].s => i = j
  /\ \A i \in 1 .. Len(st), j \in 1 .. Len(td) : st[i] # td[j].s
  /\ \A k \in 1 .. Len(td) : td[k].call = "attach" =>
       \/ \E i \in 1 .. Len(st) : st[i] = td[k].f
       \/ \E j \in 1 .. Len(td) : j > k /\ td[j].s = td[k].f

Holds(st, td, n) ==
  \/ \E i \in 1 .. Len(st) : st[i] = n
  \/ \E k \in 1 .. Len(td) : td[k].s = n

\* What a reduction takes: the nodes X that it allocates, and k values.
Taken(W, X, st, k) == \A w : w \in W <=> w \in X \/ \E i \in Len(st) - k + 1 .. Len(st) : w = st[i]

\* The value v and the calls c own what was taken.
HandedOn(W, v, c) ==
  /\ v \in W /\ c \in Seq(Calls)
  /\ \A j \in 1 .. Len(c) : c[j].s \in W /\ c[j].s # v
  /\ \A i, j \in 1 .. Len(c) : c[i].s = c[j].s => i = j
  /\ \A w \in W : w = v \/ \E j \in 1 .. Len(c) : c[j].s = w
  /\ \A j \in 1 .. Len(c) : c[j].call = "attach" =>
       c[j].f = v \/ \E l \in 1 .. Len(c) : l > j /\ c[l].s = c[j].f

\* The owners t and c of the roots that st owned, and of X.
Gains(t, c, st, X) == \A n \in Nodes : Holds(t, c, n) <=> Holds(st, <<>>, n) \/ n \in X

\* A reduction hands on the values it takes and the nodes it allocates.
LEMMA ReduceHolds ==
  ASSUME NEW st, Distinct(st, <<>>), NEW k \in Nat, k <= Len(st),
         NEW X \in SUBSET Nodes, \A i \in 1 .. Len(st) : st[i] \notin X,
         NEW W, Taken(W, X, st, k), NEW v, NEW c, HandedOn(W, v, c),
         NEW t, t = Append(SubSeq(st, 1, Len(st) - k), v)
  PROVE  /\ Distinct(t, c) /\ Len(t) = Len(st) - k + 1
         /\ Gains(t, c, st, X)
<1>01. /\ \A w : w \in W <=> w \in X \/ \E i \in Len(st) - k + 1 .. Len(st) : w = st[i]
       /\ v \in W /\ c \in Seq(Calls)
  BY DEF Taken, HandedOn
<1>02. /\ \A j \in 1 .. Len(c) : c[j].s \in W /\ c[j].s # v
       /\ \A i, j \in 1 .. Len(c) : c[i].s = c[j].s => i = j
       /\ \A w \in W : w = v \/ \E j \in 1 .. Len(c) : c[j].s = w
       /\ \A j \in 1 .. Len(c) : c[j].call = "attach" =>
            c[j].f = v \/ \E l \in 1 .. Len(c) : l > j /\ c[l].s = c[j].f
  BY DEF HandedOn
<1> USE <1>01, <1>02
<1> DEFINE L == Len(st)
           K == L - k
<1>1. st \in Seq(Nodes) /\ L \in Nat /\ K \in Nat /\ K <= L /\ L - k + 1 = K + 1
  BY DEF Distinct
<1>2. \A i \in 1 .. L : st[i] \in Nodes
  BY <1>1
<1>3. W \subseteq Nodes
  BY <1>1, <1>2
<1>4. /\ t \in Seq(Nodes) /\ Len(t) = K + 1 /\ t[K + 1] = v
      /\ \A i \in 1 .. K : t[i] = st[i]
  BY <1>1, <1>3
<1>5. \A i, j \in 1 .. L : st[i] = st[j] => i = j
  BY DEF Distinct
<1>0. \A w : w \in W <=> w \in X \/ \E j \in K + 1 .. L : w = st[j]
  BY <1>1
<1> HIDE DEF L, K
<1>6. ASSUME NEW i \in 1 .. K PROVE st[i] \notin W /\ i \in 1 .. L
  <2>1. i \in 1 .. L /\ \A j \in K + 1 .. L : i # j /\ j \in 1 .. L
    BY <1>1
  <2>2. \A j \in K + 1 .. L : st[j] # st[i]
    BY <1>5, <2>1
  <2>3. st[i] \notin X
    BY <2>1 DEF L
  <2> QED BY <1>0, <2>1, <2>2, <2>3
<1>7. \A i \in 1 .. K + 1 : i \in 1 .. K \/ i = K + 1
  BY <1>1
<1>8. K + 1 \in 1 .. K + 1 /\ \A i \in 1 .. K : i \in 1 .. K + 1
  BY <1>1
<1>9. \A i, j \in 1 .. Len(t) : t[i] = t[j] => i = j
  <2>1. \A i, j \in 1 .. K : t[i] = t[j] => i = j
    <3> TAKE i, j \in 1 .. K
    <3>1. i \in 1 .. L /\ j \in 1 .. L /\ t[i] = st[i] /\ t[j] = st[j]
      BY <1>4, <1>6
    <3> QED BY <1>5, <3>1, ZenonT(60)
  <2>2. \A i \in 1 .. K : t[i] # t[K + 1]
    <3> TAKE i \in 1 .. K
    <3>1. t[i] = st[i] /\ st[i] \notin W /\ t[K + 1] = v
      BY <1>4, <1>6
    <3> QED BY <3>1
  <2>3. Len(t) = K + 1
    BY <1>4
  <2> QED BY <1>7, <2>1, <2>2, <2>3, Zenon
<1>10. \A i \in 1 .. Len(t), j \in 1 .. Len(c) : t[i] # c[j].s
  <2> TAKE i \in 1 .. Len(t), j \in 1 .. Len(c)
  <2>1. i \in 1 .. K => t[i] \notin W
    <3>1. i \in 1 .. K => t[i] = st[i]
      BY <1>4
    <3> QED BY <1>6, <3>1
  <2>2. i \in 1 .. K \/ i = K + 1
    BY <1>4, <1>7
  <2>3. t[K + 1] = v
    BY <1>4
  <2> QED BY <2>1, <2>2, <2>3
<1>11. \A j \in 1 .. Len(c) : c[j].call = "attach" =>
         \/ \E i \in 1 .. Len(t) : t[i] = c[j].f
         \/ \E l \in 1 .. Len(c) : l > j /\ c[l].s = c[j].f
  BY <1>4, <1>8
<1>12. Distinct(t, c)
  BY <1>4, <1>9, <1>10, <1>11 DEF Distinct
<1>13. ASSUME NEW n \in Nodes, Holds(t, c, n) PROVE Holds(st, <<>>, n) \/ n \in X
  <2>1. (\E i \in 1 .. K : st[i] = n) \/ n \in W
    <3>1. CASE \E i \in 1 .. Len(t) : t[i] = n
      BY <1>4, <1>7, <3>1
    <3>2. CASE \E j \in 1 .. Len(c) : c[j].s = n
      BY <3>2
    <3> QED BY <1>13, <3>1, <3>2 DEF Holds
  <2>2. n \in W => n \in X \/ \E i \in 1 .. L : st[i] = n
    <3>1. \A i \in L - k + 1 .. L : i \in 1 .. L
      BY <1>1 DEF K
    <3> QED BY <3>1 DEF L
  <2> QED BY <1>6, <2>1, <2>2 DEF Holds, L
<1>14. ASSUME NEW n \in Nodes, Holds(st, <<>>, n) \/ n \in X PROVE Holds(t, c, n)
  <2>1. (\E i \in 1 .. K : st[i] = n) \/ n \in W
    <3>1. CASE n \in X
      BY <3>1
    <3>2. CASE Holds(st, <<>>, n)
      <4>1. PICK i \in 1 .. L : st[i] = n
        BY <3>2 DEF Holds, L
      <4>2. i \in 1 .. K \/ i \in L - k + 1 .. L
        BY <1>1, <4>1
      <4> QED BY <4>1, <4>2 DEF L
    <3> QED BY <1>14, <3>1, <3>2
  <2>2. (\E i \in 1 .. K : st[i] = n) => Holds(t, c, n)
    BY <1>4, <1>8 DEF Holds
  <2>3. n \in W => Holds(t, c, n)
    BY <1>4, <1>8 DEF Holds
  <2> QED BY <2>1, <2>2, <2>3
<1>15. Gains(t, c, st, X)
  BY <1>13, <1>14 DEF Gains
<1> QED BY <1>1, <1>4, <1>12, <1>15 DEF L, K

\* One more reduction takes its values and leaves one.
LEMMA ValuesStep ==
  ASSUME NEW w, NEW k \in Nat \ {0}
  PROVE  /\ Values(w, 0) = 0 /\ Values(w, k - 1) \in Int /\ Pops(w[k]) \in 0 .. 4
         /\ Values(w, k) = Values(w, k - 1) - Pops(w[k]) + 1
<1> DEFINE Popped(j) == {i \in (1 .. j) \X (1 .. 4) : i[2] <= Pops(w[i[1]])}
           new == {k} \X (1 .. Pops(w[k]))
<1>1. Pops(w[k]) \in 0 .. 4
  BY DEF Pops
<1>2. ASSUME NEW j \in Nat PROVE IsFiniteSet(Popped(j)) /\ Cardinality(Popped(j)) \in Nat
  <2>1. IsFiniteSet((1 .. j) \X (1 .. 4))
    <3>1. j \in Int /\ 1 \in Int /\ 4 \in Int
      OBVIOUS
    <3>2. IsFiniteSet(1 .. j)
      BY <3>1, FS_Interval, Zenon
    <3>3. IsFiniteSet(1 .. 4)
      BY <3>1, FS_Interval, Zenon
    <3> QED BY <3>2, <3>3, FS_Product
  <2>2. Popped(j) \subseteq (1 .. j) \X (1 .. 4)
    OBVIOUS
  <2>3. IsFiniteSet(Popped(j))
    BY <2>1, <2>2, FS_Subset
  <2> HIDE DEF Popped
  <2> QED BY <2>3, FS_CardinalityType
<1>3. Values(w, 0) = 0
  <2>1. Popped(0) = {}
    OBVIOUS
  <2> QED BY <2>1, FS_EmptySet DEF Values
<1>4. Popped(k) = Popped(k - 1) \cup new /\ Popped(k - 1) \cap new = {}
  <2>1. \A j \in 1 .. k : j \in 1 .. k - 1 \/ j = k
    OBVIOUS
  <2>2. k \in 1 .. k /\ k \notin 1 .. k - 1 /\ \A j \in 1 .. k - 1 : j \in 1 .. k
    OBVIOUS
  <2>3. \A j \in 1 .. 4 : j <= Pops(w[k]) <=> j \in 1 .. Pops(w[k])
    BY <1>1
  <2>4. 1 .. Pops(w[k]) \subseteq 1 .. 4
    BY <1>1
  <2>5. \A x : x \in new <=> x \in (1 .. k) \X (1 .. 4) /\ x[1] = k /\ x[2] <= Pops(w[k])
    BY <2>2, <2>3, <2>4
  <2>6. \A x : x \in Popped(k) <=> x \in (1 .. k) \X (1 .. 4) /\ x[2] <= Pops(w[x[1]])
    OBVIOUS
  <2>7. \A x : x \in Popped(k - 1) <=> x \in (1 .. k) \X (1 .. 4) /\ x[1] # k /\ x[2] <= Pops(w[x[1]])
    BY <2>1, <2>2
  <2> HIDE DEF new, Popped
  <2> QED BY <2>5, <2>6, <2>7
<1>5. IsFiniteSet(new) /\ Cardinality(new) = Pops(w[k])
  <2>1. IsFiniteSet(1 .. Pops(w[k])) /\ Cardinality(1 .. Pops(w[k])) = Pops(w[k])
    BY <1>1, FS_Interval, SMTT(60)
  <2>2. IsFiniteSet({k}) /\ Cardinality({k}) = 1
    BY FS_Singleton
  <2>3. IsFiniteSet(new) /\ Cardinality(new) = Cardinality({k}) * Cardinality(1 .. Pops(w[k]))
    BY <2>1, <2>2, FS_Product
  <2> HIDE DEF new
  <2>4. 1 * Pops(w[k]) = Pops(w[k])
    BY <1>1
  <2> QED BY <2>1, <2>2, <2>3, <2>4
<1>6. k - 1 \in Nat
  OBVIOUS
<1>7. Cardinality(Popped(k)) = Cardinality(Popped(k - 1)) + Pops(w[k])
  <2>1. IsFiniteSet(Popped(k - 1)) /\ IsFiniteSet(Popped(k - 1) \cap new) /\ Cardinality(Popped(k - 1) \cap new) = 0
    BY <1>2, <1>4, <1>6, FS_EmptySet, Zenon
  <2>2. Cardinality(Popped(k - 1) \cup new) =
          Cardinality(Popped(k - 1)) + Cardinality(new) - Cardinality(Popped(k - 1) \cap new)
    BY <1>5, <2>1, FS_Union
  <2>3. Cardinality(Popped(k - 1)) \in Nat
    BY <1>2, <1>6
  <2> HIDE DEF Popped, new
  <2> QED BY <1>1, <1>4, <1>5, <2>1, <2>2, <2>3
<1>8. Cardinality(Popped(k - 1)) \in Nat
  BY <1>2, <1>6
<1>9. Values(w, k) = k - Cardinality(Popped(k)) /\ Values(w, k - 1) = (k - 1) - Cardinality(Popped(k - 1))
  BY DEF Values
<1> HIDE DEF Popped
<1> QED BY <1>1, <1>3, <1>7, <1>8, <1>9

---------------------------------------------------------------------------
(* The inductive invariant *)

\* What is allocated and not freed is a forest; the rest has no links.  Nodes
\* are allocated in order.
Alive(m, me) ==
  /\ Forest(m)
  /\ me \in [Nodes -> {"none", "live", "freed"}]
  /\ \A n \in Nodes : me[n] # "live" => m.father[n] = NULL /\ m.sons[n].now = NULL
  /\ \E N \in 0 .. MaxNodes : \A n \in Nodes : me[n] # "none" <=> n <= N

\* A root is owned by the value st, by the call td, or is the one that is being
\* released, r.
OwnedBy(st, td, r, m, me) ==
  \A n \in Nodes : Holds(st, td, n) \/ n = r <=> me[n] = "live" /\ m.father[n] = NULL

\* The calls that still own their trees, and the tree that is being released.
Pending   == IF pc = "drop" /\ places = <<>> THEN Tail(todo) ELSE todo
Releasing == IF pc = "release" /\ places # <<>> THEN places[1].now ELSE NULL

Struct ==
  /\ Alive(links, mem)
  /\ Trail(links, places)
  /\ pc \in {"drop", "release"} => TopLeaf(links, places)
  /\ Distinct(stack, todo)
  /\ OwnedBy(stack, Pending, Releasing, links, mem)

Parsing == {"parse", "pass", "drop"}
Updates == {"set_1", "group", "prune", "leaf_id", "internal"}

Control ==
  /\ pc \in Phases
  /\ pc \in {"pass", "drop"} => todo # <<>>
  /\ pc \notin Parsing => todo = <<>>
  /\ pc \in {"parse", "accepted", "updated", "done"} => places = <<>>
  /\ pc \in Parsing => /\ formula \in Formulas /\ at \in 1 .. Len(formula) + 1
                       /\ Len(stack) = Values(formula, at - 1)
  /\ pc \in Updates \cup {"accepted", "updated", "subpaths"} => Len(stack) = 1
  /\ pc = "done" => stack = <<>>

\* Where a traversal begins.
Begins ==
  /\ pc = "pass" => /\ todo[1].call = "attach"
                    /\ places = <<>> => links.sons[todo[1].s].now = NULL
                    /\ places # <<>> => Len(places) = 1 /\ links.father[places[1].now] = todo[1].s
  /\ pc = "drop" /\ places # <<>> => places[1].now = todo[1].s
  /\ pc = "release" /\ places # <<>> => \A i \in 1 .. Len(stack) : stack[i] # places[1].now
  /\ pc \in Updates /\ places # <<>> => places[1].now = stack[1]
  /\ pc = "subpaths" => /\ rot \in Nodes /\ mem[rot] = "live"
                        /\ places # <<>> => places[1].now = rot

Placed(s) == {s[i].now : i \in 1 .. Len(s)}

\* The nodes that a traversal has still to visit are in A: those of its places,
\* the first son of every node that it has not come to, and every node's next
\* brother, which it has not come to either.
Ahead(m, s, A) ==
  /\ A \subseteq Nodes /\ Placed(s) \subseteq A
  /\ \A x \in A \ Placed(s) : m.sons[x].now # NULL => m.sons[x].now \in A
  /\ \A x \in A : x # s[1].now /\ m.father[x] # NULL /\ x # m.sons[m.father[x]].last =>
       m.next[x] \in A \ Placed(s)

NodeType == [symbol_id : Symbols, token_id : Tokens,
             n_fan : 0 .. MaxNodes, rank : 0 .. MaxNodes, node_id : 0 .. MaxNodes]

Fields ==
  /\ node \in [Nodes -> NodeType]
  /\ cur_id = Cardinality({n \in Nodes : node[n].node_id # 0})
  /\ pc \in Parsing \cup {"accepted"} => \A n \in Nodes : node[n].n_fan = 0
  /\ pc = "set_1" => \A n \in Nodes : node[n].n_fan <= 1
  /\ pc \in Parsing \cup {"accepted", "set_1", "group", "prune"} => \A n \in Nodes : node[n].node_id = 0
  /\ pc = "group" /\ places # <<>> => \E A : Ahead(links, places, A) /\ \A n \in A : node[n].n_fan <= 1
  /\ pc = "leaf_id" /\ places # <<>> => \E A : Ahead(links, places, A) /\ \A n \in A : node[n].node_id = 0
  /\ pc = "leaf_id" => \A n \in Nodes : node[n].node_id # 0 => links.sons[n].now = NULL
  /\ pc = "internal" => \A n \in Nodes : node[n].node_id # 0 => links.sons[n].now = NULL \/ node[n].n_fan # 0

IInv == Struct /\ Control /\ Begins /\ Fields

\* A node that has a father is live, and so is the father.
LEMMA AliveFather ==
  ASSUME NEW m, NEW me, Alive(m, me), NEW n \in Nodes, m.father[n] # NULL
  PROVE  m.father[n] \in Nodes /\ me[n] = "live" /\ me[m.father[n]] = "live"
<1>1. Forest(m) /\ me[n] = "live"
  BY DEF Alive
<1>2. m.father[n] \in Nodes
  BY <1>1, ForestFather
<1>3. m.sons[m.father[n]].now # NULL
  BY <1>1, <1>2, ForestSons
<1> QED BY <1>1, <1>2, <1>3 DEF Alive

\* A live root is attached to another.
LEMMA AliveAttach ==
  ASSUME NEW m, NEW me, Alive(m, me), NEW n \in Nodes, NEW f \in Nodes, n # f,
         me[n] = "live", me[f] = "live", m.father[n] = NULL, m.father[f] = NULL,
         NEW a, a = tree_attach(m, n, f)
  PROVE  Alive(a, me) /\ \A c \in Nodes : a.father[c] = IF c = n THEN f ELSE m.father[c]
<1>1. Forest(m)
  BY DEF Alive
<1>2. /\ Forest(a)
      /\ \A c \in Nodes : a.father[c] = IF c = n THEN f ELSE m.father[c]
      /\ \A g \in Nodes \ {f} : a.sons[g] = m.sons[g]
  BY <1>1, AttachForest
<1>3. \A c \in Nodes : me[c] # "live" => a.father[c] = NULL /\ a.sons[c].now = NULL
  BY <1>2 DEF Alive
<1> QED BY <1>2, <1>3 DEF Alive

\* A son is detached: it is a root.
LEMMA AliveDetach ==
  ASSUME NEW m, NEW me, Alive(m, me), NEW n \in Nodes, NEW f \in Nodes, m.father[n] = f,
         NEW d, d = tree_detach(m, n)
  PROVE  Alive(d, me) /\ \A c \in Nodes : d.father[c] = IF c = n THEN NULL ELSE m.father[c]
<1>1. Forest(m) /\ f # NULL
  BY NodeNotNull DEF Alive
<1>2. /\ Forest(d)
      /\ \A c \in Nodes : d.father[c] = IF c = n THEN NULL ELSE m.father[c]
      /\ \A g \in Nodes \ {f} : d.sons[g] = m.sons[g]
  BY <1>1, DetachForest
<1>3. me[f] = "live"
  BY <1>1, AliveFather
<1>4. \A c \in Nodes : me[c] # "live" => d.father[c] = NULL /\ d.sons[c].now = NULL
  BY <1>2, <1>3 DEF Alive
<1> QED BY <1>2, <1>4 DEF Alive

\* A root that is a leaf is freed.
LEMMA AliveFree ==
  ASSUME NEW m, NEW me, Alive(m, me), NEW n \in Nodes, me[n] = "live", m.father[n] = NULL, m.sons[n].now = NULL,
         NEW w, w = Put(me, n, "freed")
  PROVE  Alive(m, w) /\ \A c \in Nodes : w[c] = "live" <=> me[c] = "live" /\ c # n
<1>1. me \in [Nodes -> {"none", "live", "freed"}]
  BY DEF Alive
<1>2. w \in [Nodes -> {"none", "live", "freed"}] /\ \A c \in Nodes : w[c] = IF c = n THEN "freed" ELSE me[c]
  BY <1>1 DEF Put
<1>3. \A c \in Nodes : w[c] # "none" <=> me[c] # "none"
  BY <1>2
<1>4. \A c \in Nodes : w[c] # "live" => m.father[c] = NULL /\ m.sons[c].now = NULL
  BY <1>2 DEF Alive
<1>5. \E N \in 0 .. MaxNodes : \A c \in Nodes : w[c] # "none" <=> c <= N
  <2>1. PICK N \in 0 .. MaxNodes : \A c \in Nodes : me[c] # "none" <=> c <= N
    BY DEF Alive
  <2> QED BY <1>3, <2>1
<1> QED BY <1>2, <1>4, <1>5 DEF Alive

\* How many nodes were allocated so far.
Allocated(me) == Cardinality({n \in Nodes : me[n] # "none"})

\* The next nodes are allocated.
LEMMA AliveNew ==
  ASSUME NEW m, NEW me, Alive(m, me), NEW k \in Nat, NEW N,
         N = Allocated(me), N + k \in Nodes \/ k = 0,
         NEW w, w \in [Nodes -> {"none", "live", "freed"}],
         \A n \in Nodes : w[n] = IF n \in N + 1 .. N + k THEN "live" ELSE me[n]
  PROVE  /\ Alive(m, w) /\ N \in Nat /\ N + 1 .. N + k \subseteq Nodes
         /\ \A n \in N + 1 .. N + k : me[n] = "none" /\ m.father[n] = NULL
         /\ \A c \in Nodes : w[c] = "live" <=> me[c] = "live" \/ c \in N + 1 .. N + k
<1>1. MaxNodes \in Nat \ {0}
  BY TexTreeAssumption
<1>2. N \in 0 .. MaxNodes /\ \A n \in Nodes : me[n] # "none" <=> n <= N
  <2>1. PICK M \in 0 .. MaxNodes : \A n \in Nodes : me[n] # "none" <=> n <= M
    BY DEF Alive
  <2>2. {n \in Nodes : me[n] # "none"} = 1 .. M
    BY <1>1, <2>1 DEF Nodes
  <2>3. M \in Int /\ 1 \in Int /\ M - 1 + 1 = M /\ (1 > M => M = 0)
    BY <1>1, <2>1
  <2>4. Cardinality(1 .. M) = M
    BY <2>3, FS_Interval
  <2> QED BY <2>1, <2>2, <2>4 DEF Allocated
<1>3. N \in Nat /\ N + k <= MaxNodes
  BY <1>1, <1>2 DEF Nodes
<1>4. N + 1 .. N + k \subseteq Nodes /\ \A n \in N + 1 .. N + k : n > N
  <2> SUFFICES ASSUME NEW n \in N + 1 .. N + k PROVE n \in 1 .. MaxNodes /\ n > N
    BY DEF Nodes
  <2>1. N \in Nat /\ k \in Nat /\ MaxNodes \in Nat /\ N + k <= MaxNodes
    BY <1>1, <1>3
  <2> QED BY ONLY <2>1, n \in N + 1 .. N + k
<1>5. \A n \in N + 1 .. N + k : me[n] = "none" /\ m.father[n] = NULL
  <2> TAKE n \in N + 1 .. N + k
  <2>1. n \in Nodes /\ ~(n <= N)
    BY <1>2, <1>4
  <2>2. me[n] = "none"
    BY <1>2, <2>1
  <2> QED BY <2>1, <2>2 DEF Alive
<1>6. me \in [Nodes -> {"none", "live", "freed"}]
  BY DEF Alive
<1>7. /\ w \in [Nodes -> {"none", "live", "freed"}]
      /\ \A c \in Nodes : w[c] = IF c \in N + 1 .. N + k THEN "live" ELSE me[c]
  BY <1>6
<1>8. \A c \in Nodes : w[c] # "live" => m.father[c] = NULL /\ m.sons[c].now = NULL
  BY <1>7 DEF Alive
<1>9. \A c \in Nodes : w[c] # "none" <=> c <= N + k
  <2> TAKE c \in Nodes
  <2>1. c \in N + 1 .. N + k \/ c <= N \/ c > N + k
    BY <1>3 DEF Nodes
  <2>2. c \in N + 1 .. N + k => c <= N + k
    BY <1>3
  <2>3. c <= N => c <= N + k /\ c \notin N + 1 .. N + k
    BY <1>3 DEF Nodes
  <2>4. c > N + k => ~(c <= N) /\ ~(c <= N + k) /\ c \notin N + 1 .. N + k
    BY <1>3 DEF Nodes
  <2> QED BY <1>2, <1>7, <2>1, <2>2, <2>3, <2>4
<1>10. N + k \in 0 .. MaxNodes
  BY <1>3
<1>11. Alive(m, w)
  BY <1>7, <1>8, <1>9, <1>10 DEF Alive
<1>12. \A c \in Nodes : w[c] = "live" <=> me[c] = "live" \/ c \in N + 1 .. N + k
  BY <1>7
<1> QED BY <1>3, <1>4, <1>5, <1>11, <1>12

\* The call that was made first owns nothing any more.
LEMMA DistinctTail ==
  ASSUME NEW st, NEW td, Distinct(st, td), td # <<>>
  PROVE  /\ Distinct(st, Tail(td)) /\ td[1] \in Calls /\ td[1].s \in Nodes /\ Len(td) \in Nat /\ Len(td) > 0
         /\ \A n \in Nodes : Holds(st, td, n) <=> Holds(st, Tail(td), n) \/ n = td[1].s
         /\ ~Holds(st, Tail(td), td[1].s)
         /\ td[1].call = "attach" => /\ td[1].f \in Nodes /\ td[1].f # td[1].s
                                     /\ Holds(st, Tail(td), td[1].f)
<1> DEFINE t == Tail(td)
           L == Len(td)
<1>1. td \in Seq(Calls) /\ st \in Seq(Nodes)
  BY DEF Distinct
<1>2. L \in Nat /\ L > 0 /\ 1 \in 1 .. L
  BY <1>1
<1>3. t \in Seq(Calls) /\ Len(t) = L - 1 /\ \A i \in 1 .. L - 1 : t[i] = td[i + 1]
  BY <1>1, <1>2
<1>4. td[1] \in Calls /\ td[1].s \in Nodes /\ td[1].f \in Nodes \cup {NULL}
  <2>1. td[1] \in Calls
    BY <1>1, <1>2
  <2> QED BY <2>1 DEF Calls
<1>5. \A i \in 1 .. L - 1 : i + 1 \in 1 .. L /\ i + 1 # 1
  BY <1>2
<1>6. \A i \in 2 .. L : i - 1 \in 1 .. L - 1 /\ (i - 1) + 1 = i /\ td[i] = t[i - 1]
  BY <1>2, <1>3
<1>7. \A i \in 1 .. L : i = 1 \/ i \in 2 .. L
  BY <1>2
<1> HIDE DEF t, L
<1>8. /\ \A i, j \in 1 .. Len(st) : st[i] = st[j] => i = j
      /\ \A i, j \in 1 .. L : td[i].s = td[j].s => i = j
      /\ \A i \in 1 .. Len(st), j \in 1 .. L : st[i] # td[j].s
      /\ \A k \in 1 .. L : td[k].call = "attach" =>
           \/ \E i \in 1 .. Len(st) : st[i] = td[k].f
           \/ \E j \in 1 .. L : j > k /\ td[j].s = td[k].f
  BY DEF Distinct, L
<1>9. \A i, j \in 1 .. Len(t) : t[i].s = t[j].s => i = j
  <2> SUFFICES ASSUME NEW i \in 1 .. L - 1, NEW j \in 1 .. L - 1, t[i].s = t[j].s PROVE i = j
    BY <1>3
  <2>1. i + 1 = j + 1
    BY <1>3, <1>5, <1>8
  <2> QED BY <1>2, <2>1
<1>10. \A i \in 1 .. Len(st), j \in 1 .. Len(t) : st[i] # t[j].s
  BY <1>3, <1>5, <1>8
<1>11. \A k \in 1 .. Len(t) : t[k].call = "attach" =>
           \/ \E i \in 1 .. Len(st) : st[i] = t[k].f
           \/ \E j \in 1 .. Len(t) : j > k /\ t[j].s = t[k].f
  <2> SUFFICES ASSUME NEW k \in 1 .. L - 1, t[k].call = "attach"
               PROVE  \/ \E i \in 1 .. Len(st) : st[i] = t[k].f
                      \/ \E j \in 1 .. L - 1 : j > k /\ t[j].s = t[k].f
    BY <1>3
  <2>1. t[k] = td[k + 1] /\ k + 1 \in 1 .. L
    BY <1>3, <1>5
  <2>2. CASE \E j \in 1 .. L : j > k + 1 /\ td[j].s = td[k + 1].f
    <3>1. PICK j \in 1 .. L : j > k + 1 /\ td[j].s = td[k + 1].f
      BY <2>2
    <3>2. j \in 2 .. L /\ j - 1 > k
      BY <1>2, <3>1
    <3> QED BY <1>6, <2>1, <3>1, <3>2
  <2> QED BY <1>8, <2>1, <2>2
<1>12. Distinct(st, t)
  BY <1>1, <1>3, <1>8, <1>9, <1>10, <1>11 DEF Distinct
<1>13. \A n \in Nodes : (\E k \in 1 .. L : td[k].s = n) <=> (\E k \in 1 .. Len(t) : t[k].s = n) \/ n = td[1].s
  <2> TAKE n \in Nodes
  <2>1. ASSUME NEW k \in 1 .. L, td[k].s = n PROVE (\E j \in 1 .. Len(t) : t[j].s = n) \/ n = td[1].s
    BY <1>3, <1>6, <1>7, <2>1
  <2>2. ASSUME NEW k \in 1 .. Len(t), t[k].s = n PROVE \E j \in 1 .. L : td[j].s = n
    BY <1>3, <1>5, <2>2
  <2> QED BY <1>2, <2>1, <2>2
<1>14. ~Holds(st, t, td[1].s)
  <2>1. \A i \in 1 .. Len(st) : st[i] # td[1].s
    BY <1>2, <1>8
  <2>2. ASSUME NEW k \in 1 .. Len(t) PROVE t[k].s # td[1].s
    <3>1. k + 1 \in 1 .. L /\ k + 1 # 1 /\ t[k] = td[k + 1]
      BY <1>3, <1>5
    <3> QED BY <1>2, <1>8, <3>1
  <2> QED BY <2>1, <2>2 DEF Holds
<1>15. ASSUME td[1].call = "attach"
       PROVE  td[1].f \in Nodes /\ td[1].f # td[1].s /\ Holds(st, t, td[1].f)
  <2>1. CASE \E i \in 1 .. Len(st) : st[i] = td[1].f
    BY <1>1, <1>2, <1>8, <2>1 DEF Holds
  <2>2. CASE \E j \in 1 .. L : j > 1 /\ td[j].s = td[1].f
    <3>1. PICK j \in 1 .. L : j > 1 /\ td[j].s = td[1].f
      BY <2>2
    <3>2. j \in 2 .. L /\ j # 1
      BY <1>2, <3>1
    <3>3. td[j] = t[j - 1] /\ j - 1 \in 1 .. Len(t) /\ td[j] \in Calls
      BY <1>1, <1>3, <1>6, <3>1, <3>2 DEF L
    <3>4. td[j].s \in Nodes
      BY <3>3 DEF Calls
    <3> QED BY <1>2, <1>8, <3>1, <3>2, <3>3, <3>4 DEF Holds
  <2> QED BY <1>2, <1>8, <1>15, <2>1, <2>2
<1> QED BY <1>2, <1>4, <1>12, <1>13, <1>14, <1>15 DEF Holds, t, L

\* The last value of the stack is taken.
LEMMA DistinctFront ==
  ASSUME NEW st, Distinct(st, <<>>), st # <<>>
  PROVE  /\ Distinct(Front(st), <<>>) /\ Last(st) \in Nodes /\ Len(st) \in Nat /\ Len(Front(st)) = Len(st) - 1
         /\ \A n \in Nodes : Holds(st, <<>>, n) <=> Holds(Front(st), <<>>, n) \/ n = Last(st)
         /\ \A i \in 1 .. Len(Front(st)) : Front(st)[i] # Last(st)
<1>0. st \in Seq(Nodes) /\ Len(st) \in Nat /\ Len(st) > 0
  BY DEF Distinct
<1>02. /\ Front(st) \in Seq(Nodes) /\ Len(Front(st)) = Len(st) - 1
      /\ \A i \in 1 .. Len(st) - 1 : Front(st)[i] = st[i]
  BY <1>0, FrontSeq
<1> DEFINE t == Front(st)
           L == Len(st)
<1>1. st \in Seq(Nodes) /\ L \in Nat /\ L > 0 /\ L \in 1 .. L
  BY DEF Distinct
<1>2. t \in Seq(Nodes) /\ Len(t) = L - 1 /\ \A i \in 1 .. L - 1 : t[i] = st[i]
  BY <1>02
<1>3. Last(st) = st[L] /\ st[L] \in Nodes
  BY <1>1 DEF Last
<1>4. \A i \in 1 .. L - 1 : i \in 1 .. L /\ i # L
  BY <1>1
<1>5. \A i \in 1 .. L : i \in 1 .. L - 1 \/ i = L
  BY <1>1
<1> HIDE DEF t, L
<1>6. \A i, j \in 1 .. L : st[i] = st[j] => i = j
  BY DEF Distinct, L
<1>7. \A i, j \in 1 .. Len(t) : t[i] = t[j] => i = j
  BY <1>2, <1>4, <1>6
<1>8. \A i \in 1 .. Len(t) : t[i] # st[L]
  BY <1>1, <1>2, <1>4, <1>6
<1>9. Distinct(t, <<>>)
  <2>1. <<>> \in Seq(Calls) /\ Len(<<>>) = 0
    OBVIOUS
  <2> QED BY <1>2, <1>7, <2>1 DEF Distinct
<1>10. \A n \in Nodes : (\E i \in 1 .. L : st[i] = n) <=> (\E i \in 1 .. Len(t) : t[i] = n) \/ n = st[L]
  <2> TAKE n \in Nodes
  <2> QED BY <1>1, <1>2, <1>4, <1>5
<1>11. \A n \in Nodes : Holds(st, <<>>, n) <=> Holds(t, <<>>, n) \/ n = st[L]
  <2>1. Len(<<>>) = 0 /\ \A k \in 1 .. 0 : FALSE
    OBVIOUS
  <2> QED BY <1>10, <2>1 DEF Holds, L
<1> QED BY <1>1, <1>2, <1>3, <1>8, <1>9, <1>11 DEF t, L

\* The neighbours of a node on its ring.
LEMMA ForestRing ==
  ASSUME NEW m, Forest(m), NEW n \in Nodes
  PROVE  /\ m.next[n] \in Nodes /\ m.prev[n] \in Nodes
         /\ m.father[m.prev[n]] = m.father[n]
         /\ m.next[m.prev[n]] = n /\ m.prev[m.next[n]] = n
<1>1. m.next[n] \in Nodes /\ m.prev[n] \in Nodes
  BY DEF Forest, Memory
<1>2. CASE m.father[n] = NULL
  <2>1. m.next[n] = n /\ m.prev[n] = n
    BY <1>2 DEF Forest
  <2> QED BY <1>1, <2>1
<1>3. CASE m.father[n] # NULL
  <2>1. PICK f \in Nodes : m.father[n] = f
    BY <1>3, ForestFather
  <2>2. PICK s : IsList(m, f, s)
    BY DEF Forest
  <2>3. PICK i \in 1 .. Len(s) : s[i] = n
    BY <2>1, <2>2 DEF IsList
  <2> DEFINE L == Len(s)
  <2>4. L \in Nat /\ L > 0
    BY <2>2, <2>3, ListHead
  <2>5. \A j \in 1 .. Len(s) : s[j] \in Nodes /\ s[j] # NULL /\ m.father[s[j]] = f
    BY <2>2, ListHead, ZenonT(60)
  <2>6. \A j \in 1 .. L : /\ m.next[s[j]] = IF j = L THEN s[1] ELSE s[j + 1]
                          /\ m.prev[s[j]] = IF j = 1 THEN s[L] ELSE s[j - 1]
    BY <2>2 DEF IsList
  <2>7. L \in 1 .. L /\ 1 \in 1 .. L /\ i \in 1 .. L
    BY <2>3, <2>4
  <2>10. \A j \in 1 .. L : m.father[s[j]] = f
    BY <2>5
  <2> HIDE DEF L
  <2>8. m.father[m.prev[n]] = f /\ m.next[m.prev[n]] = n
    <3>1. CASE i = 1
      BY <2>3, <2>10, <2>6, <2>7, <3>1
    <3>2. CASE i # 1
      <4>1. i - 1 \in 1 .. L /\ i - 1 # L /\ (i - 1) + 1 = i
        BY <2>4, <2>7, <3>2
      <4>2. m.prev[n] = s[i - 1]
        BY <2>3, <2>6, <2>7, <3>2
      <4>3. m.next[s[i - 1]] = s[(i - 1) + 1]
        BY <2>6, <4>1
      <4> QED BY <2>3, <2>10, <4>1, <4>2, <4>3
    <3> QED BY <3>1, <3>2
  <2>9. m.prev[m.next[n]] = n
    <3>1. CASE i = L
      BY <2>3, <2>6, <2>7, <3>1
    <3>2. CASE i # L
      <4>1. i + 1 \in 1 .. L /\ i + 1 # 1 /\ (i + 1) - 1 = i
        BY <2>4, <2>7, <3>2
      <4>2. m.next[n] = s[i + 1]
        BY <2>3, <2>6, <2>7, <3>2
      <4>3. m.prev[s[i + 1]] = s[(i + 1) - 1]
        BY <2>6, <4>1
      <4> QED BY <2>3, <4>1, <4>2, <4>3
    <3> QED BY <3>1, <3>2
  <2> QED BY <1>1, <2>1, <2>8, <2>9
<1> QED BY <1>2, <1>3

\* Only the last node of a list is followed by the first one.
LEMMA ForestLast ==
  ASSUME NEW m, Forest(m), NEW f \in Nodes, NEW x \in Nodes, m.father[x] = f,
         m.next[x] = m.sons[f].now
  PROVE  x = m.sons[f].last
<1>1. PICK s : IsList(m, f, s)
  BY DEF Forest
<1>2. PICK i \in 1 .. Len(s) : s[i] = x
  BY <1>1 DEF IsList
<1>3. Len(s) \in Nat /\ Len(s) > 0 /\ 1 \in 1 .. Len(s) /\ Len(s) \in 1 .. Len(s)
  BY <1>1, <1>2, ListHead
<1>4. m.sons[f].now = s[1] /\ m.sons[f].last = s[Len(s)]
  BY <1>1, <1>3, ListHead
<1>5. \A j, k \in 1 .. Len(s) : s[j] = s[k] => j = k
  BY <1>1 DEF IsList
<1>6. m.next[s[i]] = IF i = Len(s) THEN s[1] ELSE s[i + 1]
  BY <1>1 DEF IsList
<1>7. i # Len(s) => i + 1 \in 1 .. Len(s) /\ i + 1 # 1
  BY <1>3
<1> QED BY <1>2, <1>3, <1>4, <1>5, <1>6, <1>7

---------------------------------------------------------------------------
(* A node is visited once *)

\* The places are of different nodes.
LEMMA TrailDistinct ==
  ASSUME NEW m, Forest(m), NEW s, Trail(m, s), NEW i \in 1 .. Len(s), NEW j \in 1 .. Len(s),
         s[i].now = s[j].now
  PROVE  i = j
<1>1. PICK H, h : Higher(m, H, h)
  BY DEF Forest
<1>2. Len(s) \in Nat /\ s[i].now \in Nodes
  BY WayNodes
<1>3. h[s[i].now] \in Nat
  BY <1>1, <1>2 DEF Higher
<1>4. \A k, l \in 1 .. Len(s) : k < l => h[s[l].now] < h[s[k].now]
  BY <1>1, WayLower
<1>5. i < j \/ j < i \/ i = j
  BY <1>2
<1> QED BY <1>3, <1>4, <1>5

\* When a traversal begins, everything is ahead of it.
LEMMA AheadBegin ==
  ASSUME NEW m, Forest(m), NEW n \in Nodes, m.father[n] = NULL, NEW s, s = Down(m, n)
  PROVE  Ahead(m, s, Nodes)
<1>1. IsDown(m, n, s)
  BY DownIsDown
<1>2. Trail(m, s) /\ Len(s) \in Nat /\ Len(s) > 0 /\ s[1].now = n
  BY WayOfDown
<1>3. Placed(s) \subseteq Nodes
  BY <1>2, WayNodes DEF Placed
<1>4. ASSUME NEW x \in Nodes, m.sons[x].now # NULL PROVE m.sons[x].now \in Nodes
  BY <1>4, ForestSons
<1>5. ASSUME NEW x \in Nodes, m.father[x] # NULL, x # m.sons[m.father[x]].last
      PROVE  m.next[x] \in Nodes \ Placed(s)
  <2>1. m.next[x] \in Nodes /\ m.father[m.next[x]] = m.father[x]
    BY ForestNext
  <2>2. m.father[x] \in Nodes
    BY <1>5, ForestFather
  <2>3. ASSUME NEW i \in 1 .. Len(s), m.next[x] = s[i].now PROVE FALSE
    <3>1. CASE i = 1
      BY <1>2, <1>5, <2>1, <2>3, <3>1
    <3>2. CASE i # 1
      <4>1. i \in 2 .. Len(s)
        BY <1>2, <3>2
      <4>2. m.next[x] = m.sons[s[i - 1].now].now /\ s[i - 1].now = m.father[m.next[x]]
        BY <1>1, <2>3, <4>1 DEF IsDown
      <4>3. m.next[x] = m.sons[m.father[x]].now
        BY <2>1, <4>2
      <4> QED BY <1>5, <2>2, <4>3, ForestLast
    <3> QED BY <3>1, <3>2
  <2> QED BY <2>1, <2>3 DEF Placed
<1> QED BY <1>3, <1>4, <1>5 DEF Ahead

\* The traversal goes up from the last node of a list.
LEMMA AheadUp ==
  ASSUME NEW m, Forest(m), NEW s, Trail(m, s), Len(s) > 1, NEW A, Ahead(m, s, A),
         NEW n, n = s[Len(s)].now
  PROVE  Ahead(m, Front(s), A \ {n})
<1> DEFINE L == Len(s)
           t == Front(s)
<1>1. L \in Nat /\ L > 1 /\ s # <<>> /\ \A i \in 1 .. L : s[i].now \in Nodes
  BY WayNodes
<1>2. Len(t) = L - 1 /\ \A i \in 1 .. L - 1 : t[i] = s[i]
  BY <1>1, WayFront
<1>3. \A i, j \in 1 .. L : s[i].now = s[j].now => i = j
  BY TrailDistinct
<1>4. L \in 1 .. L /\ 1 \in 1 .. L - 1 /\ \A i \in 1 .. L - 1 : i \in 1 .. L /\ i # L
  BY <1>1
<1>5. \A i \in 1 .. L : i \in 1 .. L - 1 \/ i = L
  BY <1>1
<1>6. m.father[n] = s[L - 1].now /\ L - 1 \in 1 .. L - 1 /\ n \in Nodes
  BY <1>1, <1>4 DEF Trail
<1> HIDE DEF t, L
<1>7. Placed(t) = Placed(s) \ {n} /\ n \in Placed(s)
  <2>1. \A i \in 1 .. L - 1 : s[i].now # n
    BY <1>3, <1>4 DEF L
  <2>2. \A x : x \in Placed(t) <=> \E i \in 1 .. L - 1 : x = s[i].now
    BY <1>2 DEF Placed
  <2>3. \A x : x \in Placed(s) <=> \E i \in 1 .. L : x = s[i].now
    BY DEF Placed, L
  <2>4. n = s[L].now
    BY DEF L
  <2>5. \A x : x \in Placed(t) <=> x \in Placed(s) /\ x # n
    BY <1>4, <1>5, <2>1, <2>2, <2>3, <2>4
  <2> QED BY <1>4, <2>3, <2>4, <2>5
<1>8. A \subseteq Nodes /\ Placed(s) \subseteq A
  BY DEF Ahead
<1>9. \A x \in A \ Placed(s) : m.sons[x].now # NULL => m.sons[x].now \in A
  BY DEF Ahead
<1>10. \A x \in A : x # s[1].now /\ m.father[x] # NULL /\ x # m.sons[m.father[x]].last =>
          m.next[x] \in A \ Placed(s)
  BY DEF Ahead
<1>11. ASSUME NEW x \in (A \ {n}) \ Placed(t), m.sons[x].now # NULL
       PROVE  m.sons[x].now \in A \ {n}
  <2>1. x \in A \ Placed(s) /\ x \in Nodes
    BY <1>7, <1>8
  <2>2. m.father[m.sons[x].now] = x
    BY <1>11, <2>1, ForestSons
  <2>3. s[L - 1].now \in Placed(s)
    BY <1>4, <1>6 DEF Placed, L
  <2>4. m.sons[x].now # n
    BY <1>6, <2>1, <2>2, <2>3
  <2> QED BY <1>9, <1>11, <2>1, <2>4
<1>12. t[1] = s[1]
  BY <1>2, <1>4
<1>13. ASSUME NEW x \in A \ {n}, x # t[1].now, m.father[x] # NULL, x # m.sons[m.father[x]].last
       PROVE  m.next[x] \in (A \ {n}) \ Placed(t)
  <2>1. m.next[x] \in A \ Placed(s)
    BY <1>10, <1>12, <1>13
  <2> QED BY <1>7, <2>1
<1>14. Ahead(m, t, A \ {n})
  BY <1>7, <1>8, <1>11, <1>13 DEF Ahead
<1> QED BY <1>14 DEF t

\* It goes on to the next node, and down from it.
LEMMA AheadOn ==
  ASSUME NEW m, Forest(m), NEW s, Trail(m, s), Len(s) > 1, NEW A, Ahead(m, s, A),
         NEW n, n = s[Len(s)].now, n # m.sons[m.father[n]].last,
         NEW d, d = Down(m, s[Len(s)].fwd)
  PROVE  Ahead(m, Front(s) \o d, A \ {n})
<1> DEFINE L == Len(s)
           t == Front(s)
           r == t \o d
           x0 == s[L].fwd
<1>1. L \in Nat /\ L > 1 /\ s # <<>> /\ x0 \in Nodes /\ n \in Nodes /\ L \in 1 .. L /\ L - 1 \in 1 .. L /\ 1 \in 1 .. L - 1
  BY WayNodes
<1>2. Trail(m, t) /\ Len(t) = L - 1 /\ \A i \in 1 .. L - 1 : t[i] = s[i]
  BY <1>1, WayFront
<1>3. x0 = m.next[n] /\ m.father[n] = s[L - 1].now
  BY <1>1 DEF Trail
<1>4. IsDown(m, x0, d) /\ Trail(m, d) /\ d # <<>> /\ Len(d) \in Nat /\ Len(d) > 0 /\ d[1].now = x0
  BY <1>1, DownIsDown, WayOfDown
<1>5. m.father[x0] = m.father[n] /\ s[L - 1].now \in Nodes
  BY <1>1, <1>3, ForestNext, WayNodes
<1>6. t # <<>> /\ Len(t) \in Nat /\ t[Len(t)] = s[L - 1]
  <2>1. L - 1 \in 1 .. L - 1 /\ L - 1 \in Nat /\ L - 1 # 0
    BY <1>1
  <2> QED BY <1>2, <2>1
<1> HIDE DEF t, L, x0
<1>7. /\ Trail(m, r) /\ Len(r) = Len(t) + Len(d)
      /\ \A i \in 1 .. Len(t) : r[i] = t[i]
      /\ \A i \in 1 .. Len(d) : r[Len(t) + i] = d[i]
  <2>1. m.father[d[1].now] = t[Len(t)].now
    BY <1>3, <1>4, <1>5, <1>6
  <2>2. /\ Trail(m, t \o d) /\ t \o d # <<>> /\ (t \o d)[1] = t[1]
        /\ Len(t \o d) = Len(t) + Len(d) /\ Len(t) \in Nat /\ Len(d) \in Nat
        /\ \A i \in 1 .. Len(t) : (t \o d)[i] = t[i]
        /\ \A i \in 1 .. Len(d) : (t \o d)[Len(t) + i] = d[i]
    <3>1. Trail(m, t) /\ t # <<>> /\ Trail(m, d) /\ d # <<>>
      BY <1>2, <1>4, <1>6
    <3> QED BY ONLY <2>1, <3>1, WayBelow
  <2> QED BY <2>2
<1> HIDE DEF r
<1>8. \A i \in 1 .. Len(t), j \in 1 .. Len(d) : t[i].now # d[j].now
  <2> SUFFICES ASSUME NEW i \in 1 .. Len(t), NEW j \in 1 .. Len(d), t[i].now = d[j].now PROVE FALSE
    OBVIOUS
  <2>1. i \in 1 .. Len(r) /\ Len(t) + j \in 1 .. Len(r) /\ i # Len(t) + j
    BY <1>4, <1>6, <1>7
  <2>2. r[i].now = r[Len(t) + j].now
    BY <1>7
  <2> QED BY <1>7, <2>1, <2>2, TrailDistinct
<1>9. Placed(r) = Placed(t) \cup Placed(d)
  <2>1. \A i \in 1 .. Len(r) : i \in 1 .. Len(t) \/ (i - Len(t) \in 1 .. Len(d) /\ Len(t) + (i - Len(t)) = i)
    BY <1>4, <1>6, <1>7
  <2>2. \A i \in 1 .. Len(t) : i \in 1 .. Len(r)
    BY <1>4, <1>6, <1>7
  <2>3. \A i \in 1 .. Len(d) : Len(t) + i \in 1 .. Len(r)
    BY <1>4, <1>6, <1>7
  <2>4. ASSUME NEW x \in Placed(r) PROVE x \in Placed(t) \cup Placed(d)
    <3>1. PICK i \in 1 .. Len(r) : x = r[i].now
      BY DEF Placed
    <3>2. CASE i \in 1 .. Len(t)
      BY <1>7, <3>1, <3>2 DEF Placed
    <3>3. CASE i - Len(t) \in 1 .. Len(d) /\ Len(t) + (i - Len(t)) = i
      <4>1. r[i] = d[i - Len(t)]
        BY <1>7, <3>3
      <4> QED BY <3>1, <3>3, <4>1 DEF Placed
    <3> QED BY <2>1, <3>2, <3>3
  <2>5. ASSUME NEW x \in Placed(t) \cup Placed(d) PROVE x \in Placed(r)
    <3>1. CASE x \in Placed(t)
      BY <1>7, <2>2, <3>1 DEF Placed
    <3>2. CASE x \in Placed(d)
      <4>1. PICK i \in 1 .. Len(d) : x = d[i].now
        BY <3>2 DEF Placed
      <4>2. Len(t) + i \in 1 .. Len(r) /\ r[Len(t) + i] = d[i]
        BY <1>7, <2>3
      <4> QED BY <4>1, <4>2 DEF Placed
    <3> QED BY <2>5, <3>1, <3>2
  <2> QED BY <2>4, <2>5
<1>10. Ahead(m, t, A \ {n})
  BY AheadUp DEF t
<1>11. A \subseteq Nodes /\ Placed(s) \subseteq A
  BY DEF Ahead
<1>12. n # s[1].now
  <2>1. 1 \in 1 .. L /\ L # 1
    BY <1>1
  <2>2. n = s[L].now
    BY DEF L
  <2> QED BY <1>1, <2>1, <2>2, TrailDistinct DEF L
<1>13. n \in A /\ x0 \in A \ Placed(s)
  <2>1. n \in A
    BY <1>1, <1>11 DEF Placed, L
  <2>2. m.father[n] # NULL
    BY <1>3, <1>5, NodeNotNull
  <2>3. m.next[n] \in A \ Placed(s)
    BY <1>12, <2>1, <2>2 DEF Ahead
  <2> QED BY <1>3, <2>1, <2>3
<1>14. Placed(t) \subseteq Placed(s)
  <2>1. \A i \in 1 .. L - 1 : i \in 1 .. L
    BY <1>1
  <2> QED BY <1>2, <2>1 DEF Placed, L
<1>15. \A j \in 1 .. Len(d) : d[j].now \in A \ {n}
  <2> DEFINE S == {j \in Nat : j + 1 \in 1 .. Len(d) => d[j + 1].now \in A \ {n}}
  <2>1. 0 \in S
    <3>1. n \in Placed(s)
      BY <1>1 DEF Placed, L
    <3> QED BY <1>4, <1>13, <3>1
  <2>2. ASSUME NEW k \in Nat, k \in S PROVE k + 1 \in S
    <3> SUFFICES ASSUME (k + 1) + 1 \in 1 .. Len(d) PROVE d[(k + 1) + 1].now \in A \ {n}
      OBVIOUS
    <3>1. k + 1 \in 1 .. Len(d) /\ (k + 1) + 1 \in 2 .. Len(d) /\ ((k + 1) + 1) - 1 = k + 1
      BY <1>4
    <3>2. d[k + 1].now \in A \ {n}
      BY <2>2, <3>1
    <3> DEFINE y == d[k + 1].now
               z == d[(k + 1) + 1].now
    <3>3. z = m.sons[y].now /\ y = m.father[z]
      BY <1>4, <3>1 DEF IsDown
    <3>4. y \in Nodes /\ z \in Nodes
      BY <1>4, <3>1, WayNodes
    <3>5. y \notin Placed(t)
      BY <1>8, <3>1 DEF Placed
    <3> HIDE DEF y, z
    <3>6. z \in A \ {n}
      <4>1. y \in (A \ {n}) \ Placed(t) /\ m.sons[y].now # NULL
        BY <3>2, <3>3, <3>4, <3>5, NodeNotNull DEF y
      <4>2. \A x \in (A \ {n}) \ Placed(t) : m.sons[x].now # NULL => m.sons[x].now \in A \ {n}
        BY <1>10 DEF Ahead
      <4> QED BY <3>3, <4>1, <4>2
    <3> QED BY <3>6 DEF z
  <2> HIDE DEF S
  <2>3. \A j \in Nat : j \in S
    BY <2>1, <2>2, SetInduction
  <2>4. \A j \in 1 .. Len(d) : j - 1 \in Nat /\ (j - 1) + 1 = j
    BY <1>4
  <2> QED
    <3> TAKE j \in 1 .. Len(d)
    <3>1. j - 1 \in S /\ (j - 1) + 1 = j
      BY <2>3, <2>4
    <3> QED BY <3>1 DEF S
<1>16. r[1] = s[1]
  BY <1>1, <1>2, <1>6, <1>7
<1>17. ASSUME NEW x \in A \ {n}, x # r[1].now, m.father[x] # NULL, x # m.sons[m.father[x]].last
       PROVE  m.next[x] \in (A \ {n}) \ Placed(r)
  <2>1. m.next[x] \in (A \ {n}) \ Placed(t)
    <3>1. x # t[1].now
      BY <1>1, <1>2, <1>16, <1>17
    <3> QED BY <1>10, <1>17, <3>1 DEF Ahead
  <2>2. ASSUME NEW j \in 1 .. Len(d), m.next[x] = d[j].now PROVE FALSE
    <3>0. x \in Nodes
      BY <1>11
    <3>1. CASE j = 1
      <4>1. m.next[x] = m.next[n]
        BY <1>3, <1>4, <2>2, <3>1
      <4>2. m.prev[m.next[x]] = x /\ m.prev[m.next[n]] = n
        BY <1>1, <3>0, ForestRing
      <4> QED BY <4>1, <4>2
    <3>2. CASE j # 1
      <4>1. j \in 2 .. Len(d)
        BY <1>4, <3>2
      <4>2. m.next[x] = m.sons[d[j - 1].now].now /\ d[j - 1].now = m.father[m.next[x]]
        BY <1>4, <2>2, <4>1 DEF IsDown
      <4>3. m.father[m.next[x]] = m.father[x]
        BY <3>0, ForestNext
      <4>4. m.next[x] = m.sons[m.father[x]].now /\ m.father[x] \in Nodes
        BY <1>17, <3>0, <4>2, <4>3, ForestFather
      <4> QED BY <1>17, <3>0, <4>4, ForestLast
    <3> QED BY <3>1, <3>2
  <2> QED BY <1>9, <2>1, <2>2 DEF Placed
<1>18. Placed(r) \subseteq A \ {n}
  <2>1. Placed(t) \subseteq A \ {n}
    BY <1>10 DEF Ahead
  <2>2. Placed(d) \subseteq A \ {n}
    BY <1>15 DEF Placed
  <2> QED BY <1>9, <2>1, <2>2
<1>19. \A x \in (A \ {n}) \ Placed(r) : m.sons[x].now # NULL => m.sons[x].now \in A \ {n}
  BY <1>9, <1>10 DEF Ahead
<1>20. Ahead(m, r, A \ {n})
  BY <1>11, <1>17, <1>18, <1>19 DEF Ahead
<1> QED BY <1>20 DEF r, t

---------------------------------------------------------------------------
(* The sons in the order of the list *)

\* The recursion of SonSeq().
Chain(m, f, k, q) ==
  q = [i \in 1 .. k |-> IF i = 1 THEN m.sons[f].now ELSE m.next[q[i - 1]]]

\* The list of the sons is the only sequence that SonSeq() can be.
LEMMA ChainOfList ==
  ASSUME NEW m, NEW f \in Nodes, NEW s, IsList(m, f, s)
  PROVE  /\ Chain(m, f, Len(s), s)
         /\ \A q : Chain(m, f, Len(s), q) => q = s
<1> DEFINE L == Len(s)
<1>1. L \in Nat /\ s = [i \in 1 .. L |-> s[i]]
  BY DEF IsList
<1>2. L > 0 => m.sons[f].now = s[1]
  BY ListHead
<1>3. \A i \in 1 .. L : m.next[s[i]] = IF i = L THEN s[1] ELSE s[i + 1]
  BY DEF IsList
<1> HIDE DEF L
<1>4. \A i \in 1 .. L : i # 1 => i - 1 \in 1 .. L /\ i - 1 # L /\ (i - 1) + 1 = i /\ L > 0
  BY <1>1
<1>5. \A i \in 1 .. L : i = 1 => L > 0
  BY <1>1
<1>6. \A i \in 1 .. L : s[i] = IF i = 1 THEN m.sons[f].now ELSE m.next[s[i - 1]]
  <2> TAKE i \in 1 .. L
  <2>1. CASE i = 1
    BY <1>2, <1>5, <2>1
  <2>2. CASE i # 1
    <3>1. m.next[s[i - 1]] = s[(i - 1) + 1]
      BY <1>3, <1>4, <2>2
    <3> QED BY <1>4, <2>2, <3>1
  <2> QED BY <2>1, <2>2
<1>7. Chain(m, f, L, s)
  BY <1>1, <1>6 DEF Chain
<1>8. ASSUME NEW q, Chain(m, f, L, q) PROVE q = s
  <2>1. q = [i \in 1 .. L |-> q[i]] /\ \A i \in 1 .. L : q[i] = IF i = 1 THEN m.sons[f].now ELSE m.next[q[i - 1]]
    BY <1>8 DEF Chain
  <2> DEFINE S == {k \in Nat : k + 1 \in 1 .. L => q[k + 1] = s[k + 1]}
  <2>2. 0 \in S
    BY <1>6, <2>1
  <2>3. ASSUME NEW k \in Nat, k \in S PROVE k + 1 \in S
    <3> SUFFICES ASSUME (k + 1) + 1 \in 1 .. L PROVE q[(k + 1) + 1] = s[(k + 1) + 1]
      OBVIOUS
    <3> DEFINE i == (k + 1) + 1
    <3>1. i \in 1 .. L /\ i # 1 /\ i - 1 = k + 1 /\ k + 1 \in 1 .. L
      BY <1>1
    <3>2. q[k + 1] = s[k + 1]
      BY <2>3, <3>1
    <3> HIDE DEF i
    <3>3. q[i] = s[i]
      BY <1>6, <2>1, <3>1, <3>2
    <3> QED BY <3>3 DEF i
  <2> HIDE DEF S
  <2>4. \A k \in Nat : k \in S
    BY <2>2, <2>3, SetInduction
  <2>5. \A i \in 1 .. L : q[i] = s[i]
    <3> TAKE i \in 1 .. L
    <3>1. i - 1 \in Nat /\ (i - 1) + 1 = i
      BY <1>1
    <3>2. i - 1 \in S
      BY <2>4, <3>1
    <3> QED BY <3>1, <3>2 DEF S
  <2> QED BY <1>1, <2>1, <2>5
<1> QED BY <1>7, <1>8 DEF L

\* The nodes are finitely many.
LEMMA NodesFinite ==
  /\ IsFiniteSet(Nodes) /\ Cardinality(Nodes) = MaxNodes
  /\ MaxNodes \in Nat \ {0}
<1>1. MaxNodes \in Nat \ {0}
  BY TexTreeAssumption
<1>2. MaxNodes \in Int /\ 1 \in Int /\ ~(1 > MaxNodes) /\ MaxNodes - 1 + 1 = MaxNodes
  BY <1>1
<1>3. IsFiniteSet(1 .. MaxNodes) /\ Cardinality(1 .. MaxNodes) = MaxNodes
  BY <1>2, FS_Interval
<1> QED BY <1>1, <1>3 DEF Nodes

\* A set of nodes has at most as many as there are.
LEMMA SubsetOfNodes ==
  ASSUME NEW X \in SUBSET Nodes
  PROVE  IsFiniteSet(X) /\ Cardinality(X) \in 0 .. MaxNodes
<1>1. IsFiniteSet(X) /\ Cardinality(X) <= MaxNodes
  BY NodesFinite, FS_Subset
<1>2. Cardinality(X) \in Nat
  BY <1>1, FS_CardinalityType
<1> QED BY <1>1, <1>2, NodesFinite

\* SonSeq() is the list of the sons.
LEMMA SonList ==
  ASSUME Alive(links, mem), NEW f \in Nodes, NEW s, IsList(links, f, s)
  PROVE  /\ SonSeq(f) = s /\ Cardinality(Sons(f)) = Len(s)
         /\ Len(s) \in 0 .. MaxNodes /\ DOMAIN s = 1 .. Len(s)
         /\ \A n : n \in Sons(f) <=> \E i \in 1 .. Len(s) : s[i] = n
<1>1. f # NULL
  BY NodeNotNull
<1>2. \A n \in Nodes : links.father[n] = f => mem[n] = "live"
  BY <1>1, AliveFather
<1>3. Len(s) \in Nat /\ s \in [1 .. Len(s) -> Nodes] /\ DOMAIN s = 1 .. Len(s)
  BY DEF IsList
<1>4. \A n : n \in Sons(f) <=> \E i \in 1 .. Len(s) : s[i] = n
  <2>1. \A n : n \in Sons(f) <=> n \in Nodes /\ links.father[n] = f
    BY <1>2 DEF Sons, Live
  <2>2. \A n \in Nodes : links.father[n] = f <=> \E i \in 1 .. Len(s) : s[i] = n
    BY DEF IsList
  <2>3. \A i \in 1 .. Len(s) : s[i] \in Nodes
    BY <1>3
  <2> QED BY <2>1, <2>2, <2>3
<1>5. \A i, j \in 1 .. Len(s) : s[i] = s[j] => i = j
  BY DEF IsList
<1>6. ExistsBijection(1 .. Len(s), Sons(f))
  <2>1. s \in [1 .. Len(s) -> Sons(f)]
    BY <1>3, <1>4
  <2>2. s \in Bijection(1 .. Len(s), Sons(f))
    <3>1. s \in Injection(1 .. Len(s), Sons(f))
      BY <1>5, <2>1 DEF Injection, IsInjective
    <3>2. s \in Surjection(1 .. Len(s), Sons(f))
      BY <1>4, <2>1 DEF Surjection
    <3> QED BY <3>1, <3>2 DEF Bijection
  <2> QED BY <2>2 DEF ExistsBijection
<1>7. Cardinality(Sons(f)) = Len(s)
  BY <1>3, <1>6, FS_CountingElements
<1>8. Sons(f) \in SUBSET Nodes
  BY DEF Sons, Live
<1>9. Len(s) \in 0 .. MaxNodes
  BY <1>7, <1>8, SubsetOfNodes
<1>10. SonSeq(f) = CHOOSE q : Chain(links, f, Cardinality(Sons(f)), q)
  BY DEF SonSeq, Chain
<1>11. SonSeq(f) = s
  BY <1>7, <1>10, ChainOfList
<1> QED BY <1>3, <1>4, <1>7, <1>9, <1>11

\* The lists are what the fathers say.
LEMMA AliveRing ==
  ASSUME Alive(links, mem), NEW f \in Nodes
  PROVE  Ring(f)
<1>1. Forest(links)
  BY DEF Alive
<1>2. PICK s : IsList(links, f, s)
  BY <1>1 DEF Forest
<1>3. /\ SonSeq(f) = s /\ DOMAIN s = 1 .. Len(s) /\ Len(s) \in Nat
      /\ \A n : n \in Sons(f) <=> \E i \in 1 .. Len(s) : s[i] = n
  BY <1>2, SonList
<1>4. ToSet(SonSeq(f)) = Sons(f)
  <2>1. ToSet(s) = {s[i] : i \in 1 .. Len(s)}
    BY <1>3 DEF ToSet
  <2> QED BY <1>3, <2>1
<1>5. ASSUME Sons(f) # {} PROVE links.sons[f].last = Last(SonSeq(f))
  <2>1. Len(s) > 0
    BY <1>3, <1>5
  <2>2. links.sons[f].last = s[Len(s)]
    BY <1>2, <2>1, ListHead
  <2> QED BY <1>3, <2>2 DEF Last
<1>6. \A n \in Sons(f) : links.next[links.prev[n]] = n /\ links.prev[links.next[n]] = n
  <2> TAKE n \in Sons(f)
  <2>1. n \in Nodes
    BY DEF Sons, Live
  <2> QED BY <1>1, <2>1, ForestRing
<1> QED BY <1>4, <1>5, <1>6 DEF Ring

---------------------------------------------------------------------------
(* The invariant implies the property *)

\* The nodes of the places are not freed.
LEMMA PlacesLive ==
  ASSUME IInv, NEW i \in 1 .. Len(places)
  PROVE  places[i].now \in Live /\ places[i].fwd \in Live
<1>1. Alive(links, mem) /\ Trail(links, places) /\ Forest(links)
  BY DEF IInv, Struct, Alive
<1>2. places \in Seq(Places) /\ Len(places) \in Nat /\ places # <<>> /\ places[i].now \in Nodes
      /\ places[i].fwd = links.next[places[i].now]
  BY <1>1, WayNodes DEF Trail
<1>3. ASSUME links.father[places[i].now] # NULL PROVE mem[places[i].now] = "live" /\ mem[places[i].fwd] = "live"
  <2>1. places[i].fwd \in Nodes /\ links.father[places[i].fwd] # NULL
    BY <1>1, <1>2, <1>3, ForestNext
  <2> QED BY <1>1, <1>2, <1>3, <2>1, AliveFather
<1>4. ASSUME i # 1 PROVE links.father[places[i].now] # NULL
  <2>1. i \in 2 .. Len(places) /\ i - 1 \in 1 .. Len(places)
    BY <1>2, <1>4
  <2>2. links.father[places[i].now] = places[i - 1].now
    BY <1>1, <2>1 DEF Trail
  <2>3. places[i - 1].now \in Nodes
    BY <1>1, <2>1, WayNodes
  <2> QED BY <2>2, <2>3, NodeNotNull
<1>5. ASSUME links.father[places[i].now] = NULL PROVE mem[places[i].now] = "live" /\ mem[places[i].fwd] = "live"
  <2>1. i = 1 /\ places[i].fwd = places[i].now
    BY <1>1, <1>2, <1>4, <1>5 DEF Forest
  <2>2. OwnedBy(stack, Pending, Releasing, links, mem) /\ Distinct(stack, todo)
    BY DEF IInv, Struct
  <2>3. pc \in Phases /\ pc \notin {"parse", "accepted", "updated", "done"}
    BY <1>2 DEF IInv, Control
  <2>4. CASE pc = "pass"
    <3>1. todo # <<>> /\ links.father[places[1].now] = todo[1].s
      BY <1>2, <2>4 DEF IInv, Control, Begins
    <3>2. todo[1].s \in Nodes
      BY <2>2, <3>1, DistinctTail
    <3> QED BY <1>5, <2>1, <3>1, <3>2, NodeNotNull
  <2>5. CASE pc = "drop"
    <3>1. todo # <<>> /\ places[1].now = todo[1].s /\ Pending = todo
      BY <1>2, <2>5 DEF IInv, Control, Begins, Pending
    <3>2. Holds(stack, todo, places[1].now)
      BY <2>1, <1>2, <2>2, <3>1, DistinctTail
    <3> QED BY <1>2, <2>1, <2>2, <3>1, <3>2 DEF OwnedBy
  <2>6. CASE pc = "release"
    <3>1. Releasing = places[1].now
      BY <1>2, <2>6 DEF Releasing
    <3> QED BY <1>2, <2>1, <2>2, <3>1 DEF OwnedBy
  <2>7. CASE pc \in Updates
    <3>1. places[1].now = stack[1] /\ Len(stack) = 1
      BY <1>2, <2>7 DEF IInv, Control, Begins
    <3>2. Holds(stack, Pending, places[1].now)
      BY <3>1 DEF Holds
    <3> QED BY <1>2, <2>1, <2>2, <3>2 DEF OwnedBy
  <2>8. CASE pc = "subpaths"
    BY <1>2, <2>1, <2>8 DEF IInv, Begins
  <2> QED BY <2>3, <2>4, <2>5, <2>6, <2>7, <2>8 DEF Phases, Updates
<1>6. places[i].fwd \in Nodes
  BY <1>1, WayNodes
<1> QED BY <1>2, <1>3, <1>5, <1>6 DEF Live

\* The inductive invariant implies the one that is checked.
LEMMA InvariantTypeOK ==
  ASSUME IInv
  PROVE  TexTypeOK
<1>1. Alive(links, mem) /\ Trail(links, places) /\ Distinct(stack, todo)
      /\ OwnedBy(stack, Pending, Releasing, links, mem) /\ Forest(links)
  BY DEF IInv, Struct, Alive
<1>2. pc \in Phases
  BY DEF IInv, Control
<1>3. node \in [Nodes -> [symbol_id : Symbols, token_id : Tokens,
                         n_fan : 0 .. MaxNodes, rank : 0 .. MaxNodes, node_id : 0 .. MaxNodes]]
  BY DEF IInv, Fields, NodeType
<1>4. \A n \in Live : links.father[n] \in Live \cup {NULL} /\ Ring(n)
  <2> TAKE n \in Live
  <2>1. n \in Nodes
    BY DEF Live
  <2>2. links.father[n] # NULL => links.father[n] \in Live
    BY <1>1, <2>1, AliveFather DEF Live
  <2>3. Ring(n)
    BY <1>1, <2>1, AliveRing
  <2> QED BY <2>2, <2>3
<1>5. \A i \in DOMAIN places : {places[i].now, places[i].fwd} \subseteq Live
  <2>1. DOMAIN places = 1 .. Len(places)
    BY <1>1 DEF Trail
  <2> QED BY <2>1, PlacesLive
<1>6. ASSUME todo = <<>> PROVE Roots = Owned
  <2>1. Pending = <<>> /\ pc # "drop"
    BY <1>6 DEF IInv, Control, Pending
  <2>2. stack \in Seq(Nodes) /\ ToSet(stack) = {stack[i] : i \in 1 .. Len(stack)}
    BY <1>1 DEF Distinct, ToSet
  <2>3. \A n : Holds(stack, <<>>, n) <=> n \in ToSet(stack)
    <3>1. 1 .. Len(<<>>) = {}
      OBVIOUS
    <3> QED BY <2>2, <3>1 DEF Holds
  <2>4. \A i \in 1 .. Len(stack) : stack[i] \in Nodes
    BY <2>2
  <2>5. \A n \in Nodes : n \in Roots <=> n \in ToSet(stack) \/ n = Releasing
    BY <1>1, <2>1, <2>3 DEF OwnedBy, Roots, Live
  <2>6. ToSet(stack) \subseteq Nodes /\ Roots \subseteq Nodes
    BY <2>2, <2>4 DEF Roots, Live
  <2>7. CASE pc = "release" /\ places # <<>>
    <3>1. Releasing = places[1].now /\ Owned = ToSet(stack) \cup {places[1].now}
      BY <2>7 DEF Releasing, Owned
    <3>2. 1 \in 1 .. Len(places)
      BY <1>1, <2>7 DEF Trail
    <3>3. places[1].now \in Nodes
      BY <1>1, <3>2, WayNodes
    <3> QED BY <2>5, <2>6, <3>1, <3>3
  <2>8. CASE ~(pc = "release" /\ places # <<>>)
    <3>1. Releasing = NULL /\ Owned = ToSet(stack)
      BY <2>8 DEF Releasing, Owned
    <3> QED BY <2>5, <2>6, <3>1, NodeNotNull
  <2> QED BY <2>7, <2>8
<1>7. ASSUME pc = "done" PROVE Live = {}
  <2>1. todo = <<>> /\ stack = <<>> /\ places = <<>>
    BY <1>7 DEF IInv, Control, Parsing
  <2>2. Owned = {}
    BY <2>1, <1>7 DEF Owned, ToSet
  <2>3. \A n \in Live : links.father[n] \in Live
    BY <1>4, <1>6, <2>1, <2>2 DEF Roots
  <2>4. Live \in SUBSET Nodes
    BY DEF Live
  <2> QED BY <1>1, <2>3, <2>4, ForestTop
<1> QED BY <1>2, <1>3, <1>4, <1>5, <1>6, <1>7 DEF TexTypeOK

---------------------------------------------------------------------------
(* The initial states *)

\* Nodes without links are a forest.
LEMMA ForestInit ==
  ASSUME NEW m, m = [prev |-> [n \in Nodes |-> n], next |-> [n \in Nodes |-> n],
                     father |-> [n \in Nodes |-> NULL], sons |-> [n \in Nodes |-> LIST_NULL]]
  PROVE  Forest(m)
<1>1. LIST_NULL \in Head0
  BY DEF LIST_NULL, Head0
<1>2. m \in Memory
  BY <1>1 DEF Memory
<1>3. \A n \in Nodes : /\ m.prev[n] = n /\ m.next[n] = n
                       /\ m.father[n] = NULL /\ m.sons[n] = LIST_NULL
  OBVIOUS
<1>4. ASSUME NEW f \in Nodes PROVE IsList(m, f, <<>>)
  <2>1. f \in Nodes /\ f # NULL
    BY NodeNotNull
  <2>2. <<>> \in Seq(Nodes) /\ Len(<<>>) = 0
    OBVIOUS
  <2> QED BY ONLY <1>3, <2>1, <2>2 DEF IsList
<1>5. Higher(m, 0, [n \in Nodes |-> 0])
  <2>1. \A n \in Nodes : m.father[n] = NULL
    BY ONLY <1>3
  <2> QED BY ONLY <2>1 DEF Higher
<1> QED BY <1>2, <1>3, <1>4, <1>5 DEF Forest

\* The parser begins with an empty stack and no nodes.
LEMMA InitInv ==
  ASSUME Init
  PROVE  IInv
<1>1. Forest(links)
  BY ForestInit DEF Init
<1>2. MaxNodes \in Nat \ {0}
  BY TexTreeAssumption
<1>3. \A n \in Nodes : mem[n] = "none" /\ links.father[n] = NULL /\ links.sons[n].now = NULL
  BY DEF Init, LIST_NULL
<1>4. Alive(links, mem)
  <2>1. mem \in [Nodes -> {"none", "live", "freed"}]
    BY DEF Init
  <2>2. 0 \in 0 .. MaxNodes /\ \A n \in Nodes : ~(n <= 0)
    BY <1>2 DEF Nodes
  <2> QED BY <1>1, <1>3, <2>1, <2>2 DEF Alive
<1>5. places = <<>> /\ stack = <<>> /\ todo = <<>> /\ pc = "parse" /\ at = 1 /\ formula \in Formulas
  BY DEF Init
<1>6. <<>> \in Seq(Places) /\ <<>> \in Seq(Nodes) /\ <<>> \in Seq(Calls) /\ Len(<<>>) = 0
  OBVIOUS
<1>7. Trail(links, places)
  BY <1>5, <1>6 DEF Trail
<1>8. Distinct(stack, todo)
  BY <1>5, <1>6 DEF Distinct
<1>9. OwnedBy(stack, Pending, Releasing, links, mem)
  <2>1. Pending = <<>> /\ Releasing = NULL
    BY <1>5 DEF Pending, Releasing
  <2>2. \A n \in Nodes : ~Holds(<<>>, <<>>, n)
    BY <1>6 DEF Holds
  <2> QED BY <1>3, <1>5, <2>1, <2>2, NodeNotNull DEF OwnedBy
<1>10. Struct
  BY <1>4, <1>5, <1>7, <1>8, <1>9 DEF Struct
<1>11. Control
  <2>1. formula \in Seq(Vars \cup Reductions)
    BY <1>5, TexTreeAssumption
  <2>2. at \in 1 .. Len(formula) + 1 /\ at - 1 = 0
    BY <1>5, <2>1
  <2>3. Values(formula, 0) = 0
    BY ValuesStep
  <2> QED BY <1>5, <1>6, <2>2, <2>3 DEF Control, Phases, Parsing, Updates
<1>12. Begins
  BY <1>5 DEF Begins, Updates
<1>13. Fields
  <2>1. node \in [Nodes -> {Fresh}]
    BY DEF Init
  <2>2. \A n \in Nodes : node[n] = Fresh
    BY <2>1
  <2>3. Fresh \in NodeType
    BY <1>2 DEF Fresh, NodeType, Symbols, Tokens
  <2>4. Fresh.n_fan = 0 /\ Fresh.node_id = 0
    BY DEF Fresh
  <2>5. \A n \in Nodes : node[n].n_fan = 0 /\ node[n].node_id = 0
    BY <2>2, <2>4
  <2>6. {n \in Nodes : node[n].node_id # 0} = {}
    BY <2>5
  <2>7. cur_id = Cardinality({n \in Nodes : node[n].node_id # 0})
    BY <2>6, FS_EmptySet DEF Init
  <2> HIDE DEF Fresh
  <2> QED BY <1>5, <2>1, <2>3, <2>5, <2>7 DEF Fields
<1> QED BY <1>10, <1>11, <1>12, <1>13 DEF IInv

---------------------------------------------------------------------------
(* The reductions *)

\* While the parser runs, nothing is known of the other fields.
Unset(nd) == nd \in [Nodes -> NodeType] /\ \A n \in Nodes : nd[n].n_fan = 0 /\ nd[n].node_id = 0

\* One reduction, which takes values, allocates k nodes and leaves calls to make.
LEMMA ReduceInv ==
  ASSUME IInv, NEW letters, NEW push, NEW calls, Reduce(letters, push, calls),
         NEW k \in Nat, New(k) \in Nodes \/ k = 0,
         mem' \in [Nodes -> {"none", "live", "freed"}],
         \A n \in Nodes : mem'[n] = IF n \in New(0) + 1 .. New(0) + k THEN "live" ELSE mem[n],
         Unset(node'),
         NEW W, Taken(W, New(0) + 1 .. New(0) + k, stack, Pops(formula[at])), HandedOn(W, push, calls)
  PROVE  IInv'
<1> DEFINE N == Allocated(mem)
           X == N + 1 .. N + k
           q == Pops(formula[at])
<1>1. /\ Alive(links, mem) /\ Distinct(stack, todo) /\ OwnedBy(stack, Pending, Releasing, links, mem)
      /\ pc = "parse" /\ todo = <<>> /\ at <= Len(formula) /\ places = <<>>
      /\ formula \in Formulas /\ at \in 1 .. Len(formula) + 1 /\ Len(stack) = Values(formula, at - 1)
  BY DEF IInv, Struct, Control, Parsing, Reduce
<1>2. /\ at' = at + 1 /\ stack' = Append(SubSeq(stack, 1, Len(stack) - q), push) /\ todo' = calls
      /\ UNCHANGED <<formula, pc, links, places, cur_id>>
  BY DEF Reduce, words
<1>3. Pending = <<>> /\ Releasing = NULL /\ Pending' = calls /\ Releasing' = NULL
  BY <1>1, <1>2 DEF Pending, Releasing
<1>4. N \in Nat /\ New(0) = N /\ New(k) = N + k
  <2>1. N \in 0 .. MaxNodes
    BY SubsetOfNodes DEF Allocated
  <2>2. N + 0 = N
    BY <2>1, NodesFinite
  <2> QED BY <2>1, <2>2, NodesFinite DEF New, Allocated
<1>5. /\ Alive(links, mem') /\ X \subseteq Nodes
      /\ \A n \in X : mem[n] = "none" /\ links.father[n] = NULL
      /\ \A c \in Nodes : mem'[c] = "live" <=> mem[c] = "live" \/ c \in X
  <2> HIDE DEF N
  <2>1. \A n \in Nodes : mem'[n] = IF n \in N + 1 .. N + k THEN "live" ELSE mem[n]
    BY <1>4
  <2>2. N = Allocated(mem) /\ (N + k \in Nodes \/ k = 0)
    BY <1>4 DEF N
  <2>3. Alive(links, mem)
    BY <1>1
  <2> QED BY <2>1, <2>2, <2>3, AliveNew
<1> HIDE DEF N
<1>6. formula \in Seq(Vars \cup Reductions) /\ at \in 1 .. Len(formula) /\ at \in Nat \ {0} /\ DOMAIN formula = 1 .. Len(formula)
  <2>1. formula \in Seq(Vars \cup Reductions)
    BY <1>1, TexTreeAssumption
  <2> QED BY <1>1, <2>1
<1>7. /\ q \in 0 .. 4 /\ q <= Len(stack)
      /\ Values(formula, at) = Values(formula, at - 1) - q + 1
  <2>1. q <= Values(formula, at - 1)
    BY <1>1, <1>6, GrammarAssumption
  <2> QED BY <1>1, <1>6, <2>1, ValuesStep
<1> HIDE DEF q
<1>8. \A n \in Nodes : Holds(stack, <<>>, n) <=> mem[n] = "live" /\ links.father[n] = NULL
  BY <1>1, <1>3, NodeNotNull DEF OwnedBy
<1>9. stack \in Seq(Nodes) /\ \A i \in 1 .. Len(stack) : stack[i] \in Nodes /\ stack[i] \notin X
  <2>1. stack \in Seq(Nodes) /\ \A i \in 1 .. Len(stack) : stack[i] \in Nodes /\ Holds(stack, <<>>, stack[i])
    BY <1>1 DEF Distinct, Holds
  <2> QED BY <1>5, <1>8, <2>1
<1>10. /\ Distinct(stack', calls) /\ Len(stack') = Len(stack) - q + 1
       /\ \A n \in Nodes : Holds(stack', calls, n) <=> Holds(stack, <<>>, n) \/ n \in X
  <2>1. Taken(W, X, stack, q)
    BY <1>4 DEF q
  <2>2. Distinct(stack, <<>>) /\ q \in Nat
    BY <1>1, <1>7
  <2>3. X \in SUBSET Nodes /\ \A i \in 1 .. Len(stack) : stack[i] \notin X
    BY <1>5, <1>9
  <2>4. stack' = Append(SubSeq(stack, 1, Len(stack) - q), push)
    BY <1>2 DEF q
  <2>5. q <= Len(stack) /\ HandedOn(W, push, calls)
    BY <1>7
  <2> HIDE DEF X
  <2>6. Distinct(stack', calls)
    BY ONLY <2>1, <2>2, <2>3, <2>4, <2>5, ReduceHolds
  <2>7. Len(stack') = Len(stack) - q + 1
    <3>1. Len(stack) - q \in 0 .. Len(stack) /\ stack \in Seq(Nodes)
      BY <1>7, <1>9
    <3>2. SubSeq(stack, 1, Len(stack) - q) \in Seq(Nodes) /\ Len(SubSeq(stack, 1, Len(stack) - q)) = Len(stack) - q
      BY ONLY <3>1
    <3> QED BY <2>4, <3>2
  <2>8. Gains(stack', calls, stack, X)
    BY ONLY <2>1, <2>2, <2>3, <2>4, <2>5, ReduceHolds
  <2> QED BY <2>6, <2>7, <2>8 DEF Gains
<1>11. Struct'
  <2>1. OwnedBy(stack', calls, NULL, links, mem')
    BY <1>5, <1>8, <1>10, NodeNotNull DEF OwnedBy
  <2>2. Trail(links, places)
    BY DEF IInv, Struct
  <2> QED BY <1>1, <1>2, <1>3, <1>5, <1>10, <2>1, <2>2 DEF Struct
<1>12. Control'
  <2>1. at' \in 1 .. Len(formula) + 1 /\ at' - 1 = at
    BY <1>2, <1>6
  <2>2. Len(stack') = Values(formula, at' - 1)
    BY <1>1, <1>7, <1>10, <2>1
  <2> QED BY <1>1, <1>2, <2>1, <2>2 DEF Control, Phases, Parsing, Updates
<1>13. Begins'
  BY <1>1, <1>2 DEF Begins, Updates
<1>14. Fields'
  <2>1. \A n \in Nodes : node[n].node_id = 0 /\ node'[n].node_id = 0 /\ node'[n].n_fan = 0
    BY <1>1 DEF IInv, Fields, Parsing, Unset
  <2>2. {n \in Nodes : node[n].node_id # 0} = {n \in Nodes : node'[n].node_id # 0}
    BY <2>1
  <2>3. cur_id = Cardinality({n \in Nodes : node[n].node_id # 0})
    BY DEF IInv, Fields
  <2>4. cur_id' = Cardinality({n \in Nodes : node'[n].node_id # 0})
    BY <1>2, <2>2, <2>3
  <2>5. node' \in [Nodes -> NodeType]
    BY DEF Unset
  <2> QED BY <1>1, <1>2, <2>1, <2>4, <2>5 DEF Fields, Parsing
<1> QED BY <1>11, <1>12, <1>13, <1>14 DEF IInv

\* The fields of a node that was allocated.
LEMMA FreshType ==
  ASSUME NEW s \in Symbols, NEW t \in Tokens,
         NEW r, r = [Fresh EXCEPT !.symbol_id = s, !.token_id = t]
  PROVE  r \in NodeType /\ r.n_fan = 0 /\ r.node_id = 0
<1>1. 0 \in 0 .. MaxNodes
  BY NodesFinite
<1> QED BY <1>1 DEF Fresh, NodeType

\* No field is set before an update.
LEMMA ParseUnset ==
  ASSUME IInv, pc \in Parsing
  PROVE  Unset(node)
BY DEF IInv, Fields, Unset

\* The nodes that are allocated have their symbols and tokens and nothing else.
LEMMA AllocNodes ==
  ASSUME IInv, pc = "parse", NEW kinds, NEW k \in Nat, Len(kinds) = k, Alloc(kinds),
         \A i \in 1 .. k : kinds[i][1] \in Symbols /\ kinds[i][2] \in Tokens
  PROVE  /\ New(k) \in Nodes
         /\ mem' \in [Nodes -> {"none", "live", "freed"}]
         /\ \A n \in Nodes : mem'[n] = IF n \in New(0) + 1 .. New(0) + k THEN "live" ELSE mem[n]
         /\ Unset(node')
<1> DEFINE N == New(0)
<1>1. N \in Nat /\ New(1) = N + 1 /\ New(k) = N + k
  <2>1. Cardinality({n \in Nodes : mem[n] # "none"}) \in 0 .. MaxNodes
    BY SubsetOfNodes
  <2> QED BY <2>1, NodesFinite DEF New
<1> HIDE DEF N
<1>2. Unset(node) /\ mem \in [Nodes -> {"none", "live", "freed"}]
  BY ParseUnset DEF Parsing, IInv, Struct, Alive
<1>3. /\ New(k) \in Nodes
      /\ mem' = [n \in Nodes |-> IF n \in N + 1 .. N + k THEN "live" ELSE mem[n]]
      /\ node' = [n \in Nodes |->
           IF n \in N + 1 .. N + k
           THEN [Fresh EXCEPT !.symbol_id = kinds[n - N][1], !.token_id = kinds[n - N][2]]
           ELSE node[n]]
  BY <1>1, Zenon DEF Alloc, N
<1>4. mem' \in [Nodes -> {"none", "live", "freed"}]
  BY <1>2, <1>3
<1>5. \A n \in Nodes : mem'[n] = IF n \in N + 1 .. N + k THEN "live" ELSE mem[n]
  BY <1>3
<1>6. ASSUME NEW n \in Nodes PROVE node'[n] \in NodeType /\ node'[n].n_fan = 0 /\ node'[n].node_id = 0
  <2>1. CASE n \in N + 1 .. N + k
    <3>1. n - N \in 1 .. k
      BY <1>1, <2>1
    <3>2. node'[n] = [Fresh EXCEPT !.symbol_id = kinds[n - N][1], !.token_id = kinds[n - N][2]]
      BY <1>3, <2>1
    <3>3. node'[n] \in NodeType /\ node'[n].n_fan = 0 /\ node'[n].node_id = 0
      <4>1. kinds[n - N][1] \in Symbols /\ kinds[n - N][2] \in Tokens
        BY <3>1
      <4>2. \A s \in Symbols, t \in Tokens : LET r == [Fresh EXCEPT !.symbol_id = s, !.token_id = t]
                                            IN  r \in NodeType /\ r.n_fan = 0 /\ r.node_id = 0
        BY FreshType
      <4> QED BY <3>2, <4>1, <4>2, ZenonT(60)
    <3> QED BY <3>3
  <2>2. CASE n \notin N + 1 .. N + k
    BY <1>2, <1>3, <2>2 DEF Unset
  <2> QED BY <2>1, <2>2
<1>7. Unset(node')
  <2>1. node' = [n \in Nodes |-> node'[n]]
    BY <1>3
  <2> QED BY <1>6, <2>1 DEF Unset
<1> QED BY <1>3, <1>4, <1>5, <1>7 DEF N

\* A reduction that allocates nothing.
LEMMA AllocNone ==
  ASSUME IInv, pc = "parse", UNCHANGED <<mem, node>>
  PROVE  /\ mem' \in [Nodes -> {"none", "live", "freed"}]
         /\ \A n \in Nodes : mem'[n] = IF n \in New(0) + 1 .. New(0) + 0 THEN "live" ELSE mem[n]
         /\ Unset(node')
<1>1. New(0) \in Nat
  <2>1. Cardinality({n \in Nodes : mem[n] # "none"}) \in 0 .. MaxNodes
    BY SubsetOfNodes
  <2> QED BY <2>1, NodesFinite DEF New
<1>2. mem' = mem /\ mem \in [Nodes -> {"none", "live", "freed"}] /\ Unset(node')
  BY ParseUnset DEF Parsing, IInv, Struct, Alive
<1>3. \A n \in Nodes : n \notin New(0) + 1 .. New(0) + 0
  BY <1>1
<1> QED BY <1>2, <1>3

\* What a reduction finds.
LEMMA ReduceFinds ==
  ASSUME IInv, NEW letters, NEW push, NEW calls, Reduce(letters, push, calls)
  PROVE  /\ pc = "parse" /\ formula[at] \in letters /\ New(0) \in Nat
         /\ stack \in Seq(Nodes) /\ Len(stack) \in Nat /\ Pops(formula[at]) <= Len(stack)
         /\ \A i, j \in 1 .. Len(stack) : stack[i] = stack[j] => i = j
         /\ \A i \in 1 .. Len(stack) : stack[i] \in Nodes /\ stack[i] <= New(0)
         /\ New(1) = New(0) + 1 /\ New(2) = New(0) + 2
<1>1. /\ pc = "parse" /\ todo = <<>> /\ at <= Len(formula) /\ formula[at] \in letters
      /\ Distinct(stack, todo) /\ OwnedBy(stack, Pending, Releasing, links, mem) /\ Alive(links, mem)
      /\ formula \in Formulas /\ at \in 1 .. Len(formula) + 1 /\ Len(stack) = Values(formula, at - 1)
  BY DEF IInv, Struct, Control, Parsing, Reduce
<1>2. stack \in Seq(Nodes) /\ Len(stack) \in Nat /\ \A i, j \in 1 .. Len(stack) : stack[i] = stack[j] => i = j
  BY <1>1 DEF Distinct
<1>3. formula \in Seq(Vars \cup Reductions)
  BY <1>1, TexTreeAssumption
<1>4. at \in DOMAIN formula
  BY <1>1, <1>3
<1>5. Pops(formula[at]) <= Len(stack)
  BY <1>1, <1>4, GrammarAssumption
<1>6. PICK N \in 0 .. MaxNodes : \A n \in Nodes : mem[n] # "none" <=> n <= N
  BY <1>1 DEF Alive
<1>7. New(0) = N /\ New(1) = N + 1 /\ New(2) = N + 2
  <2>1. {n \in Nodes : mem[n] # "none"} = 1 .. N
    BY <1>6, NodesFinite DEF Nodes
  <2>2. N \in Int /\ 1 \in Int /\ N - 1 + 1 = N /\ (1 > N => N = 0) /\ N + 0 = N
    BY <1>6, NodesFinite
  <2>3. Cardinality(1 .. N) = N
    BY <2>2, FS_Interval
  <2> QED BY <2>1, <2>2, <2>3 DEF New
<1>8. ASSUME NEW i \in 1 .. Len(stack) PROVE stack[i] \in Nodes /\ stack[i] <= N
  <2>1. stack[i] \in Nodes /\ Holds(stack, Pending, stack[i])
    BY <1>2 DEF Holds
  <2>2. mem[stack[i]] = "live"
    BY <1>1, <2>1 DEF OwnedBy
  <2> QED BY <1>6, <2>1, <2>2
<1>9. N \in Nat
  BY <1>6, NodesFinite
<1> QED BY <1>1, <1>2, <1>5, <1>7, <1>8, <1>9

\* A variable, the empty formula, a relation.
LEMMA AtomStep ==
  ASSUME IInv, Atom
  PROVE  IInv'
<1> DEFINE N == New(0)
           W == N + 1 .. N + 1
           l == formula[at]
           kinds == << <<l, IF l = "nil" THEN "NIL" ELSE IF l = "rel" THEN "EQ_CLASS" ELSE "VAR">> >>
<1>1. Reduce(Vars \cup {"nil", "rel"}, New(1), <<>>) /\ Alloc(kinds)
  BY DEF Atom
<1>2. /\ pc = "parse" /\ l \in Vars \cup {"nil", "rel"} /\ N \in Nat
      /\ stack \in Seq(Nodes) /\ Len(stack) \in Nat /\ New(1) = N + 1
  BY <1>1, ReduceFinds
<1>3. Pops(l) = 0
  <2>1. l \notin {"+", "/", "hang", "sup", "stackrel"}
    BY <1>2, TexTreeAssumption DEF Reductions
  <2> QED BY <2>1 DEF Pops
<1>4. /\ New(1) \in Nodes /\ mem' \in [Nodes -> {"none", "live", "freed"}]
      /\ \A n \in Nodes : mem'[n] = IF n \in N + 1 .. N + 1 THEN "live" ELSE mem[n]
      /\ Unset(node')
  <2>1. Len(kinds) = 1 /\ kinds[1][1] \in Symbols /\ kinds[1][2] \in Tokens
    BY <1>2 DEF Symbols, Tokens
  <2>2. \A i \in 1 .. 1 : kinds[i][1] \in Symbols /\ kinds[i][2] \in Tokens
    BY <2>1
  <2> HIDE DEF kinds, l
  <2> QED BY <1>1, <1>2, <2>1, <2>2, AllocNodes
<1>5. Taken(W, N + 1 .. N + 1, stack, Pops(l))
  BY <1>2, <1>3 DEF Taken
<1>6. HandedOn(W, New(1), <<>>)
  <2>1. New(1) \in W /\ \A w \in W : w = New(1)
    BY <1>2
  <2> HIDE DEF W
  <2>2. <<>> \in Seq(Calls) /\ Len(<<>>) = 0
    OBVIOUS
  <2> QED BY <2>1, <2>2 DEF HandedOn
<1> HIDE DEF W
<1> QED BY <1>1, <1>4, <1>5, <1>6, ReduceInv

\* The fields of a call.
LEMMA CallFields ==
  ASSUME NEW f \in Nodes, NEW s \in Nodes
  PROVE  /\ Attach(f, s) \in Calls /\ Attach(f, s).call = "attach" /\ Attach(f, s).f = f /\ Attach(f, s).s = s
         /\ Drop(s) \in Calls /\ Drop(s).call = "release" /\ Drop(s).s = s
BY DEF Attach, Drop, Calls

\* The calls of a reduction own all that it takes but its value.
LEMMA HandedOnOne ==
  ASSUME NEW v \in Nodes, NEW s \in Nodes, v # s, NEW W, \A w : w \in W <=> w = v \/ w = s
  PROVE  HandedOn(W, v, <<Attach(v, s)>>)
<1> DEFINE a == Attach(v, s)
<1>1. a \in Calls /\ a.f = v /\ a.s = s
  BY CallFields
<1> HIDE DEF a
<1>2. <<a>> \in Seq(Calls) /\ Len(<<a>>) = 1 /\ <<a>>[1] = a /\ 1 \in 1 .. 1 /\ \A i \in 1 .. 1 : i = 1
  BY <1>1
<1>3. HandedOn(W, v, <<a>>)
  BY <1>1, <1>2 DEF HandedOn
<1> QED BY <1>3 DEF a

\* A reduction leaves a value and two trees that are attached to it.
LEMMA HandedOnTwo ==
  ASSUME NEW v \in Nodes, NEW s1 \in Nodes, NEW s2 \in Nodes, v # s1, v # s2, s1 # s2,
         NEW f \in {v, s2},
         NEW W, \A w : w \in W <=> w = v \/ w = s1 \/ w = s2
  PROVE  HandedOn(W, v, <<Attach(f, s1), Attach(v, s2)>>)
<1> DEFINE a == Attach(f, s1)
           b == Attach(v, s2)
           c == <<a, b>>
<1>1. a \in Calls /\ a.f = f /\ a.s = s1 /\ b \in Calls /\ b.f = v /\ b.s = s2
  BY CallFields
<1> HIDE DEF a, b
<1>2. /\ c \in Seq(Calls) /\ Len(c) = 2 /\ c[1] = a /\ c[2] = b
      /\ 1 \in 1 .. 2 /\ 2 \in 1 .. 2 /\ 2 > 1 /\ \A i \in 1 .. 2 : i = 1 \/ i = 2
  BY <1>1
<1> HIDE DEF c
<1>3. \A j \in 1 .. Len(c) : c[j].s \in W /\ c[j].s # v
  BY <1>1, <1>2
<1>4. \A i, j \in 1 .. Len(c) : c[i].s = c[j].s => i = j
  BY <1>1, <1>2
<1>5. \A w \in W : w = v \/ \E j \in 1 .. Len(c) : c[j].s = w
  BY <1>1, <1>2
<1>6. \A j \in 1 .. Len(c) : c[j].f = v \/ \E l \in 1 .. Len(c) : l > j /\ c[l].s = c[j].f
  BY <1>1, <1>2
<1>7. HandedOn(W, v, c)
  BY <1>2, <1>3, <1>4, <1>5, <1>6 DEF HandedOn
<1> QED BY <1>7 DEF a, b, c

\* A reduction leaves a value and three calls.
LEMMA HandedOnThree ==
  ASSUME NEW v \in Nodes, NEW s1 \in Nodes, NEW s2 \in Nodes, NEW s3 \in Nodes,
         v # s1, v # s2, v # s3, s1 # s2, s1 # s3, s2 # s3,
         NEW W, \A w : w \in W <=> w = v \/ w = s1 \/ w = s2 \/ w = s3
  PROVE  HandedOn(W, v, <<Attach(v, s1), Attach(v, s2), Drop(s3)>>)
<1> DEFINE a == Attach(v, s1)
           b == Attach(v, s2)
           d == Drop(s3)
           c == <<a, b, d>>
<1>1. /\ a \in Calls /\ a.f = v /\ a.s = s1 /\ b \in Calls /\ b.f = v /\ b.s = s2
      /\ d \in Calls /\ d.call # "attach" /\ d.s = s3
  BY CallFields
<1> HIDE DEF a, b, d
<1>2. /\ c \in Seq(Calls) /\ Len(c) = 3 /\ c[1] = a /\ c[2] = b /\ c[3] = d
      /\ 1 \in 1 .. 3 /\ 2 \in 1 .. 3 /\ 3 \in 1 .. 3 /\ \A i \in 1 .. 3 : i = 1 \/ i = 2 \/ i = 3
  BY <1>1
<1> HIDE DEF c
<1>3. \A j \in 1 .. Len(c) : c[j].s \in W /\ c[j].s # v
  BY <1>1, <1>2
<1>4. \A i, j \in 1 .. Len(c) : c[i].s = c[j].s => i = j
  BY <1>1, <1>2
<1>5. \A w \in W : w = v \/ \E j \in 1 .. Len(c) : c[j].s = w
  BY <1>1, <1>2
<1>6. \A j \in 1 .. Len(c) : c[j].call = "attach" => c[j].f = v
  BY <1>1, <1>2
<1>7. HandedOn(W, v, c)
  BY <1>2, <1>3, <1>4, <1>5, <1>6 DEF HandedOn
<1> QED BY <1>7 DEF a, b, c, d

\* An operator with two operands, and the token of its node.
IsOperator(l, token) ==
  \/ l = "+" /\ token = "ADD"
  \/ l = "/" /\ token = "FRAC"

\* An operator and its operands.
LEMMA OperatorStep ==
  ASSUME IInv, NEW l, NEW token, IsOperator(l, token), Operator(l, token)
  PROVE  IInv'
<1> DEFINE N == New(0)
           L == Len(stack)
           W == {N + 1, stack[L - 1], stack[L]}
           kinds == << <<token, token>> >>
           calls == <<Attach(New(1), Value(2)), Attach(New(1), Value(1))>>
<1>1. Reduce({l}, New(1), calls) /\ Alloc(kinds)
  BY DEF Operator
<1>0. (l = "+" /\ token = "ADD") \/ (l = "/" /\ token = "FRAC")
  BY DEF IsOperator
<1>2. /\ pc = "parse" /\ formula[at] = l /\ N \in Nat
      /\ stack \in Seq(Nodes) /\ L \in Nat /\ Pops(l) <= L /\ New(1) = N + 1
      /\ \A i, j \in 1 .. L : stack[i] = stack[j] => i = j
      /\ \A i \in 1 .. L : stack[i] \in Nodes /\ stack[i] <= N
  BY <1>1, ReduceFinds
<1>3. Pops(l) = 2
  BY <1>0 DEF Pops
<1>4. /\ New(1) \in Nodes /\ mem' \in [Nodes -> {"none", "live", "freed"}]
      /\ \A n \in Nodes : mem'[n] = IF n \in N + 1 .. N + 1 THEN "live" ELSE mem[n]
      /\ Unset(node')
  <2>1. Len(kinds) = 1 /\ kinds[1][1] \in Symbols /\ kinds[1][2] \in Tokens
    BY <1>0 DEF Symbols, Tokens
  <2>2. \A i \in 1 .. 1 : kinds[i][1] \in Symbols /\ kinds[i][2] \in Tokens
    BY <2>1
  <2> HIDE DEF kinds
  <2> QED BY <1>1, <1>2, <2>1, <2>2, AllocNodes
<1>5. /\ Value(1) = stack[L] /\ Value(2) = stack[L - 1] /\ L \in 1 .. L /\ L - 1 \in 1 .. L /\ L - 1 # L
      /\ \A i : i \in L - Pops(l) + 1 .. L <=> i = L - 1 \/ i = L
  BY <1>2, <1>3 DEF Value
<1>6. stack[L] \in Nodes /\ stack[L - 1] \in Nodes /\ stack[L] # N + 1 /\ stack[L - 1] # N + 1 /\ stack[L] # stack[L - 1]
  BY <1>2, <1>5 DEF Nodes
<1>7. Taken(W, N + 1 .. N + 1, stack, Pops(l))
  <2>1. \A w : w \in N + 1 .. N + 1 <=> w = N + 1
    BY <1>2
  <2> QED BY <1>5, <2>1 DEF Taken
<1>8. HandedOn(W, New(1), calls)
  BY <1>2, <1>4, <1>5, <1>6, HandedOnTwo
<1> HIDE DEF W, calls
<1> QED BY <1>1, <1>2, <1>4, <1>7, <1>8, ReduceInv

\* The script of a factor: a node is attached to a node that is attached later.
LEMMA ScriptStep ==
  ASSUME IInv, Script
  PROVE  IInv'
<1> DEFINE N == New(0)
           L == Len(stack)
           W == {N + 1, N + 2, stack[L]}
           kinds == << <<"SUP_SCRIPT", "SUP_SCRIPT">>, <<"HANGER", "HANGER">> >>
           calls == <<Attach(New(1), Value(1)), Attach(New(2), New(1))>>
<1>1. Reduce({"sup"}, New(2), calls) /\ Alloc(kinds)
  BY DEF Script
<1>2. /\ pc = "parse" /\ formula[at] = "sup" /\ N \in Nat
      /\ stack \in Seq(Nodes) /\ L \in Nat /\ Pops("sup") <= L /\ New(1) = N + 1 /\ New(2) = N + 2
      /\ \A i, j \in 1 .. L : stack[i] = stack[j] => i = j
      /\ \A i \in 1 .. L : stack[i] \in Nodes /\ stack[i] <= N
  BY <1>1, ReduceFinds
<1>3. Pops("sup") = 1
  BY DEF Pops
<1>4. /\ New(2) \in Nodes /\ mem' \in [Nodes -> {"none", "live", "freed"}]
      /\ \A n \in Nodes : mem'[n] = IF n \in N + 1 .. N + 2 THEN "live" ELSE mem[n]
      /\ Unset(node')
  <2>1. /\ Len(kinds) = 2 /\ kinds[1][1] \in Symbols /\ kinds[1][2] \in Tokens
        /\ kinds[2][1] \in Symbols /\ kinds[2][2] \in Tokens
    BY DEF Symbols, Tokens
  <2>2. \A i \in 1 .. 2 : kinds[i][1] \in Symbols /\ kinds[i][2] \in Tokens
    <3>1. \A i \in 1 .. 2 : i = 1 \/ i = 2
      OBVIOUS
    <3> HIDE DEF kinds
    <3> QED BY <2>1, <3>1
  <2> HIDE DEF kinds
  <2> QED BY <1>1, <1>2, <2>1, <2>2, AllocNodes
<1>5. /\ Value(1) = stack[L] /\ L \in 1 .. L
      /\ \A i : i \in L - Pops("sup") + 1 .. L <=> i = L
  BY <1>2, <1>3 DEF Value
<1>6. stack[L] \in Nodes /\ stack[L] # N + 1 /\ stack[L] # N + 2 /\ N + 1 \in Nodes /\ N + 1 # N + 2
  <2>1. N + 2 \in Nodes
    BY <1>2, <1>4
  <2> QED BY <1>2, <1>5, <2>1, NodesFinite DEF Nodes
<1>7. Taken(W, N + 1 .. N + 2, stack, Pops("sup"))
  <2>1. \A w : w \in N + 1 .. N + 2 <=> w = N + 1 \/ w = N + 2
    BY <1>2
  <2> QED BY <1>5, <2>1 DEF Taken
<1>8. HandedOn(W, New(2), calls)
  BY <1>2, <1>4, <1>5, <1>6, HandedOnTwo
<1> HIDE DEF W, calls
<1> QED BY <1>1, <1>2, <1>4, <1>7, <1>8, ReduceInv

\* A factor and its script.
LEMMA HangStep ==
  ASSUME IInv, Hang
  PROVE  IInv'
<1> DEFINE L == Len(stack)
           W == {stack[L - 1], stack[L]}
           calls == <<Attach(Value(1), Value(2))>>
<1>1. Reduce({"hang"}, Value(1), calls) /\ UNCHANGED <<mem, node>>
  BY DEF Hang
<1>2. /\ pc = "parse" /\ formula[at] = "hang" /\ New(0) \in Nat
      /\ stack \in Seq(Nodes) /\ L \in Nat /\ Pops("hang") <= L
      /\ \A i, j \in 1 .. L : stack[i] = stack[j] => i = j
      /\ \A i \in 1 .. L : stack[i] \in Nodes
  BY <1>1, ReduceFinds
<1>3. Pops("hang") = 2
  BY DEF Pops
<1>5. /\ Value(1) = stack[L] /\ Value(2) = stack[L - 1] /\ L \in 1 .. L /\ L - 1 \in 1 .. L /\ L - 1 # L
      /\ \A i : i \in L - Pops("hang") + 1 .. L <=> i = L - 1 \/ i = L
  BY <1>2, <1>3 DEF Value
<1>6. stack[L] \in Nodes /\ stack[L - 1] \in Nodes /\ stack[L] # stack[L - 1]
  BY <1>2, <1>5
<1>7. Taken(W, New(0) + 1 .. New(0) + 0, stack, Pops("hang"))
  <2>1. \A w : w \notin New(0) + 1 .. New(0) + 0
    BY <1>2
  <2> QED BY <1>5, <2>1 DEF Taken
<1>8. HandedOn(W, Value(1), calls)
  BY <1>5, <1>6, HandedOnOne
<1>9. /\ mem' \in [Nodes -> {"none", "live", "freed"}]
      /\ \A n \in Nodes : mem'[n] = IF n \in New(0) + 1 .. New(0) + 0 THEN "live" ELSE mem[n]
      /\ Unset(node')
  BY <1>1, <1>2, AllocNone
<1> HIDE DEF W, calls
<1> QED BY <1>1, <1>2, <1>7, <1>8, <1>9, ReduceInv

\* A relation with something above it, which is released.
LEMMA StackRelStep ==
  ASSUME IInv, StackRel
  PROVE  IInv'
<1> DEFINE L == Len(stack)
           W == {stack[L - 3], stack[L - 2], stack[L - 1], stack[L]}
           calls == <<Attach(Value(2), Value(4)), Attach(Value(2), Value(1)), Drop(Value(3))>>
<1>1. Reduce({"stackrel"}, Value(2), calls) /\ UNCHANGED <<mem, node>>
  BY DEF StackRel
<1>2. /\ pc = "parse" /\ formula[at] = "stackrel" /\ New(0) \in Nat
      /\ stack \in Seq(Nodes) /\ L \in Nat /\ Pops("stackrel") <= L
      /\ \A i, j \in 1 .. L : stack[i] = stack[j] => i = j
      /\ \A i \in 1 .. L : stack[i] \in Nodes
  BY <1>1, ReduceFinds
<1>3. Pops("stackrel") = 4
  BY DEF Pops
<1>4. Value(1) = stack[L] /\ Value(2) = stack[L - 1] /\ Value(3) = stack[L - 2] /\ Value(4) = stack[L - 3]
  <2>1. L - 1 + 1 = L /\ L - 2 + 1 = L - 1 /\ L - 3 + 1 = L - 2 /\ L - 4 + 1 = L - 3
    BY <1>2
  <2> QED BY <2>1 DEF Value
<1>5. L \in 1 .. L /\ L - 1 \in 1 .. L /\ L - 2 \in 1 .. L /\ L - 3 \in 1 .. L
  BY <1>2, <1>3
<1>6. \A i : i \in L - Pops("stackrel") + 1 .. L <=> i = L - 3 \/ i = L - 2 \/ i = L - 1 \/ i = L
  BY <1>2, <1>3, SMTT(60)
<1>7. L # L - 1 /\ L # L - 2 /\ L # L - 3 /\ L - 1 # L - 2 /\ L - 1 # L - 3 /\ L - 2 # L - 3
  BY <1>2
<1> HIDE DEF L
<1>8. /\ stack[L] \in Nodes /\ stack[L - 1] \in Nodes /\ stack[L - 2] \in Nodes /\ stack[L - 3] \in Nodes
      /\ stack[L] # stack[L - 1] /\ stack[L] # stack[L - 2] /\ stack[L] # stack[L - 3]
      /\ stack[L - 1] # stack[L - 2] /\ stack[L - 1] # stack[L - 3] /\ stack[L - 2] # stack[L - 3]
  BY <1>2, <1>5, <1>7
<1>9. Taken(W, New(0) + 1 .. New(0) + 0, stack, Pops("stackrel"))
  <2>1. \A w : w \notin New(0) + 1 .. New(0) + 0
    BY <1>2
  <2>2. \A w : w \in W <=> \E i \in L - Pops("stackrel") + 1 .. L : w = stack[i]
    BY <1>6
  <2> QED BY <2>1, <2>2 DEF Taken, L
<1>10. HandedOn(W, Value(2), calls)
  <2>1. \A w : w \in W <=> w = Value(2) \/ w = Value(4) \/ w = Value(1) \/ w = Value(3)
    BY <1>4
  <2> HIDE DEF W
  <2> QED BY <1>4, <1>8, <2>1, HandedOnThree
<1>11. /\ mem' \in [Nodes -> {"none", "live", "freed"}]
       /\ \A n \in Nodes : mem'[n] = IF n \in New(0) + 1 .. New(0) + 0 THEN "live" ELSE mem[n]
       /\ Unset(node')
  BY <1>1, <1>2, AllocNone
<1> HIDE DEF W, calls
<1> QED BY <1>1, <1>2, <1>9, <1>10, <1>11, ReduceInv

---------------------------------------------------------------------------
(* The calls of a reduction *)

\* Parts of the invariant, by name.
LEMMA Parts ==
  ASSUME IInv
  PROVE  /\ Alive(links, mem) /\ Forest(links) /\ Trail(links, places) /\ Distinct(stack, todo)
         /\ OwnedBy(stack, Pending, Releasing, links, mem) /\ Len(places) \in Nat
         /\ stack \in Seq(Nodes) /\ todo \in Seq(Calls)
BY DEF IInv, Struct, Alive, Distinct, Trail

\* The fields do not change, and no traversal begins that needs them.
LEMMA FieldsKept ==
  ASSUME IInv, UNCHANGED <<node, cur_id>>,
         \/ pc \in Parsing /\ pc' \in Parsing \cup {"accepted"}
         \/ pc' \in {"release", "done", "updated", "subpaths"}
  PROVE  Fields'
<1>1. /\ node \in [Nodes -> NodeType]
      /\ cur_id = Cardinality({n \in Nodes : node[n].node_id # 0})
      /\ pc \in Parsing \cup {"accepted"} => \A n \in Nodes : node[n].n_fan = 0
      /\ pc = "set_1" => \A n \in Nodes : node[n].n_fan <= 1
      /\ pc \in Parsing \cup {"accepted", "set_1", "group", "prune"} => \A n \in Nodes : node[n].node_id = 0
  BY DEF IInv, Fields
<1>2. CASE pc \in Parsing /\ pc' \in Parsing \cup {"accepted"}
  BY <1>1, <1>2 DEF Fields, Parsing
<1>3. CASE pc' \in {"release", "done", "updated", "subpaths"}
  BY <1>1, <1>3 DEF Fields, Parsing
<1> QED BY <1>2, <1>3

\* The current call: the two trees are roots.
LEMMA CallRoots ==
  ASSUME IInv, todo # <<>>, Pending = todo
  PROVE  /\ call = todo[1] /\ call.s \in Nodes /\ mem[call.s] = "live" /\ links.father[call.s] = NULL
         /\ Distinct(stack, Tail(todo)) /\ ~Holds(stack, Tail(todo), call.s)
         /\ \A n \in Nodes : Holds(stack, todo, n) <=> Holds(stack, Tail(todo), n) \/ n = call.s
         /\ call.call = "attach" => /\ call.f \in Nodes /\ call.f # call.s
                                    /\ mem[call.f] = "live" /\ links.father[call.f] = NULL
<1>1. Distinct(stack, todo) /\ OwnedBy(stack, todo, Releasing, links, mem)
  BY Parts
<1>2. call = todo[1]
  BY <1>1 DEF call, Distinct
<1>3. /\ Distinct(stack, Tail(todo)) /\ todo[1].s \in Nodes
      /\ \A n \in Nodes : Holds(stack, todo, n) <=> Holds(stack, Tail(todo), n) \/ n = todo[1].s
      /\ ~Holds(stack, Tail(todo), todo[1].s)
      /\ todo[1].call = "attach" => /\ todo[1].f \in Nodes /\ todo[1].f # todo[1].s
                                    /\ Holds(stack, Tail(todo), todo[1].f)
  BY <1>1, DistinctTail
<1>4. mem[todo[1].s] = "live" /\ links.father[todo[1].s] = NULL
  BY <1>1, <1>3 DEF OwnedBy
<1>5. todo[1].call = "attach" => mem[todo[1].f] = "live" /\ links.father[todo[1].f] = NULL
  BY <1>1, <1>3 DEF OwnedBy
<1> QED BY <1>2, <1>3, <1>4, <1>5

\* tex_tr_attatch(): a son is attached.
LEMMA AttachSonStep ==
  ASSUME IInv, AttachSon
  PROVE  IInv'
<1> DEFINE f == call.f
           s == call.s
<1>1. /\ pc = "parse" /\ todo # <<>> /\ call.call = "attach"
      /\ links' = tree_attach(links, s, f) /\ todo' = Tail(todo)
      /\ UNCHANGED <<formula, at, stack, pc, node, mem, places, cur_id>>
  BY DEF AttachSon, CallTo, words
<1>2. Pending = todo /\ Releasing = NULL /\ Pending' = Tail(todo) /\ Releasing' = NULL
  BY <1>1 DEF Pending, Releasing
<1>3. Alive(links, mem) /\ OwnedBy(stack, todo, NULL, links, mem) /\ places = <<>>
  BY <1>1, <1>2, Parts DEF IInv, Control
<1>4. /\ s \in Nodes /\ mem[s] = "live" /\ links.father[s] = NULL
      /\ Distinct(stack, Tail(todo)) /\ ~Holds(stack, Tail(todo), s)
      /\ \A n \in Nodes : Holds(stack, todo, n) <=> Holds(stack, Tail(todo), n) \/ n = s
      /\ f \in Nodes /\ f # s /\ mem[f] = "live" /\ links.father[f] = NULL
  BY <1>1, <1>2, CallRoots
<1> HIDE DEF f, s
<1>5. Alive(links', mem) /\ \A c \in Nodes : links'.father[c] = IF c = s THEN f ELSE links.father[c]
  BY <1>1, <1>3, <1>4, AliveAttach
<1>6. OwnedBy(stack, Tail(todo), NULL, links', mem)
  BY <1>3, <1>4, <1>5, NodeNotNull DEF OwnedBy
<1>7. Trail(links', <<>>)
  BY DEF Trail
<1>8. Struct'
  BY <1>1, <1>2, <1>3, <1>4, <1>5, <1>6, <1>7 DEF Struct
<1>9. Control' /\ Begins'
  BY <1>1 DEF IInv, Control, Begins, Phases, Parsing, Updates
<1>10. Fields'
  BY <1>1, FieldsKept DEF Parsing
<1> QED BY <1>8, <1>9, <1>10 DEF IInv

\* tex_tr_attatch(): the son has its father's token.
LEMMA PassSonsStep ==
  ASSUME IInv, PassSons
  PROVE  IInv'
<1> DEFINE s == call.s
           x == links.sons[s].now
<1>1. /\ pc = "parse" /\ todo # <<>> /\ call.call = "attach" /\ pc' = "pass"
      /\ places' = IF x = NULL THEN <<>> ELSE <<Place(links, x)>>
      /\ UNCHANGED <<formula, at, stack, todo, links, node, mem, cur_id, rot>>
  BY DEF PassSons, CallTo, Leaf, words, input
<1>2. Pending = todo /\ Releasing = NULL /\ Pending' = todo /\ Releasing' = NULL
  BY <1>1 DEF Pending, Releasing
<1>3. s \in Nodes /\ call = todo[1]
  BY <1>1, <1>2, CallRoots
<1>4. x # NULL => x \in Nodes /\ links.father[x] = s
  BY <1>3, Parts, ForestSons
<1>5. x # NULL => Place(links, x) \in Places /\ Place(links, x).now = x /\ Place(links, x).fwd = links.next[x]
  BY <1>4, Parts, ForestNext DEF Place, Places
<1> HIDE DEF s, x
<1>6. Trail(links, places')
  <2>1. CASE x = NULL
    BY <1>1, <2>1 DEF Trail
  <2>2. CASE x # NULL
    <3> DEFINE y == Place(links, x)
    <3>1. places' = <<y>> /\ y \in Places /\ y.fwd = links.next[y.now]
      BY <1>1, <1>5, <2>2
    <3> HIDE DEF y
    <3>2. <<y>> \in Seq(Places) /\ Len(<<y>>) = 1 /\ <<y>>[1] = y /\ (\A i \in 1 .. 1 : i = 1) /\ 2 .. 1 = {}
      BY <3>1
    <3> QED BY <3>1, <3>2 DEF Trail
  <2> QED BY <2>1, <2>2
<1>7. Struct'
  BY <1>1, <1>2, <1>6, Parts DEF Struct
<1>8. Control'
  BY <1>1 DEF IInv, Control, Phases, Parsing, Updates
<1>9. Begins'
  <2>1. x # NULL => places' # <<>> /\ Len(places') = 1 /\ places'[1].now = x
    BY <1>1, <1>5
  <2>2. x = NULL => places' = <<>>
    BY <1>1
  <2> QED BY <1>1, <1>3, <1>4, <2>1, <2>2 DEF Begins, Updates, s, x
<1>10. Fields'
  BY <1>1, FieldsKept DEF Parsing
<1> QED BY <1>7, <1>8, <1>9, <1>10 DEF IInv

\* A trail of one place.
LEMMA TrailOne ==
  ASSUME NEW m, Forest(m), NEW x \in Nodes, NEW t, t = <<Place(m, x)>>
  PROVE  Trail(m, t) /\ t # <<>> /\ Len(t) = 1 /\ t[1].now = x
<1> DEFINE y == Place(m, x)
<1>1. y \in Places /\ y.now = x /\ y.fwd = m.next[x]
  BY ForestNext DEF Place, Places
<1> HIDE DEF y
<1>2. <<y>> \in Seq(Places) /\ Len(<<y>>) = 1 /\ <<y>>[1] = y /\ (\A i \in 1 .. 1 : i = 1) /\ 2 .. 1 = {} /\ <<y>> # <<>>
  BY <1>1
<1>3. t = <<y>>
  BY DEF y
<1> QED BY <1>1, <1>2, <1>3 DEF Trail

\* Where the callback goes on that takes n from its father s and attaches it to f.
LEMMA PassedOn ==
  ASSUME NEW m, Forest(m), NEW n \in Nodes, NEW s \in Nodes, m.father[n] = s, NEW f \in Nodes, f # s,
         f # n, m.father[f] = NULL,
         NEW d, d = tree_detach(m, n), NEW a, a = tree_attach(d, n, f),
         d.sons[s].now # NULL
  PROVE  /\ a.next[d.prev[m.next[n]]] = m.next[n]
         /\ m.next[n] \in Nodes /\ a.father[m.next[n]] = s
<1> DEFINE x == m.next[n]
           y == d.prev[x]
<1>1. /\ Forest(d) /\ \A c \in Nodes : d.father[c] = IF c = n THEN NULL ELSE m.father[c]
      /\ x \in Nodes \ {n} /\ m.father[x] = s /\ d.next[y] = x
  BY DetachForest
<1> HIDE DEF x
<1>2. y \in Nodes /\ d.father[y] = d.father[x] /\ d.father[x] = s
  BY <1>1, ForestRing
<1> HIDE DEF y
<1>3. d.father[n] = NULL /\ d.father[f] = NULL
  BY <1>1
<1>4. /\ \A c \in Nodes : a.father[c] = IF c = n THEN f ELSE d.father[c]
      /\ \A c \in Nodes \ {n} : d.father[c] # f => a.next[c] = d.next[c]
  BY <1>1, <1>3, AttachForest
<1>5. y # n
  BY <1>2, <1>3, NodeNotNull
<1>6. a.next[y] = x /\ a.father[x] = s
  BY <1>1, <1>2, <1>4, <1>5
<1> QED BY <1>1, <1>6 DEF x, y

\* son_pass(): a son of the son is detached and attached to the father.
LEMMA SonPassStep ==
  ASSUME IInv, son_pass
  PROVE  IInv'
<1> DEFINE f == call.f
           s == call.s
           n == places[1].now
           d == tree_detach(links, n)
           a == tree_attach(d, n, f)
           x == links.next[n]
<1>1. pc = "pass" /\ places # <<>> /\ Len(places) = 1
  BY DEF son_pass, At, IInv, Begins
<1>2. p = n /\ place = places[1]
  BY <1>1 DEF p, place
<1>3. AfterInsert(a, AfterDetach(d, links, n, places[1])).fwd = a.next[d.prev[x]]
  BY DEF AfterInsert, AfterDetach, Place
<1>4. /\ links' = a
      /\ places' = IF d.sons[s].now = NULL THEN <<>> ELSE <<Place(a, AfterInsert(a, AfterDetach(d, links, n, places[1])).fwd)>>
      /\ UNCHANGED <<formula, at, stack, todo, pc, node, mem, cur_id, rot>>
  BY <1>2, Zenon DEF son_pass, words, input
<1>5. Pending = todo /\ Releasing = NULL /\ Pending' = todo /\ Releasing' = NULL
  BY <1>1, <1>4 DEF Pending, Releasing
<1>6. todo # <<>> /\ todo[1].call = "attach" /\ links.father[n] = todo[1].s
  BY <1>1 DEF IInv, Control, Begins
<1>7. /\ s \in Nodes /\ mem[s] = "live" /\ links.father[s] = NULL /\ call = todo[1]
      /\ f \in Nodes /\ f # s /\ mem[f] = "live" /\ links.father[f] = NULL
  BY <1>5, <1>6, CallRoots
<1>8. n \in Nodes /\ links.father[n] = s /\ mem[n] = "live" /\ n # f
  <2>1. 1 \in 1 .. Len(places)
    BY <1>1
  <2>2. n \in Nodes /\ n \in Live
    BY <2>1, Parts, WayNodes, PlacesLive
  <2> QED BY <1>6, <1>7, <2>2, NodeNotNull DEF Live
<1>9. Alive(links, mem) /\ Forest(links) /\ Distinct(stack, todo) /\ OwnedBy(stack, todo, NULL, links, mem)
  BY <1>5, Parts
<1> HIDE DEF f, s, n
<1>10. Alive(d, mem) /\ \A c \in Nodes : d.father[c] = IF c = n THEN NULL ELSE links.father[c]
  <2>1. d = tree_detach(links, n) /\ Alive(links, mem) /\ n \in Nodes /\ s \in Nodes /\ links.father[n] = s
    BY <1>7, <1>8, <1>9
  <2> HIDE DEF d
  <2> QED BY ONLY <2>1, AliveDetach
<1>11. Forest(d)
  BY <1>10 DEF Alive
<1>12. Alive(a, mem) /\ \A c \in Nodes : a.father[c] = IF c = n THEN f ELSE d.father[c]
  <2> HIDE DEF d
  <2>1. d.father[n] = NULL /\ d.father[f] = NULL
    BY <1>7, <1>8, <1>10
  <2> QED BY <1>7, <1>8, <1>10, <2>1, AliveAttach
<1>13. d.sons[s].now # NULL => /\ a.next[d.prev[x]] = x /\ x \in Nodes /\ a.father[x] = s
  BY <1>7, <1>8, <1>9, PassedOn
<1>14. d.sons[s].now = NULL => a.sons[s].now = NULL
  <2> HIDE DEF d
  <2>1. d.father[n] = NULL /\ d.father[f] = NULL
    BY <1>7, <1>8, <1>10
  <2>2. \A g \in Nodes \ {f} : a.sons[g] = d.sons[g]
    BY <1>7, <1>8, <1>11, <2>1, AttachForest
  <2> QED BY <1>7, <2>2
<1>15. /\ d.sons[s].now = NULL => places' = <<>>
       /\ d.sons[s].now # NULL => places' = <<Place(a, x)>>
  BY <1>3, <1>4, <1>13, Zenon
<1> HIDE DEF d, x
<1>16. OwnedBy(stack, todo, NULL, a, mem)
  <2>1. \A c \in Nodes : a.father[c] = NULL <=> links.father[c] = NULL
    BY <1>7, <1>8, <1>10, <1>12, NodeNotNull
  <2> QED BY <1>9, <2>1 DEF OwnedBy
<1> HIDE DEF a
<1>17. /\ d.sons[s].now = NULL => Trail(a, places') /\ places' = <<>>
       /\ d.sons[s].now # NULL => Trail(a, places') /\ places' # <<>> /\ Len(places') = 1 /\ places'[1].now = x
  <2>1. Trail(a, <<>>)
    BY DEF Trail
  <2>2. Forest(a)
    BY <1>12 DEF Alive
  <2> QED BY <1>13, <1>15, <2>1, <2>2, TrailOne
<1>18. Struct'
  BY <1>1, <1>4, <1>5, <1>9, <1>12, <1>16, <1>17 DEF Struct
<1>19. Control'
  BY <1>1, <1>4 DEF IInv, Control, Phases, Parsing, Updates
<1>20. Begins'
  BY <1>1, <1>4, <1>6, <1>7, <1>13, <1>14, <1>17 DEF Begins, Updates, s
<1>21. Fields'
  BY <1>1, <1>4, FieldsKept DEF Parsing
<1> QED BY <1>18, <1>19, <1>20, <1>21 DEF IInv

\* The son, which has no sons any more, is freed.
LEMMA PassingStep ==
  ASSUME IInv, Passing
  PROVE  IInv'
<1> DEFINE s == call.s
<1>1. /\ pc = "pass" /\ places = <<>> /\ pc' = "parse" /\ todo' = Tail(todo)
      /\ mem' = [mem EXCEPT ![s] = "freed"]
      /\ UNCHANGED <<formula, at, stack, links, node, places, cur_id, rot>>
  BY DEF Passing, Over, words
<1>2. Pending = todo /\ Releasing = NULL /\ Pending' = Tail(todo) /\ Releasing' = NULL
  BY <1>1 DEF Pending, Releasing
<1>3. todo # <<>> /\ links.sons[todo[1].s].now = NULL
  BY <1>1 DEF IInv, Control, Begins
<1>4. /\ s \in Nodes /\ mem[s] = "live" /\ links.father[s] = NULL /\ call = todo[1]
      /\ Distinct(stack, Tail(todo)) /\ ~Holds(stack, Tail(todo), s)
      /\ \A n \in Nodes : Holds(stack, todo, n) <=> Holds(stack, Tail(todo), n) \/ n = s
  BY <1>2, <1>3, CallRoots
<1>5. Alive(links, mem) /\ OwnedBy(stack, todo, NULL, links, mem) /\ links.sons[s].now = NULL
  BY <1>2, <1>3, <1>4, Parts
<1> HIDE DEF s
<1>6. Alive(links, mem') /\ \A c \in Nodes : mem'[c] = "live" <=> mem[c] = "live" /\ c # s
  <2>1. mem' = Put(mem, s, "freed") /\ Alive(links, mem)
    BY <1>1, <1>5 DEF s, Put
  <2>2. s \in Nodes /\ mem[s] = "live" /\ links.father[s] = NULL /\ links.sons[s].now = NULL
    BY <1>4, <1>5
  <2> QED BY ONLY <2>1, <2>2, AliveFree
<1>7. OwnedBy(stack, Tail(todo), NULL, links, mem')
  BY <1>4, <1>5, <1>6, NodeNotNull DEF OwnedBy
<1>8. Struct'
  BY <1>1, <1>2, <1>4, <1>6, <1>7, Parts DEF Struct
<1>9. Control' /\ Begins'
  BY <1>1 DEF IInv, Control, Begins, Phases, Parsing, Updates
<1>10. Fields'
  BY <1>1, FieldsKept DEF Parsing
<1> QED BY <1>8, <1>9, <1>10 DEF IInv

---------------------------------------------------------------------------
(* Trees are released *)

\* The current node, and whether it has a father.
LEMMA Current ==
  ASSUME IInv, places # <<>>
  PROVE  /\ p \in Nodes /\ mem[p] = "live" /\ p = places[Len(places)].now /\ Len(places) \in Nat /\ Len(places) > 0
         /\ place = places[Len(places)] /\ place.now = p /\ places[1].now \in Nodes
         /\ Len(places) > 1 => links.father[p] \in Nodes
<1>1. Forest(links) /\ Trail(links, places) /\ Len(places) \in Nat /\ places \in Seq(Places)
  BY Parts DEF Trail
<1>2. Len(places) > 0 /\ Len(places) \in 1 .. Len(places) /\ 1 \in 1 .. Len(places)
  BY <1>1
<1>3. p = places[Len(places)].now /\ place = places[Len(places)] /\ place.now = p
  BY DEF p, place
<1>4. p \in Live /\ places[1].now \in Live
  BY <1>2, <1>3, PlacesLive
<1>5. ASSUME Len(places) > 1 PROVE links.father[p] \in Nodes
  <2>1. Len(places) \in 2 .. Len(places) /\ Len(places) - 1 \in 1 .. Len(places)
    BY <1>1, <1>5
  <2>2. places[Len(places) - 1].now = links.father[p]
    BY <1>1, <1>3, <2>1 DEF Trail
  <2>3. places[Len(places) - 1].now \in Nodes
    BY <1>1, <2>1, WayNodes
  <2> QED BY <2>2, <2>3
<1> QED BY <1>1, <1>2, <1>3, <1>4, <1>5 DEF Live

\* A son that is a leaf is detached and freed.
LEMMA DetachedFreed ==
  ASSUME NEW m, NEW me, Alive(m, me), NEW n \in Nodes, NEW f \in Nodes, m.father[n] = f,
         me[n] = "live", m.sons[n].now = NULL,
         NEW d, d = tree_detach(m, n), NEW w, w = Put(me, n, "freed")
  PROVE  /\ Alive(d, w)
         /\ \A c \in Nodes : w[c] = "live" /\ d.father[c] = NULL <=>
                             me[c] = "live" /\ m.father[c] = NULL /\ c # n
<1>1. Forest(m) /\ f # n
  <2>1. Forest(m)
    BY DEF Alive
  <2> QED BY <2>1, ForestFather
<1>2. d.sons[n] = m.sons[n]
  BY <1>1, DetachForest
<1>3. Alive(d, me) /\ \A c \in Nodes : d.father[c] = IF c = n THEN NULL ELSE m.father[c]
  BY AliveDetach
<1>4. d.father[n] = NULL /\ d.sons[n].now = NULL
  BY <1>2, <1>3
<1>5. Alive(d, w) /\ \A c \in Nodes : w[c] = "live" <=> me[c] = "live" /\ c # n
  BY <1>3, <1>4, AliveFree
<1> QED BY <1>3, <1>5

\* Lengths that are not zero.
LEMMA One ==
  ASSUME NEW k \in Nat, k > 0
  PROVE  (~(k > 1) => k = 1) /\ (k # 1 => k > 1)
OBVIOUS

\* Where the traversal goes on then.
Detached(d, f, s, x, t) ==
  t = IF d.sons[f].now = NULL THEN Front(s) ELSE Front(s) \o Down(d, x)

\* It goes on at a leaf.
LEMMA DetachedWalk ==
  ASSUME NEW m, Forest(m), NEW s, Trail(m, s), Len(s) > 1,
         NEW n \in Nodes, n = s[Len(s)].now, NEW f \in Nodes, m.father[n] = f,
         NEW d, d = tree_detach(m, n), NEW x, x = d.next[d.prev[m.next[n]]],
         NEW t, Detached(d, f, s, x, t)
  PROVE  AtLeaf(d, s, t)
<1>0. Forest(m) /\ n \in Nodes /\ f \in Nodes /\ m.father[n] = f /\ d = tree_detach(m, n)
  OBVIOUS
<1>1. d.sons[f].now # NULL => /\ m.next[n] \in Nodes \ {n} /\ m.father[m.next[n]] = f
                              /\ d.next[d.prev[m.next[n]]] = m.next[n]
  BY ONLY <1>0, DetachForest
<1>2. \A c \in Nodes : d.father[c] = IF c = n THEN NULL ELSE m.father[c]
  BY ONLY <1>0, DetachForest
<1>3. d.sons[f].now # NULL => x \in Nodes /\ d.father[x] = f
  BY <1>1, <1>2
<1>4. GoesOn(d, f, s, x, t)
  BY <1>3 DEF Detached, GoesOn
<1>5. Forest(m) /\ Trail(m, s) /\ Len(s) > 1 /\ n \in Nodes /\ n = s[Len(s)].now /\ f \in Nodes /\ m.father[n] = f
  OBVIOUS
<1> QED BY ONLY <1>0, <1>4, <1>5, WalkDetached

\* What is left when the current node, a leaf, is detached and freed: if it was
\* the last one, the traversal is over.
LEMMA DetachFreeAlive ==
  ASSUME IInv, places # <<>>, DetachFree, Leaf(p), links.father[places[1].now] = NULL
  PROVE  /\ Alive(links', mem') /\ Trail(links', places') /\ TopLeaf(links', places')
         /\ links.father[p] = NULL => Len(places) = 1 /\ places' = <<>>
         /\ links.father[p] # NULL => Len(places) > 1 /\ places' # <<>> /\ places'[1] = places[1]
         /\ \A c \in Nodes : mem'[c] = "live" /\ links'.father[c] = NULL <=>
                             mem[c] = "live" /\ links.father[c] = NULL /\ c # p
<1>1. Alive(links, mem) /\ Forest(links) /\ Trail(links, places)
  BY Parts
<1>2. /\ p \in Nodes /\ mem[p] = "live" /\ p = places[Len(places)].now /\ Len(places) \in Nat /\ Len(places) > 0
      /\ place = places[Len(places)] /\ place.now = p
      /\ Len(places) > 1 => links.father[p] \in Nodes
  BY Current
<1>3. mem' = Put(mem, p, "freed")
  BY DEF DetachFree, Put
<1>4. links.sons[p].now = NULL
  BY DEF Leaf
<1>5. CASE links.father[p] = NULL
  <2>1. Len(places) = 1
    <3>1. ~(Len(places) > 1)
      BY <1>2, <1>5, NodeNotNull
    <3>2. Len(places) \in Nat /\ Len(places) > 0
      BY <1>2
    <3> QED BY ONLY <3>1, <3>2, One
  <2>2. links' = links /\ places' = <<>>
    BY <1>5, <2>1 DEF DetachFree, Walk
  <2>3. Alive(links, mem') /\ \A c \in Nodes : mem'[c] = "live" <=> mem[c] = "live" /\ c # p
    BY ONLY <1>1, <1>2, <1>3, <1>4, <1>5, AliveFree
  <2>4. Trail(links, <<>>) /\ TopLeaf(links, <<>>)
    BY DEF Trail, TopLeaf
  <2> QED BY <1>5, <2>1, <2>2, <2>3, <2>4
<1>6. CASE links.father[p] # NULL
  <2>1. Len(places) > 1
    <3>1. Len(places) = 1 => places[Len(places)] = places[1]
      OBVIOUS
    <3>2. Len(places) # 1
      BY <1>2, <1>6, <3>1
    <3>3. Len(places) \in Nat /\ Len(places) > 0
      BY <1>2
    <3> QED BY ONLY <3>2, <3>3, One
  <2>2. links' = tree_detach(links, p)
    BY <1>6 DEF DetachFree
  <2>3. Walk(links'.sons[links.father[p]].now = NULL, links', AfterDetach(links', links, p, place))
    BY <1>6, <2>2, Zenon DEF DetachFree
  <2>4. AfterDetach(links', links, p, place).fwd = links'.next[links'.prev[links.next[p]]]
    BY <1>2 DEF AfterDetach, Place
  <2>5. places' = IF links'.sons[links.father[p]].now = NULL THEN Front(places)
                  ELSE Front(places) \o Down(links', links'.next[links'.prev[links.next[p]]])
    <3>1. Len(places) # 1
      BY <1>2, <2>1
    <3> QED BY <2>3, <2>4, <3>1, Zenon DEF Walk
  <2>6. links.father[p] \in Nodes
    BY <1>2, <2>1
  <2>7. Detached(links', links.father[p], places, links'.next[links'.prev[links.next[p]]], places')
    BY <2>5 DEF Detached
  <2>8. p \in Nodes /\ p = places[Len(places)].now /\ mem[p] = "live"
    BY <1>2
  <2>9. Alive(links', mem') /\ \A c \in Nodes : mem'[c] = "live" /\ links'.father[c] = NULL <=>
                             mem[c] = "live" /\ links.father[c] = NULL /\ c # p
    BY ONLY <1>1, <1>3, <1>4, <2>2, <2>6, <2>8, DetachedFreed
  <2>10. Trail(links', places') /\ TopLeaf(links', places') /\ places' # <<>> /\ places'[1] = places[1]
    <3> DEFINE x == links'.next[links'.prev[links.next[p]]]
               n == p
               f == links.father[p]
    <3>1. /\ Forest(links) /\ Trail(links, places) /\ Len(places) > 1 /\ n \in Nodes /\ n = places[Len(places)].now
          /\ f \in Nodes /\ links.father[n] = f /\ links' = tree_detach(links, n)
          /\ x = links'.next[links'.prev[links.next[n]]] /\ Detached(links', f, places, x, places')
      BY <1>1, <2>1, <2>2, <2>6, <2>7, <2>8
    <3> HIDE DEF x, n, f
    <3>2. AtLeaf(links', places, places')
      BY ONLY <3>1, DetachedWalk
    <3> QED BY <3>2 DEF AtLeaf
  <2> QED BY <1>6, <2>1, <2>9, <2>10
<1> QED BY <1>5, <1>6

\* tex_tr_release() of what is above a relation begins.
LEMMA DropTreeStep ==
  ASSUME IInv, DropTree
  PROVE  IInv'
<1> DEFINE s == call.s
<1>1. /\ pc = "parse" /\ todo # <<>> /\ pc' = "drop" /\ places' = Down(links, s)
      /\ UNCHANGED <<formula, at, stack, todo, links, node, mem, cur_id, rot>>
  BY DEF DropTree, CallTo, Begin, words, input
<1>2. Pending = todo /\ Releasing = NULL
  BY <1>1 DEF Pending, Releasing
<1>3. s \in Nodes /\ call = todo[1]
  BY <1>1, <1>2, CallRoots
<1>4. Forest(links) /\ Alive(links, mem) /\ Distinct(stack, todo) /\ OwnedBy(stack, todo, NULL, links, mem)
  BY <1>2, Parts
<1> HIDE DEF s
<1>5. Trail(links, places') /\ TopLeaf(links, places') /\ places' # <<>> /\ places'[1].now = s
  <2>1. Forest(links) /\ s \in Nodes /\ places' = Down(links, s)
    BY <1>1, <1>3, <1>4
  <2> QED BY ONLY <2>1, WayOfDown
<1>6. Pending' = todo /\ Releasing' = NULL
  BY <1>1, <1>5 DEF Pending, Releasing
<1>7. Struct'
  BY <1>1, <1>4, <1>5, <1>6 DEF Struct
<1>8. Control'
  BY <1>1 DEF IInv, Control, Phases, Parsing, Updates
<1>9. Begins'
  BY <1>1, <1>3, <1>5 DEF Begins, Updates, s
<1>10. Fields'
  BY <1>1, FieldsKept DEF Parsing
<1> QED BY <1>7, <1>8, <1>9, <1>10 DEF IInv

\* tex_tr_release_dfs(): the current node is detached and freed.
LEMMA ReleaseStep ==
  ASSUME IInv, Release
  PROVE  IInv'
<1> DEFINE q == places[1].now
<1>1. /\ pc \in {"drop", "release"} /\ places # <<>> /\ DetachFree
      /\ UNCHANGED <<formula, at, stack, todo, pc, node, cur_id, rot>>
  BY DEF Release, At, words, input
<1>2. /\ Alive(links, mem) /\ Forest(links) /\ Trail(links, places) /\ Distinct(stack, todo)
      /\ OwnedBy(stack, Pending, Releasing, links, mem)
  BY Parts
<1>3. p \in Nodes /\ p = places[Len(places)].now /\ q \in Nodes
  BY <1>1, Current
<1>4. Leaf(p)
  <2>1. TopLeaf(links, places)
    BY <1>1 DEF IInv, Struct
  <2> QED BY <1>1, <1>3, <2>1 DEF TopLeaf, Leaf
<1>5. pc = "drop" => /\ Pending = todo /\ Releasing = NULL /\ todo # <<>> /\ q = todo[1].s
                     /\ links.father[q] = NULL /\ Distinct(stack, Tail(todo)) /\ ~Holds(stack, Tail(todo), q)
                     /\ \A n \in Nodes : Holds(stack, todo, n) <=> Holds(stack, Tail(todo), n) \/ n = q
  <2> SUFFICES ASSUME pc = "drop"
               PROVE  /\ Pending = todo /\ Releasing = NULL /\ todo # <<>> /\ q = todo[1].s
                      /\ links.father[q] = NULL /\ Distinct(stack, Tail(todo)) /\ ~Holds(stack, Tail(todo), q)
                      /\ \A n \in Nodes : Holds(stack, todo, n) <=> Holds(stack, Tail(todo), n) \/ n = q
    OBVIOUS
  <2>1. Pending = todo /\ Releasing = NULL
    BY <1>1 DEF Pending, Releasing
  <2>2. todo # <<>> /\ q = todo[1].s
    BY <1>1 DEF IInv, Control, Begins
  <2> HIDE DEF q
  <2>3. /\ call = todo[1] /\ links.father[call.s] = NULL
        /\ Distinct(stack, Tail(todo)) /\ ~Holds(stack, Tail(todo), call.s)
        /\ \A n \in Nodes : Holds(stack, todo, n) <=> Holds(stack, Tail(todo), n) \/ n = call.s
    BY <2>1, <2>2, CallRoots
  <2>4. call.s = q
    BY <2>2, <2>3
  <2> QED BY <2>1, <2>2, <2>3, <2>4
<1>6. pc = "release" => /\ Pending = todo /\ Releasing = q /\ todo = <<>>
                        /\ links.father[q] = NULL /\ ~Holds(stack, todo, q)
  <2> SUFFICES ASSUME pc = "release"
               PROVE  /\ Pending = todo /\ Releasing = q /\ todo = <<>>
                      /\ links.father[q] = NULL /\ ~Holds(stack, todo, q)
    OBVIOUS
  <2>1. Pending = todo /\ Releasing = q
    BY <1>1 DEF Pending, Releasing
  <2>2. todo = <<>> /\ \A i \in 1 .. Len(stack) : stack[i] # q
    BY <1>1 DEF IInv, Control, Begins, Parsing
  <2> HIDE DEF q
  <2>3. links.father[q] = NULL
    BY <1>2, <1>3, <2>1 DEF OwnedBy
  <2>4. ~Holds(stack, todo, q)
    BY <2>2 DEF Holds
  <2> QED BY <2>1, <2>2, <2>3, <2>4
<1>7. links.father[places[1].now] = NULL
  BY <1>1, <1>5, <1>6
<1>8. /\ Alive(links', mem') /\ Trail(links', places') /\ TopLeaf(links', places')
      /\ links.father[p] = NULL => Len(places) = 1 /\ places' = <<>>
      /\ links.father[p] # NULL => Len(places) > 1 /\ places' # <<>> /\ places'[1] = places[1]
      /\ \A c \in Nodes : mem'[c] = "live" /\ links'.father[c] = NULL <=>
                          mem[c] = "live" /\ links.father[c] = NULL /\ c # p
  BY <1>1, <1>4, <1>7, DetachFreeAlive
<1>9. links.father[p] = NULL => p = q
  BY <1>3, <1>8
<1>10. places' # <<>> => places'[1].now = q /\ links.father[p] # NULL
  BY <1>8
<1>11. places' = <<>> => links.father[p] = NULL
  BY <1>8
<1> HIDE DEF q
<1>12. OwnedBy(stack, Pending', Releasing', links', mem')
  <2>1. CASE pc = "drop" /\ places' = <<>>
    <3>1. Pending' = Tail(todo) /\ Releasing' = NULL /\ p = q
      BY <1>1, <1>9, <1>11, <2>1 DEF Pending, Releasing
    <3> QED BY <1>2, <1>5, <1>8, <2>1, <3>1, NodeNotNull DEF OwnedBy
  <2>2. CASE pc = "drop" /\ places' # <<>>
    <3>1. Pending' = todo /\ Releasing' = NULL /\ links.father[p] # NULL
      BY <1>1, <1>10, <2>2 DEF Pending, Releasing
    <3> QED BY <1>2, <1>5, <1>8, <2>2, <3>1 DEF OwnedBy
  <2>3. CASE pc = "release" /\ places' = <<>>
    <3>1. Pending' = todo /\ Releasing' = NULL /\ p = q
      BY <1>1, <1>9, <1>11, <2>3 DEF Pending, Releasing
    <3> QED BY <1>2, <1>6, <1>8, <2>3, <3>1, NodeNotNull DEF OwnedBy
  <2>4. CASE pc = "release" /\ places' # <<>>
    <3>1. Pending' = todo /\ Releasing' = q /\ links.father[p] # NULL
      BY <1>1, <1>10, <2>4 DEF Pending, Releasing
    <3> QED BY <1>2, <1>6, <1>8, <2>4, <3>1 DEF OwnedBy
  <2> QED BY <1>1, <2>1, <2>2, <2>3, <2>4
<1>13. Struct'
  BY <1>1, <1>2, <1>8, <1>12 DEF Struct
<1>14. Control'
  BY <1>1 DEF IInv, Control, Phases, Parsing, Updates
<1>15. Begins'
  <2>1. pc = "release" => \A i \in 1 .. Len(stack) : stack[i] # q
    BY <1>6 DEF Holds
  <2> QED BY <1>1, <1>5, <1>10, <2>1 DEF Begins, Updates
<1>16. Fields'
  BY <1>1, FieldsKept DEF Parsing
<1> QED BY <1>13, <1>14, <1>15, <1>16 DEF IInv

\* What is above a relation was released.
LEMMA DroppedStep ==
  ASSUME IInv, Dropped
  PROVE  IInv'
<1>1. /\ pc = "drop" /\ places = <<>> /\ pc' = "parse" /\ todo' = Tail(todo)
      /\ UNCHANGED <<formula, at, stack, links, node, mem, places, cur_id, rot>>
  BY DEF Dropped, Over, words
<1>2. Pending = Tail(todo) /\ Releasing = NULL /\ Pending' = Tail(todo) /\ Releasing' = NULL
  BY <1>1 DEF Pending, Releasing
<1>3. todo # <<>>
  BY <1>1 DEF IInv, Control
<1>4. Distinct(stack, todo)
  BY Parts
<1>5. Distinct(stack, Tail(todo))
  BY <1>3, <1>4, DistinctTail
<1>6. Struct'
  BY <1>1, <1>2, <1>5, Parts DEF Struct
<1>7. Control' /\ Begins'
  BY <1>1 DEF IInv, Control, Begins, Phases, Parsing, Updates
<1>8. Fields'
  BY <1>1, FieldsKept DEF Parsing
<1> QED BY <1>6, <1>7, <1>8 DEF IInv

---------------------------------------------------------------------------
(* The end of the input, and of the tree *)

\* yyerror(): what the parser has is released.
LEMMA SyntaxErrorStep ==
  ASSUME IInv, SyntaxError
  PROVE  IInv'
<1>1. /\ pc = "parse" /\ todo = <<>> /\ pc' = "release"
      /\ UNCHANGED <<formula, at, stack, todo, links, node, mem, places, cur_id, rot>>
  BY DEF SyntaxError, words, input
<1>2. places = <<>>
  BY <1>1 DEF IInv, Control
<1>3. Pending = todo /\ Releasing = NULL /\ Pending' = todo /\ Releasing' = NULL
  BY <1>1, <1>2 DEF Pending, Releasing
<1>4. Struct'
  BY <1>1, <1>2, <1>3, Parts DEF Struct, TopLeaf
<1>5. Control' /\ Begins'
  BY <1>1, <1>2 DEF IInv, Control, Begins, Phases, Parsing, Updates
<1>6. Fields'
  BY <1>1, FieldsKept
<1> QED BY <1>4, <1>5, <1>6 DEF IInv

\* The next value is released.
LEMMA ReleaseNextStep ==
  ASSUME IInv, ReleaseNext
  PROVE  IInv'
<1> DEFINE n == Last(stack)
<1>1. /\ pc = "release" /\ places = <<>> /\ stack # <<>> /\ pc' = "release"
      /\ places' = Down(links, n) /\ stack' = Front(stack)
      /\ UNCHANGED <<formula, at, todo, links, node, mem, cur_id, rot>>
  BY DEF ReleaseNext, Over, Begin, words
<1>2. todo = <<>>
  BY <1>1 DEF IInv, Control, Parsing
<1>3. Pending = <<>> /\ Releasing = NULL
  BY <1>1, <1>2 DEF Pending, Releasing
<1>4. Forest(links) /\ Alive(links, mem) /\ Distinct(stack, <<>>) /\ OwnedBy(stack, <<>>, NULL, links, mem)
  BY <1>2, <1>3, Parts
<1>5. /\ Distinct(Front(stack), <<>>) /\ n \in Nodes
      /\ \A c \in Nodes : Holds(stack, <<>>, c) <=> Holds(Front(stack), <<>>, c) \/ c = n
      /\ \A i \in 1 .. Len(Front(stack)) : Front(stack)[i] # n
  BY <1>1, <1>4, DistinctFront
<1> HIDE DEF n
<1>6. Trail(links, places') /\ TopLeaf(links, places') /\ places' # <<>> /\ places'[1].now = n
  <2>1. Forest(links) /\ n \in Nodes /\ places' = Down(links, n)
    BY <1>1, <1>4, <1>5
  <2> QED BY ONLY <2>1, WayOfDown
<1>7. Pending' = <<>> /\ Releasing' = n
  BY <1>1, <1>2, <1>6 DEF Pending, Releasing
<1>8. OwnedBy(Front(stack), <<>>, n, links, mem)
  BY <1>4, <1>5, NodeNotNull DEF OwnedBy
<1>9. Struct'
  BY <1>1, <1>2, <1>4, <1>5, <1>6, <1>7, <1>8 DEF Struct
<1>10. Control'
  BY <1>1, <1>2 DEF IInv, Control, Phases, Parsing, Updates
<1>11. Begins'
  BY <1>1, <1>5, <1>6 DEF Begins, Updates
<1>12. Fields'
  BY <1>1, FieldsKept
<1> QED BY <1>9, <1>10, <1>11, <1>12 DEF IInv

\* Nothing is left.
LEMMA ReleasedStep ==
  ASSUME IInv, Released
  PROVE  IInv'
<1>1. /\ pc = "release" /\ places = <<>> /\ stack = <<>> /\ pc' = "done"
      /\ UNCHANGED <<formula, at, stack, todo, links, node, mem, places, cur_id, rot>>
  BY DEF Released, Over, words, input
<1>2. Pending = todo /\ Releasing = NULL /\ Pending' = todo /\ Releasing' = NULL
  BY <1>1 DEF Pending, Releasing
<1>3. Struct'
  BY <1>1, <1>2, Parts DEF Struct
<1>4. Control' /\ Begins'
  BY <1>1 DEF IInv, Control, Begins, Phases, Parsing, Updates
<1>5. Fields'
  BY <1>1, FieldsKept
<1> QED BY <1>3, <1>4, <1>5 DEF IInv

\* The formula was read: the grammar leaves one value.
LEMMA AcceptStep ==
  ASSUME IInv, Accept
  PROVE  IInv'
<1>1. /\ pc = "parse" /\ todo = <<>> /\ at > Len(formula) /\ pc' \in {"release", "accepted"}
      /\ UNCHANGED <<formula, at, stack, todo, links, node, mem, places, cur_id, rot>>
  BY DEF Accept, words, input
<1>2. places = <<>> /\ formula \in Formulas /\ at \in 1 .. Len(formula) + 1 /\ Len(stack) = Values(formula, at - 1)
  BY <1>1 DEF IInv, Control, Parsing
<1>3. Pending = todo /\ Releasing = NULL /\ Pending' = todo /\ Releasing' = NULL
  BY <1>1, <1>2 DEF Pending, Releasing
<1>4. Len(stack) = 1
  <2>1. Len(formula) \in Nat
    BY <1>2, TexTreeAssumption
  <2>2. at - 1 = Len(formula)
    BY <1>1, <1>2, <2>1
  <2>3. Values(formula, Len(formula)) = 1
    BY <1>2, GrammarAssumption
  <2> QED BY <1>2, <2>2, <2>3
<1>5. Struct'
  BY <1>1, <1>2, <1>3, Parts DEF Struct, TopLeaf
<1>6. Control' /\ Begins'
  BY <1>1, <1>2, <1>4 DEF IInv, Control, Begins, Phases, Parsing, Updates
<1>7. Fields'
  BY <1>1, FieldsKept DEF Parsing
<1> QED BY <1>5, <1>6, <1>7 DEF IInv

---------------------------------------------------------------------------
(* Traversals that leave the links as they are *)

Traversed == Updates \cup {"subpaths"}

\* The tree that is traversed is the only one.
LEMMA UpdateRoot ==
  ASSUME IInv, pc \in Traversed \cup {"accepted", "updated"}
  PROVE  /\ todo = <<>> /\ Len(stack) = 1 /\ Pending = todo /\ Releasing = NULL
         /\ stack[1] \in Nodes /\ mem[stack[1]] = "live" /\ links.father[stack[1]] = NULL
         /\ pc \in Updates /\ places # <<>> => places[1].now = stack[1]
<1>1. todo = <<>> /\ Len(stack) = 1
  BY DEF IInv, Control, Parsing, Traversed, Updates
<1>2. Pending = todo /\ Releasing = NULL
  BY DEF Pending, Releasing, Traversed, Updates
<1>3. OwnedBy(stack, todo, NULL, links, mem) /\ stack \in Seq(Nodes)
  BY <1>2, Parts
<1>4. stack[1] \in Nodes /\ Holds(stack, todo, stack[1])
  <2>1. 1 \in 1 .. Len(stack)
    BY <1>1
  <2>2. stack[1] \in Nodes
    BY <1>3, <2>1
  <2>3. Holds(stack, todo, stack[1])
    BY <2>1, Zenon DEF Holds
  <2> QED BY <2>2, <2>3
<1>5. mem[stack[1]] = "live" /\ links.father[stack[1]] = NULL
  BY <1>3, <1>4 DEF OwnedBy
<1>6. pc \in Updates /\ places # <<>> => places[1].now = stack[1]
  BY DEF IInv, Begins
<1> QED BY <1>1, <1>2, <1>4, <1>5, <1>6

\* A traversal goes on, up or to the next son.
LEMMA WalkStep ==
  ASSUME IInv, pc \in Traversed, places # <<>>, NEW break \in BOOLEAN,
         places' = IF Len(places) = 1 THEN <<>>
                   ELSE IF break THEN Front(places) ELSE Front(places) \o Down(links, places[Len(places)].fwd),
         UNCHANGED <<formula, at, stack, todo, pc, links, mem, rot>>
  PROVE  Struct' /\ Control' /\ Begins'
<1>1. Forest(links) /\ Trail(links, places) /\ Alive(links, mem) /\ Distinct(stack, todo)
  BY Parts
<1>2. Trail(links, places') /\ (places' # <<>> => places'[1] = places[1])
  <2> DEFINE t == places'
  <2>1. t = IF Len(places) = 1 THEN <<>>
            ELSE IF break THEN Front(places) ELSE Front(places) \o Down(links, places[Len(places)].fwd)
    OBVIOUS
  <2>2. Forest(links) /\ Trail(links, places) /\ places # <<>> /\ break \in BOOLEAN
    BY <1>1
  <2> HIDE DEF t
  <2>3. Trail(links, t) /\ (t # <<>> => t[1] = places[1])
    BY ONLY <2>1, <2>2, WalkOn, ZenonT(60)
  <2> QED BY <2>3 DEF t
<1>3. Pending = todo /\ Releasing = NULL /\ OwnedBy(stack, todo, NULL, links, mem)
  BY UpdateRoot, Parts
<1>4. Pending' = todo /\ Releasing' = NULL
  BY DEF Pending, Releasing, Traversed, Updates
<1>5. pc \notin {"drop", "release"}
  BY DEF Traversed, Updates
<1>6. Struct'
  BY <1>1, <1>2, <1>3, <1>4, <1>5 DEF Struct
<1>7. Control'
  BY DEF IInv, Control, Phases, Parsing, Updates, Traversed
<1>8. Begins'
  BY <1>2 DEF IInv, Begins, Updates, Traversed
<1> QED BY <1>6, <1>7, <1>8

\* A callback that returns what LIST_GO_OVER returns.
LEMMA GoOverStep ==
  ASSUME IInv, pc \in Traversed, places # <<>>, Walk(GoOver, links, place),
         UNCHANGED <<formula, at, stack, todo, pc, links, mem, rot>>
  PROVE  Struct' /\ Control' /\ Begins'
<1>1. place = places[Len(places)]
  BY DEF place
<1>2. GoOver \in BOOLEAN
  BY DEF GoOver
<1>3. places' = IF Len(places) = 1 THEN <<>>
                ELSE IF GoOver THEN Front(places) ELSE Front(places) \o Down(links, places[Len(places)].fwd)
  BY <1>1, Zenon DEF Walk
<1> DEFINE b == GoOver
<1>4. b \in BOOLEAN /\ places' = IF Len(places) = 1 THEN <<>>
                ELSE IF b THEN Front(places) ELSE Front(places) \o Down(links, places[Len(places)].fwd)
  BY <1>2, <1>3
<1> HIDE DEF b
<1> QED BY <1>4, WalkStep

\* What is ahead of the traversal loses the node that was visited.
LEMMA AheadWalk ==
  ASSUME IInv, places # <<>>, Walk(GoOver, links, place), NEW A, Ahead(links, places, A)
  PROVE  /\ p \in A
         /\ places' # <<>> => Ahead(links, places', A \ {p})
<1>1. Forest(links) /\ Trail(links, places)
  BY Parts
<1>2. p \in Nodes /\ p = places[Len(places)].now /\ place = places[Len(places)] /\ Len(places) \in Nat /\ Len(places) > 0
  BY Current
<1>3. p \in A
  <2>1. Len(places) \in 1 .. Len(places)
    BY <1>2
  <2>2. p \in Placed(places)
    BY <1>2, <2>1 DEF Placed
  <2> QED BY <2>2 DEF Ahead
<1>4. CASE Len(places) = 1
  BY <1>3, <1>4 DEF Walk
<1>5. CASE Len(places) # 1
  <2>1. Len(places) > 1
    BY <1>2, <1>5, One
  <2>2. CASE GoOver
    <3>1. places' = Front(places)
      BY <1>5, <2>2 DEF Walk
    <3>2. Ahead(links, Front(places), A \ {p})
      <4> DEFINE n == p
      <4>1. /\ Forest(links) /\ Trail(links, places) /\ Len(places) > 1 /\ Ahead(links, places, A)
            /\ n = places[Len(places)].now
        BY <1>1, <1>2, <2>1
      <4> HIDE DEF n
      <4>2. Ahead(links, Front(places), A \ {n})
        BY ONLY <4>1, AheadUp
      <4> QED BY <4>2 DEF n
    <3> QED BY <1>3, <3>1, <3>2
  <2>3. CASE ~GoOver
    <3> DEFINE n == p
               d == Down(links, places[Len(places)].fwd)
    <3>1. places' = Front(places) \o d
      BY <1>2, <1>5, <2>3 DEF Walk
    <3>2. /\ Forest(links) /\ Trail(links, places) /\ Len(places) > 1 /\ Ahead(links, places, A)
          /\ n = places[Len(places)].now /\ n # links.sons[links.father[n]].last
          /\ d = Down(links, places[Len(places)].fwd)
      BY <1>1, <1>2, <2>1, <2>3 DEF GoOver
    <3> HIDE DEF n, d
    <3>3. Ahead(links, Front(places) \o d, A \ {n})
      BY ONLY <3>2, AheadOn
    <3> QED BY <1>3, <3>1, <3>3 DEF n
  <2> QED BY <2>2, <2>3
<1> QED BY <1>4, <1>5

\* A traversal of the tree begins: everything is ahead of it.
LEMMA BeginStep ==
  ASSUME IInv, pc \in Updates \cup {"accepted"}, places = <<>>, NEW phase \in Updates, Begin(phase, root),
         UNCHANGED <<formula, at, stack, todo, links, mem, rot>>
  PROVE  Struct' /\ Control' /\ Begins' /\ places' # <<>> /\ Ahead(links, places', Nodes)
<1> DEFINE n == stack[1]
<1>1. pc' = phase /\ places' = Down(links, n)
  BY DEF Begin, root
<1>2. /\ Forest(links) /\ Alive(links, mem) /\ Distinct(stack, todo)
  BY Parts
<1>3. /\ todo = <<>> /\ Len(stack) = 1 /\ Pending = todo /\ Releasing = NULL
      /\ n \in Nodes /\ links.father[n] = NULL
  BY UpdateRoot DEF Traversed
<1>4. OwnedBy(stack, todo, NULL, links, mem)
  BY <1>3, Parts
<1> HIDE DEF n
<1>5. Trail(links, places') /\ places' # <<>> /\ places'[1].now = n /\ Ahead(links, places', Nodes)
  <2>1. Forest(links) /\ n \in Nodes /\ links.father[n] = NULL /\ places' = Down(links, n)
    BY <1>1, <1>2, <1>3
  <2>2. Trail(links, places') /\ places' # <<>> /\ places'[1].now = n
    BY ONLY <2>1, WayOfDown
  <2>3. Ahead(links, places', Nodes)
    BY ONLY <2>1, AheadBegin
  <2> QED BY <2>2, <2>3
<1>6. Pending' = todo /\ Releasing' = NULL
  BY <1>1 DEF Pending, Releasing, Updates
<1>7. Struct'
  BY <1>1, <1>2, <1>4, <1>5, <1>6 DEF Struct, Updates
<1>8. Control'
  BY <1>1, <1>3 DEF IInv, Control, Phases, Parsing, Updates
<1>9. Begins'
  BY <1>1, <1>5 DEF Begins, Updates, n
<1> QED BY <1>5, <1>7, <1>8, <1>9

---------------------------------------------------------------------------
(* The fields of the nodes *)

\* A fan is set.
LEMMA FanSet ==
  ASSUME NEW r \in NodeType, NEW k \in 0 .. MaxNodes, NEW q, q = [r EXCEPT !.n_fan = k]
  PROVE  q \in NodeType /\ q.n_fan = k /\ q.node_id = r.node_id
BY DEF NodeType

\* An id is set.
LEMMA IdSet ==
  ASSUME NEW r \in NodeType, NEW k \in 0 .. MaxNodes, NEW q, q = [r EXCEPT !.node_id = k]
  PROVE  q \in NodeType /\ q.n_fan = r.n_fan /\ q.node_id = k
BY DEF NodeType

\* A rank is set.
LEMMA RankSet ==
  ASSUME NEW r \in NodeType, NEW k \in 0 .. MaxNodes, NEW q, q = [r EXCEPT !.rank = k]
  PROVE  q \in NodeType /\ q.n_fan = r.n_fan /\ q.node_id = r.node_id
BY DEF NodeType

\* The nodes that have an id.
Numbered(nd) == {n \in Nodes : nd[n].node_id # 0}

\* At most all nodes have one.
LEMMA NumberedFinite ==
  ASSUME NEW nd
  PROVE  IsFiniteSet(Numbered(nd)) /\ Cardinality(Numbered(nd)) \in 0 .. MaxNodes
<1>1. Numbered(nd) \in SUBSET Nodes
  BY DEF Numbered
<1> QED BY <1>1, SubsetOfNodes

\* The next id is given to a node that has none.
LEMMA NumberedNext ==
  ASSUME NEW nd, NEW k, k = Cardinality(Numbered(nd)), NEW x \in Nodes, nd[x].node_id = 0,
         NEW w, \A n \in Nodes : w[n].node_id = IF n = x THEN k + 1 ELSE nd[n].node_id
  PROVE  k \in Nat /\ k + 1 \in 0 .. MaxNodes /\ k + 1 = Cardinality(Numbered(w))
<1>1. k \in Nat
  BY NumberedFinite, NodesFinite
<1>2. Numbered(w) = Numbered(nd) \cup {x} /\ x \notin Numbered(nd)
  BY <1>1 DEF Numbered
<1>3. Cardinality(Numbered(w)) = k + 1
  <2>1. IsFiniteSet(Numbered(nd))
    BY NumberedFinite
  <2>2. Cardinality(Numbered(nd) \cup {x}) = Cardinality(Numbered(nd)) + 1
    BY <1>2, <2>1, FS_AddElement
  <2> QED BY <1>2, <2>2
<1>4. Cardinality(Numbered(w)) \in 0 .. MaxNodes
  BY NumberedFinite
<1> QED BY <1>1, <1>3, <1>4

\* No id changes.
LEMMA NumberedSame ==
  ASSUME NEW nd, NEW w, \A n \in Nodes : w[n].node_id = nd[n].node_id
  PROVE  Numbered(w) = Numbered(nd)
BY DEF Numbered

\* What the fields of the invariant say.
LEMMA FieldParts ==
  ASSUME IInv
  PROVE  /\ node \in [Nodes -> NodeType] /\ cur_id = Cardinality(Numbered(node))
         /\ \A n \in Nodes : node[n] \in NodeType /\ node[n].n_fan \in 0 .. MaxNodes /\ node[n].node_id \in 0 .. MaxNodes
<1>1. node \in [Nodes -> NodeType] /\ cur_id = Cardinality(Numbered(node))
  BY DEF IInv, Fields, Numbered
<1> QED BY <1>1 DEF NodeType

---------------------------------------------------------------------------
(* The traversals of an update *)

\* tex_tr_update() begins.
LEMMA UpdateStep ==
  ASSUME IInv, Update
  PROVE  IInv'
<1>1. /\ pc = "accepted" /\ pc' = "set_1" /\ Begin("set_1", root)
      /\ UNCHANGED <<formula, at, stack, todo, links, node, mem, cur_id, rot>>
  BY DEF Update, words, input, Begin
<1>2. places = <<>>
  BY <1>1 DEF IInv, Control
<1>3. "set_1" \in Updates
  BY DEF Updates
<1>4. Struct' /\ Control' /\ Begins'
  BY <1>1, <1>2, <1>3, BeginStep
<1>5. Fields'
  BY <1>1 DEF IInv, Fields, Parsing
<1> QED BY <1>4, <1>5 DEF IInv

\* The traversals of an update follow each other.
Follows(phase, next) ==
  \/ phase = "set_1" /\ next = "group"
  \/ phase = "group" /\ next = "prune"
  \/ phase = "prune" /\ next = "leaf_id"
  \/ phase = "leaf_id" /\ next = "internal"

\* The next traversal begins.
LEMMA NextWalkStep ==
  ASSUME IInv, NEW phase, NEW next, NextWalk(phase, next), Follows(phase, next)
  PROVE  IInv'
<1>0. \/ phase = "set_1" /\ next = "group"
      \/ phase = "group" /\ next = "prune"
      \/ phase = "prune" /\ next = "leaf_id"
      \/ phase = "leaf_id" /\ next = "internal"
  BY DEF Follows
<1>1. /\ pc = phase /\ pc' = next /\ Begin(next, root) /\ places = <<>>
      /\ UNCHANGED <<formula, at, stack, todo, links, node, mem, cur_id, rot>>
  BY DEF NextWalk, Over, words, input, Begin
<1>2. phase \in Updates /\ next \in Updates
  BY <1>0 DEF Updates
<1>3. Struct' /\ Control' /\ Begins' /\ places' # <<>> /\ Ahead(links, places', Nodes)
  BY <1>1, <1>2, BeginStep
<1>4. /\ node \in [Nodes -> NodeType]
      /\ cur_id = Cardinality({n \in Nodes : node[n].node_id # 0})
      /\ pc = "set_1" => \A n \in Nodes : node[n].n_fan <= 1
      /\ pc \in {"set_1", "group", "prune"} => \A n \in Nodes : node[n].node_id = 0
      /\ pc = "leaf_id" => \A n \in Nodes : node[n].node_id # 0 => links.sons[n].now = NULL
  BY DEF IInv, Fields
<1>5. Fields'
  BY <1>0, <1>1, <1>3, <1>4 DEF Fields, Parsing
<1> QED BY <1>3, <1>5 DEF IInv

\* leaf_n_fan_set_1(): no fan is more than one.
LEMMA Set1Step ==
  ASSUME IInv, leaf_n_fan_set_1
  PROVE  IInv'
<1>1. /\ pc = "set_1" /\ places # <<>> /\ Walk(GoOver, links, place)
      /\ node' = IF Leaf(p) THEN [node EXCEPT ![p].n_fan = 1] ELSE node
      /\ UNCHANGED <<formula, at, stack, todo, pc, links, mem, cur_id, rot>>
  BY DEF leaf_n_fan_set_1, At, words, input
<1>2. p \in Nodes
  BY <1>1, Current
<1>3. Struct' /\ Control' /\ Begins'
  BY <1>1, GoOverStep DEF Traversed, Updates
<1>4. /\ node \in [Nodes -> NodeType] /\ cur_id = Cardinality(Numbered(node))
      /\ \A n \in Nodes : node[n] \in NodeType /\ node[n].n_fan <= 1 /\ node[n].node_id = 0
  <2>1. \A n \in Nodes : node[n].n_fan <= 1 /\ node[n].node_id = 0
    BY <1>1 DEF IInv, Fields
  <2> QED BY <2>1, FieldParts
<1>5. DOMAIN node' = Nodes /\ node' = [n \in Nodes |-> node'[n]]
  BY <1>1, <1>4
<1>6. ASSUME NEW n \in Nodes
      PROVE  node'[n] \in NodeType /\ node'[n].n_fan <= 1 /\ node'[n].node_id = 0
  <2>1. CASE Leaf(p) /\ n = p
    <3> DEFINE q == [node[p] EXCEPT !.n_fan = 1]
    <3>1. node'[n] = q
      BY <1>1, <1>2, <1>4, <2>1
    <3>2. 1 \in 0 .. MaxNodes
      BY NodesFinite
    <3>3. q = [node[p] EXCEPT !.n_fan = 1] /\ node[p] \in NodeType
      BY <1>2, <1>4
    <3> HIDE DEF q
    <3>4. q \in NodeType /\ q.n_fan = 1 /\ q.node_id = node[p].node_id
      BY <3>2, <3>3, FanSet
    <3> QED BY <1>2, <1>4, <3>1, <3>4
  <2>2. CASE ~(Leaf(p) /\ n = p)
    <3>1. node'[n] = node[n]
      BY <1>1, <1>2, <1>4, <2>2
    <3> QED BY <1>4, <3>1
  <2> QED BY <2>1, <2>2
<1>7. node' \in [Nodes -> NodeType]
  BY <1>5, <1>6
<1>8. Cardinality(Numbered(node')) = cur_id
  <2>1. \A n \in Nodes : node'[n].node_id = node[n].node_id
    BY <1>4, <1>6
  <2> QED BY <1>4, <2>1, NumberedSame
<1>9. Fields'
  BY <1>1, <1>6, <1>7, <1>8 DEF Fields, Parsing, Numbered
<1> QED BY <1>3, <1>9 DEF IInv

\* group_leaf(): a node is visited once, before it its fan is at most one.
LEMMA GroupStep ==
  ASSUME IInv, group_leaf
  PROVE  IInv'
<1> DEFINE B == Brothers(p)
           k == node[p].n_fan + Cardinality(B)
           grouped == Leaf(p) /\ node[p].n_fan # 0 /\ links.father[p] # NULL
<1>1. /\ pc = "group" /\ places # <<>> /\ Walk(GoOver, links, place)
      /\ node' = IF grouped
                 THEN [n \in Nodes |-> IF n = p THEN [node[p] EXCEPT !.n_fan = k]
                                       ELSE IF n \in B THEN [node[n] EXCEPT !.n_fan = 0]
                                       ELSE node[n]]
                 ELSE node
      /\ UNCHANGED <<formula, at, stack, todo, pc, links, mem, cur_id, rot>>
  BY DEF group_leaf, At, words, input
<1>2. p \in Nodes
  BY <1>1, Current
<1>3. Struct' /\ Control' /\ Begins'
  BY <1>1, GoOverStep DEF Traversed, Updates
<1>4. /\ node \in [Nodes -> NodeType] /\ cur_id = Cardinality(Numbered(node))
      /\ \A n \in Nodes : node[n] \in NodeType /\ node[n].n_fan \in 0 .. MaxNodes /\ node[n].node_id = 0
  <2>1. \A n \in Nodes : node[n].node_id = 0
    BY <1>1 DEF IInv, Fields
  <2> QED BY <2>1, FieldParts
<1>5. PICK A : Ahead(links, places, A) /\ \A n \in A : node[n].n_fan <= 1
  BY <1>1 DEF IInv, Fields
<1>6. /\ p \in A /\ A \subseteq Nodes
      /\ places' # <<>> => Ahead(links, places', A \ {p})
  <2>1. A \subseteq Nodes
    BY <1>5 DEF Ahead
  <2> QED BY <1>1, <1>5, <2>1, AheadWalk
<1>7. k \in 0 .. MaxNodes
  <2>1. B \in SUBSET Nodes /\ p \notin B
    BY DEF Brothers, Sons, Live
  <2> HIDE DEF B
  <2>2. IsFiniteSet(B) /\ Cardinality(B) \in Nat
    BY <2>1, SubsetOfNodes, NodesFinite
  <2>3. Cardinality(B \cup {p}) = Cardinality(B) + 1
    BY <2>1, <2>2, FS_AddElement
  <2>4. Cardinality(B \cup {p}) \in 0 .. MaxNodes
    BY <1>2, <2>1, SubsetOfNodes
  <2>5. node[p].n_fan \in 0 .. MaxNodes /\ node[p].n_fan <= 1
    BY <1>2, <1>4, <1>5, <1>6
  <2> QED BY <2>2, <2>3, <2>4, <2>5, NodesFinite
<1> HIDE DEF k, B
<1>8. DOMAIN node' = Nodes /\ node' = [n \in Nodes |-> node'[n]]
  BY <1>1, <1>4
<1>9. ASSUME NEW n \in Nodes
      PROVE  /\ node'[n] \in NodeType /\ node'[n].node_id = 0
             /\ n # p /\ node[n].n_fan <= 1 => node'[n].n_fan <= 1
  <2>1. CASE grouped /\ n = p
    <3> DEFINE q == [node[p] EXCEPT !.n_fan = k]
    <3>1. node'[n] = q
      BY <1>1, <1>2, <2>1
    <3>2. q = [node[p] EXCEPT !.n_fan = k] /\ node[p] \in NodeType
      BY <1>2, <1>4
    <3> HIDE DEF q
    <3>3. q \in NodeType /\ q.n_fan = k /\ q.node_id = node[p].node_id
      BY <1>7, <3>2, FanSet
    <3> QED BY <1>2, <1>4, <2>1, <3>1, <3>3
  <2>2. CASE grouped /\ n # p /\ n \in B
    <3> DEFINE q == [node[n] EXCEPT !.n_fan = 0]
    <3>1. node'[n] = q
      BY <1>1, <2>2
    <3>2. 0 \in 0 .. MaxNodes
      BY NodesFinite
    <3>3. q = [node[n] EXCEPT !.n_fan = 0] /\ node[n] \in NodeType
      BY <1>4
    <3> HIDE DEF q
    <3>4. q \in NodeType /\ q.n_fan = 0 /\ q.node_id = node[n].node_id
      BY <3>2, <3>3, FanSet
    <3> QED BY <1>4, <3>1, <3>4
  <2>3. CASE ~grouped \/ (n # p /\ n \notin B)
    <3>1. node'[n] = node[n]
      BY <1>1, <2>3
    <3> QED BY <1>4, <3>1
  <2> QED BY <2>1, <2>2, <2>3
<1>10. node' \in [Nodes -> NodeType]
  BY <1>8, <1>9
<1>11. Cardinality(Numbered(node')) = cur_id
  <2>1. \A n \in Nodes : node'[n].node_id = node[n].node_id
    BY <1>4, <1>9
  <2> QED BY <1>4, <2>1, NumberedSame
<1>12. \A n \in A \ {p} : node'[n].n_fan <= 1
  BY <1>5, <1>6, <1>9
<1>13. Fields'
  BY <1>1, <1>6, <1>9, <1>10, <1>11, <1>12 DEF Fields, Parsing, Numbered
<1> QED BY <1>3, <1>13 DEF IInv

\* prune(): the current node is detached and freed, or the traversal goes on.
LEMMA PruneStep ==
  ASSUME IInv, prune
  PROVE  IInv'
<1>1. /\ pc = "prune" /\ places # <<>>
      /\ CanPrune => DetachFree
      /\ ~CanPrune => Walk(GoOver, links, place) /\ UNCHANGED <<links, mem>>
      /\ UNCHANGED <<formula, at, stack, todo, pc, node, cur_id, rot>>
  BY DEF prune, At, words, input
<1>2. /\ todo = <<>> /\ Pending = todo /\ Releasing = NULL
      /\ places[1].now = stack[1] /\ links.father[stack[1]] = NULL
  BY <1>1, UpdateRoot DEF Traversed, Updates
<1>3. Struct' /\ Control' /\ Begins'
  <2>1. CASE CanPrune
    <3>1. Leaf(p) /\ links.father[p] # NULL
      BY <2>1 DEF CanPrune
    <3>2. /\ Alive(links', mem') /\ Trail(links', places')
          /\ places' # <<>> /\ places'[1] = places[1]
          /\ \A c \in Nodes : mem'[c] = "live" /\ links'.father[c] = NULL <=>
                              mem[c] = "live" /\ links.father[c] = NULL /\ c # p
      BY <1>1, <1>2, <2>1, <3>1, DetachFreeAlive
    <3>3. OwnedBy(stack, todo, NULL, links, mem) /\ Distinct(stack, todo)
      BY <1>2, Parts
    <3>4. OwnedBy(stack, todo, NULL, links', mem')
      BY <3>1, <3>2, <3>3 DEF OwnedBy
    <3>5. Pending' = todo /\ Releasing' = NULL
      BY <1>1 DEF Pending, Releasing
    <3>6. Struct'
      BY <1>1, <3>2, <3>3, <3>4, <3>5 DEF Struct
    <3>7. Control'
      BY <1>1 DEF IInv, Control, Phases, Parsing, Updates
    <3>8. Begins'
      BY <1>1, <1>2, <3>2 DEF Begins, Updates
    <3> QED BY <3>6, <3>7, <3>8
  <2>2. CASE ~CanPrune
    BY <1>1, <2>2, GoOverStep DEF Traversed, Updates
  <2> QED BY <2>1, <2>2
<1>4. Fields'
  <2>1. /\ node \in [Nodes -> NodeType] /\ cur_id = Cardinality({n \in Nodes : node[n].node_id # 0})
        /\ \A n \in Nodes : node[n].node_id = 0
    BY <1>1 DEF IInv, Fields
  <2> QED BY <1>1, <2>1 DEF Fields, Parsing
<1> QED BY <1>3, <1>4 DEF IInv

\* assign_leaf_id(): a leaf is visited once, and has no id before.
LEMMA LeafIdStep ==
  ASSUME IInv, assign_leaf_id
  PROVE  IInv'
<1>1. /\ pc = "leaf_id" /\ places # <<>> /\ Walk(GoOver, links, place)
      /\ Leaf(p) => cur_id' = cur_id + 1 /\ node' = [node EXCEPT ![p].node_id = cur_id + 1]
      /\ ~Leaf(p) => UNCHANGED <<cur_id, node>>
      /\ UNCHANGED <<formula, at, stack, todo, pc, links, mem, rot>>
  BY DEF assign_leaf_id, At, input
<1>2. p \in Nodes
  BY <1>1, Current
<1>3. Struct' /\ Control' /\ Begins'
  BY <1>1, GoOverStep DEF Traversed, Updates
<1>4. /\ node \in [Nodes -> NodeType] /\ cur_id = Cardinality(Numbered(node))
      /\ \A n \in Nodes : node[n] \in NodeType
      /\ \A n \in Nodes : node[n].node_id # 0 => links.sons[n].now = NULL
  <2>1. \A n \in Nodes : node[n].node_id # 0 => links.sons[n].now = NULL
    BY <1>1 DEF IInv, Fields
  <2> QED BY <2>1, FieldParts
<1>5. PICK A : Ahead(links, places, A) /\ \A n \in A : node[n].node_id = 0
  BY <1>1 DEF IInv, Fields
<1>6. /\ p \in A /\ A \subseteq Nodes
      /\ places' # <<>> => Ahead(links, places', A \ {p})
  <2>1. A \subseteq Nodes
    BY <1>5 DEF Ahead
  <2> QED BY <1>1, <1>5, <2>1, AheadWalk
<1>7. CASE ~Leaf(p)
  <2>1. Cardinality(Numbered(node)) = cur_id /\ \A n \in A \ {p} : node[n].node_id = 0
    BY <1>4, <1>5
  <2>2. Fields'
    BY <1>1, <1>4, <1>6, <1>7, <2>1 DEF Fields, Parsing, Numbered
  <2> QED BY <1>3, <2>2 DEF IInv
<1>8. CASE Leaf(p)
  <2> DEFINE q == [node[p] EXCEPT !.node_id = cur_id + 1]
             k == cur_id
  <2>1. node' = [node EXCEPT ![p] = q] /\ cur_id' = k + 1
    BY <1>1, <1>8
  <2>2. node[p].node_id = 0 /\ k = Cardinality(Numbered(node))
    BY <1>4, <1>5, <1>6
  <2>3. DOMAIN node' = Nodes /\ node' = [n \in Nodes |-> node'[n]]
        /\ \A n \in Nodes : node'[n] = IF n = p THEN q ELSE node[n]
    BY <1>2, <1>4, <2>1
  <2>4. q = [node[p] EXCEPT !.node_id = k + 1] /\ node[p] \in NodeType
    BY <1>2, <1>4
  <2> HIDE DEF q, k
  <2>5. k + 1 \in Nat /\ q.node_id = k + 1
    <3>1. k \in Nat
      BY <2>2, NumberedFinite, NodesFinite
    <3> QED BY <2>4, <3>1 DEF NodeType
  <2>6. \A n \in Nodes : node'[n].node_id = IF n = p THEN k + 1 ELSE node[n].node_id
    BY <2>3, <2>5
  <2>7. k \in Nat /\ k + 1 \in 0 .. MaxNodes /\ k + 1 = Cardinality(Numbered(node'))
    <3> DEFINE w == node'
    <3>1. p \in Nodes /\ node[p].node_id = 0 /\ k = Cardinality(Numbered(node))
          /\ \A n \in Nodes : w[n].node_id = IF n = p THEN k + 1 ELSE node[n].node_id
      BY <1>2, <2>2, <2>6
    <3> HIDE DEF w
    <3>2. k \in Nat /\ k + 1 \in 0 .. MaxNodes /\ k + 1 = Cardinality(Numbered(w))
      BY <3>1, NumberedNext
    <3> QED BY <3>2 DEF w
  <2>8. q \in NodeType
    BY <2>4, <2>7, IdSet
  <2>9. node' \in [Nodes -> NodeType]
    BY <1>4, <2>3, <2>8
  <2>10. \A n \in A \ {p} : node'[n].node_id = 0
    BY <1>5, <1>6, <2>6
  <2>11. \A n \in Nodes : node'[n].node_id # 0 => links.sons[n].now = NULL
    BY <1>4, <1>8, <2>6 DEF Leaf
  <2>12. cur_id' = Cardinality({n \in Nodes : node'[n].node_id # 0})
    BY <2>1, <2>7 DEF Numbered
  <2>13. Fields'
    BY <1>1, <1>6, <2>9, <2>10, <2>11, <2>12 DEF Fields, Parsing
  <2> QED BY <1>3, <2>13 DEF IInv
<1> QED BY <1>7, <1>8

\* count_sons() of an internal node: its fan, and the ranks of its sons.
LEMMA AssignedFields ==
  ASSUME IInv, NEW x \in Nodes, links.sons[x].now # NULL, cur_id + 1 \in 0 .. MaxNodes
  PROVE  /\ DOMAIN Assigned(x) = Nodes /\ Assigned(x) = [n \in Nodes |-> Assigned(x)[n]]
         /\ \A n \in Nodes : /\ Assigned(x)[n] \in NodeType
                             /\ Assigned(x)[n].node_id = IF n = x THEN cur_id + 1 ELSE node[n].node_id
                             /\ IF n = x THEN Assigned(x)[n].n_fan # 0 ELSE Assigned(x)[n].n_fan = node[n].n_fan
<1>1. Alive(links, mem) /\ Forest(links)
  BY Parts
<1> DEFINE s == SonSeq(x)
<1>2. \E r : IsList(links, x, r)
  BY <1>1 DEF Forest
<1>3. Len(s) \in 0 .. MaxNodes /\ DOMAIN s = 1 .. Len(s) /\ IsList(links, x, s)
  BY <1>1, <1>2, SonList
<1>4. Len(s) # 0
  <2> HIDE DEF s
  <2> QED BY <1>1, <1>3, ListHead DEF Forest
<1>5. \A n \in Nodes : node[n] \in NodeType
  BY FieldParts
<1> DEFINE w == Assigned(x)
           R(n) == (CHOOSE i \in DOMAIN s : s[i] = n) - 1
<1>6. w = [n \in Nodes |->
             IF n = x THEN [node[n] EXCEPT !.node_id = cur_id + 1, !.n_fan = Len(s)]
             ELSE IF n \in ToSet(s) THEN [node[n] EXCEPT !.rank = R(n)]
             ELSE node[n]]
  BY Zenon DEF Assigned
<1>7. DOMAIN w = Nodes /\ w = [n \in Nodes |-> w[n]]
  BY <1>6
<1>8. /\ w[x] = [node[x] EXCEPT !.node_id = cur_id + 1, !.n_fan = Len(s)]
      /\ \A n \in Nodes : n # x => w[n] = IF n \in ToSet(s) THEN [node[n] EXCEPT !.rank = R(n)] ELSE node[n]
  BY <1>6
<1> HIDE DEF w, s
<1>9. ASSUME NEW n \in Nodes
      PROVE  /\ w[n] \in NodeType
             /\ w[n].node_id = IF n = x THEN cur_id + 1 ELSE node[n].node_id
             /\ IF n = x THEN w[n].n_fan # 0 ELSE w[n].n_fan = node[n].n_fan
  <2>1. CASE n = x
    <3>1. node[x] \in NodeType
      BY <1>5
    <3>2. w[x] \in NodeType /\ w[x].node_id = cur_id + 1 /\ w[x].n_fan = Len(s)
      BY <1>3, <1>8, <3>1 DEF NodeType
    <3> QED BY <1>4, <2>1, <3>2
  <2>2. CASE n # x /\ n \in ToSet(s)
    <3>1. \E i \in DOMAIN s : s[i] = n
      BY <2>2 DEF ToSet
    <3>2. (CHOOSE i \in DOMAIN s : s[i] = n) \in 1 .. Len(s)
      BY <1>3, <3>1
    <3>3. R(n) \in 0 .. MaxNodes
      BY <1>3, <3>2, NodesFinite
    <3> DEFINE r == R(n)
               q == [node[n] EXCEPT !.rank = r]
    <3>4. w[n] = q
      BY <1>8, <2>2
    <3>5. q = [node[n] EXCEPT !.rank = r] /\ node[n] \in NodeType /\ r \in 0 .. MaxNodes
      BY <1>5, <3>3
    <3> HIDE DEF q, r, R
    <3>6. q \in NodeType /\ q.n_fan = node[n].n_fan /\ q.node_id = node[n].node_id
      BY <3>5, RankSet
    <3> QED BY <2>2, <3>4, <3>6
  <2>3. CASE n # x /\ n \notin ToSet(s)
    <3>1. w[n] = node[n]
      BY <1>8, <2>3
    <3> QED BY <1>5, <2>3, <3>1
  <2> QED BY <2>1, <2>2, <2>3
<1> QED BY <1>7, <1>9 DEF w

\* assign_internal(): a node with sons gets its id when it has no fan yet.
LEMMA InternalStep ==
  ASSUME IInv, assign_internal
  PROVE  IInv'
<1>1. /\ pc = "internal" /\ places # <<>> /\ Walk(GoOver, links, place)
      /\ ~Leaf(p) /\ node[p].n_fan = 0 => cur_id' = cur_id + 1 /\ node' = Assigned(p)
      /\ ~(~Leaf(p) /\ node[p].n_fan = 0) => UNCHANGED <<cur_id, node>>
      /\ UNCHANGED <<formula, at, stack, todo, pc, links, mem, rot>>
  BY DEF assign_internal, At, input
<1>2. p \in Nodes
  BY <1>1, Current
<1>3. Struct' /\ Control' /\ Begins'
  BY <1>1, GoOverStep DEF Traversed, Updates
<1>4. /\ node \in [Nodes -> NodeType] /\ cur_id = Cardinality(Numbered(node))
      /\ \A n \in Nodes : node[n] \in NodeType
      /\ \A n \in Nodes : node[n].node_id # 0 => links.sons[n].now = NULL \/ node[n].n_fan # 0
  <2>1. \A n \in Nodes : node[n].node_id # 0 => links.sons[n].now = NULL \/ node[n].n_fan # 0
    BY <1>1 DEF IInv, Fields
  <2> QED BY <2>1, FieldParts
<1>5. CASE ~(~Leaf(p) /\ node[p].n_fan = 0)
  <2>1. Cardinality(Numbered(node)) = cur_id
    BY <1>4
  <2>2. Fields'
    BY <1>1, <1>4, <1>5, <2>1 DEF Fields, Parsing, Numbered
  <2> QED BY <1>3, <2>2 DEF IInv
<1>6. CASE ~Leaf(p) /\ node[p].n_fan = 0
  <2> DEFINE w == Assigned(p)
             k == cur_id
             x == p
  <2>1. node' = w /\ cur_id' = k + 1
    BY <1>1, <1>6
  <2>2. x \in Nodes /\ node[x].node_id = 0 /\ k = Cardinality(Numbered(node)) /\ links.sons[x].now # NULL
    BY <1>2, <1>4, <1>6 DEF Leaf
  <2>3. k + 1 \in 0 .. MaxNodes
    <3> DEFINE v == [n \in Nodes |-> IF n = x THEN [node_id |-> k + 1] ELSE node[n]]
    <3>1. \A n \in Nodes : v[n].node_id = IF n = x THEN k + 1 ELSE node[n].node_id
      OBVIOUS
    <3> HIDE DEF v, k, x
    <3> QED BY <2>2, <3>1, NumberedNext
  <2>4. /\ DOMAIN w = Nodes /\ w = [n \in Nodes |-> w[n]]
        /\ \A n \in Nodes : /\ w[n] \in NodeType
                            /\ w[n].node_id = IF n = x THEN k + 1 ELSE node[n].node_id
                            /\ IF n = x THEN w[n].n_fan # 0 ELSE w[n].n_fan = node[n].n_fan
    BY <2>2, <2>3, AssignedFields
  <2> HIDE DEF w, k, x
  <2>5. k + 1 = Cardinality(Numbered(w))
    BY <2>2, <2>4, NumberedNext
  <2>6. w \in [Nodes -> NodeType]
    BY <2>4
  <2>7. \A n \in Nodes : w[n].node_id # 0 => links.sons[n].now = NULL \/ w[n].n_fan # 0
    BY <1>4, <2>2, <2>4
  <2>8. Fields'
    BY <1>1, <2>1, <2>5, <2>6, <2>7 DEF Fields, Parsing, Numbered
  <2> QED BY <1>3, <2>8 DEF IInv
<1> QED BY <1>5, <1>6

\* The tree was updated, or has no leaves or too many.
LEMMA UpdatedStep ==
  ASSUME IInv, Updated
  PROVE  IInv'
<1>1. /\ pc = "internal" /\ places = <<>> /\ pc' \in {"release", "updated"}
      /\ UNCHANGED <<formula, at, stack, todo, links, node, mem, places, cur_id, rot>>
  BY DEF Updated, Over, words, input
<1>2. todo = <<>> /\ Len(stack) = 1 /\ Pending = todo /\ Releasing = NULL
  BY <1>1, UpdateRoot DEF Traversed, Updates
<1>3. Pending' = todo /\ Releasing' = NULL
  BY <1>1 DEF Pending, Releasing
<1>4. Struct'
  BY <1>1, <1>2, <1>3, Parts DEF Struct, TopLeaf
<1>5. Control' /\ Begins'
  BY <1>1, <1>2 DEF IInv, Control, Begins, Phases, Parsing, Updates
<1>6. Fields'
  BY <1>1, FieldsKept
<1> QED BY <1>4, <1>5, <1>6 DEF IInv

---------------------------------------------------------------------------
(* The branch words *)

\* tex_tr_subpaths() begins.
LEMMA SubpathsStep ==
  ASSUME IInv, NEW n \in Nodes, Subpaths(n)
  PROVE  IInv'
<1>1. /\ pc = "updated" /\ n \in Live /\ rot' = n /\ pc' = "subpaths" /\ places' = Down(links, n)
      /\ UNCHANGED <<formula, at, stack, todo, links, node, mem, cur_id>>
  BY DEF Subpaths, input, Begin
<1>2. todo = <<>> /\ Len(stack) = 1 /\ Pending = todo /\ Releasing = NULL
  BY <1>1, UpdateRoot
<1>3. /\ Forest(links) /\ Alive(links, mem) /\ Distinct(stack, todo)
      /\ OwnedBy(stack, todo, NULL, links, mem)
  BY <1>2, Parts
<1>4. Trail(links, places') /\ places' # <<>> /\ places'[1].now = n
  <2>1. Forest(links) /\ n \in Nodes /\ places' = Down(links, n)
    BY <1>1, <1>3
  <2> QED BY ONLY <2>1, WayOfDown
<1>5. Pending' = todo /\ Releasing' = NULL
  BY <1>1 DEF Pending, Releasing
<1>6. Struct'
  BY <1>1, <1>3, <1>4, <1>5 DEF Struct
<1>7. Control'
  BY <1>1, <1>2 DEF IInv, Control, Phases, Parsing, Updates
<1>8. Begins'
  BY <1>1, <1>4 DEF Begins, Updates, Live
<1>9. Fields'
  BY <1>1, FieldsKept
<1> QED BY <1>6, <1>7, <1>8, <1>9 DEF IInv

\* The way up from the current node has as many nodes as there are places.
LEMMA UpLength ==
  ASSUME IInv, pc = "subpaths", places # <<>>
  PROVE  Len(Up(p)) = Len(places)
<1> DEFINE u == CHOOSE u : Ascent(links, rot, u)
           s == places
<1>1. Forest(links) /\ Trail(links, s) /\ s \in Seq(Places)
  BY Parts DEF Trail
<1>2. Ascent(links, rot, u)
  BY <1>1, AscentExists
<1>3. Up(p) = u[p]
  BY DEF Up, Ascent
<1>4. rot \in Nodes /\ s[1].now = rot
  BY DEF IInv, Begins
<1>5. p = s[Len(s)].now /\ Len(s) \in Nat /\ Len(s) > 0
  BY Current
<1> HIDE DEF u
<1>6. \A i \in 1 .. Len(s) : s[i].now \in Nodes
  BY <1>1, WayNodes
<1> DEFINE G(k) == u[s[k].now] \in Seq(Nodes) /\ Len(u[s[k].now]) = k
           S == {k \in Nat : k \in 1 .. Len(s) => G(k)}
<1>7. 0 \in S
  OBVIOUS
<1>8. ASSUME NEW k \in Nat, k \in S PROVE k + 1 \in S
  <2> SUFFICES ASSUME k + 1 \in 1 .. Len(s) PROVE G(k + 1)
    OBVIOUS
  <2> DEFINE x == s[k + 1].now
  <2>1. x \in Nodes
    BY <1>6
  <2>2. u[x] = IF x = rot \/ links.father[x] = NULL THEN <<x>> ELSE <<x>> \o u[links.father[x]]
    <3> HIDE DEF x
    <3> QED BY <1>2, <2>1, Zenon DEF Ascent
  <2>3. CASE k = 0
    <3>1. k + 1 = 1
      BY <2>3
    <3>2. x = rot
      BY <1>4, <3>1
    <3>3. u[x] = <<x>>
      BY <2>2, <3>2
    <3> HIDE DEF x
    <3>4. <<x>> \in Seq(Nodes) /\ Len(<<x>>) = 1
      BY <2>1
    <3> QED BY <3>1, <3>3, <3>4 DEF x
  <2>4. CASE k # 0
    <3>1. k \in 1 .. Len(s) /\ 1 \in 1 .. Len(s) /\ k + 1 \in 2 .. Len(s) /\ k + 1 # 1 /\ (k + 1) - 1 = k
      BY <1>5, <2>4
    <3>2. x # rot
      <4>1. s[1].now # s[k + 1].now
        <5> DEFINE j == k + 1
        <5>1. j \in 1 .. Len(s) /\ j # 1
          BY <3>1
        <5> HIDE DEF j
        <5>2. s[1].now # s[j].now
          BY <1>1, <3>1, <5>1, TrailDistinct
        <5> QED BY <5>2 DEF j
      <4> QED BY <1>4, <4>1
    <3>3. links.father[x] = s[k].now
      BY <1>1, <3>1 DEF Trail
    <3>4. s[k].now \in Nodes /\ s[k].now # NULL
      BY <1>6, <3>1, NodeNotNull
    <3> DEFINE y == u[s[k].now]
    <3>5. u[x] = <<x>> \o y
      BY <2>2, <3>2, <3>3, <3>4
    <3>6. y \in Seq(Nodes) /\ Len(y) = k
      BY <1>8, <3>1
    <3> HIDE DEF x, y
    <3>7. <<x>> \o y \in Seq(Nodes) /\ Len(<<x>> \o y) = k + 1
      BY <2>1, <3>6
    <3> QED BY <3>5, <3>7 DEF x
  <2> QED BY <2>3, <2>4
<1>9. \A k \in Nat : k \in S
  <2> HIDE DEF S
  <2> QED BY <1>7, <1>8, SetInduction
<1>10. G(Len(s))
  <2>1. Len(s) \in S /\ Len(s) \in 1 .. Len(s)
    BY <1>5, <1>9
  <2> QED BY <2>1
<1> QED BY <1>3, <1>5, <1>10

\* A branch word fits its array.
LEMMA WordFits ==
  ASSUME IInv, pc = "subpaths", places # <<>>, ~Exceeds
  PROVE  ~(Len(Up(p)) >= MAX_TEX_TR_DEPTH)
<1>1. ~(Len(places) >= MAX_TEX_TR_DEPTH)
  BY DEF Exceeds
<1> QED BY <1>1, UpLength

\* gen_subpath(): the traversal goes on.
LEMMA GenSubpathStep ==
  ASSUME IInv, gen_subpath
  PROVE  IInv'
<1>1. /\ pc = "subpaths" /\ places # <<>>
      /\ \/ Walk(TRUE, links, place) /\ pc' = pc
         \/ Walk(GoOver, links, place) /\ pc' = pc
         \/ Walk(GoOver, links, place) /\ ~Exceeds /\ pc' = IF Len(Up(p)) >= MAX_TEX_TR_DEPTH THEN "fatal" ELSE pc
      /\ UNCHANGED <<formula, at, stack, todo, links, node, mem, cur_id, rot>>
  BY DEF gen_subpath, At, input
<1>2. pc' = pc /\ (Walk(TRUE, links, place) \/ Walk(GoOver, links, place))
  BY <1>1, WordFits
<1>3. Struct' /\ Control' /\ Begins'
  <2>1. CASE Walk(GoOver, links, place)
    BY <1>1, <1>2, <2>1, GoOverStep DEF Traversed
  <2>2. CASE Walk(TRUE, links, place)
    <3> DEFINE b == TRUE
    <3>1. b \in BOOLEAN /\ places' = IF Len(places) = 1 THEN <<>>
                  ELSE IF b THEN Front(places) ELSE Front(places) \o Down(links, places[Len(places)].fwd)
      BY <2>2 DEF Walk
    <3> HIDE DEF b
    <3> QED BY <1>1, <1>2, <3>1, WalkStep DEF Traversed
  <2> QED BY <1>2, <2>1, <2>2
<1>4. Fields'
  BY <1>1, <1>2, FieldsKept
<1> QED BY <1>3, <1>4 DEF IInv

\* The branch words were generated.
LEMMA GeneratedStep ==
  ASSUME IInv, Generated
  PROVE  IInv'
<1>1. /\ pc = "subpaths" /\ places = <<>> /\ pc' = "release"
      /\ UNCHANGED <<formula, at, stack, todo, links, node, mem, places, cur_id, rot>>
  BY DEF Generated, Over, words, input
<1>2. todo = <<>> /\ Pending = todo /\ Releasing = NULL
  BY <1>1, UpdateRoot DEF Traversed
<1>3. Pending' = todo /\ Releasing' = NULL
  BY <1>1 DEF Pending, Releasing
<1>4. Struct'
  BY <1>1, <1>2, <1>3, Parts DEF Struct, TopLeaf
<1>5. Control' /\ Begins'
  BY <1>1, <1>2 DEF IInv, Control, Begins, Phases, Parsing, Updates
<1>6. Fields'
  BY <1>1, FieldsKept
<1> QED BY <1>4, <1>5, <1>6 DEF IInv

\* Nothing changes.
LEMMA StutterStep ==
  ASSUME IInv, UNCHANGED vars
  PROVE  IInv'
<1>1. UNCHANGED <<formula, at, stack, todo, pc, links, node, mem, places, cur_id, rot>>
  BY DEF vars, input, words
<1>2. Struct'
  BY <1>1 DEF IInv, Struct, Pending, Releasing
<1>3. Control' /\ Begins'
  BY <1>1 DEF IInv, Control, Begins
<1>4. Fields'
  BY <1>1 DEF IInv, Fields
<1> QED BY <1>2, <1>3, <1>4 DEF IInv

---------------------------------------------------------------------------
(* The theorems *)

\* Every step keeps the invariant.
LEMMA NextInv ==
  ASSUME IInv, [Next]_vars
  PROVE  IInv'
<1>1. CASE Parse
  <2>1. CASE Atom BY <2>1, AtomStep
  <2>0. IsOperator("+", "ADD") /\ IsOperator("/", "FRAC")
    BY DEF IsOperator
  <2>2. CASE Operator("+", "ADD") BY <2>0, <2>2, OperatorStep
  <2>3. CASE Operator("/", "FRAC") BY <2>0, <2>3, OperatorStep
  <2>4. CASE Script BY <2>4, ScriptStep
  <2>5. CASE Hang BY <2>5, HangStep
  <2>6. CASE StackRel BY <2>6, StackRelStep
  <2>7. CASE AttachSon BY <2>7, AttachSonStep
  <2>8. CASE PassSons BY <2>8, PassSonsStep
  <2>9. CASE son_pass BY <2>9, SonPassStep
  <2>10. CASE Passing BY <2>10, PassingStep
  <2>11. CASE DropTree BY <2>11, DropTreeStep
  <2>12. CASE Dropped BY <2>12, DroppedStep
  <2>13. CASE SyntaxError BY <2>13, SyntaxErrorStep
  <2>14. CASE Accept BY <2>14, AcceptStep
  <2> QED BY <1>1, <2>1, <2>2, <2>3, <2>4, <2>5, <2>6, <2>7, <2>8, <2>9, <2>10, <2>11, <2>12,
             <2>13, <2>14 DEF Parse
<1>2. CASE Assign
  <2>0. /\ Follows("set_1", "group") /\ Follows("group", "prune")
        /\ Follows("prune", "leaf_id") /\ Follows("leaf_id", "internal")
    BY DEF Follows
  <2>1. CASE Update BY <2>1, UpdateStep
  <2>2. CASE leaf_n_fan_set_1 BY <2>2, Set1Step
  <2>3. CASE NextWalk("set_1", "group") BY <2>0, <2>3, NextWalkStep
  <2>4. CASE group_leaf BY <2>4, GroupStep
  <2>5. CASE NextWalk("group", "prune") BY <2>0, <2>5, NextWalkStep
  <2>6. CASE prune BY <2>6, PruneStep
  <2>7. CASE NextWalk("prune", "leaf_id") BY <2>0, <2>7, NextWalkStep
  <2>8. CASE assign_leaf_id BY <2>8, LeafIdStep
  <2>9. CASE NextWalk("leaf_id", "internal") BY <2>0, <2>9, NextWalkStep
  <2>10. CASE assign_internal BY <2>10, InternalStep
  <2>11. CASE Updated BY <2>11, UpdatedStep
  <2> QED BY <1>2, <2>1, <2>2, <2>3, <2>4, <2>5, <2>6, <2>7, <2>8, <2>9, <2>10, <2>11 DEF Assign
<1>3. CASE \E n \in Nodes : Subpaths(n)
  BY <1>3, SubpathsStep
<1>4. CASE gen_subpath BY <1>4, GenSubpathStep
<1>5. CASE Generated BY <1>5, GeneratedStep
<1>6. CASE Release BY <1>6, ReleaseStep
<1>7. CASE ReleaseNext BY <1>7, ReleaseNextStep
<1>8. CASE Released BY <1>8, ReleasedStep
<1>9. CASE Finished BY <1>9, StutterStep DEF Finished
<1>10. CASE UNCHANGED vars BY <1>10, StutterStep
<1> QED BY <1>1, <1>2, <1>3, <1>4, <1>5, <1>6, <1>7, <1>8, <1>9, <1>10 DEF Next, Step

\* From the first reduction of the parser to the release of the last node, the
\* links are a forest, the places of a traversal lead down it, every root has one
\* owner, and the fields are what the traversals have made of them so far.
THEOREM TexInvariant == Spec => []IInv
<1>1. Init => IInv
  BY InitInv
<1>2. IInv /\ [Next]_vars => IInv'
  BY NextInv
<1> QED BY <1>1, <1>2, PTL DEF Spec

\* In every step of every traversal, while its callbacks detach, free and attach
\* nodes (tree_detach() and free() in tex_tr_release() and prune(), son_pass()),
\* the lists of sons are rings that agree with the fathers, no place of a
\* traversal is a freed node, every live root is owned by somebody who will
\* release it, and no node is live when the formula is done.
THEOREM TexTyped == Spec => []TexTypeOK
<1>1. IInv => TexTypeOK
  BY InvariantTypeOK
<1> QED BY <1>1, TexInvariant, PTL

\* gen_subpath() compares the depth of the leaf with MAX_TEX_TR_DEPTH, then walks
\* up from the leaf: the way up is as long as the way down, so its assertion
\* (tex-tr.c) does not fail and the word fits its array.
THEOREM NeverFatal == Spec => [](pc # "fatal")
<1>1. IInv => pc # "fatal"
  BY DEF IInv, Control, Phases
<1> QED BY <1>1, TexInvariant, PTL

---------------------------------------------------------------------------
(* Freed nodes *)

SameLinks(a, m, n) ==
  /\ a.prev[n] = m.prev[n] /\ a.next[n] = m.next[n]
  /\ a.father[n] = m.father[n] /\ a.sons[n] = m.sons[n]

\* What a step may not do to a freed node: write its links or its fields, or
\* allocate it again.
FreedAsWas ==
  \A n \in Nodes : mem[n] = "freed" =>
    mem'[n] = "freed" /\ node'[n] = node[n] /\ SameLinks(links', links, n)

\* Attaching a live node to a live one writes links of live nodes only.
LEMMA AttachWrites ==
  ASSUME NEW m, NEW me, Alive(m, me), NEW n \in Nodes, NEW f \in Nodes, n # f,
         me[n] = "live", me[f] = "live", m.father[n] = NULL, m.father[f] = NULL,
         NEW a, a = tree_attach(m, n, f), NEW c \in Nodes, me[c] # "live"
  PROVE  SameLinks(a, m, c)
<1>1. Forest(m) /\ m.father[c] = NULL
  BY DEF Alive
<1>2. c # n /\ c # f /\ m.father[c] # f
  BY <1>1, NodeNotNull
<1>3. /\ \A x \in Nodes : a.father[x] = IF x = n THEN f ELSE m.father[x]
      /\ \A g \in Nodes \ {f} : a.sons[g] = m.sons[g]
      /\ \A x \in Nodes \ {n} : m.father[x] # f => a.next[x] = m.next[x] /\ a.prev[x] = m.prev[x]
  BY <1>1, AttachForest
<1> QED BY <1>2, <1>3 DEF SameLinks

\* Detaching a node, too.
LEMMA DetachWrites ==
  ASSUME NEW m, NEW me, Alive(m, me), NEW n \in Nodes, m.father[n] # NULL,
         NEW d, d = tree_detach(m, n), NEW c \in Nodes, me[c] # "live"
  PROVE  SameLinks(d, m, c)
<1> DEFINE f == m.father[n]
<1>1. Forest(m) /\ m.father[c] = NULL
  BY DEF Alive
<1>2. f \in Nodes /\ me[n] = "live" /\ me[f] = "live"
  BY AliveFather
<1>3. c # n /\ c # f /\ m.father[c] # f
  BY <1>1, <1>2, NodeNotNull
<1>4. m.father[n] = f
  OBVIOUS
<1> HIDE DEF f
<1>5. /\ \A x \in Nodes : d.father[x] = IF x = n THEN NULL ELSE m.father[x]
      /\ \A g \in Nodes \ {f} : d.sons[g] = m.sons[g]
      /\ \A x \in Nodes \ {n} : m.father[x] # f => d.next[x] = m.next[x] /\ d.prev[x] = m.prev[x]
  BY <1>1, <1>2, <1>4, DetachForest
<1> QED BY <1>3, <1>5 DEF SameLinks

\* tex_tr_alloc() gives nodes that were not allocated before.
LEMMA AllocWrites ==
  ASSUME IInv, pc = "parse", NEW kinds, NEW k \in Nat, k > 0, Len(kinds) = k, Alloc(kinds),
         NEW n \in Nodes, mem[n] = "freed"
  PROVE  mem'[n] = "freed" /\ node'[n] = node[n]
<1> DEFINE N == New(0)
<1>1. N \in Nat /\ New(1) = N + 1 /\ New(k) = N + k /\ N = Allocated(mem)
  <2>1. Cardinality({x \in Nodes : mem[x] # "none"}) \in 0 .. MaxNodes
    BY SubsetOfNodes
  <2> QED BY <2>1, NodesFinite DEF New, Allocated
<1> HIDE DEF N
<1>2. N + k \in Nodes
  BY <1>1 DEF Alloc
<1>3. /\ mem' = [x \in Nodes |-> IF x \in N + 1 .. N + k THEN "live" ELSE mem[x]]
      /\ n \notin N + 1 .. N + k => node'[n] = node[n]
  BY <1>1, Zenon DEF Alloc, N
<1>4. Alive(links, mem) /\ mem \in [Nodes -> {"none", "live", "freed"}]
  BY Parts DEF Alive
<1>5. /\ mem' \in [Nodes -> {"none", "live", "freed"}]
      /\ \A x \in Nodes : mem'[x] = IF x \in N + 1 .. N + k THEN "live" ELSE mem[x]
  BY <1>3, <1>4
<1>6. \A x \in N + 1 .. N + k : mem[x] = "none"
  BY <1>1, <1>2, <1>4, <1>5, AliveNew
<1>7. n \notin N + 1 .. N + k
  BY <1>6
<1> QED BY <1>3, <1>5, <1>7

\* A step that frees or links nothing and has written live nodes' fields only.
LEMMA FieldsOfLive ==
  ASSUME UNCHANGED <<links, mem>>,
         \A n \in Nodes : mem[n] = "freed" => node'[n] = node[n]
  PROVE  FreedAsWas
BY DEF FreedAsWas, SameLinks

\* The reductions.
LEMMA ReductionWrites ==
  ASSUME IInv,
         Atom \/ Operator("+", "ADD") \/ Operator("/", "FRAC") \/ Script \/ Hang \/ StackRel
  PROVE  FreedAsWas
<1>1. CASE Hang \/ StackRel
  BY <1>1 DEF Hang, StackRel, Reduce, FreedAsWas, SameLinks
<1>2. CASE Atom \/ Operator("+", "ADD") \/ Operator("/", "FRAC") \/ Script
  <2>1. pc = "parse" /\ links' = links
    BY <1>2 DEF Atom, Operator, Script, Reduce
  <2>2. \E kinds, k : k \in Nat /\ k > 0 /\ Len(kinds) = k /\ Alloc(kinds)
    <3>1. CASE Atom
      <4>1. PICK l, t : Alloc(<< <<l, t>> >>)
        BY <3>1, Zenon DEF Atom
      <4>2. Len(<< <<l, t>> >>) = 1 /\ 1 \in Nat /\ 1 > 0
        OBVIOUS
      <4> QED BY <4>1, <4>2
    <3>2. ASSUME NEW l, NEW t, Operator(l, t) PROVE \E kinds, k : k \in Nat /\ k > 0 /\ Len(kinds) = k /\ Alloc(kinds)
      <4>1. Alloc(<< <<t, t>> >>)
        BY <3>2 DEF Operator
      <4>2. Len(<< <<t, t>> >>) = 1 /\ 1 \in Nat /\ 1 > 0
        OBVIOUS
      <4> QED BY <4>1, <4>2
    <3>3. CASE Script
      <4> DEFINE kinds == << <<"SUP_SCRIPT", "SUP_SCRIPT">>, <<"HANGER", "HANGER">> >>
      <4>1. Alloc(kinds)
        BY <3>3 DEF Script
      <4>2. Len(kinds) = 2 /\ 2 \in Nat /\ 2 > 0
        OBVIOUS
      <4> QED BY <4>1, <4>2
    <3> QED BY <1>2, <3>1, <3>2, <3>3
  <2>3. \A n \in Nodes : mem[n] = "freed" => mem'[n] = "freed" /\ node'[n] = node[n]
    BY <2>1, <2>2, AllocWrites
  <2> QED BY <2>1, <2>3 DEF FreedAsWas, SameLinks
<1> QED BY <1>1, <1>2

\* tex_tr_attatch(), with and without son_pass().
LEMMA AttachCallWrites ==
  ASSUME IInv, AttachSon \/ son_pass \/ Passing
  PROVE  FreedAsWas
<1> SUFFICES ASSUME NEW c \in Nodes, mem[c] = "freed"
             PROVE  mem'[c] = "freed" /\ node'[c] = node[c] /\ SameLinks(links', links, c)
  BY DEF FreedAsWas
<1>1. Alive(links, mem)
  BY Parts
<1>2. CASE AttachSon
  <2> DEFINE f == call.f
             s == call.s
  <2>1. /\ pc = "parse" /\ todo # <<>> /\ call.call = "attach"
        /\ links' = tree_attach(links, s, f) /\ UNCHANGED <<node, mem>>
    BY <1>2 DEF AttachSon, CallTo
  <2>2. Pending = todo
    BY <2>1 DEF Pending
  <2>3. /\ s \in Nodes /\ mem[s] = "live" /\ links.father[s] = NULL
        /\ f \in Nodes /\ f # s /\ mem[f] = "live" /\ links.father[f] = NULL
    BY <2>1, <2>2, CallRoots
  <2> HIDE DEF f, s
  <2>4. SameLinks(links', links, c)
    BY <1>1, <2>1, <2>3, AttachWrites
  <2> QED BY <2>1, <2>4
<1>3. CASE son_pass
  <2> DEFINE f == call.f
             s == call.s
             n == places[1].now
             d == tree_detach(links, n)
  <2>1. pc = "pass" /\ places # <<>> /\ Len(places) = 1
    BY <1>3 DEF son_pass, At, IInv, Begins
  <2>2. p = n
    BY <2>1 DEF p, place
  <2>3. links' = tree_attach(d, n, f) /\ UNCHANGED <<node, mem>>
    BY <1>3, <2>2, Zenon DEF son_pass
  <2>4. Pending = todo /\ todo # <<>> /\ todo[1].call = "attach" /\ links.father[n] = todo[1].s
    BY <2>1 DEF Pending, IInv, Control, Begins
  <2>5. /\ s \in Nodes /\ links.father[n] = s /\ mem[s] = "live" /\ links.father[s] = NULL
        /\ f \in Nodes /\ f # s /\ mem[f] = "live" /\ links.father[f] = NULL
    BY <2>4, CallRoots
  <2>6. n \in Nodes /\ mem[n] = "live" /\ n # f
    BY <2>1, <2>2, <2>5, Current, NodeNotNull
  <2> HIDE DEF f, s, n
  <2>7. Alive(d, mem) /\ \A x \in Nodes : d.father[x] = IF x = n THEN NULL ELSE links.father[x]
    BY <1>1, <2>5, <2>6, AliveDetach
  <2>8. SameLinks(d, links, c)
    BY <1>1, <2>5, <2>6, DetachWrites, NodeNotNull
  <2> HIDE DEF d
  <2>9. d.father[n] = NULL /\ d.father[f] = NULL
    BY <2>5, <2>6, <2>7
  <2>10. SameLinks(links', d, c)
    BY <2>3, <2>5, <2>6, <2>7, <2>9, AttachWrites
  <2>11. SameLinks(links', links, c)
    BY <2>8, <2>10 DEF SameLinks
  <2> QED BY <2>3, <2>11
<1>4. CASE Passing
  <2>1. /\ mem' = [mem EXCEPT ![call.s] = "freed"] /\ UNCHANGED <<links, node>>
    BY <1>4 DEF Passing
  <2>2. mem \in [Nodes -> {"none", "live", "freed"}]
    BY <1>1 DEF Alive
  <2>3. mem'[c] = "freed"
    BY <2>1, <2>2
  <2> QED BY <2>1, <2>3 DEF SameLinks
<1> QED BY <1>2, <1>3, <1>4

\* The current node is detached and freed.
LEMMA DetachFreeWrites ==
  ASSUME IInv, places # <<>>, DetachFree, UNCHANGED node
  PROVE  FreedAsWas
<1> SUFFICES ASSUME NEW c \in Nodes, mem[c] = "freed"
             PROVE  mem'[c] = "freed" /\ SameLinks(links', links, c)
  BY DEF FreedAsWas
<1>1. Alive(links, mem) /\ mem \in [Nodes -> {"none", "live", "freed"}]
  BY Parts DEF Alive
<1>2. p \in Nodes
  BY Current
<1>3. mem'[c] = "freed"
  BY <1>1 DEF DetachFree
<1>4. links' = IF links.father[p] = NULL THEN links ELSE tree_detach(links, p)
  BY Zenon DEF DetachFree
<1>5. CASE links.father[p] = NULL
  BY <1>3, <1>4, <1>5 DEF SameLinks
<1>6. CASE links.father[p] # NULL
  BY <1>1, <1>2, <1>3, <1>4, <1>6, DetachWrites
<1> QED BY <1>5, <1>6

\* A callback of an update writes the fields of the current node, its brothers
\* and its sons.
LEMMA UpdateWrites ==
  ASSUME IInv, leaf_n_fan_set_1 \/ group_leaf \/ assign_leaf_id \/ assign_internal
  PROVE  FreedAsWas
<1>1. places # <<>> /\ UNCHANGED <<links, mem>>
  BY DEF leaf_n_fan_set_1, group_leaf, assign_leaf_id, assign_internal, At
<1> SUFFICES ASSUME NEW c \in Nodes, mem[c] = "freed"
             PROVE  node'[c] = node[c]
  BY <1>1, FieldsOfLive
<1>2. p \in Nodes /\ mem[p] = "live" /\ c # p
  BY <1>1, Current
<1>3. node \in [Nodes -> NodeType]
  BY DEF IInv, Fields
<1>4. CASE leaf_n_fan_set_1
  <2>1. node' = IF Leaf(p) THEN [node EXCEPT ![p].n_fan = 1] ELSE node
    BY <1>4 DEF leaf_n_fan_set_1
  <2> QED BY <1>2, <1>3, <2>1
<1>5. CASE group_leaf
  <2>1. c \notin Brothers(p)
    BY DEF Brothers, Sons, Live
  <2> QED BY <1>2, <1>5, <2>1 DEF group_leaf
<1>6. CASE assign_leaf_id
  <2>1. node' = [node EXCEPT ![p].node_id = cur_id + 1] \/ node' = node
    BY <1>6 DEF assign_leaf_id
  <2> QED BY <1>2, <1>3, <2>1
<1>7. CASE assign_internal
  <2>1. node' = Assigned(p) \/ node' = node
    BY <1>7 DEF assign_internal
  <2>2. c \notin ToSet(SonSeq(p))
    <3>1. Ring(p)
      BY <1>2, Parts, AliveRing
    <3>2. ToSet(SonSeq(p)) = Sons(p)
      BY <3>1 DEF Ring
    <3> QED BY <3>2 DEF Sons, Live
  <2>3. Assigned(p)[c] = node[c]
    BY <1>2, <2>2 DEF Assigned
  <2> QED BY <2>1, <2>3
<1> QED BY <1>4, <1>5, <1>6, <1>7

\* Every step.
LEMMA FreedStep ==
  ASSUME IInv, [Next]_vars
  PROVE  FreedAsWas
<1>1. ASSUME UNCHANGED <<links, node, mem>> PROVE FreedAsWas
  BY <1>1 DEF FreedAsWas, SameLinks
<1>2. CASE Parse
  <2>1. CASE PassSons \/ DropTree \/ Dropped \/ SyntaxError \/ Accept
    BY <1>1, <2>1 DEF PassSons, DropTree, Dropped, SyntaxError, Accept
  <2> QED BY <1>2, <2>1, ReductionWrites, AttachCallWrites DEF Parse
<1>3. CASE Assign
  <2>1. CASE Update \/ Updated
    BY <1>1, <2>1 DEF Update, Updated
  <2>2. ASSUME NEW phase, NEW next, NextWalk(phase, next) PROVE FreedAsWas
    BY <1>1, <2>2 DEF NextWalk
  <2>3. CASE prune
    <3>1. CASE CanPrune
      BY <2>3, <3>1, DetachFreeWrites DEF prune, At
    <3>2. CASE ~CanPrune
      BY <1>1, <2>3, <3>2 DEF prune
    <3> QED BY <3>1, <3>2
  <2> QED BY <1>3, <2>1, <2>2, <2>3, UpdateWrites DEF Assign
<1>4. CASE (\E n \in Nodes : Subpaths(n)) \/ gen_subpath \/ Generated \/ ReleaseNext \/ Released
  BY <1>1, <1>4 DEF Subpaths, gen_subpath, Generated, ReleaseNext, Released
<1>5. CASE Release
  <2>1. places # <<>> /\ DetachFree /\ UNCHANGED node
    BY <1>5 DEF Release, At
  <2> QED BY <2>1, DetachFreeWrites
<1>6. CASE Finished \/ UNCHANGED vars
  BY <1>1, <1>6 DEF Finished, vars
<1> QED BY <1>2, <1>3, <1>4, <1>5, <1>6 DEF Next, Step

\* A node that tex_tr_release(), tex_tr_prune() or tex_tr_attatch() has freed is
\* never written and never linked again by a later step, although all of them
\* write the links of the neighbours, heads and fathers of other nodes.
THEOREM FreedIsLeftAlone == Spec => [][FreedAsWas]_vars
<1>1. IInv /\ [Next]_vars => [FreedAsWas]_vars
  BY FreedStep
<1> QED BY <1>1, TexInvariant, PTL DEF Spec

---------------------------------------------------------------------------
(* A traversal leaves nothing out *)

\* The nodes that a traversal has visited are in D: with a node everything below
\* it; with a node, visited or on the way, its brothers before it; and what is
\* below the current node.
Behind(m, s, D) ==
  /\ D \subseteq Nodes
  /\ \A y \in Nodes : m.father[y] \in D => y \in D
  /\ s # <<>> =>
       /\ \A x \in D \cup Placed(s) : x # s[1].now /\ m.father[x] # NULL /\ x # m.sons[m.father[x]].now =>
            m.prev[x] \in D
       /\ \A y \in Nodes : m.father[y] = s[Len(s)].now => y \in D

\* The father of the first place is none of the places.
LEMMA TopFather ==
  ASSUME NEW m, Forest(m), NEW s, Trail(m, s), NEW i \in 1 .. Len(s)
  PROVE  m.father[s[1].now] # s[i].now
<1>1. PICK H, h : Higher(m, H, h)
  BY DEF Forest
<1>2. Len(s) \in Nat /\ 1 \in 1 .. Len(s) /\ s[1].now \in Nodes /\ s[i].now \in Nodes
  BY WayNodes
<1>3. 1 < i => h[s[i].now] < h[s[1].now]
  BY <1>1, <1>2, WayLower
<1>4. m.father[s[1].now] # NULL => h[s[1].now] < h[m.father[s[1].now]]
  BY <1>1, <1>2 DEF Higher
<1>5. h[s[1].now] \in Nat /\ h[s[i].now] \in Nat
  BY <1>1, <1>2 DEF Higher
<1>6. i = 1 \/ 1 < i
  BY <1>2
<1> QED BY <1>2, <1>3, <1>4, <1>5, <1>6, NodeNotNull

\* A list whose last node is in X is in X, if X has with a node the one before.
LEMMA ListBehind ==
  ASSUME NEW m, Forest(m), NEW f \in Nodes, NEW X, m.sons[f].last \in X,
         \A x \in X : m.father[x] = f /\ x # m.sons[f].now => m.prev[x] \in X,
         NEW y \in Nodes, m.father[y] = f
  PROVE  y \in X
<1>1. PICK q : IsList(m, f, q)
  BY DEF Forest
<1>2. PICK i \in 1 .. Len(q) : q[i] = y
  BY <1>1 DEF IsList
<1> DEFINE L == Len(q)
<1>3. L \in Nat /\ L > 0
  BY <1>1, <1>2, ListHead
<1>4. m.sons[f].now = q[1] /\ m.sons[f].last = q[L]
  BY <1>1, <1>3, ListHead
<1>5. \A j \in 1 .. Len(q) : q[j] \in Nodes /\ q[j] # NULL /\ m.father[q[j]] = f
  BY ONLY <1>1, f \in Nodes, ListHead
<1>6. \A j, k \in 1 .. L : q[j] = q[k] => j = k
  BY <1>1 DEF IsList
<1>7. \A j \in 1 .. L : j # 1 => m.prev[q[j]] = q[j - 1]
  BY <1>1 DEF IsList
<1> HIDE DEF L
<1> DEFINE S == {k \in Nat : k < L => q[L - k] \in X}
<1>8. 0 \in S
  BY <1>3, <1>4
<1>9. ASSUME NEW k \in Nat, k \in S PROVE k + 1 \in S
  <2> SUFFICES ASSUME k + 1 < L PROVE q[L - (k + 1)] \in X
    OBVIOUS
  <2>1. L - k \in 1 .. L /\ L - k # 1 /\ 1 \in 1 .. L /\ k < L /\ (L - k) - 1 = L - (k + 1)
    BY <1>3
  <2>2. q[L - k] \in X
    BY <1>9, <2>1
  <2> DEFINE j == L - k
  <2>3. j \in 1 .. L /\ j # 1 /\ q[j] \in X /\ q[j] # q[1]
    BY <1>6, <2>1, <2>2
  <2>4. m.prev[q[j]] = q[j - 1]
    BY <1>7, <2>3
  <2>5. m.prev[q[j]] \in X
    BY <1>4, <1>5, <2>3 DEF L
  <2> QED BY <2>1, <2>4, <2>5
<1>10. \A k \in Nat : k \in S
  <2> HIDE DEF S
  <2> QED BY <1>8, <1>9, SetInduction
<1>11. L - i \in Nat /\ L - i < L /\ L - (L - i) = i
  BY <1>2, <1>3 DEF L
<1>12. L - i \in S
  BY <1>10, <1>11
<1> QED BY <1>2, <1>11, <1>12

\* When a traversal begins, nothing is behind it.
LEMMA BehindBegin ==
  ASSUME NEW m, Forest(m), NEW n \in Nodes, NEW s, s = Down(m, n)
  PROVE  Behind(m, s, {})
<1>1. IsDown(m, n, s)
  BY DownIsDown
<1>2. Len(s) \in Nat /\ Len(s) > 0
  BY <1>1 DEF IsDown
<1>3. ASSUME NEW x \in Placed(s), x # s[1].now, m.father[x] # NULL
      PROVE  x = m.sons[m.father[x]].now
  <2>1. PICK i \in 1 .. Len(s) : x = s[i].now
    BY DEF Placed
  <2>2. i \in 2 .. Len(s)
    BY <1>2, <1>3, <2>1
  <2> QED BY <1>1, <2>1, <2>2 DEF IsDown
<1>4. Trail(m, s) /\ Len(s) \in 1 .. Len(s)
  BY <1>2, WayOfDown
<1>5. s[Len(s)].now \in Nodes
  BY <1>4, WayNodes
<1>6. ASSUME NEW y \in Nodes, m.father[y] = s[Len(s)].now PROVE FALSE
  <2>1. m.sons[s[Len(s)].now].now = NULL
    BY <1>1 DEF IsDown
  <2> QED BY <1>5, <1>6, <2>1, ForestSons
<1> QED BY <1>3, <1>6 DEF Behind

\* When it is over, the first place is behind it.
LEMMA BehindEnd ==
  ASSUME NEW m, NEW s, Len(s) = 1, NEW D, Behind(m, s, D), s[1].now \in Nodes
  PROVE  Behind(m, <<>>, D \cup {s[1].now})
<1>1. s # <<>>
  OBVIOUS
<1> QED BY <1>1 DEF Behind

\* The brothers before a node, when the traversal leaves it.
LEMMA BehindPrev ==
  ASSUME NEW m, Forest(m), NEW s, Trail(m, s), Len(s) > 1, NEW D, Behind(m, s, D),
         NEW n, n = s[Len(s)].now
  PROVE  /\ n \in Nodes /\ m.father[n] = s[Len(s) - 1].now /\ m.father[n] \in Nodes /\ n # s[1].now
         /\ D \cup {n} \subseteq Nodes
         /\ \A y \in Nodes : m.father[y] \in D \cup {n} => y \in D
         /\ \A x \in D \cup Placed(s) : x # s[1].now /\ m.father[x] # NULL /\ x # m.sons[m.father[x]].now =>
              m.prev[x] \in D
         /\ \A x \in D \cup {n} : m.father[x] = m.father[n] /\ x # m.sons[m.father[n]].now => m.prev[x] \in D
         /\ Placed(Front(s)) \subseteq Placed(s) /\ n \in Placed(s)
         /\ Trail(m, Front(s)) /\ Len(Front(s)) = Len(s) - 1 /\ Front(s) # <<>>
         /\ Front(s)[1] = s[1] /\ Front(s)[Len(Front(s))] = s[Len(s) - 1]
<1> DEFINE L == Len(s)
<1>1. L \in Nat /\ L > 1 /\ s # <<>> /\ \A i \in 1 .. L : s[i].now \in Nodes
  BY WayNodes
<1>2. Trail(m, Front(s)) /\ Len(Front(s)) = L - 1 /\ \A i \in 1 .. L - 1 : Front(s)[i] = s[i]
  BY <1>1, WayFront
<1>3. L \in 1 .. L /\ L \in 2 .. L /\ 1 \in 1 .. L /\ L - 1 \in 1 .. L - 1 /\ 1 \in 1 .. L - 1 /\ L # 1
      /\ \A i \in 1 .. L - 1 : i \in 1 .. L
  BY <1>1
<1>4. n \in Nodes /\ m.father[n] = s[L - 1].now /\ m.father[n] \in Nodes
  BY <1>1, <1>3 DEF Trail
<1>5. n # s[1].now
  BY <1>3, TrailDistinct
<1>6. /\ D \subseteq Nodes
      /\ \A y \in Nodes : m.father[y] \in D => y \in D
      /\ \A x \in D \cup Placed(s) : x # s[1].now /\ m.father[x] # NULL /\ x # m.sons[m.father[x]].now =>
              m.prev[x] \in D
      /\ \A y \in Nodes : m.father[y] = n => y \in D
  BY <1>1 DEF Behind
<1>7. n \in Placed(s)
  BY <1>3 DEF Placed
<1>8. m.father[s[1].now] # m.father[n]
  <2>1. L - 1 \in 1 .. L
    BY <1>3
  <2>2. m.father[s[1].now] # s[L - 1].now
    BY <2>1, TopFather
  <2> QED BY <1>4, <2>2
<1>9. \A x \in D \cup {n} : m.father[x] = m.father[n] /\ x # m.sons[m.father[n]].now => m.prev[x] \in D
  BY <1>4, <1>6, <1>7, <1>8, NodeNotNull
<1>10. Placed(Front(s)) \subseteq Placed(s)
  BY <1>2, <1>3 DEF Placed
<1>11. Front(s) # <<>> /\ Front(s)[1] = s[1] /\ Front(s)[Len(Front(s))] = s[L - 1]
  <2>1. Len(Front(s)) # 0
    BY <1>1, <1>2
  <2>2. Front(s) # <<>>
    BY <2>1
  <2> HIDE DEF L
  <2> QED BY <1>2, <1>3, <2>2
<1> QED BY <1>2, <1>4, <1>5, <1>6, <1>7, <1>9, <1>10, <1>11

\* The traversal goes up from the last node of a list: all of its list is behind.
LEMMA BehindUp ==
  ASSUME NEW m, Forest(m), NEW s, Trail(m, s), Len(s) > 1, NEW D, Behind(m, s, D),
         NEW n, n = s[Len(s)].now, n = m.sons[m.father[n]].last
  PROVE  Behind(m, Front(s), D \cup {n})
<1> DEFINE t == Front(s)
           f == m.father[n]
<1>0. Forest(m) /\ Trail(m, s) /\ Len(s) > 1 /\ Behind(m, s, D) /\ n = s[Len(s)].now
  OBVIOUS
<1>1. /\ n \in Nodes /\ f = s[Len(s) - 1].now /\ f \in Nodes /\ n # s[1].now
      /\ D \cup {n} \subseteq Nodes
      /\ \A y \in Nodes : m.father[y] \in D \cup {n} => y \in D
      /\ \A x \in D \cup Placed(s) : x # s[1].now /\ m.father[x] # NULL /\ x # m.sons[m.father[x]].now =>
              m.prev[x] \in D
      /\ \A x \in D \cup {n} : m.father[x] = f /\ x # m.sons[f].now => m.prev[x] \in D
      /\ Placed(t) \subseteq Placed(s) /\ n \in Placed(s)
      /\ t[1] = s[1] /\ t[Len(t)] = s[Len(s) - 1]
  BY ONLY <1>0, BehindPrev
<1> DEFINE X == D \cup {n}
<1>2. \A x \in X : m.father[x] = f /\ x # m.sons[f].now => m.prev[x] \in X
  BY <1>1
<1>3. m.sons[f].last \in X
  OBVIOUS
<1> HIDE DEF f, t, X
<1>4. \A y \in Nodes : m.father[y] = f => y \in X
  BY <1>1, <1>2, <1>3, ListBehind
<1>5. \A x \in X \cup Placed(t) : x # t[1].now /\ m.father[x] # NULL /\ x # m.sons[m.father[x]].now =>
        m.prev[x] \in X
  BY <1>1 DEF X
<1>6. X \subseteq Nodes /\ \A y \in Nodes : m.father[y] \in X => y \in X
  BY <1>1 DEF X
<1>7. Behind(m, t, X)
  BY <1>1, <1>4, <1>5, <1>6 DEF Behind
<1> QED BY <1>7 DEF X, t

\* Places that go on below others.
LEMMA TrailJoin ==
  ASSUME NEW m, Forest(m), NEW r, Trail(m, r), r # <<>>,
         NEW x \in Nodes, m.father[x] = r[Len(r)].now, NEW d, d = Down(m, x)
  PROVE  /\ r \o d # <<>> /\ (r \o d)[1] = r[1]
         /\ m.sons[(r \o d)[Len(r \o d)].now].now = NULL /\ (r \o d)[Len(r \o d)].now \in Nodes
         /\ \A y \in Placed(r \o d) : y \in Placed(r) \/ y = x \/ y = m.sons[m.father[y]].now
<1> DEFINE K == Len(r)
           t == r \o d
<1>1. IsDown(m, x, d) /\ Trail(m, d) /\ d # <<>> /\ Len(d) \in Nat /\ Len(d) > 0 /\ d[1].now = x
  BY DownIsDown, WayOfDown
<1>2. /\ Trail(m, r \o d) /\ r \o d # <<>> /\ (r \o d)[1] = r[1]
      /\ Len(r \o d) = K + Len(d) /\ K \in Nat
      /\ \A i \in 1 .. K : (r \o d)[i] = r[i]
      /\ \A i \in 1 .. Len(d) : (r \o d)[K + i] = d[i]
  <2>1. m.father[d[1].now] = r[Len(r)].now
    BY <1>1
  <2>2. Trail(m, r) /\ r # <<>> /\ Trail(m, d) /\ d # <<>>
    BY <1>1
  <2> QED BY ONLY <2>1, <2>2, WayBelow
<1>3. t = r \o d
  OBVIOUS
<1> HIDE DEF K, t
<1>4. t[Len(t)] = d[Len(d)]
  BY <1>1, <1>2, <1>3
<1>5. m.sons[d[Len(d)].now].now = NULL /\ d[Len(d)].now \in Nodes
  <2>1. Len(d) \in 1 .. Len(d)
    BY <1>1
  <2> QED BY <1>1, <2>1, WayNodes DEF IsDown
<1>6. ASSUME NEW y \in Placed(t) PROVE y \in Placed(r) \/ y = x \/ y = m.sons[m.father[y]].now
  <2>1. PICK i \in 1 .. Len(t) : y = t[i].now
    BY DEF Placed
  <2>2. CASE i \in 1 .. K
    <3>1. y = r[i].now
      BY <1>2, <1>3, <2>1, <2>2
    <3> QED BY <2>2, <3>1 DEF Placed, K
  <2>3. CASE i = K + 1
    <3>1. i - K = 1 /\ 1 \in 1 .. Len(d)
      BY <1>1, <1>2, <2>3
    <3> QED BY <1>1, <1>2, <1>3, <2>1, <2>3, <3>1
  <2>4. CASE i > K + 1
    <3>1. i - K \in 2 .. Len(d) /\ i - K \in 1 .. Len(d) /\ K + (i - K) = i
      BY <1>1, <1>2, <1>3, <2>4
    <3>2. y = d[i - K].now
      BY <1>2, <1>3, <2>1, <3>1
    <3> QED BY <1>1, <3>1, <3>2 DEF IsDown
  <2>5. i \in 1 .. K \/ i = K + 1 \/ i > K + 1
    BY <1>2
  <2> QED BY <2>2, <2>3, <2>4, <2>5
<1>7. /\ t # <<>> /\ t[1] = r[1] /\ m.sons[t[Len(t)].now].now = NULL /\ t[Len(t)].now \in Nodes
      /\ \A y \in Placed(t) : y \in Placed(r) \/ y = x \/ y = m.sons[m.father[y]].now
  BY <1>2, <1>3, <1>4, <1>5, <1>6
<1> QED BY <1>7 DEF t

\* The traversal goes down from a node whose brothers before it are behind.
LEMMA BehindJoin ==
  ASSUME NEW m, Forest(m), NEW r, Trail(m, r), r # <<>>,
         NEW x \in Nodes, m.father[x] = r[Len(r)].now, NEW d, d = Down(m, x), NEW t, t = r \o d,
         NEW D \in SUBSET Nodes, \A y \in Nodes : m.father[y] \in D => y \in D,
         \A y \in D \cup Placed(r) \cup {x} :
           y # r[1].now /\ m.father[y] # NULL /\ y # m.sons[m.father[y]].now => m.prev[y] \in D
  PROVE  Behind(m, t, D)
<1>1. /\ t # <<>> /\ t[1] = r[1] /\ m.sons[t[Len(t)].now].now = NULL /\ t[Len(t)].now \in Nodes
      /\ \A y \in Placed(t) : y \in Placed(r) \/ y = x \/ y = m.sons[m.father[y]].now
  <2>1. /\ Forest(m) /\ Trail(m, r) /\ r # <<>> /\ x \in Nodes /\ m.father[x] = r[Len(r)].now
        /\ d = Down(m, x)
    OBVIOUS
  <2>2. /\ r \o d # <<>> /\ (r \o d)[1] = r[1]
        /\ m.sons[(r \o d)[Len(r \o d)].now].now = NULL /\ (r \o d)[Len(r \o d)].now \in Nodes
        /\ \A y \in Placed(r \o d) : y \in Placed(r) \/ y = x \/ y = m.sons[m.father[y]].now
    BY ONLY <2>1, TrailJoin
  <2> QED BY <2>2
<1>2. \A y \in Nodes : m.father[y] # t[Len(t)].now
  BY <1>1, ForestSons
<1>3. \A y \in D \cup Placed(t) : y # t[1].now /\ m.father[y] # NULL /\ y # m.sons[m.father[y]].now => m.prev[y] \in D
  BY <1>1
<1> QED BY <1>2, <1>3 DEF Behind

\* The traversal goes on to the next node of a list.
LEMMA BehindOn ==
  ASSUME NEW m, Forest(m), NEW s, Trail(m, s), Len(s) > 1, NEW D, Behind(m, s, D),
         NEW n, n = s[Len(s)].now, NEW d, d = Down(m, s[Len(s)].fwd)
  PROVE  Behind(m, Front(s) \o d, D \cup {n})
<1> DEFINE r == Front(s)
           x == s[Len(s)].fwd
           X == D \cup {n}
<1>0. Forest(m) /\ Trail(m, s) /\ Len(s) > 1 /\ Behind(m, s, D) /\ n = s[Len(s)].now
  OBVIOUS
<1>1. /\ n \in Nodes /\ m.father[n] = s[Len(s) - 1].now /\ m.father[n] \in Nodes /\ n # s[1].now
      /\ X \subseteq Nodes
      /\ \A y \in Nodes : m.father[y] \in X => y \in D
      /\ \A y \in D \cup Placed(s) : y # s[1].now /\ m.father[y] # NULL /\ y # m.sons[m.father[y]].now =>
              m.prev[y] \in D
      /\ Placed(r) \subseteq Placed(s) /\ n \in Placed(s)
      /\ Trail(m, r) /\ r # <<>>
      /\ r[1] = s[1] /\ r[Len(r)] = s[Len(s) - 1]
  BY ONLY <1>0, BehindPrev
<1>2. x = m.next[n]
  <2>1. Len(s) \in 1 .. Len(s)
    BY WayNodes
  <2> QED BY <2>1 DEF Trail
<1>3. x \in Nodes /\ m.father[x] = r[Len(r)].now /\ m.prev[x] = n
  BY <1>1, <1>2, ForestNext, ForestRing
<1> HIDE DEF x, r, X
<1>4. d = Down(m, x) /\ Trail(m, r)
  BY <1>1 DEF x
<1>5. \A y \in X \cup Placed(r) \cup {x} :
           y # r[1].now /\ m.father[y] # NULL /\ y # m.sons[m.father[y]].now => m.prev[y] \in X
  BY <1>1, <1>3 DEF X
<1>6. \A y \in Nodes : m.father[y] \in X => y \in X
  BY <1>1 DEF X
<1>7. Behind(m, r \o d, X)
  <2>1. X \in SUBSET Nodes /\ r # <<>> /\ Forest(m)
    BY <1>1
  <2> QED BY ONLY <1>3, <1>4, <1>5, <1>6, <2>1, BehindJoin
<1> QED BY <1>7 DEF r, X

\* What is behind the traversal is behind it when the current node was detached,
\* also when the traversal goes round to the first node of the list.
LEMMA BehindDetach ==
  ASSUME NEW m, Forest(m), NEW s, Trail(m, s), Len(s) > 1, NEW D, Behind(m, s, D),
         NEW n, n = s[Len(s)].now, NEW f, f = m.father[n], NEW d, d = tree_detach(m, n),
         NEW t, Detached(d, f, s, d.next[d.prev[m.next[n]]], t)
  PROVE  Behind(d, t, D)
<1> DEFINE r == Front(s)
           x == m.next[n]
<1>0. Forest(m) /\ Trail(m, s) /\ Len(s) > 1 /\ Behind(m, s, D) /\ n = s[Len(s)].now
  OBVIOUS
<1>1. /\ n \in Nodes /\ m.father[n] = s[Len(s) - 1].now /\ m.father[n] \in Nodes /\ n # s[1].now
      /\ D \cup {n} \subseteq Nodes
      /\ \A y \in Nodes : m.father[y] \in D \cup {n} => y \in D
      /\ \A y \in D \cup Placed(s) : y # s[1].now /\ m.father[y] # NULL /\ y # m.sons[m.father[y]].now =>
              m.prev[y] \in D
      /\ Placed(r) \subseteq Placed(s) /\ n \in Placed(s)
      /\ r # <<>> /\ r[1] = s[1] /\ r[Len(r)] = s[Len(s) - 1]
  BY ONLY <1>0, BehindPrev
<1>2. f \in Nodes /\ f = r[Len(r)].now /\ n \in Nodes /\ m.father[n] = f
  BY <1>1
<1>3. /\ Forest(d)
      /\ \A c \in Nodes : d.father[c] = IF c = n THEN NULL ELSE m.father[c]
      /\ \A g \in Nodes \ {f} : d.sons[g] = m.sons[g]
      /\ \A c \in Nodes \ {n} : m.father[c] # f => d.next[c] = m.next[c] /\ d.prev[c] = m.prev[c]
      /\ d.sons[f].now # NULL => /\ x \in Nodes \ {n} /\ m.father[x] = f
                                 /\ d.next[d.prev[x]] = x
  <2>1. Forest(m) /\ n \in Nodes /\ f \in Nodes /\ m.father[n] = f /\ d = tree_detach(m, n)
    BY <1>2
  <2> QED BY ONLY <2>1, DetachForest
<1>4. Trail(d, r)
  BY <1>0, WayDetach
<1>5. /\ m \in Memory /\ m.prev[x] = n /\ m.sons[f].now # NULL /\ x \in Nodes
      /\ m.father[n] = f /\ d = tree_detach(m, n) /\ n \in Nodes /\ f \in Nodes
  <2>1. Forest(m) /\ n \in Nodes /\ f \in Nodes /\ m.father[n] = f /\ d = tree_detach(m, n)
    BY <1>2
  <2>2. m \in Memory
    BY DEF Forest
  <2>3. m.prev[m.next[n]] = n /\ m.next[n] \in Nodes
    BY ONLY <2>1, ForestRing
  <2>4. m.sons[f].now # NULL
    BY ONLY <2>1, ForestSons
  <2> QED BY <2>1, <2>2, <2>3, <2>4
<1>6. /\ m.sons[f].now = m.sons[f].last => d.sons[f].now = NULL
      /\ m.sons[f].now # m.sons[f].last =>
           /\ d.sons[f] = NewHead(m, d, n)
           /\ \A c \in Nodes : d.prev[c] = IF c = x THEN m.prev[n] ELSE IF c = n THEN n ELSE m.prev[c]
  <2>1. /\ m.sons[f].now = m.sons[f].last => \A c \in Nodes : d.sons[c] = IF c = f THEN LIST_NULL ELSE m.sons[c]
        /\ m.sons[f].now # m.sons[f].last =>
             \A c \in Nodes :
               /\ d.sons[c] = IF c = f THEN NewHead(m, d, n) ELSE m.sons[c]
               /\ d.prev[c] = IF c = x THEN m.prev[n] ELSE IF c = n THEN n ELSE m.prev[c]
    BY ONLY <1>5, DetachLinks
  <2>2. LIST_NULL.now = NULL
    BY DEF LIST_NULL
  <2>3. f \in Nodes
    BY <1>2
  <2> QED BY ONLY <2>1, <2>2, <2>3
<1>7. \A y \in Nodes : d.father[y] \in D => y \in D
  BY <1>1, <1>3, NodeNotNull
<1>8. ASSUME NEW y \in D \cup Placed(r) \cup {x}, y # r[1].now, d.father[y] # NULL, y # d.sons[d.father[y]].now
      PROVE  d.prev[y] \in D
  <2> DEFINE g == m.father[y]
  <2>1. y \in Nodes /\ y # n /\ d.father[y] = g /\ g # NULL /\ g \in Nodes
    <3>1. y \in Nodes
      <4>1. Placed(s) \subseteq Nodes
        BY <1>0, WayNodes DEF Placed
      <4> QED BY <1>1, <1>5, <4>1
    <3>2. y # n /\ d.father[y] = g /\ g # NULL
      BY <1>3, <1>8, <3>1
    <3> QED BY <3>1, <3>2, ForestFather
  <2>2. d.sons[f].now # NULL \/ g # f
    <3>1. Forest(d) /\ f \in Nodes /\ (g = f => d.father[y] = f) /\ y \in Nodes
      BY <1>2, <1>3, <2>1
    <3> QED BY ONLY <3>1, ForestSons
  <2>3. CASE g # f
    <3>1. d.prev[y] = m.prev[y] /\ d.sons[g] = m.sons[g]
      BY <1>3, <2>1, <2>3
    <3>2. y # x
      <4>1. m.father[x] = f
        <5>1. Forest(m) /\ n \in Nodes /\ m.father[n] = f
          BY <1>2
        <5> QED BY ONLY <5>1, ForestNext
      <4> QED BY <2>3, <4>1
    <3> QED BY <1>1, <1>8, <2>1, <3>1, <3>2
  <2>4. CASE g = f /\ d.sons[f].now # NULL
    <3>1. /\ d.sons[f] = NewHead(m, d, n)
          /\ \A c \in Nodes : d.prev[c] = IF c = x THEN m.prev[n] ELSE IF c = n THEN n ELSE m.prev[c]
      BY <1>6, <2>4
    <3>2. d.sons[f].now = IF m.sons[f].now = n THEN x ELSE m.sons[f].now
      <4> DEFINE v == IF m.sons[f].now = n THEN x ELSE m.sons[f].now
      <4>1. v \in Nodes /\ d.prev[v] \in Nodes
        BY <1>3, <1>5, ForestSons, ForestRing
      <4>2. NewHead(m, d, n) = It(v, d.prev[v])
        BY <1>2 DEF NewHead
      <4> HIDE DEF v
      <4>3. It(v, d.prev[v]).now = v
        BY <4>1, ItFields
      <4> QED BY <3>1, <4>2, <4>3 DEF v
    <3>3. CASE y = x
      <4>1. n # m.sons[f].now
        BY <1>8, <2>1, <2>4, <3>2, <3>3
      <4>2. m.prev[n] \in D
        BY <1>1, <1>2, <4>1, NodeNotNull
      <4> QED BY <2>1, <3>1, <3>3, <4>2
    <3>4. CASE y # x
      <4>1. y # m.sons[f].now
        BY <1>8, <2>1, <2>4, <3>2, <3>4
      <4>2. m.prev[y] \in D
        BY <1>1, <1>8, <2>1, <2>4, <3>4, <4>1
      <4> QED BY <2>1, <3>1, <3>4, <4>2
    <3> QED BY <3>3, <3>4
  <2> QED BY <2>2, <2>3, <2>4
<1> HIDE DEF r, x
<1>9. CASE d.sons[f].now = NULL
  <2>1. t = r
    BY <1>9 DEF Detached, r
  <2>2. \A y \in Nodes : d.father[y] # f
    <3>1. Forest(d) /\ f \in Nodes
      BY <1>2, <1>3
    <3> QED BY ONLY <3>1, <1>9, ForestSons
  <2> QED BY <1>1, <1>2, <1>7, <1>8, <2>1, <2>2 DEF Behind
<1>10. CASE d.sons[f].now # NULL
  <2>1. t = r \o Down(d, x)
    BY <1>3, <1>10 DEF Detached, r, x
  <2>2. x \in Nodes /\ d.father[x] = r[Len(r)].now /\ D \in SUBSET Nodes
    BY <1>1, <1>2, <1>3, <1>10
  <2> DEFINE e == Down(d, x)
  <2>3. /\ Forest(d) /\ Trail(d, r) /\ r # <<>> /\ x \in Nodes /\ d.father[x] = r[Len(r)].now
        /\ e = Down(d, x) /\ t = r \o e /\ D \in SUBSET Nodes
    BY <1>1, <1>3, <1>4, <2>1, <2>2
  <2> HIDE DEF e
  <2> QED BY ONLY <1>7, <1>8, <2>3, BehindJoin
<1> QED BY <1>9, <1>10

---------------------------------------------------------------------------
(* A traversal visits every node below the one it began at, and none twice *)

\* When a traversal begins below a father, the nodes ahead are those whose fathers
\* are not higher than the first place.
LEMMA AheadBelow ==
  ASSUME NEW m, Forest(m), NEW n \in Nodes, NEW s, s = Down(m, n)
  PROVE  \E A : Ahead(m, s, A)
<1>1. IsDown(m, n, s)
  BY DownIsDown
<1>2. Trail(m, s) /\ Len(s) \in Nat /\ Len(s) > 0 /\ s[1].now = n
  BY WayOfDown
<1>3. PICK H, h : Higher(m, H, h)
  BY DEF Forest
<1>4. \A x \in Nodes : h[x] \in Nat /\ (m.father[x] # NULL => h[x] < h[m.father[x]])
  BY <1>3 DEF Higher
<1> DEFINE A == {x \in Nodes : x = n \/ (m.father[x] \in Nodes /\ h[m.father[x]] <= h[n])}
<1>5. \A i \in 1 .. Len(s) : s[i].now \in Nodes /\ h[s[i].now] <= h[n]
  <2> TAKE i \in 1 .. Len(s)
  <2>1. s[i].now \in Nodes /\ 1 \in 1 .. Len(s)
    BY <1>2, WayNodes
  <2>2. 1 < i => h[s[i].now] < h[s[1].now]
    BY <1>2, <1>3, <2>1, WayLower
  <2>3. i = 1 \/ 1 < i
    BY <1>2
  <2> QED BY <1>2, <1>4, <2>1, <2>2, <2>3
<1>6. ASSUME NEW x \in Placed(s) PROVE x \in A
  <2>1. PICK i \in 1 .. Len(s) : x = s[i].now
    BY DEF Placed
  <2>2. CASE i = 1
    BY <1>2, <1>5, <2>1, <2>2
  <2>3. CASE i # 1
    <3>1. i \in 2 .. Len(s) /\ i - 1 \in 1 .. Len(s)
      BY <1>2, <2>3
    <3>2. m.father[x] = s[i - 1].now
      BY <1>2, <2>1, <3>1 DEF Trail
    <3> QED BY <1>5, <2>1, <3>1, <3>2
  <2> QED BY <2>2, <2>3
<1>7. n \in Placed(s)
  BY <1>2 DEF Placed
<1>8. ASSUME NEW x \in A \ Placed(s), m.sons[x].now # NULL PROVE m.sons[x].now \in A
  <2>1. x \in Nodes /\ m.father[x] \in Nodes /\ h[m.father[x]] <= h[n]
    BY <1>7
  <2>2. m.sons[x].now \in Nodes /\ m.father[m.sons[x].now] = x
    BY <1>8, <2>1, ForestSons
  <2>3. h[x] <= h[n]
    BY <1>4, <2>1, NodeNotNull
  <2> QED BY <2>1, <2>2, <2>3
<1>9. ASSUME NEW x \in A, x # s[1].now, m.father[x] # NULL, x # m.sons[m.father[x]].last
      PROVE  m.next[x] \in A \ Placed(s)
  <2>1. x \in Nodes /\ m.father[x] \in Nodes /\ h[m.father[x]] <= h[n]
    BY <1>2, <1>9
  <2>2. m.next[x] \in Nodes /\ m.father[m.next[x]] = m.father[x]
    BY <2>1, ForestNext
  <2>3. ASSUME NEW i \in 1 .. Len(s), m.next[x] = s[i].now PROVE FALSE
    <3>1. CASE i = 1
      <4>1. m.father[n] = m.father[x]
        BY <1>2, <2>2, <2>3, <3>1
      <4> QED BY <1>4, <1>9, <2>1, <4>1
    <3>2. CASE i # 1
      <4>1. i \in 2 .. Len(s)
        BY <1>2, <3>2
      <4>2. m.next[x] = m.sons[s[i - 1].now].now /\ s[i - 1].now = m.father[m.next[x]]
        BY <1>1, <2>3, <4>1 DEF IsDown
      <4>3. m.next[x] = m.sons[m.father[x]].now
        BY <2>2, <4>2
      <4> QED BY <1>9, <2>1, <4>3, ForestLast
    <3> QED BY <3>1, <3>2
  <2> QED BY <2>1, <2>2, <2>3 DEF Placed
<1>10. Ahead(m, s, A)
  <2> HIDE DEF A
  <2>1. A \subseteq Nodes
    BY DEF A
  <2> QED BY <1>6, <1>8, <1>9, <2>1 DEF Ahead
<1> QED BY <1>10

\* The nodes in D were visited by the traversal that began at n, which has none of
\* them ahead.
Visited(m, s, n, D) ==
  /\ Behind(m, s, D)
  /\ s = <<>> => n \in D
  /\ s # <<>> => s[1].now = n /\ \E A : Ahead(m, s, A) /\ A \cap D = {}

\* None when it begins.
LEMMA VisitedBegin ==
  ASSUME NEW m, Forest(m), NEW n \in Nodes, NEW s, s = Down(m, n)
  PROVE  Visited(m, s, n, {})
<1>1. s # <<>> /\ s[1].now = n
  BY WayOfDown
<1>2. \E A : Ahead(m, s, A)
  BY AheadBelow
<1>3. Behind(m, s, {})
  BY BehindBegin
<1> QED BY <1>1, <1>2, <1>3 DEF Visited

\* The current node was not visited before, and is when the traversal goes on.
LEMMA VisitedWalk ==
  ASSUME NEW m, Forest(m), NEW s, Trail(m, s), s # <<>>, NEW n \in Nodes, NEW D, Visited(m, s, n, D),
         NEW c, c = s[Len(s)].now, NEW t,
         t = IF Len(s) = 1 THEN <<>>
             ELSE IF c = m.sons[m.father[c]].last THEN Front(s) ELSE Front(s) \o Down(m, s[Len(s)].fwd)
  PROVE  c \notin D /\ Visited(m, t, n, D \cup {c})
<1>1. Behind(m, s, D) /\ s[1].now = n
  BY DEF Visited
<1>2. PICK A : Ahead(m, s, A) /\ A \cap D = {}
  BY DEF Visited
<1>3. Len(s) \in Nat /\ Len(s) > 0
  BY WayNodes
<1>4. c \in A /\ c \notin D
  <2>1. c \in Placed(s)
    BY <1>3 DEF Placed
  <2> QED BY <1>2, <2>1 DEF Ahead
<1>5. (A \ {c}) \cap (D \cup {c}) = {}
  BY <1>2
<1>6. CASE Len(s) = 1
  <2>1. Behind(m, <<>>, D \cup {s[1].now})
    BY <1>1, <1>6, BehindEnd
  <2> QED BY <1>1, <1>4, <1>6, <2>1 DEF Visited
<1>7. CASE Len(s) # 1 /\ c = m.sons[m.father[c]].last
  <2>0. Len(s) > 1
    BY <1>3, <1>7, One
  <2>1. Len(s) > 1 /\ t = Front(s)
    BY <1>7, <2>0
  <2>2. Behind(m, Front(s), D \cup {c}) /\ Ahead(m, Front(s), A \ {c})
    BY <1>1, <1>2, <1>7, <2>1, BehindUp, AheadUp
  <2>3. Front(s) # <<>> /\ Front(s)[1] = s[1]
    BY <1>1, <2>1, BehindPrev
  <2> QED BY <1>1, <1>4, <1>5, <2>1, <2>2, <2>3 DEF Visited
<1>8. CASE Len(s) # 1 /\ c # m.sons[m.father[c]].last
  <2> DEFINE d == Down(m, s[Len(s)].fwd)
  <2>0. Len(s) > 1
    BY <1>3, <1>8, One
  <2>1. Len(s) > 1 /\ t = Front(s) \o d
    BY <1>8, <2>0
  <2>2. Behind(m, Front(s) \o d, D \cup {c}) /\ Ahead(m, Front(s) \o d, A \ {c})
    BY <1>1, <1>2, <1>8, <2>1, BehindOn, AheadOn
  <2>3. t # <<>> => t[1] = s[1]
    <3> DEFINE b == FALSE
    <3>1. b \in BOOLEAN /\ t = IF Len(s) = 1 THEN <<>>
             ELSE IF b THEN Front(s) ELSE Front(s) \o Down(m, s[Len(s)].fwd)
      BY <1>8
    <3> HIDE DEF b
    <3> QED BY <3>1, WalkOn
  <2>4. t # <<>>
    <3>1. Front(s) # <<>> /\ Front(s) \in Seq(Places)
      BY <1>1, <2>1, BehindPrev DEF Trail
    <3>2. d \in Seq(Places)
      <4>1. Len(s) \in 1 .. Len(s)
        BY <1>3
      <4>2. s[Len(s)].fwd \in Nodes
        BY <4>1, WayNodes
      <4>3. Trail(m, d)
        BY <4>2, WayOfDown
      <4> QED BY <4>3 DEF Trail
    <3> HIDE DEF d
    <3> QED BY <2>1, <3>1, <3>2
  <2> QED BY <1>1, <1>4, <1>5, <2>1, <2>2, <2>3, <2>4 DEF Visited
<1> QED BY <1>6, <1>7, <1>8

\* When it is over, a set of nodes with no other root than n was visited.
LEMMA VisitedAll ==
  ASSUME NEW m, Forest(m), NEW n, NEW D, Behind(m, <<>>, D), n \in D,
         NEW W \in SUBSET Nodes, \A y \in W : m.father[y] \in W \/ (m.father[y] = NULL /\ y = n)
  PROVE  W \subseteq D
<1> DEFINE B == W \ D
<1> SUFFICES ASSUME B # {} PROVE FALSE
  OBVIOUS
<1>1. B \in SUBSET Nodes
  OBVIOUS
<1>2. PICK y \in B : m.father[y] \notin B
  BY <1>1, ForestTop
<1>3. y \in Nodes /\ y \notin D /\ y # n
  BY <1>2
<1>4. m.father[y] \in W /\ m.father[y] \in D
  BY <1>2, <1>3
<1> QED BY <1>3, <1>4 DEF Behind

---------------------------------------------------------------------------
(* The numbering of the nodes *)

Leaves == {n \in Live : Leaf(n)}

\* The leaves of the formula that the leaves in W stand for, counted by their fans.
Pairs(nd, W) == {x \in W \X (1 .. MaxNodes) : x[2] <= nd[x[1]].n_fan}

\* The leaves are not pruned any more.
Pruned == {"leaf_id", "internal", "updated", "subpaths"}

\* A leaf that prune() leaves alone.
Filled(x) == node[x].n_fan # 0 /\ node[x].token_id # "NIL"

\* A traversal's callback has been called for D, which is not all of the tree yet.
Walked(D) == D \subseteq Live /\ Visited(links, places, stack[1], D)

FansOfLeaves ==
  pc \in {"set_1", "group", "prune", "leaf_id"} => \A n \in Nodes : ~Leaf(n) => node[n].n_fan = 0

\* A traversal that prunes goes round to nodes it has visited, and leaves them alone.
PrunedSoFar ==
  /\ pc = "prune" =>
       \E D : /\ Behind(links, places, D) /\ (places = <<>> => stack[1] \in D)
              /\ \A x \in D : Leaf(x) /\ links.father[x] # NULL => Filled(x)
  /\ pc \in Pruned => \A x \in Nodes : Leaf(x) /\ links.father[x] # NULL => node[x].n_fan # 0

\* No two ids are the same, and they are at most k.
IdsUpTo(nd, k) ==
  /\ \A x, y \in Numbered(nd) : nd[x].node_id = nd[y].node_id => x = y
  /\ \A x \in Numbered(nd) : nd[x].node_id <= k

IdsSoFar ==
  /\ pc \in Parsing \cup {"accepted", "set_1", "group", "prune"} => tot_brw = 0
  /\ pc = "leaf_id" => \E D : Walked(D) /\ Numbered(node) = {x \in D : Leaf(x)}
  /\ pc = "internal" => \E D : Walked(D) /\ Numbered(node) = Leaves \cup D
  /\ pc \in {"updated", "subpaths"} => Numbered(node) = Live /\ \A x \in Leaves : node[x].n_fan # 0
  /\ pc \in Pruned => /\ IdsUpTo(node, cur_id)
                      /\ tot_brw = Cardinality(Pairs(node, Numbered(node) \cap Leaves))

\* The fan of f counts its sons, which have their ranks, and smaller ids.
Counts(nd, f) ==
  /\ nd[f].n_fan = Cardinality(Sons(f))
  /\ \A i \in DOMAIN SonSeq(f) : nd[SonSeq(f)[i]].rank = i - 1
  /\ \A c \in Sons(f) : c \in Numbered(nd) /\ nd[c].node_id < nd[f].node_id

InnerSoFar ==
  pc \in {"internal", "updated", "subpaths"} =>
    /\ \A x \in Leaves : node[x].node_id <= Cardinality(Leaves)
    /\ \A x \in Numbered(node) \ Leaves : node[x].node_id > Cardinality(Leaves) /\ Counts(node, x)
    /\ \A x \in Nodes : ~Leaf(x) /\ x \notin Numbered(node) => node[x].n_fan = 0

NInv == FansOfLeaves /\ PrunedSoFar /\ IdsSoFar /\ InnerSoFar

---------------------------------------------------------------------------
(* What the traversals of an update visit *)

\* The father of a live node is live, unless the node is the root.
LEMMA LiveFather ==
  ASSUME IInv, pc \in Traversed \cup {"accepted", "updated"}, NEW y \in Live
  PROVE  links.father[y] \in Live \/ (links.father[y] = NULL /\ y = stack[1])
<1>1. Alive(links, mem) /\ OwnedBy(stack, Pending, Releasing, links, mem)
  BY Parts
<1>2. y \in Nodes /\ mem[y] = "live"
  BY DEF Live
<1>3. CASE links.father[y] # NULL
  <2>1. links.father[y] \in Nodes /\ mem[links.father[y]] = "live"
    BY <1>1, <1>2, <1>3, AliveFather
  <2> QED BY <2>1 DEF Live
<1>4. CASE links.father[y] = NULL
  <2>1. todo = <<>> /\ Len(stack) = 1 /\ Pending = todo /\ Releasing = NULL
    BY UpdateRoot
  <2>2. Holds(stack, Pending, y) \/ y = Releasing
    BY <1>1, <1>2, <1>4 DEF OwnedBy
  <2>3. Holds(stack, <<>>, y)
    BY <1>2, <2>1, <2>2, NodeNotNull
  <2>4. y = stack[1]
    BY <2>1, <2>3 DEF Holds
  <2> QED BY <1>4, <2>4
<1> QED BY <1>3, <1>4

\* A node that has a father, or is one, is live.
LEMMA InnerLive ==
  ASSUME IInv, NEW x \in Nodes, ~Leaf(x) \/ links.father[x] # NULL
  PROVE  x \in Live
<1>1. Alive(links, mem)
  BY Parts
<1> QED BY <1>1 DEF Alive, Leaf, Live

\* A callback returns what LIST_GO_OVER returns: the current node was not visited
\* before.
LEMMA WalkedOn ==
  ASSUME IInv, pc \in Updates, places # <<>>, Walk(GoOver, links, place),
         UNCHANGED <<links, mem, stack>>, NEW D, Walked(D)
  PROVE  /\ p \notin D /\ p \in Live
         /\ \A y \in Nodes : links.father[y] = p => y \in D
         /\ \E E : E = D \cup {p} /\ Walked(E)'
<1> DEFINE n == stack[1]
           c == p
           s == places
           t == places'
<1>1. Forest(links) /\ Trail(links, s)
  BY Parts
<1>2. c \in Nodes /\ c = s[Len(s)].now /\ place = s[Len(s)] /\ Len(s) \in Nat /\ Len(s) > 0 /\ mem[c] = "live"
  BY Current
<1>3. n \in Nodes
  BY UpdateRoot DEF Traversed
<1>4. t = IF Len(s) = 1 THEN <<>>
             ELSE IF c = links.sons[links.father[c]].last THEN Front(s) ELSE Front(s) \o Down(links, s[Len(s)].fwd)
  <2>1. GoOver = (Len(s) > 1 /\ c = links.sons[links.father[c]].last)
    BY DEF GoOver
  <2>2. t = IF Len(s) = 1 THEN <<>>
            ELSE IF GoOver THEN Front(s) ELSE Front(s) \o Down(links, s[Len(s)].fwd)
    BY <1>2, Zenon DEF Walk
  <2>3. Len(s) = 1 \/ Len(s) > 1
    BY <1>2, One
  <2>4. CASE Len(s) = 1
    BY <2>2, <2>4
  <2>5. CASE Len(s) # 1
    <3>1. GoOver <=> c = links.sons[links.father[c]].last
      BY <2>1, <2>3, <2>5
    <3> HIDE DEF s, t, c
    <3> QED BY <2>2, <2>5, <3>1, Zenon
  <2> QED BY <2>4, <2>5
<1>5. Visited(links, s, n, D) /\ D \subseteq Live
  BY DEF Walked
<1>6. s # <<>>
  OBVIOUS
<1>7. links' = links /\ stack' = stack /\ Live' = Live
  BY DEF Live
<1> HIDE DEF n, c, s, t
<1>8. c \notin D /\ Visited(links, t, n, D \cup {c})
  <2>1. c = s[Len(s)].now /\ Visited(links, s, n, D)
    BY <1>2, <1>5
  <2> QED BY ONLY <1>1, <1>3, <1>4, <1>6, <2>1, VisitedWalk
<1>9. \A y \in Nodes : links.father[y] = c => y \in D
  <2>1. Behind(links, s, D)
    BY <1>5 DEF Visited
  <2> QED BY <1>2, <1>6, <2>1 DEF Behind
<1>10. c \in Live
  BY <1>2 DEF Live
<1>11. \E E : E = D \cup {c} /\ Walked(E)'
  <2>1. PICK E : E = D \cup {c}
    OBVIOUS
  <2>2. Visited(links', places', stack'[1], E)
    BY <1>7, <1>8, <2>1 DEF t, n
  <2>3. E \subseteq Live'
    BY <1>5, <1>7, <1>10, <2>1
  <2>4. Walked(E)'
    BY <2>2, <2>3 DEF Walked
  <2> QED BY <2>1, <2>4
<1> QED BY <1>8, <1>9, <1>10, <1>11 DEF c

\* It begins with no node visited.
LEMMA WalkedBegin ==
  ASSUME IInv, pc \in Updates \cup {"accepted"}, NEW phase, Begin(phase, root), UNCHANGED <<links, mem, stack>>
  PROVE  Walked({})'
<1> DEFINE n == stack[1]
           s == places'
<1>1. Forest(links) /\ n \in Nodes /\ s = Down(links, n)
  BY Parts, UpdateRoot DEF Traversed, Begin, root
<1> HIDE DEF n, s
<1>2. Visited(links, s, n, {})
  BY ONLY <1>1, VisitedBegin
<1>3. Visited(links', places', stack'[1], {})
  BY <1>2 DEF n, s
<1> QED BY <1>3 DEF Walked

\* When it is over, it has visited every live node.
LEMMA WalkedAll ==
  ASSUME IInv, pc \in Traversed, places = <<>>, NEW D, Behind(links, <<>>, D), stack[1] \in D
  PROVE  Live \subseteq D
<1> DEFINE n == stack[1]
           W == Live
<1>1. Forest(links)
  BY Parts
<1>2. \A y \in W : links.father[y] \in W \/ (links.father[y] = NULL /\ y = n)
  BY LiveFather
<1>3. W \in SUBSET Nodes
  BY DEF Live
<1>4. n \in D /\ Behind(links, <<>>, D)
  OBVIOUS
<1> HIDE DEF n, W
<1>5. W \subseteq D
  BY ONLY <1>1, <1>2, <1>3, <1>4, VisitedAll
<1> QED BY <1>5 DEF W

---------------------------------------------------------------------------
(* Every step keeps what the numbering relies on *)

\* Nothing is said of the parser, but that the count of leaves has not begun.
LEMMA NothingNumbered ==
  ASSUME \/ pc' \in {"release", "done"}
         \/ pc' \in Parsing \cup {"accepted"} /\ tot_brw' = 0
  PROVE  NInv'
<1>1. FansOfLeaves' /\ PrunedSoFar' /\ InnerSoFar'
  BY DEF FansOfLeaves, PrunedSoFar, InnerSoFar, Parsing, Pruned
<1>2. IdsSoFar'
  BY DEF IdsSoFar, Parsing, Pruned
<1> QED BY <1>1, <1>2 DEF NInv

\* The first three traversals only set fans.
LEMMA FansOnly ==
  ASSUME pc' \in {"set_1", "group"}, tot_brw' = 0, \A n \in Nodes : ~Leaf(n)' => node'[n].n_fan = 0
  PROVE  NInv'
<1>1. FansOfLeaves' /\ PrunedSoFar' /\ InnerSoFar'
  BY DEF FansOfLeaves, PrunedSoFar, InnerSoFar, Pruned
<1>2. IdsSoFar'
  BY DEF IdsSoFar, Pruned
<1> QED BY <1>1, <1>2 DEF NInv

LEMMA UpdateNumbers ==
  ASSUME IInv, NInv, Update
  PROVE  NInv'
<1>1. pc = "accepted" /\ pc' = "set_1" /\ UNCHANGED <<links, node, tot_brw>>
  BY DEF Update, words, Begin
<1>2. \A n \in Nodes : node[n].n_fan = 0
  BY <1>1 DEF IInv, Fields
<1>3. tot_brw = 0
  BY <1>1 DEF NInv, IdsSoFar
<1> QED BY <1>1, <1>2, <1>3, FansOnly

\* leaf_n_fan_set_1(): the fans of leaves are set.
LEMMA Set1Numbers ==
  ASSUME IInv, NInv, leaf_n_fan_set_1
  PROVE  NInv'
<1>1. /\ pc = "set_1" /\ pc' = pc /\ places # <<>>
      /\ node' = IF Leaf(p) THEN [node EXCEPT ![p].n_fan = 1] ELSE node
      /\ UNCHANGED <<links, tot_brw>>
  BY DEF leaf_n_fan_set_1, At, words
<1>2. p \in Nodes /\ node \in [Nodes -> NodeType]
  BY <1>1, Current, FieldParts
<1>3. tot_brw = 0 /\ \A n \in Nodes : ~Leaf(n) => node[n].n_fan = 0
  BY <1>1 DEF NInv, IdsSoFar, FansOfLeaves
<1>4. \A n \in Nodes : Leaf(n)' <=> Leaf(n)
  BY <1>1 DEF Leaf
<1>5. \A n \in Nodes : ~Leaf(n) => node'[n] = node[n]
  BY <1>1, <1>2
<1> QED BY <1>1, <1>3, <1>4, <1>5, FansOnly

\* group_leaf(): the fan of a leaf takes those of its brothers.
LEMMA GroupNumbers ==
  ASSUME IInv, NInv, group_leaf
  PROVE  NInv'
<1> DEFINE B == Brothers(p)
           k == node[p].n_fan + Cardinality(B)
           grouped == Leaf(p) /\ node[p].n_fan # 0 /\ links.father[p] # NULL
<1>1. /\ pc = "group" /\ pc' = pc /\ places # <<>>
      /\ node' = IF grouped
                 THEN [n \in Nodes |-> IF n = p THEN [node[p] EXCEPT !.n_fan = k]
                                       ELSE IF n \in B THEN [node[n] EXCEPT !.n_fan = 0]
                                       ELSE node[n]]
                 ELSE node
      /\ UNCHANGED <<links, tot_brw>>
  BY DEF group_leaf, At, words
<1>2. p \in Nodes /\ \A n \in Nodes : node[n] \in NodeType
  BY <1>1, Current, FieldParts
<1>3. tot_brw = 0 /\ \A n \in Nodes : ~Leaf(n) => node[n].n_fan = 0
  BY <1>1 DEF NInv, IdsSoFar, FansOfLeaves
<1>4. \A n \in Nodes : Leaf(n)' <=> Leaf(n)
  BY <1>1 DEF Leaf
<1> HIDE DEF k, B
<1>5. ASSUME NEW n \in Nodes, ~Leaf(n) PROVE node'[n].n_fan = 0
  <2>1. CASE grouped /\ n \in B
    <3> DEFINE q == [node[n] EXCEPT !.n_fan = 0]
    <3>1. node'[n] = q
      BY <1>1, <1>5, <2>1
    <3>2. q = [node[n] EXCEPT !.n_fan = 0] /\ node[n] \in NodeType /\ 0 \in 0 .. MaxNodes
      BY <1>2, NodesFinite
    <3> HIDE DEF q
    <3>3. q.n_fan = 0
      BY <3>2, FanSet
    <3> QED BY <3>1, <3>3
  <2>2. CASE ~(grouped /\ n \in B)
    <3>1. node'[n] = node[n]
      BY <1>1, <1>5, <2>2
    <3> QED BY <1>3, <1>5, <3>1
  <2> QED BY <2>1, <2>2
<1> QED BY <1>1, <1>3, <1>4, <1>5, FansOnly

\* The groups of leaves follow.
LEMMA ToGroup ==
  ASSUME IInv, NInv, NextWalk("set_1", "group")
  PROVE  NInv'
<1>1. pc = "set_1" /\ pc' = "group" /\ UNCHANGED <<links, node, tot_brw>>
  BY DEF NextWalk, Over, Begin, words
<1>2. tot_brw = 0 /\ \A n \in Nodes : ~Leaf(n) => node[n].n_fan = 0
  BY <1>1 DEF NInv, IdsSoFar, FansOfLeaves
<1> QED BY <1>1, <1>2, FansOnly DEF Leaf

\* What is behind a traversal when it begins and goes on.
LEMMA BehindRoot ==
  ASSUME IInv, pc \in Updates, NEW phase, Begin(phase, root), UNCHANGED links
  PROVE  Behind(links', places', {}) /\ places' # <<>>
<1> DEFINE n == stack[1]
           s == places'
<1>1. Forest(links) /\ n \in Nodes /\ s = Down(links, n)
  BY Parts, UpdateRoot DEF Traversed, Begin, root
<1> HIDE DEF n, s
<1>2. Behind(links, s, {})
  BY ONLY <1>1, BehindBegin
<1>3. s # <<>>
  BY ONLY <1>1, WayOfDown
<1> QED BY <1>2, <1>3 DEF s

LEMMA ToPrune ==
  ASSUME IInv, NInv, NextWalk("group", "prune")
  PROVE  NInv'
<1>1. pc = "group" /\ pc' = "prune" /\ Begin("prune", root) /\ UNCHANGED <<links, node, tot_brw>>
  BY DEF NextWalk, Over, Begin, words
<1>2. tot_brw = 0 /\ \A n \in Nodes : ~Leaf(n) => node[n].n_fan = 0
  BY <1>1 DEF NInv, IdsSoFar, FansOfLeaves
<1>3. Behind(links', places', {}) /\ places' # <<>>
  BY <1>1, BehindRoot DEF Updates
<1>4. FansOfLeaves'
  BY <1>1, <1>2 DEF FansOfLeaves, Leaf
<1>5. PrunedSoFar' 
  BY <1>1, <1>3 DEF PrunedSoFar, Pruned
<1>6. IdsSoFar' /\ InnerSoFar'
  BY <1>1, <1>2 DEF IdsSoFar, InnerSoFar, Pruned
<1> QED BY <1>4, <1>5, <1>6 DEF NInv

\* The current node is left alone, and is behind the traversal then.
LEMMA BehindWalk ==
  ASSUME IInv, places # <<>>, Walk(GoOver, links, place), NEW D, Behind(links, places, D)
  PROVE  Behind(links, places', D \cup {p})
<1> DEFINE c == p
           s == places
           t == places'
<1>1. Forest(links) /\ Trail(links, s)
  BY Parts
<1>2. c \in Nodes /\ c = s[Len(s)].now /\ place = s[Len(s)] /\ Len(s) \in Nat /\ Len(s) > 0
  BY Current
<1>3. CASE Len(s) = 1
  <2>1. t = <<>> /\ c = s[1].now
    BY <1>2, <1>3 DEF Walk
  <2>2. Len(s) = 1 /\ Behind(links, s, D) /\ s[1].now \in Nodes
    BY <1>2, <1>3, <2>1
  <2> HIDE DEF s, t, c
  <2>3. Behind(links, <<>>, D \cup {s[1].now})
    BY ONLY <2>2, BehindEnd
  <2> QED BY <2>1, <2>3 DEF t, c
<1>4. CASE Len(s) # 1
  <2>0. Len(s) > 1
    BY <1>2, <1>4, One
  <2>1. CASE GoOver
    <3>1. t = Front(s) /\ c = links.sons[links.father[c]].last
      BY <1>4, <2>1 DEF Walk, GoOver
    <3>2. Forest(links) /\ Trail(links, s) /\ Len(s) > 1 /\ Behind(links, s, D) /\ c = s[Len(s)].now
      BY <1>1, <1>2, <2>0
    <3> HIDE DEF s, t, c
    <3>3. Behind(links, Front(s), D \cup {c})
      BY ONLY <3>1, <3>2, BehindUp
    <3> QED BY <3>1, <3>3 DEF t, c
  <2>2. CASE ~GoOver
    <3> DEFINE d == Down(links, s[Len(s)].fwd)
    <3>1. t = Front(s) \o d
      BY <1>2, <1>4, <2>2 DEF Walk
    <3>2. /\ Forest(links) /\ Trail(links, s) /\ Len(s) > 1 /\ Behind(links, s, D) /\ c = s[Len(s)].now
          /\ d = Down(links, s[Len(s)].fwd)
      BY <1>1, <1>2, <2>0
    <3> HIDE DEF s, t, c, d
    <3>3. Behind(links, Front(s) \o d, D \cup {c})
      BY ONLY <3>2, BehindOn
    <3> QED BY <3>1, <3>3 DEF t, c
  <2> QED BY <2>1, <2>2
<1> QED BY <1>3, <1>4

\* The current node is detached and freed: what is behind the traversal does not
\* change.
LEMMA BehindFreed ==
  ASSUME IInv, places # <<>>, DetachFree, links.father[p] # NULL, links.father[places[1].now] = NULL,
         NEW D, Behind(links, places, D)
  PROVE  /\ Behind(links', places', D)
         /\ \A c \in Nodes : links'.father[c] = IF c = p THEN NULL ELSE links.father[c]
         /\ \A g \in Nodes : g # links.father[p] => links'.sons[g] = links.sons[g]
<1> DEFINE n == p
           s == places
           t == places'
           f == links.father[p]
           d == links'
<1>1. Forest(links) /\ Trail(links, s)
  BY Parts
<1>2. n \in Nodes /\ n = s[Len(s)].now /\ place = s[Len(s)] /\ place.now = n /\ Len(s) \in Nat /\ Len(s) > 0
  BY Current
<1>3. Len(s) > 1
  <2>1. Len(s) = 1 => s[Len(s)] = s[1]
    OBVIOUS
  <2>2. Len(s) # 1
    BY <1>2, <2>1
  <2> QED BY <1>2, <2>2, One
<1>4. f \in Nodes
  BY <1>3, Current
<1>5. d = tree_detach(links, n)
  BY DEF DetachFree
<1>6. Detached(d, f, s, d.next[d.prev[links.next[n]]], t)
  <2>1. Walk(d.sons[f].now = NULL, d, AfterDetach(d, links, n, place))
    BY <1>5, Zenon DEF DetachFree
  <2>2. AfterDetach(d, links, n, place).fwd = d.next[d.prev[links.next[n]]]
    BY <1>2 DEF AfterDetach, Place
  <2>3. t = IF d.sons[f].now = NULL THEN Front(s)
            ELSE Front(s) \o Down(d, d.next[d.prev[links.next[n]]])
    <3>1. Len(s) # 1
      BY <1>2, <1>3
    <3> QED BY <2>1, <2>2, <3>1, Zenon DEF Walk
  <2> QED BY <2>3 DEF Detached
<1>7. f = links.father[n] /\ Behind(links, s, D)
  OBVIOUS
<1> HIDE DEF n, s, t, f, d
<1>8. Behind(d, t, D)
  <2>1. n = s[Len(s)].now
    BY <1>2
  <2> QED BY ONLY <1>1, <1>3, <1>5, <1>6, <1>7, <2>1, BehindDetach
<1>9. /\ \A c \in Nodes : d.father[c] = IF c = n THEN NULL ELSE links.father[c]
      /\ \A g \in Nodes \ {f} : d.sons[g] = links.sons[g]
  <2>1. Forest(links) /\ n \in Nodes /\ f \in Nodes /\ links.father[n] = f
    BY <1>1, <1>2, <1>4, <1>7
  <2> QED BY ONLY <1>5, <2>1, DetachForest
<1> QED BY <1>8, <1>9 DEF n, t, f, d

\* prune(): a node behind the traversal is none that it detaches, and stays a leaf
\* or stays none.
LEMMA PruneNumbers ==
  ASSUME IInv, NInv, prune, IInv'
  PROVE  NInv'
<1>1. /\ pc = "prune" /\ pc' = pc /\ places # <<>>
      /\ CanPrune => DetachFree
      /\ ~CanPrune => Walk(GoOver, links, place) /\ UNCHANGED links
      /\ UNCHANGED <<stack, node, tot_brw>>
  BY DEF prune, At, input, words
<1>2. p \in Nodes /\ places[1].now = stack[1] /\ stack[1] \in Nodes /\ links.father[stack[1]] = NULL
  BY <1>1, Current, UpdateRoot DEF Traversed, Updates
<1>3. /\ tot_brw = 0 /\ \A n \in Nodes : ~Leaf(n) => node[n].n_fan = 0
  BY <1>1 DEF NInv, IdsSoFar, FansOfLeaves
<1>4. PICK D : /\ Behind(links, places, D)
               /\ \A x \in D : Leaf(x) /\ links.father[x] # NULL => Filled(x)
  BY <1>1 DEF NInv, PrunedSoFar
<1>5. /\ D \subseteq Nodes
      /\ \A y \in Nodes : links.father[y] \in D => y \in D
  BY <1>4 DEF Behind
<1>6. IdsSoFar' /\ InnerSoFar'
  BY <1>1, <1>3 DEF IdsSoFar, InnerSoFar, Pruned
<1>7. \A x \in Nodes : Filled(x)' <=> Filled(x)
  BY <1>1 DEF Filled
<1>8. CASE CanPrune
  <2>1. links.father[p] # NULL /\ Leaf(p) /\ ~Filled(p)
    BY <1>8 DEF CanPrune, Filled
  <2>2. /\ Behind(links', places', D)
        /\ \A c \in Nodes : links'.father[c] = IF c = p THEN NULL ELSE links.father[c]
        /\ \A g \in Nodes : g # links.father[p] => links'.sons[g] = links.sons[g]
    BY <1>1, <1>2, <1>4, <1>8, <2>1, BehindFreed
  <2>3. places' # <<>>
    BY <1>1, <1>2, <1>8, <2>1, DetachFreeAlive
  <2>4. p \notin D /\ links.father[p] \notin D
    BY <1>2, <1>4, <1>5, <2>1
  <2>5. \A x \in D : Leaf(x)' <=> Leaf(x)
    BY <1>5, <2>2, <2>4 DEF Leaf
  <2>6. \A x \in D : Leaf(x)' /\ links'.father[x] # NULL => Filled(x)'
    BY <1>4, <1>5, <1>7, <2>2, <2>4, <2>5
  <2>7. PrunedSoFar'
    BY <1>1, <2>2, <2>3, <2>6 DEF PrunedSoFar, Pruned
  <2>8. \A n \in Nodes : ~Leaf(n)' => node'[n].n_fan = 0
    <3> SUFFICES ASSUME NEW n \in Nodes, ~Leaf(n)' PROVE node'[n].n_fan = 0
      OBVIOUS
    <3>1. ~Leaf(n)
      <4>1. CASE n = links.father[p]
        <5>1. Forest(links)
          BY Parts
        <5> QED BY <1>2, <4>1, <5>1, ForestSons DEF Leaf
      <4>2. CASE n # links.father[p]
        BY <2>2, <4>2 DEF Leaf
      <4> QED BY <4>1, <4>2
    <3> QED BY <1>1, <1>3, <3>1
  <2>9. FansOfLeaves'
    BY <2>8 DEF FansOfLeaves
  <2> QED BY <1>6, <2>7, <2>9 DEF NInv
<1>9. CASE ~CanPrune
  <2>1. PICK E : E = D \cup {p}
    OBVIOUS
  <2>2. Behind(links', places', E)
    <3>1. Behind(links, places', D \cup {p})
      BY <1>1, <1>4, <1>9, BehindWalk
    <3> QED BY <1>1, <1>9, <2>1, <3>1
  <2>3. places' = <<>> => stack'[1] \in E
    <3> SUFFICES ASSUME places' = <<>> PROVE stack[1] = p
      BY <1>1, <2>1
    <3>1. Trail(links, places) /\ Forest(links)
      BY Parts
    <3>2. Len(places) = 1
      <4>1. /\ place = places[Len(places)] /\ Len(places) \in Nat /\ Len(places) > 0
        BY <1>1, Current
      <4>2. ASSUME Len(places) # 1 PROVE FALSE
        <5>1. Len(places) > 1
          BY <4>1, <4>2, One
        <5>2. Len(Front(places)) = Len(places) - 1 /\ Trail(links, Front(places))
          BY <1>1, <3>1, WayFront
        <5>3. Front(places) # <<>> /\ Front(places) \in Seq(Places) /\ Len(Front(places)) > 0
          <6>1. Len(Front(places)) > 0
            BY <4>1, <5>1, <5>2
          <6> QED BY <5>2, <6>1 DEF Trail
        <5> DEFINE r == Front(places)
                   d == Down(links, places[Len(places)].fwd)
        <5>4. places' = r \/ places' = r \o d
          BY <1>1, <1>9, <4>1, <4>2 DEF Walk
        <5>5. d \in Seq(Places)
          <6>1. Len(places) \in 1 .. Len(places)
            BY <4>1
          <6>2. places[Len(places)].fwd \in Nodes
            BY <3>1, <6>1, WayNodes
          <6>3. Trail(links, d)
            BY <3>1, <6>2, WayOfDown
          <6> QED BY <6>3 DEF Trail
        <5>6. r \in Seq(Places) /\ Len(r) > 0
          BY <5>3
        <5> HIDE DEF r, d
        <5>7. r # <<>> /\ r \o d # <<>>
          BY <5>5, <5>6
        <5> QED BY <5>4, <5>7
      <4> QED BY <4>2
    <3>3. p = places[Len(places)].now
      BY <1>1, Current
    <3> QED BY <1>2, <3>2, <3>3
  <2>4. \A x \in E : Leaf(x)' /\ links'.father[x] # NULL => Filled(x)'
    <3>1. \A x \in Nodes : Leaf(x)' <=> Leaf(x)
      BY <1>1, <1>9 DEF Leaf
    <3>2. Leaf(p) /\ links.father[p] # NULL => Filled(p)
      BY <1>9 DEF CanPrune, Filled
    <3> QED BY <1>1, <1>2, <1>4, <1>5, <1>7, <1>9, <2>1, <3>1, <3>2
  <2>5. PrunedSoFar'
    BY <1>1, <2>2, <2>3, <2>4 DEF PrunedSoFar, Pruned
  <2>6. FansOfLeaves'
    BY <1>1, <1>3, <1>9 DEF FansOfLeaves, Leaf
  <2> QED BY <1>6, <2>5, <2>6 DEF NInv
<1> QED BY <1>8, <1>9

\* The traversal that prunes is over: no leaf is without a fan, but the root if
\* it is one.
LEMMA ToLeafId ==
  ASSUME IInv, NInv, NextWalk("prune", "leaf_id")
  PROVE  NInv'
<1>1. /\ pc = "prune" /\ pc' = "leaf_id" /\ places = <<>> /\ Begin("leaf_id", root)
      /\ UNCHANGED <<stack, links, mem, node, tot_brw, cur_id>>
  BY DEF NextWalk, Over, Begin, words, input
<1>2. tot_brw = 0 /\ \A n \in Nodes : ~Leaf(n) => node[n].n_fan = 0
  BY <1>1 DEF NInv, IdsSoFar, FansOfLeaves
<1>3. PICK D : /\ Behind(links, places, D) /\ stack[1] \in D
               /\ \A x \in D : Leaf(x) /\ links.father[x] # NULL => Filled(x)
  BY <1>1 DEF NInv, PrunedSoFar
<1>4. Live \subseteq D
  BY <1>1, <1>3, WalkedAll DEF Traversed, Updates
<1>5. \A x \in Nodes : Leaf(x) /\ links.father[x] # NULL => node[x].n_fan # 0
  BY <1>3, <1>4, InnerLive DEF Filled
<1>6. Walked({})'
  BY <1>1, WalkedBegin DEF Updates
<1>7. Numbered(node) = {}
  BY <1>1 DEF IInv, Fields, Numbered
<1>8. Cardinality(Pairs(node, {})) = 0
  <2>1. Pairs(node, {}) = {}
    BY DEF Pairs
  <2> QED BY <2>1, FS_EmptySet
<1>9. FansOfLeaves' /\ PrunedSoFar'
  BY <1>1, <1>2, <1>5 DEF FansOfLeaves, PrunedSoFar, Leaf
<1>10. Numbered(node') = {} /\ IdsUpTo(node', cur_id') /\ tot_brw' = Cardinality(Pairs(node', Numbered(node') \cap Leaves'))
  BY <1>1, <1>2, <1>7, <1>8 DEF IdsUpTo
<1>11. IdsSoFar'
  BY <1>1, <1>6, <1>10 DEF IdsSoFar, Pruned, Parsing
<1>12. InnerSoFar'
  BY <1>1 DEF InnerSoFar
<1> QED BY <1>9, <1>11, <1>12 DEF NInv

\* The pairs of one more leaf.
LEMMA PairsNext ==
  ASSUME NEW nd, NEW W \in SUBSET Nodes, NEW x \in Nodes \ W, nd[x].n_fan \in 0 .. MaxNodes
  PROVE  /\ Cardinality(Pairs(nd, W \cup {x})) = Cardinality(Pairs(nd, W)) + nd[x].n_fan
         /\ Cardinality(Pairs(nd, W)) \in Nat
<1> DEFINE A == Pairs(nd, W)
           B == {x} \X (1 .. nd[x].n_fan)
<1>1. IsFiniteSet(A)
  <2>1. IsFiniteSet(W) /\ IsFiniteSet(1 .. MaxNodes)
    BY SubsetOfNodes, NodesFinite DEF Nodes
  <2>2. IsFiniteSet(W \X (1 .. MaxNodes))
    BY <2>1, FS_Product
  <2>3. A \in SUBSET (W \X (1 .. MaxNodes))
    BY DEF Pairs
  <2> QED BY <2>2, <2>3, FS_Subset
<1>2. IsFiniteSet(B) /\ Cardinality(B) = nd[x].n_fan
  <2> DEFINE k == nd[x].n_fan
  <2>1. k \in Nat
    BY NodesFinite
  <2> HIDE DEF k
  <2>2. IsFiniteSet(1 .. k) /\ Cardinality(1 .. k) = k
    <3>1. 1 \in Int /\ k \in Int /\ (1 > k => k = 0) /\ k - 1 + 1 = k
      BY <2>1
    <3> QED BY <3>1, FS_Interval
  <2>3. IsFiniteSet({x}) /\ Cardinality({x}) = 1
    BY FS_Singleton
  <2>4. /\ IsFiniteSet({x} \X (1 .. k))
        /\ Cardinality({x} \X (1 .. k)) = Cardinality({x}) * Cardinality(1 .. k)
    <3> DEFINE S == {x}
               T == 1 .. k
    <3>1. IsFiniteSet(S) /\ IsFiniteSet(T)
      BY <2>2, <2>3
    <3> HIDE DEF S, T
    <3>2. IsFiniteSet(S \X T) /\ Cardinality(S \X T) = Cardinality(S) * Cardinality(T)
      BY <3>1, FS_Product
    <3> QED BY <3>2 DEF S, T
  <2>5. Cardinality({x}) * Cardinality(1 .. k) = k
    BY <2>1, <2>2, <2>3
  <2> QED BY <2>4, <2>5 DEF k
<1>3. Pairs(nd, W \cup {x}) = A \cup B
  <2>1. \A i \in 1 .. nd[x].n_fan : i \in 1 .. MaxNodes /\ i <= nd[x].n_fan
    BY NodesFinite
  <2>2. \A i \in 1 .. MaxNodes : i <= nd[x].n_fan => i \in 1 .. nd[x].n_fan
    BY NodesFinite
  <2> QED BY <2>1, <2>2 DEF Pairs
<1>4. A \cap B = {}
  BY DEF Pairs
<1> HIDE DEF A, B
<1>5. Cardinality(A \cup B) = Cardinality(A) + Cardinality(B) - 0
  BY <1>1, <1>2, <1>4, FS_Union, FS_EmptySet
<1>6. Cardinality(A) \in Nat /\ nd[x].n_fan \in Nat
  BY <1>1, FS_CardinalityType, NodesFinite
<1>7. Cardinality(A \cup B) = Cardinality(A) + nd[x].n_fan
  BY <1>2, <1>5, <1>6
<1> QED BY <1>3, <1>6, <1>7 DEF A

\* The pairs depend on the fans.
LEMMA PairsSame ==
  ASSUME NEW nd, NEW w, NEW W, \A n \in W : w[n].n_fan = nd[n].n_fan
  PROVE  Pairs(w, W) = Pairs(nd, W)
BY DEF Pairs

\* The next id is given to x.
LEMMA IdsNext ==
  ASSUME NEW nd, NEW k \in Nat, NEW x \in Nodes, nd[x].node_id = 0, IdsUpTo(nd, k),
         \A n \in Nodes : nd[n].node_id \in Nat,
         NEW w, \A n \in Nodes : w[n].node_id = IF n = x THEN k + 1 ELSE nd[n].node_id
  PROVE  IdsUpTo(w, k + 1) /\ Numbered(w) = Numbered(nd) \cup {x} /\ x \notin Numbered(nd)
<1>1. Numbered(w) = Numbered(nd) \cup {x} /\ x \notin Numbered(nd)
  BY DEF Numbered
<1>2. \A y \in Numbered(nd) : y \in Nodes /\ nd[y].node_id \in Nat /\ nd[y].node_id <= k
  BY DEF IdsUpTo, Numbered
<1>3. \A y \in Numbered(nd) : w[y].node_id = nd[y].node_id /\ w[y].node_id # k + 1 /\ w[y].node_id <= k + 1
  BY <1>1, <1>2
<1>4. w[x].node_id = k + 1 /\ k + 1 <= k + 1
  OBVIOUS
<1> QED BY <1>1, <1>3, <1>4 DEF IdsUpTo

\* assign_leaf_id(): the next leaf gets the next id, and its fan is counted.
LEMMA LeafIdNumbers ==
  ASSUME IInv, NInv, assign_leaf_id
  PROVE  NInv'
<1>1. /\ pc = "leaf_id" /\ pc' = pc /\ places # <<>> /\ Walk(GoOver, links, place)
      /\ Leaf(p) => /\ cur_id' = cur_id + 1 /\ node' = [node EXCEPT ![p].node_id = cur_id + 1]
                    /\ tot_brw' = tot_brw + node[p].n_fan
      /\ ~Leaf(p) => UNCHANGED <<cur_id, node, tot_brw>>
      /\ UNCHANGED <<stack, links, mem>>
  BY DEF assign_leaf_id, At, input
<1>2. p \in Nodes
  BY <1>1, Current
<1>3. /\ \A n \in Nodes : ~Leaf(n) => node[n].n_fan = 0
      /\ \A x \in Nodes : Leaf(x) /\ links.father[x] # NULL => node[x].n_fan # 0
      /\ IdsUpTo(node, cur_id) /\ tot_brw = Cardinality(Pairs(node, Numbered(node) \cap Leaves))
  BY <1>1 DEF NInv, FansOfLeaves, PrunedSoFar, IdsSoFar, Pruned
<1>4. PICK D : Walked(D) /\ Numbered(node) = {x \in D : Leaf(x)}
  BY <1>1 DEF NInv, IdsSoFar
<1>5. PICK E : E = D \cup {p} /\ Walked(E)'
  BY <1>1, <1>4, WalkedOn DEF Updates
<1>6. p \notin D /\ p \in Live /\ D \subseteq Live
  BY <1>1, <1>4, WalkedOn DEF Updates, Walked
<1>7. /\ node \in [Nodes -> NodeType] /\ cur_id = Cardinality(Numbered(node)) /\ cur_id \in Nat
      /\ \A n \in Nodes : node[n] \in NodeType /\ node[n].n_fan \in 0 .. MaxNodes /\ node[n].node_id \in Nat
  BY FieldParts, NumberedFinite, NodesFinite
<1>8. (\A x \in Nodes : Leaf(x)' <=> Leaf(x)) /\ Leaves' = Leaves
  BY <1>1 DEF Leaf, Leaves, Live
<1>9. D \subseteq Nodes
  BY <1>6 DEF Live
<1>10. InnerSoFar'
  BY <1>1 DEF InnerSoFar
<1>11. CASE ~Leaf(p)
  <2>1. Numbered(node') = {x \in E : Leaf(x)'}
    BY <1>1, <1>2, <1>4, <1>5, <1>8, <1>9, <1>11
  <2>2. FansOfLeaves' /\ PrunedSoFar'
    BY <1>1, <1>3, <1>8, <1>11 DEF FansOfLeaves, PrunedSoFar
  <2>3. IdsSoFar'
    BY <1>1, <1>3, <1>5, <1>8, <1>11, <2>1 DEF IdsSoFar, Pruned, Parsing
  <2> QED BY <1>10, <2>2, <2>3 DEF NInv
<1>12. CASE Leaf(p)
  <2> DEFINE w == node'
             k == cur_id
             x == p
             L == Numbered(node)
  <2>1. \A n \in Nodes : /\ w[n].n_fan = node[n].n_fan
                         /\ w[n].node_id = IF n = x THEN k + 1 ELSE node[n].node_id
    BY <1>1, <1>2, <1>7, <1>12 DEF NodeType
  <2>2. node[x].node_id = 0 /\ x \in Nodes /\ k \in Nat /\ IdsUpTo(node, k) /\ \A n \in Nodes : node[n].node_id \in Nat
    BY <1>2, <1>3, <1>4, <1>6, <1>7 DEF Numbered
  <2> HIDE DEF w, k, x
  <2>3. IdsUpTo(w, k + 1) /\ Numbered(w) = L \cup {x} /\ x \notin L
    BY <2>1, <2>2, IdsNext
  <2>4. L \subseteq Leaves /\ L \in SUBSET Nodes /\ x \in Leaves
    BY <1>4, <1>6, <1>9, <1>12 DEF Leaves, x
  <2>5. Numbered(w) \cap Leaves = L \cup {x} /\ Numbered(node) \cap Leaves = L
    BY <2>3, <2>4
  <2>6. Pairs(w, L \cup {x}) = Pairs(node, L \cup {x})
    <3>1. \A n \in L \cup {x} : w[n].n_fan = node[n].n_fan
      BY <2>1, <2>2, <2>4
    <3> QED BY <3>1, PairsSame
  <2>7. Cardinality(Pairs(node, L \cup {x})) = Cardinality(Pairs(node, L)) + node[x].n_fan
    <3>1. x \in Nodes \ L /\ node[x].n_fan \in 0 .. MaxNodes
      BY <1>7, <2>2, <2>3
    <3> QED BY <2>4, <3>1, PairsNext
  <2>8. tot_brw' = Cardinality(Pairs(w, Numbered(w) \cap Leaves))
    BY <1>1, <1>3, <1>12, <2>5, <2>6, <2>7 DEF x
  <2>9. Numbered(w) = {y \in E : Leaf(y)'}
    BY <1>4, <1>5, <1>8, <1>9, <1>12, <2>2, <2>3 DEF x
  <2>10. cur_id' = k + 1
    BY <1>1, <1>12 DEF k
  <2>11. FansOfLeaves' /\ PrunedSoFar'
    BY <1>1, <1>3, <1>8, <2>1 DEF FansOfLeaves, PrunedSoFar, w
  <2>12. IdsSoFar'
    BY <1>1, <1>5, <1>8, <2>3, <2>8, <2>9, <2>10 DEF IdsSoFar, Pruned, Parsing, w
  <2> QED BY <1>10, <2>11, <2>12 DEF NInv
<1> QED BY <1>11, <1>12

\* Every leaf has its id now, and the inner nodes are next.
LEMMA ToInternal ==
  ASSUME IInv, NInv, NextWalk("leaf_id", "internal")
  PROVE  NInv'
<1>1. /\ pc = "leaf_id" /\ pc' = "internal" /\ places = <<>> /\ Begin("internal", root)
      /\ UNCHANGED <<stack, links, mem, node, tot_brw, cur_id>>
  BY DEF NextWalk, Over, Begin, words, input
<1>2. /\ \A n \in Nodes : ~Leaf(n) => node[n].n_fan = 0
      /\ \A x \in Nodes : Leaf(x) /\ links.father[x] # NULL => node[x].n_fan # 0
      /\ IdsUpTo(node, cur_id) /\ tot_brw = Cardinality(Pairs(node, Numbered(node) \cap Leaves))
  BY <1>1 DEF NInv, FansOfLeaves, PrunedSoFar, IdsSoFar, Pruned
<1>3. PICK D : Walked(D) /\ Numbered(node) = {x \in D : Leaf(x)}
  BY <1>1 DEF NInv, IdsSoFar
<1>4. D = Live
  <2>1. D \subseteq Live /\ Behind(links, <<>>, D) /\ stack[1] \in D
    BY <1>1, <1>3 DEF Walked, Visited
  <2>2. Live \subseteq D
    BY <1>1, <2>1, WalkedAll DEF Traversed, Updates
  <2> QED BY <2>1, <2>2
<1>5. Numbered(node) = Leaves
  BY <1>3, <1>4 DEF Leaves
<1>6. cur_id = Cardinality(Leaves)
  BY <1>5, FieldParts
<1>7. Walked({})'
  BY <1>1, WalkedBegin DEF Updates
<1>8. (\A x \in Nodes : Leaf(x)' <=> Leaf(x)) /\ Leaves' = Leaves
  BY <1>1 DEF Leaf, Leaves, Live
<1>9. FansOfLeaves' /\ PrunedSoFar'
  BY <1>1, <1>2, <1>8 DEF FansOfLeaves, PrunedSoFar
<1>10. Numbered(node') = Leaves' \cup {}
  BY <1>1, <1>5, <1>8
<1>11. IdsSoFar'
  BY <1>1, <1>2, <1>7, <1>8, <1>10 DEF IdsSoFar, Pruned, Parsing
<1>12. \A x \in Leaves' : node'[x].node_id <= Cardinality(Leaves')
  BY <1>1, <1>2, <1>5, <1>6, <1>8 DEF IdsUpTo
<1>13. Numbered(node') \ Leaves' = {}
  BY <1>10
<1>14. \A x \in Nodes : ~Leaf(x)' /\ x \notin Numbered(node') => node'[x].n_fan = 0
  BY <1>1, <1>2, <1>8
<1>15. InnerSoFar'
  BY <1>12, <1>13, <1>14 DEF InnerSoFar
<1> QED BY <1>9, <1>11, <1>15 DEF NInv

\* count_sons() of an inner node: its fan and the ranks of its sons.
LEMMA AssignedRanks ==
  ASSUME IInv, NEW x \in Nodes
  PROVE  /\ Assigned(x)[x].n_fan = Cardinality(Sons(x))
         /\ \A i \in DOMAIN SonSeq(x) : Assigned(x)[SonSeq(x)[i]].rank = i - 1
         /\ \A n \in Nodes : n \notin Sons(x) => Assigned(x)[n].rank = node[n].rank
<1>1. Alive(links, mem) /\ Forest(links)
  BY Parts
<1> DEFINE s == SonSeq(x)
           R(n) == (CHOOSE i \in DOMAIN s : s[i] = n) - 1
           w == Assigned(x)
<1>2. /\ Len(s) \in 0 .. MaxNodes /\ DOMAIN s = 1 .. Len(s) /\ IsList(links, x, s)
      /\ Cardinality(Sons(x)) = Len(s)
      /\ \A n : n \in Sons(x) <=> \E i \in 1 .. Len(s) : s[i] = n
  <2>1. PICK r : IsList(links, x, r)
    BY <1>1 DEF Forest
  <2> QED BY <1>1, <2>1, SonList
<1>3. \A n \in Nodes : node[n] \in NodeType
  BY FieldParts
<1>4. w = [n \in Nodes |->
             IF n = x THEN [node[n] EXCEPT !.node_id = cur_id + 1, !.n_fan = Len(s)]
             ELSE IF n \in ToSet(s) THEN [node[n] EXCEPT !.rank = R(n)]
             ELSE node[n]]
  BY Zenon DEF Assigned
<1>5. \A i, j \in 1 .. Len(s) : s[i] = s[j] => i = j
  BY <1>2 DEF IsList
<1>6. ToSet(s) = Sons(x)
  <2>1. ToSet(s) = {s[i] : i \in 1 .. Len(s)}
    BY <1>2 DEF ToSet
  <2> QED BY <1>2, <2>1
<1>7. x \notin Sons(x)
  BY <1>1, ForestFather DEF Sons
<1> HIDE DEF w, s
<1>8. w[x].n_fan = Cardinality(Sons(x)) /\ w[x].rank = node[x].rank
  <2>1. w[x] = [node[x] EXCEPT !.node_id = cur_id + 1, !.n_fan = Len(s)]
    BY <1>4
  <2>2. node[x] \in NodeType
    BY <1>3
  <2> QED BY <1>2, <2>1, <2>2 DEF NodeType
<1>9. ASSUME NEW i \in 1 .. Len(s) PROVE w[s[i]].rank = i - 1
  <2>1. s[i] \in Sons(x) /\ s[i] \in Nodes /\ s[i] # x
    BY <1>2, <1>7 DEF Sons, Live
  <2>2. w[s[i]] = [node[s[i]] EXCEPT !.rank = R(s[i])]
    BY <1>4, <1>6, <2>1
  <2>3. (CHOOSE j \in DOMAIN s : s[j] = s[i]) = i
    BY <1>2, <1>5
  <2>4. R(s[i]) = i - 1
    BY <2>3
  <2> DEFINE q == node[s[i]]
             k == i - 1
  <2>5. w[s[i]] = [q EXCEPT !.rank = k] /\ q \in NodeType
    BY <1>3, <2>1, <2>2, <2>4
  <2> HIDE DEF q, k
  <2>6. w[s[i]].rank = k
    BY <2>5 DEF NodeType
  <2> QED BY <2>6 DEF k
<1>10. ASSUME NEW n \in Nodes, n \notin Sons(x), n # x PROVE w[n].rank = node[n].rank
  BY <1>4, <1>6, <1>10
<1> QED BY <1>2, <1>8, <1>9, <1>10 DEF w, s

\* Nothing changes of a node whose sons have their ranks.
LEMMA CountsKept ==
  ASSUME IInv, NEW f \in Nodes, Counts(node, f), NEW w,
         w[f].n_fan = node[f].n_fan, w[f].node_id = node[f].node_id,
         \A c \in Sons(f) : w[c].rank = node[c].rank /\ w[c].node_id = node[c].node_id
  PROVE  Counts(w, f)
<1>1. PICK r : IsList(links, f, r)
  BY Parts DEF Forest
<1>2. \A i \in DOMAIN SonSeq(f) : SonSeq(f)[i] \in Sons(f)
  BY <1>1, Parts, SonList
<1>3. \A c \in Sons(f) : c \in Nodes
  BY DEF Sons, Live
<1> QED BY <1>2, <1>3 DEF Counts, Numbered

\* Of the numbering, what only the links and the memory say.
LEMMA LinksKept ==
  ASSUME UNCHANGED <<links, mem>>
  PROVE  /\ Live' = Live /\ Leaves' = Leaves
         /\ \A x \in Nodes : /\ Leaf(x)' <=> Leaf(x)
                             /\ Sons(x)' = Sons(x) /\ SonSeq(x)' = SonSeq(x)
BY DEF Live, Leaves, Leaf, Sons, SonSeq

\* assign_internal(): the sons of the current node were visited before it.
LEMMA InternalNumbers ==
  ASSUME IInv, NInv, assign_internal, IInv'
  PROVE  NInv'
<1>1. /\ pc = "internal" /\ pc' = pc /\ places # <<>> /\ Walk(GoOver, links, place)
      /\ ~Leaf(p) /\ node[p].n_fan = 0 => cur_id' = cur_id + 1 /\ node' = Assigned(p)
      /\ ~(~Leaf(p) /\ node[p].n_fan = 0) => UNCHANGED <<cur_id, node>>
      /\ UNCHANGED <<stack, links, mem, tot_brw>>
  BY DEF assign_internal, At, input
<1>2. p \in Nodes
  BY <1>1, Current
<1>3. /\ \A x \in Nodes : Leaf(x) /\ links.father[x] # NULL => node[x].n_fan # 0
      /\ IdsUpTo(node, cur_id) /\ tot_brw = Cardinality(Pairs(node, Numbered(node) \cap Leaves))
  BY <1>1 DEF NInv, PrunedSoFar, IdsSoFar, Pruned
<1>4. /\ \A x \in Leaves : node[x].node_id <= Cardinality(Leaves)
      /\ \A x \in Numbered(node) \ Leaves : node[x].node_id > Cardinality(Leaves) /\ Counts(node, x)
      /\ \A x \in Nodes : ~Leaf(x) /\ x \notin Numbered(node) => node[x].n_fan = 0
  BY <1>1 DEF NInv, InnerSoFar
<1>5. PICK D : Walked(D) /\ Numbered(node) = Leaves \cup D
  BY <1>1 DEF NInv, IdsSoFar
<1>6. PICK E : E = D \cup {p} /\ Walked(E)'
  BY <1>1, <1>5, WalkedOn DEF Updates
<1>7. p \notin D /\ p \in Live /\ D \subseteq Live /\ \A y \in Nodes : links.father[y] = p => y \in D
  BY <1>1, <1>5, WalkedOn DEF Updates, Walked
<1>8. /\ cur_id = Cardinality(Numbered(node)) /\ cur_id \in Nat
      /\ \A n \in Nodes : node[n] \in NodeType /\ node[n].n_fan \in 0 .. MaxNodes /\ node[n].node_id \in Nat
  BY FieldParts, NumberedFinite, NodesFinite
<1>9. /\ Live' = Live /\ Leaves' = Leaves
      /\ \A x \in Nodes : /\ Leaf(x)' <=> Leaf(x)
                          /\ Sons(x)' = Sons(x) /\ SonSeq(x)' = SonSeq(x)
  BY <1>1, LinksKept
<1>10. FansOfLeaves'
  BY <1>1 DEF FansOfLeaves
<1>11. Leaves \subseteq Live /\ Live \subseteq Nodes /\ \A x \in Nodes : x \in Leaves <=> x \in Live /\ Leaf(x)
  BY DEF Leaves, Live
<1>12. CASE ~(~Leaf(p) /\ node[p].n_fan = 0)
  <2>1. p \in Leaves
    BY <1>2, <1>4, <1>5, <1>7, <1>11, <1>12
  <2>2. Numbered(node') = Leaves' \cup E
    BY <1>1, <1>5, <1>6, <1>9, <1>12, <2>1
  <2>3. PrunedSoFar'
    BY <1>1, <1>3, <1>9, <1>12 DEF PrunedSoFar
  <2>4. IdsSoFar'
    BY <1>1, <1>3, <1>6, <1>9, <1>12, <2>2 DEF IdsSoFar, Pruned, Parsing
  <2>5. \A x \in Nodes : Counts(node, x)' <=> Counts(node, x)
    BY <1>1, <1>9, <1>12 DEF Counts
  <2>6. InnerSoFar'
    <3>1. Numbered(node)' = Numbered(node) /\ node' = node
      BY <1>1, <1>12
    <3>2. \A x \in Numbered(node) \ Leaves : node[x].node_id > Cardinality(Leaves) /\ Counts(node, x)'
      BY <1>4, <2>5 DEF Numbered
    <3> QED BY <1>4, <1>9, <3>1, <3>2 DEF InnerSoFar
  <2> QED BY <1>10, <2>3, <2>4, <2>6 DEF NInv
<1>13. CASE ~Leaf(p) /\ node[p].n_fan = 0
  <2> DEFINE w == node'
             k == cur_id
             x == p
             N == Numbered(node)
  <2>0. p \in Nodes /\ ~Leaf(p) /\ x = p /\ x \in Nodes /\ x \notin Leaves
    BY <1>2, <1>11, <1>13
  <2>1. w = Assigned(x) /\ cur_id' = k + 1
    BY <1>1, <1>13
  <2>2. node[x].node_id = 0 /\ x \notin N
    <3>1. x \notin N
      BY <1>5, <1>7, <2>0
    <3> QED BY <2>0, <3>1 DEF Numbered
  <2>3. k + 1 \in 0 .. MaxNodes
    <3>1. IsFiniteSet(N) /\ k = Cardinality(N) /\ x \notin N /\ N \cup {x} \in SUBSET Nodes
      BY <1>8, <2>0, <2>2, NumberedFinite DEF Numbered
    <3> HIDE DEF N, k, x
    <3>2. Cardinality(N \cup {x}) = k + 1
      BY <3>1, FS_AddElement
    <3> QED BY <3>1, <3>2, SubsetOfNodes
  <2>4. \A n \in Nodes : /\ w[n].node_id = IF n = x THEN k + 1 ELSE node[n].node_id
                         /\ n # x => w[n].n_fan = node[n].n_fan
    BY <2>0, <2>1, <2>3, AssignedFields DEF Leaf
  <2>5. /\ w[x].n_fan = Cardinality(Sons(x))
        /\ \A i \in DOMAIN SonSeq(x) : w[SonSeq(x)[i]].rank = i - 1
        /\ \A n \in Nodes : n \notin Sons(x) => w[n].rank = node[n].rank
    BY <2>0, <2>1, AssignedRanks
  <2>6. k \in Nat /\ IdsUpTo(node, k) /\ k = Cardinality(N)
        /\ \A n \in Nodes : node[n].node_id \in Nat /\ node[n].n_fan \in 0 .. MaxNodes
    BY <1>3, <1>8
  <2>7. \A c \in Sons(x) : c \in Nodes /\ c \in D /\ c \in N
    BY <1>5, <1>7 DEF Sons, Live
  <2>8. N = Leaves \cup D /\ E = D \cup {x} /\ N \in SUBSET Nodes /\ x \in Live
    BY <1>5, <1>6, <1>7, <1>11 DEF Numbered
  <2> HIDE DEF w, k, x, N
  <2>9. IdsUpTo(w, k + 1) /\ Numbered(w) = N \cup {x}
    BY <2>0, <2>2, <2>4, <2>6, IdsNext DEF N
  <2>10. Numbered(w) = Leaves \cup E
    BY <2>8, <2>9
  <2>11. Cardinality(Leaves) \in Nat /\ Cardinality(Leaves) <= k
    <3>1. IsFiniteSet(N) /\ Leaves \in SUBSET N
      BY <2>8, SubsetOfNodes
    <3>2. IsFiniteSet(Leaves) /\ Cardinality(Leaves) <= Cardinality(N)
      BY <3>1, FS_Subset
    <3> QED BY <2>6, <3>2, FS_CardinalityType
  <2>12. Numbered(w) \cap Leaves = Leaves /\ N \cap Leaves = Leaves
    BY <2>8, <2>10
  <2>13. tot_brw' = Cardinality(Pairs(w, Numbered(w) \cap Leaves))
    <3>1. \A n \in Leaves : w[n].n_fan = node[n].n_fan
      BY <1>11, <2>0, <2>4
    <3>2. Pairs(w, Leaves) = Pairs(node, Leaves)
      BY <3>1, PairsSame
    <3> QED BY <1>1, <1>3, <2>12, <3>2 DEF N
  <2>14. PrunedSoFar'
    <3>1. \A n \in Nodes : Leaf(n) => w[n].n_fan = node[n].n_fan
      BY <2>0, <2>4
    <3> QED BY <1>1, <1>3, <1>9, <3>1 DEF PrunedSoFar, w
  <2>15. IdsSoFar'
    BY <1>1, <1>6, <1>9, <2>1, <2>9, <2>10, <2>13 DEF IdsSoFar, Pruned, Parsing, w
  <2>16. \A n \in Leaves : w[n].node_id <= Cardinality(Leaves)
    BY <1>4, <1>11, <2>0, <2>4
  <2>17. Counts(w, x)
    <3>1. \A c \in Sons(x) : c \in Numbered(w) /\ w[c].node_id < w[x].node_id
      <4> TAKE c \in Sons(x)
      <4>1. c \in N /\ c # x /\ c \in Nodes
        BY <2>2, <2>7 DEF N
      <4>2. w[c].node_id = node[c].node_id /\ w[x].node_id = k + 1
        BY <2>0, <2>4, <4>1
      <4>3. node[c].node_id <= k /\ node[c].node_id \in Nat
        BY <2>6, <4>1 DEF IdsUpTo, N
      <4> QED BY <2>6, <2>9, <4>1, <4>2, <4>3
    <3> QED BY <2>5, <3>1 DEF Counts
  <2>18. ASSUME NEW n \in N \ Leaves PROVE w[n].node_id > Cardinality(Leaves) /\ Counts(w, n)
    <3>1. n \in Nodes /\ n # x /\ n \in Numbered(node)
      BY <2>2, <2>8 DEF N
    <3>2. node[n].node_id > Cardinality(Leaves) /\ Counts(node, n)
      BY <1>4, <2>18, <3>1
    <3>3. w[n].n_fan = node[n].n_fan /\ w[n].node_id = node[n].node_id
      BY <2>4, <3>1
    <3>4. \A c \in Sons(n) : w[c].rank = node[c].rank /\ w[c].node_id = node[c].node_id
      <4> TAKE c \in Sons(n)
      <4>1. c \in Nodes /\ links.father[c] = n
        BY DEF Sons, Live
      <4>2. c \notin Sons(x)
        BY <3>1, <4>1 DEF Sons
      <4>3. c # x
        <5>1. c \in Numbered(node)
          BY <3>2 DEF Counts
        <5> QED BY <2>2, <5>1 DEF N
      <4> QED BY <2>4, <2>5, <4>1, <4>2, <4>3
    <3>5. Counts(w, n)
      BY <3>1, <3>2, <3>3, <3>4, CountsKept
    <3> QED BY <3>2, <3>3, <3>5
  <2>19. \A n \in Numbered(w) \ Leaves : w[n].node_id > Cardinality(Leaves) /\ Counts(w, n)
    <3>1. w[x].node_id > Cardinality(Leaves)
      BY <2>0, <2>4, <2>6, <2>11
    <3> QED BY <2>9, <2>17, <2>18, <3>1
  <2>20. \A n \in Nodes : ~Leaf(n) /\ n \notin Numbered(w) => w[n].n_fan = 0
    BY <1>4, <2>4, <2>9 DEF N
  <2>21. InnerSoFar'
    <3>1. \A n \in Nodes : Counts(w, n) <=> Counts(node, n)'
      BY <1>9 DEF Counts, w
    <3>2. Numbered(w) \subseteq Nodes
      BY DEF Numbered
    <3>3. /\ \A n \in Leaves' : node'[n].node_id <= Cardinality(Leaves')
          /\ \A n \in Numbered(node)' \ Leaves' : node'[n].node_id > Cardinality(Leaves') /\ Counts(node, n)'
          /\ \A n \in Nodes : ~Leaf(n)' /\ n \notin Numbered(node)' => node'[n].n_fan = 0
      BY <1>9, <2>16, <2>19, <2>20, <3>1, <3>2 DEF w
    <3> QED BY <3>3 DEF InnerSoFar
  <2> QED BY <1>10, <2>14, <2>15, <2>21 DEF NInv
<1> QED BY <1>12, <1>13

\* Every node has its id now.  A tree that is one leaf has a fan, or the update
\* fails.
LEMMA UpdatedNumbers ==
  ASSUME IInv, NInv, Updated
  PROVE  NInv'
<1>1. /\ pc = "internal" /\ places = <<>> /\ pc' \in {"release", "updated"}
      /\ pc' = "updated" => tot_brw # 0
      /\ UNCHANGED <<stack, links, mem, node, tot_brw, cur_id>>
  BY DEF Updated, Over, words, input
<1>2. CASE pc' = "release"
  BY <1>2, NothingNumbered
<1>3. CASE pc' = "updated"
  <2>1. /\ \A x \in Nodes : Leaf(x) /\ links.father[x] # NULL => node[x].n_fan # 0
        /\ IdsUpTo(node, cur_id) /\ tot_brw = Cardinality(Pairs(node, Numbered(node) \cap Leaves))
    BY <1>1 DEF NInv, PrunedSoFar, IdsSoFar, Pruned
  <2>2. PICK D : Walked(D) /\ Numbered(node) = Leaves \cup D
    BY <1>1 DEF NInv, IdsSoFar
  <2>3. D = Live
    <3>1. D \subseteq Live /\ Behind(links, <<>>, D) /\ stack[1] \in D
      BY <1>1, <2>2 DEF Walked, Visited
    <3>2. Live \subseteq D
      BY <1>1, <3>1, WalkedAll DEF Traversed, Updates
    <3> QED BY <3>1, <3>2
  <2>4. Numbered(node) = Live
    BY <2>2, <2>3 DEF Leaves
  <2>5. ASSUME NEW x \in Leaves PROVE node[x].n_fan # 0
    <3>0. x \in Live /\ x \in Nodes /\ Leaf(x)
      BY DEF Leaves, Live
    <3>1. CASE links.father[x] # NULL
      BY <2>1, <3>0, <3>1
    <3>2. CASE links.father[x] = NULL
      <4>1. x = stack[1]
        BY <1>1, <3>0, <3>2, LiveFather, NodeNotNull DEF Traversed, Updates, Live
      <4>2. \A y \in Nodes : links.father[y] # x
        BY <3>0, Parts, ForestSons DEF Leaf
      <4>3. Behind(links, <<>>, {x})
        BY <3>0, <4>2 DEF Behind
      <4>4. Live \subseteq {x}
        BY <1>1, <4>1, <4>3, WalkedAll DEF Traversed, Updates
      <4>5. Numbered(node) \cap Leaves = {x}
        BY <2>4, <3>0, <4>4
      <4>6. ASSUME node[x].n_fan = 0 PROVE FALSE
        <5>1. \A i \in 1 .. MaxNodes : ~(i <= node[x].n_fan)
          BY <4>6
        <5>2. Pairs(node, {x}) = {}
          BY <5>1 DEF Pairs
        <5> QED BY <1>1, <1>3, <2>1, <4>5, <5>2, FS_EmptySet
      <4> QED BY <4>6
    <3> QED BY <3>1, <3>2
  <2>6. /\ Live' = Live /\ Leaves' = Leaves
        /\ \A x \in Nodes : /\ Leaf(x)' <=> Leaf(x)
                            /\ Sons(x)' = Sons(x) /\ SonSeq(x)' = SonSeq(x)
    BY <1>1, LinksKept
  <2>7. FansOfLeaves' /\ PrunedSoFar'
    BY <1>1, <1>3, <2>1, <2>6 DEF FansOfLeaves, PrunedSoFar
  <2>8. IdsSoFar'
    BY <1>1, <1>3, <2>1, <2>4, <2>5, <2>6 DEF IdsSoFar, Pruned, Parsing
  <2>9. InnerSoFar'
    <3>1. \A x \in Nodes : Counts(node, x)' <=> Counts(node, x)
      BY <1>1, <2>6 DEF Counts
    <3>2. \A x \in Numbered(node) : x \in Nodes
      BY DEF Numbered
    <3> QED BY <1>1, <2>6, <3>1, <3>2 DEF NInv, InnerSoFar
  <2> QED BY <2>7, <2>8, <2>9 DEF NInv
<1> QED BY <1>1, <1>2, <1>3

\* The branch words are read from the tree.
LEMMA WordsNumber ==
  ASSUME NInv, pc \in {"updated", "subpaths"}, pc' \in {"updated", "subpaths"},
         UNCHANGED <<links, mem, node, tot_brw, cur_id>>
  PROVE  NInv'
<1>1. /\ Live' = Live /\ Leaves' = Leaves
      /\ \A x \in Nodes : /\ Leaf(x)' <=> Leaf(x)
                          /\ Sons(x)' = Sons(x) /\ SonSeq(x)' = SonSeq(x)
  BY LinksKept
<1>2. FansOfLeaves' /\ PrunedSoFar'
  BY <1>1 DEF NInv, FansOfLeaves, PrunedSoFar, Pruned
<1>3. IdsSoFar'
  BY <1>1 DEF NInv, IdsSoFar, Pruned, Parsing
<1>4. InnerSoFar'
  <2>1. \A x \in Nodes : Counts(node, x)' <=> Counts(node, x)
    BY <1>1 DEF Counts
  <2>2. \A x \in Numbered(node) : x \in Nodes
    BY DEF Numbered
  <2> QED BY <1>1, <2>1, <2>2 DEF NInv, InnerSoFar
<1> QED BY <1>2, <1>3, <1>4 DEF NInv

\* Nothing changes.
LEMMA StutterNumbers ==
  ASSUME NInv, UNCHANGED vars
  PROVE  NInv'
<1>1. UNCHANGED <<stack, pc, links, node, mem, places, cur_id, tot_brw>>
  BY DEF vars, input, words
<1>2. /\ Live' = Live /\ Leaves' = Leaves
      /\ \A x \in Nodes : /\ Leaf(x)' <=> Leaf(x)
                          /\ Sons(x)' = Sons(x) /\ SonSeq(x)' = SonSeq(x)
  BY <1>1, LinksKept
<1>3. FansOfLeaves' /\ PrunedSoFar'
  BY <1>1 DEF NInv, FansOfLeaves, PrunedSoFar, Filled, Leaf
<1>4. \A D : Walked(D)' <=> Walked(D)
  BY <1>1, <1>2 DEF Walked
<1>5. IdsSoFar'
  BY <1>1, <1>2, <1>4 DEF NInv, IdsSoFar, Leaf
<1>6. InnerSoFar'
  <2>1. \A x \in Nodes : Counts(node, x)' <=> Counts(node, x)
    BY <1>1, <1>2 DEF Counts
  <2>2. \A x \in Numbered(node) : x \in Nodes
    BY DEF Numbered
  <2> QED BY <1>1, <1>2, <2>1, <2>2 DEF NInv, InnerSoFar
<1> QED BY <1>3, <1>5, <1>6 DEF NInv

\* Every step.
LEMMA NextNumbers ==
  ASSUME IInv, NInv, [Next]_vars, IInv'
  PROVE  NInv'
<1>1. CASE Parse
  <2>1. pc \in Parsing /\ tot_brw' = tot_brw
    <3>1. CASE Atom \/ Operator("+", "ADD") \/ Operator("/", "FRAC") \/ Script \/ Hang \/ StackRel
      BY <3>1 DEF Atom, Operator, Script, Hang, StackRel, Reduce, Parsing, words
    <3>2. CASE AttachSon \/ PassSons \/ son_pass \/ Passing \/ DropTree \/ Dropped \/ SyntaxError \/ Accept
      BY <3>2 DEF AttachSon, PassSons, son_pass, Passing, DropTree, Dropped, SyntaxError, Accept,
                  CallTo, At, Over, Parsing, words
    <3> QED BY <1>1, <3>1, <3>2 DEF Parse
  <2>2. pc' \in Parsing \cup {"accepted", "release"}
    <3>1. CASE Atom \/ Operator("+", "ADD") \/ Operator("/", "FRAC") \/ Script \/ Hang \/ StackRel
      BY <3>1 DEF Atom, Operator, Script, Hang, StackRel, Reduce, Parsing
    <3>2. CASE AttachSon \/ PassSons \/ son_pass \/ Passing \/ DropTree \/ Dropped \/ SyntaxError \/ Accept
      BY <3>2 DEF AttachSon, PassSons, son_pass, Passing, DropTree, Dropped, SyntaxError, Accept,
                  CallTo, At, Over, Begin, Parsing
    <3> QED BY <1>1, <3>1, <3>2 DEF Parse
  <2>3. tot_brw = 0
    BY <2>1 DEF NInv, IdsSoFar
  <2> QED BY <2>1, <2>2, <2>3, NothingNumbered
<1>2. CASE Assign
  <2>1. CASE Update BY <2>1, UpdateNumbers
  <2>2. CASE leaf_n_fan_set_1 BY <2>2, Set1Numbers
  <2>3. CASE NextWalk("set_1", "group") BY <2>3, ToGroup
  <2>4. CASE group_leaf BY <2>4, GroupNumbers
  <2>5. CASE NextWalk("group", "prune") BY <2>5, ToPrune
  <2>6. CASE prune BY <2>6, PruneNumbers
  <2>7. CASE NextWalk("prune", "leaf_id") BY <2>7, ToLeafId
  <2>8. CASE assign_leaf_id BY <2>8, LeafIdNumbers
  <2>9. CASE NextWalk("leaf_id", "internal") BY <2>9, ToInternal
  <2>10. CASE assign_internal BY <2>10, InternalNumbers
  <2>11. CASE Updated BY <2>11, UpdatedNumbers
  <2> QED BY <1>2, <2>1, <2>2, <2>3, <2>4, <2>5, <2>6, <2>7, <2>8, <2>9, <2>10, <2>11 DEF Assign
<1>3. CASE \E n \in Nodes : Subpaths(n)
  <2>1. pc = "updated" /\ pc' = "subpaths" /\ UNCHANGED <<links, mem, node, tot_brw, cur_id>>
    BY <1>3 DEF Subpaths, Begin
  <2> QED BY <2>1, WordsNumber
<1>4. CASE gen_subpath
  <2>1. pc = "subpaths" /\ pc' \in {"subpaths", "fatal"} /\ UNCHANGED <<links, mem, node, tot_brw, cur_id>>
    BY <1>4 DEF gen_subpath, At
  <2>2. pc' # "fatal"
    BY DEF IInv, Control, Phases
  <2> QED BY <2>1, <2>2, WordsNumber
<1>5. CASE Generated \/ Release \/ ReleaseNext \/ Released
  <2>1. CASE Generated \/ ReleaseNext \/ Released
    <3>1. pc' \in {"release", "done"}
      BY <2>1 DEF Generated, ReleaseNext, Released, Begin, Over
    <3> QED BY <3>1, NothingNumbered
  <2>2. CASE Release
    <3>1. pc' = pc /\ pc \in {"drop", "release"} /\ tot_brw' = tot_brw
      BY <2>2 DEF Release, At, words
    <3>2. pc = "drop" => tot_brw = 0
      BY DEF NInv, IdsSoFar, Parsing
    <3> QED BY <3>1, <3>2, NothingNumbered DEF Parsing
  <2> QED BY <1>5, <2>1, <2>2
<1>6. CASE Finished \/ UNCHANGED vars
  BY <1>6, StutterNumbers DEF Finished
<1> QED BY <1>1, <1>2, <1>3, <1>4, <1>5, <1>6 DEF Next, Step

\* The five traversals of an update: what each has visited, and what the fans and
\* ids are there.
THEOREM NumberingInvariant == Spec => []NInv
<1>1. Init => NInv
  <2> SUFFICES ASSUME Init PROVE NInv
    OBVIOUS
  <2>1. pc = "parse" /\ tot_brw = 0
    BY DEF Init
  <2> QED BY <2>1 DEF NInv, FansOfLeaves, PrunedSoFar, IdsSoFar, InnerSoFar, Parsing, Pruned
<1>2. IInv /\ NInv /\ [Next]_vars /\ IInv' => NInv'
  BY NextNumbers
<1> QED BY <1>1, <1>2, TexInvariant, PTL DEF Spec

\* The ids of the live nodes are all those up to their number.
LEMMA IdsAll ==
  ASSUME IInv, NInv, Numbered(node) = Live, IdsUpTo(node, cur_id)
  PROVE  {node[n].node_id : n \in Live} = 1 .. Cardinality(Live)
<1> DEFINE N == Cardinality(Live)
           f == [n \in Live |-> node[n].node_id]
<1>1. /\ cur_id = N /\ N \in Nat /\ IsFiniteSet(Live)
      /\ \A n \in Nodes : node[n].node_id \in Nat
  BY FieldParts, NumberedFinite, NodesFinite
<1>2. \A n \in Live : node[n].node_id \in 1 .. N
  BY <1>1 DEF IdsUpTo, Numbered
<1>3. f \in Injection(Live, 1 .. N)
  <2>1. f \in [Live -> 1 .. N]
    BY <1>2
  <2>2. \A x, y \in Live : f[x] = f[y] => x = y
    BY DEF IdsUpTo
  <2> HIDE DEF f
  <2> QED BY <2>1, <2>2 DEF Injection, IsInjective
<1>4. IsFiniteSet(1 .. N) /\ Cardinality(1 .. N) = N
  <2>1. 1 \in Int /\ N \in Int /\ (1 > N => N = 0) /\ N - 1 + 1 = N
    BY <1>1
  <2> HIDE DEF N
  <2> QED BY <2>1, FS_Interval
<1>5. f \in Surjection(Live, 1 .. N)
  <2> DEFINE T == 1 .. N
             M == Live
  <2>1. f \in Injection(M, T) /\ IsFiniteSet(T) /\ Cardinality(M) = Cardinality(T)
    BY <1>3, <1>4
  <2> HIDE DEF f, T, M
  <2>2. f \in Surjection(M, T)
    BY <2>1, FS_Injection
  <2> QED BY <2>2 DEF T, M
<1>6. \A i \in 1 .. N : \E n \in Live : f[n] = i
  BY <1>5 DEF Surjection
<1> QED BY <1>2, <1>6

\* After an update the ids are those of the live nodes, 1 to their number, the
\* leaves first; the fan of an inner node counts its sons, and their ranks are
\* their positions (tex_tr_assign()).
THEOREM IdsOfUpdate == Spec => [](pc = "updated" => IdsOfTree)
<1>1. IInv /\ NInv => (pc = "updated" => IdsOfTree)
  <2> SUFFICES ASSUME IInv, NInv, pc = "updated" PROVE IdsOfTree
    OBVIOUS
  <2>1. /\ Numbered(node) = Live /\ IdsUpTo(node, cur_id)
        /\ \A x \in Leaves : node[x].node_id <= Cardinality(Leaves)
        /\ \A x \in Live \ Leaves : node[x].node_id > Cardinality(Leaves) /\ Counts(node, x)
    BY DEF NInv, IdsSoFar, InnerSoFar, Pruned
  <2>2. {node[n].node_id : n \in Live} = 1 .. Cardinality(Live)
    BY <2>1, IdsAll
  <2>3. Leaves = {l \in Live : Leaf(l)} /\ Cardinality(Leaves) \in Nat
    <3>1. Leaves \in SUBSET Nodes
      BY DEF Leaves, Live
    <3> QED BY <3>1, SubsetOfNodes, NodesFinite DEF Leaves
  <2>4. ASSUME NEW n \in Live
        PROVE  /\ ~Leaf(n) => node[n].n_fan = Len(SonSeq(n))
               /\ \A i \in DOMAIN SonSeq(n) : node[SonSeq(n)[i]].rank = i - 1
               /\ Leaf(n) <=> node[n].node_id <= Cardinality({l \in Live : Leaf(l)})
    <3>1. n \in Nodes /\ node[n].node_id \in Nat
      BY FieldParts DEF Live
    <3>2. PICK r : IsList(links, n, r)
      BY <3>1, Parts DEF Forest
    <3>3. SonSeq(n) = r /\ Cardinality(Sons(n)) = Len(r) /\ DOMAIN r = 1 .. Len(r)
          /\ \A c : c \in Sons(n) <=> \E i \in 1 .. Len(r) : r[i] = c
      BY <3>1, <3>2, Parts, SonList
    <3>4. CASE Leaf(n)
      <4>1. Sons(n) = {}
        BY <3>1, <3>4, Parts, ForestSons DEF Leaf, Sons, Live
      <4>2. DOMAIN SonSeq(n) = {}
        BY <3>3, <4>1
      <4> QED BY <2>1, <2>3, <3>4, <4>2
    <3>5. CASE ~Leaf(n)
      <4>1. n \in Live \ Leaves
        BY <3>5 DEF Leaves
      <4> QED BY <2>1, <2>3, <3>1, <3>3, <3>5, <4>1 DEF Counts
    <3> QED BY <3>4, <3>5
  <2> QED BY <2>2, <2>4 DEF IdsOfTree
<1> QED BY <1>1, TexInvariant, NumberingInvariant, PTL

---------------------------------------------------------------------------
(* The sort of the branch words by their symbols *)

\* Words that are counted and compared.
AreWords(T) == \A x \in T : x.symbol_id \in Symbols /\ x.fan[1] \in Nat

\* The recursion of SameNameCount(), for a symbol.
Tally(s, w, f) ==
  f = [k \in 0 .. Len(w) |->
         IF k = 0 THEN 0 ELSE f[k - 1] + (IF w[k].symbol_id = s THEN w[k].fan[1] ELSE 0)]

Count(s, w) == LET f == CHOOSE f : Tally(s, w, f) IN f[Len(w)]

\* A sum of naturals is one, however far it goes.
LEMMA SumExists ==
  ASSUME NEW N \in Nat, NEW v \in [1 .. N -> Nat]
  PROVE  \E f \in [0 .. N -> Nat] : f[0] = 0 /\ \A k \in 1 .. N : f[k] = f[k - 1] + v[k]
<1> DEFINE Q(f, n) == f \in [0 .. N -> Nat] /\ f[0] = 0 /\ \A k \in 1 .. N : k <= n => f[k] = f[k - 1] + v[k]
           S == {n \in Nat : \E f : Q(f, n)}
<1>1. 0 \in S
  <2> DEFINE f == [k \in 0 .. N |-> 0]
  <2>1. f \in [0 .. N -> Nat] /\ f[0] = 0 /\ \A k \in 1 .. N : ~(k <= 0)
    OBVIOUS
  <2> QED BY <2>1
<1>2. ASSUME NEW n \in Nat, n \in S PROVE n + 1 \in S
  <2>1. PICK g : Q(g, n)
    BY <1>2
  <2> DEFINE f == [k \in 0 .. N |-> IF k = n + 1 THEN g[n] + v[n + 1] ELSE g[k]]
  <2>2. f \in [0 .. N -> Nat]
    <3> SUFFICES ASSUME NEW k \in 0 .. N PROVE f[k] \in Nat
      OBVIOUS
    <3>1. k = n + 1 => n \in 0 .. N /\ n + 1 \in 1 .. N
      OBVIOUS
    <3> QED BY <2>1, <3>1
  <2>3. f[0] = 0
    BY <2>1
  <2>4. ASSUME NEW k \in 1 .. N, k <= n + 1 PROVE f[k] = f[k - 1] + v[k]
    <3>1. f[k - 1] = g[k - 1]
      BY <2>4
    <3>2. CASE k = n + 1
      <4>1. k - 1 = n /\ f[k] = g[n] + v[n + 1]
        BY <3>2
      <4> HIDE DEF f
      <4> QED BY <3>1, <3>2, <4>1
    <3>3. CASE k # n + 1
      <4>1. k <= n /\ f[k] = g[k]
        BY <2>4, <3>3
      <4> HIDE DEF f
      <4> QED BY <2>1, <3>1, <4>1
    <3> QED BY <3>2, <3>3
  <2> HIDE DEF f
  <2>5. Q(f, n + 1)
    BY <2>2, <2>3, <2>4
  <2> QED BY <2>5
<1>3. N \in S
  <2> HIDE DEF S
  <2>1. \A n \in Nat : n \in S
    BY <1>1, <1>2, SetInduction
  <2> QED BY <2>1
<1>4. PICK f : Q(f, N)
  BY <1>3
<1>5. \A k \in 1 .. N : f[k] = f[k - 1] + v[k]
  <2>1. \A k \in 1 .. N : k <= N
    OBVIOUS
  <2> QED BY <1>4, <2>1, Zenon
<1>6. f \in [0 .. N -> Nat] /\ f[0] = 0
  BY <1>4, Zenon
<1> HIDE DEF Q
<1> QED BY <1>5, <1>6, Zenon

\* The count of a symbol.
LEMMA CountNat ==
  ASSUME NEW T, AreWords(T), NEW w \in Seq(T), NEW s
  PROVE  Count(s, w) \in Nat
<1> DEFINE N == Len(w)
           v == [k \in 1 .. N |-> IF w[k].symbol_id = s THEN w[k].fan[1] ELSE 0]
<1>1. N \in Nat /\ \A k \in 1 .. N : w[k] \in T
  OBVIOUS
<1>2. v \in [1 .. N -> Nat]
  <2>1. \A k \in 1 .. N : w[k].fan[1] \in Nat
    BY <1>1 DEF AreWords
  <2> QED BY <2>1
<1>3. \A k \in 1 .. N : v[k] = IF w[k].symbol_id = s THEN w[k].fan[1] ELSE 0
  OBVIOUS
<1> HIDE DEF N, v
<1>4. PICK f \in [0 .. N -> Nat] : f[0] = 0 /\ \A k \in 1 .. N : f[k] = f[k - 1] + v[k]
  BY <1>1, <1>2, SumExists
<1>5. \A k \in 0 .. N : f[k] = IF k = 0 THEN 0 ELSE f[k - 1] + (IF w[k].symbol_id = s THEN w[k].fan[1] ELSE 0)
  <2> TAKE k \in 0 .. N
  <2>1. k = 0 \/ k \in 1 .. N
    BY <1>1
  <2> QED BY <1>3, <1>4, <2>1
<1>6. Tally(s, w, f)
  <2>1. f = [k \in 0 .. N |-> f[k]]
    BY <1>4
  <2> QED BY <1>5, <2>1 DEF Tally, N
<1> DEFINE g == CHOOSE g : Tally(s, w, g)
<1>7. Tally(s, w, g)
  BY <1>6
<1>8. Count(s, w) = g[N]
  BY DEF Count, N
<1> HIDE DEF g
<1> DEFINE S == {k \in Nat : k \in 0 .. N => g[k] \in Nat}
<1>9. \A k \in 0 .. N : g[k] = IF k = 0 THEN 0 ELSE g[k - 1] + (IF w[k].symbol_id = s THEN w[k].fan[1] ELSE 0)
  BY <1>7, Zenon DEF Tally, N
<1>10. 0 \in S
  BY <1>1, <1>9
<1>11. ASSUME NEW k \in Nat, k \in S PROVE k + 1 \in S
  <2> SUFFICES ASSUME k + 1 \in 0 .. N PROVE g[k + 1] \in Nat
    OBVIOUS
  <2>1. k \in 0 .. N /\ k + 1 \in 1 .. N /\ k + 1 # 0 /\ (k + 1) - 1 = k
    BY <1>1
  <2> DEFINE e == IF w[k + 1].symbol_id = s THEN w[k + 1].fan[1] ELSE 0
  <2>2. g[k + 1] = g[k] + e
    BY <1>9, <2>1
  <2>3. e \in Nat
    BY <1>2, <1>3, <2>1
  <2> HIDE DEF e
  <2> QED BY <1>11, <2>1, <2>2, <2>3
<1>12. N \in S
  <2> HIDE DEF S
  <2>1. \A k \in Nat : k \in S
    BY <1>10, <1>11, SetInduction
  <2> QED BY <1>1, <2>1
<1> QED BY <1>1, <1>8, <1>12

\* A word goes before another if its symbol is more frequent, or comes first.
LEMMA NameBeforeIs ==
  ASSUME NEW x, NEW y, NEW w
  PROVE  /\ SameNameCount(x, w) = Count(x.symbol_id, w)
         /\ NameBefore(x, y, w) <=>
              IF Count(x.symbol_id, w) = Count(y.symbol_id, w)
              THEN SymbolId[x.symbol_id] < SymbolId[y.symbol_id]
              ELSE Count(x.symbol_id, w) > Count(y.symbol_id, w)
<1>1. \A z : SameNameCount(z, w) = Count(z.symbol_id, w)
  BY DEF SameNameCount, Count, Tally
<1>2. NameBefore(x, y, w) <=> IF SameNameCount(x, w) = SameNameCount(y, w)
                              THEN SymbolId[x.symbol_id] < SymbolId[y.symbol_id]
                              ELSE SameNameCount(x, w) > SameNameCount(y, w)
  BY DEF NameBefore
<1> QED BY <1>1, <1>2

\* That is an order of the words by their symbols.
LEMMA NameOrder ==
  ASSUME NEW T, AreWords(T), NEW w \in Seq(T), NEW x \in T, NEW y \in T, NEW z \in T
  PROVE  /\ NameBefore(x, y, w) => ~NameBefore(y, x, w)
         /\ ~NameBefore(y, x, w) /\ ~NameBefore(z, y, w) => ~NameBefore(z, x, w)
<1> DEFINE c(a) == Count(a.symbol_id, w)
           d(a) == SymbolId[a.symbol_id]
<1>1. \A a \in T : c(a) \in Nat /\ d(a) \in Nat
  <2> TAKE a \in T
  <2>1. c(a) \in Nat
    BY CountNat
  <2>2. a.symbol_id \in Symbols
    BY DEF AreWords
  <2> QED BY <2>1, <2>2, TexTreeAssumption
<1>2. \A a, b \in T : NameBefore(a, b, w) <=> IF c(a) = c(b) THEN d(a) < d(b) ELSE c(a) > c(b)
  BY NameBeforeIs
<1> HIDE DEF c, d
<1> QED BY <1>1, <1>2

Ordered(s, w) == \A i, j \in 1 .. Len(s) : i < j => ~NameBefore(s[j], s[i], w)

\* Where x is put: nothing before it comes after it.
Inserted(r, s, x, k, w) ==
  /\ Len(r) = Len(s) + 1 /\ r[k] = x
  /\ \A i \in 1 .. Len(s) : IF i < k THEN r[i] = s[i] /\ ~NameBefore(x, s[i], w)
                                     ELSE r[i + 1] = s[i] /\ ~NameBefore(s[i], x, w)

\* list_insert() puts a word in its place.
LEMMA InsertPlace ==
  ASSUME NEW T, AreWords(T), NEW w \in Seq(T), NEW s \in Seq(T), Ordered(s, w), NEW x \in T,
         NEW r, r = list_insert(x, s, w)
  PROVE  r \in Seq(T) /\ \E k \in 1 .. Len(s) + 1 : Inserted(r, s, x, k, w)
<1> DEFINE L == Len(s)
           Before(k) == NameBefore(x, s[k], w)
           Q(k) == k \in 2 .. L /\ Before(k) /\ \A j \in 2 .. k - 1 : ~Before(j)
           Place0 == CHOOSE k \in 2 .. L : Before(k) /\ \A j \in 2 .. k - 1 : ~Before(j)
<1>1. L \in Nat /\ \A i \in 1 .. L : s[i] \in T
  OBVIOUS
<1>2. \A i \in 1 .. L : Before(i) => ~NameBefore(s[i], x, w)
  BY <1>1, NameOrder
<1>3. \A i, j \in 1 .. L : i < j /\ ~NameBefore(s[i], x, w) => ~NameBefore(s[j], x, w)
  <2> TAKE i, j \in 1 .. L
  <2> SUFFICES ASSUME i < j, ~NameBefore(s[i], x, w) PROVE ~NameBefore(s[j], x, w)
    OBVIOUS
  <2>1. ~NameBefore(s[j], s[i], w)
    BY DEF Ordered
  <2> QED BY <1>1, <2>1, NameOrder
<1>4. \A i, j \in 1 .. L : i < j /\ ~Before(j) => ~Before(i)
  <2> TAKE i, j \in 1 .. L
  <2> SUFFICES ASSUME i < j, ~Before(j) PROVE ~Before(i)
    OBVIOUS
  <2>1. ~NameBefore(s[j], s[i], w)
    BY DEF Ordered
  <2> QED BY <1>1, <2>1, NameOrder
<1>5. r = IF s = <<>> THEN <<x>>
          ELSE IF Before(1) THEN <<x>> \o s
          ELSE IF ~Before(L) THEN Append(s, x)
          ELSE InsertAt(s, Place0, x)
  BY DEF list_insert
<1>6. CASE s = <<>>
  <2>1. r = <<x>> /\ Len(r) = 1 /\ r[1] = x /\ L = 0
    BY <1>5, <1>6
  <2>2. Inserted(r, s, x, 1, w)
    BY <2>1 DEF Inserted
  <2> QED BY <2>1, <2>2
<1>7. CASE s # <<>> /\ Before(1)
  <2>1. r = <<x>> \o s /\ L > 0
    BY <1>5, <1>7
  <2>2. Len(r) = L + 1 /\ r[1] = x /\ (\A i \in 1 .. L : r[i + 1] = s[i]) /\ r \in Seq(T)
    BY <1>1, <2>1
  <2>3. \A i \in 1 .. L : ~NameBefore(s[i], x, w)
    <3> TAKE i \in 1 .. L
    <3>1. 1 \in 1 .. L /\ ~NameBefore(s[1], x, w)
      BY <1>1, <1>2, <1>7, <2>1
    <3>2. i = 1 \/ 1 < i
      OBVIOUS
    <3> QED BY <1>3, <3>1, <3>2
  <2> HIDE DEF Before
  <2>4. Inserted(r, s, x, 1, w)
    BY <1>1, <2>2, <2>3 DEF Inserted
  <2> QED BY <1>1, <2>2, <2>4
<1>8. CASE s # <<>> /\ ~Before(1) /\ ~Before(L)
  <2>1. r = Append(s, x) /\ L > 0
    BY <1>5, <1>8
  <2>2. Len(r) = L + 1 /\ r[L + 1] = x /\ (\A i \in 1 .. L : r[i] = s[i]) /\ r \in Seq(T)
    BY <1>1, <2>1
  <2>3. \A i \in 1 .. L : ~Before(i)
    <3> TAKE i \in 1 .. L
    <3>1. L \in 1 .. L /\ (i = L \/ i < L)
      BY <1>1, <2>1
    <3> QED BY <1>4, <1>8, <3>1
  <2>4. \A i \in 1 .. L : i < L + 1
    BY <1>1
  <2>5. Inserted(r, s, x, L + 1, w)
    BY <2>2, <2>3, <2>4 DEF Inserted
  <2> QED BY <1>1, <2>2, <2>5
<1>9. CASE s # <<>> /\ ~Before(1) /\ Before(L)
  <2>1. L \in 2 .. L
    BY <1>1, <1>9
  <2>2. \E k \in 2 .. L : Q(k)
    <3> DEFINE S == {n \in Nat : \A j \in 2 .. L : j <= n => ~Before(j)}
    <3> SUFFICES ASSUME \A k \in 2 .. L : ~Q(k) PROVE FALSE
      OBVIOUS
    <3>1. 0 \in S
      OBVIOUS
    <3>2. ASSUME NEW n \in Nat, n \in S PROVE n + 1 \in S
      <4> SUFFICES ASSUME n + 1 \in 2 .. L, Before(n + 1) PROVE FALSE
        <5>1. \A j \in 2 .. L : j <= n + 1 => j <= n \/ j = n + 1
          OBVIOUS
        <5> QED BY <3>2, <5>1
      <4>1. \A j \in 2 .. (n + 1) - 1 : j \in 2 .. L /\ j <= n
        BY <1>1
      <4>2. Q(n + 1)
        BY <3>2, <4>1
      <4> QED BY <4>2
    <3>3. L \in S
      <4> HIDE DEF S
      <4>1. \A n \in Nat : n \in S
        BY <3>1, <3>2, SetInduction
      <4> QED BY <1>1, <4>1
    <3> QED BY <1>9, <2>1, <3>3
  <2>3. Q(Place0)
    BY <2>2
  <2> DEFINE k == Place0
  <2>4. r = SubSeq(s, 1, k - 1) \o <<x>> \o SubSeq(s, k, Len(s))
    BY <1>5, <1>9 DEF InsertAt
  <2> HIDE DEF Place0
  <2>5. k \in 2 .. L /\ Before(k) /\ \A j \in 2 .. k - 1 : ~Before(j)
    BY <2>3
  <2> HIDE DEF k, Q
  <2> DEFINE a == SubSeq(s, 1, k - 1)
             b == SubSeq(s, k, Len(s))
  <2>6. a \in Seq(T) /\ Len(a) = k - 1 /\ \A i \in 1 .. k - 1 : a[i] = s[i]
    BY <1>1, <2>5
  <2>7. b \in Seq(T) /\ Len(b) = L - k + 1 /\ \A i \in 1 .. L - k + 1 : b[i] = s[k + i - 1]
    BY <1>1, <2>5
  <2>8. r = a \o <<x>> \o b
    BY <2>4
  <2> HIDE DEF a, b
  <2>9. /\ r \in Seq(T) /\ Len(r) = L + 1
        /\ r[k] = x
        /\ \A i \in 1 .. k - 1 : r[i] = s[i]
        /\ \A i \in k .. L : r[i + 1] = s[i]
    <3> HIDE DEF L
    <3>1. a \o <<x>> \in Seq(T) /\ Len(a \o <<x>>) = k /\ (a \o <<x>>)[k] = x
          /\ \A i \in 1 .. k - 1 : (a \o <<x>>)[i] = s[i]
      <4>1. k \in Int /\ 1 <= k /\ a \in Seq(T) /\ <<x>> \in Seq(T) /\ Len(<<x>>) = 1 /\ <<x>>[1] = x
        BY <1>1, <2>5, <2>6
      <4>2. a \o <<x>> \in Seq(T) /\ Len(a \o <<x>>) = k
        BY <2>6, <4>1
      <4>3. (a \o <<x>>)[k] = x
        BY <2>6, <4>1
      <4>4. \A i \in 1 .. k - 1 : (a \o <<x>>)[i] = a[i]
        BY <2>6, <4>1
      <4> QED BY <2>6, <4>2, <4>3, <4>4
    <3> DEFINE e == a \o <<x>>
    <3>2. r = e \o b
      BY <2>8
    <3>3. e \in Seq(T) /\ Len(e) = k /\ e[k] = x /\ \A i \in 1 .. k - 1 : e[i] = s[i]
      BY <3>1
    <3> HIDE DEF e
    <3>4. r \in Seq(T) /\ Len(r) = L + 1
      <4>0. e \in Seq(T) /\ b \in Seq(T)
        BY <2>7, <3>3
      <4>1. r \in Seq(T) /\ Len(r) = Len(e) + Len(b)
        BY ONLY <3>2, <4>0
      <4>2. k \in Int /\ k + (L - k + 1) = L + 1
        BY <1>1, <2>5
      <4> QED BY <2>7, <3>3, <4>1, <4>2
    <3>5. \A i \in 1 .. k : r[i] = e[i]
      <4> TAKE i \in 1 .. k
      <4>1. i \in 1 .. Len(e) /\ e \in Seq(T) /\ b \in Seq(T)
        BY <1>1, <2>5, <2>7, <3>3
      <4>2. (e \o b)[i] = e[i]
        BY <4>1
      <4> QED BY <3>2, <4>2
    <3>6. \A i \in 1 .. L - k + 1 : r[k + i] = b[i]
      <4> TAKE i \in 1 .. L - k + 1
      <4>1. i \in 1 .. Len(b) /\ Len(e) + i = k + i /\ e \in Seq(T) /\ b \in Seq(T)
        BY <1>1, <2>5, <2>7, <3>3
      <4>2. (e \o b)[Len(e) + i] = b[i]
        BY <4>1
      <4> QED BY <3>2, <4>1, <4>2
    <3>7. ASSUME NEW i \in k .. L PROVE r[i + 1] = s[i]
      <4>1. i - k + 1 \in 1 .. L - k + 1 /\ k + (i - k + 1) = i + 1 /\ k + (i - k + 1) - 1 = i
        BY <1>1, <2>5
      <4> QED BY <2>7, <3>6, <4>1
    <3> QED BY <1>1, <2>5, <3>3, <3>4, <3>5, <3>7
  <2>10. \A i \in 1 .. L : i < k => ~Before(i)
    <3> TAKE i \in 1 .. L
    <3>1. i < k => i = 1 \/ i \in 2 .. k - 1
      BY <2>5
    <3> QED BY <1>9, <2>5, <3>1
  <2>11. \A i \in 1 .. L : ~(i < k) => i \in k .. L /\ ~NameBefore(s[i], x, w)
    <3> TAKE i \in 1 .. L
    <3>1. k \in 1 .. L /\ ~NameBefore(s[k], x, w)
      BY <1>2, <2>5
    <3>2. ~(i < k) => i \in k .. L /\ (i = k \/ k < i)
      BY <2>5
    <3> QED BY <1>3, <3>1, <3>2
  <2>12. \A i \in 1 .. L : i < k => i \in 1 .. k - 1
    BY <2>5
  <2>13. Inserted(r, s, x, k, w)
    BY <2>9, <2>10, <2>11, <2>12 DEF Inserted
  <2>14. k \in 1 .. L + 1
    BY <2>5
  <2> QED BY <2>9, <2>13, <2>14
<1> QED BY <1>6, <1>7, <1>8, <1>9

\* r has x and the words of s.
Joined(r, s, x) ==
  /\ Len(r) = Len(s) + 1
  /\ \A y : (\E i \in 1 .. Len(r) : r[i] = y) <=> y = x \/ \E i \in 1 .. Len(s) : s[i] = y

SameWords(r, w) ==
  /\ Len(r) = Len(w)
  /\ \A y : (\E i \in 1 .. Len(r) : r[i] = y) <=> \E i \in 1 .. Len(w) : w[i] = y

\* The words stay in their order, and no word is lost.
LEMMA InsertSorted ==
  ASSUME NEW T, AreWords(T), NEW w \in Seq(T), NEW s \in Seq(T), Ordered(s, w), NEW x \in T,
         NEW r, r = list_insert(x, s, w)
  PROVE  r \in Seq(T) /\ Ordered(r, w) /\ Joined(r, s, x)
<1> DEFINE L == Len(s)
<1>1. L \in Nat /\ \A i \in 1 .. L : s[i] \in T
  OBVIOUS
<1>2. r \in Seq(T) /\ \E k \in 1 .. L + 1 : Inserted(r, s, x, k, w)
  BY InsertPlace
<1>3. PICK k \in 1 .. L + 1 : Inserted(r, s, x, k, w)
  BY <1>2
<1>4. Len(r) = L + 1 /\ r[k] = x
  BY <1>3 DEF Inserted
<1>5. \A i \in 1 .. L : IF i < k THEN r[i] = s[i] /\ ~NameBefore(x, s[i], w)
                                    ELSE r[i + 1] = s[i] /\ ~NameBefore(s[i], x, w)
  BY <1>3 DEF Inserted
<1>6. \A i, j \in 1 .. L : i < j => ~NameBefore(s[j], s[i], w)
  BY DEF Ordered
<1> HIDE DEF L
<1>7. ASSUME NEW i \in 1 .. L + 1, NEW j \in 1 .. L + 1, i < j PROVE ~NameBefore(r[j], r[i], w)
  <2>1. CASE j < k
    <3>1. i \in 1 .. L /\ j \in 1 .. L /\ i < k
      BY <1>1, <1>7, <2>1
    <3> QED BY <1>5, <1>6, <1>7, <2>1, <3>1
  <2>2. CASE j = k
    <3>1. i \in 1 .. L /\ i < k
      BY <1>1, <1>7, <2>2
    <3> QED BY <1>4, <1>5, <2>2, <3>1
  <2>3. CASE j > k
    <3>1. j - 1 \in 1 .. L /\ ~(j - 1 < k) /\ (j - 1) + 1 = j
      BY <1>1, <1>7, <2>3
    <3>2. r[j] = s[j - 1] /\ ~NameBefore(s[j - 1], x, w)
      BY <1>5, <3>1
    <3>3. CASE i < k
      <4>1. i \in 1 .. L /\ i < j - 1
        BY <1>1, <2>3, <3>3
      <4> QED BY <1>5, <1>6, <3>1, <3>2, <3>3, <4>1
    <3>4. CASE i = k
      BY <1>4, <3>2, <3>4
    <3>5. CASE i > k
      <4>1. i - 1 \in 1 .. L /\ ~(i - 1 < k) /\ (i - 1) + 1 = i /\ i - 1 < j - 1
        BY <1>1, <1>7, <3>5
      <4>2. r[i] = s[i - 1]
        BY <1>5, <4>1
      <4> QED BY <1>6, <3>1, <3>2, <4>1, <4>2
    <3> QED BY <3>3, <3>4, <3>5
  <2> QED BY <2>1, <2>2, <2>3
<1>8. Ordered(r, w)
  BY <1>4, <1>7 DEF Ordered
<1>9. ASSUME NEW y PROVE (\E i \in 1 .. Len(r) : r[i] = y) <=> y = x \/ \E i \in 1 .. L : s[i] = y
  <2>1. ASSUME NEW i \in 1 .. Len(r), r[i] = y PROVE y = x \/ \E j \in 1 .. L : s[j] = y
    <3>1. CASE i < k
      <4>1. i \in 1 .. L
        BY <1>1, <1>4, <3>1
      <4> QED BY <1>5, <2>1, <3>1, <4>1
    <3>2. CASE i = k
      BY <1>4, <2>1, <3>2
    <3>3. CASE i > k
      <4>1. i - 1 \in 1 .. L /\ ~(i - 1 < k) /\ (i - 1) + 1 = i
        BY <1>1, <1>4, <3>3
      <4>2. r[i] = s[i - 1]
        BY <1>5, <4>1
      <4> QED BY <2>1, <4>1, <4>2
    <3> QED BY <3>1, <3>2, <3>3
  <2>2. ASSUME NEW j \in 1 .. L PROVE \E i \in 1 .. Len(r) : r[i] = s[j]
    <3>1. j \in 1 .. Len(r) /\ j + 1 \in 1 .. Len(r)
      BY <1>1, <1>4
    <3> QED BY <1>5, <3>1
  <2>3. k \in 1 .. Len(r)
    BY <1>4
  <2> QED BY <1>4, <2>1, <2>2, <2>3
<1> QED BY <1>2, <1>4, <1>8, <1>9 DEF L, Joined

\* The recursion of NameSorted().
Sorting(w, f) == f = [k \in 0 .. Len(w) |-> IF k = 0 THEN <<>> ELSE list_insert(w[k], f[k - 1], w)]

LEMMA SortingExists ==
  ASSUME NEW w, NEW N \in Nat, N = Len(w)
  PROVE  \E f : Sorting(w, f)
<1> DEFINE E(f, k) == f[k] = IF k = 0 THEN <<>> ELSE list_insert(w[k], f[k - 1], w)
           Q(f, n) == f = [k \in 0 .. N |-> f[k]] /\ \A k \in 0 .. N : k <= n => E(f, k)
           S == {n \in Nat : \E f : Q(f, n)}
<1>1. 0 \in S
  <2> DEFINE f == [k \in 0 .. N |-> <<>>]
  <2>1. f = [k \in 0 .. N |-> f[k]]
    OBVIOUS
  <2>2. \A k \in 0 .. N : k <= 0 => k = 0 /\ f[k] = <<>>
    OBVIOUS
  <2> HIDE DEF f
  <2>3. Q(f, 0)
    BY <2>1, <2>2
  <2> QED BY <2>3
<1>2. ASSUME NEW n \in Nat, n \in S PROVE n + 1 \in S
  <2>1. PICK g : Q(g, n)
    BY <1>2
  <2> DEFINE z == list_insert(w[n + 1], g[n], w)
             f == [k \in 0 .. N |-> IF k = n + 1 THEN z ELSE g[k]]
  <2> HIDE DEF z
  <2>2. f = [k \in 0 .. N |-> f[k]]
    OBVIOUS
  <2>3. ASSUME NEW k \in 0 .. N, k <= n + 1 PROVE E(f, k)
    <3>1. k # 0 => f[k - 1] = g[k - 1]
      BY <2>3
    <3>2. CASE k = n + 1
      <4>1. f[k] = z /\ k # 0 /\ k - 1 = n
        BY <3>2
      <4> HIDE DEF f
      <4> QED BY <3>1, <3>2, <4>1 DEF z
    <3>3. CASE k # n + 1
      <4>1. f[k] = g[k] /\ k <= n
        BY <2>3, <3>3
      <4>2. E(g, k)
        BY <2>1, <4>1
      <4> HIDE DEF f
      <4> QED BY <3>1, <4>1, <4>2
    <3> QED BY <3>2, <3>3
  <2> HIDE DEF f
  <2>4. Q(f, n + 1)
    BY <2>2, <2>3
  <2> HIDE DEF Q
  <2> QED BY <2>4
<1>3. N \in S
  <2> HIDE DEF S
  <2>1. \A n \in Nat : n \in S
    BY <1>1, <1>2, SetInduction
  <2> QED BY <2>1
<1>4. PICK f : Q(f, N)
  BY <1>3
<1>5. \A k \in 0 .. N : E(f, k)
  <2>1. \A k \in 0 .. N : k <= N
    OBVIOUS
  <2> HIDE DEF E
  <2> QED BY <1>4, <2>1, Zenon
<1>6. Sorting(w, f)
  BY <1>4, <1>5, Zenon DEF Sorting
<1> QED BY <1>6

\* list_sort() returns the words in their order.
LEMMA SortedWords ==
  ASSUME NEW T, AreWords(T), NEW w \in Seq(T), NEW r, r = NameSorted(w)
  PROVE  r \in Seq(T) /\ Ordered(r, w) /\ SameWords(r, w)
<1> DEFINE N == Len(w)
           g == CHOOSE g : Sorting(w, g)
<1>1. N \in Nat /\ \A k \in 1 .. N : w[k] \in T
  OBVIOUS
<1>2. Sorting(w, g)
  BY <1>1, SortingExists
<1>3. r = g[N]
  BY DEF NameSorted, Sorting
<1> HIDE DEF g
<1>4. \A k \in 0 .. N : g[k] = IF k = 0 THEN <<>> ELSE list_insert(w[k], g[k - 1], w)
  BY <1>2, Zenon DEF Sorting
<1> DEFINE Q(k) == /\ g[k] \in Seq(T) /\ Len(g[k]) = k /\ Ordered(g[k], w)
                   /\ \A y : (\E i \in 1 .. Len(g[k]) : g[k][i] = y) <=> \E i \in 1 .. k : w[i] = y
           S == {k \in Nat : k \in 0 .. N => Q(k)}
<1> HIDE DEF N, Q
<1>5. 0 \in S
  <2>1. g[0] = <<>>
    BY <1>1, <1>4
  <2>2. <<>> \in Seq(T) /\ Len(<<>>) = 0 /\ Ordered(<<>>, w)
    BY DEF Ordered
  <2>3. Q(0)
    BY <2>1, <2>2 DEF Q
  <2> QED BY <2>3
<1>6. ASSUME NEW k \in Nat, k \in S PROVE k + 1 \in S
  <2> SUFFICES ASSUME k + 1 \in 0 .. N PROVE Q(k + 1)
    OBVIOUS
  <2>1. k \in 0 .. N /\ k + 1 \in 1 .. N /\ k + 1 # 0 /\ (k + 1) - 1 = k
    BY <1>1
  <2>2. Q(k)
    BY <1>6, <2>1
  <2> DEFINE s == g[k]
             t == g[k + 1]
             x == w[k + 1]
  <2>3. t = list_insert(x, s, w) /\ x \in T
    BY <1>1, <1>4, <2>1
  <2>4. s \in Seq(T) /\ Len(s) = k /\ Ordered(s, w)
        /\ \A y : (\E i \in 1 .. Len(s) : s[i] = y) <=> \E i \in 1 .. k : w[i] = y
    BY <2>2 DEF Q
  <2> HIDE DEF s, t, x
  <2>5. t \in Seq(T) /\ Ordered(t, w) /\ Joined(t, s, x)
    <3>1. s \in Seq(T) /\ Ordered(s, w) /\ x \in T /\ t = list_insert(x, s, w)
      BY <2>3, <2>4
    <3> QED BY ONLY AreWords(T), w \in Seq(T), <3>1, InsertSorted
  <2>6. \A y : (\E i \in 1 .. k + 1 : w[i] = y) <=> y = x \/ \E i \in 1 .. k : w[i] = y
    BY DEF x
  <2>7. Len(t) = k + 1 /\ \A y : (\E i \in 1 .. Len(t) : t[i] = y) <=> y = x \/ \E i \in 1 .. Len(s) : s[i] = y
    BY <2>4, <2>5 DEF Joined
  <2>8. \A y : (\E i \in 1 .. Len(t) : t[i] = y) <=> \E i \in 1 .. k + 1 : w[i] = y
    BY <2>4, <2>6, <2>7, Zenon
  <2> QED BY <2>5, <2>7, <2>8 DEF Q, t
<1>7. N \in S
  <2> HIDE DEF S
  <2>1. \A k \in Nat : k \in S
    BY <1>5, <1>6, SetInduction
  <2> QED BY <1>1, <2>1
<1>8. Q(N)
  BY <1>1, <1>7
<1> QED BY <1>3, <1>8 DEF N, Q, SameWords

\* The sort brings the words of a symbol together, the most frequent symbol first.
LEMMA SortGroups ==
  ASSUME NEW T, AreWords(T), subpaths \in Seq(T)
  PROVE  NamesGrouped(NameSorted(subpaths))
<1> DEFINE w == subpaths
           r == NameSorted(w)
           c(i) == Count(r[i].symbol_id, w)
           d(i) == SymbolId[r[i].symbol_id]
<1>0. r \in Seq(T) /\ Ordered(r, w) /\ SameWords(r, w)
  BY SortedWords
<1>1. /\ r \in Seq(T) /\ Len(r) = Len(w) /\ Ordered(r, w)
      /\ \A y : (\E i \in 1 .. Len(r) : r[i] = y) <=> \E i \in 1 .. Len(w) : w[i] = y
  BY <1>0 DEF SameWords
<1>2. Len(r) \in Nat /\ DOMAIN r = 1 .. Len(r) /\ DOMAIN w = 1 .. Len(w)
  BY <1>1
<1>3. \A i \in 1 .. Len(r) : r[i] \in T /\ c(i) \in Nat /\ d(i) \in Nat
  <2> TAKE i \in 1 .. Len(r)
  <2>1. r[i] \in T
    BY <1>1
  <2>2. c(i) \in Nat
    BY CountNat
  <2>3. r[i].symbol_id \in Symbols
    BY <2>1 DEF AreWords
  <2> QED BY <2>1, <2>2, <2>3, TexTreeAssumption
<1>4. \A i, j \in 1 .. Len(r) : i < j => ~(IF c(j) = c(i) THEN d(j) < d(i) ELSE c(j) > c(i))
  <2> TAKE i, j \in 1 .. Len(r)
  <2>1. i < j => ~NameBefore(r[j], r[i], w)
    BY <1>1 DEF Ordered
  <2>2. NameBefore(r[j], r[i], w) <=> IF c(j) = c(i) THEN d(j) < d(i) ELSE c(j) > c(i)
    BY NameBeforeIs
  <2> QED BY <2>1, <2>2
<1>5. \A i \in 1 .. Len(r) : SameNameCount(r[i], w) = c(i)
  BY NameBeforeIs
<1>6. \A i, j \in 1 .. Len(r) : d(i) = d(j) => r[i].symbol_id = r[j].symbol_id
  BY <1>3, TexTreeAssumption DEF AreWords
<1>7. \A i, j \in 1 .. Len(r) : r[i].symbol_id = r[j].symbol_id => c(i) = c(j) /\ d(i) = d(j)
  OBVIOUS
<1>8. ToSet(r) = ToSet(w)
  BY <1>1, <1>2 DEF ToSet
<1> HIDE DEF c, d
<1>9. \A i, j \in DOMAIN r : i < j => SameNameCount(r[i], w) >= SameNameCount(r[j], w)
  <2> TAKE i, j \in 1 .. Len(r)
  <2>1. i < j => c(i) >= c(j)
    BY <1>3, <1>4
  <2> QED BY <1>5, <2>1
<1>10. \A i, j \in DOMAIN r : i < j /\ r[i].symbol_id = r[j].symbol_id =>
         \A k \in i .. j : r[k].symbol_id = r[i].symbol_id
  <2> TAKE i, j \in 1 .. Len(r)
  <2> HAVE i < j /\ r[i].symbol_id = r[j].symbol_id
  <2> TAKE k \in i .. j
  <2>1. k \in 1 .. Len(r) /\ (k = i \/ k = j \/ (i < k /\ k < j))
    BY <1>2
  <2>2. CASE i < k /\ k < j
    <3>1. c(i) = c(j) /\ d(i) = d(j)
      BY <1>7
    <3>2. d(k) = d(i)
      BY <1>3, <1>4, <2>1, <2>2, <3>1
    <3> QED BY <1>6, <2>1, <3>2
  <2> QED BY <2>1, <2>2
<1> HIDE DEF r
<1> QED BY <1>1, <1>8, <1>9, <1>10 DEF NamesGrouped, r

---------------------------------------------------------------------------
(* The way up from a leaf *)

\* A set of nodes has one that is not the father of another.
LEMMA ForestLow ==
  ASSUME NEW m, Forest(m), NEW B \in SUBSET Nodes, B # {}
  PROVE  \E n \in B : \A c \in B : m.father[c] # n
<1>1. PICK H, h : Higher(m, H, h)
  BY DEF Forest
<1> DEFINE E == \E n \in B : \A c \in B : m.father[c] # n
           S == {k \in Nat : \A n \in B : h[n] <= k => E}
<1>2. \A n \in Nodes : h[n] \in Nat
  BY <1>1 DEF Higher
<1>3. ASSUME NEW n \in B, ~E PROVE \E c \in B : h[c] < h[n]
  <2>1. PICK c \in B : m.father[c] = n
    BY <1>3
  <2>2. h[c] < h[m.father[c]]
    BY <1>1, <2>1, NodeNotNull DEF Higher
  <2> QED BY <2>1, <2>2
<1> HIDE DEF E
<1>4. 0 \in S
  <2> SUFFICES ASSUME NEW n \in B, h[n] <= 0, ~E PROVE FALSE
    OBVIOUS
  <2>1. PICK c \in B : h[c] < h[n]
    BY <1>3
  <2> QED BY <1>2, <2>1
<1>5. ASSUME NEW k \in Nat, k \in S PROVE k + 1 \in S
  <2> SUFFICES ASSUME NEW n \in B, h[n] <= k + 1, ~E PROVE FALSE
    OBVIOUS
  <2>1. PICK c \in B : h[c] < h[n]
    BY <1>3
  <2>2. h[c] <= k
    BY <1>2, <2>1
  <2> QED BY <1>5, <2>2
<1>6. \A k \in Nat : k \in S
  <2> HIDE DEF S
  <2> QED BY <1>4, <1>5, SetInduction
<1>7. PICK n \in B : TRUE
  OBVIOUS
<1>8. h[n] \in Nat /\ h[n] <= h[n]
  BY <1>2
<1>9. E
  BY <1>6, <1>7, <1>8
<1> QED BY <1>9 DEF E

\* One step up.
LEMMA UpStep ==
  ASSUME Forest(links), NEW n \in Nodes
  PROVE  /\ n = rot \/ links.father[n] = NULL => Up(n) = <<n>>
         /\ ~(n = rot \/ links.father[n] = NULL) =>
              links.father[n] \in Nodes /\ Up(n) = <<n>> \o Up(links.father[n])
<1> DEFINE u == CHOOSE u : Ascent(links, rot, u)
<1>1. Ascent(links, rot, u)
  BY AscentExists
<1>2. \A x : Up(x) = u[x]
  BY DEF Up, Ascent
<1> HIDE DEF u
<1>3. u[n] = IF n = rot \/ links.father[n] = NULL THEN <<n>> ELSE <<n>> \o u[links.father[n]]
  BY <1>1, Zenon DEF Ascent
<1>4. links.father[n] \in Nodes \cup {NULL}
  BY ForestFather
<1> QED BY <1>2, <1>3, <1>4

\* From n each node's father follows it, and the search's root can only be the last.
Rises(w, n) ==
  /\ w \in Seq(Nodes) /\ Len(w) > 0 /\ w[1] = n
  /\ \A i \in 1 .. Len(w) - 1 : w[i] # rot /\ w[i + 1] = links.father[w[i]]

\* v is what w has from i on.
TailOf(v, w, i) ==
  Len(v) = Len(w) - i + 1 /\ \A j \in 1 .. Len(w) - i + 1 : v[j] = w[i + j - 1]

\* The ways up from the nodes of a way are its ends.
LEMMA UpRises ==
  ASSUME Forest(links), NEW n \in Nodes
  PROVE  Rises(Up(n), n) /\ \A i \in 1 .. Len(Up(n)) : TailOf(Up(Up(n)[i]), Up(n), i)
<1> DEFINE G(x) == Rises(Up(x), x) /\ \A i \in 1 .. Len(Up(x)) : TailOf(Up(Up(x)[i]), Up(x), i)
           B == {x \in Nodes : ~G(x)}
<1> SUFFICES ASSUME B # {} PROVE FALSE
  OBVIOUS
<1>1. B \in SUBSET Nodes
  OBVIOUS
<1>2. PICK x \in B : links.father[x] \notin B
  <2> HIDE DEF B
  <2> QED BY <1>1, ForestTop
<1>3. x \in Nodes /\ ~G(x)
  BY <1>2
<1>4. CASE x = rot \/ links.father[x] = NULL
  <2>1. Up(x) = <<x>>
    BY <1>3, <1>4, UpStep
  <2> DEFINE v == <<x>>
  <2>2. v \in Seq(Nodes) /\ Len(v) = 1 /\ v[1] = x
    BY <1>3
  <2> HIDE DEF v
  <2>3. Rises(v, x)
    BY <2>2 DEF Rises
  <2>4. TailOf(v, v, 1)
    BY <2>2 DEF TailOf
  <2>5. Up(x) = v
    BY <2>1 DEF v
  <2>6. \A i \in 1 .. Len(v) : i = 1 /\ v[i] = x
    BY <2>2
  <2>7. \A i \in 1 .. Len(Up(x)) : TailOf(Up(Up(x)[i]), Up(x), i)
    BY <2>4, <2>5, <2>6
  <2> QED BY <1>3, <2>3, <2>5, <2>7
<1>5. CASE ~(x = rot \/ links.father[x] = NULL)
  <2> DEFINE f == links.father[x]
             w == Up(f)
             v == Up(x)
  <2>1. f \in Nodes /\ v = <<x>> \o w
    BY <1>3, <1>5, UpStep
  <2>2. G(f)
    BY <1>2, <2>1
  <2> HIDE DEF v
  <2>3. Rises(w, f) /\ \A i \in 1 .. Len(w) : TailOf(Up(w[i]), w, i)
    BY <2>2
  <2> HIDE DEF w
  <2>4. w \in Seq(Nodes) /\ Len(w) > 0 /\ Len(w) \in Nat /\ w[1] = f
        /\ \A i \in 1 .. Len(w) - 1 : w[i] # rot /\ w[i + 1] = links.father[w[i]]
    BY <2>3 DEF Rises
  <2>5. v \in Seq(Nodes) /\ Len(v) = Len(w) + 1 /\ v[1] = x /\ \A i \in 1 .. Len(w) : v[i + 1] = w[i]
    <3>1. x \in Nodes /\ w \in Seq(Nodes) /\ v = <<x>> \o w
      BY <1>3, <2>1, <2>4
    <3> QED BY ONLY <3>1
  <2>6. ASSUME NEW i \in 1 .. Len(v) - 1 PROVE v[i] # rot /\ v[i + 1] = links.father[v[i]]
    <3>1. CASE i = 1
      <4>1. 1 \in 1 .. Len(w)
        BY <2>4
      <4>2. v[1 + 1] = w[1]
        BY <2>5, <4>1
      <4> QED BY <1>5, <2>4, <2>5, <3>1, <4>2
    <3>2. CASE i # 1
      <4>1. i - 1 \in 1 .. Len(w) - 1 /\ i - 1 \in 1 .. Len(w) /\ i \in 1 .. Len(w) /\ (i - 1) + 1 = i
        BY <2>4, <2>5, <3>2
      <4>2. v[i] = w[i - 1] /\ v[i + 1] = w[i]
        BY <2>5, <4>1
      <4>3. w[i - 1] # rot /\ w[i] = links.father[w[i - 1]]
        BY <2>4, <4>1
      <4> QED BY <4>2, <4>3
    <3> QED BY <3>1, <3>2
  <2>7. Rises(v, x)
    BY <2>4, <2>5, <2>6 DEF Rises
  <2>8. ASSUME NEW i \in 1 .. Len(v) PROVE TailOf(Up(v[i]), v, i)
    <3>1. CASE i = 1
      <4>1. Up(v[i]) = v
        BY <2>5, <3>1 DEF v
      <4>2. TailOf(v, v, 1)
        BY <2>4, <2>5 DEF TailOf
      <4> QED BY <3>1, <4>1, <4>2
    <3>2. CASE i # 1
      <4>1. i - 1 \in 1 .. Len(w) /\ (i - 1) + 1 = i
        BY <2>4, <2>5, <3>2
      <4>2. v[i] = w[i - 1] /\ TailOf(Up(w[i - 1]), w, i - 1)
        BY <2>3, <2>5, <4>1
      <4> DEFINE t == Up(v[i])
      <4>3. Len(t) = Len(w) - (i - 1) + 1 /\ \A j \in 1 .. Len(w) - (i - 1) + 1 : t[j] = w[(i - 1) + j - 1]
        BY <4>2 DEF TailOf
      <4> HIDE DEF t
      <4>4. Len(v) - i + 1 = Len(w) - (i - 1) + 1
        BY <2>4, <2>5
      <4>5. ASSUME NEW j \in 1 .. Len(v) - i + 1 PROVE t[j] = v[i + j - 1]
        <5>1. j \in 1 .. Len(w) - (i - 1) + 1 /\ (i - 1) + j - 1 \in 1 .. Len(w) /\ ((i - 1) + j - 1) + 1 = i + j - 1
          BY <2>4, <2>5, <4>1, <4>4
        <5> QED BY <2>5, <4>3, <5>1
      <4>6. TailOf(t, v, i)
        BY <4>3, <4>4, <4>5 DEF TailOf
      <4> QED BY <4>6 DEF t
    <3> QED BY <3>1, <3>2
  <2>9. G(x)
    BY <2>7, <2>8 DEF v
  <2> QED BY <1>3, <2>9
<1> QED BY <1>4, <1>5

\* The way up goes through the search's root.
Reaches(n) == n \in Nodes /\ \E i \in 1 .. Len(Up(n)) : Up(n)[i] = rot

LEMMA ReachesLast ==
  ASSUME Forest(links), NEW n, Reaches(n)
  PROVE  /\ Rises(Up(n), n) /\ Len(Up(n)) \in Nat /\ Len(Up(n)) > 0
         /\ Up(n)[Len(Up(n))] = rot /\ \A i \in 1 .. Len(Up(n)) : Reaches(Up(n)[i])
<1> DEFINE w == Up(n)
<1>1. n \in Nodes
  BY DEF Reaches
<1>2. Rises(w, n) /\ \A i \in 1 .. Len(w) : TailOf(Up(w[i]), w, i)
  BY <1>1, UpRises
<1>3. PICK k \in 1 .. Len(w) : w[k] = rot
  BY DEF Reaches
<1> HIDE DEF w
<1>4. w \in Seq(Nodes) /\ Len(w) \in Nat /\ Len(w) > 0 /\ \A i \in 1 .. Len(w) - 1 : w[i] # rot
  BY <1>2 DEF Rises
<1>5. k = Len(w)
  <2>1. ~(k \in 1 .. Len(w) - 1)
    BY <1>3, <1>4
  <2> QED BY <1>4, <2>1
<1>6. ASSUME NEW i \in 1 .. Len(w) PROVE Reaches(w[i])
  <2> DEFINE t == Up(w[i])
  <2>1. Len(t) = Len(w) - i + 1 /\ \A j \in 1 .. Len(w) - i + 1 : t[j] = w[i + j - 1]
    BY <1>2 DEF TailOf
  <2> HIDE DEF t
  <2>2. Len(w) - i + 1 \in 1 .. Len(w) - i + 1 /\ i + (Len(w) - i + 1) - 1 = Len(w)
    BY <1>4
  <2>3. t[Len(w) - i + 1] = rot
    BY <1>3, <1>5, <2>1, <2>2
  <2>4. \E j \in 1 .. Len(t) : t[j] = rot
    BY <2>1, <2>2, <2>3
  <2>5. w[i] \in Nodes
    BY <1>4
  <2> QED BY <2>4, <2>5 DEF Reaches, t
<1> QED BY <1>2, <1>3, <1>4, <1>5, <1>6 DEF w

\* So it does from the father, and from a son.
LEMMA ReachesFather ==
  ASSUME Forest(links), NEW n, Reaches(n), n # rot
  PROVE  links.father[n] \in Nodes /\ Reaches(links.father[n]) /\ Up(n) = <<n>> \o Up(links.father[n])
<1>1. n \in Nodes
  BY DEF Reaches
<1>2. links.father[n] # NULL
  <2> SUFFICES ASSUME links.father[n] = NULL PROVE FALSE
    OBVIOUS
  <2>1. Up(n) = <<n>>
    BY <1>1, UpStep
  <2>2. \A i \in 1 .. Len(<<n>>) : <<n>>[i] = n
    OBVIOUS
  <2> QED BY <2>1, <2>2 DEF Reaches
<1>3. links.father[n] \in Nodes /\ Up(n) = <<n>> \o Up(links.father[n])
  BY <1>1, <1>2, UpStep
<1> DEFINE f == links.father[n]
           w == Up(f)
           v == Up(n)
<1>4. w \in Seq(Nodes) /\ Len(w) > 0
  BY <1>3, UpRises DEF Rises
<1>5. PICK k \in 1 .. Len(v) : v[k] = rot
  BY DEF Reaches
<1>6. v = <<n>> \o w
  BY <1>3
<1> HIDE DEF v, w
<1>7. Len(v) = Len(w) + 1 /\ v[1] = n /\ \A i \in 1 .. Len(w) : v[i + 1] = w[i]
  <2>1. n \in Nodes /\ w \in Seq(Nodes) /\ v = <<n>> \o w
    BY <1>1, <1>4, <1>6
  <2> QED BY ONLY <2>1
<1>8. k - 1 \in 1 .. Len(w) /\ (k - 1) + 1 = k
  BY <1>4, <1>5, <1>7
<1>9. w[k - 1] = rot
  BY <1>5, <1>7, <1>8
<1> QED BY <1>3, <1>8, <1>9 DEF Reaches, w

LEMMA ReachesSon ==
  ASSUME Forest(links), NEW f, Reaches(f), NEW c \in Nodes, links.father[c] = f
  PROVE  c # rot /\ Reaches(c) /\ Up(c) = <<c>> \o Up(f)
<1> DEFINE w == Up(f)
           v == Up(c)
<1>1. f \in Nodes
  BY DEF Reaches
<1>2. /\ w \in Seq(Nodes) /\ Len(w) \in Nat /\ Len(w) > 0 /\ w[1] = f /\ w[Len(w)] = rot
      /\ \A i \in 1 .. Len(w) - 1 : w[i + 1] = links.father[w[i]]
  BY ReachesLast DEF Rises
<1>3. c # rot
  <2> HIDE DEF w
  <2> SUFFICES ASSUME c = rot PROVE FALSE
    OBVIOUS
  <2> DEFINE B == {w[i] : i \in 1 .. Len(w)}
  <2>1. B \in SUBSET Nodes /\ B # {}
    BY <1>2
  <2>2. ASSUME NEW y \in B PROVE links.father[y] \in B
    <3>1. PICK i \in 1 .. Len(w) : y = w[i]
      OBVIOUS
    <3>2. CASE i = Len(w)
      <4>1. links.father[y] = f /\ 1 \in 1 .. Len(w)
        BY <1>2, <3>1, <3>2
      <4> QED BY <1>2, <4>1
    <3>3. CASE i # Len(w)
      <4>1. i \in 1 .. Len(w) - 1 /\ i + 1 \in 1 .. Len(w)
        BY <1>2, <3>3
      <4> QED BY <1>2, <3>1, <4>1
    <3> QED BY <3>2, <3>3
  <2> HIDE DEF B
  <2>3. PICK y \in B : links.father[y] \notin B
    BY <2>1, ForestTop
  <2> QED BY <2>2, <2>3
<1>4. links.father[c] # NULL
  BY <1>1, NodeNotNull
<1>5. v = <<c>> \o w
  BY <1>3, <1>4, UpStep
<1> HIDE DEF v, w
<1>6. Len(v) = Len(w) + 1 /\ \A i \in 1 .. Len(w) : v[i + 1] = w[i]
  <2>1. c \in Nodes /\ w \in Seq(Nodes) /\ v = <<c>> \o w
    BY <1>2, <1>5
  <2> QED BY ONLY <2>1
<1>7. Len(w) \in 1 .. Len(w) /\ Len(w) + 1 \in 1 .. Len(v)
  BY <1>2, <1>6
<1>8. v[Len(w) + 1] = rot
  BY <1>2, <1>6, <1>7
<1> QED BY <1>3, <1>5, <1>7, <1>8 DEF Reaches, v, w

LEMMA ReachesRoot ==
  ASSUME Forest(links), rot \in Nodes
  PROVE  Reaches(rot)
<1>1. Up(rot) = <<rot>>
  BY UpStep
<1>2. 1 \in 1 .. Len(<<rot>>) /\ <<rot>>[1] = rot
  OBVIOUS
<1> QED BY <1>1, <1>2 DEF Reaches

---------------------------------------------------------------------------
(* The branch words of the leaves that a search's traversal has visited *)

TooLarge(l) == \/ node[l].node_id > MAX_BRW_PIN_SZ \/ node[l].n_fan > MAX_BRW_PIN_SZ
               \/ Len(Up(l)) >= MAX_TEX_TR_DEPTH

Exceeding == \E l \in Live : Leaf(l) /\ Reaches(l) /\ TooLarge(l)

Word(x) == Subpath(Up(x))

\* The nodes in D were visited, and the leaves among them, one after the other,
\* are q.
WordsOf(D, q) ==
  /\ D \subseteq Live /\ Visited(links, places, rot, D) /\ \A x \in D : Reaches(x)
  /\ q \in Seq(Nodes)
  /\ \A i, j \in 1 .. Len(q) : q[i] = q[j] => i = j
  /\ \A x : (\E i \in 1 .. Len(q) : q[i] = x) <=> x \in D /\ Leaf(x)
  /\ \A i \in 1 .. Len(q) : ~TooLarge(q[i])
  /\ subpaths = [i \in 1 .. Len(q) |-> Word(q[i])]

WInv ==
  /\ pc \in Parsing \cup Updates \cup {"accepted", "updated"} => subpaths = <<>> /\ err = FALSE
  /\ pc = "subpaths" =>
       /\ err \in BOOLEAN /\ (err => Exceeding)
       /\ ~err => \E D, q : WordsOf(D, q)

\* The tree is read only.
LEMMA TreeRead ==
  ASSUME UNCHANGED <<links, node, mem, rot>>
  PROVE  /\ Live' = Live /\ (Exceeding' <=> Exceeding)
         /\ \A x : /\ Leaf(x)' <=> Leaf(x)
                   /\ Reaches(x)' <=> Reaches(x)
                   /\ TooLarge(x)' <=> TooLarge(x)
                   /\ Word(x)' = Word(x)
<1>1. Live' = Live
  BY DEF Live
<1>2. \A x : Up(x)' = Up(x)
  BY DEF Up
<1>3. \A x : Leaf(x)' <=> Leaf(x)
  BY DEF Leaf
<1>4. \A x : Reaches(x)' <=> Reaches(x)
  BY <1>2 DEF Reaches
<1>5. \A x : TooLarge(x)' <=> TooLarge(x)
  BY <1>2 DEF TooLarge
<1>6. \A x : Word(x)' = Word(x)
  BY <1>2 DEF Word, Subpath, Dir
<1>7. Exceeding' <=> Exceeding
  BY <1>1, <1>3, <1>4, <1>5 DEF Exceeding
<1> QED BY <1>1, <1>3, <1>4, <1>5, <1>6, <1>7

\* The way up from the current node goes through the search's root.
LEMMA CurrentReaches ==
  ASSUME IInv, pc = "subpaths", places # <<>>
  PROVE  Reaches(p)
<1> DEFINE s == places
<1>1. Forest(links) /\ Trail(links, s)
  BY Parts
<1>2. rot \in Nodes /\ s[1].now = rot
  BY DEF IInv, Begins
<1>3. p = s[Len(s)].now /\ Len(s) \in Nat /\ Len(s) > 0
  BY Current
<1>4. \A i \in 1 .. Len(s) : s[i].now \in Nodes
  BY <1>1, WayNodes
<1> DEFINE S == {k \in Nat : k + 1 \in 1 .. Len(s) => Reaches(s[k + 1].now)}
<1> HIDE DEF s
<1>5. 0 \in S
  BY <1>1, <1>2, ReachesRoot
<1>6. ASSUME NEW k \in Nat, k \in S PROVE k + 1 \in S
  <2> SUFFICES ASSUME (k + 1) + 1 \in 1 .. Len(s) PROVE Reaches(s[(k + 1) + 1].now)
    OBVIOUS
  <2> DEFINE j == (k + 1) + 1
  <2>1. j \in 2 .. Len(s) /\ j - 1 = k + 1 /\ k + 1 \in 1 .. Len(s) /\ j \in 1 .. Len(s)
    BY <1>3
  <2>2. Reaches(s[k + 1].now)
    BY <1>6, <2>1
  <2> HIDE DEF j
  <2>3. links.father[s[j].now] = s[k + 1].now
    BY <1>1, <2>1 DEF Trail
  <2>4. Reaches(s[j].now)
    BY <1>1, <1>4, <2>1, <2>2, <2>3, ReachesSon
  <2> QED BY <2>4 DEF j
<1>7. Len(s) - 1 \in S /\ (Len(s) - 1) + 1 \in 1 .. Len(s) /\ (Len(s) - 1) + 1 = Len(s)
  <2> HIDE DEF S
  <2>1. \A k \in Nat : k \in S
    BY <1>5, <1>6, SetInduction
  <2> QED BY <1>3, <2>1
<1>8. Reaches(s[Len(s)].now)
  BY <1>7
<1> QED BY <1>3, <1>8

\* The traversal of a search visits a node after the other.
LEMMA SearchedOn ==
  ASSUME IInv, pc = "subpaths", places # <<>>, Walk(GoOver, links, place),
         NEW D, Visited(links, places, rot, D)
  PROVE  p \notin D /\ p \in Live /\ Visited(links, places', rot, D \cup {p})
<1> DEFINE n == rot
           c == p
           s == places
           t == places'
<1>1. Forest(links) /\ Trail(links, s)
  BY Parts
<1>2. c \in Nodes /\ c = s[Len(s)].now /\ place = s[Len(s)] /\ Len(s) \in Nat /\ Len(s) > 0 /\ mem[c] = "live"
  BY Current
<1>3. n \in Nodes
  BY DEF IInv, Begins
<1>4. t = IF Len(s) = 1 THEN <<>>
             ELSE IF c = links.sons[links.father[c]].last THEN Front(s) ELSE Front(s) \o Down(links, s[Len(s)].fwd)
  <2>1. GoOver = (Len(s) > 1 /\ c = links.sons[links.father[c]].last)
    BY DEF GoOver
  <2>2. t = IF Len(s) = 1 THEN <<>>
            ELSE IF GoOver THEN Front(s) ELSE Front(s) \o Down(links, s[Len(s)].fwd)
    BY <1>2, Zenon DEF Walk
  <2>3. Len(s) = 1 \/ Len(s) > 1
    BY <1>2, One
  <2>4. CASE Len(s) = 1
    BY <2>2, <2>4
  <2>5. CASE Len(s) # 1
    <3>1. GoOver <=> c = links.sons[links.father[c]].last
      BY <2>1, <2>3, <2>5
    <3> HIDE DEF s, t, c
    <3> QED BY <2>2, <2>5, <3>1, Zenon
  <2> QED BY <2>4, <2>5
<1>5. Visited(links, s, n, D) /\ s # <<>> /\ c = s[Len(s)].now
  BY <1>2
<1>6. c \in Live
  BY <1>2 DEF Live
<1> HIDE DEF n, c, s, t
<1>7. c \notin D /\ Visited(links, t, n, D \cup {c})
  BY ONLY <1>1, <1>3, <1>4, <1>5, VisitedWalk
<1> QED BY <1>6, <1>7 DEF n, c, s, t

\* The next word.
LEMMA AppendWord ==
  ASSUME NEW T, NEW f \in [Nodes -> T], NEW q \in Seq(Nodes), NEW x \in Nodes,
         NEW s, s = [i \in 1 .. Len(q) |-> f[q[i]]],
         NEW r, r = Append(q, x)
  PROVE  /\ r \in Seq(Nodes) /\ Len(r) = Len(q) + 1 /\ r[Len(q) + 1] = x /\ \A i \in 1 .. Len(q) : r[i] = q[i]
         /\ Append(s, f[x]) = [i \in 1 .. Len(r) |-> f[r[i]]]
<1> DEFINE N == Len(q)
<1>1. N \in Nat /\ \A i \in 1 .. N : q[i] \in Nodes
  OBVIOUS
<1>2. r \in Seq(Nodes) /\ Len(r) = N + 1 /\ r[N + 1] = x /\ \A i \in 1 .. N : r[i] = q[i]
  OBVIOUS
<1>3. s \in Seq(T) /\ Len(s) = N /\ (\A i \in 1 .. N : s[i] = f[q[i]]) /\ f[x] \in T
  <2>1. \A i \in 1 .. N : f[q[i]] \in T
    BY <1>1
  <2> QED BY <1>1, <2>1
<1> HIDE DEF N
<1> DEFINE a == Append(s, f[x])
<1>4. a \in Seq(T) /\ Len(a) = N + 1 /\ a[N + 1] = f[x] /\ \A i \in 1 .. N : a[i] = s[i]
  BY <1>1, <1>3
<1> HIDE DEF a
<1>5. a = [i \in 1 .. N + 1 |-> a[i]]
  BY <1>1, <1>4
<1>6. \A i \in 1 .. N + 1 : a[i] = f[r[i]]
  <2> TAKE i \in 1 .. N + 1
  <2>1. i = N + 1 \/ i \in 1 .. N
    BY <1>1
  <2> QED BY <1>2, <1>3, <1>4, <2>1
<1> QED BY <1>2, <1>5, <1>6 DEF a, N

LEMMA WordsBegin ==
  ASSUME IInv, IInv', WInv, NEW n \in Nodes, Subpaths(n)
  PROVE  WInv'
<1>1. /\ pc = "updated" /\ pc' = "subpaths" /\ n \in Live /\ rot' = n /\ places' = Down(links, n)
      /\ UNCHANGED <<links, node, mem, subpaths, err>>
  BY DEF Subpaths, Begin
<1>2. subpaths = <<>> /\ err = FALSE
  BY <1>1 DEF WInv
<1>3. Visited(links, places', n, {})
  <2>1. Forest(links) /\ n \in Nodes /\ places' = Down(links, n)
    BY <1>1, Parts
  <2> DEFINE s == places'
  <2>2. Forest(links) /\ n \in Nodes /\ s = Down(links, n)
    BY <2>1
  <2> HIDE DEF s
  <2>3. Visited(links, s, n, {})
    BY ONLY <2>2, VisitedBegin
  <2> QED BY <2>3 DEF s
<1>4. \E D, q : WordsOf(D, q)'
  <2>1. PICK D, q : D = {} /\ q = <<>>
    OBVIOUS
  <2>2. /\ D \subseteq Live' /\ Visited(links', places', rot', D) /\ \A x \in D : Reaches(x)'
    BY <1>1, <1>3, <2>1
  <2>3. q \in Seq(Nodes) /\ 1 .. Len(q) = {}
    BY <2>1
  <2>4. subpaths' = [i \in 1 .. Len(q) |-> Word(q[i])']
    <3>1. subpaths' = <<>>
      BY <1>1, <1>2
    <3> QED BY <2>3, <3>1
  <2>5. \A x : (\E i \in 1 .. Len(q) : q[i] = x) <=> x \in D /\ Leaf(x)'
    BY <2>1, <2>3
  <2>6. WordsOf(D, q)'
    BY <2>2, <2>3, <2>4, <2>5 DEF WordsOf
  <2> QED BY <2>6
<1> QED BY <1>1, <1>2, <1>4 DEF WInv, Parsing, Updates

\* gen_subpath(): the word of the current leaf follows, or the error.
LEMMA WordsNext ==
  ASSUME IInv, NInv, WInv, gen_subpath, pc' = "subpaths"
  PROVE  WInv'
<1>1. /\ pc = "subpaths" /\ places # <<>> /\ UNCHANGED <<links, node, mem, rot>>
      /\ IF Leaf(p) /\ node[p].n_fan # 0
         THEN IF Exceeds THEN err' = TRUE
              ELSE subpaths' = Append(subpaths, Word(p)) /\ err' = err /\ Walk(GoOver, links, place)
         ELSE Walk(GoOver, links, place) /\ subpaths' = subpaths /\ err' = err
  BY DEF gen_subpath, At, Word
<1>2. /\ Live' = Live /\ (Exceeding' <=> Exceeding)
      /\ \A x : /\ Leaf(x)' <=> Leaf(x)
                /\ Reaches(x)' <=> Reaches(x)
                /\ TooLarge(x)' <=> TooLarge(x)
                /\ Word(x)' = Word(x)
  BY <1>1, TreeRead
<1>3. /\ err \in BOOLEAN /\ (err => Exceeding) /\ (~err => \E D, q : WordsOf(D, q))
  BY <1>1 DEF WInv
<1>4. Reaches(p) /\ p \in Nodes /\ p \in Live /\ Len(Up(p)) = Len(places)
  BY <1>1, CurrentReaches, Current, UpLength DEF Live
<1>5. Leaf(p) => node[p].n_fan # 0
  BY <1>1, <1>4 DEF NInv, IdsSoFar, Leaves
<1>6. Exceeds <=> TooLarge(p)
  BY <1>4 DEF Exceeds, TooLarge
<1>7. CASE err
  <2>1. err'
    BY <1>1, <1>3, <1>7
  <2>2. err' \in BOOLEAN
    BY <1>1, <1>3
  <2> QED BY <1>2, <1>3, <1>7, <2>1, <2>2 DEF WInv, Parsing, Updates
<1>8. CASE ~err /\ Leaf(p) /\ Exceeds
  <2>1. err' = TRUE
    BY <1>1, <1>5, <1>8
  <2>2. Exceeding
    BY <1>4, <1>6, <1>8 DEF Exceeding
  <2> QED BY <1>2, <2>1, <2>2 DEF WInv, Parsing, Updates
<1>9. CASE ~err /\ ~(Leaf(p) /\ Exceeds)
  <2>1. Walk(GoOver, links, place) /\ err' = err
        /\ subpaths' = IF Leaf(p) THEN Append(subpaths, Word(p)) ELSE subpaths
    BY <1>1, <1>5, <1>9
  <2>2. PICK D, q : WordsOf(D, q)
    BY <1>3, <1>9
  <2>3. /\ D \subseteq Live /\ Visited(links, places, rot, D) /\ \A x \in D : Reaches(x)
        /\ q \in Seq(Nodes)
        /\ \A i, j \in 1 .. Len(q) : q[i] = q[j] => i = j
        /\ \A x : (\E i \in 1 .. Len(q) : q[i] = x) <=> x \in D /\ Leaf(x)
        /\ \A i \in 1 .. Len(q) : ~TooLarge(q[i])
        /\ subpaths = [i \in 1 .. Len(q) |-> Word(q[i])]
    BY <2>2 DEF WordsOf
  <2>4. p \notin D /\ Visited(links, places', rot, D \cup {p})
    BY <1>1, <2>1, <2>3, SearchedOn
  <2>5. PICK E : E = D \cup {p}
    OBVIOUS
  <2>6. E \subseteq Live' /\ Visited(links', places', rot', E) /\ \A x \in E : Reaches(x)'
    BY <1>1, <1>2, <1>4, <2>3, <2>4, <2>5
  <2>7. \E r : WordsOf(E, r)'
    <3>1. CASE ~Leaf(p)
      <4>1. subpaths' = [i \in 1 .. Len(q) |-> Word(q[i])']
        BY <1>2, <2>1, <2>3, <3>1
      <4>2. \A x : (\E i \in 1 .. Len(q) : q[i] = x) <=> x \in E /\ Leaf(x)'
        BY <1>2, <2>3, <2>5, <3>1
      <4>3. \A i \in 1 .. Len(q) : ~TooLarge(q[i])'
        BY <1>2, <2>3
      <4>4. WordsOf(E, q)'
        BY <2>3, <2>6, <4>1, <4>2, <4>3 DEF WordsOf
      <4> QED BY <4>4
    <3>2. CASE Leaf(p)
      <4> DEFINE f == [x \in Nodes |-> Word(x)]
                 T == {Word(x) : x \in Nodes}
                 N == Len(q)
      <4>1. PICK r : r = Append(q, p)
        OBVIOUS
      <4>2. f \in [Nodes -> T] /\ f[p] = Word(p)
        BY <1>4
      <4>3. \A i \in 1 .. N : q[i] \in Nodes
        BY <2>3
      <4>4. subpaths = [i \in 1 .. N |-> f[q[i]]]
        BY <2>3, <4>3
      <4>5. subpaths' = Append(subpaths, f[p])
        BY <2>1, <3>2, <4>2
      <4> HIDE DEF f, T
      <4>6. /\ r \in Seq(Nodes) /\ Len(r) = N + 1 /\ r[N + 1] = p /\ (\A i \in 1 .. N : r[i] = q[i])
            /\ subpaths' = [i \in 1 .. Len(r) |-> f[r[i]]]
        <5> DEFINE x == p
                   s == subpaths
        <5>1. q \in Seq(Nodes) /\ x \in Nodes /\ s = [i \in 1 .. Len(q) |-> f[q[i]]] /\ r = Append(q, x)
              /\ f \in [Nodes -> T]
          BY <1>4, <2>3, <4>1, <4>2, <4>4
        <5> HIDE DEF x, s
        <5>2. /\ r \in Seq(Nodes) /\ Len(r) = Len(q) + 1 /\ r[Len(q) + 1] = x /\ (\A i \in 1 .. Len(q) : r[i] = q[i])
              /\ Append(s, f[x]) = [i \in 1 .. Len(r) |-> f[r[i]]]
          BY ONLY <5>1, AppendWord
        <5> QED BY <4>5, <5>2 DEF x, s
      <4>7. N \in Nat /\ 1 .. Len(r) = 1 .. N + 1 /\ \A i \in 1 .. Len(r) : i = N + 1 \/ i \in 1 .. N
        BY <2>3, <4>6
      <4>8. subpaths' = [i \in 1 .. Len(r) |-> Word(r[i])']
        <5>1. \A i \in 1 .. Len(r) : r[i] \in Nodes
          BY <4>6
        <5>2. \A i \in 1 .. Len(r) : f[r[i]] = Word(r[i])'
          BY <1>2, <5>1 DEF f
        <5> QED BY <4>6, <5>2
      <4>9. \A x : (\E i \in 1 .. Len(r) : r[i] = x) <=> x \in E /\ Leaf(x)'
        <5> TAKE x
        <5>1. (\E i \in 1 .. Len(r) : r[i] = x) <=> x = p \/ \E i \in 1 .. N : q[i] = x
          <6>1. ASSUME NEW i \in 1 .. Len(r), r[i] = x PROVE x = p \/ \E j \in 1 .. N : q[j] = x
            BY <4>6, <4>7, <6>1
          <6>2. ASSUME NEW i \in 1 .. N PROVE \E j \in 1 .. Len(r) : r[j] = q[i]
            <7>1. i \in 1 .. Len(r)
              BY <4>7
            <7> QED BY <4>6, <7>1
          <6>3. N + 1 \in 1 .. Len(r)
            BY <4>7
          <6> QED BY <4>6, <6>1, <6>2, <6>3
        <5> QED BY <1>2, <2>3, <2>5, <3>2, <5>1
      <4>10. \A i \in 1 .. Len(r) : ~TooLarge(r[i])'
        <5>1. ~TooLarge(p)
          BY <1>6, <1>9, <3>2
        <5> QED BY <1>2, <2>3, <4>6, <4>7, <5>1
      <4>11. \A i, j \in 1 .. Len(r) : r[i] = r[j] => i = j
        <5>1. \A i \in 1 .. N : r[i] # p
          BY <2>3, <2>4, <4>6
        <5> QED BY <2>3, <4>6, <4>7, <5>1
      <4>12. WordsOf(E, r)'
        BY <2>6, <4>6, <4>8, <4>9, <4>10, <4>11 DEF WordsOf
      <4> QED BY <4>12
    <3> QED BY <3>1, <3>2
  <2> QED BY <1>2, <1>3, <1>9, <2>1, <2>7 DEF WInv, Parsing, Updates
<1> QED BY <1>7, <1>8, <1>9

\* Nothing is written before, and nothing is said after.
LEMMA WordsUnwritten ==
  ASSUME WInv, pc \in Parsing \cup Updates \cup {"accepted", "updated"}, UNCHANGED <<subpaths, err>>, pc' # "subpaths"
  PROVE  WInv'
BY DEF WInv

LEMMA NextWords ==
  ASSUME IInv, NInv, WInv, [Next]_vars, IInv'
  PROVE  WInv'
<1>1. CASE Parse \/ Assign
  <2>1. /\ pc \in Parsing \cup Updates \cup {"accepted", "updated"} /\ pc' # "subpaths"
        /\ UNCHANGED <<subpaths, err>>
    <3>1. CASE Atom \/ Operator("+", "ADD") \/ Operator("/", "FRAC") \/ Script \/ Hang \/ StackRel
      BY <3>1 DEF Atom, Operator, Script, Hang, StackRel, Reduce, Parsing, words
    <3>2. CASE AttachSon \/ PassSons \/ son_pass \/ Passing \/ DropTree \/ Dropped \/ SyntaxError \/ Accept
      BY <3>2 DEF AttachSon, PassSons, son_pass, Passing, DropTree, Dropped, SyntaxError, Accept,
                  CallTo, At, Over, Begin, Parsing, words
    <3>3. CASE Update \/ leaf_n_fan_set_1 \/ group_leaf \/ prune
      BY <3>3 DEF Update, leaf_n_fan_set_1, group_leaf, prune, At, Begin, Updates, words
    <3>4. CASE assign_leaf_id \/ assign_internal \/ Updated
      BY <3>4 DEF assign_leaf_id, assign_internal, Updated, At, Over, Updates, words
    <3>5. CASE NextWalk("set_1", "group") \/ NextWalk("group", "prune") \/ NextWalk("prune", "leaf_id")
               \/ NextWalk("leaf_id", "internal")
      BY <3>5 DEF NextWalk, Over, Begin, Updates, words
    <3> QED BY <1>1, <3>1, <3>2, <3>3, <3>4, <3>5 DEF Parse, Assign
  <2> QED BY <2>1, WordsUnwritten
<1>2. CASE \E n \in Nodes : Subpaths(n)
  BY <1>2, WordsBegin
<1>3. CASE gen_subpath
  <2>1. pc = "subpaths" /\ pc' \in {"subpaths", "fatal"}
    BY <1>3 DEF gen_subpath, At
  <2>2. pc' # "fatal"
    BY DEF IInv, Control, Phases
  <2> QED BY <1>3, <2>1, <2>2, WordsNext
<1>4. CASE Generated \/ Release \/ ReleaseNext \/ Released
  <2>1. CASE Generated \/ ReleaseNext \/ Released
    BY <2>1 DEF Generated, ReleaseNext, Released, Begin, WInv, Parsing, Updates
  <2>2. CASE Release
    BY <2>2 DEF Release, At, words, WInv, Parsing, Updates
  <2> QED BY <1>4, <2>1, <2>2
<1>5. CASE Finished \/ UNCHANGED vars
  <2>1. UNCHANGED <<pc, links, node, mem, places, rot, subpaths, err>>
    BY <1>5 DEF Finished, vars, input, words
  <2>2. /\ Live' = Live /\ (Exceeding' <=> Exceeding)
        /\ \A x : /\ Leaf(x)' <=> Leaf(x)
                  /\ Reaches(x)' <=> Reaches(x)
                  /\ TooLarge(x)' <=> TooLarge(x)
                  /\ Word(x)' = Word(x)
    BY <2>1, TreeRead
  <2>3. \A D, q : WordsOf(D, q)' <=> WordsOf(D, q)
    BY <2>1, <2>2 DEF WordsOf
  <2> QED BY <2>1, <2>2, <2>3 DEF WInv
<1> QED BY <1>1, <1>2, <1>3, <1>4, <1>5 DEF Next, Step

\* The words of the leaves visited so far, in a traversal from any node.
THEOREM WordsInvariant == Spec => []WInv
<1>1. Init => WInv
  <2> SUFFICES ASSUME Init PROVE WInv
    OBVIOUS
  <2>1. pc = "parse" /\ subpaths = <<>> /\ err = FALSE
    BY DEF Init
  <2> QED BY <2>1 DEF WInv, Parsing
<1>2. IInv /\ NInv /\ WInv /\ [Next]_vars /\ IInv' => WInv'
  BY NextWords
<1> QED BY <1>1, <1>2, TexInvariant, NumberingInvariant, PTL DEF Spec

---------------------------------------------------------------------------
(* What the branch words say of the tree *)

\* What fits in a byte is kept.
LEMMA ByteIs ==
  ASSUME NEW k \in Nat
  PROVE  Byte(k) \in Nat /\ (~(k > MAX_BRW_PIN_SZ) => Byte(k) = k)
<1>1. MAX_BRW_PIN_SZ \in Nat \ {0}
  BY TexTreeAssumption
<1>2. Byte(k) = k % (MAX_BRW_PIN_SZ + 1)
  BY DEF Byte
<1> DEFINE M == MAX_BRW_PIN_SZ
<1> HIDE DEF M
<1>3. ASSUME M \in Nat \ {0} PROVE k % (M + 1) \in Nat /\ (~(k > M) => k % (M + 1) = k)
  <2>1. k % (M + 1) \in Nat
    BY <1>3
  <2>2. k \in 0 .. M => k % (M + 1) = k
    BY <1>3
  <2>3. ~(k > M) => k \in 0 .. M
    BY <1>3
  <2> QED BY <2>1, <2>2, <2>3
<1> QED BY <1>1, <1>2, <1>3 DEF M

\* The fields of a word, node by node.
LEMMA WordFields ==
  ASSUME IInv, NEW a \in Nodes
  PROVE  /\ Up(a) \in Seq(Nodes) /\ Len(Up(a)) \in Nat /\ Len(Up(a)) > 0 /\ Up(a)[1] = a
         /\ Word(a).symbol_id = node[a].symbol_id /\ node[a].symbol_id \in Symbols
         /\ Word(a).pin \in Seq(Nat) /\ Len(Word(a).pin) = Len(Up(a))
         /\ \A i \in 1 .. Len(Up(a)) : /\ Up(a)[i] \in Nodes
                                       /\ Word(a).pin[i] = Byte(node[Up(a)[i]].node_id)
                                       /\ Word(a).fan[i] = Byte(node[Up(a)[i]].n_fan)
                                       /\ Word(a).fan[i] \in Nat
<1> DEFINE w == Up(a)
<1>1. w \in Seq(Nodes) /\ Len(w) > 0 /\ w[1] = a
  BY UpRises, Parts DEF Rises
<1>2. Word(a) = [symbol_id |-> node[w[1]].symbol_id, dir |-> Dir(w),
                 pin |-> [i \in DOMAIN w |-> Byte(node[w[i]].node_id)],
                 fan |-> [i \in DOMAIN w |-> Byte(node[w[i]].n_fan)]]
  BY DEF Word, Subpath
<1> HIDE DEF w
<1>3. DOMAIN w = 1 .. Len(w) /\ Len(w) \in Nat /\ \A i \in 1 .. Len(w) : w[i] \in Nodes
  BY <1>1
<1>4. /\ Word(a).symbol_id = node[a].symbol_id
      /\ Word(a).pin = [i \in 1 .. Len(w) |-> Byte(node[w[i]].node_id)]
      /\ Word(a).fan = [i \in 1 .. Len(w) |-> Byte(node[w[i]].n_fan)]
  BY <1>1, <1>2, <1>3
<1>5. \A x \in Nodes : /\ node[x].symbol_id \in Symbols
                       /\ Byte(node[x].node_id) \in Nat /\ Byte(node[x].n_fan) \in Nat
  <2> TAKE x \in Nodes
  <2>1. node[x] \in NodeType /\ node[x].n_fan \in Nat /\ node[x].node_id \in Nat
    BY FieldParts, NodesFinite
  <2>2. node[x].symbol_id \in Symbols
    BY <2>1 DEF NodeType
  <2> QED BY <2>1, <2>2, ByteIs
<1> DEFINE u == [i \in 1 .. Len(w) |-> Byte(node[w[i]].node_id)]
<1>6. u \in Seq(Nat) /\ Len(u) = Len(w)
  <2>1. \A i \in 1 .. Len(w) : u[i] \in Nat
    BY <1>3, <1>5
  <2> QED BY <1>3, <2>1
<1>7. \A i \in 1 .. Len(w) : /\ Word(a).pin[i] = Byte(node[w[i]].node_id)
                             /\ Word(a).fan[i] = Byte(node[w[i]].n_fan)
  BY <1>4
<1> QED BY <1>1, <1>3, <1>4, <1>5, <1>6, <1>7 DEF w

\* The end of a word's pins is the way up from a node on its way.
LEMMA WayIs ==
  ASSUME IInv, NEW a \in Nodes, NEW k \in 1 .. Len(Up(a))
  PROVE  Way(Word(a), k) = Word(Up(a)[k]).pin
<1> DEFINE w == Up(a)
           x == w[k]
           v == Up(x)
           s == Word(a).pin
           t == Word(x).pin
<1>1. Len(w) \in Nat /\ x \in Nodes /\ s \in Seq(Nat) /\ Len(s) = Len(w)
      /\ \A i \in 1 .. Len(w) : s[i] = Byte(node[w[i]].node_id)
  BY WordFields
<1>2. t \in Seq(Nat) /\ Len(t) = Len(v) /\ \A i \in 1 .. Len(v) : t[i] = Byte(node[v[i]].node_id)
  BY <1>1, WordFields
<1>3. Len(v) = Len(w) - k + 1 /\ \A j \in 1 .. Len(w) - k + 1 : v[j] = w[k + j - 1]
  BY UpRises, Parts DEF TailOf
<1>4. Way(Word(a), k) = SubSeq(s, k, Len(s))
  BY DEF Way
<1> HIDE DEF w, v, s, t
<1> DEFINE b == SubSeq(s, k, Len(s))
<1>5. b \in Seq(Nat) /\ Len(b) = Len(s) - k + 1 /\ \A i \in 1 .. Len(s) - k + 1 : b[i] = s[k + i - 1]
  <2>1. s \in Seq(Nat) /\ k \in 1 .. Len(s)
    BY <1>1 DEF w
  <2> QED BY ONLY <2>1
<1> HIDE DEF b, x
<1>6. \A i \in 1 .. Len(b) : b[i] = t[i]
  <2> TAKE i \in 1 .. Len(b)
  <2>0. k \in 1 .. Len(w)
    BY DEF w
  <2>1. i \in 1 .. Len(s) - k + 1 /\ i \in 1 .. Len(v) /\ i \in 1 .. Len(w) - k + 1 /\ k + i - 1 \in 1 .. Len(w)
    BY <1>1, <1>3, <1>5, <2>0
  <2> QED BY <1>1, <1>2, <1>3, <1>5, <2>1
<1>7. Len(b) = Len(t) /\ b \in Seq(Nat) /\ t \in Seq(Nat)
  BY <1>1, <1>2, <1>3, <1>5
<1>8. b = t
  <2>1. b = [i \in 1 .. Len(b) |-> b[i]] /\ t = [i \in 1 .. Len(t) |-> t[i]]
    BY <1>7
  <2> QED BY <1>6, <1>7, <2>1
<1> QED BY <1>4, <1>8 DEF b, t, x, w

\* What holds of the tree when it is searched.
LEMMA SearchedTree ==
  ASSUME IInv, NInv, pc = "subpaths"
  PROVE  /\ Numbered(node) = Live /\ rot \in Live
         /\ \A x, y \in Live : node[x].node_id = node[y].node_id => x = y
         /\ \A x \in Live : ~Leaf(x) => Counts(node, x)
         /\ tot_brw = Cardinality(Pairs(node, Leaves))
<1>1. Numbered(node) = Live /\ IdsUpTo(node, cur_id) /\ tot_brw = Cardinality(Pairs(node, Numbered(node) \cap Leaves))
      /\ \A x \in Numbered(node) \ Leaves : Counts(node, x)
  BY DEF NInv, IdsSoFar, InnerSoFar, Pruned
<1>2. Numbered(node) \cap Leaves = Leaves
  BY <1>1 DEF Leaves
<1>3. rot \in Live
  BY DEF IInv, Begins, Live
<1>4. \A x \in Live : ~Leaf(x) => x \in Numbered(node) \ Leaves
  BY <1>1 DEF Leaves
<1> QED BY <1>1, <1>2, <1>3, <1>4 DEF IdsUpTo

\* What the search reaches is live, and no id there is larger than the root's.
LEMMA ReachesLive ==
  ASSUME IInv, NInv, pc = "subpaths", NEW n, Reaches(n)
  PROVE  n \in Live /\ node[n].node_id <= node[rot].node_id
<1>1. Forest(links) /\ Alive(links, mem)
  BY Parts
<1>2. \A x : Reaches(x) => x \in Live
  <2> TAKE x
  <2> HAVE Reaches(x)
  <2>1. CASE x = rot
    BY <2>1, SearchedTree
  <2>2. CASE x # rot
    <3>1. x \in Nodes /\ links.father[x] \in Nodes
      BY <1>1, <2>2, ReachesFather DEF Reaches
    <3>2. mem[x] = "live"
      BY <1>1, <3>1, NodeNotNull, AliveFather
    <3> QED BY <3>1, <3>2 DEF Live
  <2> QED BY <2>1, <2>2
<1>3. \A x \in Nodes : node[x].node_id \in Nat
  BY FieldParts, NodesFinite
<1> DEFINE B == {x \in Nodes : Reaches(x) /\ ~(node[x].node_id <= node[rot].node_id)}
<1>4. B = {}
  <2> SUFFICES ASSUME B # {} PROVE FALSE
    OBVIOUS
  <2>1. B \in SUBSET Nodes
    OBVIOUS
  <2>2. PICK x \in B : links.father[x] \notin B
    <3> HIDE DEF B
    <3> QED BY <1>1, <2>1, ForestTop
  <2> DEFINE f == links.father[x]
  <2>3. rot \in Nodes
    BY SearchedTree DEF Live
  <2>4. x # rot
    BY <1>3, <2>2, <2>3
  <2>5. f \in Nodes /\ Reaches(f) /\ x \in Live /\ f \in Live
    BY <1>1, <1>2, <2>2, <2>4, ReachesFather
  <2>6. node[f].node_id <= node[rot].node_id
    BY <2>2, <2>5
  <2>7. x \in Sons(f) /\ ~Leaf(f)
    BY <1>1, <2>5, ForestSons DEF Sons, Leaf, Live
  <2>8. node[x].node_id < node[f].node_id
    BY <2>5, <2>7, SearchedTree DEF Counts
  <2>9. x \in Nodes /\ f \in Nodes /\ ~(node[x].node_id <= node[rot].node_id)
    BY <2>2, <2>5
  <2> HIDE DEF f
  <2> QED BY <1>3, <2>3, <2>6, <2>8, <2>9
<1>5. n \in Nodes
  BY DEF Reaches
<1> QED BY <1>2, <1>4, <1>5

\* Below every node that the search reaches there is a leaf.
LEMMA LeafBelow ==
  ASSUME IInv, NInv, pc = "subpaths", NEW c, Reaches(c)
  PROVE  \E l : Reaches(l) /\ Leaf(l) /\ \E j \in 1 .. Len(Up(l)) : Up(l)[j] = c
<1> DEFINE W == {y \in Nodes : Reaches(y) /\ \E j \in 1 .. Len(Up(y)) : Up(y)[j] = c}
<1>1. Forest(links)
  BY Parts
<1>2. c \in W
  <2>1. c \in Nodes
    BY DEF Reaches
  <2>2. 1 \in 1 .. Len(Up(c)) /\ Up(c)[1] = c
    BY <2>1, WordFields
  <2> QED BY <2>1, <2>2
<1>3. PICK y \in W : \A z \in W : links.father[z] # y
  <2>1. W \in SUBSET Nodes /\ W # {}
    BY <1>2
  <2> HIDE DEF W
  <2> QED BY <1>1, <2>1, ForestLow
<1>4. Leaf(y)
  <2> SUFFICES ASSUME ~Leaf(y) PROVE FALSE
    OBVIOUS
  <2> DEFINE z == links.sons[y].now
             w == Up(y)
             v == Up(z)
  <2>1. y \in Nodes /\ Reaches(y)
    BY <1>3
  <2>2. z \in Nodes /\ links.father[z] = y
    BY <1>1, <2>1, ForestSons DEF Leaf
  <2>3. Reaches(z) /\ v = <<z>> \o w
    BY <1>1, <2>1, <2>2, ReachesSon
  <2>4. w \in Seq(Nodes)
    BY <2>1, WordFields
  <2>5. PICK j \in 1 .. Len(w) : w[j] = c
    BY <1>3
  <2>6. z \in W
    <3> HIDE DEF z, w, v
    <3>1. z \in Nodes /\ w \in Seq(Nodes) /\ v = <<z>> \o w
      BY <2>2, <2>3, <2>4
    <3>2. Len(v) = Len(w) + 1 /\ Len(w) \in Nat /\ \A i \in 1 .. Len(w) : v[i + 1] = w[i]
      BY ONLY <3>1
    <3>3. j + 1 \in 1 .. Len(v) /\ v[j + 1] = c
      BY <2>5, <3>2
    <3> QED BY <2>2, <2>3, <3>3 DEF v
  <2> QED BY <1>3, <2>2, <2>6
<1> QED BY <1>3, <1>4

\* The words are those of the leaves that the search reaches.
WordsOfAll ==
  \A t : t \in ToSet(subpaths) <=> \E l : Reaches(l) /\ Leaf(l) /\ t = Word(l)

\* The pins below the way up from x are the ids of the sons of x.
LEMMA PinsOfSons ==
  ASSUME IInv, NInv, pc = "subpaths", WordsOfAll, node[rot].node_id <= MAX_BRW_PIN_SZ,
         NEW x, Reaches(x)
  PROVE  PinsBelow(Word(x).pin) = {node[c].node_id : c \in Sons(x)}
<1> DEFINE way == Word(x).pin
           m == Len(way)
           Good(t) == t \in ToSet(subpaths) /\ Len(t.pin) > m /\ Way(t, Len(t.pin) - m + 1) = way
<1>1. PinsBelow(way) = {t.pin[Len(t.pin) - m] : t \in {y \in ToSet(subpaths) :
                                         Len(y.pin) > m /\ Way(y, Len(y.pin) - m + 1) = way}}
  BY DEF PinsBelow
<1>2. x \in Nodes /\ Forest(links)
  BY Parts DEF Reaches
<1>3. m = Len(Up(x)) /\ m \in Nat /\ m > 0 /\ Up(x) \in Seq(Nodes) /\ Up(x)[1] = x
      /\ way[1] = Byte(node[x].node_id)
  <2>1. Up(x) \in Seq(Nodes) /\ Len(Up(x)) \in Nat /\ Len(Up(x)) > 0 /\ Up(x)[1] = x
    BY <1>2, WordFields
  <2>2. m = Len(Up(x)) /\ 1 \in 1 .. Len(Up(x))
    BY <1>2, <2>1, WordFields
  <2>3. way[1] = Byte(node[Up(x)[1]].node_id)
    BY <1>2, <2>2, WordFields
  <2> QED BY <2>1, <2>2, <2>3
<1>4. \A y : Reaches(y) => y \in Nodes /\ y \in Live /\ Byte(node[y].node_id) = node[y].node_id
  <2> TAKE y
  <2> HAVE Reaches(y)
  <2>1. y \in Live /\ node[y].node_id <= node[rot].node_id
    BY ReachesLive
  <2>2. y \in Nodes /\ rot \in Nodes
    BY <2>1, SearchedTree DEF Live
  <2>3. node[y].node_id \in Nat /\ node[rot].node_id \in Nat
    BY <2>2, FieldParts, NodesFinite
  <2>4. MAX_BRW_PIN_SZ \in Nat
    BY TexTreeAssumption
  <2>5. ~(node[y].node_id > MAX_BRW_PIN_SZ)
    BY <2>1, <2>3, <2>4
  <2> QED BY <2>1, <2>2, <2>3, <2>5, ByteIs
<1> HIDE DEF way
<1>5. ASSUME NEW t, Good(t) PROVE \E c \in Sons(x) : t.pin[Len(t.pin) - m] = node[c].node_id
  <2>1. PICK l : Reaches(l) /\ Leaf(l) /\ t = Word(l)
    BY <1>5 DEF WordsOfAll
  <2> DEFINE w == Up(l)
             j == Len(w) - m
             y == w[j + 1]
             c == w[j]
  <2>2. l \in Nodes
    BY <2>1 DEF Reaches
  <2>3. Len(t.pin) = Len(w) /\ Len(w) \in Nat
    BY <2>1, <2>2, WordFields
  <2>4. j \in 1 .. Len(w) - 1 /\ j \in 1 .. Len(w) /\ j + 1 \in 1 .. Len(w)
    BY <1>3, <1>5, <2>3
  <2>5. Rises(w, l) /\ \A i \in 1 .. Len(w) : Reaches(w[i])
    BY <1>2, <2>1, ReachesLast
  <2>6. Reaches(y) /\ Reaches(c) /\ y = links.father[c]
    BY <2>4, <2>5 DEF Rises
  <2>7. Way(t, j + 1) = Word(y).pin
    BY <2>1, <2>2, <2>4, WayIs
  <2>8. Way(t, j + 1) = way
    BY <1>5, <2>3
  <2>9. Word(y).pin[1] = Byte(node[y].node_id)
    <3>1. y \in Nodes
      BY <2>6 DEF Reaches
    <3> HIDE DEF y
    <3>2. 1 \in 1 .. Len(Up(y)) /\ Up(y)[1] = y
      BY <3>1, WordFields
    <3> QED BY <3>1, <3>2, WordFields
  <2>10. node[y].node_id = node[x].node_id
    BY <1>3, <1>4, <2>6, <2>7, <2>8, <2>9
  <2>11. y = x
    BY <1>4, <2>6, <2>10, SearchedTree
  <2>12. t.pin[j] = Byte(node[c].node_id)
    BY <2>1, <2>2, <2>4, WordFields
  <2>13. c \in Sons(x) /\ t.pin[j] = node[c].node_id
    BY <1>4, <2>6, <2>11, <2>12 DEF Sons
  <2> HIDE DEF w, c
  <2> QED BY <2>3, <2>13
<1>6. ASSUME NEW c \in Sons(x) PROVE \E t : Good(t) /\ t.pin[Len(t.pin) - m] = node[c].node_id
  <2>1. c \in Nodes /\ links.father[c] = x
    BY DEF Sons, Live
  <2>2. Reaches(c) /\ Up(c) = <<c>> \o Up(x)
    BY <1>2, <2>1, ReachesSon
  <2>3. Len(Up(c)) = m + 1
    <3> DEFINE v == Up(x)
    <3>1. v \in Seq(Nodes) /\ Up(c) = <<c>> \o v /\ c \in Nodes /\ Len(v) = m
      BY <1>3, <2>1, <2>2
    <3> HIDE DEF v
    <3>2. Len(<<c>> \o v) = Len(v) + 1
      BY ONLY <3>1
    <3> QED BY <3>1, <3>2
  <2>4. PICK l : Reaches(l) /\ Leaf(l) /\ \E j \in 1 .. Len(Up(l)) : Up(l)[j] = c
    BY <2>2, LeafBelow
  <2> DEFINE w == Up(l)
             t == Word(l)
  <2>5. PICK j \in 1 .. Len(w) : w[j] = c
    BY <2>4
  <2>6. l \in Nodes
    BY <2>4 DEF Reaches
  <2>7. Len(t.pin) = Len(w) /\ Len(w) \in Nat /\ t.pin[j] = Byte(node[c].node_id)
    BY <2>5, <2>6, WordFields
  <2>8. Len(Up(w[j])) = Len(w) - j + 1
    BY <1>2, <2>6, UpRises DEF TailOf
  <2>9. Len(w) - m = j /\ j \in 1 .. Len(w) - 1 /\ j + 1 \in 1 .. Len(w)
    BY <1>3, <2>3, <2>5, <2>7, <2>8
  <2>10. w[j + 1] = x
    BY <1>2, <2>1, <2>5, <2>6, <2>9, UpRises DEF Rises
  <2>11. Way(t, j + 1) = way
    <3>1. Way(t, j + 1) = Word(w[j + 1]).pin
      BY <2>6, <2>9, WayIs
    <3> QED BY <2>10, <3>1 DEF way
  <2>12. t \in ToSet(subpaths)
    BY <2>4 DEF WordsOfAll
  <2>13. t.pin[j] = node[c].node_id
    BY <1>4, <2>2, <2>7
  <2> HIDE DEF t, w
  <2>14. Len(t.pin) - m = j /\ Len(t.pin) > m
    BY <1>3, <2>7, <2>9
  <2>15. Good(t)
    BY <2>11, <2>12, <2>14
  <2> QED BY <2>13, <2>14, <2>15
<1> DEFINE I == {node[c].node_id : c \in Sons(x)}
<1>7. PinsBelow(way) = {t.pin[Len(t.pin) - m] : t \in {y \in ToSet(subpaths) : Good(y)}}
  BY <1>1
<1> HIDE DEF Good, m
<1>8. \A t : Good(t) => t \in ToSet(subpaths)
  BY DEF Good
<1>9. PinsBelow(way) = I
  BY <1>5, <1>6, <1>7, <1>8
<1> QED BY <1>9 DEF way, I

\* The fan of a node above a leaf is how many pins there are below it.
LEMMA FansAreSons ==
  ASSUME IInv, NInv, pc = "subpaths", WordsOfAll, node[rot].node_id <= MAX_BRW_PIN_SZ,
         NEW a, Reaches(a), NEW k \in 2 .. Len(Up(a))
  PROVE  Word(a).fan[k] = Cardinality(PinsBelow(Way(Word(a), k)))
<1> DEFINE w == Up(a)
           x == w[k]
           N == Sons(x)
           I == {node[c].node_id : c \in N}
           f == [c \in N |-> node[c].node_id]
<1>1. Forest(links) /\ a \in Nodes
  BY Parts DEF Reaches
<1>2. Rises(w, a) /\ Len(w) \in Nat /\ Reaches(w[k - 1]) /\ Reaches(x)
  <2>1. Len(w) \in Nat /\ \A i \in 1 .. Len(w) : Reaches(w[i])
    BY <1>1, ReachesLast
  <2>2. k - 1 \in 1 .. Len(w) /\ k \in 1 .. Len(w)
    BY <2>1
  <2> QED BY <1>1, <2>1, <2>2, ReachesLast
<1>3. k \in 1 .. Len(w) /\ x = links.father[w[k - 1]]
  <2>1. k - 1 \in 1 .. Len(w) - 1 /\ (k - 1) + 1 = k /\ k \in 1 .. Len(w)
    BY <1>2
  <2> QED BY <1>2, <2>1 DEF Rises
<1>4. Way(Word(a), k) = Word(x).pin
  BY <1>1, <1>3, WayIs
<1>5. PinsBelow(Word(x).pin) = I
  BY <1>2, PinsOfSons
<1>6. x \in Live /\ x \in Nodes /\ node[x].node_id <= node[rot].node_id
  BY <1>2, ReachesLive DEF Live
<1>7. ~Leaf(x)
  <2>1. w[k - 1] \in Nodes
    BY <1>2 DEF Reaches
  <2> QED BY <1>1, <1>3, <1>6, <2>1, ForestSons DEF Leaf
<1>8. node[x].n_fan = Cardinality(N) /\ \A c \in N : c \in Live /\ node[c].node_id < node[x].node_id
  BY <1>6, <1>7, SearchedTree DEF Counts, Sons
<1>9. \A y \in Nodes : node[y].node_id \in Nat /\ node[y].n_fan \in Nat
  BY FieldParts, NodesFinite
<1>10. N \in SUBSET Nodes /\ IsFiniteSet(N)
  <2>1. N \in SUBSET Nodes
    BY <1>8 DEF Live
  <2> QED BY <2>1, SubsetOfNodes
<1>11. Word(a).fan[k] = Byte(node[x].n_fan)
  BY <1>1, <1>3, WordFields
<1>12. MAX_BRW_PIN_SZ \in Nat /\ rot \in Nodes
  BY TexTreeAssumption, SearchedTree DEF Live
<1>13. \A c \in N : c \in Live /\ c \in Nodes /\ node[c].node_id \in Nat /\ node[c].node_id # 0
  BY <1>8, <1>9, <1>10, SearchedTree DEF Numbered
<1>14. f \in Bijection(N, I)
  <2>1. \A c, d \in N : f[c] = f[d] => c = d
    BY <1>13, SearchedTree
  <2>2. \A i \in I : \E c \in N : f[c] = i
    OBVIOUS
  <2>3. f \in [N -> I]
    OBVIOUS
  <2> HIDE DEF f, N, I
  <2> QED BY <2>1, <2>2, <2>3 DEF Bijection, Injection, Surjection, IsInjective
<1>15. Cardinality(I) = Cardinality(N)
  <2> HIDE DEF f, I, N
  <2>1. ExistsBijection(N, I)
    BY <1>14 DEF ExistsBijection
  <2> QED BY <1>10, <2>1, FS_Bijection
<1> DEFINE M == MAX_BRW_PIN_SZ
           T == 1 .. M
<1>16. Cardinality(N) <= M
  <2>1. \A c \in N : node[c].node_id \in T
    <3> TAKE c \in N
    <3> DEFINE i == node[c].node_id
               j == node[x].node_id
               r == node[rot].node_id
    <3>1. i \in Nat /\ i # 0 /\ j \in Nat /\ r \in Nat /\ i < j /\ j <= r /\ r <= M /\ M \in Nat
      BY <1>6, <1>8, <1>9, <1>12, <1>13
    <3> HIDE DEF i, j, r, M
    <3>2. i \in T
      BY <3>1
    <3> QED BY <3>2 DEF i
  <2>2. f \in Injection(N, T)
    <3>1. f \in [N -> T]
      BY <2>1
    <3>2. \A c, d \in N : f[c] = f[d] => c = d
      BY <1>13, SearchedTree
    <3> HIDE DEF f, N, T
    <3> QED BY <3>1, <3>2 DEF Injection, IsInjective
  <2>3. IsFiniteSet(T) /\ Cardinality(T) = M
    <3>1. M \in Int /\ 1 \in Int /\ (1 > M => M = 0) /\ M - 1 + 1 = M
      BY <1>12
    <3> HIDE DEF M
    <3> QED BY <3>1, FS_Interval
  <2> HIDE DEF f, N, T, M
  <2>4. Cardinality(N) <= Cardinality(T)
    BY <2>2, <2>3, FS_Injection
  <2> QED BY <2>3, <2>4
<1>17. ~(node[x].n_fan > M) /\ node[x].n_fan \in Nat
  <2> DEFINE q == node[x].n_fan
  <2>1. q \in Nat /\ q <= M /\ M \in Nat
    BY <1>6, <1>8, <1>9, <1>12, <1>16
  <2> HIDE DEF q, M
  <2>2. ~(q > M)
    BY <2>1
  <2> QED BY <2>1, <2>2 DEF q
<1>18. Byte(node[x].n_fan) = node[x].n_fan
  BY <1>17, ByteIs
<1> HIDE DEF N, I, f, w, x
<1> QED BY <1>4, <1>5, <1>8, <1>11, <1>15, <1>18

\* The fans of the words count the leaves that the words stand for.
LEMMA SumOfFans ==
  ASSUME IInv, NEW D, NEW q, WordsOf(D, q)
  PROVE  LeavesOf(subpaths) = Cardinality(Pairs(node, {x \in D : Leaf(x)}))
<1> DEFINE N == Len(q)
           Q(k) == {q[i] : i \in 1 .. k}
           v == [k \in 1 .. N |-> subpaths[k].fan[1]]
           Sums(g) == g = [k \in 0 .. Len(subpaths) |-> IF k = 0 THEN 0 ELSE g[k - 1] + subpaths[k].fan[1]]
           f == CHOOSE g : Sums(g)
<1>1. /\ q \in Seq(Nodes) /\ D \subseteq Live
      /\ \A i, j \in 1 .. N : q[i] = q[j] => i = j
      /\ \A x : (\E i \in 1 .. N : q[i] = x) <=> x \in D /\ Leaf(x)
      /\ \A i \in 1 .. N : ~TooLarge(q[i])
      /\ subpaths = [i \in 1 .. N |-> Word(q[i])]
  BY DEF WordsOf
<1>2. N \in Nat /\ Len(subpaths) = N /\ \A i \in 1 .. N : q[i] \in Nodes /\ subpaths[i] = Word(q[i])
  BY <1>1
<1>3. \A i \in 1 .. N : subpaths[i].fan[1] = node[q[i]].n_fan /\ node[q[i]].n_fan \in 0 .. MaxNodes
                        /\ node[q[i]].n_fan \in Nat
  <2> TAKE i \in 1 .. N
  <2> DEFINE x == q[i]
  <2>1. x \in Nodes /\ subpaths[i] = Word(x) /\ ~(node[x].n_fan > MAX_BRW_PIN_SZ)
    BY <1>1, <1>2 DEF TooLarge
  <2> HIDE DEF x
  <2>2. node[x].n_fan \in 0 .. MaxNodes /\ node[x].n_fan \in Nat
    BY <2>1, FieldParts, NodesFinite
  <2>3. 1 \in 1 .. Len(Up(x)) /\ Up(x)[1] = x
    BY <2>1, WordFields
  <2>4. Word(x).fan[1] = Byte(node[x].n_fan)
    BY <2>1, <2>3, WordFields
  <2>5. Byte(node[x].n_fan) = node[x].n_fan
    BY <2>1, <2>2, ByteIs
  <2> QED BY <2>1, <2>2, <2>4, <2>5 DEF x
<1>4. v \in [1 .. N -> Nat] /\ \A k \in 1 .. N : v[k] = subpaths[k].fan[1]
  BY <1>3
<1> HIDE DEF v
<1>5. PICK g \in [0 .. N -> Nat] : g[0] = 0 /\ \A k \in 1 .. N : g[k] = g[k - 1] + v[k]
  BY <1>2, <1>4, SumExists
<1>6. Sums(g)
  <2>1. \A k \in 0 .. N : g[k] = IF k = 0 THEN 0 ELSE g[k - 1] + subpaths[k].fan[1]
    <3> TAKE k \in 0 .. N
    <3>1. k = 0 \/ k \in 1 .. N
      BY <1>2
    <3> QED BY <1>4, <1>5, <3>1
  <2>2. g = [k \in 0 .. N |-> g[k]]
    BY <1>5
  <2> QED BY <1>2, <2>1, <2>2
<1>7. Sums(f)
  <2> HIDE DEF Sums
  <2> QED BY <1>6
<1>8. LeavesOf(subpaths) = f[N]
  BY <1>2 DEF LeavesOf
<1> HIDE DEF f
<1>9. \A k \in 0 .. N : f[k] = IF k = 0 THEN 0 ELSE f[k - 1] + subpaths[k].fan[1]
  BY <1>2, <1>7, Zenon
<1> DEFINE S == {k \in Nat : k \in 0 .. N => f[k] = Cardinality(Pairs(node, Q(k)))}
<1>10. 0 \in S
  <2>1. Q(0) = {}
    OBVIOUS
  <2>2. Pairs(node, {}) = {}
    BY DEF Pairs
  <2>3. f[0] = 0
    BY <1>2, <1>9
  <2> HIDE DEF Q
  <2> QED BY <2>1, <2>2, <2>3, FS_EmptySet
<1>11. ASSUME NEW k \in Nat, k \in S PROVE k + 1 \in S
  <2> SUFFICES ASSUME k + 1 \in 0 .. N PROVE f[k + 1] = Cardinality(Pairs(node, Q(k + 1)))
    OBVIOUS
  <2> DEFINE x == q[k + 1]
             W == Q(k)
  <2>1. k \in 0 .. N /\ k + 1 \in 1 .. N /\ k + 1 # 0 /\ (k + 1) - 1 = k /\ \A i \in 1 .. k : i \in 1 .. N /\ i # k + 1
    BY <1>2
  <2>2. Q(k + 1) = W \cup {x}
    BY <1>2
  <2>3. W \in SUBSET Nodes /\ x \in Nodes \ W
    BY <1>1, <1>2, <2>1
  <2>4. node[x].n_fan \in 0 .. MaxNodes /\ subpaths[k + 1].fan[1] = node[x].n_fan
    BY <1>3, <2>1
  <2>5. f[k + 1] = f[k] + node[x].n_fan
    BY <1>9, <2>1, <2>4
  <2>6. f[k] = Cardinality(Pairs(node, W))
    BY <1>11, <2>1
  <2> HIDE DEF W, x, Q
  <2>7. Cardinality(Pairs(node, W \cup {x})) = Cardinality(Pairs(node, W)) + node[x].n_fan
    BY <2>3, <2>4, PairsNext
  <2> QED BY <2>2, <2>5, <2>6, <2>7
<1>12. f[N] = Cardinality(Pairs(node, Q(N)))
  <2> HIDE DEF S
  <2>1. \A k \in Nat : k \in S
    BY <1>10, <1>11, SetInduction
  <2> QED BY <1>2, <2>1 DEF S
<1>13. Q(N) = {x \in D : Leaf(x)}
  BY <1>1
<1> QED BY <1>8, <1>12, <1>13

\* A search that is over has visited what it reaches.
LEMMA SearchedAll ==
  ASSUME IInv, NInv, pc = "subpaths", places = <<>>, NEW D, NEW q, WordsOf(D, q)
  PROVE  \A x : x \in D <=> Reaches(x)
<1>1. Forest(links)
  BY Parts
<1>2. /\ \A y \in Nodes : links.father[y] \in D => y \in D
      /\ rot \in D /\ \A x \in D : Reaches(x)
  BY DEF WordsOf, Visited, Behind
<1> DEFINE B == {x \in Nodes : Reaches(x) /\ x \notin D}
<1>3. B = {}
  <2> SUFFICES ASSUME B # {} PROVE FALSE
    OBVIOUS
  <2>1. B \in SUBSET Nodes
    OBVIOUS
  <2>2. PICK x \in B : links.father[x] \notin B
    <3> HIDE DEF B
    <3> QED BY <1>1, <2>1, ForestTop
  <2>3. x # rot
    BY <1>2, <2>2
  <2>4. links.father[x] \in Nodes /\ Reaches(links.father[x])
    BY <1>1, <2>2, <2>3, ReachesFather
  <2> QED BY <1>2, <2>2, <2>4
<1> QED BY <1>2, <1>3 DEF Reaches

\* What the words of a search that is over say.
LEMMA SearchOver ==
  ASSUME IInv, NInv, pc = "subpaths", places = <<>>, NEW D, NEW q, WordsOf(D, q)
  PROVE  /\ \A l : Reaches(l) /\ Leaf(l) => ~TooLarge(l)
         /\ subpaths # <<>> /\ Len(subpaths) = Cardinality({l \in Live : Leaf(l) /\ Reaches(l)})
         /\ \A i \in DOMAIN subpaths : Len(subpaths[i].pin) < MAX_TEX_TR_DEPTH
         /\ \A i, j \in DOMAIN subpaths : subpaths[i].pin[1] = subpaths[j].pin[1] => i = j
         /\ NamesGrouped(NameSorted(subpaths))
         /\ rot = root => LeavesOf(subpaths) = tot_brw
         /\ WordsOfAll
<1> DEFINE N == Len(q)
           U == {l \in Live : Leaf(l) /\ Reaches(l)}
<1>1. /\ q \in Seq(Nodes) /\ D \subseteq Live
      /\ \A i, j \in 1 .. N : q[i] = q[j] => i = j
      /\ \A x : (\E i \in 1 .. N : q[i] = x) <=> x \in D /\ Leaf(x)
      /\ \A i \in 1 .. N : ~TooLarge(q[i])
      /\ subpaths = [i \in 1 .. N |-> Word(q[i])]
  BY DEF WordsOf
<1>2. N \in Nat /\ Len(subpaths) = N /\ DOMAIN subpaths = 1 .. N
      /\ \A i \in 1 .. N : q[i] \in Nodes /\ subpaths[i] = Word(q[i])
  BY <1>1
<1>3. \A x : x \in D <=> Reaches(x)
  BY SearchedAll
<1>4. \A x : (\E i \in 1 .. N : q[i] = x) <=> Reaches(x) /\ Leaf(x)
  BY <1>1, <1>3
<1>5. \A x : x \in U <=> Reaches(x) /\ Leaf(x)
  BY ReachesLive
<1>6. \A l : Reaches(l) /\ Leaf(l) => ~TooLarge(l)
  BY <1>1, <1>4
<1>7. N > 0
  <2>1. Reaches(rot)
    BY Parts, ReachesRoot, SearchedTree DEF Live
  <2>2. \E l : Reaches(l) /\ Leaf(l)
    BY <2>1, LeafBelow
  <2>3. \E i \in 1 .. N : TRUE
    BY <1>4, <2>2
  <2> QED BY <1>2, <2>3
<1>8. N = Cardinality(U)
  <2> DEFINE I == 1 .. N
             f == [i \in I |-> q[i]]
  <2>1. f \in Bijection(I, U)
    <3>1. \A i, j \in I : f[i] = f[j] => i = j
      BY <1>1
    <3>2. \A x \in U : \E i \in I : f[i] = x
      BY <1>4, <1>5
    <3>3. f \in [I -> U]
      BY <1>4, <1>5
    <3> HIDE DEF f, I, U
    <3> QED BY <3>1, <3>2, <3>3 DEF Bijection, Injection, Surjection, IsInjective
  <2>2. IsFiniteSet(I) /\ Cardinality(I) = N
    <3>1. N \in Int /\ 1 \in Int /\ ~(1 > N) /\ N - 1 + 1 = N
      BY <1>2, <1>7
    <3> HIDE DEF N
    <3> QED BY <3>1, FS_Interval
  <2> HIDE DEF f, I, U
  <2>3. ExistsBijection(I, U)
    BY <2>1 DEF ExistsBijection
  <2>4. Cardinality(U) = Cardinality(I)
    BY <2>2, <2>3, FS_Bijection
  <2> QED BY <2>2, <2>4
<1>9. \A i \in 1 .. N : Len(subpaths[i].pin) < MAX_TEX_TR_DEPTH
  <2> TAKE i \in 1 .. N
  <2>1. q[i] \in Nodes /\ subpaths[i] = Word(q[i]) /\ ~(Len(Up(q[i])) >= MAX_TEX_TR_DEPTH)
    BY <1>1, <1>2 DEF TooLarge
  <2>2. Len(subpaths[i].pin) = Len(Up(q[i])) /\ Len(Up(q[i])) \in Nat
    BY <2>1, WordFields
  <2>3. MAX_TEX_TR_DEPTH \in Nat
    BY TexTreeAssumption
  <2> QED BY <2>1, <2>2, <2>3
<1>10. \A i \in 1 .. N : subpaths[i].pin[1] = node[q[i]].node_id /\ q[i] \in Live
  <2> TAKE i \in 1 .. N
  <2> DEFINE x == q[i]
  <2>1. x \in Nodes /\ subpaths[i] = Word(x) /\ ~(node[x].node_id > MAX_BRW_PIN_SZ) /\ x \in Live
    BY <1>1, <1>2 DEF TooLarge
  <2> HIDE DEF x
  <2>2. node[x].node_id \in Nat
    BY <2>1, FieldParts, NodesFinite
  <2>3. 1 \in 1 .. Len(Up(x)) /\ Up(x)[1] = x
    BY <2>1, WordFields
  <2>4. Word(x).pin[1] = Byte(node[x].node_id)
    BY <2>1, <2>3, WordFields
  <2>5. Byte(node[x].node_id) = node[x].node_id
    BY <2>1, <2>2, ByteIs
  <2> QED BY <2>1, <2>4, <2>5 DEF x
<1>11. \A i, j \in 1 .. N : subpaths[i].pin[1] = subpaths[j].pin[1] => i = j
  BY <1>1, <1>10, SearchedTree
<1>12. NamesGrouped(NameSorted(subpaths))
  <2> DEFINE T == {Word(x) : x \in Nodes}
  <2>1. AreWords(T)
    <3>1. ASSUME NEW x \in Nodes PROVE Word(x).symbol_id \in Symbols /\ Word(x).fan[1] \in Nat
      <4>1. 1 \in 1 .. Len(Up(x))
        BY WordFields
      <4> QED BY <4>1, WordFields
    <3> QED BY <3>1 DEF AreWords
  <2>2. subpaths \in Seq(T)
    <3>1. \A i \in 1 .. N : Word(q[i]) \in T
      BY <1>2
    <3> HIDE DEF T
    <3> QED BY <1>1, <1>2, <3>1
  <2> HIDE DEF T
  <2> QED BY <2>1, <2>2, SortGroups
<1>13. ASSUME rot = root PROVE LeavesOf(subpaths) = tot_brw
  <2>1. LeavesOf(subpaths) = Cardinality(Pairs(node, {x \in D : Leaf(x)}))
    BY SumOfFans
  <2>2. Live \subseteq D
    <3>1. Behind(links, <<>>, D) /\ stack[1] \in D
      BY <1>13 DEF WordsOf, Visited, root
    <3> QED BY <3>1, WalkedAll DEF Traversed
  <2>3. {x \in D : Leaf(x)} = Leaves
    BY <1>1, <2>2 DEF Leaves
  <2> QED BY <2>1, <2>3, SearchedTree
<1>14. WordsOfAll
  <2>1. \A t : t \in ToSet(subpaths) <=> \E i \in 1 .. N : t = Word(q[i])
    BY <1>2 DEF ToSet
  <2> QED BY <1>4, <2>1 DEF WordsOfAll
<1>15. subpaths # <<>>
  BY <1>2, <1>7
<1> QED BY <1>2, <1>6, <1>8, <1>9, <1>11, <1>12, <1>13, <1>14, <1>15

\* tex_tr_subpaths() generates a branch word for every leaf below the root of the
\* search, or reports the error; they fit their arrays, are all different, can be
\* grouped by their symbols, and have what is needed to tell the tree.
THEOREM WordsOfLeaves == Spec => []SubpathsOfLeaves
<1>1. IInv /\ NInv /\ WInv => SubpathsOfLeaves
  <2> SUFFICES ASSUME IInv, NInv, WInv PROVE SubpathsOfLeaves
    OBVIOUS
  <2>1. pc # "fatal"
    BY DEF IInv, Control, Phases
  <2>2. CASE ~Over("subpaths")
    BY <2>1, <2>2 DEF SubpathsOfLeaves
  <2>3. CASE Over("subpaths")
    <3>1. pc = "subpaths" /\ places = <<>>
      BY <2>3 DEF Over
    <3>2. /\ err \in BOOLEAN /\ (err => Exceeding) /\ (~err => \E D, q : WordsOf(D, q))
      BY <3>1 DEF WInv
    <3>3. \A x : x \in Under <=> Reaches(x) /\ Leaf(x)
      <4> TAKE x
      <4>1. ASSUME x \in Live PROVE rot \in ToSet(Up(x)) <=> Reaches(x)
        <5>1. x \in Nodes
          BY <4>1 DEF Live
        <5>2. Up(x) \in Seq(Nodes)
          BY <5>1, WordFields
        <5>3. ToSet(Up(x)) = {Up(x)[i] : i \in 1 .. Len(Up(x))}
          BY <5>2 DEF ToSet
        <5> QED BY <5>1, <5>3 DEF Reaches
      <4>2. Reaches(x) => x \in Live
        BY <3>1, ReachesLive
      <4> QED BY <4>1, <4>2 DEF Under
    <3>4. Under = {l \in Live : Leaf(l) /\ Reaches(l)}
      BY <3>1, <3>3, ReachesLive
    <3>5. (\E l \in Under : TooLarge(l)) <=>
             \E l \in Under : \/ node[l].node_id > MAX_BRW_PIN_SZ \/ node[l].n_fan > MAX_BRW_PIN_SZ
                              \/ Len(Up(l)) >= MAX_TEX_TR_DEPTH
      BY DEF TooLarge
    <3>6. CASE err
      <4>1. \E l \in Under : TooLarge(l)
        BY <3>2, <3>3, <3>6 DEF Exceeding
      <4> QED BY <2>1, <3>2, <3>5, <3>6, <4>1 DEF SubpathsOfLeaves
    <3>7. CASE ~err
      <4>1. PICK D, q : WordsOf(D, q)
        BY <3>2, <3>7
      <4>2. /\ \A l : Reaches(l) /\ Leaf(l) => ~TooLarge(l)
            /\ subpaths # <<>> /\ Len(subpaths) = Cardinality({l \in Live : Leaf(l) /\ Reaches(l)})
            /\ \A i \in DOMAIN subpaths : Len(subpaths[i].pin) < MAX_TEX_TR_DEPTH
            /\ \A i, j \in DOMAIN subpaths : subpaths[i].pin[1] = subpaths[j].pin[1] => i = j
            /\ NamesGrouped(NameSorted(subpaths))
            /\ rot = root => LeavesOf(subpaths) = tot_brw
            /\ WordsOfAll
        BY <3>1, <4>1, SearchOver
      <4>3. ~\E l \in Under : TooLarge(l)
        BY <3>3, <4>2
      <4>4. node[rot].node_id <= MAX_BRW_PIN_SZ =>
              \A s \in ToSet(subpaths) : \A k \in 2 .. Len(s.pin) :
                s.fan[k] = Cardinality(PinsBelow(Way(s, k)))
        <5> SUFFICES ASSUME node[rot].node_id <= MAX_BRW_PIN_SZ, NEW s \in ToSet(subpaths), NEW k \in 2 .. Len(s.pin)
                     PROVE  s.fan[k] = Cardinality(PinsBelow(Way(s, k)))
          OBVIOUS
        <5>1. PICK a : Reaches(a) /\ Leaf(a) /\ s = Word(a)
          BY <4>2 DEF WordsOfAll
        <5>2. a \in Nodes
          BY <5>1 DEF Reaches
        <5>3. k \in 2 .. Len(Up(a))
          BY <5>1, <5>2, WordFields
        <5> QED BY <3>1, <4>2, <5>1, <5>3, FansAreSons
      <4> QED BY <2>1, <3>2, <3>4, <3>5, <3>7, <4>2, <4>3, <4>4 DEF SubpathsOfLeaves
    <3> QED BY <3>2, <3>6, <3>7
  <2> QED BY <2>2, <2>3
<1> QED BY <1>1, TexInvariant, NumberingInvariant, WordsInvariant, PTL

=============================================================================
