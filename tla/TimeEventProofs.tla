--------------------------- MODULE TimeEventProofs ---------------------------
(***************************************************************************)
(* Proofs about time events, for any events and handlers, any tick and any *)
(* width of the clock: the heap stays right (HeapStaysRight) and           *)
(* implements Timers (HeapIsTimers).                                       *)
(*   Part 1: moving nodes along a way.  Part 2: the order of the heap.     *)
(*   Part 3: insertion and removal.  Part 4: times that wrap around.       *)
(*   Part 5: the invariant.  Part 6: what the actions do.                  *)
(*   Part 7: the heap implements Timers.                                   *)
(* The inductive invariant is HeapIInv: the heap is in order and indexed,  *)
(* the next tick is at most one tick, rounded up, ahead, and what cycsta   *)
(* and evttim say agrees with the heap.  The order is one of times counted *)
(* from current_time; it survives a tick because current_time moves only   *)
(* to where no event is due any more (RootIsFirst, RelFrom).               *)
(***************************************************************************)
EXTENDS TimeEvent, FiniteSetTheorems, TLAPS

-----------------------------------------------------------------------------
(* Part 1: moving nodes along a way. *)

(* EVTTIM, and a node of the heap. *)
EVTTIM == 0 .. W - 1
Node == [time : EVTTIM, tmevtb : Event]

(* The way of an empty node that starts at i and ends at e: every node on  *)
(* it but the first is where exactly one other goes, and rank falls.       *)
Way(T, from, rank, i, e) ==
  /\ i \in T /\ e \in T
  /\ \A j \in T : j # i => rank[j] < rank[i]
  /\ e \notin DOMAIN from
  /\ \A j \in T : j # e => j \in DOMAIN from /\ rank[e] < rank[j]
  /\ \A j \in T : j # e => from[j] \in T /\ from[j] # i /\ rank[from[j]] < rank[j]
  /\ \A k \in T : k # i => \E j \in T : j # e /\ from[j] = k
  /\ \A j, k \in T : j # e /\ k # e /\ from[j] = from[k] => j = k

(* A nonempty set of naturals has a least element. *)
LEMMA LeastNatural ==
  ASSUME NEW S, S \subseteq Nat, S # {}
  PROVE  \E m \in S : \A n \in S : m <= n
<1> DEFINE T == {1 .. n : n \in S}
           R == StrictSubsetOrdering(Nat)
<1>1. T \subseteq FiniteSubsetsOf(Nat)
  BY FS_Interval DEF FiniteSubsetsOf
<1>2. T # {}
  OBVIOUS
<1>3. \E x \in T : \A y \in T : ~(<<y, x>> \in R)
  BY <1>1, <1>2, FS_StrictSubsetOrderingWellFounded, WFMin
<1>4. PICK m \in S : \A n \in S : ~(<<1 .. n, 1 .. m>> \in R)
  BY <1>3
<1>5. ASSUME NEW n \in S, n < m
      PROVE  <<1 .. n, 1 .. m>> \in R
  <2>1. n \in Nat /\ m \in Nat
    OBVIOUS
  <2>2. 1 .. n \subseteq 1 .. m /\ m \in 1 .. m /\ ~(m \in 1 .. n)
    BY <2>1, <1>5
  <2>3. 1 .. n \in SUBSET Nat /\ 1 .. m \in SUBSET Nat
    BY <2>1
  <2> QED
    BY <2>2, <2>3 DEF StrictSubsetOrdering
<1>6. ASSUME NEW n \in S
      PROVE  m <= n
  <2>1. ~(n < m)
    BY <1>4, <1>5
  <2> QED
    BY <2>1
<1> QED
  BY <1>6

(* A trail along which rank falls is a way: it never forks, never returns  *)
(* and has one end.                                                        *)
LEMMA TrailIsWay ==
  ASSUME NEW h, NEW from, NEW i \in DOMAIN h.node, NEW rank,
         DOMAIN from \subseteq DOMAIN h.node,
         \A j \in DOMAIN from : from[j] \in DOMAIN h.node,
         \A j \in DOMAIN h.node : rank[j] \in Nat,
         \A j \in DOMAIN from : rank[from[j]] < rank[j]
  PROVE  /\ trail(h, from, i) \subseteq DOMAIN h.node
         /\ \E e : Way(trail(h, from, i), from, rank, i, e)
<1> DEFINE P == DOMAIN h.node
           D == DOMAIN from
           T(k) == trail(h, from, k)
           closed(S, k) == k \in S /\ \A j \in S \cap D : from[j] \in S
<1>1. ASSUME NEW k \in P PROVE T(k) \subseteq P /\ k \in T(k)
  BY DEF trail
<1>2. ASSUME NEW k \in P, NEW S \in SUBSET P, closed(S, k)
      PROVE  T(k) \subseteq S
  BY <1>2 DEF trail
<1>3. ASSUME NEW k \in P, NEW j \in T(k), j \in D PROVE from[j] \in T(k)
  <2>1. from[j] \in P
    BY <1>3
  <2>2. ASSUME NEW S \in SUBSET P, closed(S, k) PROVE from[j] \in S
    <3>1. j \in S
      BY <2>2, <1>2
    <3> QED BY <3>1, <1>3, <2>2
  <2> QED BY <2>1, <2>2 DEF trail
<1>4. ASSUME NEW k \in P, NEW j \in T(k)
      PROVE  j = k \/ \E l \in T(k) : l \in D /\ from[l] = j
  <2> SUFFICES ASSUME j # k, ~\E l \in T(k) : l \in D /\ from[l] = j PROVE FALSE
    OBVIOUS
  <2>1. closed(T(k) \ {j}, k)
    BY <1>1, <1>3
  <2>2. T(k) \subseteq T(k) \ {j}
    BY <2>1, <1>1, <1>2
  <2> QED BY <2>2
<1>5. ASSUME NEW k \in P, NEW j \in T(k) PROVE j = k \/ rank[j] < rank[k]
  <2> DEFINE S == {l \in P : l = k \/ rank[l] < rank[k]}
  <2>1. closed(S, k)
    <3>1. ASSUME NEW l \in S, l \in D PROVE from[l] \in S
      <4>1. from[l] \in P /\ rank[from[l]] < rank[l]
        BY <3>1
      <4>2. rank[from[l]] \in Nat /\ rank[l] \in Nat /\ rank[k] \in Nat
        BY <4>1
      <4> QED BY <4>1, <4>2
    <3> QED BY <3>1
  <2>2. T(k) \subseteq S
    BY <2>1, <1>2
  <2> QED BY <2>2
<1>6. ASSUME NEW k \in P, k \in D, NEW j \in T(k) PROVE j = k \/ j \in T(from[k])
  <2>0. from[k] \in P
    BY <1>6
  <2> DEFINE S == {k} \cup T(from[k])
  <2>1. closed(S, k)
    BY <2>0, <1>1, <1>3, <1>6
  <2>2. S \subseteq P
    BY <2>0, <1>1
  <2> QED BY <2>1, <2>2, <1>2
<1>7. ASSUME NEW k \in P, k \notin D, NEW j \in T(k) PROVE j = k
  <2>1. closed({k}, k)
    BY <1>7
  <2> QED BY <2>1, <1>2
<1>8. ASSUME NEW k \in T(i), NEW j \in T(i) PROVE j \in T(k) \/ k \in T(j)
  <2> DEFINE S == {l \in T(i) : \A m \in T(i) : m \in T(l) \/ l \in T(m)}
  <2>1. i \in S
    BY <1>1
  <2>2. ASSUME NEW l \in S, l \in D PROVE from[l] \in S
    <3>1. l \in P /\ from[l] \in P /\ from[l] \in T(i)
      BY <2>2, <1>1, <1>3
    <3>2. ASSUME NEW m \in T(i) PROVE m \in T(from[l]) \/ from[l] \in T(m)
      <4>0. m \in P
        BY <1>1
      <4>1. CASE m \in T(l)
        <5>1. CASE m = l
          BY <5>1, <3>1, <1>1, <1>3, <2>2
        <5>2. CASE m # l
          BY <5>2, <4>1, <3>1, <1>6, <2>2
        <5> QED BY <5>1, <5>2
      <4>2. CASE l \in T(m)
        BY <4>0, <4>2, <1>3, <2>2
      <4> QED BY <4>1, <4>2
    <3> QED BY <3>1, <3>2
  <2>3. S \subseteq P
    BY <1>1
  <2>4. T(i) \subseteq S
    BY <2>1, <2>2, <2>3, <1>2
  <2> QED BY <2>4
<1>9. PICK e \in T(i) : \A j \in T(i) : rank[e] <= rank[j]
  <2> DEFINE R == {rank[j] : j \in T(i)}
  <2>1. R \subseteq Nat /\ R # {}
    BY <1>1
  <2>2. PICK m \in R : \A n \in R : m <= n
    BY <2>1, LeastNatural
  <2> QED BY <2>2
<1>10. e \notin D
  <2> SUFFICES ASSUME e \in D PROVE FALSE
    OBVIOUS
  <2>1. from[e] \in T(i) /\ rank[from[e]] < rank[e]
    BY <1>3
  <2>2. rank[from[e]] \in Nat /\ rank[e] \in Nat
    BY <2>1, <1>1
  <2> QED BY <2>1, <2>2, <1>9
<1>11. ASSUME NEW j \in T(i), j # e PROVE j \in D /\ rank[e] < rank[j]
  <2>1. j \in P /\ e \in P
    BY <1>1
  <2>2. e \in T(j)
    <3>1. j \in T(e) \/ e \in T(j)
      BY <1>8
    <3> QED BY <3>1, <2>1, <1>7, <1>10, <1>11
  <2> QED BY <2>1, <2>2, <1>5, <1>7, <1>11
<1>12. ASSUME NEW j \in T(i), j # e
       PROVE  from[j] \in T(i) /\ from[j] # i /\ rank[from[j]] < rank[j]
  <2>1. j \in D /\ j \in P
    BY <1>11, <1>12, <1>1
  <2>2. from[j] \in T(i) /\ rank[from[j]] < rank[j]
    BY <2>1, <1>3
  <2>3. j = i \/ rank[j] < rank[i]
    BY <1>5
  <2>4. rank[j] \in Nat /\ rank[i] \in Nat /\ rank[from[j]] \in Nat
    BY <2>1, <2>2, <1>1
  <2> QED BY <2>2, <2>3, <2>4
<1>13. ASSUME NEW j \in T(i), NEW k \in T(i), j # e, k # e, from[j] = from[k], k \in T(j)
       PROVE  j = k
  <2> SUFFICES ASSUME j # k PROVE FALSE
    OBVIOUS
  <2>1. j \in D /\ k \in D /\ j \in P /\ k \in P
    BY <1>11, <1>13, <1>1
  <2>2. k \in T(from[k])
    BY <2>1, <1>6, <1>13
  <2>3. from[k] \in P /\ rank[from[k]] < rank[k]
    BY <2>1
  <2>4. k = from[k] \/ rank[k] < rank[from[k]]
    BY <2>2, <2>3, <1>5
  <2>5. rank[k] \in Nat /\ rank[from[k]] \in Nat
    BY <2>1, <2>3
  <2> QED BY <2>3, <2>4, <2>5
<1>14. \A j, k \in T(i) : j # e /\ k # e /\ from[j] = from[k] => j = k
  BY <1>8, <1>13
<1>15. \A k \in T(i) : k # i => \E j \in T(i) : j # e /\ from[j] = k
  BY <1>4, <1>10
<1>16. \A j \in T(i) : j # i => rank[j] < rank[i]
  BY <1>5
<1> HIDE DEF T
<1>17. Way(T(i), from, rank, i, e)
  BY <1>1, <1>9, <1>10, <1>11, <1>12, <1>14, <1>15, <1>16 DEF Way
<1> QED BY <1>1, <1>17 DEF T

(* The heap is well formed as data. *)
HeapType(h) ==
  /\ h.node \in Seq(Node)
  /\ h.index \in [Event -> Nat]
  /\ h = [node |-> h.node, index |-> h.index]

(* Every block of the first m nodes, that at i aside, knows its position,  *)
(* and none of them is the block e.                                        *)
IndexBut(h, m, i, e) ==
  \A j \in 1 .. m : j # i =>
     h.index[h.node[j].tmevtb] = j /\ h.node[j].tmevtb # e

(* The nodes of the way move by one and n takes the place at its end. *)
Moved(node, new, m, T, from, e, n) ==
  \A j \in 1 .. m : new[j] = IF j \notin T THEN node[j]
                             ELSE IF j # e THEN node[from[j]] ELSE n

(* Of the first m nodes of h all but node i are kept, and n is added, in   *)
(* r; every block knows its position.                                      *)
Kept(h, m, i, n, r) ==
  /\ HeapType(r) /\ Len(r.node) = Len(h.node)
  /\ \A j \in 1 .. m : r.index[r.node[j].tmevtb] = j
  /\ \A k \in 1 .. m : k # i => \E j \in 1 .. m : r.node[j] = h.node[k]
  /\ \E j \in 1 .. m : r.node[j] = n
  /\ \A j \in 1 .. m : \/ r.node[j] = n
                       \/ \E k \in 1 .. m : k # i /\ r.node[j] = h.node[k]

(* Placing n on a way within the first m positions keeps every node but    *)
(* that at the start i, and all blocks know their position.                *)
LEMMA PlaceKeeps ==
  ASSUME NEW h, HeapType(h), NEW m \in 0 .. Len(h.node), NEW i \in 1 .. m,
         NEW n \in Node, NEW from, NEW rank, NEW e,
         trail(h, from, i) \subseteq 1 .. m,
         Way(trail(h, from, i), from, rank, i, e),
         IndexBut(h, m, i, n.tmevtb),
         NEW r, r = place(h, from, i, n)
  PROVE  /\ Kept(h, m, i, n, r)
         /\ Moved(h.node, r.node, m, trail(h, from, i), from, e, n)
<1> DEFINE T == trail(h, from, i)
           node == [j \in DOMAIN h.node |->
                      IF j \notin T THEN h.node[j]
                      ELSE IF j \in DOMAIN from THEN h.node[from[j]] ELSE n]
           at(f) == {j \in T : node[j].tmevtb = f}
<1>0. /\ h.node \in Seq(Node) /\ h.index \in [Event -> Nat]
      /\ DOMAIN h.node = 1 .. Len(h.node) /\ Len(h.node) \in Nat
  BY DEF HeapType
<1>1. /\ \A j \in 1 .. Len(h.node) : h.node[j] \in Node
      /\ \A j \in 1 .. m : h.node[j].tmevtb \in Event
      /\ n.tmevtb \in Event
  <2>1. \A j \in 1 .. Len(h.node) : h.node[j] \in Node
    BY <1>0
  <2>2. \A j \in 1 .. m : j \in 1 .. Len(h.node)
    BY <1>0
  <2>3. \A x \in Node : x.tmevtb \in Event
    BY DEF Node
  <2> QED BY <2>1, <2>2, <2>3
<1>2. \A j \in T : j # e => from[j] \in T /\ from[j] \in 1 .. m
  BY DEF Way
<1>3. /\ r.node = node
      /\ r.index = [f \in Event |->
                      IF at(f) = {} THEN h.index[f] ELSE CHOOSE j \in at(f) : TRUE]
      /\ r = [node |-> r.node, index |-> r.index]
  BY DEF place
<1>3a. \A j \in T : (j \in DOMAIN from) <=> (j # e)
  BY DEF Way
<1>3b. /\ DOMAIN node = 1 .. Len(h.node)
       /\ node = [j \in 1 .. Len(h.node) |-> node[j]]
       /\ \A j \in 1 .. Len(h.node) :
            node[j] = IF j \notin T THEN h.node[j]
                      ELSE IF j # e THEN h.node[from[j]] ELSE n
  BY <1>0, <1>3a
<1> HIDE DEF node
<1>3c. 1 .. m \subseteq 1 .. Len(h.node)
  BY <1>0
<1>4. ASSUME NEW j \in 1 .. Len(h.node) PROVE node[j] \in Node
  <2>1. h.node[j] \in Node /\ (j \in T /\ j # e => h.node[from[j]] \in Node)
    BY <1>1, <1>2, <1>3c
  <2> QED BY <2>1, <1>3b
<1>5. /\ r.node \in Seq(Node) /\ Len(r.node) = Len(h.node)
      /\ \A j \in 1 .. m : r.node[j] = node[j]
  <2>1. r.node \in [1 .. Len(h.node) -> Node]
    BY <1>3, <1>3b, <1>4
  <2>2. ASSUME NEW L \in Nat, NEW s \in [1 .. L -> Node] PROVE s \in Seq(Node) /\ Len(s) = L
    OBVIOUS
  <2>3. r.node \in Seq(Node) /\ Len(r.node) = Len(h.node)
    BY <1>0, <2>1, <2>2
  <2> QED BY <1>3, <2>3
<1>6. r.index \in [Event -> Nat]
  <2>1. ASSUME NEW f \in Event, at(f) # {}
        PROVE  (CHOOSE j \in at(f) : TRUE) \in Nat
    <3>1. at(f) \subseteq Nat
      BY <1>0
    <3> HIDE DEF at
    <3> QED BY <2>1, <3>1
  <2>2. \A f \in Event : h.index[f] \in Nat
    BY <1>0
  <2> HIDE DEF at
  <2> QED BY <1>3, <2>1, <2>2
<1>3d. \A j \in 1 .. m : node[j] = IF j \notin T THEN h.node[j]
                                    ELSE IF j # e THEN h.node[from[j]] ELSE n
  BY <1>3c, <1>3b
<1> DEFINE same(j, k) == node[j].tmevtb = node[k].tmevtb
<1>7. \A j, k \in 1 .. m : j # i /\ k # i /\ h.node[j].tmevtb = h.node[k].tmevtb => j = k
  BY DEF IndexBut
<1>8. \A j \in 1 .. m : j # i => h.node[j].tmevtb # n.tmevtb
  BY DEF IndexBut
<1>9. \A j, k \in T : same(j, k) => j = k
  <2> SUFFICES ASSUME NEW j \in T, NEW k \in T, same(j, k) PROVE j = k
    OBVIOUS
  <2>1. CASE j # e /\ k # e
    <3>1. from[j] # i /\ from[k] # i /\ from[j] \in 1 .. m /\ from[k] \in 1 .. m
      BY <2>1, <1>2 DEF Way
    <3>2. from[j] = from[k]
      BY <3>1, <2>1, <1>7, <1>3d
    <3> QED BY <3>2, <2>1 DEF Way
  <2>2. CASE j = e /\ k # e
    <3>1. from[k] # i /\ from[k] \in 1 .. m
      BY <2>2, <1>2 DEF Way
    <3> QED BY <3>1, <2>2, <1>8, <1>3d
  <2>3. CASE j # e /\ k = e
    <3>1. from[j] # i /\ from[j] \in 1 .. m
      BY <2>3, <1>2 DEF Way
    <3> QED BY <3>1, <2>3, <1>8, <1>3d
  <2> QED BY <2>1, <2>2, <2>3
<1>10. \A j \in 1 .. m, k \in T : j \notin T => ~same(j, k)
  <2> SUFFICES ASSUME NEW j \in 1 .. m, NEW k \in T, j \notin T, same(j, k) PROVE FALSE
    OBVIOUS
  <2>0. j # i
    BY DEF Way
  <2>1. CASE k # e
    <3>1. from[k] # i /\ from[k] \in 1 .. m /\ from[k] \in T
      BY <2>1, <1>2 DEF Way
    <3>2. from[k] = j
      BY <3>1, <2>0, <2>1, <1>7, <1>3d
    <3> QED BY <3>1, <3>2
  <2>2. CASE k = e
    BY <2>2, <2>0, <1>8, <1>3d
  <2> QED BY <2>1, <2>2
<1>11. ASSUME NEW j \in 1 .. m PROVE r.index[r.node[j].tmevtb] = j
  <2>1. r.node[j] = node[j] /\ node[j] \in Node
    BY <1>0, <1>4, <1>5, <1>3d
  <2> DEFINE f == node[j].tmevtb
  <2>2. f \in Event
    BY <2>1 DEF Node
  <2>3. CASE j \in T
    <3>1. at(f) = {j}
      BY <2>3, <1>9
    <3> HIDE DEF at, f
    <3>2. r.index[f] = j
      BY <3>1, <2>2, <1>3
    <3> QED BY <2>1, <3>2 DEF f
  <2>4. CASE j \notin T
    <3>1. at(f) = {}
      BY <2>4, <1>10
    <3>2. f = h.node[j].tmevtb /\ j # i
      BY <2>4, <1>3d DEF Way
    <3>3. h.index[f] = j
      BY <3>2 DEF IndexBut
    <3> HIDE DEF at, f
    <3>4. r.index[f] = j
      BY <3>1, <3>3, <2>2, <1>3
    <3> QED BY <2>1, <3>4 DEF f
  <2> QED BY <2>3, <2>4
<1>12. ASSUME NEW k \in 1 .. m, k # i PROVE \E j \in 1 .. m : r.node[j] = h.node[k]
  <2>1. CASE k \notin T
    BY <2>1, <1>5, <1>3d
  <2>2. CASE k \in T
    <3>1. PICK j \in T : j # e /\ from[j] = k
      BY <2>2, <1>12 DEF Way
    <3> QED BY <3>1, <1>5, <1>3d
  <2> QED BY <2>1, <2>2
<1>13. \E j \in 1 .. m : r.node[j] = n
  <2>1. e \in T /\ e \in 1 .. m
    BY DEF Way
  <2> QED BY <2>1, <1>5, <1>3d
<1>14. ASSUME NEW j \in 1 .. m
       PROVE  r.node[j] = n \/ \E k \in 1 .. m : k # i /\ r.node[j] = h.node[k]
  <2>1. CASE j \notin T
    <3>1. j # i
      BY <2>1 DEF Way
    <3> QED BY <2>1, <3>1, <1>5, <1>3d
  <2>2. CASE j \in T /\ j # e
    <3>1. from[j] # i /\ from[j] \in 1 .. m
      BY <2>2, <1>2 DEF Way
    <3> QED BY <2>2, <3>1, <1>5, <1>3d
  <2>3. CASE j \in T /\ j = e
    BY <2>3, <1>5, <1>3d
  <2> QED BY <2>1, <2>2, <2>3
<1>15. HeapType(r)
  BY <1>3, <1>5, <1>6 DEF HeapType
<1>16. Kept(h, m, i, n, r)
  BY <1>5, <1>11, <1>12, <1>13, <1>14, <1>15 DEF Kept
<1>17. Moved(h.node, r.node, m, T, from, e, n)
  BY <1>3d, <1>5 DEF Moved
<1> QED
  BY <1>16, <1>17

-----------------------------------------------------------------------------
(* Part 2: the order of the heap. *)

(* No node of the first m but that at i is earlier than its parent. *)
OrderBut(node, m, i) ==
  \A j \in 2 .. m : j # i => rel(node[PARENT(j)].time) <= rel(node[j].time)

(* What a node's neighbours are. *)
LEMMA Neighbours ==
  ASSUME NEW j \in Nat, j >= 2
  PROVE  /\ PARENT(j) \in Nat /\ 1 <= PARENT(j) /\ PARENT(j) < j
         /\ \A p \in Nat : p = PARENT(j) <=> (j = LCHILD(p) \/ j = LCHILD(p) + 1)
  BY DEF PARENT, LCHILD

(* Times relative to the present are naturals below W. *)
LEMMA RelRange ==
  ASSUME current_time \in EVTTIM, NEW t \in EVTTIM
  PROVE  rel(t) \in Nat /\ rel(t) < W
  BY TimeAssumption DEF rel, EVTTIM

(* What the way of a node that goes up, and down, looks like. *)
GoesUp(node, m, i, T, from, e, n) ==
  /\ \A j \in T : j # e => /\ j # 1 /\ from[j] = PARENT(j)
                           /\ ~EVTTIM_LE(node[PARENT(j)].time, n.time)
  /\ e # 1 => EVTTIM_LE(node[PARENT(e)].time, n.time)
  /\ \A j \in 2 .. m : PARENT(j) = i =>
        e # i /\ rel(node[PARENT(i)].time) <= rel(node[j].time)

GoesDown(node, m, i, T, from, e, n) ==
  /\ \A j \in T : j # e =>
       /\ j = PARENT(from[j]) /\ from[j] \in 2 .. m
       /\ \A k \in 2 .. m : PARENT(k) = j => ~EVTTIM_LT(node[k].time, node[from[j]].time)
       /\ ~EVTTIM_LE(n.time, node[from[j]].time)
  /\ \A k \in 2 .. m : PARENT(k) = e => EVTTIM_LE(n.time, node[k].time)
  /\ i # 1 => EVTTIM_LE(node[PARENT(i)].time, n.time)

(* Going up restores the order. *)
LEMMA UpOrder ==
  ASSUME current_time \in EVTTIM,
         NEW node, NEW m \in Nat, NEW i \in 1 .. m, NEW n \in Node,
         \A j \in 1 .. m : node[j] \in Node,
         NEW T, T \subseteq 1 .. m, NEW from, NEW rank, NEW e,
         Way(T, from, rank, i, e),
         \A j \in T : rank[j] = j,
         GoesUp(node, m, i, T, from, e, n),
         OrderBut(node, m, i),
         NEW new, Moved(node, new, m, T, from, e, n)
  PROVE  OrderBut(new, m, 0)
<1> SUFFICES ASSUME NEW j \in 2 .. m
             PROVE  rel(new[PARENT(j)].time) <= rel(new[j].time)
  BY DEF OrderBut
<1> DEFINE p == PARENT(j)
           R(k) == rel(node[k].time)
           t == rel(n.time)
<1>1. p \in 1 .. m /\ p < j /\ j \in 1 .. m
  BY Neighbours
<1>2. ASSUME NEW k \in 1 .. m PROVE R(k) \in Nat
  <2>1. node[k].time \in EVTTIM
    BY DEF Node
  <2> QED BY <2>1, RelRange
<1>3. t \in Nat
  <2>1. n.time \in EVTTIM
    BY DEF Node
  <2> QED BY <2>1, RelRange
<1>4. \A k \in T : k # e => t < R(PARENT(k)) /\ k # 1 /\ PARENT(k) \in T /\ from[k] = PARENT(k)
  <2> SUFFICES ASSUME NEW k \in T, k # e
               PROVE  t < R(PARENT(k)) /\ k # 1 /\ PARENT(k) \in T /\ from[k] = PARENT(k)
    OBVIOUS
  <2>1. k # 1 /\ from[k] = PARENT(k) /\ ~(R(PARENT(k)) <= t)
    BY DEF EVTTIM_LE, GoesUp
  <2>2. PARENT(k) \in T
    BY <2>1 DEF Way
  <2>3. R(PARENT(k)) \in Nat
    BY <2>2, <1>2
  <2> QED BY <2>1, <2>2, <2>3, <1>3
<1>5. \A k \in 2 .. m : k # i => R(PARENT(k)) <= R(k)
  BY DEF OrderBut
<1>6. \A k \in T : k <= i /\ e <= k
  BY DEF Way
<1>7. i \in T /\ e \in T
  BY DEF Way
<1> HIDE DEF p, R, t
<1>8. new[j] = IF j \notin T THEN node[j] ELSE IF j # e THEN node[PARENT(j)] ELSE n
  BY <1>1, <1>4 DEF Moved
<1>9. new[p] = IF p \notin T THEN node[p] ELSE IF p # e THEN node[PARENT(p)] ELSE n
  BY <1>1, <1>4 DEF Moved
<1>10. CASE j \in T /\ j # e
  <2>1. p \in T /\ new[j] = node[p] /\ t < R(p)
    BY <1>4, <1>8, <1>10 DEF p
  <2>2. CASE p # e
    <3>1. new[p] = node[PARENT(p)] /\ p \in 2 .. m /\ p # i
      BY <2>1, <2>2, <1>1, <1>4, <1>6, <1>9, <1>10
    <3> QED BY <2>1, <3>1, <1>5 DEF R, p
  <2>3. CASE p = e
    BY <2>1, <2>3, <1>9, <1>2, <1>3, <1>1 DEF R, p, t
  <2> QED BY <2>2, <2>3
<1>11. CASE j = e
  <2>1. p \notin T /\ new[j] = n /\ new[p] = node[p]
    BY <1>11, <1>1, <1>6, <1>7, <1>8, <1>9
  <2>2. R(p) <= t
    BY <1>11, <1>1 DEF EVTTIM_LE, GoesUp, R, p, t
  <2> QED BY <2>1, <2>2 DEF R, p, t
<1>12. CASE j \notin T /\ p \notin T
  BY <1>12, <1>5, <1>7, <1>8, <1>9 DEF R, p
<1>13. CASE j \notin T /\ p \in T
  <2>1. new[j] = node[j] /\ j # i
    BY <1>13, <1>7, <1>8
  <2>2. R(p) <= R(j)
    BY <2>1, <1>5 DEF p
  <2>3. CASE p = i
    <3>1. e # i /\ R(PARENT(i)) <= R(j)
      BY <2>3 DEF p, R, GoesUp
    <3>2. new[p] = node[PARENT(i)]
      BY <2>3, <3>1, <1>7, <1>9
    <3> QED BY <2>1, <3>1, <3>2 DEF R, p
  <2>4. CASE p # i /\ p # e
    <3>1. new[p] = node[PARENT(p)] /\ p \in 2 .. m
      BY <2>4, <1>1, <1>4, <1>9, <1>13
    <3>2. R(PARENT(p)) <= R(p) /\ PARENT(p) \in 1 .. m
      BY <3>1, <2>4, <1>4, <1>5, <1>13
    <3> QED BY <2>1, <2>2, <3>1, <3>2, <1>1, <1>2 DEF R, p
  <2>5. CASE p # i /\ p = e
    <3>1. PICK k \in T : k # e /\ from[k] = p
      BY <2>5, <1>13 DEF Way
    <3>2. t < R(p)
      BY <3>1, <1>4
    <3>3. new[p] = n
      BY <2>5, <1>7, <1>9
    <3> QED BY <2>1, <2>2, <3>2, <3>3, <1>1, <1>2, <1>3 DEF R, p, t
  <2> QED BY <2>3, <2>4, <2>5
<1> QED
  BY <1>10, <1>11, <1>12, <1>13, <1>7

(* Going down restores the order. *)
LEMMA DownOrder ==
  ASSUME current_time \in EVTTIM,
         NEW node, NEW m \in Nat, NEW i \in 1 .. m, NEW n \in Node,
         \A j \in 1 .. m : node[j] \in Node,
         NEW T, T \subseteq 1 .. m, NEW from, NEW rank, NEW e,
         Way(T, from, rank, i, e),
         \A j, k \in T : rank[j] < rank[k] => k < j,
         GoesDown(node, m, i, T, from, e, n),
         OrderBut(node, m, 0),
         NEW new, Moved(node, new, m, T, from, e, n)
  PROVE  OrderBut(new, m, 0)
<1> SUFFICES ASSUME NEW j \in 2 .. m
             PROVE  rel(new[PARENT(j)].time) <= rel(new[j].time)
  BY DEF OrderBut
<1> DEFINE p == PARENT(j)
           R(k) == rel(node[k].time)
           t == rel(n.time)
<1>1. p \in 1 .. m /\ p < j /\ j \in 1 .. m
  BY Neighbours
<1>2. ASSUME NEW k \in 1 .. m PROVE R(k) \in Nat
  <2>1. node[k].time \in EVTTIM
    BY DEF Node
  <2> QED BY <2>1, RelRange
<1>3. t \in Nat
  <2>1. n.time \in EVTTIM
    BY DEF Node
  <2> QED BY <2>1, RelRange
<1>4. ASSUME NEW k \in T, k # e
      PROVE  /\ R(from[k]) < t
             /\ k = PARENT(from[k]) /\ from[k] \in 2 .. m /\ from[k] \in 1 .. m
             /\ from[k] \in T
             /\ \A l \in 2 .. m : PARENT(l) = k => R(from[k]) <= R(l)
  <2>1. k = PARENT(from[k]) /\ from[k] \in 2 .. m /\ ~(t <= R(from[k]))
    BY <1>4 DEF EVTTIM_LE, GoesDown
  <2>2. from[k] \in T
    BY <1>4 DEF Way
  <2>3. R(from[k]) \in Nat
    BY <2>2, <1>2
  <2>4. ASSUME NEW l \in 2 .. m, PARENT(l) = k PROVE R(from[k]) <= R(l)
    <3>1. ~(R(l) < R(from[k]))
      BY <1>4, <2>4 DEF EVTTIM_LT, GoesDown
    <3>2. R(l) \in Nat
      BY <1>2
    <3> QED BY <3>1, <3>2, <2>3
  <2> QED BY <2>1, <2>2, <2>3, <2>4, <1>3
<1>5. \A k \in 2 .. m : R(PARENT(k)) <= R(k)
  BY DEF OrderBut
<1>6. \A k \in T : i <= k /\ k <= e
  BY DEF Way
<1>7. i \in T /\ e \in T
  BY DEF Way
<1> HIDE DEF p, R, t
<1>8. new[j] = IF j \notin T THEN node[j] ELSE IF j # e THEN node[from[j]] ELSE n
  BY <1>1 DEF Moved
<1>9. new[p] = IF p \notin T THEN node[p] ELSE IF p # e THEN node[from[p]] ELSE n
  BY <1>1 DEF Moved
<1>10. CASE j \in T /\ p \in T
  <2>1. p # e
    BY <1>10, <1>1, <1>6
  <2>2. from[p] = j
    <3>1. j # i
      BY <1>10, <1>1, <1>6
    <3>2. PICK k \in T : k # e /\ from[k] = j
      BY <1>10, <3>1 DEF Way
    <3>3. k = p
      BY <3>2, <1>4 DEF p
    <3> QED BY <3>2, <3>3
  <2>3. new[p] = node[j] /\ R(j) < t
    BY <2>1, <2>2, <1>4, <1>9, <1>10
  <2>4. CASE j = e
    BY <2>3, <2>4, <1>1, <1>2, <1>3, <1>7, <1>8 DEF R, t, p
  <2>5. CASE j # e
    <3>1. new[j] = node[from[j]] /\ R(PARENT(from[j])) <= R(from[j]) /\ PARENT(from[j]) = j
      BY <2>5, <1>4, <1>5, <1>8, <1>10
    <3> QED BY <2>3, <3>1 DEF R, p
  <2> QED BY <2>4, <2>5
<1>11. CASE j \in T /\ p \notin T
  <2>1. j = i
    <3> SUFFICES ASSUME j # i PROVE FALSE
      OBVIOUS
    <3>1. PICK k \in T : k # e /\ from[k] = j
      BY <1>11 DEF Way
    <3> QED BY <3>1, <1>4, <1>11 DEF p
  <2>2. new[p] = node[p]
    BY <1>9, <1>11
  <2>3. CASE j = e
    <3>1. R(p) <= t
      BY <2>1, <1>1 DEF EVTTIM_LE, GoesDown, R, p, t
    <3> QED BY <3>1, <2>2, <2>3, <1>7, <1>8 DEF R, t, p
  <2>4. CASE j # e
    <3>1. /\ new[j] = node[from[j]] /\ from[j] \in 1 .. m
          /\ R(PARENT(from[j])) <= R(from[j]) /\ PARENT(from[j]) = j
      BY <2>4, <1>4, <1>5, <1>8, <1>11
    <3>2. R(p) <= R(j)
      BY <1>5 DEF p
    <3>3. R(p) <= R(from[j])
      BY <3>1, <3>2, <1>1, <1>2
    <3> QED BY <2>2, <3>1, <3>3 DEF R, p
  <2> QED BY <2>3, <2>4
<1>12. CASE j \notin T /\ p \notin T
  BY <1>12, <1>5, <1>8, <1>9 DEF R, p
<1>13. CASE j \notin T /\ p \in T
  <2>1. new[j] = node[j]
    BY <1>13, <1>8
  <2>2. CASE p = e
    <3>1. t <= R(j)
      BY <2>2 DEF EVTTIM_LE, GoesDown, R, p, t
    <3> QED BY <2>1, <2>2, <3>1, <1>7, <1>9 DEF R, p, t
  <2>3. CASE p # e
    <3>1. R(from[p]) <= R(j)
      BY <2>3, <1>4, <1>13 DEF p
    <3> QED BY <2>1, <2>3, <3>1, <1>9, <1>13 DEF R, p
  <2> QED BY <2>2, <2>3
<1> QED
  BY <1>10, <1>11, <1>12, <1>13

-----------------------------------------------------------------------------
(* Part 3: insertion and removal. *)

(* Node n has been placed among the first m nodes of h instead of node i,  *)
(* which gives r.                                                          *)
Placed(h, m, i, n, r) == Kept(h, m, i, n, r) /\ OrderBut(r.node, m, 0)

(* A node that belongs above its position is placed by going up. *)
LEMMA UpPlaces ==
  ASSUME current_time \in EVTTIM, NEW h, HeapType(h),
         NEW m \in 1 .. Len(h.node), NEW i \in 1 .. m, NEW n \in Node,
         IndexBut(h, m, i, n.tmevtb), OrderBut(h.node, m, i),
         \A j \in 2 .. m : PARENT(j) = i =>
           /\ i > 1 /\ EVTTIM_LT(n.time, h.node[PARENT(i)].time)
           /\ rel(h.node[PARENT(i)].time) <= rel(h.node[j].time),
         NEW r, r = place(h, tmevt_up(h, n.time), i, n)
  PROVE  Placed(h, m, i, n, r)
<1> DEFINE from == tmevt_up(h, n.time)
           T == trail(h, from, i)
           rank == [j \in DOMAIN h.node |-> j]
<1>0. /\ DOMAIN h.node = 1 .. Len(h.node) /\ Len(h.node) \in Nat /\ m \in Nat
      /\ i \in DOMAIN h.node /\ 1 .. m \subseteq DOMAIN h.node
  BY DEF HeapType
<1>1. DOMAIN from = {j \in DOMAIN h.node \ {1} : ~EVTTIM_LE(h.node[PARENT(j)].time, n.time)}
  BY DEF tmevt_up
<1>2. \A j \in DOMAIN from : from[j] = PARENT(j)
  BY DEF tmevt_up
<1>3. \A j \in DOMAIN from : from[j] \in DOMAIN h.node /\ from[j] < j
  <2> SUFFICES ASSUME NEW j \in DOMAIN from
               PROVE  from[j] \in DOMAIN h.node /\ from[j] < j
    OBVIOUS
  <2>1. j \in Nat /\ j >= 2 /\ j <= Len(h.node)
    BY <1>0, <1>1
  <2>2. PARENT(j) \in Nat /\ 1 <= PARENT(j) /\ PARENT(j) < j
    BY <2>1, Neighbours
  <2> QED BY <2>1, <2>2, <1>0, <1>2
<1>4. \A j \in DOMAIN h.node : rank[j] = j /\ rank[j] \in Nat
  BY <1>0
<1>5. \A j \in DOMAIN from : rank[from[j]] < rank[j]
  BY <1>1, <1>3, <1>4
<1>6. DOMAIN from \subseteq DOMAIN h.node
  BY <1>1
<1> HIDE DEF from, rank
<1>7. T \subseteq DOMAIN h.node /\ \E e : Way(T, from, rank, i, e)
  BY <1>0, <1>3, <1>4, <1>5, <1>6, TrailIsWay
<1>8. PICK e : Way(T, from, rank, i, e)
  BY <1>7
<1>9. T \subseteq 1 .. m
  <2> SUFFICES ASSUME NEW j \in T PROVE j \in 1 .. m
    OBVIOUS
  <2>1. j = i \/ rank[j] < rank[i]
    BY <1>8 DEF Way
  <2>2. j \in DOMAIN h.node
    BY <1>7
  <2> QED BY <2>1, <2>2, <1>0, <1>4
<1>10. r = place(h, from, i, n)
  BY DEF from
<1>11. m \in 0 .. Len(h.node)
  BY <1>0
<1> HIDE DEF T
<1>12. Kept(h, m, i, n, r) /\ Moved(h.node, r.node, m, T, from, e, n)
  BY <1>8, <1>9, <1>10, <1>11, PlaceKeeps DEF T
<1>13. \A j \in 1 .. m : h.node[j] \in Node
  BY <1>0 DEF HeapType
<1>14. \A j \in T : rank[j] = j
  BY <1>4, <1>7
<1>15. \A j \in T : j # e => /\ j # 1 /\ from[j] = PARENT(j)
                             /\ ~EVTTIM_LE(h.node[PARENT(j)].time, n.time)
  <2>1. \A j \in T : j # e => j \in DOMAIN from
    BY <1>8 DEF Way
  <2> QED BY <2>1, <1>1, <1>2
<1>16. e # 1 => EVTTIM_LE(h.node[PARENT(e)].time, n.time)
  <2>1. e \notin DOMAIN from /\ e \in T
    BY <1>8 DEF Way
  <2> QED BY <2>1, <1>1, <1>7
<1>17. ASSUME NEW j \in 2 .. m, PARENT(j) = i
       PROVE  e # i /\ rel(h.node[PARENT(i)].time) <= rel(h.node[j].time)
  <2>1. /\ i > 1 /\ EVTTIM_LT(n.time, h.node[PARENT(i)].time)
        /\ rel(h.node[PARENT(i)].time) <= rel(h.node[j].time)
    BY <1>17
  <2>2. PARENT(i) \in 1 .. m
    BY <2>1, Neighbours
  <2>3. n.time \in EVTTIM /\ h.node[PARENT(i)].time \in EVTTIM
    BY <2>2, <1>13 DEF Node
  <2>4. rel(n.time) \in Nat /\ rel(h.node[PARENT(i)].time) \in Nat
    BY <2>3, RelRange
  <2>5. ~EVTTIM_LE(h.node[PARENT(i)].time, n.time)
    BY <2>1, <2>4 DEF EVTTIM_LT, EVTTIM_LE
  <2>6. e # i
    BY <2>1, <2>5, <1>16
  <2> QED BY <2>1, <2>6
<1>18. GoesUp(h.node, m, i, T, from, e, n)
  BY <1>15, <1>16, <1>17 DEF GoesUp
<1>19. OrderBut(r.node, m, 0)
  BY <1>0, <1>8, <1>9, <1>12, <1>13, <1>14, <1>18, UpOrder
<1> QED
  BY <1>12, <1>19 DEF Placed

(* A node that does not belong above its position is placed by going down. *)
LEMMA DownPlaces ==
  ASSUME current_time \in EVTTIM, NEW h, HeapType(h),
         NEW m \in 1 .. Len(h.node), NEW i \in 1 .. m, NEW n \in Node,
         IndexBut(h, m, i, n.tmevtb), OrderBut(h.node, m, 0),
         i # 1 => EVTTIM_LE(h.node[PARENT(i)].time, n.time),
         NEW r, r = place(h, tmevt_down(h, n.time, m), i, n)
  PROVE  Placed(h, m, i, n, r)
<1> DEFINE from == tmevt_down(h, n.time, m)
           T == trail(h, from, i)
           L == Len(h.node)
           rank == [j \in DOMAIN h.node |-> L - j]
<1>0. /\ DOMAIN h.node = 1 .. L /\ L \in Nat /\ m \in Nat
      /\ i \in DOMAIN h.node /\ 1 .. m \subseteq DOMAIN h.node
  BY DEF HeapType
<1>1. DOMAIN from = {j \in DOMAIN h.node :
                       /\ LCHILD(j) <= m
                       /\ ~EVTTIM_LE(n.time, h.node[early_child(h, j, m)].time)}
  BY DEF tmevt_down
<1>2. \A j \in DOMAIN from : from[j] = early_child(h, j, m)
  BY DEF tmevt_down
<1>3. ASSUME NEW j \in 1 .. m, LCHILD(j) <= m
      PROVE  /\ early_child(h, j, m) \in 2 .. m /\ PARENT(early_child(h, j, m)) = j
             /\ j < early_child(h, j, m)
             /\ \A k \in 2 .. m : PARENT(k) = j =>
                   ~EVTTIM_LT(h.node[k].time, h.node[early_child(h, j, m)].time)
  <2> DEFINE c == LCHILD(j)
             x == early_child(h, j, m)
  <2>1. c \in 2 .. m /\ j < c
    BY <1>3 DEF LCHILD
  <2>2. x = IF c + 1 <= m /\ EVTTIM_LT(h.node[c + 1].time, h.node[c].time)
            THEN c + 1 ELSE c
    BY DEF early_child
  <2>3. ASSUME NEW k \in 1 .. m PROVE rel(h.node[k].time) \in Nat
    <3>1. h.node[k] \in Node
      BY <1>0 DEF HeapType
    <3>2. h.node[k].time \in EVTTIM
      BY <3>1 DEF Node
    <3> QED BY <3>2, RelRange
  <2> HIDE DEF c, x
  <2>4. x \in 2 .. m /\ j < x /\ (x = c \/ x = c + 1)
    BY <2>1, <2>2
  <2>5. PARENT(x) = j
    BY <2>4, Neighbours DEF c
  <2>6. ASSUME NEW k \in 2 .. m, PARENT(k) = j
        PROVE  ~EVTTIM_LT(h.node[k].time, h.node[x].time)
    <3>1. k = c \/ k = c + 1
      BY <2>6, Neighbours DEF c
    <3>2. rel(h.node[k].time) \in Nat /\ rel(h.node[c].time) \in Nat
      BY <2>1, <2>3
    <3>3. c + 1 <= m => rel(h.node[c + 1].time) \in Nat
      BY <2>1, <2>3
    <3>4. CASE k = c
      BY <2>2, <3>2, <3>3, <3>4 DEF EVTTIM_LT
    <3>5. CASE k = c + 1
      BY <2>2, <2>6, <3>2, <3>5 DEF EVTTIM_LT
    <3> QED BY <3>1, <3>4, <3>5
  <2> QED BY <2>4, <2>5, <2>6 DEF x
<1>4. \A j \in DOMAIN from : /\ j \in 1 .. m /\ LCHILD(j) <= m
                             /\ from[j] \in 2 .. m /\ from[j] \in DOMAIN h.node /\ j < from[j]
  <2> SUFFICES ASSUME NEW j \in DOMAIN from
               PROVE  /\ j \in 1 .. m /\ LCHILD(j) <= m
                      /\ from[j] \in 2 .. m /\ from[j] \in DOMAIN h.node /\ j < from[j]
    OBVIOUS
  <2>1. j \in 1 .. m /\ LCHILD(j) <= m
    BY <1>0, <1>1 DEF LCHILD
  <2> QED BY <2>1, <1>0, <1>2, <1>3
<1>5. \A j \in DOMAIN h.node : rank[j] = L - j /\ rank[j] \in Nat
  BY <1>0
<1>6. \A j \in DOMAIN from : rank[from[j]] < rank[j]
  BY <1>0, <1>1, <1>4, <1>5
<1>7. DOMAIN from \subseteq DOMAIN h.node
  BY <1>1
<1>8. \A j \in DOMAIN from : from[j] \in DOMAIN h.node
  BY <1>4
<1> HIDE DEF from, rank
<1>9. T \subseteq DOMAIN h.node /\ \E e : Way(T, from, rank, i, e)
  BY <1>0, <1>5, <1>6, <1>7, <1>8, TrailIsWay
<1>10. PICK e : Way(T, from, rank, i, e)
  BY <1>9
<1>11. T \subseteq 1 .. m
  <2> SUFFICES ASSUME NEW j \in T, j # i PROVE j \in 1 .. m
    OBVIOUS
  <2>1. PICK k \in T : k \in DOMAIN from /\ from[k] = j
    BY <1>10 DEF Way
  <2> QED BY <2>1, <1>4
<1>12. r = place(h, from, i, n)
  BY DEF from
<1>13. m \in 0 .. Len(h.node)
  BY <1>0
<1> HIDE DEF T
<1>14. Kept(h, m, i, n, r) /\ Moved(h.node, r.node, m, T, from, e, n)
  BY <1>10, <1>11, <1>12, <1>13, PlaceKeeps DEF T
<1>15. \A j \in 1 .. m : h.node[j] \in Node
  BY <1>0 DEF HeapType
<1>16. \A j, k \in T : rank[j] < rank[k] => k < j
  BY <1>0, <1>5, <1>9
<1>17. ASSUME NEW j \in T, j # e
       PROVE  /\ j = PARENT(from[j]) /\ from[j] \in 2 .. m
              /\ \A k \in 2 .. m : PARENT(k) = j =>
                    ~EVTTIM_LT(h.node[k].time, h.node[from[j]].time)
              /\ ~EVTTIM_LE(n.time, h.node[from[j]].time)
  <2>1. j \in DOMAIN from
    BY <1>10, <1>17 DEF Way
  <2> QED BY <2>1, <1>1, <1>2, <1>3, <1>4
<1>18. ASSUME NEW k \in 2 .. m, PARENT(k) = e
       PROVE  EVTTIM_LE(n.time, h.node[k].time)
  <2>1. e \notin DOMAIN from /\ e \in 1 .. m
    BY <1>10, <1>11 DEF Way
  <2>2. LCHILD(e) <= m
    <3>1. k = LCHILD(e) \/ k = LCHILD(e) + 1
      BY <2>1, <1>18, Neighbours
    <3> QED BY <3>1, <2>1 DEF LCHILD
  <2> DEFINE x == early_child(h, e, m)
  <2>3. x \in 1 .. m /\ ~EVTTIM_LT(h.node[k].time, h.node[x].time)
    BY <2>1, <2>2, <1>3, <1>18
  <2>4. EVTTIM_LE(n.time, h.node[x].time)
    BY <2>1, <2>2, <1>0, <1>1
  <2> HIDE DEF x
  <2>5. h.node[x].time \in EVTTIM /\ h.node[k].time \in EVTTIM /\ n.time \in EVTTIM
    <3>1. h.node[x] \in Node /\ h.node[k] \in Node
      BY <2>3, <1>15
    <3> QED BY <3>1 DEF Node
  <2>6. rel(h.node[x].time) \in Nat /\ rel(h.node[k].time) \in Nat /\ rel(n.time) \in Nat
    BY <2>5, RelRange
  <2> QED BY <2>3, <2>4, <2>6 DEF EVTTIM_LT, EVTTIM_LE
<1>19. GoesDown(h.node, m, i, T, from, e, n)
  BY <1>17, <1>18 DEF GoesDown
<1>20. OrderBut(r.node, m, 0)
  BY <1>0, <1>10, <1>11, <1>14, <1>15, <1>16, <1>19, DownOrder
<1> QED
  BY <1>14, <1>20 DEF Placed

(* A heap: in order, and every block in it knows its position. *)
Heap(h) ==
  /\ HeapType(h)
  /\ \A i \in 1 .. Len(h.node) : h.index[h.node[i].tmevtb] = i
  /\ OrderBut(h.node, Len(h.node), 0)

Holds(h) == {h.node[i].tmevtb : i \in 1 .. Len(h.node)}
TimeOf(h, e) == h.node[h.index[e]].time

(* What g is when r is cut to its first m nodes. *)
CutTo(r, m, g) ==
  /\ HeapType(g) /\ Len(g.node) = m
  /\ \A j \in 1 .. m : /\ g.node[j] = r.node[j]
                       /\ g.index[r.node[j].tmevtb] = r.index[r.node[j].tmevtb]

(* Within its first m nodes, g holds what Placed says, and is a heap.      *)
LEMMA PlacedIsHeap ==
  ASSUME NEW h, HeapType(h), NEW m \in 1 .. Len(h.node), NEW i \in 1 .. m, NEW n,
         NEW r, Placed(h, m, i, n, r),
         NEW g, CutTo(r, m, g)
  PROVE  /\ Heap(g)
         /\ Holds(g) = {h.node[k].tmevtb : k \in 1 .. m \ {i}} \cup {n.tmevtb}
         /\ \A k \in 1 .. m \ {i} : TimeOf(g, h.node[k].tmevtb) = h.node[k].time
         /\ TimeOf(g, n.tmevtb) = n.time
<1>0. /\ m \in Nat /\ HeapType(g) /\ Len(g.node) = m
      /\ \A j \in 1 .. m : /\ g.node[j] = r.node[j]
                           /\ g.index[r.node[j].tmevtb] = r.index[r.node[j].tmevtb]
  BY DEF HeapType, CutTo
<1>1. \A j \in 1 .. m : g.index[g.node[j].tmevtb] = j
  BY <1>0 DEF Placed, Kept
<1>2. OrderBut(g.node, m, 0)
  <2> SUFFICES ASSUME NEW j \in 2 .. m
               PROVE  rel(g.node[PARENT(j)].time) <= rel(g.node[j].time)
    BY DEF OrderBut
  <2>1. PARENT(j) \in 1 .. m
    BY Neighbours
  <2>2. g.node[j] = r.node[j] /\ g.node[PARENT(j)] = r.node[PARENT(j)]
    BY <1>0, <2>1
  <2> QED BY <2>2 DEF Placed, OrderBut
<1>3. Heap(g)
  BY <1>0, <1>1, <1>2 DEF Heap
<1>4. /\ \A k \in 1 .. m \ {i} : \E j \in 1 .. m : g.node[j] = h.node[k]
      /\ \E j \in 1 .. m : g.node[j] = n
      /\ \A j \in 1 .. m : \/ g.node[j] = n
                           \/ \E k \in 1 .. m \ {i} : g.node[j] = h.node[k]
  <2>1. /\ \A k \in 1 .. m : k # i => \E j \in 1 .. m : r.node[j] = h.node[k]
        /\ \E j \in 1 .. m : r.node[j] = n
        /\ \A j \in 1 .. m : \/ r.node[j] = n
                             \/ \E k \in 1 .. m : k # i /\ r.node[j] = h.node[k]
    BY DEF Placed, Kept
  <2>2. \A j \in 1 .. m : g.node[j] = r.node[j]
    BY <1>0
  <2>3. ASSUME NEW k \in 1 .. m \ {i}
        PROVE  \E j \in 1 .. m : g.node[j] = h.node[k]
    BY <2>1, <2>2
  <2>4. \E j \in 1 .. m : g.node[j] = n
    BY <2>1, <2>2
  <2>5. ASSUME NEW j \in 1 .. m, g.node[j] # n
        PROVE  \E k \in 1 .. m \ {i} : g.node[j] = h.node[k]
    BY <2>1, <2>2, <2>5
  <2> QED BY <2>3, <2>4, <2>5
<1>5. Holds(g) = {h.node[k].tmevtb : k \in 1 .. m \ {i}} \cup {n.tmevtb}
  <2> DEFINE S == {h.node[k].tmevtb : k \in 1 .. m \ {i}} \cup {n.tmevtb}
  <2>0. Holds(g) = {g.node[j].tmevtb : j \in 1 .. m}
    BY <1>0 DEF Holds
  <2>1. ASSUME NEW j \in 1 .. m
        PROVE  g.node[j].tmevtb \in S
    <3>1. CASE g.node[j] = n
      BY <3>1
    <3>2. ASSUME NEW k \in 1 .. m \ {i}, g.node[j] = h.node[k]
          PROVE  g.node[j].tmevtb \in S
      <4>1. g.node[j].tmevtb = h.node[k].tmevtb
        BY <3>2
      <4> QED BY <4>1
    <3> HIDE DEF S
    <3> QED BY <1>4, <3>1, <3>2
  <2>2. n.tmevtb \in Holds(g)
    BY <1>4, <2>0
  <2>3. ASSUME NEW k \in 1 .. m \ {i}
        PROVE  h.node[k].tmevtb \in Holds(g)
    <3>1. PICK j \in 1 .. m : g.node[j] = h.node[k]
      BY <1>4
    <3>2. g.node[j].tmevtb = h.node[k].tmevtb
      BY <3>1
    <3> QED BY <2>0, <3>2
  <2>4. S \subseteq Holds(g)
    BY <2>2, <2>3
  <2>5. Holds(g) \subseteq S
    <3> HIDE DEF S
    <3> QED BY <2>0, <2>1
  <2> QED BY <2>4, <2>5
<1>6. \A j \in 1 .. m : TimeOf(g, g.node[j].tmevtb) = g.node[j].time
  BY <1>1 DEF TimeOf
<1> QED BY <1>3, <1>4, <1>5, <1>6

(* tmevtb_insert adds a block with its time and changes no other. *)
LEMMA InsertKeeps ==
  ASSUME current_time \in EVTTIM, NEW h, Heap(h),
         NEW e \in Event, e \notin Holds(h), NEW t \in EVTTIM
  PROVE  /\ Heap(tmevtb_insert(h, e, t))
         /\ Holds(tmevtb_insert(h, e, t)) = Holds(h) \cup {e}
         /\ TimeOf(tmevtb_insert(h, e, t), e) = t
         /\ \A f \in Holds(h) : TimeOf(tmevtb_insert(h, e, t), f) = TimeOf(h, f)
<1> DEFINE n == [time |-> t, tmevtb |-> e]
           h1 == [h EXCEPT !.node = Append(@, n)]
           m == Len(h1.node)
           r == tmevtb_insert(h, e, t)
           L == Len(h.node)
<1>1. n \in Node /\ n.time = t /\ n.tmevtb = e
  BY DEF Node
<1>2. h.node \in Seq(Node) /\ h.index \in [Event -> Nat] /\ L \in Nat
  BY DEF Heap, HeapType
<1>3. h1 = [node |-> Append(h.node, n), index |-> h.index]
  <2> HIDE DEF n
  <2>1. h = [node |-> h.node, index |-> h.index]
    BY DEF Heap, HeapType
  <2> DEFINE x == Append(h.node, n)
  <2> HIDE DEF x
  <2>2. [h EXCEPT !.node = x] = [node |-> x, index |-> h.index]
    BY <2>1
  <2> QED BY <2>2 DEF x
<1>4. r = place(h1, tmevt_up(h1, n.time), m, n)
  BY <1>1 DEF tmevtb_insert
<1> HIDE DEF n, h1, r
<1>5. h1.node = Append(h.node, n) /\ h1.index = h.index /\ h1 = [node |-> h1.node, index |-> h1.index]
  BY <1>3
<1>6. m = L + 1 /\ h1.node \in Seq(Node) /\ \A j \in 1 .. L : h1.node[j] = h.node[j]
  BY <1>1, <1>2, <1>5
<1>7. HeapType(h1)
  BY <1>2, <1>5, <1>6 DEF HeapType
<1>8. m \in 1 .. Len(h1.node) /\ m \in 1 .. m
  BY <1>2, <1>6
<1>9. 1 .. m \ {m} = 1 .. L
  BY <1>2, <1>6
<1>10. IndexBut(h1, m, m, n.tmevtb)
  <2> SUFFICES ASSUME NEW j \in 1 .. m, j # m
               PROVE  h1.index[h1.node[j].tmevtb] = j /\ h1.node[j].tmevtb # n.tmevtb
    BY DEF IndexBut
  <2>1. j \in 1 .. L
    BY <1>9
  <2>2. h1.node[j] = h.node[j] /\ h.node[j].tmevtb \in Holds(h)
    BY <2>1, <1>6 DEF Holds
  <2> QED BY <2>1, <2>2, <1>1, <1>5 DEF Heap
<1>11. OrderBut(h1.node, m, m)
  <2> SUFFICES ASSUME NEW j \in 2 .. m, j # m
               PROVE  rel(h1.node[PARENT(j)].time) <= rel(h1.node[j].time)
    BY DEF OrderBut
  <2>1. j \in 2 .. L
    BY <1>2, <1>6
  <2>2. PARENT(j) \in 1 .. L /\ j \in 1 .. L
    BY <2>1, <1>2, Neighbours
  <2>3. h1.node[PARENT(j)] = h.node[PARENT(j)] /\ h1.node[j] = h.node[j]
    BY <2>2, <1>6
  <2> QED BY <2>1, <2>3 DEF Heap, OrderBut
<1>12. \A j \in 2 .. m : PARENT(j) # m
  <2> SUFFICES ASSUME NEW j \in 2 .. m PROVE PARENT(j) # m
    OBVIOUS
  <2> QED BY <1>2, <1>6, Neighbours
<1>13. Placed(h1, m, m, n, r)
  <2> HIDE DEF m
  <2> QED BY <1>1, <1>4, <1>7, <1>8, <1>10, <1>11, <1>12, UpPlaces
<1>14. HeapType(r) /\ Len(r.node) = m
  BY <1>13 DEF Placed, Kept
<1>15. /\ Heap(r)
       /\ Holds(r) = {h1.node[k].tmevtb : k \in 1 .. m \ {m}} \cup {n.tmevtb}
       /\ \A k \in 1 .. m \ {m} : TimeOf(r, h1.node[k].tmevtb) = h1.node[k].time
       /\ TimeOf(r, n.tmevtb) = n.time
  <2> HIDE DEF m
  <2>1. CutTo(r, m, r)
    BY <1>14 DEF CutTo
  <2> QED BY <1>7, <1>8, <1>13, <2>1, PlacedIsHeap
<1>16. {h1.node[k].tmevtb : k \in 1 .. m \ {m}} = Holds(h)
  BY <1>6, <1>9 DEF Holds
<1>17. ASSUME NEW f \in Holds(h) PROVE TimeOf(r, f) = TimeOf(h, f)
  <2>1. PICK k \in 1 .. L : f = h.node[k].tmevtb
    BY DEF Holds
  <2>2. TimeOf(r, f) = h.node[k].time
    BY <2>1, <1>6, <1>9, <1>15
  <2>3. TimeOf(h, f) = h.node[k].time
    BY <2>1 DEF Heap, TimeOf
  <2> QED BY <2>2, <2>3
<1> QED
  BY <1>1, <1>15, <1>16, <1>17 DEF r

(* Removing node i removes its block and changes no other. *)
LEMMA RemoveKeeps ==
  ASSUME current_time \in EVTTIM, NEW h, Heap(h), NEW i \in 1 .. Len(h.node)
  PROVE  /\ Heap(remove(h, i))
         /\ Holds(remove(h, i)) = Holds(h) \ {h.node[i].tmevtb}
         /\ \A f \in Holds(h) \ {h.node[i].tmevtb} : TimeOf(remove(h, i), f) = TimeOf(h, f)
<1> DEFINE L == Len(h.node)
           m == L - 1
           n == h.node[m + 1]
           e == h.node[i].tmevtb
           goes_up == i > 1 /\ EVTTIM_LT(n.time, h.node[PARENT(i)].time)
           from == IF goes_up THEN tmevt_up(h, n.time) ELSE tmevt_down(h, n.time, m)
           r == IF m = 0 THEN h ELSE place(h, from, i, n)
           g == remove(h, i)
<1>1. /\ h.node \in Seq(Node) /\ h.index \in [Event -> Nat]
      /\ L \in Nat /\ L >= 1 /\ m \in Nat /\ m + 1 = L /\ n = h.node[L]
      /\ HeapType(h)
  BY DEF Heap, HeapType
<1>2. \A k \in 1 .. L : h.node[k] \in Node /\ h.node[k].tmevtb \in Event /\ h.index[h.node[k].tmevtb] = k
  <2>1. \A k \in 1 .. L : h.node[k] \in Node
    BY <1>1
  <2> QED BY <2>1 DEF Heap, Node
<1>3. e \in Event /\ n \in Node
  BY <1>1, <1>2
<1>4. g = [r EXCEPT !.node = SubSeq(@, 1, m), !.index[e] = 0]
  BY DEF remove
<1>5. Holds(h) \ {e} = {h.node[k].tmevtb : k \in 1 .. L \ {i}}
  BY <1>2 DEF Holds
<1>6. \A k \in 1 .. L : TimeOf(h, h.node[k].tmevtb) = h.node[k].time
  BY <1>2 DEF TimeOf
<1>7. ASSUME HeapType(r), Len(r.node) = L
      PROVE  /\ HeapType(g) /\ Len(g.node) = m
             /\ \A j \in 1 .. m : g.node[j] = r.node[j]
             /\ \A f \in Event : f # e => g.index[f] = r.index[f]
  <2> HIDE DEF r, g, m
  <2>1. g.node = SubSeq(r.node, 1, m) /\ g.index = [r.index EXCEPT ![e] = 0]
        /\ g = [node |-> g.node, index |-> g.index]
    BY <1>4, <1>7 DEF HeapType
  <2>2. /\ SubSeq(r.node, 1, m) \in Seq(Node) /\ Len(SubSeq(r.node, 1, m)) = m
        /\ \A j \in 1 .. m : SubSeq(r.node, 1, m)[j] = r.node[j]
    <3>1. \A j \in 1 .. m : r.node[j] \in Node
      BY <1>1, <1>7 DEF HeapType
    <3> QED BY <1>1, <1>7, <3>1
  <2>3. g.index \in [Event -> Nat] /\ \A f \in Event : f # e => g.index[f] = r.index[f]
    BY <1>3, <1>7, <2>1 DEF HeapType
  <2> QED BY <2>1, <2>2, <2>3 DEF HeapType
<1> HIDE DEF g, from
<1>8. CASE m = 0
  <2>0. L = 1 /\ i = 1
    <3>1. m + 1 = L
      BY <1>1
    <3> HIDE DEF m
    <3>2. L = 1
      BY <3>1, <1>8
    <3> QED BY <3>2
  <2>1. r = h /\ L = 1 /\ i = 1
    <3> HIDE DEF m
    <3> QED BY <1>8, <2>0
  <2>2. HeapType(g) /\ Len(g.node) = 0
    BY <2>1, <1>1, <1>7, <1>8
  <2>3. 1 .. L \ {i} = {}
    BY <2>1
  <2>4. Holds(g) = {} /\ Holds(h) \ {e} = {}
    BY <2>2, <2>3, <1>5 DEF Holds
  <2>5. Heap(g)
    BY <2>2 DEF Heap, OrderBut
  <2> QED BY <2>4, <2>5 DEF g
<1>9. CASE m # 0 /\ i = L
  <2>1. ~goes_up
    <3> SUFFICES ASSUME i > 1 PROVE ~EVTTIM_LT(h.node[i].time, h.node[PARENT(i)].time)
      BY <1>1, <1>9
    <3>1. rel(h.node[PARENT(i)].time) <= rel(h.node[i].time)
      BY <1>1, <1>9 DEF Heap, OrderBut
    <3>2. PARENT(i) \in 1 .. L
      BY Neighbours, <1>1, <1>9
    <3>3. h.node[i].time \in EVTTIM /\ h.node[PARENT(i)].time \in EVTTIM
      BY <3>2, <1>2 DEF Node
    <3>4. rel(h.node[i].time) \in Nat /\ rel(h.node[PARENT(i)].time) \in Nat
      BY <3>3, RelRange
    <3> QED BY <3>1, <3>4 DEF EVTTIM_LT
  <2>2. from = tmevt_down(h, n.time, m)
    BY <2>1 DEF from
  <2>3. i \notin DOMAIN from
    BY <2>2, <1>1, <1>9 DEF tmevt_down, LCHILD
  <2>4. trail(h, from, i) = {i}
    <3>1. \A j \in {i} \cap DOMAIN from : from[j] \in {i}
      BY <2>3
    <3>2. {i} \in SUBSET DOMAIN h.node /\ i \in DOMAIN h.node
      BY <1>1
    <3>3. trail(h, from, i) \subseteq {i}
      BY <3>1, <3>2 DEF trail
    <3>4. i \in trail(h, from, i)
      BY <3>2 DEF trail
    <3> QED BY <3>3, <3>4
  <2>5. DOMAIN h.node = 1 .. L
    BY <1>1
  <2>6. r.node = h.node
    <3>1. r = place(h, from, i, n)
      BY <1>9
    <3>2. r.node = [j \in 1 .. L |-> IF j \notin {i} THEN h.node[j]
                                     ELSE IF j \in DOMAIN from THEN h.node[from[j]] ELSE n]
      BY <3>1, <2>4, <2>5 DEF place
    <3>3. r.node = [j \in 1 .. L |-> h.node[j]]
      BY <3>2, <2>3, <1>9, <1>1
    <3> QED BY <3>3, <1>1, <2>5
  <2> DEFINE at(f) == {j \in {i} : r.node[j].tmevtb = f}
  <2>7. \A f \in Event : r.index[f] = IF at(f) = {} THEN h.index[f] ELSE CHOOSE j \in at(f) : TRUE
    BY <2>4, <1>9 DEF place
  <2>8. ASSUME NEW f \in Event PROVE r.index[f] = h.index[f]
    <3>1. CASE f = e
      <4>1. at(f) = {i}
        BY <3>1, <2>6
      <4> HIDE DEF at
      <4>2. r.index[f] = i
        BY <4>1, <2>7
      <4> QED BY <4>2, <3>1, <1>2
    <3>2. CASE f # e
      <4>1. at(f) = {}
        BY <3>2, <2>6
      <4> HIDE DEF at
      <4> QED BY <4>1, <2>7
    <3> QED BY <3>1, <3>2
  <2>9. r = [node |-> r.node, index |-> r.index] /\ r.index = [f \in Event |-> r.index[f]]
    <3> DEFINE a == [j \in DOMAIN h.node |->
                 IF j \notin {i} THEN h.node[j]
                 ELSE IF j \in DOMAIN from THEN h.node[from[j]] ELSE n]
               b == [f \in Event |->
                      IF {j \in {i} : a[j].tmevtb = f} = {} THEN h.index[f]
                      ELSE CHOOSE j \in {j \in {i} : a[j].tmevtb = f} : TRUE]
    <3>1. r = place(h, from, i, n)
      BY <1>9
    <3>2. r = [node |-> a, index |-> b]
      BY <3>1, <2>4 DEF place
    <3>3. b = [f \in Event |-> b[f]]
      OBVIOUS
    <3> HIDE DEF a, b, r
    <3> QED BY <3>2, <3>3
  <2>10. r.index \in [Event -> Nat]
    <3> HIDE DEF r
    <3>1. \A f \in Event : r.index[f] \in Nat
      BY <2>8, <1>1
    <3> QED BY <2>9, <3>1
  <2>11. HeapType(r) /\ Len(r.node) = L
    BY <2>6, <2>9, <2>10, <1>1 DEF HeapType
  <2> HIDE DEF r
  <2>12. /\ HeapType(g) /\ Len(g.node) = m
         /\ \A j \in 1 .. m : g.node[j] = h.node[j]
         /\ \A f \in Event : f # e => g.index[f] = h.index[f]
    BY <2>6, <2>8, <2>11, <1>7, <1>1
  <2>13. 1 .. L \ {i} = 1 .. m
    BY <1>1, <1>9
  <2>14. \A k \in 1 .. m : /\ h.node[k].tmevtb # e /\ h.node[k].tmevtb \in Event
                           /\ g.index[g.node[k].tmevtb] = k
    BY <2>12, <2>13, <1>2
  <2>15. OrderBut(g.node, m, 0)
    <3> SUFFICES ASSUME NEW j \in 2 .. m
                 PROVE  rel(g.node[PARENT(j)].time) <= rel(g.node[j].time)
      BY DEF OrderBut
    <3>1. PARENT(j) \in 1 .. m /\ j \in 1 .. m /\ j \in 2 .. L
      BY <1>1, Neighbours
    <3> QED BY <3>1, <2>12 DEF Heap, OrderBut
  <2>16. Heap(g)
    BY <2>12, <2>14, <2>15 DEF Heap
  <2>17. Holds(g) = Holds(h) \ {e}
    <3>1. Holds(g) = {h.node[k].tmevtb : k \in 1 .. m}
      BY <2>12 DEF Holds
    <3> QED BY <3>1, <1>5, <2>13
  <2>18. \A k \in 1 .. m : TimeOf(g, h.node[k].tmevtb) = h.node[k].time
    BY <2>12, <2>14 DEF TimeOf
  <2>19. \A f \in Holds(h) \ {e} : TimeOf(g, f) = TimeOf(h, f)
    BY <2>13, <2>18, <1>1, <1>5, <1>6
  <2> QED BY <2>16, <2>17, <2>19 DEF g
<1>10. CASE m # 0 /\ i # L
  <2>1. m \in 1 .. Len(h.node) /\ i \in 1 .. m /\ r = place(h, from, i, n)
    BY <1>1, <1>10
  <2> HIDE DEF r
  <2>2. IndexBut(h, m, i, n.tmevtb)
    <3> SUFFICES ASSUME NEW j \in 1 .. m
                 PROVE  h.index[h.node[j].tmevtb] = j /\ h.node[j].tmevtb # n.tmevtb
      BY DEF IndexBut
    <3>1. j \in 1 .. L /\ L \in 1 .. L /\ j # L
      BY <1>1
    <3> QED BY <3>1, <1>1, <1>2
  <2>3. \A j \in 2 .. m : rel(h.node[PARENT(j)].time) <= rel(h.node[j].time)
    BY <1>1 DEF Heap, OrderBut
  <2>4. OrderBut(h.node, m, 0) /\ OrderBut(h.node, m, i)
    BY <2>3 DEF OrderBut
  <2>5. \A k \in 1 .. L : rel(h.node[k].time) \in Nat
    <3> SUFFICES ASSUME NEW k \in 1 .. L PROVE rel(h.node[k].time) \in Nat
      OBVIOUS
    <3>1. h.node[k].time \in EVTTIM
      BY <1>2 DEF Node
    <3> QED BY <3>1, RelRange
  <2>6. i > 1 => PARENT(i) \in 1 .. L
    BY <2>1, <1>1, Neighbours
  <2>7. ASSUME goes_up PROVE Placed(h, m, i, n, r)
    <3>1. from = tmevt_up(h, n.time)
      BY <2>7 DEF from
    <3>2. ASSUME NEW j \in 2 .. m, PARENT(j) = i
          PROVE  /\ i > 1 /\ EVTTIM_LT(n.time, h.node[PARENT(i)].time)
                 /\ rel(h.node[PARENT(i)].time) <= rel(h.node[j].time)
      <4>1. i > 1 /\ EVTTIM_LT(n.time, h.node[PARENT(i)].time)
        BY <2>7
      <4>2. rel(h.node[i].time) <= rel(h.node[j].time)
        BY <3>2, <2>3
      <4>3. rel(h.node[PARENT(i)].time) <= rel(h.node[i].time)
        BY <4>1, <2>1, <2>3
      <4>4. j \in 1 .. L
        BY <1>1
      <4> QED BY <4>1, <4>2, <4>3, <4>4, <2>5, <2>6
    <3>3. r = place(h, tmevt_up(h, n.time), i, n)
      BY <2>1, <3>1
    <3> HIDE DEF m, n, goes_up
    <3> QED BY <3>2, <3>3, <2>1, <2>2, <2>4, <1>1, <1>3, UpPlaces
  <2>8. ASSUME ~goes_up PROVE Placed(h, m, i, n, r)
    <3>1. from = tmevt_down(h, n.time, m)
      BY <2>8 DEF from
    <3>2. i # 1 => EVTTIM_LE(h.node[PARENT(i)].time, n.time)
      <4> SUFFICES ASSUME i # 1 PROVE EVTTIM_LE(h.node[PARENT(i)].time, n.time)
        OBVIOUS
      <4>1. i > 1 /\ L \in 1 .. L
        BY <2>1, <1>1
      <4>2. ~(rel(n.time) < rel(h.node[PARENT(i)].time))
        BY <4>1, <2>8 DEF EVTTIM_LT
      <4>3. rel(n.time) \in Nat /\ rel(h.node[PARENT(i)].time) \in Nat
        BY <4>1, <2>5, <2>6, <1>1
      <4> QED BY <4>2, <4>3 DEF EVTTIM_LE
    <3>3. r = place(h, tmevt_down(h, n.time, m), i, n)
      BY <2>1, <3>1
    <3> HIDE DEF m, n, goes_up
    <3> QED BY <3>2, <3>3, <2>1, <2>2, <2>4, <1>1, <1>3, DownPlaces
  <2>9. Placed(h, m, i, n, r)
    <3> HIDE DEF goes_up
    <3> QED BY <2>7, <2>8
  <2>10. HeapType(r) /\ Len(r.node) = L
    BY <2>9 DEF Placed, Kept
  <2>11. /\ HeapType(g) /\ Len(g.node) = m
         /\ \A j \in 1 .. m : g.node[j] = r.node[j]
         /\ \A f \in Event : f # e => g.index[f] = r.index[f]
    BY <2>10, <1>7
  <2>12. \A k \in 1 .. L : k # i => h.node[k].tmevtb # e
    BY <1>2
  <2>13. ASSUME NEW j \in 1 .. m
         PROVE  r.node[j].tmevtb \in Event /\ r.node[j].tmevtb # e
    <3>1. r.node[j] = n \/ \E k \in 1 .. m : k # i /\ r.node[j] = h.node[k]
      BY <2>9 DEF Placed, Kept
    <3>2. CASE r.node[j] = n
      <4>1. L \in 1 .. L /\ L # i /\ r.node[j] = h.node[L]
        BY <3>2, <1>1, <1>10
      <4> QED BY <4>1, <1>2, <2>12
    <3>3. CASE \E k \in 1 .. m : k # i /\ r.node[j] = h.node[k]
      <4>1. PICK k \in 1 .. m : k # i /\ r.node[j] = h.node[k]
        BY <3>3
      <4>2. k \in 1 .. L
        BY <1>1
      <4> QED BY <4>1, <4>2, <1>2, <2>12
    <3> QED BY <3>1, <3>2, <3>3
  <2>14. \A j \in 1 .. m : /\ g.node[j] = r.node[j]
                           /\ g.index[r.node[j].tmevtb] = r.index[r.node[j].tmevtb]
    BY <2>11, <2>13
  <2> HIDE DEF m, n
  <2>15. /\ Heap(g)
         /\ Holds(g) = {h.node[k].tmevtb : k \in 1 .. m \ {i}} \cup {n.tmevtb}
         /\ \A k \in 1 .. m \ {i} : TimeOf(g, h.node[k].tmevtb) = h.node[k].time
         /\ TimeOf(g, n.tmevtb) = n.time
    <3>1. HeapType(h) /\ m \in 1 .. Len(h.node) /\ i \in 1 .. m
      BY <2>1, <1>1
    <3>2. CutTo(r, m, g)
      BY <2>11, <2>14 DEF CutTo
    <3> QED BY <3>1, <3>2, <2>9, PlacedIsHeap
  <2>16. 1 .. L \ {i} = (1 .. m \ {i}) \cup {L}
    BY <1>1, <1>10, <2>1
  <2>17. Holds(g) = Holds(h) \ {e}
    BY <2>15, <2>16, <1>1, <1>5
  <2>18. \A k \in 1 .. L \ {i} : TimeOf(g, h.node[k].tmevtb) = h.node[k].time
    BY <2>15, <2>16, <1>1
  <2>19. \A f \in Holds(h) \ {e} : TimeOf(g, f) = TimeOf(h, f)
    BY <2>18, <1>5, <1>6
  <2> QED BY <2>15, <2>17, <2>19 DEF g
<1> QED
  BY <1>8, <1>9, <1>10

(* The first node of a heap is the earliest. *)
LEMMA RootIsFirst ==
  ASSUME current_time \in EVTTIM, NEW h, Heap(h), NEW j \in 1 .. Len(h.node)
  PROVE  rel(h.node[1].time) <= rel(h.node[j].time)
<1> DEFINE R(k) == rel(h.node[k].time)
           L == Len(h.node)
           S == {k \in 1 .. L : ~(R(1) <= R(k))}
<1>1. L \in Nat
  BY DEF Heap, HeapType
<1>2. ASSUME NEW k \in 1 .. L PROVE R(k) \in Nat
  <2>1. h.node[k] \in Node
    BY DEF Heap, HeapType
  <2>2. h.node[k].time \in EVTTIM
    BY <2>1 DEF Node
  <2> QED BY <2>2, RelRange
<1> SUFFICES ASSUME S # {} PROVE FALSE
  BY <1>2
<1>3. S \subseteq Nat
  BY <1>1
<1>4. PICK k \in S : \A l \in S : k <= l
  BY <1>3, LeastNatural
<1>5. 1 \in 1 .. L
  BY <1>1
<1>6. k # 1
  BY <1>2, <1>5
<1>7. k \in 2 .. L /\ k \in Nat
  BY <1>1, <1>6
<1>8. PARENT(k) \in 1 .. L /\ PARENT(k) < k
  BY <1>1, <1>7, Neighbours
<1>9. R(PARENT(k)) <= R(k)
  BY <1>7 DEF Heap, OrderBut
<1>10. PARENT(k) \notin S
  <2> HIDE DEF S
  <2> QED BY <1>3, <1>4, <1>7, <1>8
<1>11. R(1) <= R(PARENT(k))
  BY <1>8, <1>10
<1> QED
  BY <1>2, <1>5, <1>7, <1>8, <1>9, <1>11

-----------------------------------------------------------------------------
(* Part 4: times that wrap around. *)

(* Numbers less than W from the range of times. *)
LEMMA Wrap ==
  ASSUME NEW x \in Int, 0 - W <= x, x < 2 * W
  PROVE  /\ x % W \in EVTTIM
         /\ x % W = IF x < 0 THEN x + W ELSE IF x < W THEN x ELSE x - W
<1>1. W \in Nat /\ W > 0
  BY TimeAssumption
<1>2. CASE x < 0
  <2>1. x + W \in 0 .. W - 1
    BY <1>1, <1>2
  <2>2. (x + W) - W = x
    BY <1>1
  <2>3. \A a \in 0 .. W - 1 : (a - W) % W = a
    BY <1>1
  <2> QED BY <1>1, <1>2, <2>1, <2>2, <2>3 DEF EVTTIM
<1>3. CASE 0 <= x /\ x < W
  BY <1>1, <1>3 DEF EVTTIM
<1>4. CASE W <= x
  <2>1. x - W \in 0 .. W - 1
    BY <1>1, <1>4
  <2>2. (x - W) + W = x
    BY <1>1
  <2>3. \A a \in 0 .. W - 1 : (a + W) % W = a
    BY <1>1
  <2> QED BY <1>1, <1>4, <2>1, <2>2, <2>3 DEF EVTTIM
<1> QED
  BY <1>1, <1>2, <1>3, <1>4

(* How far ahead of the present a time is. *)
LEMMA RelIs ==
  ASSUME current_time \in EVTTIM, NEW t \in EVTTIM
  PROVE  rel(t) = IF current_time <= t THEN t - current_time ELSE t - current_time + W
<1>1. W \in Nat /\ W > 0
  BY TimeAssumption
<1>2. t - current_time \in Int /\ 0 - W <= t - current_time /\ t - current_time < 2 * W
  BY <1>1 DEF EVTTIM
<1>3. (t - current_time) % W = IF t - current_time < 0 THEN t - current_time + W
                               ELSE IF t - current_time < W THEN t - current_time
                               ELSE t - current_time - W
  BY <1>2, Wrap
<1> QED
  BY <1>1, <1>3 DEF EVTTIM, rel

(* A time d after t, when that is not a whole turn ahead. *)
LEMMA RelLater ==
  ASSUME current_time \in EVTTIM, NEW t \in EVTTIM, NEW d \in Nat, rel(t) + d < W
  PROVE  (t + d) % W \in EVTTIM /\ rel((t + d) % W) = rel(t) + d
<1>1. W \in Nat /\ W > 0
  BY TimeAssumption
<1>2. t \in 0 .. W - 1 /\ current_time \in 0 .. W - 1
  BY DEF EVTTIM
<1>3. rel(t) = IF current_time <= t THEN t - current_time ELSE t - current_time + W
  BY RelIs
<1>4. 0 - W <= t + d /\ t + d < 2 * W /\ t + d \in Int
  BY <1>1, <1>2, <1>3
<1> DEFINE u == (t + d) % W
<1>5. u \in EVTTIM /\ u = IF t + d < 0 THEN t + d + W ELSE IF t + d < W THEN t + d ELSE t + d - W
  <2> DEFINE y == t + d
  <2>1. y \in Int /\ 0 - W <= y /\ y < 2 * W
    BY <1>4
  <2> HIDE DEF y
  <2>2. y % W \in EVTTIM /\ y % W = IF y < 0 THEN y + W ELSE IF y < W THEN y ELSE y - W
    BY <2>1, Wrap
  <2>3. u = y % W
    BY DEF y
  <2> HIDE DEF u
  <2>4. u \in EVTTIM /\ u = IF y < 0 THEN y + W ELSE IF y < W THEN y ELSE y - W
    BY <2>2, <2>3
  <2>5. u = IF t + d < 0 THEN t + d + W ELSE IF t + d < W THEN t + d ELSE t + d - W
    BY <1>1, <1>4, <2>4 DEF y
  <2> QED BY <2>4, <2>5
<1> HIDE DEF u
<1>6. rel(u) = IF current_time <= u THEN u - current_time ELSE u - current_time + W
  BY <1>5, RelIs
<1> QED
  BY <1>1, <1>2, <1>3, <1>4, <1>5, <1>6 DEF u

(* From a later present, s, what is not before s comes as much earlier. *)
LEMMA RelFrom ==
  ASSUME current_time \in EVTTIM, NEW t \in EVTTIM, NEW s \in EVTTIM, rel(s) <= rel(t)
  PROVE  (t - s) % W = rel(t) - rel(s)
<1>1. W \in Nat /\ W > 0
  BY TimeAssumption
<1>2. t \in 0 .. W - 1 /\ s \in 0 .. W - 1 /\ current_time \in 0 .. W - 1
  BY DEF EVTTIM
<1>3. /\ rel(t) = IF current_time <= t THEN t - current_time ELSE t - current_time + W
      /\ rel(s) = IF current_time <= s THEN s - current_time ELSE s - current_time + W
  BY RelIs
<1>4. t - s \in Int /\ 0 - W <= t - s /\ t - s < 2 * W
  BY <1>1, <1>2
<1> DEFINE x == (t - s) % W
<1>5. x = IF t - s < 0 THEN t - s + W ELSE IF t - s < W THEN t - s ELSE t - s - W
  BY <1>4, Wrap
<1> HIDE DEF x
<1>6. x = rel(t) - rel(s)
  BY <1>1, <1>2, <1>3, <1>5
<1> QED
  BY <1>6 DEF x

(* Division with remainder. *)
LEMMA Quotient ==
  ASSUME NEW a \in Nat, NEW b \in Nat \ {0}
  PROVE  a = b * (a \div b) + (a % b) /\ a % b \in 0 .. b - 1 /\ a \div b \in Nat
  OBVIOUS

(* The constants. *)
LEMMA Ticks ==
  /\ TIC_NUME \in Nat /\ TIC_DENO \in Nat /\ TIC_DENO >= 1 /\ W \in Nat /\ W > 4
  /\ TIC_NUME \div TIC_DENO \in Nat /\ TIC_NUME % TIC_DENO \in 0 .. TIC_DENO - 1
  /\ TIC_NUME = TIC_DENO * (TIC_NUME \div TIC_DENO) + (TIC_NUME % TIC_DENO)
  /\ TMAX_RELTIM \in Nat /\ TIC_NUME \div TIC_DENO + 2 + TMAX_RELTIM < W
  /\ Reltim \subseteq 0 .. TMAX_RELTIM /\ Cyc \subseteq Event /\ TA_STA \subseteq Cyc
  /\ \A c \in Cyc : cyctim[c] \in 1 .. TMAX_RELTIM /\ cycphs[c] \in 0 .. TMAX_RELTIM
<1> DEFINE q == TIC_NUME \div TIC_DENO
<1>1. TIC_NUME \in Nat /\ TIC_DENO \in Nat /\ TIC_DENO >= 1 /\ W \in Nat
  BY TimeAssumption
<1>2. /\ q \in Nat /\ TIC_NUME % TIC_DENO \in 0 .. TIC_DENO - 1
      /\ TIC_NUME = TIC_DENO * q + (TIC_NUME % TIC_DENO)
  <2>1. TIC_DENO \in Nat \ {0}
    BY <1>1
  <2> QED BY <1>1, <2>1, Quotient
<1>3. W > 2 * (q + 2)
  BY TimeAssumption
<1> HIDE DEF q
<1>4. W > 4
  BY <1>1, <1>2, <1>3
<1>5. TMAX_RELTIM \in Nat /\ 2 * (TMAX_RELTIM + 1) <= W
  BY <1>1, <1>4 DEF TMAX_RELTIM
<1>6. q + 2 + TMAX_RELTIM < W
  BY <1>1, <1>2, <1>3, <1>5
<1>7. /\ Reltim \subseteq 0 .. TMAX_RELTIM /\ Cyc \subseteq Event /\ TA_STA \subseteq Cyc
      /\ \A c \in Cyc : cyctim[c] \in 1 .. TMAX_RELTIM /\ cycphs[c] \in 0 .. TMAX_RELTIM
  BY TimeAssumption
<1> QED
  BY <1>1, <1>2, <1>4, <1>5, <1>6, <1>7 DEF q

-----------------------------------------------------------------------------
(* Part 5: the invariant. *)

(* The inductive invariant: besides HeapInv, where the clock is, what is   *)
(* still to be started, and that nothing happens before all is.            *)
ClockInv ==
  /\ current_time \in EVTTIM /\ next_time \in EVTTIM
  /\ next_subtime \in 0 .. TIC_DENO - 1
  /\ rel(next_time) <= TIC_NUME \div TIC_DENO + 1

CycInv ==
  /\ cycsta \in [Cyc -> BOOLEAN] /\ evttim \in [Cyc -> EVTTIM]
  /\ \A c \in Cyc : /\ cycsta[c] <=> c \in Holds(H)
                    /\ cycsta[c] => TimeOf(H, c) = evttim[c]

StartInv ==
  /\ starting \subseteq TA_STA
  /\ \A c \in starting : ~cycsta[c]
  /\ starting # {} =>
       /\ current_time = 0 /\ next_time = TIC_NUME \div TIC_DENO
       /\ next_subtime = TIC_NUME % TIC_DENO
       /\ ~ticking /\ called = {}

HeapIInv == Heap(H) /\ ClockInv /\ CycInv /\ StartInv

(* An event is queued when the heap holds its block. *)
LEMMA QueuedIsHeld ==
  ASSUME Heap(H), NEW e
  PROVE  queued(e) <=> e \in Holds(H)
<1>1. DOMAIN H.node = 1 .. Len(H.node)
  BY DEF Heap, HeapType
<1> QED
  BY <1>1 DEF queued, Holds

(* The block of a held event knows its node. *)
LEMMA HeldIndex ==
  ASSUME NEW h, Heap(h), NEW e \in Holds(h)
  PROVE  h.index[e] \in 1 .. Len(h.node) /\ h.node[h.index[e]].tmevtb = e
BY DEF Heap, Holds

(* Held events are events and their times are times. *)
LEMMA HeldTypes ==
  ASSUME NEW h, Heap(h), NEW e \in Holds(h)
  PROVE  e \in Event /\ TimeOf(h, e) \in EVTTIM
<1>1. PICK k \in 1 .. Len(h.node) : e = h.node[k].tmevtb
  BY DEF Holds
<1>2. h.node[k] \in Node
  BY DEF Heap, HeapType
<1>3. h.index[e] = k
  BY <1>1 DEF Heap
<1> QED
  BY <1>1, <1>2, <1>3 DEF Node, TimeOf

(* tmevtb_delete removes the block and changes no other. *)
LEMMA DeleteKeeps ==
  ASSUME current_time \in EVTTIM, NEW h, Heap(h), NEW e \in Holds(h)
  PROVE  /\ Heap(tmevtb_delete(h, e))
         /\ Holds(tmevtb_delete(h, e)) = Holds(h) \ {e}
         /\ \A f \in Holds(h) \ {e} : TimeOf(tmevtb_delete(h, e), f) = TimeOf(h, f)
<1>1. h.index[e] \in 1 .. Len(h.node) /\ h.node[h.index[e]].tmevtb = e
  BY HeldIndex
<1> QED
  BY <1>1, RemoveKeeps DEF tmevtb_delete

(* The event at the top, and the heap without it. *)
LEMMA DeleteTopKeeps ==
  ASSUME current_time \in EVTTIM, NEW h, Heap(h), Len(h.node) > 0,
         NEW e, e = h.node[1].tmevtb
  PROVE  /\ e \in Holds(h) /\ TimeOf(h, e) = h.node[1].time
         /\ \A f \in Holds(h) : rel(TimeOf(h, e)) <= rel(TimeOf(h, f))
         /\ Heap(tmevtb_delete_top(h))
         /\ Holds(tmevtb_delete_top(h)) = Holds(h) \ {e}
         /\ \A f \in Holds(h) \ {e} : TimeOf(tmevtb_delete_top(h), f) = TimeOf(h, f)
<1>1. Len(h.node) \in Nat /\ 1 \in 1 .. Len(h.node)
  BY DEF Heap, HeapType
<1>2. e \in Holds(h)
  BY <1>1 DEF Holds
<1>3. \A k \in 1 .. Len(h.node) : TimeOf(h, h.node[k].tmevtb) = h.node[k].time
  BY DEF Heap, TimeOf
<1>4. ASSUME NEW f \in Holds(h) PROVE rel(TimeOf(h, e)) <= rel(TimeOf(h, f))
  <2>1. PICK k \in 1 .. Len(h.node) : f = h.node[k].tmevtb
    BY DEF Holds
  <2> QED BY <2>1, <1>1, <1>3, RootIsFirst
<1> QED
  BY <1>1, <1>2, <1>3, <1>4, RemoveKeeps DEF tmevtb_delete_top

(* The invariant is not disturbed by a change of the heap and of cyclic    *)
(* handlers at the same time that agree.                                   *)
LEMMA SameClock ==
  ASSUME HeapIInv, UNCHANGED clock, NEW h, H' = h, Heap(h),
         cycsta' \in [Cyc -> BOOLEAN], evttim' \in [Cyc -> EVTTIM],
         \A c \in Cyc : /\ cycsta'[c] <=> c \in Holds(h)
                        /\ cycsta'[c] => TimeOf(h, c) = evttim'[c],
         starting' \subseteq starting,
         \A c \in starting' : cycsta'[c] = cycsta[c],
         starting' # {} => UNCHANGED <<ticking, called>>
  PROVE  HeapIInv'
<1>1. current_time' = current_time /\ next_time' = next_time /\ next_subtime' = next_subtime
  BY DEF clock
<1>2. Heap(H)'
  BY <1>1 DEF Heap, OrderBut, rel
<1>3. ClockInv'
  BY <1>1 DEF HeapIInv, ClockInv, rel
<1>4. CycInv'
  BY DEF CycInv, Holds, TimeOf
<1>5. StartInv'
  BY <1>1 DEF HeapIInv, StartInv
<1> QED
  BY <1>2, <1>3, <1>4, <1>5 DEF HeapIInv

(* The system starts with an empty heap. *)
LEMMA HeapIInvInit == Init => HeapIInv
<1> SUFFICES ASSUME Init PROVE HeapIInv
  OBVIOUS
<1> DEFINE q == TIC_NUME \div TIC_DENO
<1>1. H = [node |-> << >>, index |-> [e \in Event |-> 0]]
  BY DEF Init
<1>2. H.node = << >> /\ Len(H.node) = 0 /\ H.index \in [Event -> Nat]
  BY <1>1
<1>3. HeapType(H)
  BY <1>1, <1>2 DEF HeapType
<1>4. Heap(H) /\ Holds(H) = {}
  BY <1>2, <1>3 DEF Heap, OrderBut, Holds
<1>5. 0 \in EVTTIM /\ q \in EVTTIM /\ q \in Nat
  <2>1. q \in Nat /\ W \in Nat /\ TMAX_RELTIM \in Nat /\ q + 2 + TMAX_RELTIM < W
    BY Ticks
  <2> HIDE DEF q
  <2> QED BY <2>1 DEF EVTTIM
<1>6. current_time = 0 /\ next_time = q /\ next_subtime = TIC_NUME % TIC_DENO
  BY DEF Init
<1>7. rel(next_time) = q
  <2> HIDE DEF q
  <2>1. q - 0 = q /\ 0 <= q
    BY <1>5
  <2> QED BY <1>5, <1>6, <2>1, RelIs
<1>8. ClockInv
  <2>1. next_subtime \in 0 .. TIC_DENO - 1
    BY <1>6, Ticks
  <2>2. q <= q + 1
    BY <1>5
  <2> QED BY <1>5, <1>6, <1>7, <2>1, <2>2 DEF ClockInv
<1>9. CycInv
  <2>1. cycsta = [c \in Cyc |-> FALSE] /\ evttim = [c \in Cyc |-> 0]
    BY DEF Init
  <2> QED BY <2>1, <1>4, <1>5 DEF CycInv
<1>10. StartInv
  <2>1. cycsta = [c \in Cyc |-> FALSE] /\ starting = TA_STA /\ ticking = FALSE /\ called = {}
    BY DEF Init
  <2>2. TA_STA \subseteq Cyc
    BY Ticks
  <2> QED BY <2>1, <2>2, <1>6 DEF StartInv
<1> QED
  BY <1>4, <1>8, <1>9, <1>10 DEF HeapIInv

-----------------------------------------------------------------------------
(* Part 6: what the actions do. *)

(* In h, unlike in H, event e is registered for t; or it is not there.     *)
Registers(h, e, t) ==
  /\ Holds(h) = Holds(H) \cup {e}
  /\ TimeOf(h, e) = t
  /\ \A f \in Holds(H) \ {e} : TimeOf(h, f) = TimeOf(H, f)

Cancels(h, e) ==
  /\ e \in Holds(H)
  /\ Holds(h) = Holds(H) \ {e}
  /\ \A f \in Holds(H) \ {e} : TimeOf(h, f) = TimeOf(H, f)

RoundUp == IF next_subtime > 0 THEN 1 ELSE 0

(* The clock in numbers. *)
LEMMA ClockNumbers ==
  ASSUME HeapIInv
  PROVE  /\ current_time \in EVTTIM /\ next_time \in EVTTIM
         /\ rel(next_time) \in Nat /\ rel(next_time) + 1 + TMAX_RELTIM < W
         /\ RoundUp \in {0, 1} /\ TMAX_RELTIM \in Nat /\ W \in Nat
<1> DEFINE q == TIC_NUME \div TIC_DENO
<1>1. q \in Nat /\ TMAX_RELTIM \in Nat /\ W \in Nat /\ q + 2 + TMAX_RELTIM < W
  BY Ticks
<1>2. current_time \in EVTTIM /\ next_time \in EVTTIM /\ rel(next_time) <= q + 1
  BY DEF HeapIInv, ClockInv
<1>3. rel(next_time) \in Nat
  BY <1>2, RelRange
<1>4. RoundUp \in {0, 1}
  BY DEF RoundUp
<1> HIDE DEF q
<1> QED
  BY <1>1, <1>2, <1>3, <1>4

(* A relative time is counted from the next tick, rounded up. *)
LEMMA TimeAhead ==
  ASSUME HeapIInv, NEW r \in 0 .. TMAX_RELTIM
  PROVE  /\ (base_time + r) % W \in EVTTIM
         /\ rel((base_time + r) % W) = rel(next_time) + RoundUp + r
<1>1. /\ current_time \in EVTTIM /\ next_time \in EVTTIM
      /\ rel(next_time) \in Nat /\ rel(next_time) + 1 + TMAX_RELTIM < W
      /\ RoundUp \in {0, 1} /\ TMAX_RELTIM \in Nat /\ W \in Nat
  BY ClockNumbers
<1>2. RoundUp \in Nat /\ rel(next_time) + RoundUp < W
  BY <1>1
<1>3. base_time = (next_time + RoundUp) % W
  BY DEF base_time, RoundUp
<1>4. base_time \in EVTTIM /\ rel(base_time) = rel(next_time) + RoundUp
  BY <1>1, <1>2, <1>3, RelLater
<1>5. rel(base_time) + r < W /\ r \in Nat
  BY <1>1, <1>4
<1> QED
  BY <1>1, <1>4, <1>5, RelLater

(* The next period of a handler that is due. *)
LEMMA NextPeriod ==
  ASSUME HeapIInv, NEW c \in Cyc, rel(evttim[c]) <= rel(next_time)
  PROVE  /\ (evttim[c] + cyctim[c]) % W \in EVTTIM
         /\ rel((evttim[c] + cyctim[c]) % W) = rel(evttim[c]) + cyctim[c]
<1>1. /\ current_time \in EVTTIM
      /\ rel(next_time) \in Nat /\ rel(next_time) + 1 + TMAX_RELTIM < W
      /\ TMAX_RELTIM \in Nat /\ W \in Nat
  BY ClockNumbers
<1>2. evttim[c] \in EVTTIM
  BY DEF HeapIInv, CycInv
<1>3. rel(evttim[c]) \in Nat
  BY <1>1, <1>2, RelRange
<1>4. cyctim[c] \in 1 .. TMAX_RELTIM
  BY Ticks
<1>5. cyctim[c] \in Nat /\ rel(evttim[c]) + cyctim[c] < W
  BY <1>1, <1>3, <1>4
<1> QED
  BY <1>1, <1>2, <1>5, RelLater

(* cyclic_initialize registers a handler for its phase. *)
LEMMA StartStep ==
  ASSUME HeapIInv, NEW c \in Cyc, cyclic_initialize(c)
  PROVE  HeapIInv' /\ Registers(H', c, cycphs[c]) /\ c \notin Holds(H)
<1> DEFINE h == tmevtb_insert(H, c, cycphs[c])
<1>1. /\ c \in starting /\ starting' = starting \ {c}
      /\ cycsta' = [cycsta EXCEPT ![c] = TRUE]
      /\ H' = h
      /\ evttim' = [evttim EXCEPT ![c] = cycphs[c]]
      /\ UNCHANGED clock /\ UNCHANGED <<ticking, called>>
  BY DEF cyclic_initialize
<1>2. Heap(H) /\ current_time \in EVTTIM /\ StartInv /\ CycInv
  BY DEF HeapIInv, ClockInv
<1>3. c \notin Holds(H)
  BY <1>1, <1>2 DEF StartInv, CycInv
<1>4. c \in Event /\ cycphs[c] \in EVTTIM
  <2>1. /\ W \in Nat /\ TMAX_RELTIM \in Nat /\ cycphs[c] \in 0 .. TMAX_RELTIM /\ c \in Event
        /\ TIC_NUME \div TIC_DENO \in Nat /\ TIC_NUME \div TIC_DENO + 2 + TMAX_RELTIM < W
    BY Ticks
  <2> DEFINE q == TIC_NUME \div TIC_DENO
  <2>2. q \in Nat /\ q + 2 + TMAX_RELTIM < W
    BY <2>1
  <2> HIDE DEF q
  <2> QED BY <2>1, <2>2 DEF EVTTIM
<1>5. /\ Heap(h) /\ Holds(h) = Holds(H) \cup {c} /\ TimeOf(h, c) = cycphs[c]
      /\ \A f \in Holds(H) : TimeOf(h, f) = TimeOf(H, f)
  BY <1>2, <1>3, <1>4, InsertKeeps
<1> HIDE DEF h
<1>6. /\ cycsta' \in [Cyc -> BOOLEAN] /\ evttim' \in [Cyc -> EVTTIM]
      /\ \A d \in Cyc : /\ cycsta'[d] <=> d \in Holds(h)
                        /\ cycsta'[d] => TimeOf(h, d) = evttim'[d]
  <2>1. cycsta' \in [Cyc -> BOOLEAN] /\ evttim' \in [Cyc -> EVTTIM]
    BY <1>1, <1>2, <1>4 DEF CycInv
  <2>2. /\ cycsta'[c] /\ evttim'[c] = cycphs[c]
        /\ \A d \in Cyc \ {c} : cycsta'[d] = cycsta[d] /\ evttim'[d] = evttim[d]
    BY <1>1, <1>2 DEF CycInv
  <2> QED BY <2>1, <2>2, <1>2, <1>3, <1>5 DEF CycInv
<1>7. starting' \subseteq starting /\ \A d \in starting' : cycsta'[d] = cycsta[d]
  BY <1>1, <1>2, Ticks DEF CycInv, StartInv
<1>8. HeapIInv'
  BY <1>1, <1>5, <1>6, <1>7, SameClock
<1> QED
  BY <1>1, <1>3, <1>5, <1>8 DEF Registers

(* tmevtb_enqueue registers an event that is no handler. *)
LEMMA EnqueueStep ==
  ASSUME HeapIInv, starting = {}, NEW e \in Event, NEW r \in Reltim, tmevtb_enqueue(e, r)
  PROVE  HeapIInv' /\ Registers(H', e, (base_time + r) % W) /\ e \notin Holds(H)
<1> DEFINE t == (base_time + r) % W
           h == tmevtb_insert(H, e, t)
<1>1. /\ e \notin Cyc /\ ~queued(e) /\ H' = h
      /\ UNCHANGED clock /\ UNCHANGED <<cycsta, evttim, starting>>
  BY DEF tmevtb_enqueue
<1>2. Heap(H) /\ current_time \in EVTTIM /\ CycInv
  BY DEF HeapIInv, ClockInv
<1>3. e \notin Holds(H)
  BY <1>1, <1>2, QueuedIsHeld
<1>4. t \in EVTTIM
  BY Ticks, TimeAhead
<1> HIDE DEF t
<1>5. /\ Heap(h) /\ Holds(h) = Holds(H) \cup {e} /\ TimeOf(h, e) = t
      /\ \A f \in Holds(H) : TimeOf(h, f) = TimeOf(H, f)
  BY <1>2, <1>3, <1>4, InsertKeeps
<1> HIDE DEF h
<1>6. /\ cycsta' \in [Cyc -> BOOLEAN] /\ evttim' \in [Cyc -> EVTTIM]
      /\ \A d \in Cyc : /\ cycsta'[d] <=> d \in Holds(h)
                        /\ cycsta'[d] => TimeOf(h, d) = evttim'[d]
  BY <1>1, <1>2, <1>5 DEF CycInv
<1>7. starting' = {} /\ starting' \subseteq starting
  BY <1>1
<1>8. HeapIInv'
  BY <1>1, <1>5, <1>6, <1>7, SameClock
<1> QED
  BY <1>1, <1>3, <1>5, <1>8 DEF Registers, t

(* tmevtb_dequeue cancels an event that is no handler. *)
LEMMA DequeueStep ==
  ASSUME HeapIInv, starting = {}, NEW e \in Event, tmevtb_dequeue(e)
  PROVE  HeapIInv' /\ Cancels(H', e)
<1> DEFINE h == tmevtb_delete(H, e)
<1>1. /\ e \notin Cyc /\ queued(e) /\ H' = h
      /\ UNCHANGED clock /\ UNCHANGED <<cycsta, evttim, starting>>
  BY DEF tmevtb_dequeue
<1>2. Heap(H) /\ current_time \in EVTTIM /\ CycInv
  BY DEF HeapIInv, ClockInv
<1>3. e \in Holds(H)
  BY <1>1, <1>2, QueuedIsHeld
<1>5. /\ Heap(h) /\ Holds(h) = Holds(H) \ {e}
      /\ \A f \in Holds(H) \ {e} : TimeOf(h, f) = TimeOf(H, f)
  BY <1>2, <1>3, DeleteKeeps
<1> HIDE DEF h
<1>6. /\ cycsta' \in [Cyc -> BOOLEAN] /\ evttim' \in [Cyc -> EVTTIM]
      /\ \A d \in Cyc : /\ cycsta'[d] <=> d \in Holds(h)
                        /\ cycsta'[d] => TimeOf(h, d) = evttim'[d]
  BY <1>1, <1>2, <1>5 DEF CycInv
<1>7. starting' = {} /\ starting' \subseteq starting
  BY <1>1
<1>8. HeapIInv'
  BY <1>1, <1>5, <1>6, <1>7, SameClock
<1> QED
  BY <1>1, <1>3, <1>5, <1>8 DEF Cancels

(* sta_cyc registers a handler for a period from now. *)
LEMMA StaCycStep ==
  ASSUME HeapIInv, starting = {}, NEW c \in Cyc, sta_cyc(c)
  PROVE  HeapIInv' /\ Registers(H', c, (base_time + cyctim[c]) % W)
<1> DEFINE t == (base_time + cyctim[c]) % W
           h0 == IF cycsta[c] THEN tmevtb_delete(H, c) ELSE H
           h == tmevtb_insert(h0, c, t)
<1>1. /\ cycsta' = [cycsta EXCEPT ![c] = TRUE]
      /\ H' = h
      /\ evttim' = [evttim EXCEPT ![c] = t]
      /\ UNCHANGED clock /\ UNCHANGED starting
  BY DEF sta_cyc
<1>2. Heap(H) /\ current_time \in EVTTIM /\ CycInv
  BY DEF HeapIInv, ClockInv
<1>3. c \in Event /\ cyctim[c] \in 1 .. TMAX_RELTIM /\ TMAX_RELTIM \in Nat
  BY Ticks
<1>4. t \in EVTTIM
  <2>1. cyctim[c] \in 0 .. TMAX_RELTIM
    BY <1>3
  <2> QED BY <2>1, TimeAhead
<1> HIDE DEF t
<1>5. /\ Heap(h0) /\ Holds(h0) = Holds(H) \ {c}
      /\ \A f \in Holds(H) \ {c} : TimeOf(h0, f) = TimeOf(H, f)
  <2>1. cycsta[c] <=> c \in Holds(H)
    BY <1>2 DEF CycInv
  <2>2. CASE cycsta[c]
    BY <2>1, <2>2, <1>2, DeleteKeeps
  <2>3. CASE ~cycsta[c]
    BY <2>1, <2>3, <1>2
  <2> QED BY <2>2, <2>3
<1> HIDE DEF h0
<1>6. /\ Heap(h) /\ Holds(h) = Holds(h0) \cup {c} /\ TimeOf(h, c) = t
      /\ \A f \in Holds(h0) : TimeOf(h, f) = TimeOf(h0, f)
  BY <1>2, <1>3, <1>4, <1>5, InsertKeeps
<1> HIDE DEF h
<1>7. /\ Holds(h) = Holds(H) \cup {c}
      /\ \A f \in Holds(H) \ {c} : TimeOf(h, f) = TimeOf(H, f)
  BY <1>5, <1>6
<1>8. /\ cycsta' \in [Cyc -> BOOLEAN] /\ evttim' \in [Cyc -> EVTTIM]
      /\ \A d \in Cyc : /\ cycsta'[d] <=> d \in Holds(h)
                        /\ cycsta'[d] => TimeOf(h, d) = evttim'[d]
  <2>1. cycsta' \in [Cyc -> BOOLEAN] /\ evttim' \in [Cyc -> EVTTIM]
    BY <1>1, <1>2, <1>4 DEF CycInv
  <2>2. /\ cycsta'[c] /\ evttim'[c] = t
        /\ \A d \in Cyc \ {c} : cycsta'[d] = cycsta[d] /\ evttim'[d] = evttim[d]
    BY <1>1, <1>2 DEF CycInv
  <2> QED BY <2>1, <2>2, <1>2, <1>6, <1>7 DEF CycInv
<1>9. starting' = {} /\ starting' \subseteq starting
  BY <1>1
<1>10. HeapIInv'
  BY <1>1, <1>6, <1>8, <1>9, SameClock
<1> QED
  BY <1>1, <1>6, <1>7, <1>10 DEF Registers, t

(* stp_cyc cancels a handler. *)
LEMMA StpCycStep ==
  ASSUME HeapIInv, starting = {}, NEW c \in Cyc, stp_cyc(c)
  PROVE  HeapIInv' /\ Cancels(H', c)
<1> DEFINE h == tmevtb_delete(H, c)
<1>1. /\ cycsta[c] /\ cycsta' = [cycsta EXCEPT ![c] = FALSE]
      /\ H' = h
      /\ evttim' = [evttim EXCEPT ![c] = 0]
      /\ UNCHANGED clock /\ UNCHANGED starting
  BY DEF stp_cyc
<1>2. Heap(H) /\ current_time \in EVTTIM /\ CycInv
  BY DEF HeapIInv, ClockInv
<1>3. c \in Holds(H)
  BY <1>1, <1>2 DEF CycInv
<1>4. 0 \in EVTTIM
  BY Ticks DEF EVTTIM
<1>5. /\ Heap(h) /\ Holds(h) = Holds(H) \ {c}
      /\ \A f \in Holds(H) \ {c} : TimeOf(h, f) = TimeOf(H, f)
  BY <1>2, <1>3, DeleteKeeps
<1> HIDE DEF h
<1>6. /\ cycsta' \in [Cyc -> BOOLEAN] /\ evttim' \in [Cyc -> EVTTIM]
      /\ \A d \in Cyc : /\ cycsta'[d] <=> d \in Holds(h)
                        /\ cycsta'[d] => TimeOf(h, d) = evttim'[d]
  <2>1. cycsta' \in [Cyc -> BOOLEAN] /\ evttim' \in [Cyc -> EVTTIM]
    BY <1>1, <1>2, <1>4 DEF CycInv
  <2>2. /\ ~cycsta'[c]
        /\ \A d \in Cyc \ {c} : cycsta'[d] = cycsta[d] /\ evttim'[d] = evttim[d]
    BY <1>1, <1>2 DEF CycInv
  <2> QED BY <2>1, <2>2, <1>2, <1>5 DEF CycInv
<1>7. starting' = {} /\ starting' \subseteq starting
  BY <1>1
<1>8. HeapIInv'
  BY <1>1, <1>5, <1>6, <1>7, SameClock
<1> QED
  BY <1>1, <1>3, <1>5, <1>8 DEF Cancels

(* A call-back takes the earliest event, which is due, and registers a     *)
(* handler a period after the time that it was due.                        *)
LEMMA CallBackStep ==
  ASSUME HeapIInv, starting = {}, call_back
  PROVE  /\ HeapIInv'
         /\ \E e \in Holds(H) :
              /\ called' = {e}
              /\ rel(TimeOf(H, e)) <= rel(next_time)
              /\ \A f \in Holds(H) : rel(TimeOf(H, e)) <= rel(TimeOf(H, f))
              /\ e \notin Cyc => Cancels(H', e)
              /\ e \in Cyc => \E t \in EVTTIM :
                   Registers(H', e, t) /\ rel(t) = rel(TimeOf(H, e)) + cyctim[e]
<1> DEFINE e == H.node[1].tmevtb
           h0 == tmevtb_delete_top(H)
           t == (evttim[e] + cyctim[e]) % W
           h == IF e \in Cyc THEN tmevtb_insert(h0, e, t) ELSE h0
<1>1. /\ last_index > 0 /\ rel(H.node[1].time) <= rel(next_time)
      /\ called' = {e} /\ H' = h
      /\ IF e \in Cyc THEN evttim' = [evttim EXCEPT ![e] = t] ELSE UNCHANGED evttim
      /\ UNCHANGED clock /\ UNCHANGED <<cycsta, starting>>
  BY DEF call_back, DueNow, EVTTIM_LE
<1>2. Heap(H) /\ current_time \in EVTTIM /\ CycInv
  BY DEF HeapIInv, ClockInv
<1>3. Len(H.node) > 0
  BY <1>1 DEF last_index
<1> HIDE DEF e
<1>4. e = H.node[1].tmevtb
  BY DEF e
<1>5. /\ e \in Holds(H) /\ TimeOf(H, e) = H.node[1].time
      /\ \A f \in Holds(H) : rel(TimeOf(H, e)) <= rel(TimeOf(H, f))
      /\ Heap(h0) /\ Holds(h0) = Holds(H) \ {e}
      /\ \A f \in Holds(H) \ {e} : TimeOf(h0, f) = TimeOf(H, f)
  BY <1>2, <1>3, <1>4, DeleteTopKeeps
<1> HIDE DEF h0
<1>6. rel(TimeOf(H, e)) <= rel(next_time)
  BY <1>1, <1>5
<1>7. starting' = {} /\ starting' \subseteq starting
  BY <1>1
<1>8. CASE e \notin Cyc
  <2>1. H' = h0 /\ UNCHANGED <<cycsta, evttim>>
    BY <1>1, <1>8
  <2>2. /\ cycsta' \in [Cyc -> BOOLEAN] /\ evttim' \in [Cyc -> EVTTIM]
        /\ \A d \in Cyc : /\ cycsta'[d] <=> d \in Holds(h0)
                          /\ cycsta'[d] => TimeOf(h0, d) = evttim'[d]
    BY <2>1, <1>2, <1>5, <1>8 DEF CycInv
  <2>3. HeapIInv'
    BY <2>1, <2>2, <1>1, <1>5, <1>7, SameClock
  <2>4. Cancels(H', e)
    BY <2>1, <1>5 DEF Cancels
  <2> QED BY <2>3, <2>4, <1>1, <1>5, <1>6, <1>8
<1>9. CASE e \in Cyc
  <2>1. H' = tmevtb_insert(h0, e, t) /\ evttim' = [evttim EXCEPT ![e] = t] /\ UNCHANGED cycsta
    BY <1>1, <1>9
  <2>2. cycsta[e] /\ TimeOf(H, e) = evttim[e] /\ e \in Event
    BY <1>2, <1>5, <1>9, Ticks DEF CycInv
  <2>3. t \in EVTTIM /\ rel(t) = rel(TimeOf(H, e)) + cyctim[e]
    BY <2>2, <1>6, <1>9, NextPeriod
  <2> HIDE DEF t
  <2> DEFINE g == tmevtb_insert(h0, e, t)
  <2>4. /\ Heap(g) /\ Holds(g) = Holds(h0) \cup {e} /\ TimeOf(g, e) = t
        /\ \A f \in Holds(h0) : TimeOf(g, f) = TimeOf(h0, f)
    BY <2>2, <2>3, <1>2, <1>5, InsertKeeps
  <2>5. H' = g
    BY <2>1
  <2> HIDE DEF g
  <2>6. Holds(g) = Holds(H) \cup {e} /\ \A f \in Holds(H) \ {e} : TimeOf(g, f) = TimeOf(H, f)
    BY <2>4, <1>5
  <2>7. /\ cycsta' \in [Cyc -> BOOLEAN] /\ evttim' \in [Cyc -> EVTTIM]
        /\ \A d \in Cyc : /\ cycsta'[d] <=> d \in Holds(g)
                          /\ cycsta'[d] => TimeOf(g, d) = evttim'[d]
    <3>1. cycsta' \in [Cyc -> BOOLEAN] /\ evttim' \in [Cyc -> EVTTIM]
      BY <2>1, <2>3, <1>2 DEF CycInv
    <3>2. /\ cycsta' = cycsta /\ evttim'[e] = t
          /\ \A d \in Cyc \ {e} : evttim'[d] = evttim[d]
      BY <2>1, <1>2, <1>9 DEF CycInv
    <3> QED BY <3>1, <3>2, <2>2, <2>4, <2>6, <1>2 DEF CycInv
  <2>8. HeapIInv'
    BY <2>4, <2>5, <2>7, <1>1, <1>7, SameClock
  <2>9. Registers(H', e, t)
    BY <2>4, <2>5, <2>6 DEF Registers
  <2> QED BY <2>3, <2>8, <2>9, <1>1, <1>5, <1>6, <1>9
<1> QED
  BY <1>8, <1>9

(* The time d after s, as seen from s. *)
LEMMA FromThen ==
  ASSUME NEW s \in EVTTIM, NEW d \in Nat, d < W
  PROVE  (s + d) % W \in EVTTIM /\ (((s + d) % W) - s) % W = d
<1>1. W \in Nat /\ W > 0
  BY TimeAssumption
<1>2. s \in 0 .. W - 1
  BY DEF EVTTIM
<1> DEFINE x == s + d
           u == x % W
           y == u - s
<1>3. x \in Int /\ 0 <= x /\ 0 - W <= x /\ x < 2 * W
  BY <1>1, <1>2
<1> HIDE DEF x
<1>4. u \in EVTTIM /\ u = IF x < 0 THEN x + W ELSE IF x < W THEN x ELSE x - W
  BY <1>3, Wrap
<1> HIDE DEF u
<1>5. u = IF s + d < W THEN s + d ELSE s + d - W
  BY <1>1, <1>2, <1>3, <1>4 DEF x
<1>6. y \in Int /\ 0 - W <= y /\ y < 2 * W /\ (y = d \/ y = d - W)
  BY <1>1, <1>2, <1>5
<1> HIDE DEF y
<1>7. y % W = IF y < 0 THEN y + W ELSE IF y < W THEN y ELSE y - W
  BY <1>6, Wrap
<1>8. y % W = d
  BY <1>1, <1>6, <1>7
<1> QED
  BY <1>4, <1>8 DEF u, x, y

(* The end of a tick: the present moves on to the next tick, all events    *)
(* are after it, and the tick after that is TIC_NUME / TIC_DENO later.     *)
LEMMA ReturnStep ==
  ASSUME HeapIInv, starting = {}, isig_tim_return
  PROVE  /\ HeapIInv' /\ H' = H
         /\ \A f \in Holds(H) :
              /\ rel(next_time) < rel(TimeOf(H, f))
              /\ (TimeOf(H, f) - current_time') % W = rel(TimeOf(H, f)) - rel(next_time)
         /\ rel(next_time)' \in Nat /\ next_subtime' \in Nat
         /\ rel(next_time)' * TIC_DENO + next_subtime' = TIC_NUME + next_subtime
<1> DEFINE q == TIC_NUME \div TIC_DENO
           m == TIC_NUME % TIC_DENO
           carry == IF next_subtime + m >= TIC_DENO THEN 1 ELSE 0
<1>1. /\ current_time' = next_time
      /\ next_time' = (next_time + q + carry) % W
      /\ next_subtime' = (next_subtime + m) % TIC_DENO
      /\ H' = H /\ UNCHANGED <<cycsta, evttim, starting>> /\ ~DueNow
  BY DEF isig_tim_return
<1>2. /\ Heap(H) /\ current_time \in EVTTIM /\ next_time \in EVTTIM
      /\ next_subtime \in 0 .. TIC_DENO - 1
  BY DEF HeapIInv, ClockInv
<1>3. rel(next_time) \in Nat
  BY <1>2, RelRange
<1>4. /\ q \in Nat /\ m \in 0 .. TIC_DENO - 1 /\ TIC_NUME = TIC_DENO * q + m
      /\ TIC_DENO \in Nat /\ TIC_DENO >= 1 /\ q + 1 < W /\ W \in Nat /\ TIC_NUME \in Nat
  <2>1. /\ q \in Nat /\ m \in 0 .. TIC_DENO - 1 /\ TIC_NUME = TIC_DENO * q + m
        /\ TIC_DENO \in Nat /\ TIC_DENO >= 1 /\ q + 2 + TMAX_RELTIM < W /\ W \in Nat
        /\ TMAX_RELTIM \in Nat /\ TIC_NUME \in Nat
    BY Ticks
  <2> HIDE DEF q, m
  <2> QED BY <2>1
<1> HIDE DEF q, m
<1>5. ASSUME NEW f \in Holds(H) PROVE rel(next_time) < rel(TimeOf(H, f))
  <2>1. PICK k \in 1 .. Len(H.node) : f = H.node[k].tmevtb
    BY DEF Holds
  <2>2. TimeOf(H, f) = H.node[k].time
    BY <2>1, <1>2 DEF Heap, TimeOf
  <2>3. rel(H.node[1].time) <= rel(H.node[k].time)
    BY <1>2, RootIsFirst
  <2>4. Len(H.node) \in Nat /\ Len(H.node) > 0 /\ 1 \in 1 .. Len(H.node)
    BY <1>2 DEF Heap, HeapType
  <2>5. ~(rel(H.node[1].time) <= rel(next_time))
    BY <1>1, <2>4 DEF DueNow, EVTTIM_LE, last_index
  <2>6. H.node[1] \in Node /\ H.node[k] \in Node
    BY <2>4, <1>2 DEF Heap, HeapType
  <2>7. rel(H.node[1].time) \in Nat /\ rel(H.node[k].time) \in Nat
    <3>1. H.node[1].time \in EVTTIM /\ H.node[k].time \in EVTTIM
      BY <2>6 DEF Node
    <3> QED BY <3>1, <1>2, RelRange
  <2> QED BY <2>2, <2>3, <2>5, <2>7, <1>3
<1>6. ASSUME NEW f \in Holds(H)
      PROVE  /\ TimeOf(H, f) \in EVTTIM /\ rel(TimeOf(H, f)) \in Nat
             /\ (TimeOf(H, f) - current_time') % W = rel(TimeOf(H, f)) - rel(next_time)
  <2>1. TimeOf(H, f) \in EVTTIM
    BY <1>2, HeldTypes
  <2>2. rel(TimeOf(H, f)) \in Nat
    BY <2>1, <1>2, RelRange
  <2>3. rel(next_time) <= rel(TimeOf(H, f))
    BY <2>2, <1>3, <1>5
  <2>4. (TimeOf(H, f) - next_time) % W = rel(TimeOf(H, f)) - rel(next_time)
    BY <2>1, <2>3, <1>2, RelFrom
  <2> QED BY <2>1, <2>2, <2>4, <1>1
<1>7. Heap(H)'
  <2>1. HeapType(H') /\ \A i \in 1 .. Len(H'.node) : H'.index[H'.node[i].tmevtb] = i
    BY <1>1, <1>2 DEF Heap
  <2>2. ASSUME NEW j \in 2 .. Len(H.node)
        PROVE  (H.node[PARENT(j)].time - current_time') % W <= (H.node[j].time - current_time') % W
    <3>1. j \in 1 .. Len(H.node) /\ PARENT(j) \in 1 .. Len(H.node)
      <4>1. Len(H.node) \in Nat
        BY <1>2 DEF Heap, HeapType
      <4> QED BY <4>1, Neighbours
    <3>2. \A k \in 1 .. Len(H.node) : /\ H.node[k].tmevtb \in Holds(H)
                                      /\ TimeOf(H, H.node[k].tmevtb) = H.node[k].time
      BY <1>2 DEF Heap, Holds, TimeOf
    <3>3. \A k \in 1 .. Len(H.node) :
             /\ rel(H.node[k].time) \in Nat
             /\ (H.node[k].time - current_time') % W = rel(H.node[k].time) - rel(next_time)
      BY <3>2, <1>6
    <3>4. rel(H.node[PARENT(j)].time) <= rel(H.node[j].time)
      BY <1>2 DEF Heap, OrderBut
    <3> DEFINE a == rel(H.node[PARENT(j)].time)
               b == rel(H.node[j].time)
    <3>5. /\ a \in Nat /\ b \in Nat /\ a <= b
          /\ (H.node[PARENT(j)].time - current_time') % W = a - rel(next_time)
          /\ (H.node[j].time - current_time') % W = b - rel(next_time)
      BY <3>1, <3>3, <3>4
    <3> HIDE DEF a, b
    <3>6. a - rel(next_time) <= b - rel(next_time)
      BY <3>5, <1>3
    <3> QED BY <3>5, <3>6
  <2>3. OrderBut(H.node, Len(H.node), 0)'
    BY <2>2, <1>1 DEF OrderBut, rel
  <2> QED BY <2>1, <2>3 DEF Heap, HeapType
<1>8. carry \in {0, 1} /\ q + carry \in Nat /\ q + carry < W /\ q + carry <= q + 1
  BY <1>4
<1>9. /\ (next_subtime + m) % TIC_DENO \in 0 .. TIC_DENO - 1
      /\ (next_subtime + m) % TIC_DENO = (next_subtime + m) - carry * TIC_DENO
  <2> DEFINE x == next_subtime + m
  <2>1. x \in Nat /\ x < 2 * TIC_DENO
    BY <1>2, <1>4
  <2> DEFINE G == x % TIC_DENO \in 0 .. TIC_DENO - 1 /\ x % TIC_DENO = x - carry * TIC_DENO
  <2>2. ASSUME x < TIC_DENO PROVE G
    <3>1. carry = 0
      BY <2>1, <2>2, <1>4
    <3> HIDE DEF x
    <3>2. x % TIC_DENO = x /\ x \in 0 .. TIC_DENO - 1
      BY <2>1, <2>2, <1>4
    <3>3. x - 0 * TIC_DENO = x
      BY <2>1, <1>4
    <3> HIDE DEF carry
    <3> QED BY <3>1, <3>2, <3>3
  <2>3. ASSUME x >= TIC_DENO PROVE G
    <3>1. carry = 1
      BY <2>1, <2>3, <1>4
    <3> HIDE DEF x
    <3>2. x - TIC_DENO \in 0 .. TIC_DENO - 1 /\ (x - TIC_DENO) + TIC_DENO = x
      BY <2>1, <2>3, <1>4
    <3>3. \A a \in 0 .. TIC_DENO - 1 : (a + TIC_DENO) % TIC_DENO = a
      BY <1>4
    <3>4. x % TIC_DENO = x - TIC_DENO /\ x - TIC_DENO = x - 1 * TIC_DENO
      BY <2>1, <3>2, <3>3, <1>4
    <3> HIDE DEF carry
    <3> QED BY <3>1, <3>2, <3>4
  <2>4. x < TIC_DENO \/ x >= TIC_DENO
    BY <2>1, <1>4
  <2>5. G
    <3> HIDE DEF x, G
    <3> QED BY <2>2, <2>3, <2>4
  <2> QED BY <2>5
<1> HIDE DEF carry
<1>10. next_time' = (next_time + (q + carry)) % W
  BY <1>1, <1>2, <1>4, <1>8 DEF EVTTIM
<1>11. next_time' \in EVTTIM /\ (next_time' - current_time') % W = q + carry
  BY <1>1, <1>2, <1>8, <1>10, FromThen
<1>12. rel(next_time)' = q + carry
  BY <1>11 DEF rel
<1>13. ClockInv'
  BY <1>1, <1>2, <1>8, <1>9, <1>11, <1>12 DEF ClockInv, q
<1>14. CycInv' /\ StartInv'
  BY <1>1 DEF HeapIInv, CycInv, StartInv, Holds, TimeOf
<1>15. HeapIInv'
  BY <1>7, <1>13, <1>14 DEF HeapIInv
<1>16. rel(next_time)' * TIC_DENO + next_subtime' = TIC_NUME + next_subtime
  <2>1. next_subtime \in Int /\ m \in Int
    BY <1>2, <1>4
  <2>2. (q + carry) * TIC_DENO = TIC_DENO * q + carry * TIC_DENO
    BY <1>4, <1>8
  <2>3. next_subtime' = (next_subtime + m) - carry * TIC_DENO
    BY <1>1, <1>9
  <2>4. TIC_DENO * q \in Int /\ carry * TIC_DENO \in Int
    BY <1>4, <1>8
  <2> QED BY <2>1, <2>2, <2>3, <2>4, <1>4, <1>12
<1> QED
  BY <1>1, <1>5, <1>6, <1>8, <1>9, <1>12, <1>15, <1>16

(* The invariant is inductive. *)
LEMMA HeapIInvNext == HeapIInv /\ [Next]_vars => HeapIInv'
<1> SUFFICES ASSUME HeapIInv, [Next]_vars PROVE HeapIInv'
  OBVIOUS
<1>1. ASSUME NEW c \in Cyc, cyclic_initialize(c) PROVE HeapIInv'
  BY <1>1, StartStep
<1>2. CASE starting = {} /\ TaskNext
  <2>1. ASSUME NEW e \in Event, tmevtb_dequeue(e) PROVE HeapIInv'
    BY <1>2, <2>1, DequeueStep
  <2>2. ASSUME NEW e \in Event, NEW r \in Reltim, tmevtb_enqueue(e, r) PROVE HeapIInv'
    BY <1>2, <2>2, EnqueueStep
  <2>3. ASSUME NEW c \in Cyc, sta_cyc(c) PROVE HeapIInv'
    BY <1>2, <2>3, StaCycStep
  <2>4. ASSUME NEW c \in Cyc, stp_cyc(c) PROVE HeapIInv'
    BY <1>2, <2>4, StpCycStep
  <2> QED BY <1>2, <2>1, <2>2, <2>3, <2>4 DEF TaskNext
<1>3. CASE starting = {} /\ isig_tim_enter
  <2>1. UNCHANGED <<H, cycsta, evttim, starting>> /\ UNCHANGED clock
    BY <1>3 DEF isig_tim_enter
  <2>2. Heap(H) /\ CycInv
    BY DEF HeapIInv
  <2>3. /\ cycsta' \in [Cyc -> BOOLEAN] /\ evttim' \in [Cyc -> EVTTIM]
        /\ \A d \in Cyc : /\ cycsta'[d] <=> d \in Holds(H)
                          /\ cycsta'[d] => TimeOf(H, d) = evttim'[d]
    BY <2>1, <2>2 DEF CycInv
  <2>4. starting' = {} /\ starting' \subseteq starting
    BY <2>1, <1>3
  <2> QED BY <2>1, <2>2, <2>3, <2>4, SameClock
<1>4. CASE starting = {} /\ call_back
  BY <1>4, CallBackStep
<1>5. CASE starting = {} /\ isig_tim_return
  BY <1>5, ReturnStep
<1>6. CASE UNCHANGED vars
  <2>1. UNCHANGED <<H, cycsta, evttim, starting, ticking, called>> /\ UNCHANGED clock
    BY <1>6 DEF vars
  <2>2. Heap(H) /\ CycInv
    BY DEF HeapIInv
  <2>3. /\ cycsta' \in [Cyc -> BOOLEAN] /\ evttim' \in [Cyc -> EVTTIM]
        /\ \A d \in Cyc : /\ cycsta'[d] <=> d \in Holds(H)
                          /\ cycsta'[d] => TimeOf(H, d) = evttim'[d]
    BY <2>1, <2>2 DEF CycInv
  <2> QED BY <2>1, <2>2, <2>3, SameClock
<1> QED
  BY <1>1, <1>2, <1>3, <1>4, <1>5, <1>6 DEF Next

(* The strengthened invariant implies the one the run checks. *)
LEMMA HeapInvFollows == HeapIInv => HeapInv
<1> SUFFICES ASSUME HeapIInv PROVE HeapInv
  OBVIOUS
<1>1. Heap(H) /\ CycInv /\ current_time \in EVTTIM
  BY DEF HeapIInv, ClockInv
<1>2. DOMAIN H.node = 1 .. Len(H.node) /\ Len(H.node) \in Nat
  BY <1>1 DEF Heap, HeapType
<1>3. ASSUME NEW i \in DOMAIN H.node \ {1}
      PROVE  ~EVTTIM_LT(H.node[i].time, H.node[PARENT(i)].time)
  <2>1. i \in 2 .. Len(H.node) /\ i \in 1 .. Len(H.node)
    BY <1>2
  <2>2. rel(H.node[PARENT(i)].time) <= rel(H.node[i].time)
    BY <2>1, <1>1 DEF Heap, OrderBut
  <2>3. PARENT(i) \in 1 .. Len(H.node)
    BY <2>1, <1>2, Neighbours
  <2>4. H.node[i] \in Node /\ H.node[PARENT(i)] \in Node
    BY <2>1, <2>3, <1>1 DEF Heap, HeapType
  <2>5. H.node[i].time \in EVTTIM /\ H.node[PARENT(i)].time \in EVTTIM
    BY <2>4 DEF Node
  <2>6. rel(H.node[i].time) \in Nat /\ rel(H.node[PARENT(i)].time) \in Nat
    BY <2>5, <1>1, RelRange
  <2> QED BY <2>2, <2>6 DEF EVTTIM_LT
<1>4. \A i \in DOMAIN H.node : H.index[H.node[i].tmevtb] = i
  BY <1>1, <1>2 DEF Heap
<1>5. \A c \in Cyc : /\ cycsta[c] <=> queued(c)
                     /\ cycsta[c] => H.node[H.index[c]].time = evttim[c]
  BY <1>1, QueuedIsHeld DEF CycInv, TimeOf
<1> QED
  BY <1>3, <1>4, <1>5 DEF HeapInv

(* The heap of time events stays a heap, whatever the number of events and *)
(* the width of the clock, also when times wrap around.                    *)
THEOREM HeapStaysRight == Spec => []HeapInv
<1>1. Spec => []HeapIInv
  BY HeapIInvInit, HeapIInvNext, PTL DEF Spec
<1> QED
  BY <1>1, HeapInvFollows, PTL

-----------------------------------------------------------------------------
(* Part 7: the heap implements Timers. *)

(* What is left until time t, by a clock. *)
LeftBy(now, next, sub, t) == (((t - now) % W) - ((next - now) % W)) * TIC_DENO - sub
Left(t) == LeftBy(current_time, next_time, next_subtime, t)
LeftNext(t) == LeftBy(current_time', next_time', next_subtime', t)

(* The registered events of Timers, by the heap. *)
LEMMA RemainingIs ==
  ASSUME HeapIInv
  PROVE  /\ remaining = [e \in Holds(H) \cup starting |->
                           IF e \in starting THEN cycphs[e] * TIC_DENO - TIC_NUME
                           ELSE Left(TimeOf(H, e))]
         /\ Holds(H) \cap starting = {}
<1>1. \A e : queued(e) <=> e \in Holds(H)
  BY QueuedIsHeld DEF HeapIInv
<1>2. Holds(H) \subseteq Event
  BY HeldTypes DEF HeapIInv
<1>3. {f \in Event : queued(f)} = Holds(H)
  BY <1>1, <1>2
<1>4. \A e : left(e) = Left(TimeOf(H, e))
  BY DEF left, Left, LeftBy, rel, TimeOf
<1>5. Holds(H) \cap starting = {}
  BY Ticks DEF HeapIInv, CycInv, StartInv
<1> QED
  BY <1>3, <1>4, <1>5 DEF remaining

(* The same after a step. *)
LEMMA RemainingIsNext ==
  ASSUME HeapIInv'
  PROVE  /\ remaining' = [e \in Holds(H') \cup starting' |->
                           IF e \in starting' THEN cycphs[e] * TIC_DENO - TIC_NUME
                           ELSE LeftNext(TimeOf(H', e))]
         /\ Holds(H') \cap starting' = {}
<1>0. Heap(H)' /\ DOMAIN H'.node = 1 .. Len(H'.node)
  BY DEF HeapIInv, Heap, HeapType
<1>1. \A e : queued(e)' <=> e \in Holds(H')
  BY <1>0 DEF queued, Holds
<1>2. Holds(H') \subseteq Event
  <2> SUFFICES ASSUME NEW k \in 1 .. Len(H'.node) PROVE H'.node[k].tmevtb \in Event
    BY DEF Holds
  <2>1. H'.node[k] \in Node
    BY <1>0 DEF Heap, HeapType
  <2> QED BY <2>1 DEF Node
<1>3. {f \in Event : queued(f)'} = Holds(H')
  BY <1>1, <1>2
<1>4. \A e : left(e)' = LeftNext(TimeOf(H', e))
  BY DEF left, LeftNext, LeftBy, rel, TimeOf
<1>5. Holds(H') \cap starting' = {}
  BY Ticks DEF HeapIInv, CycInv, StartInv, Holds
<1> QED
  BY <1>3, <1>4, <1>5 DEF remaining

(* What is left until an event is a number. *)
LEMMA LeftNumber ==
  ASSUME HeapIInv, NEW t \in EVTTIM
  PROVE  /\ Left(t) = (rel(t) - rel(next_time)) * TIC_DENO - next_subtime
         /\ rel(t) \in Nat /\ rel(next_time) \in Nat /\ next_subtime \in 0 .. TIC_DENO - 1
         /\ Left(t) \in Int
<1>1. /\ current_time \in EVTTIM /\ next_time \in EVTTIM
      /\ next_subtime \in 0 .. TIC_DENO - 1 /\ TIC_DENO \in Nat
  BY Ticks DEF HeapIInv, ClockInv
<1>2. rel(t) \in Nat /\ rel(next_time) \in Nat
  BY <1>1, RelRange
<1>3. Left(t) = (rel(t) - rel(next_time)) * TIC_DENO - next_subtime
  BY DEF Left, LeftBy, rel
<1>4. (rel(t) - rel(next_time)) * TIC_DENO \in Int
  BY <1>1, <1>2
<1> QED
  BY <1>1, <1>2, <1>3, <1>4

(* Multiplication, for the terms that appear below. *)
LEMMA Product ==
  ASSUME NEW a \in Int, NEW b \in Int, NEW c \in Nat
  PROVE  /\ a * c \in Int /\ (a + b) * c = a * c + b * c /\ (a - b) * c = a * c - b * c
         /\ (a <= b => a * c <= b * c) /\ (a + 1) * c = a * c + c
  OBVIOUS

(* While the clock stands still, registering and cancelling an event in    *)
(* the heap does it in Timers.                                             *)
LEMMA RegisterMaps ==
  ASSUME HeapIInv, HeapIInv', starting = {}, starting' = {}, UNCHANGED clock,
         NEW e, NEW t, Registers(H', e, t)
  PROVE  remaining' = Timer!With(e, Left(t))
<1>1. remaining = [f \in Holds(H) |-> Left(TimeOf(H, f))]
  <2>1. Holds(H) \cup starting = Holds(H)
    OBVIOUS
  <2> QED BY <2>1, RemainingIs
<1>2. remaining' = [f \in Holds(H') |-> Left(TimeOf(H', f))]
  <2>1. Holds(H') \cup starting' = Holds(H')
    OBVIOUS
  <2>2. \A x : LeftNext(x) = Left(x)
    BY DEF LeftNext, Left, clock
  <2> QED BY <2>1, <2>2, RemainingIsNext
<1>3. /\ Holds(H') = Holds(H) \cup {e} /\ TimeOf(H', e) = t
      /\ \A f \in Holds(H) \ {e} : TimeOf(H', f) = TimeOf(H, f)
  BY DEF Registers
<1>4. Timer!With(e, Left(t)) = [f \in Holds(H) \cup {e} |-> IF f = e THEN Left(t) ELSE remaining[f]]
  <2>1. DOMAIN remaining = Holds(H)
    BY <1>1
  <2> QED BY <2>1 DEF Timer!With, Timer!Registered
<1>5. \A f \in Holds(H) \cup {e} :
         Left(TimeOf(H', f)) = IF f = e THEN Left(t) ELSE remaining[f]
  BY <1>1, <1>3
<1> QED
  BY <1>2, <1>3, <1>4, <1>5

(* Cancelling in the heap cancels in Timers. *)
LEMMA CancelMaps ==
  ASSUME HeapIInv, HeapIInv', starting = {}, starting' = {}, UNCHANGED clock,
         NEW e, Cancels(H', e)
  PROVE  /\ e \in Timer!Registered
         /\ remaining' = [f \in Timer!Registered \ {e} |-> remaining[f]]
<1>1. remaining = [f \in Holds(H) |-> Left(TimeOf(H, f))]
  <2>1. Holds(H) \cup starting = Holds(H)
    OBVIOUS
  <2> QED BY <2>1, RemainingIs
<1>2. remaining' = [f \in Holds(H') |-> Left(TimeOf(H', f))]
  <2>1. Holds(H') \cup starting' = Holds(H')
    OBVIOUS
  <2>2. \A x : LeftNext(x) = Left(x)
    BY DEF LeftNext, Left, clock
  <2> QED BY <2>1, <2>2, RemainingIsNext
<1>3. /\ e \in Holds(H) /\ Holds(H') = Holds(H) \ {e}
      /\ \A f \in Holds(H) \ {e} : TimeOf(H', f) = TimeOf(H, f)
  BY DEF Cancels
<1>4. Timer!Registered = Holds(H)
  BY <1>1 DEF Timer!Registered
<1>5. \A f \in Holds(H) \ {e} : Left(TimeOf(H', f)) = remaining[f]
  BY <1>1, <1>3
<1> QED
  BY <1>2, <1>3, <1>4, <1>5

(* An event registered r ms ahead has, in units of 1/TIC_DENO ms from the  *)
(* next tick, no less than r ms left and less than r + 1.                  *)
LEMMA LeftAhead ==
  ASSUME HeapIInv, NEW r \in 0 .. TMAX_RELTIM
  PROVE  Left((base_time + r) % W) \in Timer!Rounded(r)
<1> DEFINE t == (base_time + r) % W
           D == TIC_DENO
           a == rel(next_time)
<1>1. t \in EVTTIM /\ rel(t) = a + RoundUp + r
  BY TimeAhead
<1> HIDE DEF t
<1>2. /\ Left(t) = (rel(t) - a) * D - next_subtime
      /\ a \in Nat /\ next_subtime \in 0 .. D - 1 /\ D \in Nat /\ r \in Nat
  BY <1>1, LeftNumber, Ticks
<1> HIDE DEF a, D
<1>3. r * D \in Int /\ (r + 1) * D = r * D + D
  BY <1>2, Product
<1>4. CASE next_subtime > 0
  <2>1. RoundUp = 1
    BY <1>4 DEF RoundUp
  <2>2. rel(t) - a = r + 1
    BY <2>1, <1>1, <1>2
  <2>3. Left(t) = (r * D + D) - next_subtime
    BY <2>2, <1>2, <1>3
  <2>4. Left(t) \in r * D .. (r + 1) * D - 1
    BY <2>3, <1>2, <1>3, <1>4
  <2> QED BY <2>4 DEF Timer!Rounded, D, t
<1>5. CASE ~(next_subtime > 0)
  <2>1. RoundUp = 0 /\ next_subtime = 0
    BY <1>2, <1>5 DEF RoundUp
  <2>2. rel(t) - a = r
    BY <2>1, <1>1, <1>2
  <2>3. Left(t) = r * D
    BY <2>1, <2>2, <1>2, <1>3
  <2>5. D >= 1
    BY Ticks DEF D
  <2>4. Left(t) \in r * D .. (r + 1) * D - 1
    BY <2>3, <2>5, <1>2, <1>3
  <2> QED BY <2>4 DEF Timer!Rounded, D, t
<1> QED
  BY <1>4, <1>5

(* The order of times is that of what is left, and due means none is.      *)
LEMMA LeftOrder ==
  ASSUME HeapIInv, NEW s \in EVTTIM, NEW t \in EVTTIM
  PROVE  /\ rel(s) <= rel(t) => Left(s) <= Left(t)
         /\ rel(s) <= rel(next_time) => Left(s) <= 0
         /\ rel(next_time) < rel(s) => Left(s) > 0
<1> DEFINE D == TIC_DENO
           a == rel(next_time)
           x == rel(s) - a
           y == rel(t) - a
<1>1. /\ Left(s) = x * D - next_subtime /\ Left(t) = y * D - next_subtime
      /\ a \in Nat /\ rel(s) \in Nat /\ rel(t) \in Nat
      /\ next_subtime \in 0 .. D - 1 /\ D \in Nat /\ D >= 1
  BY LeftNumber, Ticks
<1>2. x \in Int /\ y \in Int
  BY <1>1
<1> HIDE DEF D
<1>3. ASSUME rel(s) <= rel(t) PROVE Left(s) <= Left(t)
  <2>1. x <= y
    BY <1>1, <1>3
  <2> HIDE DEF x, y
  <2>2. x * D <= y * D /\ x * D \in Int /\ y * D \in Int
    BY <2>1, <1>1, <1>2, Product
  <2> QED BY <2>2, <1>1
<1>4. ASSUME rel(s) <= a PROVE Left(s) <= 0
  <2>1. x <= 0
    BY <1>1, <1>4
  <2> HIDE DEF x, y
  <2>2. x * D <= 0 * D /\ x * D \in Int /\ 0 * D = 0
    BY <2>1, <1>1, <1>2, Product
  <2> QED BY <2>2, <1>1
<1>5. ASSUME a < rel(s) PROVE Left(s) > 0
  <2>1. 1 <= x
    BY <1>1, <1>5
  <2> HIDE DEF x, y
  <2>2. 1 * D <= x * D /\ x * D \in Int /\ 1 * D = D
    BY <2>1, <1>1, <1>2, Product
  <2> QED BY <2>2, <1>1
<1> QED
  BY <1>3, <1>4, <1>5

(* A period later. *)
LEMMA LeftPeriod ==
  ASSUME HeapIInv, NEW s \in EVTTIM, NEW t \in EVTTIM, NEW d \in Nat, rel(t) = rel(s) + d
  PROVE  Left(t) = Left(s) + d * TIC_DENO
<1> DEFINE D == TIC_DENO
           a == rel(next_time)
           x == rel(s) - a
<1>1. /\ Left(s) = x * D - next_subtime /\ Left(t) = (rel(t) - a) * D - next_subtime
      /\ a \in Nat /\ rel(s) \in Nat /\ rel(t) \in Nat
      /\ next_subtime \in 0 .. D - 1 /\ D \in Nat /\ D >= 1
  BY LeftNumber, Ticks
<1>2. x \in Int /\ rel(t) - a = x + d
  BY <1>1
<1> HIDE DEF D, x, a
<1>3. (x + d) * D = x * D + d * D /\ x * D \in Int /\ d * D \in Int
  BY <1>1, <1>2, Product
<1>4. Left(t) = Left(s) + d * D
  BY <1>1, <1>2, <1>3
<1> QED
  BY <1>4 DEF D

(* The first state is that of Timers. *)
LEMMA TimersInit == Init => Timer!Init
<1> SUFFICES ASSUME Init PROVE Timer!Init
  OBVIOUS
<1>1. HeapIInv
  BY HeapIInvInit
<1>2. starting = TA_STA /\ ticking = FALSE /\ called = {} /\ Holds(H) = {}
  <2>1. H.node = << >>
    BY DEF Init
  <2> QED BY <2>1 DEF Init, Holds
<1>3. remaining = [c \in TA_STA |-> cycphs[c] * TIC_DENO - TIC_NUME]
  <2>1. remaining = [e \in Holds(H) \cup starting |->
                      IF e \in starting THEN cycphs[e] * TIC_DENO - TIC_NUME
                      ELSE Left(TimeOf(H, e))]
    BY <1>1, RemainingIs
  <2> QED BY <2>1, <1>2
<1> QED
  BY <1>2, <1>3 DEF Timer!Init

(* Starting a handler is a stutter: Timers has it from the beginning. *)
LEMMA StartMaps ==
  ASSUME HeapIInv, HeapIInv', NEW c \in Cyc, cyclic_initialize(c)
  PROVE  UNCHANGED Timer!tvars
<1> DEFINE phase(f) == cycphs[f] * TIC_DENO - TIC_NUME
<1>1. /\ c \in starting /\ starting' = starting \ {c}
      /\ UNCHANGED clock /\ UNCHANGED <<ticking, called>>
  BY DEF cyclic_initialize
<1>2. Registers(H', c, cycphs[c]) /\ c \notin Holds(H)
  BY StartStep
<1>3. remaining = [f \in Holds(H) \cup starting |->
                     IF f \in starting THEN phase(f) ELSE Left(TimeOf(H, f))]
      /\ Holds(H) \cap starting = {}
  BY RemainingIs
<1>4. remaining' = [f \in Holds(H') \cup starting' |->
                      IF f \in starting' THEN phase(f) ELSE Left(TimeOf(H', f))]
  <2>1. \A x : LeftNext(x) = Left(x)
    BY <1>1 DEF LeftNext, Left, clock
  <2> QED BY <2>1, RemainingIsNext
<1>5. /\ Holds(H') = Holds(H) \cup {c} /\ TimeOf(H', c) = cycphs[c]
      /\ \A f \in Holds(H) : TimeOf(H', f) = TimeOf(H, f)
  BY <1>2 DEF Registers
<1>6. Holds(H') \cup starting' = Holds(H) \cup starting
  BY <1>1, <1>5
<1>7. Left(cycphs[c]) = phase(c)
  <2> DEFINE q == TIC_NUME \div TIC_DENO
             m == TIC_NUME % TIC_DENO
             D == TIC_DENO
             p == cycphs[c]
  <2>1. current_time = 0 /\ next_time = q /\ next_subtime = m
    BY <1>1 DEF HeapIInv, StartInv
  <2>2. /\ q \in Nat /\ m \in 0 .. D - 1 /\ TIC_NUME = D * q + m /\ D \in Nat /\ TIC_NUME \in Nat
        /\ W \in Nat /\ TMAX_RELTIM \in Nat /\ q + 2 + TMAX_RELTIM < W /\ p \in 0 .. TMAX_RELTIM
    BY Ticks
  <2> HIDE DEF q, m, D, p
  <2>3. p \in EVTTIM /\ q \in EVTTIM /\ 0 \in EVTTIM /\ p \in Nat
    BY <2>2 DEF EVTTIM
  <2>4. rel(p) = p /\ rel(next_time) = q
    BY <2>1, <2>2, <2>3, RelIs
  <2>5. Left(p) = (p - q) * D - m
    BY <2>1, <2>3, <2>4, LeftNumber DEF D
  <2>6. (p - q) * D = p * D - q * D /\ p * D \in Int /\ q * D \in Int /\ D * q = q * D
    <3>1. p \in Int /\ q \in Int /\ D \in Nat
      BY <2>2, <2>3
    <3>2. (p - q) * D = p * D - q * D /\ p * D \in Int /\ q * D \in Int
      BY <3>1, Product
    <3> QED BY <3>1, <3>2
  <2>7. Left(p) = p * D - TIC_NUME
    BY <2>2, <2>5, <2>6
  <2> QED BY <2>7 DEF p, D
<1> HIDE DEF phase
<1>8. \A f \in Holds(H) \cup starting :
        (IF f \in starting' THEN phase(f) ELSE Left(TimeOf(H', f)))
      = (IF f \in starting THEN phase(f) ELSE Left(TimeOf(H, f)))
  BY <1>1, <1>3, <1>5, <1>7
<1>9. remaining' = remaining
  BY <1>3, <1>4, <1>6, <1>8
<1> QED
  BY <1>1, <1>9 DEF Timer!tvars

(* When the heap and the clock stay, so does what is left. *)
LEMMA SameRemaining ==
  ASSUME UNCHANGED <<H, starting>>, UNCHANGED clock
  PROVE  remaining' = remaining
<1>1. \A e : queued(e)' <=> queued(e)
  BY DEF queued
<1>2. \A e : left(e)' = left(e)
  BY DEF left, rel, clock
<1>3. {f \in Event : queued(f)'} = {f \in Event : queued(f)}
  BY <1>1
<1> QED
  BY <1>2, <1>3 DEF remaining

(* A call-back is one of Timers. *)
LEMMA CallBackMaps ==
  ASSUME HeapIInv, HeapIInv', starting = {}, call_back
  PROVE  \E e \in Event : Timer!CallBack(e)
<1>1. ticking /\ UNCHANGED clock /\ UNCHANGED <<starting, ticking>>
  BY DEF call_back
<1>2. PICK e \in Holds(H) :
        /\ called' = {e}
        /\ rel(TimeOf(H, e)) <= rel(next_time)
        /\ \A f \in Holds(H) : rel(TimeOf(H, e)) <= rel(TimeOf(H, f))
        /\ e \notin Cyc => Cancels(H', e)
        /\ e \in Cyc => \E t \in EVTTIM :
             Registers(H', e, t) /\ rel(t) = rel(TimeOf(H, e)) + cyctim[e]
  BY CallBackStep
<1>3. remaining = [f \in Holds(H) |-> Left(TimeOf(H, f))]
  <2>1. Holds(H) \cup starting = Holds(H)
    OBVIOUS
  <2> QED BY <2>1, RemainingIs
<1>4. Timer!Registered = Holds(H)
  BY <1>3 DEF Timer!Registered
<1>5. \A f \in Holds(H) : f \in Event /\ TimeOf(H, f) \in EVTTIM
  BY HeldTypes DEF HeapIInv
<1>6. remaining[e] <= 0
  BY <1>2, <1>3, <1>5, LeftOrder
<1>7. \A f \in Holds(H) : remaining[e] <= remaining[f]
  BY <1>2, <1>3, <1>5, LeftOrder
<1>8. starting' = {}
  BY <1>1
<1>9. remaining' = IF e \in Cyc THEN Timer!With(e, remaining[e] + cyctim[e] * TIC_DENO)
                   ELSE [f \in Timer!Registered \ {e} |-> remaining[f]]
  <2>1. CASE e \notin Cyc
    <3>1. remaining' = [f \in Timer!Registered \ {e} |-> remaining[f]]
      BY <2>1, <1>1, <1>2, <1>8, CancelMaps
    <3> QED BY <2>1, <3>1
  <2>2. CASE e \in Cyc
    <3>1. PICK t \in EVTTIM : Registers(H', e, t) /\ rel(t) = rel(TimeOf(H, e)) + cyctim[e]
      BY <2>2, <1>2
    <3>2. remaining' = Timer!With(e, Left(t))
      BY <3>1, <1>1, <1>8, RegisterMaps
    <3>3. cyctim[e] \in Nat
      BY <2>2, Ticks
    <3>4. Left(t) = Left(TimeOf(H, e)) + cyctim[e] * TIC_DENO
      BY <3>1, <3>3, <1>5, LeftPeriod
    <3>5. remaining[e] = Left(TimeOf(H, e))
      BY <1>3
    <3> QED BY <2>2, <3>2, <3>4, <3>5
  <2> QED BY <2>1, <2>2
<1>10. Timer!CallBack(e)
  BY <1>1, <1>2, <1>4, <1>6, <1>7, <1>9 DEF Timer!CallBack
<1> QED
  BY <1>5, <1>10

(* The end of a tick is that of Timers. *)
LEMMA ReturnMaps ==
  ASSUME HeapIInv, HeapIInv', starting = {}, isig_tim_return
  PROVE  Timer!TickEnd
<1> DEFINE D == TIC_DENO
           a == rel(next_time)
           b == rel(next_time)'
           R(f) == rel(TimeOf(H, f))
<1>1. ticking /\ ticking' = FALSE /\ called' = {} /\ UNCHANGED starting
  BY DEF isig_tim_return
<1>2. /\ H' = H
      /\ \A f \in Holds(H) : /\ a < R(f)
                             /\ (TimeOf(H, f) - current_time') % W = R(f) - a
      /\ b \in Nat /\ next_subtime' \in Nat
      /\ b * D + next_subtime' = TIC_NUME + next_subtime
  BY ReturnStep
<1>3. \A f \in Holds(H) : TimeOf(H, f) \in EVTTIM
  BY HeldTypes DEF HeapIInv
<1>4. remaining = [f \in Holds(H) |-> Left(TimeOf(H, f))]
  <2>1. Holds(H) \cup starting = Holds(H)
    OBVIOUS
  <2> QED BY <2>1, RemainingIs
<1>5. remaining' = [f \in Holds(H) |-> LeftNext(TimeOf(H, f))]
  <2>1. Holds(H') \cup starting' = Holds(H) /\ starting' = {} /\ H' = H
    BY <1>1, <1>2
  <2> QED BY <2>1, RemainingIsNext
<1>6. \A f \in Holds(H) : Left(TimeOf(H, f)) > 0
  BY <1>2, <1>3, LeftOrder
<1>7. ASSUME NEW f \in Holds(H)
      PROVE  LeftNext(TimeOf(H, f)) = Left(TimeOf(H, f)) - TIC_NUME
  <2>1. LeftNext(TimeOf(H, f)) = (((TimeOf(H, f) - current_time') % W) - b) * D - next_subtime'
    BY DEF LeftNext, LeftBy, rel
  <2>2. /\ Left(TimeOf(H, f)) = (R(f) - a) * D - next_subtime
        /\ R(f) \in Nat /\ a \in Nat /\ next_subtime \in 0 .. D - 1 /\ D \in Nat /\ TIC_NUME \in Nat
    BY <1>3, LeftNumber, Ticks
  <2>3. (TimeOf(H, f) - current_time') % W = R(f) - a
    BY <1>2
  <2> DEFINE x == R(f) - a
  <2>4. x \in Int
    BY <2>2
  <2>5. LeftNext(TimeOf(H, f)) = (x - b) * D - next_subtime'
    BY <2>1, <2>3
  <2>7. Left(TimeOf(H, f)) = x * D - next_subtime
    BY <2>2
  <2>8. next_subtime \in Int /\ next_subtime' \in Int /\ b \in Int /\ D \in Nat
    BY <2>2, <1>2
  <2>9. b * D + next_subtime' = TIC_NUME + next_subtime /\ TIC_NUME \in Int
    BY <1>2, <2>2
  <2> HIDE DEF x, D, b
  <2>6. (x - b) * D = x * D - b * D /\ x * D \in Int /\ b * D \in Int
    BY <2>4, <2>8, Product
  <2> DEFINE u == x * D
             v == b * D
             w == (x - b) * D
             s == next_subtime
             t == next_subtime'
  <2>10. w = u - v /\ u \in Int /\ v \in Int /\ s \in Int /\ t \in Int
    BY <2>6, <2>8
  <2>11. v + t = TIC_NUME + s
    BY <2>9
  <2>12. LeftNext(TimeOf(H, f)) = w - t /\ Left(TimeOf(H, f)) = u - s
    BY <2>5, <2>7
  <2> HIDE DEF u, v, w, s, t
  <2> QED BY <2>9, <2>10, <2>11, <2>12
<1>8. \A f \in Holds(H) : remaining[f] > 0 /\ LeftNext(TimeOf(H, f)) = remaining[f] - TIC_NUME
  BY <1>4, <1>6, <1>7
<1>9. Timer!Registered = Holds(H)
  BY <1>4 DEF Timer!Registered
<1>10. remaining' = [f \in Timer!Registered |-> remaining[f] - TIC_NUME]
  BY <1>5, <1>8, <1>9
<1> QED
  BY <1>1, <1>8, <1>9, <1>10 DEF Timer!TickEnd

(* Every step is one of Timers or changes nothing there. *)
LEMMA TimersNext ==
  HeapIInv /\ HeapIInv' /\ [Next]_vars => [Timer!Next]_(Timer!tvars)
<1> SUFFICES ASSUME HeapIInv, HeapIInv', [Next]_vars
             PROVE  Timer!Next \/ UNCHANGED Timer!tvars
  OBVIOUS
<1>1. ASSUME NEW c \in Cyc, cyclic_initialize(c) PROVE UNCHANGED Timer!tvars
  BY <1>1, StartMaps
<1>2. CASE starting = {} /\ TaskNext
  <2>1. ASSUME NEW e \in Event, tmevtb_dequeue(e) PROVE Timer!Cancel(e)
    <3>1. /\ e \notin Cyc /\ called' = {} /\ UNCHANGED clock /\ UNCHANGED <<starting, ticking>>
      BY <2>1 DEF tmevtb_dequeue
    <3>2. Cancels(H', e)
      BY <1>2, <2>1, DequeueStep
    <3>3. starting' = {}
      BY <1>2, <3>1
    <3>4. e \in Timer!Registered /\ remaining' = [f \in Timer!Registered \ {e} |-> remaining[f]]
      BY <1>2, <3>1, <3>2, <3>3, CancelMaps
    <3> QED BY <3>1, <3>4 DEF Timer!Cancel
  <2>2. ASSUME NEW e \in Event, NEW r \in Reltim, tmevtb_enqueue(e, r) PROVE Timer!Register(e)
    <3>1. /\ e \notin Cyc /\ ~ticking /\ called' = {}
          /\ UNCHANGED clock /\ UNCHANGED <<starting, ticking>>
      BY <2>2 DEF tmevtb_enqueue
    <3> DEFINE t == (base_time + r) % W
    <3>2. Registers(H', e, t)
      BY <1>2, <2>2, EnqueueStep
    <3>3. starting' = {}
      BY <1>2, <3>1
    <3>4. Left(t) \in Timer!Rounded(r)
      BY Ticks, LeftAhead
    <3> HIDE DEF t
    <3>5. remaining' = Timer!With(e, Left(t))
      BY <1>2, <3>1, <3>2, <3>3, RegisterMaps
    <3> QED BY <3>1, <3>4, <3>5 DEF Timer!Register
  <2>3. ASSUME NEW c \in Cyc, sta_cyc(c) PROVE Timer!Register(c)
    <3>1. ~ticking /\ called' = {} /\ UNCHANGED clock /\ UNCHANGED <<starting, ticking>>
      BY <2>3 DEF sta_cyc
    <3> DEFINE t == (base_time + cyctim[c]) % W
    <3>2. Registers(H', c, t)
      BY <1>2, <2>3, StaCycStep
    <3>3. starting' = {}
      BY <1>2, <3>1
    <3>4. cyctim[c] \in 0 .. TMAX_RELTIM
      BY Ticks
    <3>5. Left(t) \in Timer!Rounded(cyctim[c])
      BY <3>4, LeftAhead
    <3> HIDE DEF t
    <3>6. remaining' = Timer!With(c, Left(t))
      BY <1>2, <3>1, <3>2, <3>3, RegisterMaps
    <3> QED BY <3>1, <3>5, <3>6 DEF Timer!Register
  <2>4. ASSUME NEW c \in Cyc, stp_cyc(c) PROVE Timer!Cancel(c)
    <3>1. ~ticking /\ called' = {} /\ UNCHANGED clock /\ UNCHANGED <<starting, ticking>>
      BY <2>4 DEF stp_cyc
    <3>2. Cancels(H', c)
      BY <1>2, <2>4, StpCycStep
    <3>3. starting' = {}
      BY <1>2, <3>1
    <3>4. c \in Timer!Registered /\ remaining' = [f \in Timer!Registered \ {c} |-> remaining[f]]
      BY <1>2, <3>1, <3>2, <3>3, CancelMaps
    <3> QED BY <3>1, <3>4 DEF Timer!Cancel
  <2>5. Cyc \subseteq Event
    BY Ticks
  <2> QED BY <1>2, <2>1, <2>2, <2>3, <2>4, <2>5 DEF TaskNext, Timer!Next
<1>3. CASE starting = {} /\ isig_tim_enter
  <2>1. ~ticking /\ ticking' = TRUE /\ called' = {} /\ remaining' = remaining
    BY <1>3, SameRemaining DEF isig_tim_enter
  <2> QED BY <2>1 DEF Timer!TickStart, Timer!Next
<1>4. CASE starting = {} /\ call_back
  BY <1>4, CallBackMaps DEF Timer!Next
<1>5. CASE starting = {} /\ isig_tim_return
  BY <1>5, ReturnMaps DEF Timer!Next
<1>6. CASE UNCHANGED vars
  <2>1. remaining' = remaining /\ UNCHANGED <<ticking, called>>
    BY <1>6, SameRemaining DEF vars
  <2> QED BY <2>1 DEF Timer!tvars
<1> QED
  BY <1>1, <1>2, <1>3, <1>4, <1>5, <1>6 DEF Next

(* The heap with its modular times implements Timers: no event is called   *)
(* early, twice, late or out of order, for any clock and any tick.         *)
THEOREM HeapIsTimers == Spec => ImplementsTimers
<1>1. Spec => []HeapIInv
  BY HeapIInvInit, HeapIInvNext, PTL DEF Spec
<1>2. Spec => Timer!Init /\ [][Timer!Next]_(Timer!tvars)
  BY <1>1, TimersInit, TimersNext, PTL DEF Spec
<1> QED
  BY <1>2 DEF ImplementsTimers, Timer!Spec

=============================================================================
