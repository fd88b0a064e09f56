----------------------------- MODULE TimeEvent -----------------------------
(***************************************************************************)
(* The time events of the kernel: the heap of time_event.c, the tick       *)
(* isig_tim with the windows it opens for interrupts, and the cyclic       *)
(* handlers of cyclic.c.  The time event block of a task is here just an   *)
(* event that a task registers, that others cancel (module Kernel has the  *)
(* conditions) and that is called back.                                    *)
(*                                                                         *)
(* EVTTIM and SYSTIM are unsigned and wrap around at W.  The heap is the   *)
(* record H: node, the array tmevt_heap up to last_index, and index, the   *)
(* field tmevtb->index of each block.  What is left in index or evttim of  *)
(* a block outside the heap is never read; here it is 0.                   *)
(***************************************************************************)
EXTENDS Integers, Sequences

CONSTANTS
  Event,         \* the time event blocks
  Cyc,           \* those of cyclic handlers
  cyctim,        \* cycinib->cyctim
  cycphs,        \* cycinib->cycphs
  TA_STA,        \* cyclic handlers created with attribute TA_STA
  Reltim,        \* the relative times tasks ask for
  W,             \* 2^32 in the code
  TIC_NUME, TIC_DENO

TMAX_RELTIM == W \div 2 - 1

(* What kernel_chk and the assertion in tmevtb_enqueue ensure. *)
ASSUME TimeAssumption ==
  /\ TIC_NUME \in Nat \ {0} /\ TIC_DENO \in Nat \ {0}
  /\ W \in Nat /\ W > 2 * (TIC_NUME \div TIC_DENO + 2)
  /\ TA_STA \subseteq Cyc /\ Cyc \subseteq Event
  /\ Reltim \subseteq 0 .. TMAX_RELTIM
  /\ cyctim \in [Cyc -> 1 .. TMAX_RELTIM]
  /\ cycphs \in [Cyc -> 0 .. TMAX_RELTIM]

VARIABLES
  H,             \* the heap
  current_time,  \* time of the last tick
  next_time,     \* time of the next tick,
  next_subtime,  \* and its fraction in 1/TIC_DENO ms
  cycsta,        \* per cyclic handler: it is in operation
  evttim,        \* per cyclic handler: when it is due next
  starting,      \* the handlers cyclic_initialize has still to register
  ticking,       \* isig_tim is in progress
  called         \* the events the last step called back: at most one

clock == <<current_time, next_time, next_subtime>>
vars == <<H, clock, cycsta, evttim, starting, ticking, called>>

-----------------------------------------------------------------------------
(* Comparison relative to current_time, the least time there is. *)

rel(t) == (t - current_time) % W

EVTTIM_LT(t1, t2) == rel(t1) < rel(t2)

(* Mistake: times are compared as numbers. *)
EVTTIM_LE_mut(t1, t2) == t1 <= t2

EVTTIM_LE(t1, t2) == rel(t1) <= rel(t2)

(* The time of the next tick rounded up. *)
base_time == (next_time + (IF next_subtime > 0 THEN 1 ELSE 0)) % W

PARENT(i) == i \div 2
LCHILD(i) == 2 * i

last_index == Len(H.node)

(* The positions of the heap that an empty node which starts at i visits   *)
(* when it goes from every j in the domain of from on to from[j].          *)
trail(h, from, i) ==
  LET P == DOMAIN h.node
      closed(S) == i \in S /\ \A j \in S \cap DOMAIN from : from[j] \in S
  IN {j \in P : \A S \in SUBSET P : closed(S) => j \in S}

(* Up: as long as the parent is later than time. *)
tmevt_up(h, time) ==
  LET P == {j \in DOMAIN h.node \ {1} : ~EVTTIM_LE(h.node[PARENT(j)].time, time)}
  IN [j \in P |-> PARENT(j)]

(* The child tmevt_down compares with; last is last_index. *)
early_child(h, j, last) ==
  LET c == LCHILD(j)
  IN IF c + 1 <= last /\ EVTTIM_LT(h.node[c + 1].time, h.node[c].time)
     THEN c + 1 ELSE c

(* Down: as long as the earlier child is earlier than time. *)
tmevt_down(h, time, last) ==
  LET P == {j \in DOMAIN h.node :
              /\ LCHILD(j) <= last
              /\ ~EVTTIM_LE(time, h.node[early_child(h, j, last)].time)}
  IN [j \in P |-> early_child(h, j, last)]

(* Mistake: the blocks that move keep their old index. *)
place_mut(h, from, i, n) ==
  LET T == trail(h, from, i)
      end == T \ DOMAIN from
  IN [node |-> [j \in DOMAIN h.node |->
                  IF j \in end THEN n ELSE IF j \in T THEN h.node[from[j]]
                                      ELSE h.node[j]],
      index |-> [h.index EXCEPT ![n.tmevtb] = CHOOSE j \in end : TRUE]]

(* The nodes on the trail move up or down by one, node n takes the place   *)
(* at its end, and the blocks of all of them learn their new positions.    *)
place(h, from, i, n) ==
  LET T == trail(h, from, i)
      node == [j \in DOMAIN h.node |->
                 IF j \notin T THEN h.node[j]
                 ELSE IF j \in DOMAIN from THEN h.node[from[j]] ELSE n]
      at(e) == {j \in T : node[j].tmevtb = e}
  IN [node |-> node,
      index |-> [e \in Event |->
                   IF at(e) = {} THEN h.index[e] ELSE CHOOSE j \in at(e) : TRUE]]

tmevtb_insert(h, e, time) ==
  LET n == [time |-> time, tmevtb |-> e]
      h1 == [h EXCEPT !.node = Append(@, n)]
  IN place(h1, tmevt_up(h1, time), Len(h1.node), n)

(* The last node takes the place of node i and goes where it belongs. *)
remove(h, i) ==
  LET last == Len(h.node) - 1
      n == h.node[last + 1]
      from == IF i > 1 /\ EVTTIM_LT(n.time, h.node[PARENT(i)].time)
              THEN tmevt_up(h, n.time) ELSE tmevt_down(h, n.time, last)
      h1 == IF last = 0 THEN h ELSE place(h, from, i, n)
  IN [h1 EXCEPT !.node = SubSeq(@, 1, last), !.index[h.node[i].tmevtb] = 0]

tmevtb_delete(h, e) == remove(h, h.index[e])
tmevtb_delete_top(h) == remove(h, 1)

queued(e) == \E i \in DOMAIN H.node : H.node[i].tmevtb = e

-----------------------------------------------------------------------------
(* tmevt_initialize *)
Init ==
  /\ current_time = 0
  /\ next_time = TIC_NUME \div TIC_DENO
  /\ next_subtime = TIC_NUME % TIC_DENO
  /\ H = [node |-> << >>, index |-> [e \in Event |-> 0]]
  /\ cycsta = [c \in Cyc |-> FALSE]
  /\ evttim = [c \in Cyc |-> 0]
  /\ starting = TA_STA
  /\ ticking = FALSE
  /\ called = {}

(* A handler of cyclic_initialize with attribute TA_STA; the kernel starts *)
(* when there is none left.                                                *)
cyclic_initialize(c) ==
  /\ c \in starting
  /\ starting' = starting \ {c}
  /\ cycsta' = [cycsta EXCEPT ![c] = TRUE]
  /\ H' = tmevtb_insert(H, c, cycphs[c])
  /\ evttim' = [evttim EXCEPT ![c] = cycphs[c]]
  /\ UNCHANGED <<clock, ticking, called>>

(* A task that starts to wait with a time-out registers its block. *)
tmevtb_enqueue(e, r) ==
  /\ ~ticking
  /\ e \notin Cyc /\ ~queued(e)
  /\ H' = tmevtb_insert(H, e, (base_time + r) % W)
  /\ called' = {}
  /\ UNCHANGED <<clock, cycsta, evttim, starting, ticking>>

(* A wait is ended by a task, or by a handler that runs in a window of     *)
(* isig_tim, before its time-out.                                          *)
tmevtb_dequeue(e) ==
  /\ e \notin Cyc /\ queued(e)
  /\ H' = tmevtb_delete(H, e)
  /\ called' = {}
  /\ UNCHANGED <<clock, cycsta, evttim, starting, ticking>>

(* Mistake: a handler in operation is not taken out of the heap first. *)
sta_cyc_mut(c) ==
  /\ ~ticking
  /\ cycsta' = [cycsta EXCEPT ![c] = TRUE]
  /\ LET t == (base_time + cyctim[c]) % W
     IN /\ H' = tmevtb_insert(H, c, t)
        /\ evttim' = [evttim EXCEPT ![c] = t]
  /\ called' = {}
  /\ UNCHANGED <<clock, starting, ticking>>

sta_cyc(c) ==
  /\ ~ticking
  /\ cycsta' = [cycsta EXCEPT ![c] = TRUE]
  /\ LET t == (base_time + cyctim[c]) % W
     IN /\ H' = tmevtb_insert(IF cycsta[c] THEN tmevtb_delete(H, c) ELSE H, c, t)
        /\ evttim' = [evttim EXCEPT ![c] = t]
  /\ called' = {}
  /\ UNCHANGED <<clock, starting, ticking>>

stp_cyc(c) ==
  /\ ~ticking
  /\ cycsta[c]
  /\ cycsta' = [cycsta EXCEPT ![c] = FALSE]
  /\ H' = tmevtb_delete(H, c)
  /\ evttim' = [evttim EXCEPT ![c] = 0]
  /\ called' = {}
  /\ UNCHANGED <<clock, starting, ticking>>

-----------------------------------------------------------------------------
(* isig_tim.  Tasks do not run until it has returned. *)

isig_tim_enter ==
  /\ ~ticking
  /\ ticking' = TRUE
  /\ called' = {}
  /\ UNCHANGED <<H, clock, cycsta, evttim, starting>>

DueNow == last_index > 0 /\ EVTTIM_LE(H.node[1].time, next_time)

(* Mistake: the next period starts when the handler is called. *)
call_back_mut ==
  /\ ticking /\ DueNow
  /\ LET e == H.node[1].tmevtb
         h == tmevtb_delete_top(H)
         t == (next_time + cyctim[e]) % W
     IN /\ called' = {e}
        /\ IF e \in Cyc
           THEN H' = tmevtb_insert(h, e, t) /\ evttim' = [evttim EXCEPT ![e] = t]
           ELSE H' = h /\ UNCHANGED evttim
  /\ UNCHANGED <<clock, cycsta, starting, ticking>>

(* One iteration: the first event leaves the heap and is called back.  The *)
(* call-back of a cyclic handler, call_cychdr, registers the next period   *)
(* before it calls the handler unlocked.                                   *)
call_back ==
  /\ ticking /\ DueNow
  /\ LET e == H.node[1].tmevtb
         h == tmevtb_delete_top(H)
         t == (evttim[e] + cyctim[e]) % W
     IN /\ called' = {e}
        /\ IF e \in Cyc
           THEN H' = tmevtb_insert(h, e, t) /\ evttim' = [evttim EXCEPT ![e] = t]
           ELSE H' = h /\ UNCHANGED evttim
  /\ UNCHANGED <<clock, cycsta, starting, ticking>>

isig_tim_return ==
  /\ ticking /\ ~DueNow
  /\ LET sub == next_subtime + (TIC_NUME % TIC_DENO)
     IN /\ current_time' = next_time
        /\ next_time' = (next_time + TIC_NUME \div TIC_DENO
                         + (IF sub >= TIC_DENO THEN 1 ELSE 0)) % W
        /\ next_subtime' = sub % TIC_DENO
  /\ ticking' = FALSE
  /\ called' = {}
  /\ UNCHANGED <<H, cycsta, evttim, starting>>

TaskNext ==
  \/ \E e \in Event : tmevtb_dequeue(e) \/ \E r \in Reltim : tmevtb_enqueue(e, r)
  \/ \E c \in Cyc : sta_cyc(c) \/ stp_cyc(c)

Next ==
  \/ \E c \in Cyc : cyclic_initialize(c)
  \/ starting = {} /\ (TaskNext \/ isig_tim_enter \/ call_back \/ isig_tim_return)

Spec == Init /\ [][Next]_vars

-----------------------------------------------------------------------------
(* The heap: no node is earlier than its parent in the order that wraps    *)
(* around, every block knows its position, which tmevtb_delete trusts, is  *)
(* in the heap at most once, and a cyclic handler is there exactly while   *)
(* in operation, at the time it keeps in evttim.                           *)
HeapInv ==
  LET N == DOMAIN H.node
  IN /\ \A i \in N \ {1} : ~EVTTIM_LT(H.node[i].time, H.node[PARENT(i)].time)
     /\ \A i \in N : H.index[H.node[i].tmevtb] = i
     /\ \A c \in Cyc :
          /\ cycsta[c] <=> queued(c)
          /\ cycsta[c] => H.node[H.index[c]].time = evttim[c]

(* What is left until an event, in 1/TIC_DENO ms from the next tick. *)
left(e) ==
  (rel(H.node[H.index[e]].time) - rel(next_time)) * TIC_DENO - next_subtime

(* A handler still to be started counts as registered. *)
remaining ==
  [e \in {f \in Event : queued(f)} \cup starting |->
     IF e \in starting THEN cycphs[e] * TIC_DENO - TIC_NUME ELSE left(e)]

Timer == INSTANCE Timers WITH due <- remaining

(* The heap with its modular times implements Timers: no event is called   *)
(* early, twice, late or out of order, also when times wrap around, ticks  *)
(* are not whole milliseconds, and handlers in the windows of isig_tim     *)
(* cancel events.                                                          *)
ImplementsTimers == Timer!Spec
=============================================================================
