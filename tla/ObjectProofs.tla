---------------------------- MODULE ObjectProofs ----------------------------
(***************************************************************************)
(* Proofs about the objects over the kernel other than semaphores, for any *)
(* number of tasks and objects and any parameters of them.                 *)
(*   Part 1: data queues.  Part 2: memory pools.  Part 3: event flags.     *)
(*   Part 4: the heap.  Part 5: the file system lock.                      *)
(*   Part 6: a data queue is a channel.  Part 7: mailboxes.                *)
(*   Part 8: the system log.                                               *)
(* Each of the inductive invariants of parts 1 to 7 has what is proved of  *)
(* the kernel as its first conjunct.  The kernel's steps keep the rest     *)
(* because they put nobody into the wait queue of an object (NextNoNew)    *)
(* and begin or end the wait of at most one task (NextWaits).              *)
(***************************************************************************)
EXTENDS DataQueue, MemPool, EventFlag, SemLock, Heap, Mailbox, SysLog,
        KernelCallProofs

-----------------------------------------------------------------------------
(* Part 1: data queues. *)

(* The ring's indices stay in the ring. *)
RingInv ==
  /\ dtqcnt \in Nat
  /\ count \in 0 .. dtqcnt
  /\ dtqcnt > 0 => /\ head \in 0 .. dtqcnt - 1
                   /\ tail = IF head + count < dtqcnt THEN head + count
                                                      ELSE head + count - dtqcnt

(* Nobody waits without reason. *)
QueueInv ==
  /\ k.wait_queue[swait_queue] # << >> => count = dtqcnt
  /\ k.wait_queue[rwait_queue] # << >> =>
       count = 0 /\ k.wait_queue[swait_queue] = << >>

DtqIInv == KernelInvs /\ RingInv /\ QueueInv

(* The remainder of a number below twice the divisor. *)
LEMMA Remainder ==
  ASSUME NEW n \in Nat \ {0}, NEW x \in 0 .. 2 * n - 1
  PROVE  x % n = IF x < n THEN x ELSE x - n
<1>1. CASE x < n
  BY <1>1, SMTT(30)
<1>2. CASE ~(x < n)
  BY <1>2, SMTT(30)
<1> QED
  BY <1>1, <1>2

(* RingInv and QueueInv are DtqInv with the remainder written out. *)
LEMMA RingMeans == RingInv /\ QueueInv => DtqInv
<1> SUFFICES ASSUME RingInv, QueueInv PROVE DtqInv
  OBVIOUS
<1> DEFINE n == dtqcnt
<1>1. n \in Nat /\ count \in 0 .. n
  BY DEF RingInv
<1>2. ASSUME n > 0
      PROVE  tail = (head + count) % n
  <2>1. /\ head \in 0 .. n - 1
        /\ tail = IF head + count < n THEN head + count ELSE head + count - n
    BY <1>2 DEF RingInv
  <2> HIDE DEF n
  <2>2. n \in Nat \ {0} /\ head + count \in 0 .. 2 * n - 1
    BY <1>1, <1>2, <2>1
  <2> DEFINE x == head + count
  <2> HIDE DEF x
  <2>3. x % n = IF x < n THEN x ELSE x - n
    BY <2>2, Remainder DEF x
  <2>4. tail = IF x < n THEN x ELSE x - n
    BY <1>1, <2>1, <2>2 DEF x
  <2>5. tail = x % n
    BY <2>3, <2>4, Zenon
  <2> QED
    BY <2>5, Zenon DEF x
<1> QED
  BY <1>1, <1>2 DEF DtqInv, QueueInv

(* Storing into a cell keeps the capacity. *)
LEMMA CapacityKept ==
  ASSUME NEW i, NEW d, ring' = [ring EXCEPT ![i] = d]
  PROVE  dtqcnt' = dtqcnt
<1>1. DOMAIN ring' = DOMAIN ring
  OBVIOUS
<1> QED
  BY <1>1 DEF dtqcnt

(* The queues are wait queues of the kernel. *)
LEMMA QueuesKnown ==
  ASSUME KernelInvs
  PROVE  /\ swait_queue \in WObj /\ rwait_queue \in WObj /\ swait_queue # rwait_queue
         /\ rwait_queue \notin TA_TPRI /\ DOMAIN k.wait_queue = WObj
  BY DtqAssumption DEF KernelInvs, TypeInv, TypeOK, Tables

(* The first receiver gets the data. *)
LEMMA HandOverInv ==
  ASSUME DtqIInv, NEW d,
         (TSKCTX /\ send_data_rwait(d, TaskCall)) \/ (INTCTX /\ send_data_rwait(d, IntCall))
  PROVE  DtqIInv'
<1> DEFINE o == rwait_queue
           t == Head(k.wait_queue[o])
           k2 == wait_complete([k EXCEPT !.wait_queue[o] = Tail(@)], t)
           disp == Disp(make_non_wait_ret(k, t))
<1>1. KernelInvs
  BY DEF DtqIInv
<1>2. /\ k.wait_queue[o] # << >> /\ UNCHANGED ringvars
      /\ (TSKCTX /\ TaskCall(k2, disp)) \/ (INTCTX /\ IntCall(k2, disp))
  BY DEF send_data_rwait
<1>3. KernelInvs' /\ k'.wait_queue = [k.wait_queue EXCEPT ![o] = Tail(@)]
  BY <1>1, <1>2, QueuesKnown, WakeHead
<1>4. k'.wait_queue[swait_queue] = k.wait_queue[swait_queue]
  BY <1>1, <1>3, QueuesKnown
<1>5. RingInv'
  BY <1>2 DEF ringvars, DtqIInv, RingInv, dtqcnt
<1>6. QueueInv'
  <2>1. dtqcnt' = dtqcnt /\ count' = count
    BY <1>2 DEF ringvars, dtqcnt
  <2>2. count = 0 /\ k.wait_queue[swait_queue] = << >>
    BY <1>2 DEF DtqIInv, QueueInv
  <2> QED
    BY <1>4, <2>1, <2>2 DEF QueueInv
<1> QED
  BY <1>3, <1>5, <1>6 DEF DtqIInv

(* Data goes into the ring, which must have room or be forced. *)
LEMMA EnqueueInv ==
  ASSUME DtqIInv, NEW d,
         \/ TSKCTX /\ (enqueue_data(d, TaskCall) \/ force_enqueue_data(d, TaskCall))
         \/ INTCTX /\ (enqueue_data(d, IntCall) \/ force_enqueue_data(d, IntCall)),
         dtqcnt > 0
  PROVE  DtqIInv'
<1> DEFINE n == dtqcnt
<1>1. /\ KernelInvs /\ n \in Nat \ {0} /\ count \in 0 .. n /\ head \in 0 .. n - 1
      /\ tail = IF head + count < n THEN head + count ELSE head + count - n
  BY DEF DtqIInv, RingInv
<1>2. /\ (TSKCTX /\ TaskCall(k, FALSE)) \/ (INTCTX /\ IntCall(k, FALSE))
      /\ k.wait_queue[rwait_queue] = << >> /\ ring' = [ring EXCEPT ![tail] = d]
      /\ tail' = next(tail)
      /\ \/ count < n /\ count' = count + 1 /\ UNCHANGED head
         \/ ~(count < n) /\ count' = count /\ head' = next(tail)
  BY DEF enqueue_data, force_enqueue_data, no_receiver
<1>3. KernelInvs' /\ k' = k
  BY <1>1, <1>2, CallNothing
<1>4. dtqcnt' = n
  BY <1>2, CapacityKept
<1>5. next(tail) = IF tail + 1 >= n THEN 0 ELSE tail + 1
  BY DEF next
<1>6. k.wait_queue[swait_queue] # << >> => count = n
  BY DEF DtqIInv, QueueInv
<1> HIDE DEF n
<1>7. /\ count' \in 0 .. n /\ head' \in 0 .. n - 1
      /\ tail' = IF head' + count' < n THEN head' + count' ELSE head' + count' - n
      /\ count = n => count' = n
  BY <1>1, <1>2, <1>5
<1>8. RingInv'
  BY <1>1, <1>4, <1>7 DEF RingInv
<1>9. QueueInv'
  BY <1>2, <1>3, <1>4, <1>6, <1>7 DEF QueueInv
<1> QED
  BY <1>3, <1>8, <1>9 DEF DtqIInv

(* psnd_dtq, ipsnd_dtq, fsnd_dtq and ifsnd_dtq. *)
LEMMA SendInv ==
  ASSUME DtqIInv, NEW d,
         \/ TSKCTX /\ (psnd(d, TaskCall) \/ fsnd(d, TaskCall))
         \/ INTCTX /\ (psnd(d, IntCall) \/ fsnd(d, IntCall))
  PROVE  DtqIInv'
<1>1. CASE (TSKCTX /\ send_data_rwait(d, TaskCall)) \/ (INTCTX /\ send_data_rwait(d, IntCall))
  BY <1>1, HandOverInv
<1>2. dtqcnt \in Nat /\ count \in 0 .. dtqcnt
  BY DEF DtqIInv, RingInv
<1>3. CASE (TSKCTX /\ enqueue_data(d, TaskCall)) \/ (INTCTX /\ enqueue_data(d, IntCall))
  <2>1. count < dtqcnt
    BY <1>3 DEF enqueue_data
  <2>2. dtqcnt > 0
    BY <1>2, <2>1
  <2> QED
    BY <1>3, <2>2, EnqueueInv
<1>4. CASE /\ dtqcnt > 0
           /\ \/ TSKCTX /\ force_enqueue_data(d, TaskCall)
              \/ INTCTX /\ force_enqueue_data(d, IntCall)
  BY <1>4, EnqueueInv
<1> QED
  BY <1>1, <1>3, <1>4 DEF psnd, fsnd

(* A task waits for data, or with its data for room. *)
LEMMA DtqWaitInv ==
  ASSUME DtqIInv, CAN_WAIT, NEW tm \in {"none", "wait_tmout"}
  PROVE  /\ /\ no_receiver /\ count >= dtqcnt /\ UNCHANGED ringvars
            /\ TaskCall(wobj_make_wait_tmout(k, runtsk, swait_queue, tm), TRUE)
            => DtqIInv'
         /\ /\ count = 0 /\ k.wait_queue[swait_queue] = << >> /\ UNCHANGED ringvars
            /\ LET k1 == make_wait_tmout(k, runtsk, TS_RECEIVING, tm)
                   k2 == [k1 EXCEPT !.wait_queue[rwait_queue] = queue_insert_prev(@, runtsk)]
               IN TaskCall([k2 EXCEPT !.tcb[runtsk].wobj = rwait_queue], TRUE)
            => DtqIInv'
<1>1. KernelInvs /\ RingInv /\ QueueInv /\ count \in 0 .. dtqcnt /\ dtqcnt \in Nat
  BY DEF DtqIInv, RingInv
<1>2. ASSUME UNCHANGED ringvars
      PROVE  RingInv' /\ dtqcnt' = dtqcnt /\ count' = count
  BY <1>1, <1>2 DEF ringvars, RingInv, dtqcnt
<1>3. ASSUME no_receiver, count >= dtqcnt, UNCHANGED ringvars,
             TaskCall(wobj_make_wait_tmout(k, runtsk, swait_queue, tm), TRUE)
      PROVE  DtqIInv'
  <2>1. PICK q : KernelInvs' /\ k'.wait_queue = [k.wait_queue EXCEPT ![swait_queue] = q]
    BY <1>1, <1>3, QueuesKnown, WaitOnObject
  <2>2. k'.wait_queue[rwait_queue] = << >>
    BY <1>1, <1>3, <2>1, QueuesKnown DEF no_receiver
  <2>3. count = dtqcnt
    BY <1>1, <1>3
  <2> QED
    BY <1>2, <1>3, <2>1, <2>2, <2>3 DEF DtqIInv, QueueInv
<1>4. ASSUME count = 0, k.wait_queue[swait_queue] = << >>, UNCHANGED ringvars,
             LET k1 == make_wait_tmout(k, runtsk, TS_RECEIVING, tm)
                 k2 == [k1 EXCEPT !.wait_queue[rwait_queue] = queue_insert_prev(@, runtsk)]
             IN TaskCall([k2 EXCEPT !.tcb[runtsk].wobj = rwait_queue], TRUE)
      PROVE  DtqIInv'
  <2> DEFINE o == rwait_queue
             k1 == make_wait_tmout(k, runtsk, TS_RECEIVING, tm)
             q == queue_insert_prev(k1.wait_queue[o], runtsk)
             k2 == [k1 EXCEPT !.wait_queue[o] = q]
  <2>1. TaskCall([k2 EXCEPT !.tcb[runtsk].wobj = o], TRUE)
    BY <1>4
  <2>2. runtsk \in Task
    BY <1>1 DEF KernelInvs, TypeInv, TypeOK, CAN_WAIT, TSKCTX_UNL, TSKCTX
  <2>3. ASSUME k1.wait_queue = k.wait_queue,
               NEW S, Holds(k.wait_queue[o], S), runtsk \notin S
        PROVE  Holds(q, S \cup {runtsk})
    BY <2>2, <2>3, AppendHolds DEF queue_insert_prev
  <2>4. /\ TS_RECEIVING \in {{"WAITING", "WOBJ", "WOBJCB"}, {"WAITING", "WOBJ"}}
        /\ o \in WObj /\ o \notin TA_TPRI
    BY <1>1, QueuesKnown DEF TS_RECEIVING
  <2> HIDE DEF q, o
  <2>5. KernelInvs' /\ k'.wait_queue = [k.wait_queue EXCEPT ![o] = q]
    BY <1>1, <2>1, <2>3, <2>4, WaitOn
  <2>6. k'.wait_queue[swait_queue] = << >>
    BY <1>1, <1>4, <2>5, QueuesKnown DEF o
  <2> QED
    BY <1>2, <1>4, <2>5, <2>6 DEF DtqIInv, QueueInv
<1> QED
  BY <1>3, <1>4

(* A receiver takes data and lets the first blocked sender go on. *)
LEMMA ReceiveInv ==
  ASSUME DtqIInv, TSKCTX, receive
  PROVE  DtqIInv'
<1> DEFINE n == dtqcnt
           o == swait_queue
<1>1. /\ KernelInvs /\ n \in Nat /\ count \in 0 .. n
      /\ n > 0 => /\ head \in 0 .. n - 1
                  /\ tail = IF head + count < n THEN head + count ELSE head + count - n
      /\ (k.wait_queue[o] # << >> => count = n)
      /\ k.wait_queue[rwait_queue] # << >> => count = 0 /\ k.wait_queue[o] = << >>
  BY DEF DtqIInv, RingInv, QueueInv
<1>2. ASSUME k.wait_queue[o] # << >>, complete_sender
      PROVE  KernelInvs' /\ k'.wait_queue = [k.wait_queue EXCEPT ![o] = Tail(@)]
  BY <1>1, <1>2, QueuesKnown, WakeHead DEF complete_sender, sender
<1>3. \A i : next(i) = IF i + 1 >= n THEN 0 ELSE i + 1
  BY DEF next
<1>4. CASE /\ count > 0 /\ head' = next(head) /\ k.wait_queue[o] = << >>
           /\ count' = count - 1 /\ UNCHANGED <<ring, tail>> /\ TaskCall(k, FALSE)
  <2>1. KernelInvs' /\ k' = k
    BY <1>1, <1>4, CallNothing
  <2>2. dtqcnt' = n
    BY <1>4 DEF dtqcnt
  <2> HIDE DEF n
  <2>3. /\ count' \in 0 .. n
        /\ n > 0 => /\ head' \in 0 .. n - 1
                    /\ tail' = IF head' + count' < n THEN head' + count' ELSE head' + count' - n
    BY <1>1, <1>3, <1>4
  <2>4. k.wait_queue[rwait_queue] = << >>
    BY <1>1, <1>4
  <2> QED
    BY <1>1, <1>4, <2>1, <2>2, <2>3, <2>4 DEF DtqIInv, RingInv, QueueInv
<1>5. CASE /\ count > 0 /\ head' = next(head) /\ k.wait_queue[o] # << >>
           /\ ring' = [ring EXCEPT ![tail] = offer[sender]]
           /\ tail' = next(tail) /\ UNCHANGED count /\ complete_sender
  <2>1. KernelInvs' /\ k'.wait_queue = [k.wait_queue EXCEPT ![o] = Tail(@)]
    BY <1>2, <1>5
  <2>2. dtqcnt' = n
    BY <1>5, CapacityKept
  <2>3. k'.wait_queue[rwait_queue] = << >>
    BY <1>1, <1>5, <2>1, QueuesKnown
  <2> HIDE DEF n
  <2>4. /\ count' = n
        /\ n > 0 => /\ head' \in 0 .. n - 1
                    /\ tail' = IF head' + count' < n THEN head' + count' ELSE head' + count' - n
    <3>1. /\ n \in Nat /\ n > 0 /\ count = n /\ count' = n /\ head \in 0 .. n - 1
          /\ tail = IF head + count < n THEN head + count ELSE head + count - n
      BY <1>1, <1>5
    <3>2. tail = head
      BY <3>1
    <3>3. head' \in 0 .. n - 1 /\ tail' = head'
      <4>1. /\ head' = IF head + 1 >= n THEN 0 ELSE head + 1
            /\ tail' = IF tail + 1 >= n THEN 0 ELSE tail + 1
        BY <1>3, <1>5
      <4> QED
        BY <3>1, <3>2, <4>1
    <3>4. tail' = IF head' + n < n THEN head' + n ELSE head' + n - n
      <4>1. n \in Nat /\ head' \in 0 .. n - 1
        BY <3>1, <3>3
      <4>2. \A i \in 0 .. n - 1 : i = IF i + n < n THEN i + n ELSE i + n - n
        BY <3>1
      <4>3. head' = IF head' + n < n THEN head' + n ELSE head' + n - n
        BY <4>1, <4>2
      <4> QED
        BY <3>3, <4>3
    <3> QED
      BY <3>1, <3>3, <3>4
  <2> QED
    BY <1>1, <2>1, <2>2, <2>3, <2>4 DEF DtqIInv, RingInv, QueueInv
<1>6. CASE receive_data_swait
  <2>1. k.wait_queue[o] # << >> /\ complete_sender /\ UNCHANGED ringvars
    BY <1>6 DEF receive_data_swait
  <2>2. KernelInvs' /\ k'.wait_queue = [k.wait_queue EXCEPT ![o] = Tail(@)]
    BY <1>2, <2>1
  <2>3. k'.wait_queue[rwait_queue] = << >>
    BY <1>1, <2>1, <2>2, QueuesKnown
  <2>4. RingInv' /\ dtqcnt' = dtqcnt /\ count' = count
    BY <2>1 DEF DtqIInv, RingInv, ringvars, dtqcnt
  <2> QED
    BY <1>1, <2>1, <2>2, <2>3, <2>4 DEF DtqIInv, QueueInv
<1> QED
  BY <1>4, <1>5, <1>6 DEF receive, dequeue_data

(* Every service of a data queue, and every step of the kernel, keeps the strengthened invariant. *)
LEMMA DtqNextInv == DtqIInv /\ [DtqNext]_vars => DtqIInv'
<1> SUFFICES ASSUME DtqIInv, [DtqNext]_vars PROVE DtqIInv'
  OBVIOUS
<1>1. CASE prcv_dtq
  BY <1>1, ReceiveInv DEF prcv_dtq, TSKCTX_UNL
<1>2. ASSUME NEW tm \in {"none", "wait_tmout"}, trcv_dtq(tm) PROVE DtqIInv'
  <2>1. CAN_WAIT /\ TSKCTX
    BY <1>2 DEF trcv_dtq, CAN_WAIT, TSKCTX_UNL
  <2>2. CASE receive
    BY <2>1, <2>2, ReceiveInv
  <2>3. CASE ~receive
    <3>1. /\ count = 0 /\ k.wait_queue[swait_queue] = << >> /\ UNCHANGED ringvars
          /\ LET k1 == make_wait_tmout(k, runtsk, TS_RECEIVING, tm)
                 k2 == [k1 EXCEPT !.wait_queue[rwait_queue] = queue_insert_prev(@, runtsk)]
             IN TaskCall([k2 EXCEPT !.tcb[runtsk].wobj = rwait_queue], TRUE)
      BY <1>2, <2>3 DEF trcv_dtq, dtqvars
    <3> QED
      BY <2>1, <3>1, DtqWaitInv
  <2> QED
    BY <2>2, <2>3
<1>3. ASSUME NEW d \in Data,
             psnd_dtq(d) \/ ipsnd_dtq(d) \/ fsnd_dtq(d) \/ ifsnd_dtq(d)
      PROVE  DtqIInv'
  <2>1. \/ TSKCTX /\ (psnd(d, TaskCall) \/ fsnd(d, TaskCall))
        \/ INTCTX /\ (psnd(d, IntCall) \/ fsnd(d, IntCall))
    BY <1>3 DEF psnd_dtq, ipsnd_dtq, fsnd_dtq, ifsnd_dtq, TSKCTX_UNL, INTCTX_UNL
  <2> QED
    BY <2>1, SendInv
<1>4. ASSUME NEW d \in Data, NEW tm \in {"none", "wait_tmout"}, tsnd_dtq(d, tm)
      PROVE  DtqIInv'
  <2>1. CAN_WAIT /\ TSKCTX
    BY <1>4 DEF tsnd_dtq, CAN_WAIT, TSKCTX_UNL
  <2>2. CASE psnd(d, TaskCall)
    BY <2>1, <2>2, SendInv
  <2>3. CASE ~psnd(d, TaskCall)
    <3>1. /\ no_receiver /\ count >= dtqcnt /\ UNCHANGED ringvars
          /\ TaskCall(wobj_make_wait_tmout(k, runtsk, swait_queue, tm), TRUE)
      BY <1>4, <2>3 DEF tsnd_dtq
    <3> QED
      BY <2>1, <3>1, DtqWaitInv
  <2> QED
    BY <2>2, <2>3
<1>5. CASE [Next]_kvars /\ UNCHANGED dtqvars
  <2>1. KernelInvs' /\ NoNew(k', k)
    BY <1>5, KernelStep, NextNoNew DEF DtqIInv, KernelInvs
  <2>2. RingInv' /\ count' = count /\ dtqcnt' = dtqcnt
    BY <1>5 DEF DtqIInv, RingInv, dtqvars, ringvars, dtqcnt
  <2>3. QueueInv'
    BY <2>1, <2>2, QueuesKnown DEF DtqIInv, QueueInv, NoNew
  <2> QED
    BY <2>1, <2>2, <2>3 DEF DtqIInv
<1> QED
  BY <1>1, <1>2, <1>3, <1>4, <1>5 DEF DtqNext, DtqCalls, vars

(* It holds when the queue is empty and no task waits. *)
LEMMA DtqInitInv == DtqInit => DtqIInv
<1> SUFFICES ASSUME DtqInit PROVE DtqIInv
  OBVIOUS
<1>1. KernelInvs
  BY KernelStart DEF DtqInit
<1>2. PICK n \in Capacity : ring = [i \in 0 .. n - 1 |-> AnyData]
  BY DEF DtqInit
<1>3. n \in Nat
  BY DtqAssumption
<1>4. dtqcnt = n
  <2>1. DOMAIN ring = 0 .. n - 1
    BY <1>2
  <2>2. Cardinality(0 .. n - 1) = n
    <3>1. Cardinality(0 .. n - 1) = IF 0 > n - 1 THEN 0 ELSE n - 1 - 0 + 1
      BY <1>3, FS_Interval
    <3> QED
      BY <1>3, <3>1
  <2> QED
    BY <2>1, <2>2 DEF dtqcnt
<1>5. RingInv
  BY <1>3, <1>4 DEF DtqInit, RingInv
<1>6. \A o \in WObj : k.wait_queue[o] = << >>
  BY DEF DtqInit, Init, InitTables
<1>7. QueueInv
  BY <1>1, <1>6, QueuesKnown DEF QueueInv
<1> QED
  BY <1>1, <1>5, <1>7 DEF DtqIInv

(* Blocked senders mean a full ring, blocked receivers an empty one and no *)
(* sender, and head, tail and count agree, for every capacity.             *)
THEOREM DataQueueRight == DtqSpec => []DtqInv
<1>1. DtqIInv => DtqInv
  BY RingMeans DEF DtqIInv
<1> QED
  BY <1>1, DtqInitInv, DtqNextInv, PTL DEF DtqSpec

-----------------------------------------------------------------------------
(* Part 2: memory pools. *)

(* What the free list holds when its first block is taken. *)
LEMMA TailMembers ==
  ASSUME NEW T, NEW q \in Seq(T), NoRepeat(q), q # << >>
  PROVE  /\ Tail(q) \in Seq(T) /\ Head(q) \in T /\ Head(q) \in Members(q)
         /\ NoRepeat(Tail(q))
         /\ Members(Tail(q)) = Members(q) \ {Head(q)}
<1>1. /\ Len(q) \in Nat \ {0} /\ DOMAIN q = 1 .. Len(q)
      /\ Tail(q) \in Seq(T) /\ DOMAIN Tail(q) = 1 .. Len(q) - 1
      /\ \A i \in 1 .. Len(q) - 1 : Tail(q)[i] = q[i + 1]
      /\ Head(q) = q[1] /\ q[1] \in T
  <2>1. Len(q) \in Nat \ {0} /\ DOMAIN q = 1 .. Len(q)
    BY EmptySeq, LenProperties
  <2>2. Tail(q) \in Seq(T) /\ Len(Tail(q)) = Len(q) - 1
    BY HeadTailProperties
  <2>3. DOMAIN Tail(q) = 1 .. Len(q) - 1 /\ \A i \in 1 .. Len(q) - 1 : Tail(q)[i] = q[i + 1]
    BY <2>1, <2>2, HeadTailProperties, LenProperties
  <2>4. Head(q) = q[1] /\ q[1] \in T
    BY <2>1, HeadTailProperties, ElementOfSeq
  <2> QED
    BY <2>1, <2>2, <2>3, <2>4
<1> DEFINE r == Tail(q)
<1>2. Head(q) \in Members(q)
  BY <1>1 DEF Members
<1>3. NoRepeat(r)
  BY <1>1 DEF NoRepeat
<1>4. ASSUME NEW x PROVE x \in Members(r) <=> x \in Members(q) \ {Head(q)}
  <2>1. ASSUME x \in Members(r) PROVE x \in Members(q) \ {Head(q)}
    <3>1. PICK i \in 1 .. Len(q) - 1 : x = q[i + 1]
      BY <1>1, <2>1 DEF Members
    <3>2. i + 1 \in DOMAIN q /\ 1 \in DOMAIN q /\ i + 1 # 1
      BY <1>1
    <3>3. q[i + 1] # q[1]
      BY <3>2 DEF NoRepeat
    <3> QED
      BY <1>1, <3>1, <3>2, <3>3 DEF Members
  <2>2. ASSUME x \in Members(q) \ {Head(q)} PROVE x \in Members(r)
    <3>1. PICK i \in 1 .. Len(q) : x = q[i]
      BY <1>1, <2>2 DEF Members
    <3>2. i # 1
      BY <1>1, <2>2, <3>1
    <3>3. i - 1 \in 1 .. Len(q) - 1 /\ r[i - 1] = q[(i - 1) + 1] /\ (i - 1) + 1 = i
      BY <1>1, <3>1, <3>2
    <3> QED
      BY <1>1, <3>1, <3>3 DEF Members
  <2> QED
    BY <2>1, <2>2
<1>5. Members(r) = Members(q) \ {Head(q)}
  BY <1>4
<1> QED
  BY <1>1, <1>2, <1>3, <1>5

(* What it holds when a block is returned. *)
LEMMA PushMembers ==
  ASSUME NEW T, NEW q \in Seq(T), NoRepeat(q), NEW x \in T, x \notin Members(q)
  PROVE  /\ <<x>> \o q \in Seq(T)
         /\ NoRepeat(<<x>> \o q)
         /\ Members(<<x>> \o q) = Members(q) \cup {x}
<1> DEFINE r == <<x>> \o q
<1>1. /\ r \in Seq(T) /\ Len(q) \in Nat
      /\ DOMAIN q = 1 .. Len(q) /\ DOMAIN r = 1 .. Len(q) + 1
      /\ r[1] = x /\ \A i \in 1 .. Len(q) : r[i + 1] = q[i]
  BY LenProperties
<1> HIDE DEF r
<1>2. \A i \in 2 .. Len(q) + 1 : i - 1 \in DOMAIN q /\ r[i] = q[i - 1]
  BY <1>1
<1>3. NoRepeat(r)
  <2>1. ASSUME NEW i \in DOMAIN r, NEW j \in DOMAIN r, r[i] = r[j] PROVE i = j
    <3>1. (i = 1 \/ i \in 2 .. Len(q) + 1) /\ (j = 1 \/ j \in 2 .. Len(q) + 1)
      BY <1>1
    <3>2. \A l \in 2 .. Len(q) + 1 : r[l] # x
      BY <1>2 DEF Members
    <3>3. CASE i \in 2 .. Len(q) + 1 /\ j \in 2 .. Len(q) + 1
      <4>1. i - 1 = j - 1
        BY <1>2, <2>1, <3>3 DEF NoRepeat
      <4> QED
        BY <3>3, <4>1
    <3> QED
      BY <1>1, <2>1, <3>1, <3>2, <3>3
  <2> QED
    BY <2>1 DEF NoRepeat
<1>4. Members(r) = Members(q) \cup {x}
  <2>1. ASSUME NEW i \in DOMAIN r PROVE r[i] \in Members(q) \cup {x}
    BY <1>1, <1>2, <2>1 DEF Members
  <2>2. \A y \in Members(q) : y \in Members(r)
    BY <1>1 DEF Members
  <2>3. x \in Members(r)
    BY <1>1 DEF Members
  <2> QED
    BY <2>1, <2>2, <2>3 DEF Members
<1> QED
  BY <1>1, <1>3, <1>4 DEF r

(* The blocks of m that are handed out. *)
Out(m) == {blk \in 0 .. limit[m] : <<m, blk>> \in taken}

(* What MpfInv says of one pool. *)
PoolInv(m) ==
  /\ NoRepeat(freelist[m])
  /\ Members(freelist[m]) \cap Out(m) = {}
  /\ Members(freelist[m]) \cup Out(m) = 0 .. unused[m] - 1
  /\ unused[m] <= limit[m]
  /\ k.wait_queue[m] # << >> => Members(freelist[m]) = {} /\ unused[m] = limit[m]

MpfTypes ==
  /\ unused \in [Mpf -> Nat]
  /\ freelist \in [Mpf -> Seq(Nat)]

MpfIInv == KernelInvs /\ MpfTypes /\ \A m \in Mpf : PoolInv(m)

(* An empty free list holds nothing. *)
LEMMA NoMembers == ASSUME NEW q \in Seq(Nat) PROVE Members(q) = {} <=> q = << >>
<1>1. Len(q) \in Nat /\ DOMAIN q = 1 .. Len(q) /\ (q = << >> <=> Len(q) = 0)
  BY EmptySeq, LenProperties
<1>2. ASSUME q # << >> PROVE q[1] \in Members(q)
  BY <1>1, <1>2 DEF Members
<1>3. ASSUME q = << >> PROVE Members(q) = {}
  <2>1. DOMAIN q = {}
    BY <1>1, <1>3
  <2> QED
    BY <2>1 DEF Members
<1> QED
  BY <1>2, <1>3

(* A call on m keeps the other pools. *)
LEMMA MpfStep ==
  ASSUME MpfIInv, NEW m \in Mpf, KernelInvs',
         \A x \in WObj \ {m} : k.wait_queue[x] = << >> => k'.wait_queue[x] = << >>,
         NEW u \in Nat, unused' = [unused EXCEPT ![m] = u],
         NEW q \in Seq(Nat), freelist' = [freelist EXCEPT ![m] = q],
         \A x \in Mpf \ {m} : \A blk : <<x, blk>> \in taken' <=> <<x, blk>> \in taken,
         PoolInv(m)'
  PROVE  MpfIInv'
<1>1. MpfTypes'
  BY DEF MpfIInv, MpfTypes
<1>2. ASSUME NEW x \in Mpf, x # m PROVE PoolInv(x)'
  <2>1. unused'[x] = unused[x] /\ freelist'[x] = freelist[x] /\ PoolInv(x)
    BY <1>2 DEF MpfIInv, MpfTypes
  <2>2. Out(x)' = Out(x)
    BY <1>2 DEF Out
  <2>3. x \in WObj \ {m}
    BY <1>2, MpfAssumption
  <2> QED
    BY <2>1, <2>2, <2>3 DEF PoolInv
<1> QED
  BY <1>1, <1>2 DEF MpfIInv

(* get_mpf, pget_mpf and tget_mpf with a block there. *)
LEMMA GetInv ==
  ASSUME MpfIInv, NEW m \in Mpf, pget_mpf(m)
  PROVE  MpfIInv'
<1>1. /\ KernelInvs /\ unused[m] \in Nat /\ freelist[m] \in Seq(Nat) /\ PoolInv(m)
      /\ limit[m] \in Nat
  BY MpfAssumption DEF MpfIInv, MpfTypes
<1>2. KernelInvs' /\ k' = k
  <2>1. TSKCTX /\ TaskCall(k, FALSE)
    BY DEF pget_mpf, TSKCTX_UNL
  <2> QED
    BY <1>1, <2>1, CallNothing
<1>3. CASE freelist[m] # << >>
  <2> DEFINE b == Head(freelist[m])
  <2>1. /\ freelist' = [freelist EXCEPT ![m] = Tail(freelist[m])]
        /\ taken' = taken \cup {<<m, b>>} /\ UNCHANGED unused
    BY <1>3 DEF pget_mpf, mempfix_get_block
  <2>2. /\ Tail(freelist[m]) \in Seq(Nat) /\ b \in Members(freelist[m])
        /\ NoRepeat(Tail(freelist[m]))
        /\ Members(Tail(freelist[m])) = Members(freelist[m]) \ {b}
    BY <1>1, <1>3, TailMembers DEF PoolInv
  <2> HIDE DEF b
  <2>3. b \in 0 .. limit[m] /\ unused[m] <= limit[m]
    BY <1>1, <2>2 DEF PoolInv
  <2>4. Out(m)' = Out(m) \cup {b}
    BY <2>1, <2>3 DEF Out
  <2>5. /\ freelist'[m] = Tail(freelist[m]) /\ unused'[m] = unused[m]
        /\ unused' = [unused EXCEPT ![m] = unused[m]]
    BY <2>1 DEF MpfIInv, MpfTypes
  <2>6. k.wait_queue[m] = << >>
    BY <1>1, <2>2 DEF PoolInv
  <2>7. PoolInv(m)'
    <3>1. NoRepeat(freelist'[m]) /\ Members(freelist'[m]) = Members(freelist[m]) \ {b}
      BY <2>2, <2>5
    <3>2. /\ Members(freelist[m]) \cap Out(m) = {}
          /\ Members(freelist[m]) \cup Out(m) = 0 .. unused[m] - 1
      BY <1>1 DEF PoolInv
    <3>3. /\ Members(freelist'[m]) \cap Out(m)' = {}
          /\ Members(freelist'[m]) \cup Out(m)' = 0 .. unused'[m] - 1
      BY <2>2, <2>4, <2>5, <3>1, <3>2
    <3> QED
      BY <1>2, <2>3, <2>5, <2>6, <3>1, <3>3 DEF PoolInv
  <2>8. \A x \in Mpf \ {m} : \A blk : <<x, blk>> \in taken' <=> <<x, blk>> \in taken
    BY <2>1
  <2> QED
    BY <1>1, <1>2, <2>1, <2>2, <2>5, <2>7, <2>8, MpfStep
<1>4. CASE freelist[m] = << >>
  <2> DEFINE b == unused[m]
  <2>1. /\ unused[m] < limit[m] /\ unused' = [unused EXCEPT ![m] = unused[m] + 1]
        /\ taken' = taken \cup {<<m, b>>} /\ UNCHANGED freelist
    BY <1>4 DEF pget_mpf, mempfix_get_block
  <2>2. /\ Members(freelist[m]) = {} /\ freelist'[m] = freelist[m] /\ unused'[m] = b + 1
        /\ freelist' = [freelist EXCEPT ![m] = freelist[m]]
    BY <1>1, <1>4, <2>1, NoMembers DEF MpfIInv, MpfTypes
  <2>3. Out(m)' = Out(m) \cup {b}
    BY <1>1, <2>1 DEF Out
  <2>4. k.wait_queue[m] = << >>
    BY <1>1, <2>1 DEF PoolInv
  <2>5. PoolInv(m)'
    <3>1. Out(m) = 0 .. b - 1 /\ NoRepeat(freelist[m])
      BY <1>1, <2>2 DEF PoolInv
    <3>2. Out(m)' = 0 .. unused'[m] - 1 /\ unused'[m] <= limit[m]
      <4> HIDE DEF b
      <4>1. b \in Nat /\ b < limit[m]
        BY <1>1, <2>1 DEF b
      <4>2. (0 .. b - 1) \cup {b} = 0 .. (b + 1) - 1
        BY <4>1
      <4> QED
        BY <1>1, <2>2, <2>3, <3>1, <4>1, <4>2
    <3> QED
      BY <1>2, <2>2, <2>4, <3>1, <3>2 DEF PoolInv
  <2>6. \A x \in Mpf \ {m} : \A blk : <<x, blk>> \in taken' <=> <<x, blk>> \in taken
    BY <2>1
  <2>7. unused[m] + 1 \in Nat
    BY <1>1
  <2> QED
    BY <1>1, <1>2, <2>1, <2>2, <2>5, <2>6, <2>7, MpfStep
<1> QED
  BY <1>3, <1>4

(* get_mpf and tget_mpf when they block. *)
LEMMA GetWaitInv ==
  ASSUME MpfIInv, NEW m \in Mpf, NEW tm \in {"none", "wait_tmout"}, tget_mpf(m, tm)
  PROVE  MpfIInv'
<1>1. /\ KernelInvs /\ m \in WObj /\ unused[m] \in Nat /\ freelist[m] \in Seq(Nat)
      /\ PoolInv(m) /\ limit[m] \in Nat /\ DOMAIN k.wait_queue = WObj
  BY MpfAssumption DEF MpfIInv, MpfTypes, KernelInvs, TypeInv, TypeOK, Tables
<1>2. /\ CAN_WAIT /\ freelist[m] = << >> /\ unused[m] >= limit[m]
      /\ TaskCall(wobj_make_wait_tmout(k, runtsk, m, tm), TRUE)
      /\ UNCHANGED <<unused, freelist, taken>>
  BY DEF tget_mpf, mpfvars
<1>3. PICK q : KernelInvs' /\ k'.wait_queue = [k.wait_queue EXCEPT ![m] = q]
  BY <1>1, <1>2, WaitOnObject
<1>4. Members(freelist[m]) = {} /\ unused[m] = limit[m]
  <2>1. Members(freelist[m]) = {}
    BY <1>1, <1>2, NoMembers
  <2>2. unused[m] <= limit[m]
    BY <1>1 DEF PoolInv
  <2> QED
    BY <1>1, <1>2, <2>1, <2>2
<1>5. PoolInv(m)'
  BY <1>1, <1>2, <1>4 DEF PoolInv, Out
<1>6. /\ unused' = [unused EXCEPT ![m] = unused[m]]
      /\ freelist' = [freelist EXCEPT ![m] = freelist[m]]
  BY <1>2 DEF MpfIInv, MpfTypes
<1> QED
  BY <1>1, <1>2, <1>3, <1>5, <1>6, MpfStep

(* rel_mpf. *)
LEMMA RelInv ==
  ASSUME MpfIInv, NEW m \in Mpf, NEW blk \in 0 .. limit[m], rel_mpf(m, blk)
  PROVE  MpfIInv'
<1>1. /\ KernelInvs /\ m \in WObj /\ unused[m] \in Nat /\ freelist[m] \in Seq(Nat)
      /\ PoolInv(m) /\ limit[m] \in Nat /\ DOMAIN k.wait_queue = WObj
      /\ unused' = unused /\ unused' = [unused EXCEPT ![m] = unused[m]]
      /\ freelist = [freelist EXCEPT ![m] = freelist[m]] /\ TSKCTX /\ blk \in Out(m)
  BY MpfAssumption DEF MpfIInv, MpfTypes, KernelInvs, TypeInv, TypeOK, Tables, rel_mpf,
                       TSKCTX_UNL, Out
<1>2. CASE k.wait_queue[m] # << >>
  <2> DEFINE t == Head(k.wait_queue[m])
             k2 == wait_complete([k EXCEPT !.wait_queue[m] = Tail(@)], t)
             disp == Disp(make_non_wait_ret(k, t))
  <2>1. TaskCall(k2, disp) /\ UNCHANGED <<taken, freelist>>
    BY <1>2 DEF rel_mpf
  <2>2. KernelInvs' /\ k'.wait_queue = [k.wait_queue EXCEPT ![m] = Tail(@)]
    BY <1>1, <1>2, <2>1, WakeHead
  <2>3. PoolInv(m)'
    BY <1>1, <1>2, <2>1 DEF PoolInv, Out
  <2> QED
    BY <1>1, <2>1, <2>2, <2>3, MpfStep
<1>3. CASE k.wait_queue[m] = << >>
  <2> DEFINE q == <<blk>> \o freelist[m]
  <2>1. TaskCall(k, FALSE) /\ freelist' = [freelist EXCEPT ![m] = q] /\ taken' = taken \ {<<m, blk>>}
    BY <1>3 DEF rel_mpf
  <2>2. KernelInvs' /\ k' = k
    BY <1>1, <2>1, CallNothing
  <2>3. blk \in Nat /\ blk \notin Members(freelist[m]) /\ NoRepeat(freelist[m])
    BY <1>1 DEF PoolInv
  <2>4. q \in Seq(Nat) /\ NoRepeat(q) /\ Members(q) = Members(freelist[m]) \cup {blk}
    BY <1>1, <2>3, PushMembers
  <2> HIDE DEF q
  <2>5. freelist'[m] = q
    BY <2>1 DEF MpfIInv, MpfTypes
  <2>6. Out(m)' = Out(m) \ {blk}
    BY <2>1 DEF Out
  <2>7. PoolInv(m)'
    <3>1. /\ Members(freelist[m]) \cap Out(m) = {}
          /\ Members(freelist[m]) \cup Out(m) = 0 .. unused[m] - 1
          /\ unused[m] <= limit[m]
      BY <1>1 DEF PoolInv
    <3>2. /\ Members(freelist'[m]) \cap Out(m)' = {}
          /\ Members(freelist'[m]) \cup Out(m)' = 0 .. unused[m] - 1
      BY <1>1, <2>4, <2>5, <2>6, <3>1
    <3> QED
      BY <1>1, <1>3, <2>2, <2>4, <2>5, <3>1, <3>2 DEF PoolInv
  <2>8. \A x \in Mpf \ {m} : \A b : <<x, b>> \in taken' <=> <<x, b>> \in taken
    BY <2>1
  <2> QED
    BY <1>1, <2>1, <2>2, <2>4, <2>7, <2>8, MpfStep
<1> QED
  BY <1>2, <1>3

(* Every service of a pool, and every step of the kernel, keeps the strengthened invariant. *)
LEMMA MpfNextInv == MpfIInv /\ [MpfNext]_<<kvars, mpfvars>> => MpfIInv'
<1> SUFFICES ASSUME MpfIInv, [MpfNext]_<<kvars, mpfvars>> PROVE MpfIInv'
  OBVIOUS
<1>1. CASE MpfCalls
  BY <1>1, GetInv, GetWaitInv, RelInv DEF MpfCalls
<1>2. CASE [Next]_kvars /\ UNCHANGED mpfvars
  <2>1. KernelInvs' /\ NoNew(k', k)
    BY <1>2, KernelStep, NextNoNew DEF MpfIInv, KernelInvs
  <2>2. unused' = unused /\ freelist' = freelist /\ taken' = taken
    BY <1>2 DEF mpfvars
  <2>3. ASSUME NEW m \in Mpf PROVE PoolInv(m)'
    BY <2>1, <2>2, MpfAssumption DEF MpfIInv, PoolInv, Out, NoNew
  <2> QED
    BY <2>1, <2>2, <2>3 DEF MpfIInv, MpfTypes
<1> QED
  BY <1>1, <1>2 DEF MpfNext

(* It holds when no block has been handed out. *)
LEMMA MpfInitInv == MpfInit => MpfIInv
<1> SUFFICES ASSUME MpfInit PROVE MpfIInv
  OBVIOUS
<1>1. KernelInvs
  BY KernelStart DEF MpfInit
<1>2. MpfTypes
  BY DEF MpfInit, MpfTypes
<1>3. ASSUME NEW m \in Mpf PROVE PoolInv(m)
  <2>1. m \in WObj /\ limit[m] \in Nat
    BY MpfAssumption
  <2>2. unused[m] = 0 /\ freelist[m] = << >> /\ Out(m) = {}
    BY DEF MpfInit, Out
  <2>3. k.wait_queue[m] = << >>
    BY <2>1 DEF MpfInit, Init, InitTables
  <2>4. Members(freelist[m]) = {} /\ NoRepeat(freelist[m])
    BY <2>2 DEF Members, NoRepeat
  <2> QED
    BY <2>1, <2>2, <2>3, <2>4 DEF PoolInv
<1> QED
  BY <1>1, <1>2, <1>3 DEF MpfIInv

(* Every block is in one place, handed out, in the free list once or never *)
(* used, and no task waits while there is a free one, for every pool.      *)
THEOREM PoolsRight == MpfSpec => []MpfInv
<1>1. MpfIInv => MpfInv
  BY DEF MpfIInv, MpfInv, PoolInv, Out
<1> QED
  BY <1>1, MpfInitInv, MpfNextInv, PTL DEF MpfSpec
-----------------------------------------------------------------------------
(* Part 3: event flags. *)

WinfoFlg ==
  [waiptn : SUBSET Bit, wfmode : {"none", "TWF_ANDW", "TWF_ORW"}, flgptn : SUBSET Bit]

FlgTypes == flgptn \in [Flg -> SUBSET Bit] /\ winfo_flg \in [Task -> WinfoFlg]

(* A task waits for a flag only inside wai_flg, and inside wai_flg for     *)
(* nothing else; so only set_flg ends its wait with E_OK.                  *)
FlgTask(t) ==
  /\ in_wai_flg(t) => winfo_flg[t].wfmode # "none"
  /\ \A f \in Flg : k.tcb[t].wobj = f =>
       in_wai_flg(t) /\ ~Satisfies(flgptn[f], winfo_flg[t])
  /\ in_wai_flg(t) /\ WAITING(k, t) => k.tcb[t].wobj \in Flg
  /\ in_wai_flg(t) /\ ~WAITING(k, t) /\ k.tcb[t].winfo = "E_OK" =>
       Satisfies(winfo_flg[t].flgptn, winfo_flg[t])

OneWaiter ==
  \A f \in Flg, t, u \in Task : k.tcb[t].wobj = f /\ k.tcb[u].wobj = f => t = u

FlgIInv == KernelInvs /\ FlgTypes /\ (\A t \in Task : FlgTask(t)) /\ OneWaiter

(* It is enough for FlgInv. *)
LEMMA FlgMeans == FlgIInv => FlgInv
<1> SUFFICES ASSUME FlgIInv PROVE FlgInv
  OBVIOUS
<1>1. ASSUME NEW f \in Flg
      PROVE  LET q == k.wait_queue[f]
             IN /\ Len(q) <= 1
                /\ q # << >> => ~Satisfies(flgptn[f], winfo_flg[Head(q)])
  <2> DEFINE q == k.wait_queue[f]
             S == {t \in Task : k.tcb[t].wobj = f}
  <2>1. Holds(q, S) /\ (q # << >> => Head(q) \in S)
    BY <1>1, WaitsFor, FlgAssumption DEF FlgIInv
  <2>2. \A t, u \in S : t = u
    BY DEF FlgIInv, OneWaiter
  <2>3. q # << >> => ~Satisfies(flgptn[f], winfo_flg[Head(q)])
    BY <2>1 DEF FlgIInv, FlgTask
  <2> HIDE DEF q, S
  <2>4. /\ q \in Seq(Task) /\ Len(q) \in Nat /\ DOMAIN q = 1 .. Len(q)
        /\ \A i \in DOMAIN q : q[i] \in S
    BY <2>1, LenProperties DEF Holds, Members
  <2>5. Len(q) <= 1
    <3> SUFFICES ASSUME Len(q) > 1 PROVE FALSE
      BY <2>4
    <3>1. 1 \in DOMAIN q /\ 2 \in DOMAIN q
      BY <2>4
    <3>2. q[1] = q[2]
      BY <2>2, <2>4, <3>1
    <3> QED
      BY <2>1, <3>1, <3>2 DEF Holds, NoRepeat
  <2> QED
    BY <2>3, <2>5 DEF q
<1>2. \A t \in Task : in_wai_flg(t) /\ ~WAITING(k, t) /\ k.tcb[t].winfo = "E_OK" =>
                        Satisfies(winfo_flg[t].flgptn, winfo_flg[t])
  BY DEF FlgIInv, FlgTask
<1> QED
  BY <1>1, <1>2 DEF FlgInv

(* A step that leaves all waits alone, and changes only flags nobody waits *)
(* for or in a way that satisfies nobody.                                  *)
LEMMA FlgCalm ==
  ASSUME FlgIInv, KernelInvs', Calm(k', k), FlgTypes', UNCHANGED winfo_flg,
         \A t \in Task, f \in Flg : k.tcb[t].wobj = f => ~Satisfies(flgptn'[f], winfo_flg[t])
  PROVE  FlgIInv'
<1>1. ASSUME NEW t \in Task PROVE FlgTask(t)'
  <2>1. FlgTask(t) /\ SameWait(k', k, t)
    BY DEF FlgIInv, Calm
  <2> QED
    BY <2>1 DEF FlgTask, SameWait, in_wai_flg
<1>2. OneWaiter'
  BY DEF FlgIInv, OneWaiter, Calm, SameWait
<1> QED
  BY <1>1, <1>2 DEF FlgIInv

(* A step about t that leaves the waits of the others alone, and the flags *)
(* they wait for.                                                          *)
LEMMA FlgOne ==
  ASSUME FlgIInv, KernelInvs', FlgTypes', NEW t \in Task, Others(k', k, t), FlgTask(t)',
         \A u \in Task \ {t} : winfo_flg'[u] = winfo_flg[u],
         \A u \in Task \ {t}, f \in Flg :
           k.tcb[u].wobj = f => flgptn'[f] = flgptn[f] /\ k'.tcb[t].wobj # f
  PROVE  FlgIInv'
<1>1. ASSUME NEW u \in Task PROVE FlgTask(u)'
  <2>1. CASE u = t
    BY <2>1
  <2>2. CASE u # t
    <3>1. FlgTask(u) /\ SameWait(k', k, u) /\ winfo_flg'[u] = winfo_flg[u]
      BY <2>2 DEF FlgIInv, Others
    <3>2. \A f \in Flg : k.tcb[u].wobj = f => flgptn'[f] = flgptn[f]
      BY <2>2
    <3> QED
      BY <3>1, <3>2 DEF FlgTask, SameWait, in_wai_flg
  <2> QED
    BY <2>1, <2>2
<1>2. OneWaiter'
  <2> SUFFICES ASSUME NEW f \in Flg, NEW u \in Task, NEW v \in Task,
                      k'.tcb[u].wobj = f, k'.tcb[v].wobj = f
               PROVE  u = v
    BY DEF OneWaiter
  <2>1. CASE u # t /\ v # t
    BY <2>1 DEF FlgIInv, OneWaiter, Others, SameWait
  <2>2. CASE u = t /\ v # t
    BY <2>2 DEF Others, SameWait
  <2>3. CASE u # t /\ v = t
    BY <2>3 DEF Others, SameWait
  <2> QED
    BY <2>1, <2>2, <2>3
<1> QED
  BY <1>1, <1>2 DEF FlgIInv

(* set_flg and iset_flg. *)
LEMMA SetInv ==
  ASSUME FlgIInv, NEW f \in Flg, NEW p \in SUBSET Bit, set_flg(f, p) \/ iset_flg(f, p)
  PROVE  FlgIInv'
<1> DEFINE ptn == flgptn[f] \cup p
           h == Head(k.wait_queue[f])
           k2 == wait_complete([k EXCEPT !.wait_queue[f] = Tail(@)], h)
           disp == Disp(make_non_wait_ret(k, h))
<1>1. /\ KernelInvs /\ f \in WObj /\ flgptn[f] \in SUBSET Bit /\ ptn \in SUBSET Bit
      /\ FlgTypes /\ \A u \in Task : winfo_flg[u] \in WinfoFlg /\ FlgTask(u)
  BY FlgAssumption DEF FlgIInv, FlgTypes
<1>2. \A u, v \in Task, g \in Flg : k.tcb[u].wobj = g /\ k.tcb[v].wobj = g => u = v
  BY DEF FlgIInv, OneWaiter
<1>3. /\ k.wait_queue[f] = << >> <=> \A u \in Task : k.tcb[u].wobj # f
      /\ k.wait_queue[f] # << >> => h \in Task /\ k.tcb[h].wobj = f
  BY <1>1, WaitsFor
<1>4. CASE ends_wait(f, ptn)
  <2>1. /\ flgptn' = [flgptn EXCEPT ![f] = after_wait(f, ptn)]
        /\ winfo_flg' = [winfo_flg EXCEPT ![h].flgptn = ptn]
        /\ (TSKCTX /\ TaskCall(k2, disp)) \/ (INTCTX /\ IntCall(k2, disp))
    BY <1>4 DEF set_flg, iset_flg, set, TSKCTX_UNL, INTCTX_UNL
  <2>2. /\ k.wait_queue[f] # << >>
        /\ eventflag_cond(ptn, winfo_flg[h].waiptn, winfo_flg[h].wfmode)
    BY <1>4 DEF ends_wait
  <2> PICK t \in Task : t = h
    BY <1>3, <2>2
  <2>3. k.tcb[t].wobj = f
    BY <1>3, <2>2
  <2>4. /\ KernelInvs' /\ Others(k', k, t)
        /\ ~WAITING(k', t) /\ k'.tcb[t].wobj = NULL /\ k'.tcb[t].winfo = "E_OK"
    BY <1>1, <2>1, <2>2, HeadWakes
  <2>a. /\ winfo_flg' = [winfo_flg EXCEPT ![t].flgptn = ptn]
        /\ eventflag_cond(ptn, winfo_flg[t].waiptn, winfo_flg[t].wfmode)
    BY <2>1, <2>2
  <2> HIDE DEF h, k2, disp, ptn
  <2>5. after_wait(f, ptn) \in SUBSET Bit
    BY <1>1 DEF after_wait
  <2>6. winfo_flg'[t] = [winfo_flg[t] EXCEPT !.flgptn = ptn] /\ winfo_flg[t] \in WinfoFlg
    BY <1>1, <2>a DEF FlgTypes
  <2>7. winfo_flg'[t] \in WinfoFlg /\ winfo_flg'[t].flgptn = ptn
        /\ winfo_flg'[t].wfmode = winfo_flg[t].wfmode /\ winfo_flg'[t].waiptn = winfo_flg[t].waiptn
    BY <1>1, <2>6 DEF WinfoFlg
  <2>8. FlgTypes'
    BY <1>1, <2>1, <2>a, <2>5, <2>7 DEF FlgTypes
  <2>9. winfo_flg[t].wfmode \in {"TWF_ANDW", "TWF_ORW"}
    BY <1>1, <2>3, <2>6 DEF FlgTask, WinfoFlg
  <2>10. Satisfies(winfo_flg'[t].flgptn, winfo_flg'[t])
    BY <2>a, <2>7, <2>9 DEF Satisfies, eventflag_cond
  <2>11. FlgTask(t)'
    BY <2>4, <2>7, <2>9, <2>10, FlgAssumption, WObjAssumption DEF FlgTask
  <2>12. \A u \in Task \ {t} : winfo_flg'[u] = winfo_flg[u]
    BY <1>1, <2>a DEF FlgTypes
  <2>13. \A u \in Task \ {t}, g \in Flg :
           k.tcb[u].wobj = g => flgptn'[g] = flgptn[g] /\ k'.tcb[t].wobj # g
    BY <1>1, <1>2, <2>1, <2>3, <2>4, FlgAssumption, WObjAssumption DEF FlgTypes
  <2> QED
    BY <2>3, <2>4, <2>8, <2>11, <2>12, <2>13, FlgOne
<1>5. CASE ~ends_wait(f, ptn)
  <2>1. /\ flgptn' = [flgptn EXCEPT ![f] = ptn] /\ UNCHANGED winfo_flg
        /\ (TSKCTX /\ TaskCall(k, FALSE)) \/ (INTCTX /\ IntCall(k, FALSE))
    BY <1>5 DEF set_flg, iset_flg, set, TSKCTX_UNL, INTCTX_UNL
  <2>2. KernelInvs' /\ k' = k
    BY <1>1, <2>1, CallNothing
  <2>3. Calm(k', k)
    BY <2>2 DEF Calm, SameWait
  <2>4. FlgTypes'
    BY <1>1, <2>1 DEF FlgTypes
  <2>5. ASSUME NEW u \in Task, NEW g \in Flg, k.tcb[u].wobj = g
        PROVE  ~Satisfies(flgptn'[g], winfo_flg[u])
    <3>1. CASE g = f
      <4>1. k.wait_queue[f] # << >> /\ u = h
        BY <1>2, <1>3, <2>5, <3>1
      <4>2. ~eventflag_cond(ptn, winfo_flg[u].waiptn, winfo_flg[u].wfmode)
        BY <1>5, <4>1 DEF ends_wait
      <4>3. flgptn'[g] = ptn
        BY <1>1, <2>1, <3>1 DEF FlgTypes
      <4> QED
        BY <4>2, <4>3 DEF Satisfies, eventflag_cond
    <3>2. CASE g # f
      BY <1>1, <2>1, <2>5, <3>2 DEF FlgTypes, FlgTask
    <3> QED
      BY <3>1, <3>2
  <2> QED
    BY <2>1, <2>2, <2>3, <2>4, <2>5, FlgCalm
<1> QED
  BY <1>4, <1>5

(* clr_flg and pol_flg: fewer bits satisfy nobody, and where bits are      *)
(* taken nobody waits.                                                     *)
LEMMA FlgTakeInv ==
  ASSUME FlgIInv, NEW f \in Flg, NEW p \in SUBSET Bit, NEW mode,
         clr_flg(f, p) \/ pol_flg(f, p, mode)
  PROVE  FlgIInv'
<1>1. /\ KernelInvs /\ f \in WObj /\ flgptn[f] \in SUBSET Bit /\ FlgTypes
      /\ \A u \in Task : FlgTask(u)
  BY FlgAssumption DEF FlgIInv, FlgTypes
<1>2. TSKCTX /\ TaskCall(k, FALSE) /\ UNCHANGED winfo_flg
  BY DEF clr_flg, pol_flg, TSKCTX_UNL
<1>3. KernelInvs' /\ k' = k
  BY <1>1, <1>2, CallNothing
<1>4. Calm(k', k)
  BY <1>3 DEF Calm, SameWait
<1>5. \E x \in SUBSET flgptn[f] : flgptn' = [flgptn EXCEPT ![f] = x]
  <2>1. CASE clr_flg(f, p)
    <3>1. flgptn' = [flgptn EXCEPT ![f] = flgptn[f] \cap p]
      BY <2>1 DEF clr_flg
    <3>2. flgptn[f] \cap p \in SUBSET flgptn[f]
      OBVIOUS
    <3> QED
      BY <3>1, <3>2
  <2>2. CASE pol_flg(f, p, mode)
    <3>1. flgptn' = [flgptn EXCEPT ![f] = after_wait(f, flgptn[f])]
      BY <2>2 DEF pol_flg
    <3>2. after_wait(f, flgptn[f]) \in SUBSET flgptn[f]
      BY DEF after_wait
    <3> QED
      BY <3>1, <3>2
  <2> QED
    BY <2>1, <2>2
<1>6. FlgTypes'
  BY <1>1, <1>2, <1>5 DEF FlgTypes
<1>7. ASSUME NEW u \in Task, NEW g \in Flg, k.tcb[u].wobj = g
      PROVE  ~Satisfies(flgptn'[g], winfo_flg[u])
  <2>1. flgptn'[g] \subseteq flgptn[g]
    BY <1>1, <1>5 DEF FlgTypes
  <2>2. ~Satisfies(flgptn[g], winfo_flg[u])
    BY <1>1, <1>7 DEF FlgTask
  <2> QED
    BY <2>1, <2>2 DEF Satisfies
<1> QED
  BY <1>2, <1>3, <1>4, <1>6, <1>7, FlgCalm

(* wai_flg and twai_flg when they block. *)
LEMMA FlgWaitInv ==
  ASSUME FlgIInv, NEW f \in Flg, NEW p \in SUBSET Bit, NEW mode \in {"TWF_ANDW", "TWF_ORW"},
         NEW tm \in {"none", "wait_tmout"}, twai_flg(f, p, mode, tm)
  PROVE  FlgIInv'
<1> DEFINE w == Wait(p, mode, {})
<1>1. KernelInvs /\ f \in WObj /\ FlgTypes
  BY FlgAssumption DEF FlgIInv
<1>2. /\ CAN_WAIT /\ k.wait_queue[f] = << >> /\ ~eventflag_cond(flgptn[f], p, mode)
      /\ winfo_flg' = [winfo_flg EXCEPT ![runtsk] = w]
      /\ TaskCall(wobj_make_wait_tmout(k, runtsk, f, tm), TRUE) /\ UNCHANGED flgptn
  BY DEF twai_flg
<1>3. /\ KernelInvs' /\ runtsk \in Task /\ Others(k', k, runtsk)
      /\ WAITING(k', runtsk) /\ k'.tcb[runtsk].wobj = f
  BY <1>1, <1>2, RunningBlocks
<1>4. \A u \in Task : k.tcb[u].wobj # f
  BY <1>1, <1>2, WaitsFor
<1>5. w \in WinfoFlg /\ w.wfmode = mode /\ w.waiptn = p /\ NoWait.wfmode = "none"
  BY DEF Wait, WinfoFlg, NoWait
<1> PICK t \in Task : t = runtsk
  BY <1>3
<1> HIDE DEF w
<1>6. winfo_flg'[t] = w /\ \A u \in Task \ {t} : winfo_flg'[u] = winfo_flg[u]
  BY <1>1, <1>2 DEF FlgTypes
<1>7. FlgTypes'
  BY <1>1, <1>2, <1>3, <1>5 DEF FlgTypes
<1>8. ~Satisfies(flgptn'[f], w)
  BY <1>2, <1>5 DEF Satisfies, eventflag_cond
<1>9. winfo_flg'[t] # NoWait /\ winfo_flg'[t].wfmode # "none"
  BY <1>5, <1>6
<1>10. WAITING(k', t) /\ k'.tcb[t].wobj = f /\ Others(k', k, t)
  BY <1>3
<1>11. FlgTask(t)'
  BY <1>6, <1>8, <1>9, <1>10 DEF FlgTask, in_wai_flg
<1> QED
  BY <1>2, <1>3, <1>4, <1>6, <1>7, <1>10, <1>11, FlgOne

(* A task returns from wai_flg. *)
LEMMA FlgReturnInv ==
  ASSUME FlgIInv, wai_flg_return
  PROVE  FlgIInv'
<1> PICK t \in Task : t = runtsk
  BY RunningWaits DEF FlgIInv, wai_flg_return, TSKCTX
<1>1. k.tcb[t].wobj = NULL /\ FlgTypes /\ KernelInvs
  BY RunningWaits DEF FlgIInv, wai_flg_return, TSKCTX
<1>2. /\ winfo_flg' = [winfo_flg EXCEPT ![t] = NoWait] /\ k' = k /\ flgptn' = flgptn
      /\ UNCHANGED kvars
  BY DEF wai_flg_return, kvars
<1>3. KernelInvs'
  BY <1>1, <1>2, KernelStep
<1>4. Others(k', k, t)
  BY <1>2 DEF Others, SameWait
<1>5. NoWait \in WinfoFlg
  BY DEF NoWait, Wait, WinfoFlg
<1>6. FlgTypes' /\ winfo_flg'[t] = NoWait /\ \A u \in Task \ {t} : winfo_flg'[u] = winfo_flg[u]
  BY <1>1, <1>2, <1>5 DEF FlgTypes
<1>7. FlgTask(t)' /\ \A f \in Flg : k'.tcb[t].wobj # f
  BY <1>1, <1>2, <1>6, FlgAssumption, WObjAssumption DEF FlgTask, in_wai_flg
<1> QED
  BY <1>1, <1>2, <1>3, <1>4, <1>6, <1>7, FlgOne

(* The kernel's own steps: they end waits for flags, but not with E_OK. *)
LEMMA FlgKernelInv ==
  ASSUME FlgIInv, FlgKernel, UNCHANGED flgptn
  PROVE  FlgIInv'
<1>1. KernelInvs /\ FlgTypes /\ (\A t \in Task : FlgTask(t)) /\ [Next]_kvars
  BY DEF FlgIInv, FlgKernel, Next, TaskNext
<1>2. KernelInvs'
  BY <1>1, KernelStep
<1>3. NoWait \in WinfoFlg
  BY DEF NoWait, Wait, WinfoFlg
<1>4. \A f \in Flg : f # NULL
  BY FlgAssumption, WObjAssumption
<1>5. ASSUME UNCHANGED winfo_flg
      PROVE  FlgTypes'
  BY <1>1, <1>5 DEF FlgTypes
<1>6. ASSUME UNCHANGED winfo_flg, Calm(k', k)
      PROVE  FlgIInv'
  BY <1>1, <1>2, <1>5, <1>6, FlgCalm DEF FlgTask
<1>7. ASSUME UNCHANGED winfo_flg, NEW t \in Task, Calm(k', k) \/ Ends(k', k, t)
      PROVE  FlgIInv'
  <2>1. CASE Ends(k', k, t)
    <3>1. /\ Others(k', k, t) /\ WAITING(k, t) /\ ~WAITING(k', t) /\ k'.tcb[t].wobj = NULL
          /\ k.tcb[t].wobj # NULL => k'.tcb[t].winfo # "E_OK"
      BY <2>1 DEF Ends
    <3>2. FlgTask(t) /\ winfo_flg' = winfo_flg /\ flgptn' = flgptn
      BY <1>1, <1>7
    <3>3. FlgTask(t)'
      BY <1>4, <3>1, <3>2 DEF FlgTask, in_wai_flg
    <3> QED
      BY <1>2, <1>4, <1>5, <1>7, <3>1, <3>2, <3>3, FlgOne
  <2> QED
    BY <1>6, <1>7, <2>1
<1>8. ASSUME NEW t \in Task, Goes(k', k, t),
             winfo_flg' = winfo_flg \/ winfo_flg' = [winfo_flg EXCEPT ![t] = NoWait]
      PROVE  FlgIInv'
  <2>1. Others(k', k, t) /\ ~WAITING(k', t) /\ k'.tcb[t].wobj = NULL /\ k'.tcb[t].winfo = "NULL"
    BY <1>8 DEF Goes
  <2>2. /\ winfo_flg'[t] \in {winfo_flg[t], NoWait} /\ \A u \in Task \ {t} : winfo_flg'[u] = winfo_flg[u]
        /\ FlgTypes'
    BY <1>1, <1>3, <1>8 DEF FlgTypes
  <2>3. FlgTask(t)'
    BY <1>1, <1>4, <2>1, <2>2 DEF FlgTask, in_wai_flg
  <2> QED
    BY <1>2, <1>4, <2>1, <2>2, <2>3, FlgOne
<1>9. ASSUME UNCHANGED winfo_flg, ~in_wai_flg(runtsk), runtsk \in Task,
             Calm(k', k) \/ Sleeps(k', k, runtsk)
      PROVE  FlgIInv'
  <2>1. CASE Sleeps(k', k, runtsk)
    <3> PICK t \in Task : t = runtsk
      BY <1>9
    <3>1. Others(k', k, t) /\ k'.tcb[t].wobj = NULL /\ ~in_wai_flg(t)
      BY <1>9, <2>1 DEF Sleeps
    <3>2. FlgTask(t)'
      BY <1>4, <1>9, <3>1 DEF FlgTask, in_wai_flg
    <3> QED
      BY <1>2, <1>4, <1>5, <1>9, <3>1, <3>2, FlgOne
  <2> QED
    BY <1>6, <1>9, <2>1
<1>a. CASE (IntNext \/ (INTCTX /\ (loc_cpu \/ unl_cpu))) /\ UNCHANGED winfo_flg
  <2>1. \/ interrupt_enter \/ interrupt_return \/ wait_for_intr \/ loc_cpu \/ unl_cpu
        \/ \E pri \in Pri : rot_rdq(pri) \/ irot_rdq(pri)
        \/ \E t \in Task : iact_tsk(t) \/ iras_tex(t)
        \/ \E t \in Task : iwup_tsk(t) \/ irel_wai(t) \/ timeout(t)
    BY <1>a DEF IntNext
  <2> QED
    BY <1>1, <1>6, <1>7, <1>a, <2>1, CalmSteps, CalmCalls, EndSteps
<1>b. CASE (task_initialize \/ kernel_start) /\ UNCHANGED winfo_flg
  <2>1. CASE task_initialize
    <3>1. todo \in Seq(Task) /\ todo # << >>
      BY <1>1, <2>1 DEF task_initialize, KernelInvs, TypeInv, TypeOK
    <3>2. Head(todo) \in Task
      BY <3>1
    <3>3. Goes(k', k, Head(todo))
      BY <1>1, <2>1, <3>2, GoneSteps
    <3> QED
      BY <1>8, <1>b, <3>2, <3>3
  <2> QED
    BY <1>1, <1>6, <1>b, <2>1, CalmSteps
<1>c. CASE TSKCTX /\ ~in_wai_flg(runtsk) /\ (TaskNext \/ loc_cpu \/ unl_cpu)
           /\ (\A t \in Task : ~ter_tsk(t)) /\ UNCHANGED winfo_flg
  <2>1. runtsk \in Task
    BY <1>1, <1>c, RunningWaits DEF TSKCTX
  <2>2. \/ ext_tsk
        \/ dly_tsk \/ \E tm \in {"none", "wait_tmout"} : slp_tsk(tm)
        \/ dis_dsp \/ ena_dsp \/ dis_tex \/ ena_tex \/ texrtn_return \/ loc_cpu \/ unl_cpu
        \/ \E pri \in Pri : rot_rdq(pri) \/ irot_rdq(pri)
        \/ \E t \in Task : \/ act_tsk(t) \/ can_act(t) \/ can_wup(t) \/ sus_tsk(t) \/ rsm_tsk(t)
                           \/ ras_tex(t) \/ \E pri \in Pri : chg_pri(t, pri)
        \/ \E t \in Task : wup_tsk(t) \/ rel_wai(t)
    BY <1>c DEF TaskNext
  <2>3. CASE ext_tsk
    BY <1>1, <1>8, <1>c, <2>1, <2>3, GoneSteps
  <2>4. CASE dly_tsk \/ \E tm \in {"none", "wait_tmout"} : slp_tsk(tm)
    BY <1>1, <1>9, <1>c, <2>1, <2>4, SleepSteps
  <2> QED
    BY <1>1, <1>6, <1>7, <1>c, <2>2, <2>3, <2>4, CalmSteps, CalmCalls, EndSteps
<1>d. CASE \E t \in Task : ter_tsk(t) /\ winfo_flg' = [winfo_flg EXCEPT ![t] = NoWait]
  BY <1>1, <1>8, <1>d, GoneSteps
<1> QED
  BY <1>a, <1>b, <1>c, <1>d DEF FlgKernel

(* It holds at the start, and every step keeps it. *)
LEMMA FlgNextInv ==
  /\ FlgInit => FlgIInv
  /\ FlgIInv /\ [FlgNext]_<<kvars, flgvars>> => FlgIInv'
<1>1. ASSUME FlgInit PROVE FlgIInv
  <2>1. KernelInvs /\ k = InitTables
    BY <1>1, KernelStart DEF FlgInit, Init
  <2>2. FlgTypes
    BY <1>1, FlgAssumption DEF FlgInit, FlgTypes, NoWait, Wait, WinfoFlg
  <2>3. \A t \in Task : k.tcb[t].wobj = NULL
    BY <2>1 DEF InitTables, dormant_tcb
  <2>4. \A f \in Flg : f # NULL
    BY FlgAssumption, WObjAssumption
  <2>5. \A t \in Task : ~in_wai_flg(t)
    BY <1>1 DEF FlgInit, in_wai_flg
  <2> QED
    BY <2>1, <2>2, <2>3, <2>4, <2>5 DEF FlgIInv, FlgTask, OneWaiter
<1>2. ASSUME FlgIInv, UNCHANGED <<kvars, flgvars>> PROVE FlgIInv'
  <2>1. KernelInvs' /\ k' = k
    BY <1>2, KernelStep DEF FlgIInv, kvars
  <2> QED
    BY <1>2, <2>1 DEF FlgIInv, FlgTypes, FlgTask, OneWaiter, flgvars, in_wai_flg
<1>3. ASSUME FlgIInv, FlgCalls PROVE FlgIInv'
  <2>1. PICK f \in Flg, p \in SUBSET Bit \ {{}} :
          \/ iset_flg(f, p) \/ set_flg(f, p) \/ clr_flg(f, Bit \ p)
          \/ \E mode \in {"TWF_ANDW", "TWF_ORW"} :
               \/ pol_flg(f, p, mode)
               \/ \E tm \in {"none", "wait_tmout"} : twai_flg(f, p, mode, tm)
    BY <1>3 DEF FlgCalls
  <2>2. CASE iset_flg(f, p) \/ set_flg(f, p)
    BY <1>3, <2>2, SetInv
  <2>3. CASE clr_flg(f, Bit \ p)
    BY <1>3, <2>3, FlgTakeInv
  <2>4. ASSUME NEW mode \in {"TWF_ANDW", "TWF_ORW"}, pol_flg(f, p, mode) PROVE FlgIInv'
    BY <1>3, <2>4, FlgTakeInv
  <2>5. ASSUME NEW mode \in {"TWF_ANDW", "TWF_ORW"}, NEW tm \in {"none", "wait_tmout"},
               twai_flg(f, p, mode, tm)
        PROVE  FlgIInv'
    BY <1>3, <2>5, FlgWaitInv
  <2> QED
    BY <2>1, <2>2, <2>3, <2>4, <2>5
<1> QED
  BY <1>1, <1>2, <1>3, FlgReturnInv, FlgKernelInv DEF FlgNext

(* At most one task waits for a flag, and not without need; and a task     *)
(* whose wait set_flg ended reads a pattern that satisfied it, whatever    *)
(* others did to the flag before it ran, for all flags and patterns.       *)
THEOREM FlagsRight == FlgSpec => []FlgInv
  BY FlgMeans, FlgNextInv, PTL DEF FlgSpec
-----------------------------------------------------------------------------
(* Part 4: the heap. *)

(* A task inside malloc or free has the processor, and what keeps it there *)
(* lasts until it returns: dispatching is disabled, or no handler starts.  *)
HeapTask(t) ==
  /\ heap[t] = "held" => runtsk = t /\ ~enadsp
  /\ heap[t] = "locked" => runtsk = t /\ cpulock /\ nest = 0

HeapIInv ==
  /\ KernelInvs
  /\ heap \in [Task -> {"out", "held", "locked"}]
  /\ \A t \in Task : HeapTask(t)

(* No step of a handler takes the processor from such a task. *)
LEMMA HandlersKeepHeap ==
  ASSUME HeapIInv, IntNext \/ (INTCTX /\ (loc_cpu \/ unl_cpu)), NEW t \in Task, heap' = heap
  PROVE  HeapTask(t)'
<1>1. HeapTask(t) /\ t # NULL
  BY TaskAssumption DEF HeapIInv
<1>2. CASE heap[t] = "held"
  <2>1. runtsk = t /\ runtsk # NULL /\ ~enadsp /\ heap[t] # "locked"
    BY <1>1, <1>2 DEF HeapTask
  <2>2. ASSUME NEW k1, NEW disp, IntCall(k1, disp)
        PROVE  runtsk' = runtsk /\ enadsp' = enadsp
    BY <2>2 DEF IntCall
  <2>3. runtsk' = runtsk /\ enadsp' = enadsp
    <3>1. CASE interrupt_enter \/ interrupt_return
      BY <2>1, <3>1 DEF interrupt_enter, interrupt_return
    <3>2. CASE loc_cpu \/ unl_cpu
      BY <3>2 DEF loc_cpu, unl_cpu
    <3>3. CASE \E pri \in Pri : irot_rdq(pri)
      BY <2>2, <3>3 DEF irot_rdq
    <3>4. ASSUME NEW u \in Task, iact_tsk(u) \/ iwup_tsk(u) \/ irel_wai(u) \/ iras_tex(u) \/ timeout(u)
          PROVE  runtsk' = runtsk /\ enadsp' = enadsp
      BY <2>2, <3>4 DEF iact_tsk, iwup_tsk, wakeup, irel_wai, iras_tex, timeout
    <3>5. ~wait_for_intr
      BY <2>1 DEF wait_for_intr
    <3> QED
      BY <3>1, <3>2, <3>3, <3>4, <3>5 DEF IntNext
  <2> QED
    BY <1>1, <1>2, <2>1, <2>3 DEF HeapTask
<1>3. CASE heap[t] = "locked"
  <2>1. runtsk # NULL /\ cpulock /\ nest = 0
    BY <1>1, <1>3 DEF HeapTask
  <2>2. ~INTCTX
    BY <2>1 DEF INTCTX
  <2>3. ~interrupt_enter /\ ~wait_for_intr
    BY <2>1 DEF interrupt_enter, wait_for_intr
  <2> QED
    BY <2>2, <2>3 DEF INTCTX_UNL, IntNext, interrupt_return, irot_rdq, iact_tsk, iwup_tsk, irel_wai, iras_tex, timeout
<1> QED
  BY <1>2, <1>3 DEF HeapTask

(* While the running task is not inside, nobody is; so nobody is when the  *)
(* kernel starts, and when a task makes any other call.                    *)
LEMMA HeapEmpty ==
  ASSUME HeapIInv, ~iniflg \/ (TSKCTX /\ heap[runtsk] = "out"), NEW t \in Task
  PROVE  heap[t] = "out"
  BY TaskAssumption DEF HeapIInv, HeapTask, KernelInvs, DispInv, HoldInv, TSKCTX

(* Every step keeps it. *)
LEMMA HeapNextInv == HeapIInv /\ [HeapNext]_<<kvars, heap>> => HeapIInv'
<1> SUFFICES ASSUME HeapIInv, [HeapNext]_<<kvars, heap>> PROVE HeapIInv'
  OBVIOUS
<1>1. KernelInvs /\ heap \in [Task -> {"out", "held", "locked"}] /\ \A t \in Task : HeapTask(t)
  BY DEF HeapIInv
<1>2. CASE malloc
  <2>1. TSKCTX /\ heap[runtsk] = "out"
    BY <1>2 DEF malloc
  <2> PICK t \in Task : t = runtsk
    BY <1>1, <2>1, RunningWaits DEF TSKCTX
  <2>2. \A u \in Task : heap[u] = "out"
    BY <2>1, HeapEmpty
  <2>3. \/ cpulock /\ heap' = [heap EXCEPT ![t] = "locked"] /\ UNCHANGED kvars
        \/ heap' = [heap EXCEPT ![t] = "held"] /\ dis_dsp
    BY <1>2 DEF malloc
  <2>4. KernelInvs'
    BY <1>1, <2>3, KernelStep DEF Next, TaskNext
  <2>5. HeapTask(t)'
    <3>1. CASE cpulock /\ heap' = [heap EXCEPT ![t] = "locked"] /\ UNCHANGED kvars
      <4>1. heap'[t] = "locked" /\ runtsk' = t /\ cpulock' /\ nest' = 0
        BY <1>1, <2>1, <3>1 DEF kvars, TSKCTX
      <4> QED
        BY <4>1 DEF HeapTask
    <3>2. CASE heap' = [heap EXCEPT ![t] = "held"] /\ dis_dsp
      <4>1. heap'[t] = "held" /\ runtsk' = t /\ ~enadsp'
        BY <1>1, <3>2 DEF dis_dsp
      <4> QED
        BY <4>1 DEF HeapTask
    <3> QED
      BY <2>3, <3>1, <3>2
  <2>6. heap' \in [Task -> {"out", "held", "locked"}] /\ \A u \in Task \ {t} : heap'[u] = "out"
    BY <1>1, <2>2, <2>3
  <2>7. \A u \in Task \ {t} : HeapTask(u)'
    BY <2>6 DEF HeapTask
  <2>8. \A u \in Task : HeapTask(u)'
    BY <2>5, <2>7
  <2> QED
    BY <2>4, <2>6, <2>8 DEF HeapIInv
<1>3. CASE malloc_return
  <2>1. /\ heap' = [heap EXCEPT ![runtsk] = "out"]
        /\ ena_dsp \/ UNCHANGED kvars
        /\ TSKCTX
    BY <1>3 DEF malloc_return
  <2>2. KernelInvs'
    BY <1>1, <2>1, KernelStep DEF Next, TaskNext
  <2>3. \A u \in Task : heap'[u] = "out"
    BY <1>1, <2>1 DEF HeapTask
  <2> QED
    BY <1>1, <2>1, <2>2, <2>3 DEF HeapIInv, HeapTask
<1>4. CASE HeapKernel
  <2>1. KernelInvs' /\ heap' = heap
    BY <1>1, <1>4, KernelStep DEF HeapKernel, Next
  <2>2. CASE IntNext \/ (INTCTX /\ (loc_cpu \/ unl_cpu))
    BY <1>1, <2>1, <2>2, HandlersKeepHeap DEF HeapIInv
  <2>3. CASE ~iniflg \/ (TSKCTX /\ heap[runtsk] = "out")
    BY <1>1, <2>1, <2>3, HeapEmpty DEF HeapIInv, HeapTask
  <2> QED
    BY <1>4, <2>2, <2>3 DEF HeapKernel, task_initialize, kernel_start
<1>5. CASE UNCHANGED <<kvars, heap>>
  BY <1>1, <1>5, KernelStep DEF HeapIInv, HeapTask, kvars
<1> QED
  BY <1>2, <1>3, <1>4, <1>5 DEF HeapNext, HeapCalls

(* The heap is used by one task at a time, whatever handlers and other     *)
(* tasks do, although malloc also ends the section of its caller.          *)
THEOREM HeapIsExclusive == HeapSpec => []HeapExclusive
<1>1. Init /\ HeapInit => HeapIInv
  BY KernelStart DEF HeapInit, HeapIInv, HeapTask
<1>2. HeapIInv => HeapExclusive
  BY DEF HeapIInv, HeapTask, HeapExclusive
<1> QED
  BY <1>1, <1>2, HeapNextInv, PTL DEF HeapSpec
-----------------------------------------------------------------------------
(* Part 5: the lock of the file system. *)

(* Has a unit, or been given one. *)
Owns(t) ==
  \/ pc[t] = "using"
  \/ pc[t] = "waiting" /\ ~WAITING(k, t) /\ k.tcb[t].winfo = "E_OK"

Owners == {t \in Task : Owns(t)}

(* The wait queue of the semaphore holds tasks inside its twai_sem, and    *)
(* what they wait for there is nothing else; so a wait that ends otherwise *)
(* than by sig_sem does not end with E_OK.                                 *)
LockTask(t) ==
  /\ pc[t] # "out" => iniflg
  /\ pc[t] = "waiting" /\ WAITING(k, t) => k.tcb[t].wobj = lock
  /\ k.tcb[t].wobj = lock => pc[t] = "waiting"

LockIInv ==
  /\ SemIInv
  /\ pc \in [Task -> {"out", "waiting", "using"}]
  /\ \A t \in Task : LockTask(t)
  /\ semcnt[lock] + Cardinality(Owners) = isemcnt[lock]

(* It is enough: a task uses its unit or is still on its way. *)
LEMMA LockMeans == LockIInv => UnitsConserved
<1> SUFFICES ASSUME LockIInv PROVE UnitsConserved
  OBVIOUS
<1>1. IsFiniteSet(Using) /\ IsFiniteSet(Granted)
  BY FS_Subset, LockAssumption DEF Using, Granted
<1>2. Owners = Using \cup Granted /\ Using \cap Granted = {}
  BY DEF Owners, Owns, Using, Granted
<1>3. Cardinality(Owners) = Cardinality(Using) + Cardinality(Granted) - 0
  BY <1>1, <1>2, FS_Union, FS_EmptySet
<1>4. Cardinality(Using) \in Nat /\ Cardinality(Granted) \in Nat
  BY <1>1, FS_CardinalityType
<1>5. semcnt[lock] \in Nat
  BY LockAssumption DEF LockIInv, SemIInv
<1> QED
  BY <1>3, <1>4, <1>5 DEF LockIInv, UnitsConserved

(* A task whose wait and place a step leaves alone. *)
LEMMA LockKeep ==
  ASSUME LockIInv, NEW u \in Task, SameWait(k', k, u), pc'[u] = pc[u], iniflg => iniflg'
  PROVE  LockTask(u)' /\ (Owns(u)' <=> Owns(u))
<1>1. LockTask(u)
  BY DEF LockIInv
<1> QED
  BY <1>1 DEF LockTask, Owns, SameWait

(* How many own a unit when t joins them, leaves them or neither. *)
LEMMA OwnersCount ==
  ASSUME NEW t \in Task, \A u \in Task \ {t} : Owns(u)' <=> Owns(u)
  PROVE  /\ (Owns(t)' <=> Owns(t)) => Cardinality(Owners') = Cardinality(Owners)
         /\ Owns(t)' /\ ~Owns(t) => Cardinality(Owners') = Cardinality(Owners) + 1
         /\ ~Owns(t)' /\ Owns(t) => Cardinality(Owners') = Cardinality(Owners) - 1
         /\ Cardinality(Owners) \in Nat
<1>1. IsFiniteSet(Owners)
  BY FS_Subset, LockAssumption DEF Owners
<1>2. Owns(t) <=> t \in Owners
  BY DEF Owners
<1>3. /\ (Owns(t)' <=> Owns(t)) => Owners' = Owners
      /\ Owns(t)' /\ ~Owns(t) => Owners' = Owners \cup {t}
      /\ ~Owns(t)' /\ Owns(t) => Owners' = Owners \ {t}
  BY DEF Owners
<1> QED
  BY <1>1, <1>2, <1>3, FS_AddElement, FS_RemoveElement, FS_CardinalityType

(* A step about t. *)
LEMMA LockOne ==
  ASSUME LockIInv, SemIInv', NEW t \in Task, Others(k', k, t), iniflg => iniflg',
         pc' \in [Task -> {"out", "waiting", "using"}], \A u \in Task \ {t} : pc'[u] = pc[u],
         LockTask(t)',
         \/ semcnt'[lock] = semcnt[lock] /\ (Owns(t)' <=> Owns(t))
         \/ semcnt'[lock] = semcnt[lock] - 1 /\ Owns(t)' /\ ~Owns(t)
         \/ semcnt'[lock] = semcnt[lock] + 1 /\ ~Owns(t)' /\ Owns(t)
  PROVE  LockIInv'
<1>1. \A u \in Task \ {t} : LockTask(u)' /\ (Owns(u)' <=> Owns(u))
  BY LockKeep DEF Others
<1>2. semcnt'[lock] + Cardinality(Owners') = semcnt[lock] + Cardinality(Owners)
  <2>1. semcnt[lock] \in Nat
    BY LockAssumption DEF LockIInv, SemIInv
  <2> QED
    BY <1>1, <2>1, OwnersCount
<1>3. \A u \in Task : LockTask(u)'
  BY <1>1
<1> QED
  BY <1>2, <1>3 DEF LockIInv

(* A step that no wait begins or ends in. *)
LEMMA LockCalm ==
  ASSUME LockIInv, SemIInv', Calm(k', k), iniflg => iniflg', pc' = pc, semcnt'[lock] = semcnt[lock]
  PROVE  LockIInv'
<1>1. \A u \in Task : LockTask(u)' /\ (Owns(u)' <=> Owns(u))
  BY LockKeep DEF Calm
<1>2. Owners' = Owners
  BY <1>1 DEF Owners
<1> QED
  BY <1>1, <1>2 DEF LockIInv

(* twai_sem on the semaphore. *)
LEMMA AcquireInv ==
  ASSUME LockIInv, NEW tm \in {"none", "wait_tmout"}, Acquire(tm)
  PROVE  LockIInv'
<1>1. /\ SemIInv /\ KernelInvs /\ lock \in Sem /\ lock \in WObj /\ semcnt[lock] \in Nat
      /\ semcnt \in [Sem -> Nat] /\ pc \in [Task -> {"out", "waiting", "using"}] /\ lock # NULL
  BY LockAssumption, SemAssumption, WObjAssumption DEF LockIInv, SemIInv
<1>2. twai_sem(lock, tm) /\ pc[runtsk] = "out" /\ TSKCTX
  BY DEF Acquire
<1> PICK t \in Task : t = runtsk
  BY <1>1, <1>2, RunningWaits DEF TSKCTX
<1>3. SemIInv'
  BY <1>1, <1>2, WaitInv
<1>4. ~Owns(t) /\ iniflg
  BY <1>2 DEF Owns, TSKCTX
<1>5. CASE take_unit(lock)
  <2>1. /\ semcnt[lock] >= 1 /\ semcnt' = [semcnt EXCEPT ![lock] = @ - 1] /\ TaskCall(k, FALSE)
        /\ pc' = [pc EXCEPT ![t] = "using"]
    BY <1>5 DEF take_unit, Acquire, Goto
  <2>2. k' = k /\ iniflg' = iniflg
    BY <2>1 DEF TaskCall
  <2>3. semcnt'[lock] = semcnt[lock] - 1
    BY <1>1, <2>1
  <2>4. pc'[t] = "using" /\ pc' \in [Task -> {"out", "waiting", "using"}] /\ \A u \in Task \ {t} : pc'[u] = pc[u]
    BY <1>1, <2>1
  <2>5. k.tcb[t].wobj = NULL
    BY <1>1, <1>2, RunningWaits DEF TSKCTX
  <2>6. LockTask(t)' /\ Owns(t)'
    BY <1>1, <1>4, <2>2, <2>4, <2>5 DEF LockTask, Owns
  <2>7. Others(k', k, t)
    BY <2>2 DEF Others, SameWait
  <2> QED
    BY <1>3, <1>4, <2>2, <2>3, <2>4, <2>6, <2>7, LockOne
<1>6. CASE /\ semcnt[lock] < 1 /\ UNCHANGED semcnt
           /\ TaskCall(wobj_make_wait_tmout(k, runtsk, lock, tm), TRUE)
  <2>1. pc' = [pc EXCEPT ![t] = "waiting"]
    <3>1. pc' = [pc EXCEPT ![t] = IF semcnt[lock] >= 1 THEN "using" ELSE "waiting"]
      BY DEF Acquire, Goto
    <3>2. ~(semcnt[lock] >= 1)
      BY <1>1, <1>6
    <3> QED
      BY <3>1, <3>2
  <2>2. /\ Others(k', k, t) /\ WAITING(k', t) /\ k'.tcb[t].wobj = lock
        /\ iniflg' = iniflg
    BY <1>1, <1>2, <1>6, RunningBlocks DEF twai_sem, TaskCall
  <2>3. pc'[t] = "waiting" /\ pc' \in [Task -> {"out", "waiting", "using"}] /\ \A u \in Task \ {t} : pc'[u] = pc[u]
    BY <1>1, <2>1
  <2>4. LockTask(t)' /\ ~Owns(t)'
    BY <1>4, <2>2, <2>3 DEF LockTask, Owns
  <2> QED
    BY <1>3, <1>4, <1>6, <2>2, <2>3, <2>4, LockOne
<1> QED
  BY <1>2, <1>5, <1>6 DEF twai_sem

(* twai_sem returns what its WINFO says. *)
LEMMA LockReturnInv ==
  ASSUME LockIInv, Return
  PROVE  LockIInv'
<1>1. SemIInv /\ KernelInvs /\ pc \in [Task -> {"out", "waiting", "using"}] /\ lock # NULL
  BY LockAssumption, SemAssumption, WObjAssumption DEF LockIInv, SemIInv
<1>2. TSKCTX /\ pc[runtsk] = "waiting" /\ UNCHANGED semvars
  BY DEF Return, TSKCTX_UNL
<1> PICK t \in Task : t = runtsk
  BY <1>1, <1>2, RunningWaits DEF TSKCTX
<1>3. pc' = [pc EXCEPT ![t] = IF k.tcb[t].winfo = "E_OK" THEN "using" ELSE "out"]
  BY DEF Return, Goto
<1>4. SemIInv' /\ k' = k /\ iniflg' = iniflg /\ semcnt' = semcnt
  BY <1>1, <1>2, SemNextInv DEF semvars, kvars
<1>5. iniflg /\ ~WAITING(k, t) /\ k.tcb[t].wobj = NULL
  BY <1>1, <1>2, RunningWaits DEF TSKCTX
<1>6. /\ pc'[t] = IF k.tcb[t].winfo = "E_OK" THEN "using" ELSE "out"
      /\ pc' \in [Task -> {"out", "waiting", "using"}] /\ \A u \in Task \ {t} : pc'[u] = pc[u]
  BY <1>1, <1>3
<1>7. LockTask(t)' /\ (Owns(t)' <=> Owns(t))
  BY <1>1, <1>2, <1>4, <1>5, <1>6 DEF LockTask, Owns
<1>8. Others(k', k, t)
  BY <1>4 DEF Others, SameWait
<1> QED
  BY <1>4, <1>6, <1>7, <1>8, LockOne

(* sig_sem by the task that uses a unit: the unit goes to the first task   *)
(* that waits, if there is one, which is another task.                     *)
LEMMA ReleaseInv ==
  ASSUME LockIInv, Release
  PROVE  LockIInv'
<1>1. /\ SemIInv /\ KernelInvs /\ lock \in Sem /\ lock \in WObj /\ semcnt[lock] \in Nat
      /\ semcnt \in [Sem -> Nat] /\ pc \in [Task -> {"out", "waiting", "using"}] /\ lock # NULL
  BY LockAssumption, SemAssumption, WObjAssumption DEF LockIInv, SemIInv
<1>2. TSKCTX /\ signal(lock, TaskCall) /\ pc[runtsk] = "using"
  BY DEF Release, sig_sem
<1> PICK t \in Task : t = runtsk
  BY <1>1, <1>2, RunningWaits DEF TSKCTX
<1>3. SemIInv'
  BY <1>1, <1>2, SignalInv
<1>4. Owns(t) /\ iniflg /\ k.tcb[t].wobj = NULL
  BY <1>1, <1>2, RunningWaits DEF Owns, TSKCTX
<1>5. /\ pc' = [pc EXCEPT ![t] = "out"] /\ pc'[t] = "out"
      /\ pc' \in [Task -> {"out", "waiting", "using"}] /\ \A u \in Task \ {t} : pc'[u] = pc[u]
  BY <1>1 DEF Release, Goto
<1>6. CASE k.wait_queue[lock] = << >>
  <2>1. semcnt' = [semcnt EXCEPT ![lock] = @ + 1] /\ TaskCall(k, FALSE)
    BY <1>2, <1>6 DEF signal
  <2>2. k' = k /\ iniflg' = iniflg /\ semcnt'[lock] = semcnt[lock] + 1
    BY <1>1, <2>1 DEF TaskCall
  <2>3. LockTask(t)' /\ ~Owns(t)' /\ Others(k', k, t)
    BY <1>1, <1>4, <1>5, <2>2 DEF LockTask, Owns, Others, SameWait
  <2> QED
    BY <1>3, <1>4, <1>5, <2>2, <2>3, LockOne
<1>7. CASE k.wait_queue[lock] # << >>
  <2> DEFINE h == Head(k.wait_queue[lock])
             k2 == wait_complete([k EXCEPT !.wait_queue[lock] = Tail(@)], h)
             disp == Disp(make_non_wait_ret(k, h))
  <2>1. TaskCall(k2, disp) /\ UNCHANGED semcnt
    BY <1>2, <1>7 DEF signal
  <2>2. /\ h \in Task /\ k.tcb[h].wobj = lock /\ WAITING(k, h) /\ Others(k', k, h)
        /\ ~WAITING(k', h) /\ k'.tcb[h].wobj = NULL /\ k'.tcb[h].winfo = "E_OK"
    BY <1>1, <1>2, <1>7, <2>1, HeadWakes
  <2> PICK u \in Task : u = h
    BY <2>2
  <2>3. iniflg' = iniflg /\ semcnt' = semcnt
    BY <2>1 DEF TaskCall
  <2> HIDE DEF h, k2, disp
  <2>4. u # t /\ pc[u] = "waiting" /\ ~Owns(u)
    BY <1>1, <1>4, <2>2 DEF LockIInv, LockTask, Owns
  <2>5. LockTask(u)' /\ Owns(u)'
    BY <1>1, <1>4, <1>5, <2>2, <2>3, <2>4 DEF LockTask, Owns
  <2>6. SameWait(k', k, t)
    BY <2>2, <2>4 DEF Others
  <2>7. LockTask(t)' /\ ~Owns(t)'
    BY <1>1, <1>4, <1>5, <2>6 DEF LockTask, Owns, SameWait
  <2>8. \A v \in Task \ {t, u} : LockTask(v)' /\ (Owns(v)' <=> Owns(v))
    BY <1>5, <2>2, <2>3, LockKeep DEF Others
  <2>9. Cardinality(Owners') = Cardinality(Owners)
    <3>1. IsFiniteSet(Owners) /\ t \in Owners /\ u \notin Owners
      BY <1>4, <2>4, FS_Subset, LockAssumption DEF Owners
    <3>2. Owners' = (Owners \ {t}) \cup {u}
      BY <1>4, <2>4, <2>5, <2>7, <2>8 DEF Owners
    <3>3. IsFiniteSet(Owners \ {t}) /\ u \notin Owners \ {t}
      BY <3>1, FS_RemoveElement
    <3>4. /\ Cardinality(Owners) \in Nat
          /\ Cardinality(Owners \ {t}) = Cardinality(Owners) - 1
      BY <3>1, FS_RemoveElement, FS_CardinalityType
    <3>5. Cardinality((Owners \ {t}) \cup {u}) = Cardinality(Owners \ {t}) + 1
      BY <3>3, FS_AddElement
    <3> QED
      BY <3>2, <3>4, <3>5
  <2>10. \A v \in Task : LockTask(v)'
    BY <2>5, <2>7, <2>8
  <2> QED
    BY <1>3, <1>5, <2>3, <2>9, <2>10 DEF LockIInv
<1> QED
  BY <1>6, <1>7

(* The calls on other semaphores: who waits for those is not inside the    *)
(* twai_sem of this one.                                                   *)
LEMMA OtherSemInv ==
  ASSUME LockIInv, NEW s \in Sem \ {lock}, pc' = pc,
         isig_sem(s) \/ (TSKCTX /\ Returned /\ SemCallsOf(s))
  PROVE  LockIInv'
<1>1. /\ SemIInv /\ KernelInvs /\ s \in Sem /\ s \in WObj /\ s # lock /\ semcnt \in [Sem -> Nat]
      /\ pc \in [Task -> {"out", "waiting", "using"}] /\ lock # NULL /\ lock \in Sem
      /\ \A t \in Task : LockTask(t)
  BY LockAssumption, SemAssumption, WObjAssumption DEF LockIInv, SemIInv
<1>2. SemIInv'
  BY <1>1, SemNextInv DEF SemNext, SemCalls, SemCallsOf
<1>3. ASSUME k' = k, iniflg' = iniflg, semcnt'[lock] = semcnt[lock] PROVE LockIInv'
  <2>1. Calm(k', k)
    BY <1>3 DEF Calm, SameWait
  <2> QED
    BY <1>2, <1>3, <2>1, LockCalm
<1>4. CASE sig_sem(s) \/ isig_sem(s)
  <2>1. (TSKCTX /\ signal(s, TaskCall)) \/ (INTCTX /\ signal(s, IntCall))
    BY <1>4 DEF sig_sem, isig_sem, TSKCTX_UNL, INTCTX_UNL
  <2>2. CASE k.wait_queue[s] = << >>
    <3>1. semcnt' = [semcnt EXCEPT ![s] = @ + 1] /\ (TaskCall(k, FALSE) \/ IntCall(k, FALSE))
      BY <2>1, <2>2 DEF signal
    <3>2. k' = k /\ iniflg' = iniflg /\ semcnt'[lock] = semcnt[lock]
      BY <1>1, <3>1 DEF TaskCall, IntCall
    <3> QED
      BY <1>3, <3>2
  <2>3. CASE k.wait_queue[s] # << >>
    <3> DEFINE h == Head(k.wait_queue[s])
               k2 == wait_complete([k EXCEPT !.wait_queue[s] = Tail(@)], h)
               disp == Disp(make_non_wait_ret(k, h))
    <3>1. /\ (TSKCTX /\ TaskCall(k2, disp)) \/ (INTCTX /\ IntCall(k2, disp))
          /\ UNCHANGED semcnt
      BY <2>1, <2>3 DEF signal
    <3>2. /\ h \in Task /\ k.tcb[h].wobj = s /\ WAITING(k, h) /\ Others(k', k, h)
          /\ ~WAITING(k', h) /\ k'.tcb[h].wobj = NULL /\ k'.tcb[h].winfo = "E_OK"
      BY <1>1, <2>3, <3>1, HeadWakes
    <3>3. iniflg' = iniflg /\ semcnt' = semcnt
      BY <3>1 DEF TaskCall, IntCall
    <3> PICK u \in Task : u = h
      BY <3>2
    <3> HIDE DEF h, k2, disp
    <3>4. pc[u] # "waiting" /\ LockTask(u)
      BY <1>1, <3>2 DEF LockTask
    <3>5. LockTask(u)' /\ (Owns(u)' <=> Owns(u))
      BY <1>1, <3>2, <3>3, <3>4 DEF LockTask, Owns
    <3> QED
      BY <1>1, <1>2, <3>2, <3>3, <3>5, LockOne
  <2> QED
    BY <2>2, <2>3
<1>5. CASE take_unit(s)
  <2>1. k' = k /\ iniflg' = iniflg /\ semcnt'[lock] = semcnt[lock]
    BY <1>1, <1>5 DEF take_unit, TaskCall
  <2> QED
    BY <1>3, <2>1
<1>6. ASSUME NEW tm \in {"none", "wait_tmout"}, TSKCTX, Returned, CAN_WAIT, UNCHANGED semcnt,
             TaskCall(wobj_make_wait_tmout(k, runtsk, s, tm), TRUE)
      PROVE  LockIInv'
  <2> PICK t \in Task : t = runtsk
    BY <1>1, <1>6, RunningWaits DEF TSKCTX
  <2>1. /\ Others(k', k, t) /\ WAITING(k', t) /\ k'.tcb[t].wobj = s /\ iniflg' = iniflg
    BY <1>1, <1>6, RunningBlocks DEF TaskCall
  <2>2. pc[t] # "waiting" /\ iniflg
    BY <1>6 DEF Returned, TSKCTX
  <2>3. LockTask(t)' /\ (Owns(t)' <=> Owns(t))
    BY <1>1, <2>1, <2>2 DEF LockTask, Owns
  <2> QED
    BY <1>1, <1>2, <1>6, <2>1, <2>3, LockOne
<1> QED
  BY <1>4, <1>5, <1>6 DEF SemCallsOf, pol_sem, twai_sem
(* Once in operation the kernel stays so. *)
LEMMA StaysUp == iniflg /\ [Next]_kvars => iniflg'
<1> SUFFICES ASSUME iniflg, [Next]_kvars PROVE iniflg'
  OBVIOUS
<1>1. ASSUME NEW k1, NEW disp, TaskCall(k1, disp) \/ IntCall(k1, disp) PROVE iniflg'
  BY <1>1 DEF TaskCall, IntCall
<1>2. CASE interrupt_enter \/ interrupt_return \/ wait_for_intr \/ loc_cpu \/ unl_cpu
           \/ task_initialize \/ kernel_start \/ UNCHANGED kvars
  BY <1>2 DEF interrupt_enter, interrupt_return, wait_for_intr, loc_cpu, unl_cpu,
              task_initialize, kernel_start, kvars
<1>3. CASE \E pri \in Pri : rot_rdq(pri) \/ irot_rdq(pri)
  BY <1>1, <1>3 DEF rot_rdq, irot_rdq
<1>4. CASE dis_dsp \/ ena_dsp \/ ext_tsk \/ texrtn_return
  BY <1>4 DEF dis_dsp, ena_dsp, ext_tsk, texrtn_return
<1>5. CASE dis_tex \/ ena_tex \/ dly_tsk \/ \E tm \in {"none", "wait_tmout"} : slp_tsk(tm)
  BY <1>1, <1>5 DEF dis_tex, ena_tex, dly_tsk, slp_tsk
<1>6. ASSUME NEW t \in Task,
             \/ iact_tsk(t) \/ iwup_tsk(t) \/ irel_wai(t) \/ iras_tex(t) \/ timeout(t)
             \/ act_tsk(t) \/ can_act(t) \/ wup_tsk(t) \/ can_wup(t) \/ rel_wai(t)
      PROVE  iniflg'
  BY <1>1, <1>6 DEF iact_tsk, iwup_tsk, wakeup, irel_wai, iras_tex, timeout, act_tsk, can_act,
                    wup_tsk, can_wup, rel_wai
<1>7. ASSUME NEW t \in Task,
             ter_tsk(t) \/ sus_tsk(t) \/ rsm_tsk(t) \/ ras_tex(t) \/ \E pri \in Pri : chg_pri(t, pri)
      PROVE  iniflg'
  BY <1>1, <1>7 DEF ter_tsk, sus_tsk, rsm_tsk, ras_tex, chg_pri
<1> QED
  BY <1>2, <1>3, <1>4, <1>5, <1>6, <1>7 DEF Next, TaskNext, IntNext

(* The kernel's own steps. *)
LEMMA LockKernelInv ==
  ASSUME LockIInv, LockKernel
  PROVE  LockIInv'
<1>1. /\ SemIInv /\ KernelInvs /\ pc \in [Task -> {"out", "waiting", "using"}]
      /\ lock # NULL /\ \A t \in Task : LockTask(t)
  BY LockAssumption, SemAssumption, WObjAssumption DEF LockIInv, SemIInv
<1>2. ASSUME [Next]_kvars, UNCHANGED semcnt
      PROVE  SemIInv' /\ (iniflg => iniflg') /\ semcnt'[lock] = semcnt[lock]
  BY <1>1, <1>2, SemNextInv, StaysUp DEF SemNext, semvars
<1>3. ASSUME Next, UNCHANGED <<semcnt, pc>>, Calm(k', k)
      PROVE  LockIInv'
  BY <1>2, <1>3, LockCalm
<1>4. ASSUME Next, UNCHANGED <<semcnt, pc>>, NEW t \in Task, Calm(k', k) \/ Ends(k', k, t)
      PROVE  LockIInv'
  <2>1. CASE Ends(k', k, t)
    <3>1. /\ Others(k', k, t) /\ WAITING(k, t) /\ ~WAITING(k', t) /\ k'.tcb[t].wobj = NULL
          /\ k.tcb[t].wobj # NULL => k'.tcb[t].winfo # "E_OK"
      BY <2>1 DEF Ends
    <3>2. LockTask(t) /\ pc' = pc /\ SemIInv' /\ (iniflg => iniflg') /\ semcnt'[lock] = semcnt[lock]
      BY <1>1, <1>2, <1>4
    <3>3. LockTask(t)' /\ (Owns(t)' <=> Owns(t))
      BY <1>1, <3>1, <3>2 DEF LockTask, Owns
    <3> QED
      BY <1>1, <3>1, <3>2, <3>3, LockOne
  <2> QED
    BY <1>3, <1>4, <2>1
<1>5. ASSUME Next, UNCHANGED semcnt, NEW t \in Task, Goes(k', k, t), ~Owns(t), pc'[t] = "out",
             pc' = pc \/ pc' = [pc EXCEPT ![t] = "out"]
      PROVE  LockIInv'
  <2>1. Others(k', k, t) /\ k'.tcb[t].wobj = NULL
    BY <1>5 DEF Goes
  <2>2. SemIInv' /\ (iniflg => iniflg') /\ semcnt'[lock] = semcnt[lock]
    BY <1>2, <1>5
  <2>3. LockTask(t)' /\ ~Owns(t)'
    BY <1>1, <1>5, <2>1 DEF LockTask, Owns
  <2>4. pc' \in [Task -> {"out", "waiting", "using"}] /\ \A u \in Task \ {t} : pc'[u] = pc[u]
    BY <1>1, <1>5
  <2> QED
    BY <1>5, <2>1, <2>2, <2>3, <2>4, LockOne
<1>6. ASSUME Next, UNCHANGED <<semcnt, pc>>, NEW t \in Task, pc[t] # "waiting",
             Calm(k', k) \/ Sleeps(k', k, t)
      PROVE  LockIInv'
  <2>1. CASE Sleeps(k', k, t)
    <3>1. Others(k', k, t) /\ k'.tcb[t].wobj = NULL
      BY <2>1 DEF Sleeps
    <3>2. LockTask(t) /\ pc' = pc /\ SemIInv' /\ (iniflg => iniflg') /\ semcnt'[lock] = semcnt[lock]
      BY <1>1, <1>2, <1>6
    <3>3. LockTask(t)' /\ (Owns(t)' <=> Owns(t))
      BY <1>1, <1>6, <3>1, <3>2 DEF LockTask, Owns
    <3> QED
      BY <1>1, <3>1, <3>2, <3>3, LockOne
  <2> QED
    BY <1>3, <1>6, <2>1
<1>a. CASE (IntNext \/ (INTCTX /\ (loc_cpu \/ unl_cpu))) /\ UNCHANGED <<semcnt, pc>>
  <2>1. \/ interrupt_enter \/ interrupt_return \/ wait_for_intr \/ loc_cpu \/ unl_cpu
        \/ \E pri \in Pri : rot_rdq(pri) \/ irot_rdq(pri)
        \/ \E t \in Task : iact_tsk(t) \/ iras_tex(t)
        \/ \E t \in Task : iwup_tsk(t) \/ irel_wai(t) \/ timeout(t)
    BY <1>a DEF IntNext
  <2>2. Next
    BY <1>a DEF Next
  <2> QED
    BY <1>1, <1>3, <1>4, <1>a, <2>1, <2>2, CalmSteps, CalmCalls, EndSteps
<1>b. CASE (task_initialize \/ kernel_start) /\ UNCHANGED <<semcnt, pc>>
  <2>1. CASE task_initialize
    <3>1. todo \in Seq(Task) /\ todo # << >> /\ ~iniflg
      BY <1>1, <2>1 DEF task_initialize, KernelInvs, TypeInv, TypeOK
    <3> PICK t \in Task : t = Head(todo)
      BY <3>1
    <3>2. Goes(k', k, t)
      BY <1>1, <2>1, GoneSteps
    <3>3. pc[t] = "out" /\ pc' = pc /\ ~Owns(t)
      BY <1>1, <1>b, <3>1 DEF LockTask, Owns
    <3> QED
      BY <1>5, <1>b, <2>1, <3>2, <3>3 DEF Next
  <2> QED
    BY <1>1, <1>3, <1>b, <2>1, CalmSteps DEF Next
<1>c. ASSUME TSKCTX, Returned, UNCHANGED <<semcnt, pc>>,
             \/ (TaskNext \/ loc_cpu \/ unl_cpu) /\ ~ext_tsk /\ \A t \in Task : ~ter_tsk(t)
             \/ ext_tsk /\ pc[runtsk] = "out"
      PROVE  LockIInv'
  <2> PICK r \in Task : r = runtsk
    BY <1>1, <1>c, RunningWaits DEF TSKCTX
  <2>1. pc[r] # "waiting"
    BY <1>c DEF Returned, TSKCTX
  <2>2. \/ ext_tsk /\ pc[r] = "out"
        \/ dly_tsk \/ \E tm \in {"none", "wait_tmout"} : slp_tsk(tm)
        \/ dis_dsp \/ ena_dsp \/ dis_tex \/ ena_tex \/ texrtn_return \/ loc_cpu \/ unl_cpu
        \/ \E pri \in Pri : rot_rdq(pri) \/ irot_rdq(pri)
        \/ \E t \in Task : \/ act_tsk(t) \/ can_act(t) \/ can_wup(t) \/ sus_tsk(t) \/ rsm_tsk(t)
                           \/ ras_tex(t) \/ \E pri \in Pri : chg_pri(t, pri)
        \/ \E t \in Task : wup_tsk(t) \/ rel_wai(t)
    BY <1>c DEF TaskNext
  <2>3. Next
    BY <1>c DEF Next, TaskNext
  <2>4. CASE ext_tsk /\ pc[r] = "out"
    <3>1. ~Owns(r) /\ pc' = pc
      BY <1>c, <2>4 DEF Owns
    <3> QED
      BY <1>1, <1>5, <1>c, <2>3, <2>4, <3>1, GoneSteps
  <2>5. CASE dly_tsk \/ \E tm \in {"none", "wait_tmout"} : slp_tsk(tm)
    BY <1>1, <1>6, <1>c, <2>1, <2>3, <2>5, SleepSteps
  <2> QED
    BY <1>1, <1>3, <1>4, <1>c, <2>2, <2>3, <2>4, <2>5, CalmSteps, CalmCalls, EndSteps
<1>d. ASSUME NEW t \in Task \ (Using \cup Granted), ter_tsk(t), UNCHANGED semcnt,
             pc' = [pc EXCEPT ![t] = "out"]
      PROVE  LockIInv'
  <2>1. ~Owns(t) /\ pc'[t] = "out"
    BY <1>1, <1>d DEF Owns, Using, Granted
  <2>2. Next /\ Goes(k', k, t)
    BY <1>1, <1>d, GoneSteps DEF Next, TaskNext
  <2> QED
    BY <1>5, <1>d, <2>1, <2>2
<1>e. CASE UNCHANGED pc /\ \E s \in Sem \ {lock} :
             isig_sem(s) \/ (TSKCTX /\ Returned /\ SemCallsOf(s))
  BY <1>e, OtherSemInv
<1> QED
  BY <1>a, <1>b, <1>c, <1>d, <1>e DEF LockKernel

(* Every step keeps it. *)
LEMMA LockNextInv == LockIInv /\ [LockNext]_lockvars => LockIInv'
<1> SUFFICES ASSUME LockIInv, [LockNext]_lockvars PROVE LockIInv'
  OBVIOUS
<1>1. CASE LockCalls
  BY <1>1, AcquireInv, LockReturnInv, ReleaseInv DEF LockCalls
<1>2. CASE UNCHANGED lockvars
  <2>1. UNCHANGED semvars /\ pc' = pc /\ semcnt' = semcnt /\ k' = k /\ iniflg' = iniflg
    BY <1>2 DEF lockvars, semvars, kvars
  <2>2. SemIInv'
    BY <2>1, SemNextInv DEF LockIInv
  <2>3. Calm(k', k)
    BY <2>1 DEF Calm, SameWait
  <2> QED
    BY <2>1, <2>2, <2>3, LockCalm
<1> QED
  BY <1>1, <1>2, LockKernelInv DEF LockNext

(* It holds before the first task is initialised. *)
LEMMA LockInitInv == LockInit => LockIInv
<1> SUFFICES ASSUME LockInit PROVE LockIInv
  OBVIOUS
<1>1. SemIInv /\ k = InitTables /\ semcnt = isemcnt /\ lock # NULL
  BY SemInitInv, LockAssumption, SemAssumption, WObjAssumption DEF LockInit, SemInit, Init
<1>2. pc \in [Task -> {"out", "waiting", "using"}] /\ \A t \in Task : pc[t] = "out"
  BY DEF LockInit
<1>3. \A t \in Task : k.tcb[t].wobj = NULL
  BY <1>1 DEF InitTables, dormant_tcb
<1>4. Owners = {}
  BY <1>2 DEF Owners, Owns
<1>5. semcnt[lock] + Cardinality(Owners) = isemcnt[lock]
  BY <1>1, <1>4, FS_EmptySet, SemAssumption, LockAssumption
<1> QED
  BY <1>1, <1>2, <1>3, <1>5 DEF LockIInv, LockTask

(* No unit is lost or doubled, for any number of units and tasks, with     *)
(* priority order or without, whatever ends waits and whatever the tasks   *)
(* and handlers do on other semaphores meanwhile.                          *)
THEOREM UnitsAddUp == LockSpec => []UnitsConserved
  BY LockMeans, LockInitInv, LockNextInv, PTL DEF LockSpec
-----------------------------------------------------------------------------
(* Part 6: a data queue is a channel. *)

(* A part of a sequence, perhaps an empty one. *)
LEMMA PartSeq ==
  ASSUME NEW S, NEW q \in Seq(S), NEW m \in 1 .. Len(q) + 1, NEW n \in m - 1 .. Len(q)
  PROVE  /\ SubSeq(q, m, n) \in Seq(S) /\ Len(SubSeq(q, m, n)) = n - m + 1
         /\ \A j \in 1 .. n - m + 1 : SubSeq(q, m, n)[j] = q[m + j - 1]
<1>1. Len(q) \in Nat
  BY LenProperties
<1>2. m \in Int /\ n \in Int /\ \A j \in m .. n : q[j] \in S
  BY <1>1, ElementOfSeq
<1>3. SubSeq(q, m, n) \in Seq(S) /\ Len(SubSeq(q, m, n)) = IF m <= n THEN n - m + 1 ELSE 0
  BY <1>2, SubSeqProperties
<1>4. \A j \in 1 .. n - m + 1 : SubSeq(q, m, n)[j] = q[m + j - 1]
  BY <1>2, SubSeqProperties
<1>5. (IF m <= n THEN n - m + 1 ELSE 0) = n - m + 1
  BY <1>1, <1>2
<1> QED
  BY <1>3, <1>4, <1>5

(* RemoveAt and InsertAt, place by place. *)
LEMMA RemoveAtSeq ==
  ASSUME NEW S, NEW q \in Seq(S), NEW i \in 1 .. Len(q)
  PROVE  /\ RemoveAt(q, i) \in Seq(S) /\ Len(RemoveAt(q, i)) = Len(q) - 1
         /\ \A j \in 1 .. Len(q) - 1 : RemoveAt(q, i)[j] = IF j < i THEN q[j] ELSE q[j + 1]
<1> DEFINE a == SubSeq(q, 1, i - 1)
           b == SubSeq(q, i + 1, Len(q))
           r == RemoveAt(q, i)
<1>1. Len(q) \in Nat
  BY LenProperties
<1>2. /\ 1 \in 1 .. Len(q) + 1 /\ i - 1 \in 1 - 1 .. Len(q)
      /\ i + 1 \in 1 .. Len(q) + 1 /\ Len(q) \in (i + 1) - 1 .. Len(q)
  BY <1>1
<1>3. /\ a \in Seq(S) /\ Len(a) = (i - 1) - 1 + 1
      /\ \A j \in 1 .. (i - 1) - 1 + 1 : a[j] = q[1 + j - 1]
  BY <1>2, PartSeq
<1>4. /\ b \in Seq(S) /\ Len(b) = Len(q) - (i + 1) + 1
      /\ \A j \in 1 .. Len(q) - (i + 1) + 1 : b[j] = q[(i + 1) + j - 1]
  BY <1>2, PartSeq
<1>5. /\ r \in Seq(S) /\ Len(r) = Len(a) + Len(b)
      /\ \A j \in 1 .. Len(a) + Len(b) : r[j] = IF j <= Len(a) THEN a[j] ELSE b[j - Len(a)]
  BY <1>3, <1>4, ConcatProperties DEF RemoveAt
<1> HIDE DEF a, b, r
<1>6. Len(a) = i - 1 /\ Len(b) = Len(q) - i /\ Len(r) = Len(q) - 1
  BY <1>1, <1>3, <1>4, <1>5
<1>7. ASSUME NEW j \in 1 .. Len(q) - 1 PROVE r[j] = IF j < i THEN q[j] ELSE q[j + 1]
  <2>1. CASE j < i
    <3>1. j \in 1 .. (i - 1) - 1 + 1 /\ 1 + j - 1 = j /\ j <= Len(a) /\ j \in 1 .. Len(a) + Len(b)
      BY <1>1, <1>6, <2>1
    <3>2. r[j] = a[j] /\ a[j] = q[j]
      BY <1>3, <1>5, <3>1
    <3> QED
      BY <2>1, <3>2
  <2>2. CASE ~(j < i)
    <3> DEFINE l == j - Len(a)
    <3>1. l \in 1 .. Len(q) - (i + 1) + 1 /\ (i + 1) + l - 1 = j + 1 /\ ~(j <= Len(a))
          /\ j \in 1 .. Len(a) + Len(b)
      BY <1>1, <1>6, <2>2
    <3>2. r[j] = b[l]
      BY <1>5, <3>1
    <3> HIDE DEF l
    <3>3. b[l] = q[j + 1]
      BY <1>4, <3>1
    <3> QED
      BY <2>2, <3>2, <3>3
  <2> QED
    BY <2>1, <2>2
<1> QED
  BY <1>5, <1>6, <1>7 DEF r

(* The same of putting an entry in. *)
LEMMA InsertAtSeq ==
  ASSUME NEW S, NEW q \in Seq(S), NEW i \in 1 .. Len(q) + 1, NEW d \in S
  PROVE  /\ InsertAt(q, i, d) \in Seq(S) /\ Len(InsertAt(q, i, d)) = Len(q) + 1
         /\ \A j \in 1 .. Len(q) + 1 :
              InsertAt(q, i, d)[j] = IF j < i THEN q[j] ELSE IF j = i THEN d ELSE q[j - 1]
<1> DEFINE a == SubSeq(q, 1, i - 1)
           b == SubSeq(q, i, Len(q))
           c == a \o <<d>>
           r == InsertAt(q, i, d)
<1>1. Len(q) \in Nat
  BY LenProperties
<1>2. /\ 1 \in 1 .. Len(q) + 1 /\ i - 1 \in 1 - 1 .. Len(q)
      /\ i \in 1 .. Len(q) + 1 /\ Len(q) \in i - 1 .. Len(q)
  BY <1>1
<1>3. /\ a \in Seq(S) /\ Len(a) = (i - 1) - 1 + 1
      /\ \A j \in 1 .. (i - 1) - 1 + 1 : a[j] = q[1 + j - 1]
  BY <1>2, PartSeq
<1>4. /\ b \in Seq(S) /\ Len(b) = Len(q) - i + 1
      /\ \A j \in 1 .. Len(q) - i + 1 : b[j] = q[i + j - 1]
  BY <1>2, PartSeq
<1>5. /\ c \in Seq(S) /\ Len(c) = Len(a) + 1
      /\ \A j \in 1 .. Len(a) : c[j] = a[j]
      /\ c[Len(a) + 1] = d
  <2>1. c = Append(a, d)
    BY <1>3, AppendIsConcat
  <2> HIDE DEF a
  <2> QED
    BY <1>3, <2>1, AppendProperties
<1>6. /\ r \in Seq(S) /\ Len(r) = Len(c) + Len(b)
      /\ \A j \in 1 .. Len(c) + Len(b) : r[j] = IF j <= Len(c) THEN c[j] ELSE b[j - Len(c)]
  <2>1. r = c \o b
    BY DEF InsertAt
  <2> HIDE DEF a, b, c, r
  <2> QED
    BY <1>4, <1>5, <2>1, ConcatProperties
<1> HIDE DEF a, b, c, r
<1>7. Len(a) = i - 1 /\ Len(c) = i /\ Len(b) = Len(q) - i + 1 /\ Len(r) = Len(q) + 1
  BY <1>1, <1>3, <1>4, <1>5, <1>6
<1>8. ASSUME NEW j \in 1 .. Len(q) + 1
      PROVE  r[j] = IF j < i THEN q[j] ELSE IF j = i THEN d ELSE q[j - 1]
  <2>0. j \in 1 .. Len(c) + Len(b)
    BY <1>1, <1>7
  <2>1. CASE j < i
    <3>1. j \in 1 .. (i - 1) - 1 + 1 /\ 1 + j - 1 = j /\ j \in 1 .. Len(a) /\ j <= Len(c)
      BY <1>1, <1>7, <2>1
    <3>2. r[j] = c[j] /\ c[j] = a[j] /\ a[j] = q[j]
      BY <1>3, <1>5, <1>6, <2>0, <3>1
    <3> QED
      BY <2>1, <3>2
  <2>2. CASE j = i
    <3>1. j <= Len(c) /\ j = Len(a) + 1 /\ ~(j < i)
      BY <1>1, <1>7, <2>2
    <3>2. r[j] = c[j] /\ c[j] = d
      BY <1>5, <1>6, <2>0, <3>1
    <3> QED
      BY <2>2, <3>1, <3>2
  <2>3. CASE j > i
    <3> DEFINE l == j - Len(c)
    <3>1. l \in 1 .. Len(q) - i + 1 /\ i + l - 1 = j - 1 /\ ~(j <= Len(c))
      BY <1>1, <1>7, <2>3
    <3>2. r[j] = b[l]
      BY <1>6, <2>0, <3>1
    <3> HIDE DEF l
    <3>3. b[l] = q[j - 1]
      BY <1>4, <3>1
    <3>4. ~(j < i) /\ j # i
      BY <1>1, <2>3
    <3> QED
      BY <3>2, <3>3, <3>4
  <2> QED
    BY <1>1, <2>1, <2>2, <2>3
<1> QED
  BY <1>6, <1>7, <1>8 DEF r

(* What happens to a line A \o B.  A message joins the end of A while      *)
(* nobody is in B.                                                         *)
LEMMA LineJoins ==
  ASSUME NEW S, NEW A \in Seq(S), NEW B \in Seq(S), NEW d \in S
  PROVE  /\ A \o Append(B, d) = Append(A \o B, d)
         /\ B = << >> => Append(A, d) \o B = Append(A \o B, d)
<1>1. /\ <<d>> \in Seq(S) /\ Append(B, d) = B \o <<d>> /\ A \o B \in Seq(S)
      /\ Append(A \o B, d) = (A \o B) \o <<d>>
  BY AppendIsConcat, ConcatProperties
<1>2. (A \o B) \o <<d>> = A \o (B \o <<d>>)
  BY <1>1, ConcatAssociative
<1>3. Append(A, d) \in Seq(S)
  BY AppendProperties
<1>4. B = << >> => Append(A, d) \o B = Append(A, d) /\ A \o B = A
  BY <1>3, ConcatEmptySeq
<1> QED
  BY <1>1, <1>2, <1>4

(* The first message of A leaves, and A is filled up from B, or with d:    *)
(* the line moves up by one.                                               *)
LEMMA LineMoves ==
  ASSUME NEW S, NEW A \in Seq(S), NEW B \in Seq(S), A # << >>
  PROVE  /\ A \o B # << >> /\ Head(A \o B) = A[1] /\ Tail(A \o B) = Tail(A) \o B
         /\ B # << >> => Tail(A \o B) = Append(Tail(A), B[1]) \o Tail(B)
         /\ \A d \in S : Tail(InsertAt(A \o B, Len(A) + 1, d)) = Append(Tail(A), d) \o B
<1> DEFINE L == A \o B
<1>1. /\ Len(A) \in Nat \ {0} /\ Len(B) \in Nat
      /\ L \in Seq(S) /\ Len(L) = Len(A) + Len(B)
      /\ \A i \in 1 .. Len(A) + Len(B) : L[i] = IF i <= Len(A) THEN A[i] ELSE B[i - Len(A)]
  BY EmptySeq, LenProperties, ConcatProperties
<1>2. /\ Tail(A) \in Seq(S) /\ Len(Tail(A)) = Len(A) - 1
      /\ \A i \in 1 .. Len(A) - 1 : Tail(A)[i] = A[i + 1]
  BY <1>1, HeadTailProperties
<1> HIDE DEF L
<1>3. L # << >>
  BY <1>1, EmptySeq
<1>4. /\ Tail(L) \in Seq(S) /\ Len(Tail(L)) = Len(L) - 1 /\ Head(L) = L[1]
      /\ \A i \in 1 .. Len(L) - 1 : Tail(L)[i] = L[i + 1]
  BY <1>1, <1>3, HeadTailProperties
<1>5. L[1] = A[1]
  BY <1>1
<1>6. Tail(L) = Tail(A) \o B
  <2> DEFINE M == Tail(A) \o B
             T == Tail(A)
  <2>1. /\ M \in Seq(S) /\ Len(M) = Len(T) + Len(B)
        /\ \A i \in 1 .. Len(T) + Len(B) : M[i] = IF i <= Len(T) THEN T[i] ELSE B[i - Len(T)]
    BY <1>2, ConcatProperties
  <2>2. Len(T) = Len(A) - 1
    BY <1>2
  <2> HIDE DEF M, T
  <2>3. Len(M) = Len(Tail(L))
    BY <1>1, <1>4, <2>1, <2>2
  <2>4. ASSUME NEW i \in 1 .. Len(Tail(L)) PROVE Tail(L)[i] = M[i]
    <3>1. Tail(L)[i] = L[i + 1] /\ i + 1 \in 1 .. Len(A) + Len(B) /\ i \in 1 .. Len(T) + Len(B)
      BY <1>1, <1>4, <2>2
    <3>2. CASE i <= Len(T)
      <4>1. i + 1 <= Len(A) /\ i \in 1 .. Len(A) - 1
        BY <1>1, <2>2, <3>2
      <4>2. M[i] = T[i] /\ L[i + 1] = A[i + 1] /\ T[i] = A[i + 1]
        BY <1>1, <1>2, <2>1, <3>1, <3>2, <4>1 DEF T
      <4> QED
        BY <3>1, <4>2
    <3>3. CASE ~(i <= Len(T))
      <4>1. ~(i + 1 <= Len(A)) /\ i - Len(T) = (i + 1) - Len(A)
        BY <1>1, <2>2, <3>3
      <4>2. M[i] = B[i - Len(T)] /\ L[i + 1] = B[(i + 1) - Len(A)]
        BY <1>1, <2>1, <3>1, <3>3, <4>1
      <4> QED
        BY <3>1, <4>1, <4>2
    <3> QED
      BY <3>2, <3>3
  <2>5. Tail(L) = M
    BY <1>4, <2>1, <2>3, <2>4, SeqEqual
  <2> QED
    BY <2>5 DEF M
<1>7. ASSUME B # << >> PROVE Tail(L) = Append(Tail(A), B[1]) \o Tail(B)
  <2>1. /\ B[1] \in S /\ Tail(B) \in Seq(S) /\ B = <<B[1]>> \o Tail(B) /\ <<B[1]>> \in Seq(S)
    <3>1. Len(B) \in Nat \ {0} /\ 1 \in 1 .. Len(B) /\ Len(B) \in 1 .. Len(B)
      BY <1>7, EmptySeq
    <3>2. B[1] \in S /\ Tail(B) \in Seq(S) /\ Tail(B) = SubSeq(B, 2, Len(B))
      BY <1>7, <3>1, ElementOfSeq, HeadTailProperties, TailIsSubSeq
    <3>3. SubSeq(B, 1, Len(B)) = <<B[1]>> \o SubSeq(B, 1 + 1, Len(B))
      BY <3>1, SubSeqRecursiveFirst
    <3> QED
      BY <3>2, <3>3, SubSeqFull
  <2>2. Append(Tail(A), B[1]) = Tail(A) \o <<B[1]>>
    BY <1>2, <2>1, AppendIsConcat
  <2>3. (Tail(A) \o <<B[1]>>) \o Tail(B) = Tail(A) \o (<<B[1]>> \o Tail(B))
    BY <1>2, <2>1, ConcatAssociative
  <2> QED
    BY <1>6, <2>1, <2>2, <2>3
<1>8. ASSUME NEW d \in S
      PROVE  Tail(InsertAt(L, Len(A) + 1, d)) = Append(Tail(A), d) \o B
  <2> DEFINE n == Len(A) + 1
             I == InsertAt(L, n, d)
             T == Append(Tail(A), d)
             M == T \o B
  <2>1. n \in 1 .. Len(L) + 1
    BY <1>1
  <2>2. /\ I \in Seq(S) /\ Len(I) = Len(L) + 1
        /\ \A j \in 1 .. Len(L) + 1 : I[j] = IF j < n THEN L[j] ELSE IF j = n THEN d ELSE L[j - 1]
    <3>1. L \in Seq(S)
      BY <1>1
    <3> HIDE DEF n
    <3> QED
      BY <2>1, <3>1, InsertAtSeq
  <2>3. /\ T \in Seq(S) /\ Len(T) = Len(A) /\ T[Len(A)] = d
        /\ \A j \in 1 .. Len(A) - 1 : T[j] = A[j + 1]
    <3>1. /\ T \in Seq(S) /\ Len(T) = Len(Tail(A)) + 1 /\ T[Len(Tail(A)) + 1] = d
          /\ \A j \in 1 .. Len(Tail(A)) : T[j] = Tail(A)[j]
      BY <1>2, AppendProperties
    <3>2. Len(Tail(A)) + 1 = Len(A) /\ Len(Tail(A)) = Len(A) - 1
      BY <1>1, <1>2
    <3> HIDE DEF T
    <3> QED
      BY <1>2, <3>1, <3>2
  <2> HIDE DEF T
  <2>4. /\ M \in Seq(S) /\ Len(M) = Len(T) + Len(B)
        /\ \A i \in 1 .. Len(T) + Len(B) : M[i] = IF i <= Len(T) THEN T[i] ELSE B[i - Len(T)]
    BY <2>3, ConcatProperties
  <2> HIDE DEF I, M
  <2>5. I # << >>
    BY <1>1, <2>2, EmptySeq
  <2>6. /\ Tail(I) \in Seq(S) /\ Len(Tail(I)) = Len(L)
        /\ \A i \in 1 .. Len(L) : Tail(I)[i] = I[i + 1]
    <3>1. Tail(I) \in Seq(S) /\ Len(Tail(I)) = Len(I) - 1 /\ \A i \in 1 .. Len(Tail(I)) : Tail(I)[i] = I[i + 1]
      BY <2>2, <2>5, HeadTailProperties
    <3>2. Len(Tail(I)) = Len(L)
      BY <1>1, <2>2, <3>1
    <3> QED
      BY <3>1, <3>2
  <2>7. ASSUME NEW i \in 1 .. Len(L) PROVE Tail(I)[i] = M[i]
    <3>1. i + 1 \in 1 .. Len(L) + 1 /\ i \in 1 .. Len(T) + Len(B) /\ i \in 1 .. Len(A) + Len(B)
      BY <1>1, <2>3
    <3>2. CASE i < Len(A)
      <4>1. i + 1 < n /\ i + 1 <= Len(A) /\ i <= Len(T) /\ i \in 1 .. Len(A) - 1
            /\ i + 1 \in 1 .. Len(A) + Len(B)
        BY <1>1, <2>3, <3>2
      <4>2. I[i + 1] = L[i + 1] /\ L[i + 1] = A[i + 1] /\ M[i] = T[i] /\ T[i] = A[i + 1]
        BY <1>1, <2>2, <2>3, <2>4, <3>1, <4>1
      <4> QED
        BY <2>6, <4>2
    <3>3. CASE i = Len(A)
      <4>1. i + 1 = n /\ ~(i + 1 < n) /\ i <= Len(T)
        BY <1>1, <2>3, <3>3
      <4>2. I[i + 1] = d /\ M[i] = T[i] /\ T[i] = d
        BY <2>2, <2>3, <2>4, <3>1, <3>3, <4>1
      <4> QED
        BY <2>6, <4>2
    <3>4. CASE i > Len(A)
      <4>1. i + 1 # n /\ ~(i + 1 < n) /\ ~(i <= Len(T)) /\ (i + 1) - 1 = i /\ ~(i <= Len(A))
            /\ i - Len(T) = i - Len(A)
        BY <1>1, <2>3, <3>4
      <4>2. I[i + 1] = L[i] /\ L[i] = B[i - Len(A)] /\ M[i] = B[i - Len(T)]
        BY <1>1, <2>2, <2>4, <3>1, <4>1
      <4> QED
        BY <2>6, <4>1, <4>2
    <3>5. i < Len(A) \/ i = Len(A) \/ i > Len(A)
      BY <1>1
    <3> QED
      BY <3>2, <3>3, <3>4, <3>5
  <2>8. Len(M) = Len(L)
    BY <1>1, <2>3, <2>4
  <2>9. Tail(I) = M
    BY <2>4, <2>6, <2>7, <2>8, SeqEqual
  <2> QED
    BY <2>9 DEF M, I, T
<1> QED
  BY <1>3, <1>4, <1>5, <1>6, <1>7, <1>8 DEF L

(* A place of B is given up. *)
LEMMA LineGivesUp ==
  ASSUME NEW S, NEW A \in Seq(S), NEW B \in Seq(S), NEW i \in 1 .. Len(B)
  PROVE  RemoveAt(A \o B, Len(A) + i) = A \o RemoveAt(B, i)
<1> DEFINE L == A \o B
           n == Len(A) + i
           R == RemoveAt(L, n)
           Q == RemoveAt(B, i)
           M == A \o Q
<1>1. /\ Len(A) \in Nat /\ Len(B) \in Nat
      /\ L \in Seq(S) /\ Len(L) = Len(A) + Len(B)
      /\ \A j \in 1 .. Len(A) + Len(B) : L[j] = IF j <= Len(A) THEN A[j] ELSE B[j - Len(A)]
  BY LenProperties, ConcatProperties
<1> HIDE DEF L
<1>2. /\ R \in Seq(S) /\ Len(R) = Len(L) - 1
      /\ \A j \in 1 .. Len(L) - 1 : R[j] = IF j < n THEN L[j] ELSE L[j + 1]
  <2>1. n \in 1 .. Len(L)
    BY <1>1
  <2> HIDE DEF n
  <2> QED
    BY <1>1, <2>1, RemoveAtSeq
<1>3. /\ Q \in Seq(S) /\ Len(Q) = Len(B) - 1
      /\ \A j \in 1 .. Len(B) - 1 : Q[j] = IF j < i THEN B[j] ELSE B[j + 1]
  BY RemoveAtSeq
<1> HIDE DEF R, Q
<1>4. /\ M \in Seq(S) /\ Len(M) = Len(A) + Len(Q)
      /\ \A j \in 1 .. Len(A) + Len(Q) : M[j] = IF j <= Len(A) THEN A[j] ELSE Q[j - Len(A)]
  BY <1>3, ConcatProperties
<1> HIDE DEF M
<1>5. Len(M) = Len(R)
  BY <1>1, <1>2, <1>3, <1>4
<1>6. ASSUME NEW j \in 1 .. Len(R) PROVE R[j] = M[j]
  <2>1. j \in 1 .. Len(L) - 1 /\ j \in 1 .. Len(A) + Len(Q)
    BY <1>1, <1>2, <1>3
  <2>2. CASE j <= Len(A)
    <3>1. j < n /\ j \in 1 .. Len(A) + Len(B)
      BY <1>1, <2>1, <2>2
    <3> QED
      BY <1>1, <1>2, <1>4, <2>1, <2>2, <3>1
  <2>3. CASE ~(j <= Len(A)) /\ j < n
    <3>1. j \in 1 .. Len(A) + Len(B) /\ j - Len(A) < i /\ j - Len(A) \in 1 .. Len(B) - 1
      BY <1>1, <1>2, <2>1, <2>3
    <3>2. R[j] = B[j - Len(A)] /\ M[j] = Q[j - Len(A)] /\ Q[j - Len(A)] = B[j - Len(A)]
      BY <1>1, <1>2, <1>3, <1>4, <2>1, <2>3, <3>1
    <3> QED
      BY <3>2
  <2>4. CASE ~(j <= Len(A)) /\ ~(j < n)
    <3> DEFINE l == j - Len(A)
    <3>1. /\ j + 1 \in 1 .. Len(A) + Len(B) /\ ~(l < i) /\ l \in 1 .. Len(B) - 1
          /\ (j + 1) - Len(A) = l + 1 /\ ~(j + 1 <= Len(A))
      BY <1>1, <1>2, <2>1, <2>4
    <3>2. R[j] = L[j + 1] /\ L[j + 1] = B[(j + 1) - Len(A)] /\ M[j] = Q[l]
      BY <1>1, <1>2, <1>4, <2>1, <2>4, <3>1
    <3> HIDE DEF l
    <3>3. Q[l] = B[l + 1]
      BY <1>3, <3>1
    <3> QED
      BY <3>1, <3>2, <3>3
  <2> QED
    BY <2>2, <2>3, <2>4
<1>7. R = M
  BY <1>2, <1>4, <1>5, <1>6, SeqEqual
<1> QED
  BY <1>7 DEF R, M, L, Q
(* The place in the ring of the i-th message, counted from h on; the       *)
(* messages in the ring; those of the tasks of a wait queue.               *)
Cell(h, i, n) == IF h + i - 1 < n THEN h + i - 1 ELSE h + i - 1 - n
Following(h, n) == IF h + 1 >= n THEN 0 ELSE h + 1
BufOf(r, h, c, n) == [i \in 1 .. c |-> r[(h + i - 1) % n]]
OffOf(q, off) == [i \in DOMAIN q |-> off[q[i]]]

(* The messages in the ring are a sequence. *)
LEMMA BufIs ==
  ASSUME NEW n \in Nat, NEW c \in 0 .. n, NEW h, n > 0 => h \in 0 .. n - 1,
         NEW r \in [0 .. n - 1 -> Data]
  PROVE  /\ BufOf(r, h, c, n) \in Seq(Data) /\ Len(BufOf(r, h, c, n)) = c
         /\ \A i \in 1 .. c : /\ Cell(h, i, n) \in 0 .. n - 1
                              /\ BufOf(r, h, c, n)[i] = r[Cell(h, i, n)]
<1>1. ASSUME NEW i \in 1 .. c
      PROVE  Cell(h, i, n) \in 0 .. n - 1 /\ (h + i - 1) % n = Cell(h, i, n)
  <2> DEFINE x == h + i - 1
  <2>1. n \in Nat \ {0} /\ x \in 0 .. 2 * n - 1 /\ h \in 0 .. n - 1
    OBVIOUS
  <2>2. Cell(h, i, n) \in 0 .. n - 1
    BY <2>1 DEF Cell
  <2>3. Cell(h, i, n) = IF x < n THEN x ELSE x - n
    BY DEF Cell
  <2> HIDE DEF x
  <2>4. x % n = IF x < n THEN x ELSE x - n
    BY <2>1, Remainder
  <2>5. x % n = Cell(h, i, n)
    BY <2>3, <2>4, Zenon
  <2> QED
    BY <2>2, <2>5, Zenon DEF x
<1> DEFINE b == BufOf(r, h, c, n)
<1>2. \A i \in 1 .. c : b[i] = r[Cell(h, i, n)] /\ Cell(h, i, n) \in 0 .. n - 1
  BY <1>1 DEF BufOf
<1>3. DOMAIN b = 1 .. c /\ b = [i \in DOMAIN b |-> b[i]]
  BY DEF BufOf
<1>4. \A i \in 1 .. c : b[i] \in Data
  BY <1>2
<1> HIDE DEF b
<1>5. b \in [1 .. c -> Data] /\ c \in Nat
  BY <1>3, <1>4
<1>6. b \in Seq(Data) /\ Len(b) = c
  BY <1>5, FunctionSeq
<1> QED
  BY <1>2, <1>6 DEF b

(* A message is put behind the last one. *)
LEMMA BufPut ==
  ASSUME NEW n \in Nat, NEW c \in 0 .. n, c < n, NEW h \in 0 .. n - 1,
         NEW r \in [0 .. n - 1 -> Data], NEW d \in Data
  PROVE  BufOf([r EXCEPT ![Cell(h, c + 1, n)] = d], h, c + 1, n) = Append(BufOf(r, h, c, n), d)
<1> DEFINE r1 == [r EXCEPT ![Cell(h, c + 1, n)] = d]
           A == BufOf(r, h, c, n)
           B == BufOf(r1, h, c + 1, n)
           M == Append(A, d)
<1>0. c + 1 \in 0 .. n
  OBVIOUS
<1>1. c + 1 \in 0 .. n /\ r1 \in [0 .. n - 1 -> Data]
  <2> DEFINE C1 == Cell(h, c + 1, n)
             D == 0 .. n - 1
  <2> HIDE DEF C1, D
  <2>1. r \in [D -> Data]
    BY DEF D
  <2>2. [r EXCEPT ![C1] = d] \in [D -> Data]
    BY <2>1
  <2> QED
    BY <1>0, <2>2 DEF C1, D
<1>2. /\ A \in Seq(Data) /\ Len(A) = c
      /\ \A i \in 1 .. c : A[i] = r[Cell(h, i, n)]
  BY BufIs
<1>3. /\ B \in Seq(Data) /\ Len(B) = c + 1
      /\ \A i \in 1 .. c + 1 : B[i] = r1[Cell(h, i, n)] /\ Cell(h, i, n) \in 0 .. n - 1
  <2> HIDE DEF r1
  <2> QED
    BY <1>1, BufIs
<1>4. ASSUME NEW i \in 1 .. c PROVE Cell(h, i, n) # Cell(h, c + 1, n)
  <2>1. h + i - 1 < h + (c + 1) - 1 /\ h + (c + 1) - 1 - n < h + i - 1 /\ h + i - 1 \in Int
        /\ h + (c + 1) - 1 \in Int
    OBVIOUS
  <2> DEFINE x == h + i - 1
             y == h + (c + 1) - 1
  <2> HIDE DEF x, y
  <2>2. x < y /\ y - n < x /\ x \in Int /\ y \in Int
    BY <2>1 DEF x, y
  <2>3. Cell(h, i, n) = (IF x < n THEN x ELSE x - n) /\ Cell(h, c + 1, n) = IF y < n THEN y ELSE y - n
    BY DEF Cell, x, y
  <2> QED
    BY <2>2, <2>3
<1>5. \A i \in 1 .. c : r1[Cell(h, i, n)] = r[Cell(h, i, n)]
  BY <1>3, <1>4
<1>6. r1[Cell(h, c + 1, n)] = d
  <2>1. c + 1 \in 1 .. c + 1
    OBVIOUS
  <2>2. Cell(h, c + 1, n) \in 0 .. n - 1
    BY <1>3, <2>1
  <2> QED
    BY <2>2
<1> HIDE DEF A, B, r1
<1>7. M \in Seq(Data) /\ Len(M) = c + 1 /\ M[c + 1] = d /\ \A i \in 1 .. c : M[i] = A[i]
  BY <1>2, AppendProperties
<1> HIDE DEF M
<1>8. ASSUME NEW i \in 1 .. Len(B) PROVE B[i] = M[i]
  <2>1. i \in 1 .. c \/ i = c + 1
    BY <1>3
  <2>2. i \in 1 .. c + 1
    BY <1>3
  <2>3. CASE i \in 1 .. c
    BY <1>2, <1>3, <1>5, <1>7, <2>2, <2>3
  <2>4. CASE i = c + 1
    BY <1>3, <1>6, <1>7, <2>2, <2>4
  <2> QED
    BY <2>1, <2>3, <2>4
<1>9. B = M
  BY <1>3, <1>7, <1>8, SeqEqual
<1> QED
  BY <1>9 DEF A, B, M, r1

(* The first message is taken. *)
LEMMA BufTake ==
  ASSUME NEW n \in Nat, NEW c \in 1 .. n, NEW h \in 0 .. n - 1, NEW r \in [0 .. n - 1 -> Data]
  PROVE  /\ BufOf(r, h, c, n) # << >> /\ BufOf(r, h, c, n)[1] = r[h]
         /\ BufOf(r, Following(h, n), c - 1, n) = Tail(BufOf(r, h, c, n))
<1> DEFINE g == Following(h, n)
           A == BufOf(r, h, c, n)
           B == BufOf(r, g, c - 1, n)
<1>1. c \in 0 .. n /\ c - 1 \in 0 .. n /\ g \in 0 .. n - 1
  BY DEF Following
<1>2. A \in Seq(Data) /\ Len(A) = c /\ \A i \in 1 .. c : A[i] = r[Cell(h, i, n)]
  BY <1>1, BufIs
<1>3. \A i \in 1 .. c - 1 : Cell(g, i, n) = Cell(h, i + 1, n)
  BY DEF Cell, Following
<1> HIDE DEF g
<1>4. B \in Seq(Data) /\ Len(B) = c - 1 /\ \A i \in 1 .. c - 1 : B[i] = r[Cell(g, i, n)]
  BY <1>1, BufIs
<1> HIDE DEF A, B
<1>5. A # << >>
  BY <1>2, EmptySeq
<1>6. A[1] = r[h]
  <2>1. 1 \in 1 .. c /\ Cell(h, 1, n) = h
    BY DEF Cell
  <2> QED
    BY <1>2, <2>1
<1>7. /\ Tail(A) \in Seq(Data) /\ Len(Tail(A)) = c - 1
      /\ \A i \in 1 .. c - 1 : Tail(A)[i] = A[i + 1]
  BY <1>2, <1>5, HeadTailProperties
<1>8. ASSUME NEW i \in 1 .. Len(B) PROVE B[i] = Tail(A)[i]
  <2>1. i \in 1 .. c - 1 /\ i + 1 \in 1 .. c
    BY <1>4
  <2> QED
    BY <1>2, <1>3, <1>4, <1>7, <2>1
<1>9. B = Tail(A)
  BY <1>4, <1>7, <1>8, SeqEqual
<1> QED
  BY <1>5, <1>6, <1>9 DEF A, B, g

(* In a full ring, the first message is replaced by one behind the last.  *)
LEMMA BufTurn ==
  ASSUME NEW n \in Nat \ {0}, NEW h \in 0 .. n - 1, NEW r \in [0 .. n - 1 -> Data], NEW d \in Data
  PROVE  BufOf([r EXCEPT ![h] = d], Following(h, n), n, n) = Append(Tail(BufOf(r, h, n, n)), d)
<1> DEFINE g == Following(h, n)
<1>1. g \in 0 .. n - 1 /\ Cell(g, n, n) = h /\ n - 1 \in 0 .. n /\ n - 1 < n /\ n \in 1 .. n /\ (n - 1) + 1 = n
  BY DEF Following, Cell
<1>2. BufOf(r, g, n - 1, n) = Tail(BufOf(r, h, n, n))
  BY <1>1, BufTake
<1> HIDE DEF g
<1>3. BufOf([r EXCEPT ![Cell(g, (n - 1) + 1, n)] = d], g, (n - 1) + 1, n)
        = Append(BufOf(r, g, n - 1, n), d)
  BY <1>1, BufPut
<1>4. BufOf([r EXCEPT ![h] = d], g, n, n) = Append(BufOf(r, g, n - 1, n), d)
  BY <1>1, <1>3
<1> QED
  BY <1>2, <1>4 DEF g

(* The messages of a wait queue: one joins; the first one, or any other,   *)
(* leaves.                                                                 *)
LEMMA OffIs ==
  ASSUME NEW q \in Seq(Task), NEW off \in [Task -> Data]
  PROVE  /\ OffOf(q, off) \in Seq(Data) /\ Len(OffOf(q, off)) = Len(q)
         /\ \A i \in 1 .. Len(q) : OffOf(q, off)[i] = off[q[i]]
         /\ OffOf(q, off) = << >> <=> q = << >>
<1> DEFINE b == OffOf(q, off)
<1>1. Len(q) \in Nat /\ DOMAIN q = 1 .. Len(q)
  BY LenProperties
<1>2. \A i \in 1 .. Len(q) : b[i] = off[q[i]] /\ q[i] \in Task
  BY <1>1, ElementOfSeq DEF OffOf
<1>3. DOMAIN b = 1 .. Len(q) /\ b = [i \in DOMAIN b |-> b[i]]
  BY <1>1 DEF OffOf
<1> HIDE DEF b
<1>4. b \in [1 .. Len(q) -> Data]
  BY <1>2, <1>3
<1>5. b \in Seq(Data) /\ Len(b) = Len(q)
  BY <1>1, <1>4, FunctionSeq
<1>6. b = << >> <=> q = << >>
  BY <1>5, EmptySeq
<1> QED
  BY <1>2, <1>5, <1>6 DEF b

(* One task and its message join. *)
LEMMA OffAppend ==
  ASSUME NEW q \in Seq(Task), NEW off \in [Task -> Data], NEW t \in Task, NEW d \in Data,
         t \notin Members(q)
  PROVE  OffOf(Append(q, t), [off EXCEPT ![t] = d]) = Append(OffOf(q, off), d)
<1> DEFINE q1 == Append(q, t)
           o1 == [off EXCEPT ![t] = d]
           A == OffOf(q1, o1)
           B == OffOf(q, off)
<1>1. /\ q1 \in Seq(Task) /\ Len(q1) = Len(q) + 1 /\ q1[Len(q) + 1] = t
      /\ \A i \in 1 .. Len(q) : q1[i] = q[i]
  BY AppendProperties
<1>2. Len(q) \in Nat /\ DOMAIN q = 1 .. Len(q) /\ \A i \in 1 .. Len(q) : q[i] \in Task /\ q[i] # t
  BY LenProperties, ElementOfSeq DEF Members
<1>3. o1 \in [Task -> Data] /\ o1[t] = d /\ \A u \in Task : u # t => o1[u] = off[u]
  OBVIOUS
<1> HIDE DEF o1, q1
<1>4. A \in Seq(Data) /\ Len(A) = Len(q) + 1 /\ \A i \in 1 .. Len(q) + 1 : A[i] = o1[q1[i]]
  BY <1>1, <1>3, OffIs
<1>5. B \in Seq(Data) /\ Len(B) = Len(q) /\ \A i \in 1 .. Len(q) : B[i] = off[q[i]]
  BY OffIs
<1> HIDE DEF A, B
<1>6. /\ Append(B, d) \in Seq(Data) /\ Len(Append(B, d)) = Len(q) + 1
      /\ Append(B, d)[Len(q) + 1] = d /\ \A i \in 1 .. Len(q) : Append(B, d)[i] = B[i]
  BY <1>5, AppendProperties
<1>7. ASSUME NEW i \in 1 .. Len(A) PROVE A[i] = Append(B, d)[i]
  <2>1. i \in 1 .. Len(q) + 1 /\ (i \in 1 .. Len(q) \/ i = Len(q) + 1)
    BY <1>2, <1>4
  <2>2. CASE i \in 1 .. Len(q)
    BY <1>1, <1>2, <1>3, <1>4, <1>5, <1>6, <2>1, <2>2
  <2>3. CASE i = Len(q) + 1
    BY <1>1, <1>3, <1>4, <1>6, <2>1, <2>3
  <2> QED
    BY <2>1, <2>2, <2>3
<1>8. A = Append(B, d)
  BY <1>4, <1>6, <1>7, SeqEqual
<1> QED
  BY <1>8 DEF A, B, q1, o1

(* The first task, or the i-th, leaves with its message. *)
LEMMA OffLeave ==
  ASSUME NEW q \in Seq(Task), NEW off \in [Task -> Data], q # << >>
  PROVE  /\ OffOf(Tail(q), off) = Tail(OffOf(q, off)) /\ OffOf(q, off)[1] = off[Head(q)]
         /\ \A i \in 1 .. Len(q) : OffOf(RemoveAt(q, i), off) = RemoveAt(OffOf(q, off), i)
<1> DEFINE B == OffOf(q, off)
<1>1. Len(q) \in Nat \ {0} /\ Head(q) = q[1]
  BY LenProperties, EmptySeq
<1>2. /\ B \in Seq(Data) /\ Len(B) = Len(q) /\ B # << >>
      /\ \A i \in 1 .. Len(q) : B[i] = off[q[i]]
  BY OffIs
<1> HIDE DEF B
<1>3. /\ Tail(q) \in Seq(Task) /\ Len(Tail(q)) = Len(q) - 1
      /\ \A i \in 1 .. Len(q) - 1 : Tail(q)[i] = q[i + 1]
  BY HeadTailProperties
<1>4. /\ Tail(B) \in Seq(Data) /\ Len(Tail(B)) = Len(q) - 1
      /\ \A i \in 1 .. Len(q) - 1 : Tail(B)[i] = B[i + 1]
  BY <1>2, HeadTailProperties
<1>5. OffOf(Tail(q), off) = Tail(B)
  <2> DEFINE A == OffOf(Tail(q), off)
  <2>1. A \in Seq(Data) /\ Len(A) = Len(q) - 1 /\ \A i \in 1 .. Len(q) - 1 : A[i] = off[Tail(q)[i]]
    BY <1>3, OffIs
  <2> HIDE DEF A
  <2>2. ASSUME NEW i \in 1 .. Len(A) PROVE A[i] = Tail(B)[i]
    <3>1. i \in 1 .. Len(q) - 1 /\ i + 1 \in 1 .. Len(q)
      BY <1>1, <2>1
    <3> QED
      BY <1>2, <1>3, <1>4, <2>1, <3>1
  <2>3. A = Tail(B)
    BY <1>4, <2>1, <2>2, SeqEqual
  <2> QED
    BY <2>3 DEF A
<1>6. ASSUME NEW i \in 1 .. Len(q) PROVE OffOf(RemoveAt(q, i), off) = RemoveAt(B, i)
  <2> DEFINE p == RemoveAt(q, i)
             A == OffOf(p, off)
             R == RemoveAt(B, i)
  <2>1. /\ p \in Seq(Task) /\ Len(p) = Len(q) - 1
        /\ \A j \in 1 .. Len(q) - 1 : p[j] = IF j < i THEN q[j] ELSE q[j + 1]
    BY RemoveAtSeq
  <2>2. /\ R \in Seq(Data) /\ Len(R) = Len(q) - 1
        /\ \A j \in 1 .. Len(q) - 1 : R[j] = IF j < i THEN B[j] ELSE B[j + 1]
    BY <1>2, RemoveAtSeq
  <2> HIDE DEF p
  <2>3. A \in Seq(Data) /\ Len(A) = Len(q) - 1 /\ \A j \in 1 .. Len(q) - 1 : A[j] = off[p[j]]
    BY <2>1, OffIs
  <2> HIDE DEF A, R
  <2>4. ASSUME NEW j \in 1 .. Len(A) PROVE A[j] = R[j]
    <3>1. j \in 1 .. Len(q) - 1 /\ j \in 1 .. Len(q) /\ j + 1 \in 1 .. Len(q)
      BY <1>1, <2>3
    <3>2. A[j] = off[p[j]] /\ B[j] = off[q[j]] /\ B[j + 1] = off[q[j + 1]]
      BY <1>2, <2>3, <3>1
    <3>3. CASE j < i
      BY <2>1, <2>2, <3>1, <3>2, <3>3
    <3>4. CASE ~(j < i)
      BY <2>1, <2>2, <3>1, <3>2, <3>4
    <3> QED
      BY <3>3, <3>4
  <2>5. A = R
    BY <2>2, <2>3, <2>4, SeqEqual
  <2> QED
    BY <2>5 DEF A, R, p
<1>7. B[1] = off[Head(q)]
  <2>1. 1 \in 1 .. Len(q)
    BY <1>1
  <2> QED
    BY <1>1, <1>2, <2>1
<1> QED
  BY <1>5, <1>6, <1>7 DEF B

(* Who leaves a queue he is in leaves some place of it. *)
LEMMA DeleteIs ==
  ASSUME NEW q \in Seq(Task), NEW t \in Members(q)
  PROVE  \E i \in 1 .. Len(q) : queue_delete(q, t) = RemoveAt(q, i)
<1> DEFINE I == {i \in 1 .. Len(q) : q[i] = t}
           i == SelectInSeq(q, LAMBDA v : v = t)
<1>1. Len(q) \in Nat /\ DOMAIN q = 1 .. Len(q)
  BY LenProperties
<1>2. I # {}
  BY <1>1 DEF Members
<1>3. I \subseteq Nat
  OBVIOUS
<1>4. \E m \in I : \A n \in I : m <= n
  BY <1>2, <1>3, LeastNatural
<1>5. i \in 1 .. Len(q)
  BY <1>2, <1>4 DEF SelectInSeq, Min
<1>6. queue_delete(q, t) = RemoveAt(q, i)
  BY <1>2 DEF queue_delete, RemoveFirst
<1> QED
  BY <1>5, <1>6
(* The last part of it, for one message. *)
LEMMA LineForced ==
  ASSUME NEW S, NEW A \in Seq(S), NEW B \in Seq(S), A # << >>, NEW d \in S
  PROVE  Tail(InsertAt(A \o B, Len(A) + 1, d)) = Append(Tail(A), d) \o B
  BY LineMoves

(* What the refinement needs besides: the messages are messages. *)
ChanIInv ==
  /\ DtqIInv
  /\ ring \in [0 .. dtqcnt - 1 -> Data]
  /\ offer \in [Task -> Data]

(* The state of the channel, by its parts. *)
LEMMA LineIs ==
  ASSUME ChanIInv
  PROVE  /\ dtqcnt \in Nat /\ count \in 0 .. dtqcnt
         /\ dtqcnt > 0 => /\ head \in 0 .. dtqcnt - 1
                          /\ tail = Cell(head, count + 1, dtqcnt)
         /\ buffered = BufOf(ring, head, count, dtqcnt)
         /\ buffered \in Seq(Data) /\ Len(buffered) = count
         /\ k.wait_queue[swait_queue] \in Seq(Task) /\ k.wait_queue[rwait_queue] \in Seq(Task)
         /\ offered = OffOf(k.wait_queue[swait_queue], offer)
         /\ offered \in Seq(Data) /\ Len(offered) = Len(k.wait_queue[swait_queue])
         /\ offered = << >> <=> k.wait_queue[swait_queue] = << >>
         /\ buffered \o offered \in Seq(Data)
         /\ Len(buffered \o offered) = count + Len(k.wait_queue[swait_queue])
<1> DEFINE n == dtqcnt
<1>1. /\ n \in Nat /\ count \in 0 .. n
      /\ n > 0 => /\ head \in 0 .. n - 1
                  /\ tail = IF head + count < n THEN head + count ELSE head + count - n
      /\ ring \in [0 .. n - 1 -> Data] /\ offer \in [Task -> Data]
  BY DEF ChanIInv, DtqIInv, RingInv
<1>2. k.wait_queue[swait_queue] \in Seq(Task) /\ k.wait_queue[rwait_queue] \in Seq(Task)
  BY QueuesKnown DEF ChanIInv, DtqIInv, KernelInvs, TypeInv, TypeOK, Tables
<1>3. buffered = BufOf(ring, head, count, n)
  BY DEF buffered, BufOf
<1>4. offered = OffOf(k.wait_queue[swait_queue], offer)
  BY DEF offered, OffOf
<1> HIDE DEF n
<1>5. n > 0 => tail = Cell(head, count + 1, n)
  BY <1>1 DEF Cell
<1>6. buffered \in Seq(Data) /\ Len(buffered) = count
  BY <1>1, <1>3, BufIs
<1>7. /\ offered \in Seq(Data) /\ Len(offered) = Len(k.wait_queue[swait_queue])
      /\ offered = << >> <=> k.wait_queue[swait_queue] = << >>
  BY <1>1, <1>2, <1>4, OffIs
<1>8. /\ buffered \o offered \in Seq(Data)
      /\ Len(buffered \o offered) = count + Len(k.wait_queue[swait_queue])
  <2>1. /\ buffered \o offered \in Seq(Data)
        /\ Len(buffered \o offered) = Len(buffered) + Len(offered)
    <3>1. buffered \in Seq(Data) /\ offered \in Seq(Data)
      BY <1>6, <1>7
    <3> QED
      BY <3>1, ConcatProperties
  <2> QED
    BY <1>6, <1>7, <2>1, Zenon
<1> QED
  BY <1>1, <1>2, <1>3, <1>4, <1>5, <1>6, <1>7, <1>8 DEF n

(* Parts of the line a step leaves alone. *)
LEMMA LineKept ==
  /\ UNCHANGED ringvars => buffered' = buffered /\ dtqcnt' = dtqcnt
  /\ UNCHANGED offer /\ k'.wait_queue[swait_queue] = k.wait_queue[swait_queue] => offered' = offered
  BY DEF ringvars, buffered, dtqcnt, offered

(* The first receiver gets the message. *)
LEMMA ChanHand ==
  ASSUME ChanIInv, NEW d \in Data,
         (TSKCTX /\ send_data_rwait(d, TaskCall)) \/ (INTCTX /\ send_data_rwait(d, IntCall))
  PROVE  C!Next /\ ring' \in [0 .. dtqcnt' - 1 -> Data] /\ offer' \in [Task -> Data]
<1> DEFINE o == rwait_queue
           t == Head(k.wait_queue[o])
           k2 == wait_complete([k EXCEPT !.wait_queue[o] = Tail(@)], t)
           disp == Disp(make_non_wait_ret(k, t))
<1>1. KernelInvs
  BY DEF ChanIInv, DtqIInv
<1>2. /\ k.wait_queue[o] # << >> /\ UNCHANGED ringvars /\ UNCHANGED offer
      /\ received' = <<t, d>>
      /\ (TSKCTX /\ TaskCall(k2, disp)) \/ (INTCTX /\ IntCall(k2, disp))
  BY DEF send_data_rwait
<1>3. k'.wait_queue = [k.wait_queue EXCEPT ![o] = Tail(@)]
  BY <1>1, <1>2, QueuesKnown, WakeHead
<1>4. k'.wait_queue[swait_queue] = k.wait_queue[swait_queue] /\ k'.wait_queue[o] = Tail(k.wait_queue[o])
  BY <1>1, <1>3, QueuesKnown
<1>5. buffered' = buffered /\ dtqcnt' = dtqcnt /\ offered' = offered
  BY <1>2, <1>4, LineKept
<1>6. C!Hand(d)
  BY <1>2, <1>4, <1>5 DEF C!Hand
<1>7. ring' = ring
  BY <1>2 DEF ringvars
<1> QED
  BY <1>2, <1>5, <1>6, <1>7 DEF C!Next, ChanIInv

(* The message goes into the ring. *)
LEMMA ChanPut ==
  ASSUME ChanIInv, NEW d \in Data,
         \/ TSKCTX /\ (enqueue_data(d, TaskCall) \/ force_enqueue_data(d, TaskCall))
         \/ INTCTX /\ (enqueue_data(d, IntCall) \/ force_enqueue_data(d, IntCall)),
         dtqcnt > 0
  PROVE  C!Next /\ ring' \in [0 .. dtqcnt' - 1 -> Data] /\ offer' \in [Task -> Data]
<1> DEFINE n == dtqcnt
           s == k.wait_queue[swait_queue]
<1>1. /\ KernelInvs /\ n \in Nat \ {0} /\ count \in 0 .. n /\ head \in 0 .. n - 1
      /\ tail = Cell(head, count + 1, n)
      /\ ring \in [0 .. n - 1 -> Data] /\ offer \in [Task -> Data]
      /\ s # << >> => count = n
  BY LineIs DEF ChanIInv, DtqIInv, QueueInv
<1>2. /\ (TSKCTX /\ TaskCall(k, FALSE)) \/ (INTCTX /\ IntCall(k, FALSE))
      /\ k.wait_queue[rwait_queue] = << >> /\ ring' = [ring EXCEPT ![tail] = d]
      /\ tail' = next(tail) /\ UNCHANGED <<offer, received>>
      /\ \/ count < n /\ count' = count + 1 /\ UNCHANGED head
         \/ ~(count < n) /\ count' = count /\ head' = next(tail)
  BY DEF enqueue_data, force_enqueue_data, no_receiver
<1>3. k' = k
  BY <1>1, <1>2, CallNothing
<1>4. dtqcnt' = n
  BY <1>2, CapacityKept
<1>5. next(tail) = Following(tail, n)
  BY DEF next, Following
<1>6. /\ buffered = BufOf(ring, head, count, n) /\ buffered \in Seq(Data) /\ Len(buffered) = count
      /\ offered \in Seq(Data) /\ (offered = << >> <=> s = << >>)
      /\ s \in Seq(Task) /\ Len(buffered \o offered) = count + Len(s)
  BY LineIs
<1>7. offered' = offered
  BY <1>2, <1>3, LineKept
<1>8. buffered' = BufOf(ring', head', count', dtqcnt')
  BY DEF buffered, BufOf
<1>9. ring' \in [0 .. n - 1 -> Data]
  BY <1>1, <1>2
<1> HIDE DEF n, s
<1>10. CASE count < n
  <2>1. s = << >> /\ offered = << >> /\ Len(s) = 0
    BY <1>1, <1>6, <1>10, EmptySeq
  <2>2. buffered' = Append(buffered, d)
    <3>1. BufOf([ring EXCEPT ![Cell(head, count + 1, n)] = d], head, count + 1, n)
            = Append(BufOf(ring, head, count, n), d)
      BY <1>1, <1>10, BufPut
    <3>2. count' = count + 1 /\ head' = head
      BY <1>2, <1>10
    <3> QED
      BY <1>1, <1>2, <1>4, <1>6, <1>8, <3>1, <3>2, Zenon
  <2>3. (buffered \o offered)' = Append(buffered \o offered, d)
    BY <1>6, <1>7, <2>1, <2>2, LineJoins
  <2>4. Len(buffered \o offered) < n
    BY <1>1, <1>6, <1>10, <2>1
  <2>5. C!Accept(d)
    BY <1>2, <1>3, <2>3, <2>4 DEF C!Accept, n
  <2> QED
    BY <1>1, <1>2, <1>4, <1>9, <2>5 DEF C!Next, n
<1>11. CASE ~(count < n)
  <2>1. count = n /\ count' = n /\ head' = Following(tail, n) /\ tail = head
    BY <1>1, <1>2, <1>5, <1>11 DEF Cell
  <2>2. buffered # << >>
    BY <1>1, <1>6, <2>1, EmptySeq
  <2>3. buffered' = Append(Tail(buffered), d)
    <3>1. BufOf([ring EXCEPT ![head] = d], Following(head, n), n, n)
            = Append(Tail(BufOf(ring, head, n, n)), d)
      BY <1>1, BufTurn
    <3> QED
      BY <1>1, <1>2, <1>4, <1>6, <1>8, <2>1, <3>1, Zenon
  <2>4. (buffered \o offered)' = Tail(InsertAt(buffered \o offered, n + 1, d))
    <3>1. Tail(InsertAt(buffered \o offered, Len(buffered) + 1, d)) = Append(Tail(buffered), d) \o offered
      <4> DEFINE A == buffered
                 B == offered
      <4>1. A \in Seq(Data) /\ B \in Seq(Data) /\ A # << >>
        BY <1>6, <2>2
      <4> HIDE DEF A, B
      <4>2. \A e \in Data : Tail(InsertAt(A \o B, Len(A) + 1, e)) = Append(Tail(A), e) \o B
        BY <4>1, LineForced, Zenon
      <4>3. Tail(InsertAt(A \o B, Len(A) + 1, d)) = Append(Tail(A), d) \o B
        BY <4>2
      <4> QED
        BY <4>3 DEF A, B
    <3> QED
      BY <1>6, <1>7, <2>1, <2>3, <3>1, Zenon
  <2>5. Len(buffered \o offered) >= n /\ n > 0
    <3>1. Len(s) \in Nat
      BY <1>6, LenProperties
    <3> QED
      BY <1>1, <1>6, <2>1, <3>1
  <2>6. C!Force(d)
    <3>1. /\ k'.wait_queue[swait_queue] = k.wait_queue[swait_queue]
          /\ k'.wait_queue[rwait_queue] = k.wait_queue[rwait_queue]
          /\ k.wait_queue[rwait_queue] = << >> /\ received' = received
      BY <1>2, <1>3
    <3> QED
      BY ONLY <2>4, <2>5, <3>1 DEF C!Force, n, C!InsertAt, InsertAt
  <2> QED
    BY <1>1, <1>2, <1>4, <1>9, <2>6 DEF C!Next, n
<1> QED
  BY <1>10, <1>11

(* psnd_dtq, ipsnd_dtq, fsnd_dtq and ifsnd_dtq. *)
LEMMA ChanSend ==
  ASSUME ChanIInv, NEW d \in Data,
         \/ TSKCTX /\ (psnd(d, TaskCall) \/ fsnd(d, TaskCall))
         \/ INTCTX /\ (psnd(d, IntCall) \/ fsnd(d, IntCall))
  PROVE  C!Next /\ ring' \in [0 .. dtqcnt' - 1 -> Data] /\ offer' \in [Task -> Data]
<1>1. CASE (TSKCTX /\ send_data_rwait(d, TaskCall)) \/ (INTCTX /\ send_data_rwait(d, IntCall))
  BY <1>1, ChanHand
<1>2. dtqcnt \in Nat /\ count \in 0 .. dtqcnt
  BY LineIs
<1>3. CASE (TSKCTX /\ enqueue_data(d, TaskCall)) \/ (INTCTX /\ enqueue_data(d, IntCall))
  <2>1. count < dtqcnt
    BY <1>3 DEF enqueue_data
  <2>2. dtqcnt > 0
    BY <1>2, <2>1
  <2> QED
    BY <1>3, <2>2, ChanPut
<1>4. CASE /\ dtqcnt > 0
           /\ \/ TSKCTX /\ force_enqueue_data(d, TaskCall)
              \/ INTCTX /\ force_enqueue_data(d, IntCall)
  BY <1>4, ChanPut
<1> QED
  BY <1>1, <1>3, <1>4 DEF psnd, fsnd
(* The first parts of it. *)
LEMMA LineTaken ==
  ASSUME NEW S, NEW A \in Seq(S), NEW B \in Seq(S), A # << >>
  PROVE  A \o B # << >> /\ Head(A \o B) = A[1] /\ Tail(A \o B) = Tail(A) \o B
  BY LineMoves

(* The same. *)
LEMMA LineFilled ==
  ASSUME NEW S, NEW A \in Seq(S), NEW B \in Seq(S), A # << >>, B # << >>
  PROVE  Tail(A \o B) = Append(Tail(A), B[1]) \o Tail(B)
  BY LineMoves

(* A sender blocks. *)
LEMMA ChanOffer ==
  ASSUME ChanIInv, swait_queue \notin TA_TPRI, CAN_WAIT,
         NEW d \in Data, NEW tm \in {"none", "wait_tmout"},
         no_receiver, count >= dtqcnt, offer' = [offer EXCEPT ![runtsk] = d],
         TaskCall(wobj_make_wait_tmout(k, runtsk, swait_queue, tm), TRUE),
         UNCHANGED <<ringvars, received>>
  PROVE  C!Next /\ ring' \in [0 .. dtqcnt' - 1 -> Data] /\ offer' \in [Task -> Data]
<1> DEFINE s == k.wait_queue[swait_queue]
<1>1. KernelInvs /\ ring \in [0 .. dtqcnt - 1 -> Data] /\ offer \in [Task -> Data]
  BY DEF ChanIInv, DtqIInv
<1>2. k'.wait_queue = [k.wait_queue EXCEPT ![swait_queue] = Append(s, runtsk)]
  BY <1>1, QueuesKnown, WaitOnObject
<1>3. k'.wait_queue[swait_queue] = Append(s, runtsk) /\ k'.wait_queue[rwait_queue] = k.wait_queue[rwait_queue]
  BY <1>1, <1>2, QueuesKnown
<1>4. PICK t \in Task : t = runtsk
  BY DEF ChanIInv, DtqIInv, KernelInvs, TypeInv, TypeOK, CAN_WAIT, TSKCTX_UNL, TSKCTX
<1>5. t \notin Members(s)
  <2>1. runtsk # NULL
    BY DEF CAN_WAIT, TSKCTX_UNL, TSKCTX
  <2>2. k.tcb[t].wobj = NULL
    BY <1>1, <1>4, <2>1, RunningWaits
  <2>3. Members(s) = {u \in Task : k.tcb[u].wobj = swait_queue}
    BY <1>1, QueuesKnown, WaitsFor DEF Holds
  <2>4. swait_queue # NULL
    BY <1>1, QueuesKnown, WObjAssumption
  <2> QED
    BY <2>2, <2>3, <2>4
<1>6. buffered' = buffered /\ dtqcnt' = dtqcnt
  BY LineKept
<1>7. /\ s \in Seq(Task) /\ offered = OffOf(s, offer) /\ buffered \in Seq(Data) /\ offered \in Seq(Data)
      /\ Len(buffered \o offered) = count + Len(s) /\ count \in Nat /\ Len(s) \in Nat /\ dtqcnt \in Nat
  BY LineIs, LenProperties
<1>8. offered' = OffOf(k'.wait_queue[swait_queue], offer')
  BY DEF offered, OffOf
<1> HIDE DEF s
<1>9. offered' = Append(offered, d)
  <2>1. OffOf(Append(s, t), [offer EXCEPT ![t] = d]) = Append(OffOf(s, offer), d)
    BY <1>1, <1>5, <1>7, OffAppend
  <2> QED
    BY <1>3, <1>4, <1>7, <1>8, <2>1, Zenon
<1>10. (buffered \o offered)' = Append(buffered \o offered, d)
  <2>1. buffered \o Append(offered, d) = Append(buffered \o offered, d)
    BY <1>7, LineJoins
  <2> QED
    BY <1>6, <1>9, <2>1, Zenon
<1>11. Len(buffered \o offered) >= dtqcnt
  BY <1>7
<1>12. C!Offer(t, d)
  BY <1>3, <1>4, <1>10, <1>11, Zenon DEF C!Offer, no_receiver, s
<1>13. ring' = ring
  BY DEF ringvars
<1> QED
  BY <1>1, <1>4, <1>6, <1>12, <1>13 DEF C!Next

(* A receiver blocks. *)
LEMMA ChanAwait ==
  ASSUME ChanIInv, CAN_WAIT, NEW tm \in {"none", "wait_tmout"},
         count = 0, k.wait_queue[swait_queue] = << >>, UNCHANGED dtqvars,
         LET k1 == make_wait_tmout(k, runtsk, TS_RECEIVING, tm)
             k2 == [k1 EXCEPT !.wait_queue[rwait_queue] = queue_insert_prev(@, runtsk)]
         IN TaskCall([k2 EXCEPT !.tcb[runtsk].wobj = rwait_queue], TRUE)
  PROVE  C!Next /\ ring' \in [0 .. dtqcnt' - 1 -> Data] /\ offer' \in [Task -> Data]
<1> DEFINE o == rwait_queue
           k1 == make_wait_tmout(k, runtsk, TS_RECEIVING, tm)
           q == queue_insert_prev(k1.wait_queue[o], runtsk)
           k2 == [k1 EXCEPT !.wait_queue[o] = q]
<1>0. CAN_WAIT /\ tm \in {"none", "wait_tmout"}
  OBVIOUS
<1>1. KernelInvs /\ ring \in [0 .. dtqcnt - 1 -> Data] /\ offer \in [Task -> Data]
  BY DEF ChanIInv, DtqIInv
<1>2. TaskCall([k2 EXCEPT !.tcb[runtsk].wobj = o], TRUE)
  OBVIOUS
<1>3. PICK t \in Task : t = runtsk
  BY DEF ChanIInv, DtqIInv, KernelInvs, TypeInv, TypeOK, CAN_WAIT, TSKCTX_UNL, TSKCTX
<1>4. ASSUME k1.wait_queue = k.wait_queue,
             NEW S, Holds(k.wait_queue[o], S), runtsk \notin S
      PROVE  Holds(q, S \cup {runtsk})
  BY <1>3, <1>4, AppendHolds DEF queue_insert_prev
<1>5. /\ TS_RECEIVING \in {{"WAITING", "WOBJ", "WOBJCB"}, {"WAITING", "WOBJ"}}
      /\ o \in WObj /\ o \notin TA_TPRI
  BY <1>1, QueuesKnown DEF TS_RECEIVING
<1>6. k1.wait_queue = k.wait_queue
  <2>1. "wait_queue" \in DOMAIN k
    BY <1>1 DEF KernelInvs, TypeInv, TypeOK, Tables
  <2>2. Kept(make_wait_tmout(k, runtsk, TS_RECEIVING, tm), k)
    BY <2>1, RoutinesKeep
  <2> QED
    BY <2>2 DEF Kept
<1> HIDE DEF q, o
<1>7. KernelInvs' /\ k'.wait_queue = [k.wait_queue EXCEPT ![o] = q]
  BY ONLY <1>0, <1>1, <1>2, <1>4, <1>5, WaitOn
<1>8. q = Append(k.wait_queue[o], t)
  BY <1>3, <1>6 DEF q, queue_insert_prev
<1>9. /\ k'.wait_queue[swait_queue] = k.wait_queue[swait_queue]
      /\ k'.wait_queue[o] = Append(k.wait_queue[o], t)
  BY <1>1, <1>5, <1>7, <1>8, QueuesKnown DEF o
<1>10. buffered' = buffered /\ dtqcnt' = dtqcnt /\ offered' = offered
       /\ received' = received /\ ring' = ring /\ offer' = offer
  <2>1. UNCHANGED ringvars /\ UNCHANGED offer /\ received' = received /\ ring' = ring
    BY DEF dtqvars, ringvars
  <2> QED
    BY <1>9, <2>1, LineKept
<1>11. buffered \o offered = << >>
  <2>1. buffered \o offered \in Seq(Data) /\ Len(buffered \o offered) = count + Len(k.wait_queue[swait_queue])
    BY LineIs
  <2>2. Len(buffered \o offered) = 0
    BY <2>1, EmptySeq
  <2> QED
    BY <2>1, <2>2, EmptySeq
<1>12. C!Await(t)
  BY <1>9, <1>10, <1>11, Zenon DEF C!Await, o
<1> QED
  BY <1>1, <1>10, <1>12 DEF C!Next

(* A message is received. *)
LEMMA ChanReceive ==
  ASSUME ChanIInv, TSKCTX, receive
  PROVE  C!Next /\ ring' \in [0 .. dtqcnt' - 1 -> Data] /\ offer' \in [Task -> Data]
<1> DEFINE n == dtqcnt
           s == k.wait_queue[swait_queue]
           L == buffered \o offered
<1>1. /\ KernelInvs /\ n \in Nat /\ count \in 0 .. n
      /\ ring \in [0 .. n - 1 -> Data] /\ offer \in [Task -> Data]
      /\ s # << >> => count = n
      /\ n > 0 => head \in 0 .. n - 1 /\ tail = Cell(head, count + 1, n)
  BY LineIs DEF ChanIInv, DtqIInv, QueueInv
<1>2. /\ buffered = BufOf(ring, head, count, n) /\ buffered \in Seq(Data) /\ Len(buffered) = count
      /\ offered = OffOf(s, offer) /\ offered \in Seq(Data) /\ s \in Seq(Task)
      /\ offered = << >> <=> s = << >>
  BY LineIs
<1>3. buffered' = BufOf(ring', head', count', dtqcnt') /\ offered' = OffOf(k'.wait_queue[swait_queue], offer')
  BY DEF buffered, BufOf, offered, OffOf
<1>4. \A i : next(i) = Following(i, n)
  BY DEF next, Following
<1>5. PICK t \in Task : t = runtsk
  BY <1>1 DEF KernelInvs, TypeInv, TypeOK, TSKCTX
<1>6. ASSUME s # << >>, complete_sender
      PROVE  /\ k'.wait_queue[swait_queue] = Tail(s)
             /\ k'.wait_queue[rwait_queue] = k.wait_queue[rwait_queue]
  <2>1. k'.wait_queue = [k.wait_queue EXCEPT ![swait_queue] = Tail(@)]
    BY <1>1, <1>6, QueuesKnown, WakeHead DEF complete_sender, sender
  <2> QED
    BY <1>1, <2>1, QueuesKnown
<1>7. ASSUME s # << >>
      PROVE  /\ OffOf(Tail(s), offer) = Tail(offered) /\ offered[1] = offer[sender]
             /\ sender \in Task /\ offered # << >>
  <2>1. sender \in Task /\ sender = Head(s)
    BY <1>2, <1>7, HeadTailProperties DEF sender
  <2> HIDE DEF s
  <2>2. OffOf(Tail(s), offer) = Tail(OffOf(s, offer)) /\ OffOf(s, offer)[1] = offer[Head(s)]
    BY <1>1, <1>2, <1>7, OffLeave
  <2> QED
    BY <1>2, <1>7, <2>1, <2>2, Zenon
<1>8. CASE dequeue_data
  <2>1. /\ count > 0 /\ received' = <<runtsk, ring[head]>> /\ head' = next(head) /\ offer' = offer
    BY <1>8 DEF dequeue_data
  <2>2. n \in Nat \ {0} /\ head \in 0 .. n - 1 /\ count \in 1 .. n /\ tail = Cell(head, count + 1, n)
    <3> HIDE DEF n
    <3> QED
      BY <1>1, <2>1
  <2>3. head' = Following(head, n)
    BY <1>4, <2>1
  <2>4. /\ buffered # << >> /\ buffered[1] = ring[head]
        /\ BufOf(ring, Following(head, n), count - 1, n) = Tail(buffered)
    <3> HIDE DEF n
    <3>1. /\ BufOf(ring, head, count, n) # << >> /\ BufOf(ring, head, count, n)[1] = ring[head]
          /\ BufOf(ring, Following(head, n), count - 1, n) = Tail(BufOf(ring, head, count, n))
      BY <1>1, <2>2, BufTake
    <3> QED
      BY <1>2, <3>1, Zenon
  <2>5. L # << >> /\ Head(L) = ring[head] /\ Tail(L) = Tail(buffered) \o offered
    <3>1. L # << >> /\ Head(L) = buffered[1] /\ Tail(L) = Tail(buffered) \o offered
      BY <1>2, <2>4, LineTaken, Zenon
    <3> QED
      BY <2>4, <3>1, Zenon
  <2>6. CASE s = << >>
    <3>1. count' = count - 1 /\ ring' = ring /\ TaskCall(k, FALSE)
      BY <1>8, <2>6 DEF dequeue_data
    <3>2. k' = k
      BY <1>1, <3>1, CallNothing
    <3>3. dtqcnt' = n /\ offered' = offered
      BY <2>1, <3>1, <3>2, LineKept DEF dtqcnt
    <3>4. buffered' = Tail(buffered)
      BY <1>3, <2>3, <2>4, <3>1, <3>3, Zenon
    <3>5. L' = Tail(L)
      BY <2>5, <3>3, <3>4, Zenon
    <3>6. C!Receive(t)
      <4>1. /\ k'.wait_queue[swait_queue] = IF s = << >> THEN << >> ELSE Tail(s)
            /\ k'.wait_queue[rwait_queue] = k.wait_queue[rwait_queue]
        BY <2>6, <3>2
      <4> QED
        BY <1>5, <2>1, <2>5, <3>5, <4>1, Zenon DEF C!Receive
    <3> QED
      BY <1>1, <1>5, <2>1, <3>1, <3>3, <3>6 DEF C!Next
  <2>7. CASE s # << >>
    <3>1. /\ ring' = [ring EXCEPT ![tail] = offer[sender]] /\ count' = count /\ complete_sender
      BY <1>8, <2>7 DEF dequeue_data
    <3>2. dtqcnt' = n
      BY <3>1, CapacityKept
    <3>3. count = n /\ tail = head
      <4>1. count = n
        BY <1>1, <2>7
      <4> HIDE DEF n
      <4> QED
        BY <2>2, <4>1 DEF Cell
    <3>4. offer[sender] \in Data /\ ring' \in [0 .. n - 1 -> Data]
      BY <1>1, <1>7, <2>7, <3>1
    <3>5. buffered' = Append(Tail(buffered), offered[1])
      <4> HIDE DEF n
      <4>1. BufOf([ring EXCEPT ![head] = offer[sender]], Following(head, n), n, n)
              = Append(Tail(BufOf(ring, head, n, n)), offer[sender])
        BY <1>1, <2>2, <3>4, BufTurn
      <4>2. offered[1] = offer[sender]
        BY <1>7, <2>7
      <4> QED
        BY <1>2, <1>3, <2>3, <3>1, <3>2, <3>3, <4>1, <4>2, Zenon
    <3>6. offered' = Tail(offered)
      BY <1>3, <1>6, <1>7, <2>1, <2>7, <3>1, Zenon
    <3>7. L' = Tail(L)
      <4>1. Tail(L) = Append(Tail(buffered), offered[1]) \o Tail(offered)
        BY <1>2, <1>7, <2>4, <2>7, LineFilled, Zenon
      <4> QED
        BY <3>5, <3>6, <4>1, Zenon
    <3>8. C!Receive(t)
      <4>1. /\ k'.wait_queue[swait_queue] = IF s = << >> THEN << >> ELSE Tail(s)
            /\ k'.wait_queue[rwait_queue] = k.wait_queue[rwait_queue]
        BY <1>6, <2>7, <3>1
      <4> QED
        BY <1>5, <2>1, <2>5, <3>7, <4>1, Zenon DEF C!Receive
    <3> QED
      BY <1>1, <1>5, <2>1, <3>2, <3>4, <3>8 DEF C!Next
  <2> QED
    BY <2>6, <2>7
<1>9. CASE receive_data_swait
  <2>1. /\ count = 0 /\ s # << >> /\ complete_sender /\ UNCHANGED ringvars /\ offer' = offer
        /\ received' = <<runtsk, offer[sender]>>
    BY <1>9 DEF receive_data_swait
  <2>2. buffered' = buffered /\ dtqcnt' = dtqcnt /\ ring' = ring
    BY <2>1, LineKept DEF ringvars
  <2>3. buffered = << >>
    BY <1>2, <2>1, EmptySeq
  <2>4. L = offered /\ L' = offered'
    <3>1. offered' \in Seq(Data)
      <4>1. k'.wait_queue[swait_queue] \in Seq(Task)
        BY <1>2, <1>6, <2>1, HeadTailProperties
      <4> QED
        BY <1>1, <1>3, <2>1, <4>1, OffIs
    <3>2. \A b \in Seq(Data) : << >> \o b = b
      BY ConcatEmptySeq
    <3> QED
      BY <1>2, <2>2, <2>3, <3>1, <3>2, Zenon
  <2>5. offered' = Tail(offered)
    BY <1>3, <1>6, <1>7, <2>1, Zenon
  <2>6. L # << >> /\ Head(L) = offer[sender] /\ L' = Tail(L)
    <3>1. offered # << >> /\ offered[1] = offer[sender]
      BY <1>7, <2>1
    <3>2. Head(offered) = offered[1]
      BY <1>2, <3>1, HeadTailProperties
    <3> QED
      BY <2>4, <2>5, <3>1, <3>2, Zenon
  <2>7. C!Receive(t)
    <3>1. /\ k'.wait_queue[swait_queue] = IF s = << >> THEN << >> ELSE Tail(s)
          /\ k'.wait_queue[rwait_queue] = k.wait_queue[rwait_queue]
      BY <1>6, <2>1
    <3> QED
      BY <1>5, <2>1, <2>6, <3>1, Zenon DEF C!Receive
  <2> QED
    BY <1>1, <1>5, <2>1, <2>2, <2>7 DEF C!Next
<1> QED
  BY <1>8, <1>9 DEF receive
(* A step of the kernel ends at most one wait, and then withdraws what it  *)
(* has in the line.                                                        *)
LEMMA ChanKernel ==
  ASSUME ChanIInv, swait_queue \notin TA_TPRI, [Next]_kvars, UNCHANGED dtqvars
  PROVE  [C!Next]_(C!cvars) /\ ring' \in [0 .. dtqcnt' - 1 -> Data] /\ offer' \in [Task -> Data]
<1> DEFINE s == k.wait_queue[swait_queue]
           r == k.wait_queue[rwait_queue]
<1>1. /\ KernelInvs /\ ring \in [0 .. dtqcnt - 1 -> Data] /\ offer \in [Task -> Data]
      /\ dtqcnt \in Nat /\ count \in 0 .. dtqcnt /\ (s # << >> => count = dtqcnt)
  BY LineIs DEF ChanIInv, DtqIInv, QueueInv
<1>2. UNCHANGED ringvars /\ offer' = offer /\ received' = received /\ ring' = ring
  BY DEF dtqvars, ringvars
<1>3. buffered' = buffered /\ dtqcnt' = dtqcnt
  BY <1>2, LineKept
<1>4. swait_queue \in WObj \ TA_TPRI /\ rwait_queue \in WObj \ TA_TPRI /\ swait_queue # rwait_queue
  BY <1>1, QueuesKnown
<1>5. offered' = OffOf(k'.wait_queue[swait_queue], offer')
  BY DEF offered, OffOf
<1>6. ASSUME k'.wait_queue[swait_queue] = s, k'.wait_queue[rwait_queue] = r
      PROVE  UNCHANGED C!cvars
  <2>1. offered' = offered
    BY <1>2, <1>6, LineKept
  <2> QED
    BY <1>2, <1>3, <1>6, <2>1, Zenon DEF C!cvars
<1>7. ASSUME NEW t \in Task, Without(k', k, t)
      PROVE  [C!Next]_(C!cvars)
  <2>1. /\ k'.wait_queue[swait_queue] = IF k.tcb[t].wobj = swait_queue THEN queue_delete(s, t) ELSE s
        /\ k'.wait_queue[rwait_queue] = IF k.tcb[t].wobj = rwait_queue THEN queue_delete(r, t) ELSE r
    BY <1>4, <1>7 DEF Without
  <2>2. /\ s \in Seq(Task) /\ Members(s) = {u \in Task : k.tcb[u].wobj = swait_queue}
        /\ r \in Seq(Task) /\ Members(r) = {u \in Task : k.tcb[u].wobj = rwait_queue}
        /\ Len(s) \in Nat /\ DOMAIN s = 1 .. Len(s) /\ DOMAIN r = 1 .. Len(r)
    BY <1>1, <1>4, WaitsFor, LenProperties DEF Holds
  <2>3. /\ offered = OffOf(s, offer) /\ buffered \in Seq(Data) /\ Len(buffered) = count
        /\ offered \in Seq(Data) /\ Len(offered) = Len(s)
    BY LineIs
  <2> HIDE DEF s, r
  <2>4. CASE k.tcb[t].wobj = swait_queue
    <3>1. t \in Members(s)
      BY <2>2, <2>4
    <3>2. PICK i \in 1 .. Len(s) : queue_delete(s, t) = RemoveAt(s, i)
      BY <2>2, <3>1, DeleteIs
    <3>3. k'.wait_queue[swait_queue] = RemoveAt(s, i) /\ k'.wait_queue[rwait_queue] = r
      BY <1>4, <2>1, <2>4, <3>2
    <3>4. s # << >> /\ count = dtqcnt
      <4>1. s # << >>
        BY <2>2, EmptySeq
      <4> QED
        BY <1>1, <4>1, Zenon
    <3>5. offered' = RemoveAt(offered, i)
      <4>1. OffOf(RemoveAt(s, i), offer) = RemoveAt(OffOf(s, offer), i)
        BY <1>1, <2>2, <3>4, OffLeave
      <4> QED
        BY <1>2, <1>5, <2>3, <3>3, <4>1, Zenon
    <3>6. (buffered \o offered)' = RemoveAt(buffered \o offered, dtqcnt + i)
      <4>1. i \in 1 .. Len(offered)
        BY <2>3
      <4>2. RemoveAt(buffered \o offered, Len(buffered) + i) = buffered \o RemoveAt(offered, i)
        BY <2>3, <4>1, LineGivesUp
      <4> QED
        BY <1>3, <2>3, <3>4, <3>5, <4>2, Zenon
    <3>7. i \in DOMAIN s
      BY <2>2
    <3>8. C!Withdraw(i)
      <4>1. /\ k'.wait_queue[swait_queue] = RemoveAt(k.wait_queue[swait_queue], i)
            /\ k'.wait_queue[rwait_queue] = k.wait_queue[rwait_queue]
            /\ i \in DOMAIN k.wait_queue[swait_queue]
        BY <3>3, <3>7 DEF s, r
      <4> QED
        BY ONLY <1>2, <3>6, <4>1 DEF C!Withdraw, C!RemoveAt, RemoveAt
    <3> QED
      BY <1>3, <3>7, <3>8 DEF C!Next, s
  <2>5. CASE k.tcb[t].wobj = rwait_queue
    <3>1. t \in Members(r)
      BY <2>2, <2>5
    <3>2. PICK i \in 1 .. Len(r) : queue_delete(r, t) = RemoveAt(r, i)
      BY <2>2, <3>1, DeleteIs
    <3>3. k'.wait_queue[rwait_queue] = RemoveAt(r, i) /\ k'.wait_queue[swait_queue] = s
      BY <1>4, <2>1, <2>5, <3>2
    <3>4. offered' = offered
      BY <1>2, <3>3, LineKept DEF s
    <3>5. C!GiveUp(i)
      <4>1. /\ k'.wait_queue[rwait_queue] = RemoveAt(k.wait_queue[rwait_queue], i)
            /\ k'.wait_queue[swait_queue] = k.wait_queue[swait_queue]
            /\ i \in DOMAIN k.wait_queue[rwait_queue]
        BY <2>2, <3>3 DEF s, r
      <4>2. (buffered \o offered)' = buffered \o offered
        BY <1>3, <3>4
      <4> QED
        BY ONLY <1>2, <4>1, <4>2 DEF C!GiveUp, C!RemoveAt, RemoveAt
    <3> QED
      BY <1>3, <2>2, <3>5 DEF C!Next, r
  <2>6. CASE k.tcb[t].wobj # swait_queue /\ k.tcb[t].wobj # rwait_queue
    BY <1>6, <2>1, <2>6
  <2> QED
    BY <2>4, <2>5, <2>6
<1>8. ASSUME Calm(k', k) \/ \E t \in Task : Sleeps(k', k, t)
      PROVE  UNCHANGED C!cvars
  BY <1>4, <1>6, <1>8 DEF Calm, Sleeps
<1>9. [C!Next]_(C!cvars)
  BY <1>1, <1>7, <1>8, NextWaits DEF Ends, Goes
<1> QED
  BY <1>1, <1>2, <1>3, <1>9

(* Every step is a step of the channel, or leaves it alone. *)
LEMMA ChanNext ==
  ASSUME swait_queue \notin TA_TPRI, ChanIInv, [DtqNext]_vars
  PROVE  ChanIInv' /\ [C!Next]_(C!cvars)
<1> DEFINE ChanMoves == [C!Next]_(C!cvars) /\ ring' \in [0 .. dtqcnt' - 1 -> Data] /\ offer' \in [Task -> Data]
<1>1. ASSUME prcv_dtq PROVE ChanMoves
  BY <1>1, ChanReceive DEF prcv_dtq, TSKCTX_UNL
<1>2. ASSUME NEW tm \in {"none", "wait_tmout"}, trcv_dtq(tm) PROVE ChanMoves
  <2>1. CAN_WAIT /\ TSKCTX
    BY <1>2 DEF trcv_dtq, CAN_WAIT, TSKCTX_UNL
  <2>2. CASE receive
    BY <2>1, <2>2, ChanReceive
  <2>3. CASE ~receive
    <3>1. /\ count = 0 /\ k.wait_queue[swait_queue] = << >> /\ UNCHANGED dtqvars
          /\ LET k1 == make_wait_tmout(k, runtsk, TS_RECEIVING, tm)
                 k2 == [k1 EXCEPT !.wait_queue[rwait_queue] = queue_insert_prev(@, runtsk)]
             IN TaskCall([k2 EXCEPT !.tcb[runtsk].wobj = rwait_queue], TRUE)
      BY <1>2, <2>3 DEF trcv_dtq
    <3> QED
      BY <2>1, <3>1, ChanAwait
  <2> QED
    BY <2>2, <2>3
<1>3. ASSUME NEW d \in Data,
             psnd_dtq(d) \/ ipsnd_dtq(d) \/ fsnd_dtq(d) \/ ifsnd_dtq(d)
      PROVE  ChanMoves
  <2>1. \/ TSKCTX /\ (psnd(d, TaskCall) \/ fsnd(d, TaskCall))
        \/ INTCTX /\ (psnd(d, IntCall) \/ fsnd(d, IntCall))
    BY <1>3 DEF psnd_dtq, ipsnd_dtq, fsnd_dtq, ifsnd_dtq, TSKCTX_UNL, INTCTX_UNL
  <2> QED
    BY <2>1, ChanSend
<1>4. ASSUME NEW d \in Data, NEW tm \in {"none", "wait_tmout"}, tsnd_dtq(d, tm)
      PROVE  ChanMoves
  <2>1. CAN_WAIT /\ TSKCTX
    BY <1>4 DEF tsnd_dtq, CAN_WAIT, TSKCTX_UNL
  <2>2. CASE psnd(d, TaskCall)
    BY <2>1, <2>2, ChanSend
  <2>3. CASE ~psnd(d, TaskCall)
    <3>1. /\ no_receiver /\ count >= dtqcnt /\ UNCHANGED <<ringvars, received>>
          /\ offer' = [offer EXCEPT ![runtsk] = d]
          /\ TaskCall(wobj_make_wait_tmout(k, runtsk, swait_queue, tm), TRUE)
      BY <1>4, <2>3 DEF tsnd_dtq
    <3> QED
      BY <2>1, <3>1, ChanOffer
  <2> QED
    BY <2>2, <2>3
<1>5. ASSUME [Next]_kvars, UNCHANGED dtqvars PROVE ChanMoves
  BY <1>5, ChanKernel
<1>6. ChanMoves
  BY <1>1, <1>2, <1>3, <1>4, <1>5 DEF DtqNext, DtqCalls, vars
<1>7. DtqIInv'
  BY DtqNextInv DEF ChanIInv
<1> QED
  BY <1>6, <1>7 DEF ChanIInv

(* An empty ring is an empty channel. *)
LEMMA ChanInit == DtqInit => ChanIInv /\ C!Init
<1> SUFFICES ASSUME DtqInit PROVE ChanIInv /\ C!Init
  OBVIOUS
<1>1. DtqIInv
  BY DtqInitInv
<1>2. PICK n \in Capacity : ring = [i \in 0 .. n - 1 |-> AnyData]
  BY DEF DtqInit
<1>3. n \in Nat /\ AnyData \in Data
  BY DtqAssumption DEF AnyData
<1>4. dtqcnt = n
  <2>1. DOMAIN ring = 0 .. n - 1
    BY <1>2
  <2>2. Cardinality(0 .. n - 1) = IF 0 > n - 1 THEN 0 ELSE n - 1 - 0 + 1
    BY <1>3, FS_Interval
  <2>3. Cardinality(0 .. n - 1) = n
    BY <1>3, <2>2
  <2> QED
    BY <2>1, <2>3 DEF dtqcnt
<1>5. ring \in [0 .. dtqcnt - 1 -> Data] /\ offer \in [Task -> Data]
  BY <1>2, <1>3, <1>4 DEF DtqInit
<1>6. ChanIInv
  BY <1>1, <1>5 DEF ChanIInv
<1>7. \A o \in WObj : k.wait_queue[o] = << >>
  BY DEF DtqInit, Init, InitTables
<1>8. k.wait_queue[swait_queue] = << >> /\ k.wait_queue[rwait_queue] = << >>
  BY <1>1, <1>7, QueuesKnown DEF DtqIInv
<1>9. buffered \o offered = << >>
  <2>1. buffered \o offered \in Seq(Data) /\ Len(buffered \o offered) = count + Len(k.wait_queue[swait_queue])
    BY <1>6, LineIs
  <2>2. Len(buffered \o offered) = 0
    BY <1>8, <2>1, EmptySeq DEF DtqInit
  <2> QED
    BY <2>1, <2>2, EmptySeq
<1> QED
  BY <1>2, <1>4, <1>6, <1>8, <1>9 DEF C!Init, DtqInit

(* A data queue whose senders wait in order of arrival is a channel: no    *)
(* message is lost but by fsnd_dtq's rule, none is doubled and none        *)
(* overtakes another, however the calls and the kernel's steps interleave. *)
THEOREM DataQueueIsChannel ==
  ASSUME swait_queue \notin TA_TPRI
  PROVE  DtqSpec => ImplementsChannel
<1>1. DtqInit => ChanIInv /\ C!Init
  BY ChanInit
<1>2. ChanIInv /\ [DtqNext]_vars => ChanIInv' /\ [C!Next]_(C!cvars)
  BY ChanNext
<1> QED
  BY <1>1, <1>2, PTL DEF DtqSpec, ImplementsChannel, C!Spec
-----------------------------------------------------------------------------
(* Part 7: mailboxes. *)

(* Messages linked in two ways from one head are the same that far. *)
LEMMA LinksPart ==
  ASSUME NEW f, NEW h, NEW c \in Seq(Msg), NEW d \in Seq(Msg),
         links(f, c, h), links(f, d, h)
  PROVE  \A i \in 1 .. Len(c) : i \in 1 .. Len(d) /\ c[i] = d[i]
<1>1. /\ Len(c) \in Nat /\ DOMAIN c = 1 .. Len(c) /\ (c = << >> <=> Len(c) = 0)
      /\ Len(d) \in Nat /\ DOMAIN d = 1 .. Len(d) /\ (d = << >> <=> Len(d) = 0)
      /\ (\A i \in 1 .. Len(c) : c[i] \in Msg) /\ NULL \notin Msg
  BY EmptySeq, LenProperties, ElementOfSeq, MbxAssumption
<1>2. /\ h = (IF c = << >> THEN NULL ELSE c[1])
      /\ h = (IF d = << >> THEN NULL ELSE d[1])
      /\ \A i \in 1 .. Len(c) : f[c[i]] = (IF i = Len(c) THEN NULL ELSE c[i + 1])
      /\ \A i \in 1 .. Len(d) : f[d[i]] = (IF i = Len(d) THEN NULL ELSE d[i + 1])
  BY <1>1 DEF links
<1> DEFINE S == {i \in 1 .. Len(c) : ~(i \in 1 .. Len(d) /\ c[i] = d[i])}
<1> SUFFICES ASSUME S # {} PROVE FALSE
  OBVIOUS
<1>3. PICK i \in S : \A j \in S : i <= j
  <2>1. S \subseteq Nat
    BY <1>1
  <2> HIDE DEF S
  <2> QED
    BY <2>1, LeastNatural
<1>4. CASE i = 1
  <2>1. i \in 1 .. Len(c) /\ c # << >> /\ c[i] = c[1] /\ c[i] \in Msg
    BY <1>1, <1>3, <1>4
  <2>2. h = c[1] /\ h # NULL
    BY <1>1, <1>2, <1>4, <2>1
  <2>3. d # << >> /\ h = d[1]
    BY <1>2, <2>2
  <2>4. i \in 1 .. Len(d) /\ c[i] = d[i]
    BY <1>1, <1>4, <2>2, <2>3
  <2> QED
    BY <1>3, <2>4
<1>5. CASE i # 1
  <2>1. i - 1 \in 1 .. Len(c) /\ (i - 1) + 1 = i /\ i - 1 # Len(c) /\ i - 1 \notin S
    BY <1>1, <1>3, <1>5
  <2>2. i - 1 \in 1 .. Len(d) /\ c[i - 1] = d[i - 1]
    BY <2>1
  <2>3. f[c[i - 1]] = c[i] /\ c[i] \in Msg
    BY <1>1, <1>2, <1>3, <2>1
  <2>4. i - 1 # Len(d) /\ f[d[i - 1]] = d[i]
    BY <1>1, <1>2, <2>1, <2>2, <2>3
  <2>5. i \in 1 .. Len(d)
    BY <1>1, <2>1, <2>2, <2>4
  <2> QED
    BY <1>3, <2>2, <2>3, <2>4, <2>5
<1> QED
  BY <1>4, <1>5

(* So the links from a head run through one sequence of messages only. *)
LEMMA LinksOne ==
  ASSUME NEW f, NEW h, NEW c \in Seq(Msg), NEW d \in Seq(Msg),
         links(f, c, h), links(f, d, h)
  PROVE  c = d
<1>1. Len(c) \in Nat /\ Len(d) \in Nat
  BY LenProperties
<1>2. \A i \in 1 .. Len(c) : i \in 1 .. Len(d) /\ c[i] = d[i]
  BY LinksPart
<1>3. \A i \in 1 .. Len(d) : i \in 1 .. Len(c) /\ d[i] = c[i]
  BY LinksPart
<1>4. Len(c) = Len(d)
  <2>1. Len(c) <= Len(d)
    BY <1>1, <1>2
  <2>2. Len(d) <= Len(c)
    BY <1>1, <1>3
  <2> QED
    BY <1>1, <2>1, <2>2
<1> QED
  BY <1>2, <1>4, SeqEqual

(* A list in which no message repeats is no longer than there are messages. *)
LEMMA NoRepeatShort ==
  ASSUME NEW c \in Seq(Msg), NoRepeat(c)
  PROVE  c \in SeqOf(Msg, Cardinality(Msg))
<1>1. /\ Len(c) \in Nat /\ c \in [1 .. Len(c) -> Msg] /\ DOMAIN c = 1 .. Len(c)
      /\ IsFiniteSet(Msg) /\ Cardinality(Msg) \in Nat
  BY LenProperties, MbxAssumption, FS_CardinalityType
<1>2. c \in Injection(1 .. Len(c), Msg)
  BY <1>1 DEF Injection, IsInjective, NoRepeat
<1>3. Cardinality(1 .. Len(c)) <= Cardinality(Msg)
  BY <1>1, <1>2, FS_Injection
<1>4. Cardinality(1 .. Len(c)) = Len(c)
  <2>1. /\ 1 \in Int /\ Len(c) \in Int
    BY <1>1
  <2>2. Cardinality(1 .. Len(c)) = IF 1 > Len(c) THEN 0 ELSE Len(c) - 1 + 1
    BY <2>1, FS_Interval
  <2> QED
    BY <1>1, <2>2
<1>5. Len(c) \in 0 .. Cardinality(Msg)
  BY <1>1, <1>3, <1>4
<1> QED
  BY <1>1, <1>5 DEF SeqOf

(* Links to messages outside the list do not matter to it. *)
LEMMA LinksKeep ==
  ASSUME NEW f, NEW e, NEW h, NEW c \in Seq(Msg), links(f, c, h),
         \A x \in Members(c) : e[x] = f[x]
  PROVE  links(e, c, h)
<1>1. \A i \in DOMAIN c : e[c[i]] = f[c[i]]
  BY DEF Members
<1> QED
  BY <1>1 DEF links

(* Taking the first message off leaves the links of the rest. *)
LEMMA LinksTail ==
  ASSUME NEW f, NEW h, NEW c \in Seq(Msg), c # << >>, links(f, c, h)
  PROVE  h = c[1] /\ links(f, Tail(c), f[h])
<1> DEFINE r == Tail(c)
<1>1. /\ Len(c) \in Nat \ {0} /\ DOMAIN c = 1 .. Len(c)
  BY EmptySeq, LenProperties
<1>2. r \in Seq(Msg) /\ Len(r) = Len(c) - 1 /\ \A i \in 1 .. Len(r) : r[i] = c[i + 1]
  BY HeadTailProperties
<1> HIDE DEF r
<1>3. DOMAIN r = 1 .. Len(c) - 1 /\ (r = << >> <=> Len(c) = 1)
  BY <1>1, <1>2, EmptySeq, LenProperties
<1>4. h = c[1] /\ \A i \in 1 .. Len(c) : f[c[i]] = (IF i = Len(c) THEN NULL ELSE c[i + 1])
  BY <1>1 DEF links
<1>5. f[h] = (IF r = << >> THEN NULL ELSE r[1])
  <2>1. 1 \in 1 .. Len(c) /\ f[c[1]] = (IF 1 = Len(c) THEN NULL ELSE c[1 + 1])
    <3>1. 1 \in 1 .. Len(c)
      BY <1>1
    <3>2. \A i \in 1 .. Len(c) : f[c[i]] = (IF i = Len(c) THEN NULL ELSE c[i + 1])
      BY <1>4
    <3> QED
      BY <3>1, <3>2, Zenon
  <2>2. Len(c) # 1 => r[1] = c[1 + 1]
    <3>1. Len(c) # 1 => 1 \in 1 .. Len(r)
      BY <1>1, <1>2
    <3> QED
      BY <1>2, <3>1
  <2> QED
    BY <1>3, <1>4, <2>1, <2>2
<1>6. ASSUME NEW i \in DOMAIN r
      PROVE  f[r[i]] = (IF i = Len(r) THEN NULL ELSE r[i + 1])
  <2>1. i + 1 \in 1 .. Len(c) /\ i \in 1 .. Len(r) /\ (i = Len(r) <=> i + 1 = Len(c))
    BY <1>1, <1>2, <1>3
  <2>2. r[i] = c[i + 1] /\ (i # Len(r) => r[i + 1] = c[(i + 1) + 1])
    <3>1. i # Len(r) => i + 1 \in 1 .. Len(r)
      BY <1>1, <1>2, <1>3
    <3> QED
      BY <1>2, <2>1, <3>1
  <2> QED
    BY <1>4, <2>1, <2>2
<1>7. links(f, r, f[h])
  BY <1>5, <1>6 DEF links
<1> QED
  BY <1>4, <1>7 DEF r

(* The link of g, linked in behind the first i messages of c. *)
follows(c, i) == IF i < Len(c) THEN c[i + 1] ELSE NULL

(* Linking a message in between two messages of the list, or at an end. *)
LEMMA LinksIn ==
  ASSUME NEW f \in [Msg -> Msg \cup {NULL}], NEW h, NEW c \in Seq(Msg), NoRepeat(c),
         links(f, c, h), NEW g \in Msg \ Members(c), NEW i \in 0 .. Len(c),
         NEW e,
         i = 0 => e = [f EXCEPT ![g] = follows(c, i)],
         i # 0 => e = [f EXCEPT ![g] = follows(c, i), ![c[i]] = g]
  PROVE  /\ e \in [Msg -> Msg \cup {NULL}]
         /\ \A x \in Msg \ (Members(c) \cup {g}) : e[x] = f[x]
         /\ links(e, InsertAt(c, i + 1, g), IF i = 0 THEN g ELSE h)
<1> DEFINE r == InsertAt(c, i + 1, g)
<1>1. /\ Len(c) \in Nat /\ DOMAIN c = 1 .. Len(c) /\ (c = << >> <=> Len(c) = 0)
      /\ (\A j \in 1 .. Len(c) : c[j] \in Msg) /\ i \in Nat /\ i <= Len(c)
  BY EmptySeq, LenProperties, ElementOfSeq
<1>2. /\ h = (IF c = << >> THEN NULL ELSE c[1])
      /\ \A j \in 1 .. Len(c) : f[c[j]] = (IF j = Len(c) THEN NULL ELSE c[j + 1])
  BY <1>1 DEF links
<1>3. i + 1 \in 1 .. Len(c) + 1 /\ (i < Len(c) => i + 1 \in 1 .. Len(c))
      /\ (i # 0 => i \in 1 .. Len(c))
  BY <1>1
<1>0. g \in Msg
  OBVIOUS
<1>4. /\ r \in Seq(Msg) /\ Len(r) = Len(c) + 1
      /\ \A j \in 1 .. Len(c) + 1 :
           r[j] = IF j < i + 1 THEN c[j] ELSE IF j = i + 1 THEN g ELSE c[j - 1]
  <2> DEFINE p == i + 1
  <2>1. p \in 1 .. Len(c) + 1
    BY <1>3
  <2> HIDE DEF p
  <2>2. /\ InsertAt(c, p, g) \in Seq(Msg) /\ Len(InsertAt(c, p, g)) = Len(c) + 1
        /\ \A j \in 1 .. Len(c) + 1 :
             InsertAt(c, p, g)[j] = IF j < p THEN c[j] ELSE IF j = p THEN g ELSE c[j - 1]
    BY <1>0, <2>1, InsertAtSeq
  <2> QED
    BY <2>2 DEF p
<1> HIDE DEF r
<1>5. DOMAIN r = 1 .. Len(c) + 1 /\ r # << >>
  BY <1>1, <1>4, EmptySeq, LenProperties
<1>6. follows(c, i) \in Msg \cup {NULL}
  BY <1>1, <1>3 DEF follows
<1>7. /\ \A j \in 1 .. Len(c) : c[j] # g
      /\ \A j, l \in 1 .. Len(c) : c[j] = c[l] => j = l
  BY <1>1 DEF Members, NoRepeat
<1>8. /\ e \in [Msg -> Msg \cup {NULL}] /\ e[g] = follows(c, i)
      /\ i # 0 => e[c[i]] = g
      /\ \A x \in Msg : x # g /\ (i # 0 => x # c[i]) => e[x] = f[x]
  <2>1. CASE i = 0
    BY <1>6, <2>1
  <2>2. CASE i # 0
    <3>1. c[i] \in Msg /\ c[i] # g
      BY <1>1, <1>3, <1>7, <2>2
    <3> QED
      BY <1>6, <2>2, <3>1
  <2> QED
    BY <2>1, <2>2
<1>9. \A x \in Msg \ (Members(c) \cup {g}) : e[x] = f[x]
  <2>1. i # 0 => c[i] \in Members(c)
    BY <1>1, <1>3 DEF Members
  <2> QED
    BY <1>8, <2>1
<1>10. \A j \in 1 .. Len(c) : j # i => e[c[j]] = f[c[j]]
  BY <1>1, <1>3, <1>7, <1>8
<1>11. (IF i = 0 THEN g ELSE h) = r[1]
  <2>1. 1 \in 1 .. Len(c) + 1
    BY <1>1
  <2>2. CASE i = 0
    BY <1>4, <2>1, <2>2
  <2>3. CASE i # 0
    <3>1. 1 < i + 1 /\ c # << >>
      BY <1>1, <2>3
    <3>2. r[1] = c[1]
      BY <1>4, <2>1, <3>1
    <3> QED
      BY <1>2, <2>3, <3>1, <3>2
  <2> QED
    BY <2>2, <2>3
<1>12. ASSUME NEW j \in 1 .. Len(c) + 1
       PROVE  e[r[j]] = (IF j = Len(r) THEN NULL ELSE r[j + 1])
  <2>0. j \in Nat /\ Len(r) = Len(c) + 1 /\ (j # Len(r) => j + 1 \in 1 .. Len(c) + 1)
    BY <1>1, <1>4
  <2>1. CASE j < i
    <3>1. j \in 1 .. Len(c) /\ j < i + 1 /\ j + 1 < i + 1 /\ j # Len(r) /\ j # Len(c) /\ j # i
      <4>1. i \in Nat /\ i <= Len(c) /\ Len(c) \in Nat /\ Len(r) = Len(c) + 1 /\ j >= 1
        BY <1>1, <1>4
      <4> QED
        BY <2>1, <4>1
    <3>2. r[j] = c[j] /\ r[j + 1] = c[j + 1]
      BY <1>4, <2>0, <3>1
    <3>3. e[c[j]] = f[c[j]] /\ f[c[j]] = c[j + 1]
      BY <1>2, <1>10, <3>1
    <3> QED
      BY <3>1, <3>2, <3>3
  <2>2. CASE j = i
    <3>1. i # 0 /\ j < i + 1 /\ j + 1 = i + 1 /\ ~(j + 1 < i + 1) /\ j # Len(r)
      BY <1>1, <2>0, <2>2
    <3>2. r[j] = c[j] /\ r[j + 1] = g
      BY <1>4, <2>0, <3>1
    <3> QED
      BY <1>8, <2>2, <3>1, <3>2
  <2>3. CASE j = i + 1
    <3>1. r[j] = g
      BY <1>1, <1>4, <2>3
    <3>2. CASE i < Len(c)
      <4>1. j # Len(r) /\ ~(j + 1 < i + 1) /\ j + 1 # i + 1 /\ (j + 1) - 1 = i + 1
        BY <1>1, <2>0, <2>3, <3>2
      <4>2. r[j + 1] = c[i + 1]
        BY <1>4, <2>0, <4>1
      <4> QED
        BY <1>8, <3>1, <3>2, <4>1, <4>2 DEF follows
    <3>3. CASE ~(i < Len(c))
      <4>1. j = Len(r)
        BY <1>1, <2>0, <2>3, <3>3
      <4> QED
        BY <1>8, <3>1, <3>3, <4>1 DEF follows
    <3> QED
      BY <3>2, <3>3
  <2>4. CASE j > i + 1
    <3> DEFINE l == j - 1
    <3>1. /\ l \in 1 .. Len(c) /\ l # i /\ ~(j < i + 1) /\ j # i + 1 /\ l + 1 = j
          /\ ~(j + 1 < i + 1) /\ j + 1 # i + 1 /\ (j + 1) - 1 = l + 1
          /\ (j = Len(r) <=> l = Len(c))
      BY <1>1, <2>0, <2>4
    <3>2. r[j] = c[l] /\ (j # Len(r) => r[j + 1] = c[l + 1])
      BY <1>4, <2>0, <3>1
    <3> HIDE DEF l
    <3>3. e[c[l]] = f[c[l]] /\ f[c[l]] = (IF l = Len(c) THEN NULL ELSE c[l + 1])
      BY <1>2, <1>10, <3>1
    <3> QED
      BY <3>1, <3>2, <3>3
  <2> QED
    BY <1>1, <2>0, <2>1, <2>2, <2>3, <2>4
<1>13. links(e, r, IF i = 0 THEN g ELSE h)
  BY <1>5, <1>11, <1>12 DEF links
<1> QED
  BY <1>8, <1>9, <1>13 DEF r

(* What the list holds then. *)
LEMMA InsertMembers ==
  ASSUME NEW T, NEW c \in Seq(T), NoRepeat(c), NEW g \in T \ Members(c), NEW i \in 1 .. Len(c) + 1
  PROVE  /\ InsertAt(c, i, g) \in Seq(T) /\ InsertAt(c, i, g) # << >>
         /\ NoRepeat(InsertAt(c, i, g))
         /\ Members(InsertAt(c, i, g)) = Members(c) \cup {g}
<1> DEFINE r == InsertAt(c, i, g)
           old(j) == IF j < i THEN j ELSE j - 1
<1>0. g \in T
  OBVIOUS
<1>1. Len(c) \in Nat /\ DOMAIN c = 1 .. Len(c)
  BY LenProperties
<1>2. /\ r \in Seq(T) /\ Len(r) = Len(c) + 1
      /\ \A j \in 1 .. Len(c) + 1 :
           r[j] = IF j < i THEN c[j] ELSE IF j = i THEN g ELSE c[j - 1]
  <2> HIDE DEF old
  <2>1. InsertAt(c, i, g) \in Seq(T) /\ Len(InsertAt(c, i, g)) = Len(c) + 1
    BY <1>0, InsertAtSeq
  <2>2. \A j \in 1 .. Len(c) + 1 :
          InsertAt(c, i, g)[j] = IF j < i THEN c[j] ELSE IF j = i THEN g ELSE c[j - 1]
    BY <1>0, InsertAtSeq
  <2> QED
    BY <2>1, <2>2
<1> HIDE DEF r
<1>3. DOMAIN r = 1 .. Len(c) + 1 /\ r # << >>
  BY <1>1, <1>2, EmptySeq, LenProperties
<1>4. r[i] = g
  BY <1>1, <1>2
<1>5. \A j \in DOMAIN r : j # i => old(j) \in DOMAIN c /\ r[j] = c[old(j)]
  <2>1. ASSUME NEW j \in DOMAIN r, j # i PROVE old(j) \in DOMAIN c /\ r[j] = c[old(j)]
    <3>1. CASE j < i
      BY <1>1, <1>2, <1>3, <2>1, <3>1
    <3>2. CASE ~(j < i)
      BY <1>1, <1>2, <1>3, <2>1, <3>2
    <3> QED
      BY <3>1, <3>2
  <2> QED
    BY <2>1
<1>6. \A j, l \in DOMAIN r : j # i /\ l # i /\ old(j) = old(l) => j = l
  BY <1>1, <1>3
<1>7. \A j \in DOMAIN c : c[j] # g
  BY DEF Members
<1>8. NoRepeat(r)
  <2>1. ASSUME NEW j \in DOMAIN r, NEW l \in DOMAIN r, r[j] = r[l] PROVE j = l
    <3>1. CASE j = i \/ l = i
      BY <1>4, <1>5, <1>7, <2>1, <3>1
    <3>2. CASE j # i /\ l # i
      <4>1. old(j) \in DOMAIN c /\ old(l) \in DOMAIN c /\ c[old(j)] = c[old(l)]
        BY <1>5, <2>1, <3>2
      <4> HIDE DEF old
      <4>2. old(j) = old(l)
        BY <4>1 DEF NoRepeat
      <4> QED
        BY <1>6, <3>2, <4>2
    <3> QED
      BY <3>1, <3>2
  <2> QED
    BY <2>1 DEF NoRepeat
<1>9. \A x \in Members(r) : x \in Members(c) \cup {g}
  BY <1>4, <1>5 DEF Members
<1>10. \A j \in DOMAIN c : \E l \in DOMAIN r : r[l] = c[j]
  <2>1. ASSUME NEW j \in DOMAIN c PROVE \E l \in DOMAIN r : r[l] = c[j]
    <3>1. CASE j < i
      BY <1>1, <1>2, <1>3, <3>1
    <3>2. CASE ~(j < i)
      <4>1. j + 1 \in 1 .. Len(c) + 1 /\ ~(j + 1 < i) /\ j + 1 # i /\ (j + 1) - 1 = j
        BY <1>1, <3>2
      <4>2. r[j + 1] = c[j]
        BY <1>2, <4>1
      <4> QED
        BY <1>3, <4>1, <4>2
    <3> QED
      BY <3>1, <3>2
  <2> QED
    BY <2>1
<1>11. i \in DOMAIN r
  BY <1>1, <1>3
<1>12. Members(r) = Members(c) \cup {g}
  BY <1>4, <1>9, <1>10, <1>11 DEF Members
<1> QED
  BY <1>2, <1>3, <1>8, <1>12 DEF r

(* What is left when one message has gone, and in which order. *)
LEMMA RemoveMembers ==
  ASSUME NEW T, NEW q \in Seq(T), NoRepeat(q), NEW i \in DOMAIN q
  PROVE  /\ RemoveAt(q, i) \in Seq(T) /\ NoRepeat(RemoveAt(q, i))
         /\ Members(RemoveAt(q, i)) = Members(q) \ {q[i]}
         /\ \A a, b \in DOMAIN q : a < b /\ a # i /\ b # i =>
              \E x, y \in DOMAIN RemoveAt(q, i) :
                x < y /\ RemoveAt(q, i)[x] = q[a] /\ RemoveAt(q, i)[y] = q[b]
<1> DEFINE r == RemoveAt(q, i)
           old(j) == IF j < i THEN j ELSE j + 1
           new(j) == IF j < i THEN j ELSE j - 1
<1>1. Len(q) \in Nat /\ DOMAIN q = 1 .. Len(q) /\ i \in 1 .. Len(q) /\ Len(q) - 1 \in Nat
  BY LenProperties
<1>2. /\ r \in Seq(T) /\ Len(r) = Len(q) - 1
      /\ \A j \in 1 .. Len(q) - 1 : r[j] = IF j < i THEN q[j] ELSE q[j + 1]
  BY <1>1, RemoveAtSeq
<1> HIDE DEF r
<1>3. DOMAIN r = 1 .. Len(q) - 1
  BY <1>1, <1>2, LenProperties
<1>4. \A j \in DOMAIN r : old(j) \in DOMAIN q /\ old(j) # i /\ r[j] = q[old(j)]
  <2>1. ASSUME NEW j \in DOMAIN r PROVE old(j) \in DOMAIN q /\ old(j) # i
    BY <1>1, <1>3
  <2>2. ASSUME NEW j \in DOMAIN r PROVE r[j] = q[old(j)]
    BY <1>2, <1>3
  <2> QED
    BY <2>1, <2>2
<1>5. \A j \in DOMAIN q : j # i => new(j) \in DOMAIN r /\ old(new(j)) = j
  BY <1>1, <1>3
<1>6. \A j, l \in DOMAIN r : old(j) = old(l) => j = l
  BY <1>1, <1>3
<1>7. \A a, b \in DOMAIN q : a < b /\ a # i /\ b # i => new(a) < new(b)
  BY <1>1
<1> HIDE DEF old, new
<1>8. \A j \in DOMAIN q : j # i => new(j) \in DOMAIN r /\ r[new(j)] = q[j]
  BY <1>4, <1>5
<1>9. NoRepeat(r)
  BY <1>4, <1>6 DEF NoRepeat
<1>10. Members(r) = Members(q) \ {q[i]}
  <2>1. \A x \in Members(r) : x \in Members(q) \ {q[i]}
    BY <1>4 DEF Members, NoRepeat
  <2>2. \A x \in Members(q) \ {q[i]} : x \in Members(r)
    BY <1>8 DEF Members
  <2> QED
    BY <2>1, <2>2
<1>11. \A a, b \in DOMAIN q : a < b /\ a # i /\ b # i =>
         \E x, y \in DOMAIN r : x < y /\ r[x] = q[a] /\ r[y] = q[b]
  BY <1>7, <1>8
<1> QED
  BY <1>2, <1>9, <1>10, <1>11 DEF r

(* A message that comes in is the last of those that have. *)
LEMMA AppendMembers ==
  ASSUME NEW T, NEW q \in Seq(T), NoRepeat(q), NEW g \in T \ Members(q)
  PROVE  /\ Append(q, g) \in Seq(T) /\ NoRepeat(Append(q, g))
         /\ Members(Append(q, g)) = Members(q) \cup {g}
         /\ \A a \in DOMAIN q : a \in DOMAIN Append(q, g) /\ Append(q, g)[a] = q[a]
         /\ \A x \in Members(q) : \E a, b \in DOMAIN Append(q, g) :
              a < b /\ Append(q, g)[a] = x /\ Append(q, g)[b] = g
<1> DEFINE r == Append(q, g)
<1>1. Len(q) \in Nat /\ DOMAIN q = 1 .. Len(q) /\ g \in T
  BY LenProperties
<1>2. /\ r \in Seq(T) /\ Len(r) = Len(q) + 1 /\ r[Len(q) + 1] = g
      /\ \A j \in 1 .. Len(q) : r[j] = q[j]
  BY <1>1, AppendProperties
<1> HIDE DEF r
<1>3. DOMAIN r = 1 .. Len(q) + 1
  BY <1>1, <1>2, LenProperties
<1>4. \A j \in DOMAIN q : q[j] # g
  BY DEF Members
<1>5. \A j \in DOMAIN q : j \in DOMAIN r /\ r[j] = q[j] /\ j < Len(q) + 1
  BY <1>1, <1>2, <1>3
<1>6. \A j \in DOMAIN r : j \in DOMAIN q \/ j = Len(q) + 1
  BY <1>1, <1>3
<1>7. Len(q) + 1 \in DOMAIN r
  BY <1>1, <1>3
<1>8. NoRepeat(r)
  <2>1. ASSUME NEW i \in DOMAIN r, NEW j \in DOMAIN r, r[i] = r[j] PROVE i = j
    <3>1. CASE i \in DOMAIN q /\ j \in DOMAIN q
      BY <1>5, <2>1, <3>1 DEF NoRepeat
    <3>2. CASE i = Len(q) + 1 \/ j = Len(q) + 1
      BY <1>2, <1>4, <1>5, <1>6, <2>1, <3>2
    <3> QED
      BY <1>6, <3>1, <3>2
  <2> QED
    BY <2>1 DEF NoRepeat
<1>9. Members(r) = Members(q) \cup {g}
  <2>1. \A x \in Members(r) : x \in Members(q) \cup {g}
    BY <1>2, <1>5, <1>6 DEF Members
  <2>2. \A x \in Members(q) : x \in Members(r)
    BY <1>5 DEF Members
  <2>3. g \in Members(r)
    BY <1>2, <1>7 DEF Members
  <2> QED
    BY <2>1, <2>2, <2>3
<1>10. \A x \in Members(q) : \E a, b \in DOMAIN r : a < b /\ r[a] = x /\ r[b] = g
  BY <1>2, <1>5, <1>7 DEF Members
<1> QED
  BY <1>2, <1>5, <1>8, <1>9, <1>10 DEF r

(* enqueue_msg_pri finds its place. *)
LEMMA InsertPos ==
  ASSUME NEW c \in Seq(Msg), NEW g \in Msg
  PROVE  /\ insert_pos(c, g) \in 0 .. Len(c)
         /\ \A j \in 1 .. insert_pos(c, g) : MSGPRI[c[j]] <= MSGPRI[g]
         /\ insert_pos(c, g) < Len(c) => MSGPRI[c[insert_pos(c, g) + 1]] > MSGPRI[g]
<1> DEFINE S == {i \in 0 .. Len(c) : i < Len(c) => MSGPRI[c[i + 1]] > MSGPRI[g]}
           P(i) == /\ \A j \in 1 .. i : MSGPRI[c[j]] <= MSGPRI[g]
                   /\ i < Len(c) => MSGPRI[c[i + 1]] > MSGPRI[g]
<1>1. /\ Len(c) \in Nat /\ MSGPRI[g] \in Nat
      /\ \A j \in 1 .. Len(c) : MSGPRI[c[j]] \in Nat
  BY LenProperties, ElementOfSeq, MbxAssumption
<1>2. S \subseteq Nat /\ Len(c) \in S
  BY <1>1
<1>3. PICK i \in S : \A j \in S : i <= j
  <2> HIDE DEF S
  <2> QED
    BY <1>2, LeastNatural
<1>4. ASSUME NEW j \in 1 .. i PROVE MSGPRI[c[j]] <= MSGPRI[g]
  <2>1. /\ j - 1 \in 0 .. Len(c) /\ j - 1 < Len(c) /\ j \in 1 .. Len(c) /\ (j - 1) + 1 = j
        /\ ~(i <= j - 1)
    BY <1>1, <1>3
  <2>2. j - 1 \notin S
    BY <1>3, <2>1
  <2>3. ~(MSGPRI[c[j]] > MSGPRI[g])
    BY <2>1, <2>2
  <2> QED
    BY <1>1, <2>1, <2>3
<1>5. i \in 0 .. Len(c) /\ P(i)
  BY <1>3, <1>4
<1>6. insert_pos(c, g) = CHOOSE l \in 0 .. Len(c) : P(l)
  BY DEF insert_pos
<1> HIDE DEF P
<1>7. insert_pos(c, g) \in 0 .. Len(c) /\ P(insert_pos(c, g))
  BY <1>5, <1>6, Zenon
<1> QED
  BY <1>7 DEF P

MbxTypes ==
  /\ mbx_head \in [Mbx -> Msg \cup {NULL}]
  /\ mbx_last \in [Mbx -> Msg \cup {NULL}]
  /\ msg_next \in [Msg -> Msg \cup {NULL}]
  /\ arrived \in [Mbx -> Seq(Msg)]

(* What MbxInv says of one mailbox with the messages c, and that last is   *)
(* right when it is looked at.                                             *)
Box(m, c) ==
  /\ links(msg_next, c, mbx_head[m]) /\ NoRepeat(c)
  /\ Members(c) = Members(arrived[m])
  /\ \A i, j \in DOMAIN c : i < j => ahead(m, c[i], c[j])
  /\ c # << >> =>
       /\ m \notin TA_MPRI => mbx_last[m] = c[Len(c)]
       /\ k.wait_queue[m] = << >>

(* A message is in one mailbox, once. *)
InOneBox ==
  /\ \A m \in Mbx : NoRepeat(arrived[m])
  /\ \A m, n \in Mbx : m # n => Members(arrived[m]) \cap Members(arrived[n]) = {}

MbxIInv ==
  KernelInvs /\ MbxTypes /\ InOneBox /\ \A m \in Mbx : \E c \in Seq(Msg) : Box(m, c)

(* A call on m changes the links of its own messages only. *)
LEMMA MbxStep ==
  ASSUME MbxIInv, NEW m \in Mbx, KernelInvs', k' = k, MbxTypes',
         \A x \in Mbx \ {m} : /\ mbx_head'[x] = mbx_head[x] /\ mbx_last'[x] = mbx_last[x]
                              /\ arrived'[x] = arrived[x]
                              /\ \A g \in Members(arrived[x]) : msg_next'[g] = msg_next[g]
                              /\ Members(arrived'[m]) \cap Members(arrived[x]) = {},
         NoRepeat(arrived'[m]), NEW d \in Seq(Msg), Box(m, d)'
  PROVE  MbxIInv'
<1>1. InOneBox'
  <2>1. ASSUME NEW x \in Mbx PROVE NoRepeat(arrived'[x])
    BY <2>1 DEF MbxIInv, InOneBox
  <2>2. ASSUME NEW x \in Mbx, NEW y \in Mbx, x # y
        PROVE  Members(arrived'[x]) \cap Members(arrived'[y]) = {}
    <3>1. Members(arrived[x]) \cap Members(arrived[y]) = {}
      BY <2>2 DEF MbxIInv, InOneBox
    <3>2. CASE x = m
      <4>1. y \in Mbx \ {m}
        BY <2>2, <3>2
      <4> QED
        BY <3>2, <4>1
    <3>3. CASE y = m
      <4>1. x \in Mbx \ {m}
        BY <2>2, <3>3
      <4> QED
        BY <3>3, <4>1
    <3>4. CASE x # m /\ y # m
      BY <3>1, <3>4
    <3> QED
      BY <3>2, <3>3, <3>4
  <2> QED
    BY <2>1, <2>2 DEF InOneBox
<1>2. ASSUME NEW x \in Mbx, x # m PROVE \E c \in Seq(Msg) : Box(x, c)'
  <2>1. PICK c \in Seq(Msg) : Box(x, c)
    BY DEF MbxIInv
  <2>2. /\ mbx_head'[x] = mbx_head[x] /\ mbx_last'[x] = mbx_last[x]
        /\ arrived'[x] = arrived[x]
        /\ \A g \in Members(c) : msg_next'[g] = msg_next[g]
    BY <1>2, <2>1 DEF Box
  <2>3. links(msg_next', c, mbx_head'[x])
    BY <2>1, <2>2, LinksKeep DEF Box
  <2>4. \A i, j \in DOMAIN c : ahead(x, c[i], c[j])' <=> ahead(x, c[i], c[j])
    BY <2>2 DEF ahead, before
  <2>5. Box(x, c)'
    BY <2>1, <2>2, <2>3, <2>4 DEF Box
  <2> QED
    BY <2>5
<1> QED
  BY <1>1, <1>2 DEF MbxIInv

(* A step that leaves the messages alone, and lets nobody wait where there *)
(* are some.                                                               *)
LEMMA MbxKeep ==
  ASSUME MbxIInv, KernelInvs', UNCHANGED mbxvars,
         \A m \in Mbx : mbx_head[m] # NULL /\ k.wait_queue[m] = << >> =>
           k'.wait_queue[m] = << >>
  PROVE  MbxIInv'
<1>1. UNCHANGED <<mbx_head, mbx_last, msg_next, arrived>>
  BY DEF mbxvars
<1>2. ASSUME NEW m \in Mbx PROVE \E c \in Seq(Msg) : Box(m, c)'
  <2>1. PICK c \in Seq(Msg) : Box(m, c)
    BY DEF MbxIInv
  <2>2. c # << >> => mbx_head[m] # NULL
    <3>1. c # << >> => c[1] \in Msg
      <4>1. c # << >> => 1 \in 1 .. Len(c)
        BY EmptySeq, LenProperties
      <4> QED
        BY <4>1, ElementOfSeq
    <3> QED
      BY <2>1, <3>1, MbxAssumption DEF Box, links
  <2>3. \A i, j \in DOMAIN c : ahead(m, c[i], c[j])' <=> ahead(m, c[i], c[j])
    BY <1>1 DEF ahead, before
  <2>4. c # << >> => k'.wait_queue[m] = << >>
    BY <2>1, <2>2 DEF Box
  <2>5. Box(m, c)'
    BY <1>1, <2>1, <2>3, <2>4 DEF Box
  <2> QED
    BY <2>5
<1> QED
  BY <1>1, <1>2 DEF MbxIInv, MbxTypes, InOneBox

(* g is linked in behind the first i messages of c, which is its place. *)
LinkedIn(m, g, c, i) ==
  /\ i = 0 => /\ msg_next' = [msg_next EXCEPT ![g] = follows(c, i)]
              /\ mbx_head' = [mbx_head EXCEPT ![m] = g]
  /\ i # 0 => /\ msg_next' = [msg_next EXCEPT ![g] = follows(c, i), ![c[i]] = g]
              /\ mbx_head' = mbx_head
  /\ mbx_last' = IF m \in TA_MPRI THEN mbx_last ELSE [mbx_last EXCEPT ![m] = g]
  /\ \A j \in 1 .. i : m \in TA_MPRI => MSGPRI[c[j]] <= MSGPRI[g]
  /\ \A j \in i + 1 .. Len(c) : m \in TA_MPRI /\ MSGPRI[g] < MSGPRI[c[j]]

(* That keeps the invariant. *)
LEMMA MbxJoins ==
  ASSUME MbxIInv, NEW m \in Mbx, NEW g \in Msg,
         \A n \in Mbx : g \notin Members(arrived[n]),
         KernelInvs', k' = k, k.wait_queue[m] = << >>,
         arrived' = [arrived EXCEPT ![m] = Append(@, g)],
         NEW c \in Seq(Msg), Box(m, c), NEW i \in 0 .. Len(c), LinkedIn(m, g, c, i)
  PROVE  MbxIInv'
<1> DEFINE p == i + 1
           d == InsertAt(c, p, g)
           a == arrived[m]
<1>1. /\ MbxTypes /\ a \in Seq(Msg) /\ NoRepeat(a) /\ NoRepeat(c)
      /\ Members(c) = Members(a) /\ g \in Msg \ Members(c) /\ g \in Msg \ Members(a)
      /\ links(msg_next, c, mbx_head[m])
      /\ msg_next \in [Msg -> Msg \cup {NULL}] /\ mbx_head[m] \in Msg \cup {NULL}
  BY DEF MbxIInv, MbxTypes, InOneBox, Box
<1>2. /\ Len(c) \in Nat /\ DOMAIN c = 1 .. Len(c) /\ i \in Nat /\ i <= Len(c)
      /\ p \in 1 .. Len(c) + 1 /\ \A j \in DOMAIN c : c[j] \in Members(c)
  BY LenProperties DEF Members
<1>3. /\ msg_next' \in [Msg -> Msg \cup {NULL}]
      /\ \A x \in Msg \ (Members(c) \cup {g}) : msg_next'[x] = msg_next[x]
      /\ links(msg_next', d, IF i = 0 THEN g ELSE mbx_head[m])
  <2>1. /\ i = 0 => msg_next' = [msg_next EXCEPT ![g] = follows(c, i)]
        /\ i # 0 => msg_next' = [msg_next EXCEPT ![g] = follows(c, i), ![c[i]] = g]
    BY DEF LinkedIn
  <2> QED
    BY <1>1, <2>1, LinksIn
<1>4. /\ d \in Seq(Msg) /\ d # << >> /\ NoRepeat(d) /\ Members(d) = Members(c) \cup {g}
  <2> HIDE DEF p
  <2> QED
    BY <1>1, <1>2, InsertMembers
<1>5. /\ Len(d) = Len(c) + 1
      /\ \A j \in 1 .. Len(c) + 1 :
           d[j] = IF j < p THEN c[j] ELSE IF j = p THEN g ELSE c[j - 1]
  <2> HIDE DEF p
  <2> QED
    BY <1>2, InsertAtSeq
<1> HIDE DEF d
<1>6. /\ arrived'[m] = Append(a, g) /\ mbx_head'[m] = (IF i = 0 THEN g ELSE mbx_head[m])
      /\ m \notin TA_MPRI => mbx_last'[m] = g
  BY <1>1 DEF MbxTypes, LinkedIn
<1>7. /\ arrived'[m] \in Seq(Msg) /\ NoRepeat(arrived'[m])
      /\ Members(arrived'[m]) = Members(a) \cup {g}
      /\ \A l \in DOMAIN a : l \in DOMAIN arrived'[m] /\ arrived'[m][l] = a[l]
      /\ \A x \in Members(a) : before(m, x, g)'
  <2>1. \A x \in Members(a) : \E r, s \in DOMAIN Append(a, g) :
          r < s /\ Append(a, g)[r] = x /\ Append(a, g)[s] = g
    <3> HIDE DEF a
    <3>1. a \in Seq(Msg) /\ NoRepeat(a) /\ g \in Msg \ Members(a)
      BY <1>1
    <3> QED
      BY <3>1, AppendMembers, SMTT(60)
  <2>2. /\ Append(a, g) \in Seq(Msg) /\ NoRepeat(Append(a, g))
        /\ Members(Append(a, g)) = Members(a) \cup {g}
        /\ \A l \in DOMAIN a : l \in DOMAIN Append(a, g) /\ Append(a, g)[l] = a[l]
    BY <1>1, AppendMembers
  <2> QED
    BY <1>6, <2>1, <2>2 DEF before
<1>8. \A x, y : ahead(m, x, y) => ahead(m, x, y)'
  BY <1>7 DEF ahead, before
<1>9. \A r, s \in DOMAIN c : r < s => ahead(m, c[r], c[s])
  BY DEF Box
<1>10. \A r \in DOMAIN c : r <= i => ahead(m, c[r], g)'
  <2>1. ASSUME NEW r \in DOMAIN c, r <= i PROVE ahead(m, c[r], g)'
    <3>1. before(m, c[r], g)'
      BY <1>1, <1>2, <1>7
    <3>2. m \in TA_MPRI => MSGPRI[c[r]] <= MSGPRI[g]
      BY <1>2, <2>1 DEF LinkedIn
    <3>3. MSGPRI[c[r]] \in Nat /\ MSGPRI[g] \in Nat
      BY <1>1, <1>2, MbxAssumption, ElementOfSeq
    <3>4. m \in TA_MPRI => MSGPRI[c[r]] < MSGPRI[g] \/ MSGPRI[c[r]] = MSGPRI[g]
      BY <3>2, <3>3
    <3> QED
      BY <3>1, <3>4 DEF ahead
  <2> QED
    BY <2>1
<1>11. \A r \in DOMAIN c : r > i => ahead(m, g, c[r])'
  <2>1. \A r \in DOMAIN c : r > i => r \in i + 1 .. Len(c)
    BY <1>2
  <2> QED
    BY <2>1 DEF ahead, LinkedIn
<1>12. ASSUME NEW r \in DOMAIN d, NEW s \in DOMAIN d, r < s PROVE ahead(m, d[r], d[s])'
  <2>1. r \in 1 .. Len(c) + 1 /\ s \in 1 .. Len(c) + 1
    BY <1>4, <1>5, LenProperties
  <2>2. CASE s < p
    <3>1. r < p /\ r \in DOMAIN c /\ s \in DOMAIN c
      BY <1>2, <1>12, <2>1, <2>2
    <3>2. d[r] = c[r] /\ d[s] = c[s]
      BY <1>5, <2>1, <2>2, <3>1
    <3> QED
      BY <1>8, <1>9, <1>12, <3>1, <3>2
  <2>3. CASE s = p
    <3>1. r < p /\ r \in DOMAIN c /\ r <= i /\ ~(s < p)
      BY <1>2, <1>12, <2>1, <2>3
    <3>2. d[r] = c[r] /\ d[s] = g
      BY <1>5, <2>1, <2>3, <3>1
    <3> QED
      BY <1>10, <3>1, <3>2
  <2>4. CASE s > p
    <3> DEFINE t == s - 1
    <3>1. t \in DOMAIN c /\ t > i /\ d[s] = c[t]
      <4>1. ~(s < p) /\ s # p
        BY <2>1, <2>4, <1>2
      <4> QED
        BY <1>2, <1>5, <2>1, <2>4, <4>1
    <3>2. CASE r < p
      <4>1. r \in DOMAIN c /\ r < t /\ d[r] = c[r]
        BY <1>2, <1>5, <2>1, <2>4, <3>2
      <4> HIDE DEF t
      <4> QED
        BY <1>8, <1>9, <3>1, <4>1
    <3>3. CASE r = p
      <4>1. d[r] = g
        BY <1>2, <1>5, <2>1, <3>3
      <4> HIDE DEF t
      <4> QED
        BY <1>11, <3>1, <4>1
    <3>4. CASE r > p
      <4> DEFINE u == r - 1
      <4>0. ~(r < p) /\ r # p
        BY <2>1, <1>2, <3>4
      <4>1. u \in DOMAIN c /\ u < t /\ d[r] = c[u]
        BY <1>2, <1>5, <1>12, <2>1, <2>4, <3>4, <4>0
      <4> HIDE DEF t, u
      <4> QED
        BY <1>8, <1>9, <3>1, <4>1
    <3> QED
      BY <1>2, <2>1, <3>2, <3>3, <3>4
  <2> QED
    BY <1>2, <2>1, <2>2, <2>3, <2>4
<1>13. m \notin TA_MPRI => mbx_last'[m] = d[Len(d)]
  <2>1. ASSUME m \notin TA_MPRI PROVE i = Len(c)
    <3>1. ASSUME i < Len(c) PROVE FALSE
      <4>1. PICK j \in i + 1 .. Len(c) : TRUE
        BY <1>2, <3>1
      <4>2. m \in TA_MPRI
        BY <4>1 DEF LinkedIn
      <4> QED
        BY <2>1, <4>2
    <3>2. i = Len(c) \/ i < Len(c)
      <4>1. Len(c) \in Nat /\ i \in Nat /\ i <= Len(c)
        BY <1>2
      <4> HIDE DEF p, a
      <4> QED
        BY <4>1
    <3> QED
      BY <3>1, <3>2
  <2>2. ASSUME i = Len(c) PROVE d[Len(d)] = g
    <3>1. Len(d) \in 1 .. Len(c) + 1 /\ ~(Len(d) < p) /\ Len(d) = p
      BY <1>2, <1>5, <2>2
    <3> QED
      BY <1>5, <3>1
  <2> QED
    BY <1>6, <2>1, <2>2
<1>14. Box(m, d)'
  BY <1>1, <1>3, <1>4, <1>6, <1>7, <1>12, <1>13 DEF Box
<1>15. MbxTypes'
  BY <1>1, <1>3, <1>7 DEF MbxTypes, LinkedIn
<1>16. ASSUME NEW x \in Mbx \ {m}
       PROVE  /\ mbx_head'[x] = mbx_head[x] /\ mbx_last'[x] = mbx_last[x]
              /\ arrived'[x] = arrived[x]
              /\ \A y \in Members(arrived[x]) : msg_next'[y] = msg_next[y]
              /\ Members(arrived'[m]) \cap Members(arrived[x]) = {}
  <2>1. Members(a) \cap Members(arrived[x]) = {} /\ g \notin Members(arrived[x])
    BY DEF MbxIInv, InOneBox
  <2>2. Members(arrived[x]) \subseteq Msg
    <3>1. arrived[x] \in Seq(Msg)
      BY <1>1 DEF MbxTypes
    <3> QED
      BY <3>1, ElementOfSeq, LenProperties DEF Members
  <2>3. /\ mbx_head'[x] = mbx_head[x] /\ mbx_last'[x] = mbx_last[x]
        /\ arrived'[x] = arrived[x]
    BY <1>1 DEF MbxTypes, LinkedIn
  <2> QED
    BY <1>1, <1>3, <1>7, <2>1, <2>2, <2>3
<1> QED
  BY <1>4, <1>7, <1>14, <1>15, <1>16, MbxStep

(* snd_mbx hands the message over, or links it in. *)
LEMMA SndInv ==
  ASSUME MbxIInv, NEW m \in Mbx, NEW g \in Msg, snd_mbx(m, g)
  PROVE  MbxIInv'
<1>1. /\ KernelInvs /\ MbxTypes /\ m \in WObj /\ DOMAIN k.wait_queue = WObj /\ TSKCTX
      /\ \A n \in Mbx : g \notin Members(arrived[n])
  BY MbxAssumption DEF MbxIInv, KernelInvs, TypeInv, TypeOK, Tables, snd_mbx, TSKCTX_UNL,
                       Members
<1>2. CASE k.wait_queue[m] # << >>
  <2> DEFINE t == Head(k.wait_queue[m])
             k2 == wait_complete([k EXCEPT !.wait_queue[m] = Tail(@)], t)
             disp == Disp(make_non_wait_ret(k, t))
  <2>1. TaskCall(k2, disp) /\ UNCHANGED mbxvars
    BY <1>2 DEF snd_mbx
  <2>2. KernelInvs' /\ k'.wait_queue = [k.wait_queue EXCEPT ![m] = Tail(@)]
    BY <1>1, <1>2, <2>1, WakeHead
  <2>3. \A n \in Mbx : k.wait_queue[n] = << >> => k'.wait_queue[n] = << >>
    BY <1>1, <1>2, <2>2, MbxAssumption
  <2> QED
    BY <2>1, <2>2, <2>3, MbxKeep
<1>3. CASE k.wait_queue[m] = << >>
  <2>1. /\ arrived' = [arrived EXCEPT ![m] = Append(@, g)] /\ TaskCall(k, FALSE)
        /\ \/ m \in TA_MPRI /\ enqueue_msg_pri(m, g) /\ UNCHANGED mbx_last
           \/ m \notin TA_MPRI /\ append_msg(m, g)
    BY <1>3 DEF snd_mbx
  <2>2. KernelInvs' /\ k' = k
    BY <1>1, <2>1, CallNothing
  <2>3. PICK c \in Seq(Msg) : Box(m, c)
    BY DEF MbxIInv
  <2>4. Len(c) \in Nat /\ (\A j \in 1 .. Len(c) : c[j] \in Msg) /\ (c = << >> <=> Len(c) = 0)
    BY EmptySeq, LenProperties, ElementOfSeq
  <2>5. links(msg_next, c, mbx_head[m]) /\ NoRepeat(c)
    BY <2>3 DEF Box
  <2>6. CASE m \in TA_MPRI
    <3>1. PICK d \in SeqOf(Msg, Cardinality(Msg)) :
            /\ links(msg_next, d, mbx_head[m])
            /\ LET i == insert_pos(d, g)
                   following == IF i < Len(d) THEN d[i + 1] ELSE NULL
               IN IF i = 0
                  THEN /\ msg_next' = [msg_next EXCEPT ![g] = following]
                       /\ mbx_head' = [mbx_head EXCEPT ![m] = g]
                  ELSE /\ msg_next' = [msg_next EXCEPT ![g] = following, ![d[i]] = g]
                       /\ UNCHANGED mbx_head
      BY <2>1, <2>6 DEF enqueue_msg_pri
    <3>2. d \in Seq(Msg)
      BY DEF SeqOf
    <3>3. d = c
      BY <2>5, <3>1, <3>2, LinksOne
    <3> DEFINE i == insert_pos(c, g)
    <3>4. /\ i = 0 => /\ msg_next' = [msg_next EXCEPT ![g] = follows(c, i)]
                      /\ mbx_head' = [mbx_head EXCEPT ![m] = g]
          /\ i # 0 => /\ msg_next' = [msg_next EXCEPT ![g] = follows(c, i), ![c[i]] = g]
                      /\ mbx_head' = mbx_head
      BY <3>1, <3>3 DEF follows
    <3>5. /\ i \in 0 .. Len(c) /\ \A j \in 1 .. i : MSGPRI[c[j]] <= MSGPRI[g]
          /\ i < Len(c) => MSGPRI[c[i + 1]] > MSGPRI[g]
      BY InsertPos
    <3> HIDE DEF i
    <3>6. ASSUME NEW j \in i + 1 .. Len(c) PROVE MSGPRI[g] < MSGPRI[c[j]]
      <4>1. /\ i + 1 \in 1 .. Len(c) /\ j \in 1 .. Len(c) /\ i < Len(c)
            /\ (j = i + 1 \/ i + 1 < j)
        BY <2>4, <3>5, <3>6
      <4>2. MSGPRI[c[i + 1]] \in Nat /\ MSGPRI[c[j]] \in Nat /\ MSGPRI[g] \in Nat
        BY <2>4, <4>1, MbxAssumption
      <4>3. MSGPRI[c[i + 1]] > MSGPRI[g]
        BY <3>5, <4>1
      <4>4. j = i + 1 \/ MSGPRI[c[i + 1]] <= MSGPRI[c[j]]
        <5>1. ASSUME i + 1 < j PROVE ahead(m, c[i + 1], c[j])
          <6>1. i + 1 \in DOMAIN c /\ j \in DOMAIN c
            BY <4>1, LenProperties
          <6> QED
            BY <2>3, <5>1, <6>1 DEF Box
        <5> QED
          BY <2>6, <4>1, <4>2, <5>1 DEF ahead
      <4> QED
        BY <4>2, <4>3, <4>4
    <3>7. mbx_last' = IF m \in TA_MPRI THEN mbx_last ELSE [mbx_last EXCEPT ![m] = g]
      BY <2>1, <2>6
    <3> QED
      <4>1. LinkedIn(m, g, c, i)
        BY <2>6, <3>4, <3>5, <3>6, <3>7 DEF LinkedIn
      <4> QED
        BY <1>1, <1>3, <2>1, <2>2, <2>3, <3>5, <4>1, MbxJoins
  <2>7. CASE m \notin TA_MPRI
    <3> DEFINE i == Len(c)
    <3>1. append_msg(m, g)
      BY <2>1, <2>7
    <3>2. follows(c, i) = NULL /\ i \in 0 .. Len(c)
      BY <2>4 DEF follows
    <3>3. i = 0 <=> mbx_head[m] = NULL
      <4>1. c # << >> => c[1] \in Msg
        BY <2>4
      <4> QED
        BY <2>4, <2>5, <4>1, MbxAssumption DEF links
    <3>4. i # 0 => mbx_last[m] = c[i]
      BY <2>3, <2>4, <2>7 DEF Box
    <3>5. /\ i = 0 => /\ msg_next' = [msg_next EXCEPT ![g] = follows(c, i)]
                      /\ mbx_head' = [mbx_head EXCEPT ![m] = g]
          /\ i # 0 => /\ msg_next' = [msg_next EXCEPT ![g] = follows(c, i), ![c[i]] = g]
                      /\ mbx_head' = mbx_head
          /\ mbx_last' = [mbx_last EXCEPT ![m] = g]
      BY <3>1, <3>2, <3>3, <3>4 DEF append_msg
    <3>6. /\ \A j \in 1 .. i : m \in TA_MPRI => MSGPRI[c[j]] <= MSGPRI[g]
          /\ \A j \in i + 1 .. Len(c) : m \in TA_MPRI /\ MSGPRI[g] < MSGPRI[c[j]]
      BY <2>4, <2>7
    <3>7. mbx_last' = IF m \in TA_MPRI THEN mbx_last ELSE [mbx_last EXCEPT ![m] = g]
      BY <2>7, <3>5
    <3> HIDE DEF i
    <3> QED
      <4>1. LinkedIn(m, g, c, i)
        BY <3>5, <3>6, <3>7 DEF LinkedIn
      <4> QED
        BY <1>1, <1>3, <2>1, <2>2, <2>3, <3>2, <4>1, MbxJoins
  <2> QED
    BY <2>6, <2>7
<1> QED
  BY <1>2, <1>3

(* rcv_mbx, prcv_mbx and trcv_mbx with a message there. *)
LEMMA RcvInv ==
  ASSUME MbxIInv, NEW m \in Mbx, prcv_mbx(m)
  PROVE  MbxIInv'
<1>1. /\ KernelInvs /\ MbxTypes /\ InOneBox /\ TSKCTX /\ mbx_head[m] # NULL
      /\ mbx_head' = [mbx_head EXCEPT ![m] = msg_next[mbx_head[m]]]
      /\ mbx_last' = mbx_last /\ msg_next' = msg_next /\ TaskCall(k, FALSE)
  BY DEF MbxIInv, prcv_mbx, TSKCTX_UNL
<1>3. KernelInvs' /\ k' = k
  BY <1>1, CallNothing
<1>4. PICK c \in Seq(Msg) : Box(m, c)
  BY DEF MbxIInv
<1> DEFINE d == Tail(c)
           a == arrived[m]
<1>5. /\ c # << >> /\ links(msg_next, c, mbx_head[m]) /\ NoRepeat(c)
      /\ Members(c) = Members(a) /\ k.wait_queue[m] = << >>
      /\ m \notin TA_MPRI => mbx_last[m] = c[Len(c)]
  BY <1>1, <1>4 DEF Box, links
<1>6. mbx_head[m] = c[1] /\ links(msg_next, d, msg_next[mbx_head[m]])
  BY <1>5, LinksTail
<1>2. PICK i \in DOMAIN a : a[i] = mbx_head[m] /\ arrived' = [arrived EXCEPT ![m] = RemoveAt(@, i)]
  <2>1. 1 \in DOMAIN c
    BY <1>5, EmptySeq, LenProperties
  <2>2. c[1] \in Members(a)
    BY <1>5, <2>1 DEF Members
  <2>3. \E i \in DOMAIN a : a[i] = mbx_head[m]
    BY <1>6, <2>2 DEF Members
  <2>4. arrived' = [arrived EXCEPT ![m] =
                      RemoveAt(@, CHOOSE i \in DOMAIN a : a[i] = mbx_head[m])]
    BY DEF prcv_mbx
  <2> QED
    BY <2>3, <2>4, Zenon
<1>7. /\ d \in Seq(Msg) /\ NoRepeat(d) /\ Members(d) = Members(c) \ {Head(c)} /\ Head(c) = c[1]
  BY <1>5, TailMembers
<1>8. /\ Len(c) \in Nat \ {0} /\ DOMAIN c = 1 .. Len(c) /\ Len(d) = Len(c) - 1
      /\ DOMAIN d = 1 .. Len(c) - 1 /\ \A j \in 1 .. Len(c) - 1 : d[j] = c[j + 1]
  <2>1. Len(c) \in Nat \ {0} /\ DOMAIN c = 1 .. Len(c)
    BY <1>5, EmptySeq, LenProperties
  <2>2. Len(d) = Len(c) - 1
    BY <1>5, HeadTailProperties
  <2>3. DOMAIN d = 1 .. Len(d)
    BY <1>7, LenProperties
  <2>4. \A j \in 1 .. Len(d) : d[j] = c[j + 1]
    BY <1>5, HeadTailProperties
  <2> QED
    BY <2>1, <2>2, <2>3, <2>4
<1> HIDE DEF d
<1>9. /\ a \in Seq(Msg) /\ NoRepeat(a) /\ arrived'[m] = RemoveAt(a, i)
      /\ mbx_head[m] \in Msg /\ msg_next[mbx_head[m]] \in Msg \cup {NULL}
      /\ mbx_head'[m] = msg_next[mbx_head[m]]
  BY <1>1, <1>2 DEF MbxTypes, InOneBox
<1>10. /\ arrived'[m] \in Seq(Msg) /\ NoRepeat(arrived'[m])
       /\ Members(arrived'[m]) = Members(a) \ {c[1]}
  <2> HIDE DEF a
  <2>1. /\ RemoveAt(a, i) \in Seq(Msg) /\ NoRepeat(RemoveAt(a, i))
        /\ Members(RemoveAt(a, i)) = Members(a) \ {a[i]}
    <3>1. i \in DOMAIN a
      BY DEF a
    <3> QED
      BY <1>9, <3>1, RemoveMembers
  <2>2. a[i] = c[1]
    BY <1>2, <1>6 DEF a
  <2> QED
    BY <1>9, <2>1, <2>2
<1>11. ASSUME NEW x, NEW y, x # c[1], y # c[1], ahead(m, x, y) PROVE ahead(m, x, y)'
  <2>1. ASSUME before(m, x, y) PROVE before(m, x, y)'
    <3>1. PICK r \in DOMAIN a, s \in DOMAIN a : r < s /\ a[r] = x /\ a[s] = y
      BY <2>1 DEF before
    <3>2. r # i /\ s # i /\ i \in DOMAIN a
      BY <1>2, <1>6, <1>11, <3>1
    <3>3. \E u, v \in DOMAIN RemoveAt(a, i) :
            u < v /\ RemoveAt(a, i)[u] = a[r] /\ RemoveAt(a, i)[v] = a[s]
      <4> HIDE DEF a
      <4> QED
        BY <1>9, <3>1, <3>2, RemoveMembers
    <3> QED
      BY <1>9, <3>1, <3>3 DEF before
  <2> QED
    BY <1>11, <2>1 DEF ahead
<1>12. ASSUME NEW r \in DOMAIN d, NEW s \in DOMAIN d, r < s PROVE ahead(m, d[r], d[s])'
  <2>1. /\ r + 1 \in DOMAIN c /\ s + 1 \in DOMAIN c /\ r + 1 < s + 1 /\ 1 \in DOMAIN c
        /\ r + 1 # 1 /\ s + 1 # 1
    BY <1>8, <1>12
  <2>2. d[r] = c[r + 1] /\ d[s] = c[s + 1]
    BY <1>8, <1>12
  <2>3. ahead(m, c[r + 1], c[s + 1])
    BY <1>4, <2>1 DEF Box
  <2>4. c[r + 1] # c[1] /\ c[s + 1] # c[1]
    BY <1>5, <2>1 DEF NoRepeat
  <2> QED
    BY <1>11, <2>2, <2>3, <2>4
<1>13. d # << >> /\ m \notin TA_MPRI => mbx_last'[m] = d[Len(d)]
  <2>1. ASSUME d # << >> PROVE d[Len(d)] = c[Len(c)]
    <3>1. Len(d) # 0
      BY <1>7, <2>1, EmptySeq
    <3>2. Len(d) \in 1 .. Len(c) - 1 /\ Len(d) + 1 = Len(c)
      BY <1>8, <3>1
    <3> QED
      BY <1>8, <3>2
  <2> QED
    BY <1>1, <1>5, <2>1
<1>14. Box(m, d)'
  BY <1>1, <1>3, <1>5, <1>6, <1>7, <1>9, <1>10, <1>12, <1>13 DEF Box
<1>15. MbxTypes'
  BY <1>1, <1>2, <1>9, <1>10 DEF MbxTypes
<1>16. ASSUME NEW x \in Mbx \ {m}
       PROVE  /\ mbx_head'[x] = mbx_head[x] /\ mbx_last'[x] = mbx_last[x]
              /\ arrived'[x] = arrived[x]
              /\ \A y \in Members(arrived[x]) : msg_next'[y] = msg_next[y]
              /\ Members(arrived'[m]) \cap Members(arrived[x]) = {}
  <2>1. Members(a) \cap Members(arrived[x]) = {}
    BY <1>1 DEF InOneBox
  <2> QED
    BY <1>1, <1>2, <1>10, <2>1 DEF MbxTypes
<1> QED
  BY <1>3, <1>7, <1>10, <1>14, <1>15, <1>16, MbxStep

(* rcv_mbx and trcv_mbx when they block. *)
LEMMA RcvWaitInv ==
  ASSUME MbxIInv, NEW m \in Mbx, NEW tm \in {"none", "wait_tmout"}, trcv_mbx(m, tm)
  PROVE  MbxIInv'
<1>1. /\ KernelInvs /\ m \in WObj /\ DOMAIN k.wait_queue = WObj
      /\ CAN_WAIT /\ mbx_head[m] = NULL /\ UNCHANGED mbxvars
      /\ TaskCall(wobj_make_wait_tmout(k, runtsk, m, tm), TRUE)
  BY MbxAssumption DEF MbxIInv, KernelInvs, TypeInv, TypeOK, Tables, trcv_mbx
<1>2. PICK q : KernelInvs' /\ k'.wait_queue = [k.wait_queue EXCEPT ![m] = q]
  BY <1>1, WaitOnObject
<1>3. \A n \in Mbx : mbx_head[n] # NULL /\ k.wait_queue[n] = << >> =>
        k'.wait_queue[n] = << >>
  BY <1>1, <1>2, MbxAssumption
<1> QED
  BY <1>1, <1>2, <1>3, MbxKeep

(* Every service of a mailbox, and every step of the kernel, keeps the     *)
(* strengthened invariant.                                                 *)
LEMMA MbxNextInv == MbxIInv /\ [MbxNext]_<<kvars, mbxvars>> => MbxIInv'
<1> SUFFICES ASSUME MbxIInv, [MbxNext]_<<kvars, mbxvars>> PROVE MbxIInv'
  OBVIOUS
<1>1. CASE MbxCalls
  BY <1>1, SndInv, RcvInv, RcvWaitInv DEF MbxCalls
<1>2. CASE [Next]_kvars /\ UNCHANGED mbxvars
  <2>1. KernelInvs' /\ NoNew(k', k)
    BY <1>2, KernelStep, NextNoNew DEF MbxIInv, KernelInvs
  <2>2. \A m \in Mbx : k.wait_queue[m] = << >> => k'.wait_queue[m] = << >>
    BY <2>1, MbxAssumption DEF NoNew
  <2> QED
    BY <1>2, <2>1, <2>2, MbxKeep
<1> QED
  BY <1>1, <1>2 DEF MbxNext

(* It holds when no message has been sent. *)
LEMMA MbxInitInv == MbxInit => MbxIInv
<1> SUFFICES ASSUME MbxInit PROVE MbxIInv
  OBVIOUS
<1>1. KernelInvs
  BY KernelStart DEF MbxInit
<1>2. MbxTypes
  BY DEF MbxInit, MbxTypes
<1>3. DOMAIN << >> = {}
  OBVIOUS
<1>4. \A m \in Mbx : arrived[m] = << >> /\ Members(arrived[m]) = {}
  BY <1>3 DEF MbxInit, Members
<1>5. InOneBox
  BY <1>3, <1>4 DEF InOneBox, NoRepeat
<1>6. ASSUME NEW m \in Mbx PROVE \E c \in Seq(Msg) : Box(m, c)
  <2>1. << >> \in Seq(Msg) /\ mbx_head[m] = NULL
    BY DEF MbxInit
  <2>2. Box(m, << >>)
    BY <1>3, <1>4, <2>1 DEF Box, links, NoRepeat, Members
  <2> QED
    BY <2>1, <2>2
<1> QED
  BY <1>1, <1>2, <1>5, <1>6 DEF MbxIInv

(* The links of a mailbox run through its messages in the order they are   *)
(* due and end there, and no task waits for one that is there, for every   *)
(* number of mailboxes, messages and priorities.                           *)
THEOREM MailboxesRight == MbxSpec => []MbxInv
<1>1. MbxIInv => MbxInv
  <2> SUFFICES ASSUME MbxIInv, NEW m \in Mbx
               PROVE  \E c \in SeqOf(Msg, Cardinality(Msg)) :
                        /\ links(msg_next, c, mbx_head[m])
                        /\ Members(c) = Members(arrived[m])
                        /\ \A i, j \in DOMAIN c : i < j => ahead(m, c[i], c[j])
                        /\ c # << >> => k.wait_queue[m] = << >>
    BY DEF MbxInv
  <2>1. PICK c \in Seq(Msg) : Box(m, c)
    BY DEF MbxIInv
  <2>2. c \in SeqOf(Msg, Cardinality(Msg))
    BY <2>1, NoRepeatShort DEF Box
  <2> QED
    BY <2>1, <2>2 DEF Box
<1> QED
  BY <1>1, MbxInitInv, MbxNextInv, PTL DEF MbxSpec

-----------------------------------------------------------------------------
(* Part 8: the system log, which stands beside the kernel: for a ring of   *)
(* any size and any number of records.  Inductive with LogInv: what the    *)
(* log task is about to announce lies between what it has told and the     *)
(* record it holds.                                                        *)

(* The size of the ring. *)
N == TCNT_SYSLOG_BUFFER

LogTypes ==
  /\ syslog_buffer \in [0 .. N - 1 -> [no : Nat, printed : BOOLEAN]]
  /\ syslog_count \in 0 .. N
  /\ syslog_head \in 0 .. N - 1 /\ syslog_tail \in 0 .. N - 1
  /\ {syslog_lost, written, lostnum, told} \subseteq Nat
  /\ logtask \in {"delay", "output", "lostmsg", "print"}
  /\ log \in [no : Nat, printed : BOOLEAN]

(* The place of the i-th record of the ring. *)
wrap(x) == IF x < N THEN x ELSE x - N
at(i) == wrap(syslog_head + i - 1)

LogIInv ==
  /\ LogTypes
  /\ syslog_tail = wrap(syslog_head + syslog_count)
  /\ \A i \in 1 .. syslog_count : syslog_buffer[at(i)].no = written - syslog_count + i
  /\ told + lostnum + syslog_lost + syslog_count
       + (IF logtask \in {"lostmsg", "print"} THEN 1 ELSE 0) = written
  /\ logtask = "lostmsg" => log.no = told + lostnum + 1
  /\ logtask = "print" => log.no = told + 1

(* The places of the ring, written with %. *)
LEMMA WrapIsMod ==
  ASSUME NEW x \in 0 .. 2 * N - 1
  PROVE  x % N = wrap(x)
  BY LogAssumption DEF N, wrap

(* The strengthened invariant implies the one the runs check. *)
LEMMA LogInvFollows == LogIInv => LogInv
<1> SUFFICES ASSUME LogIInv PROVE LogInv
  OBVIOUS
<1>1. N \in Nat \ {0}
  BY LogAssumption DEF N
<1>2. (syslog_head + syslog_count) % N = wrap(syslog_head + syslog_count)
  BY <1>1, WrapIsMod DEF LogIInv, LogTypes
<1>3. \A i \in 1 .. syslog_count : (syslog_head + i - 1) % N = at(i)
  BY <1>1, WrapIsMod DEF LogIInv, LogTypes, at
<1> QED
  BY <1>2, <1>3 DEF LogIInv, LogInv, N

(* It holds for the empty log. *)
LEMMA LogInitOK == LogInit => LogIInv
<1> SUFFICES ASSUME LogInit PROVE LogIInv
  OBVIOUS
<1>1. N \in Nat \ {0}
  BY LogAssumption DEF N
<1>2. LogTypes
  BY <1>1 DEF LogInit, LogTypes, NoRecord, Record, N
<1> QED
  BY <1>1, <1>2 DEF LogInit, LogIInv, wrap

(* A record is written; a full ring loses its oldest. *)
LEMMA WriteOK ==
  ASSUME LogIInv, NEW prio, NEW printed \in BOOLEAN, vwri_log(prio, printed)
  PROVE  LogIInv'
<1> DEFINE full == syslog_count = N
<1>1. /\ N \in Nat \ {0} /\ written \in Nat
      /\ syslog_tail \in 0 .. N - 1 /\ syslog_head \in 0 .. N - 1 /\ syslog_count \in 0 .. N
      /\ syslog_tail = wrap(syslog_head + syslog_count)
  BY LogAssumption DEF N, LogIInv, LogTypes
<1>2. /\ written' = written + 1
      /\ syslog_buffer' = [syslog_buffer EXCEPT ![syslog_tail] =
                             [no |-> written + 1, printed |-> printed]]
      /\ syslog_tail' = wrap(syslog_tail + 1)
      /\ syslog_count' = (IF full THEN syslog_count ELSE syslog_count + 1)
      /\ syslog_head' = (IF full THEN wrap(syslog_head + 1) ELSE syslog_head)
      /\ syslog_lost' = (IF full THEN syslog_lost + 1 ELSE syslog_lost)
      /\ UNCHANGED <<logtask, lostnum, log, told>>
  <2>1. next_log(syslog_tail) = wrap(syslog_tail + 1)
    BY <1>1 DEF next_log, wrap, N
  <2>2. full => syslog_tail = syslog_head
    BY <1>1 DEF wrap
  <2>3. syslog_count < N <=> ~full
    BY <1>1
  <2> QED
    BY <2>1, <2>2, <2>3 DEF vwri_log, Record, reader, N
<1>3. wrap(syslog_tail + 1) \in 0 .. N - 1 /\ wrap(syslog_head + 1) \in 0 .. N - 1
  BY <1>1 DEF wrap
<1>4. LogTypes'
  <2>1. [no |-> written + 1, printed |-> printed] \in [no : Nat, printed : BOOLEAN]
    BY <1>1
  <2>2. syslog_buffer' \in [0 .. N - 1 -> [no : Nat, printed : BOOLEAN]]
    BY <1>2, <2>1 DEF LogIInv, LogTypes
  <2>3. syslog_lost' \in Nat /\ written' \in Nat /\ syslog_count' \in 0 .. N
    <3>1. syslog_lost \in Nat
      BY DEF LogIInv, LogTypes
    <3>2. written' \in Nat /\ syslog_lost' \in Nat
      BY <1>1, <1>2, <3>1
    <3>3. syslog_count' \in 0 .. N
      BY <1>1, <1>2
    <3> QED
      BY <3>2, <3>3
  <2>4. syslog_head' \in 0 .. N - 1 /\ syslog_tail' \in 0 .. N - 1
    BY <1>1, <1>2, <1>3
  <2> QED
    BY <1>2, <2>2, <2>3, <2>4 DEF LogIInv, LogTypes, N
<1>5. syslog_tail' = wrap(syslog_head' + syslog_count')
  BY <1>1, <1>2 DEF wrap
<1>6. ASSUME NEW i \in 1 .. syslog_count'
      PROVE  syslog_buffer'[at(i)'].no = written' - syslog_count' + i
  <2>1. at(i)' = IF full THEN at(i + 1) ELSE at(i)
    <3>1. i \in Int /\ i >= 1 /\ i <= N
      BY <1>1, <1>2
    <3>2. CASE full
      BY <1>1, <1>2, <3>1, <3>2 DEF at, wrap, N
    <3>3. CASE ~full
      BY <1>1, <1>2, <3>1, <3>3 DEF at, wrap, N
    <3> QED
      BY <3>2, <3>3
  <2>2. CASE i = syslog_count'
    <3>1. at(i)' = syslog_tail
      BY <1>1, <1>2, <2>1, <2>2 DEF at, wrap
    <3> QED
      BY <1>1, <1>2, <2>2, <3>1 DEF LogIInv, LogTypes
  <2>3. CASE i # syslog_count'
    <3> DEFINE j == IF full THEN i + 1 ELSE i
    <3>1. j \in 1 .. syslog_count /\ at(i)' = at(j)
      BY <1>1, <1>2, <2>1, <2>3
    <3>2. at(j) # syslog_tail
      BY <1>1, <1>2, <2>3 DEF at, wrap
    <3>3. syslog_buffer[at(j)].no = written - syslog_count + j
      BY <3>1 DEF LogIInv
    <3>4. syslog_buffer'[at(j)] = syslog_buffer[at(j)]
      BY <1>2, <3>2 DEF LogIInv, LogTypes
    <3>5. written - syslog_count + j = written' - syslog_count' + i
      BY <1>1, <1>2
    <3> QED
      BY <3>1, <3>3, <3>4, <3>5
  <2> QED
    BY <2>2, <2>3
<1>7. /\ told' + lostnum' + syslog_lost' + syslog_count'
           + (IF logtask' \in {"lostmsg", "print"} THEN 1 ELSE 0) = written'
      /\ logtask' = "lostmsg" => log'.no = told' + lostnum' + 1
      /\ logtask' = "print" => log'.no = told' + 1
  <2>1. {syslog_lost, lostnum, told} \subseteq Nat
    BY DEF LogIInv, LogTypes
  <2>2. syslog_lost' + syslog_count' = syslog_lost + syslog_count + 1
    BY <1>1, <1>2, <2>1
  <2>3. syslog_lost' \in Nat /\ syslog_count' \in Nat
    BY <1>1, <1>2, <2>1
  <2> QED
    BY <1>1, <1>2, <2>1, <2>2, <2>3 DEF LogIInv
<1> QED
  BY <1>4, <1>5, <1>6, <1>7 DEF LogIInv

(* The log task reads a record, or finds none. *)
LEMMA ReadOK ==
  ASSUME LogIInv, output_read
  PROVE  LogIInv'
<1>1. /\ N \in Nat \ {0} /\ written \in Nat /\ told \in Nat /\ lostnum \in Nat
      /\ syslog_lost \in Nat
      /\ syslog_tail \in 0 .. N - 1 /\ syslog_head \in 0 .. N - 1 /\ syslog_count \in 0 .. N
      /\ syslog_tail = wrap(syslog_head + syslog_count)
      /\ told + lostnum + syslog_lost + syslog_count = written
      /\ UNCHANGED <<syslog_buffer, syslog_tail, written>>
  <2>1. /\ N \in Nat \ {0} /\ written \in Nat /\ told \in Nat /\ lostnum \in Nat
        /\ syslog_lost \in Nat
        /\ syslog_tail \in 0 .. N - 1 /\ syslog_head \in 0 .. N - 1 /\ syslog_count \in 0 .. N
    BY LogAssumption DEF N, LogIInv, LogTypes
  <2>2. logtask \in {"delay", "output"} /\ UNCHANGED <<syslog_buffer, syslog_tail, written>>
    BY DEF output_read, vrea_log, syslog_ring
  <2>3. told + lostnum + syslog_lost + syslog_count + 0 = written
    BY <2>2 DEF LogIInv
  <2> QED
    BY <2>1, <2>2, <2>3 DEF LogIInv
<1>2. CASE vrea_log
  <2>1. /\ syslog_count > 0 /\ log' = syslog_buffer[syslog_head]
        /\ syslog_count' = syslog_count - 1 /\ syslog_head' = wrap(syslog_head + 1)
        /\ lostnum' = lostnum + syslog_lost /\ syslog_lost' = 0
    BY <1>1, <1>2 DEF vrea_log, next_log, wrap, N
  <2>2. /\ log'.no = written - syslog_count + 1
        /\ log' \in [no : Nat, printed : BOOLEAN]
    <3>1. at(1) = syslog_head /\ 1 \in 1 .. syslog_count
      BY <1>1, <2>1 DEF at, wrap
    <3> QED
      BY <1>1, <2>1, <3>1 DEF LogIInv, LogTypes
  <2>3. \/ logtask' = "lostmsg" /\ told' = told
        \/ logtask' = "print" /\ told' = told /\ lostnum' = 0
        \/ logtask' = "output" /\ told' = told + 1
    <3>1. IF log'.printed
          THEN logtask' = (IF lostnum' > 0 THEN "lostmsg" ELSE "print") /\ UNCHANGED told
          ELSE logtask' = "output" /\ told' = told + 1
      BY <2>1 DEF output_read
    <3> QED
      BY <1>1, <2>1, <3>1
  <2>4. wrap(syslog_head + 1) \in 0 .. N - 1
    BY <1>1 DEF wrap
  <2>5. LogTypes'
    <3>1. told' \in Nat /\ lostnum' \in Nat /\ syslog_count' \in 0 .. N
      BY <1>1, <2>1, <2>3
    <3> QED
      BY <1>1, <2>1, <2>2, <2>3, <2>4, <3>1 DEF LogIInv, LogTypes, N
  <2>6. syslog_tail' = wrap(syslog_head' + syslog_count')
    BY <1>1, <2>1 DEF wrap
  <2>7. ASSUME NEW i \in 1 .. syslog_count'
        PROVE  syslog_buffer'[at(i)'].no = written' - syslog_count' + i
    <3>1. i + 1 \in 1 .. syslog_count
      BY <1>1, <2>1
    <3>2. at(i)' = at(i + 1)
      BY <1>1, <2>1, <3>1 DEF at, wrap, N
    <3>3. syslog_buffer[at(i + 1)].no = written - syslog_count + (i + 1)
      BY <3>1 DEF LogIInv
    <3> QED
      BY <1>1, <2>1, <3>2, <3>3
  <2> QED
    BY <1>1, <2>1, <2>2, <2>3, <2>5, <2>6, <2>7 DEF LogIInv
<1>3. CASE ~vrea_log
  <2>1. /\ UNCHANGED <<syslog_buffer, syslog_count, syslog_head, syslog_tail, syslog_lost, log>>
        /\ logtask' = "delay" /\ told' = told + lostnum /\ lostnum' = 0
    BY <1>3 DEF output_read, syslog_ring
  <2>2. LogTypes'
    BY <1>1, <2>1 DEF LogIInv, LogTypes, N
  <2>3. \A i : at(i)' = at(i)
    BY <2>1 DEF at, wrap, N
  <2>4. wrap(syslog_head + syslog_count)' = wrap(syslog_head + syslog_count)
    BY <2>1 DEF wrap, N
  <2> QED
    BY <1>1, <2>1, <2>2, <2>3, <2>4 DEF LogIInv
<1> QED
  BY <1>2, <1>3

(* The other steps leave the ring alone. *)
LEMMA RestOK ==
  ASSUME LogIInv, UNCHANGED <<syslog_ring, written>>,
         \/ UNCHANGED reader
         \/ syslog_lostmsg \/ syslog_print
  PROVE  LogIInv'
<1>1. UNCHANGED <<syslog_buffer, syslog_count, syslog_head, syslog_tail, syslog_lost, written>>
  BY DEF syslog_ring
<1>2. \A x : at(x)' = at(x) /\ wrap(x)' = wrap(x)
  BY <1>1 DEF at, wrap, N
<1>3. told \in Nat /\ lostnum \in Nat /\ syslog_lost \in Nat /\ syslog_count \in Nat
  BY LogAssumption DEF LogIInv, LogTypes, N
<1>4. \/ UNCHANGED <<logtask, told, lostnum, log>>
      \/ /\ logtask = "lostmsg" /\ logtask' = "print" /\ log' = log
         /\ told' = told + lostnum /\ lostnum' = 0
      \/ /\ logtask = "print" /\ logtask' = "output" /\ log' = log
         /\ told' = told + 1 /\ lostnum' = lostnum
  BY DEF reader, syslog_lostmsg, syslog_print
<1>5. LogTypes'
  <2>1. told' \in Nat /\ lostnum' \in Nat
    BY <1>3, <1>4
  <2> QED
    BY <1>1, <1>4, <2>1 DEF LogIInv, LogTypes, N
<1>6. syslog_tail' = wrap(syslog_head' + syslog_count')
  BY <1>1, <1>2 DEF LogIInv, wrap, N
<1>7. \A i \in 1 .. syslog_count' : syslog_buffer'[at(i)'].no = written' - syslog_count' + i
  BY <1>1, <1>2 DEF LogIInv
<1> QED
  BY <1>1, <1>3, <1>4, <1>5, <1>6, <1>7 DEF LogIInv

(* When a record is printed, every earlier one has been printed, skipped   *)
(* for its type or announced as lost; the ring holds the newest records in *)
(* order; none is out of the count.                                        *)
THEOREM LogIsHonest == LogSpec => []LogInv
<1>1. LogIInv /\ [LogNext]_logvars => LogIInv'
  <2> SUFFICES ASSUME LogIInv, [LogNext]_logvars PROVE LogIInv'
    OBVIOUS
  <2>1. CASE UNCHANGED logvars
    BY <2>1, RestOK DEF logvars
  <2>2. ASSUME NEW prio \in Severity, NEW printed \in BOOLEAN, vwri_log(prio, printed)
        PROVE  LogIInv'
    BY <2>2, WriteOK
  <2>3. ASSUME NEW mask, vmsk_log(mask) PROVE LogIInv'
    BY <2>3, RestOK DEF vmsk_log
  <2>4. CASE output_read
    BY <2>4, ReadOK
  <2>5. CASE syslog_lostmsg \/ syslog_print
    BY <2>5, RestOK DEF syslog_lostmsg, syslog_print
  <2> QED
    BY <2>1, <2>2, <2>3, <2>4, <2>5 DEF LogNext
<1> QED
  BY <1>1, LogInitOK, LogInvFollows, PTL DEF LogSpec

=============================================================================
