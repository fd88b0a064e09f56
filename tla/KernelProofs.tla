---------------------------- MODULE KernelProofs ----------------------------
(***************************************************************************)
(* Proofs about the kernel, for any set of tasks, priorities, wait queues  *)
(* and bounds.  Part 1: its state keeps its types.  Part 2: it loses no    *)
(* dispatch and no task exception.  The other parts: its tables are        *)
(* consistent, that is the ready queues, schedtsk, the running task,       *)
(* tstat, the time events and the wait queues.  Part 3 is about queues,    *)
(* part 4 about the scheduler's tables, part 5 about TCBs and wait queues, *)
(* part 6 about the two ends of a service call, part 7 goes through the    *)
(* actions of module Kernel, and part 8 is about the order within a ready  *)
(* queue.  The theorems of a part are at its end.                          *)
(***************************************************************************)
EXTENDS KernelInv, SequenceTheorems, FiniteSetTheorems,
        WellFoundedInduction, TLAPS

-----------------------------------------------------------------------------
(* Part 1: types.  TypeOK is not inductive: schedtsk is read off the head  *)
(* of a ready queue, and is a task only if ready_primap names no empty     *)
(* queue.  GoodTables is the strengthening, and each routine of            *)
(* KernelTables preserves it: one lemma per routine.                       *)

GoodTables(kk) ==
  /\ kk \in Tables
  /\ \A p \in kk.ready_primap : kk.ready_queue[p] # << >>

-----------------------------------------------------------------------------
(* Sequences and minima *)

(* A non-empty set of natural numbers has a least element. *)
LEMMA LeastNatural ==
  ASSUME NEW S, S \subseteq Nat, S # {}
  PROVE  \E m \in S : \A n \in S : m <= n
<1> DEFINE T == {1 .. n : n \in S}
           R == StrictSubsetOrdering(Nat)
<1>1. T \subseteq FiniteSubsetsOf(Nat)
  BY FS_Interval DEF FiniteSubsetsOf
<1>2. T # {}
  OBVIOUS
<1>3. \E x \in T : \A y \in T : ~(<<y, x>> \in R)
  BY <1>1, <1>2, FS_StrictSubsetOrderingWellFounded, WFMin
<1>4. PICK m \in S : \A n \in S : ~(<<1 .. n, 1 .. m>> \in R)
  BY <1>3
<1>5. ASSUME NEW n \in S, n < m
      PROVE  <<1 .. n, 1 .. m>> \in R
  <2>1. n \in Nat /\ m \in Nat
    OBVIOUS
  <2>2. 1 .. n \subseteq 1 .. m /\ m \in 1 .. m /\ ~(m \in 1 .. n)
    BY <2>1, <1>5
  <2>3. 1 .. n \in SUBSET Nat /\ 1 .. m \in SUBSET Nat
    BY <2>1
  <2> QED
    BY <2>2, <2>3 DEF StrictSubsetOrdering
<1>6. ASSUME NEW n \in S
      PROVE  m <= n
  <2>1. ~(n < m)
    BY <1>4, <1>5
  <2> QED
    BY <2>1
<1> QED
  BY <1>6

(* A queue with a task appended is not empty. *)
LEMMA AppendType ==
  ASSUME NEW S, NEW q \in Seq(S), NEW t \in S
  PROVE  Append(q, t) \in Seq(S) /\ Append(q, t) # << >>
<1>1. Append(q, t) \in Seq(S) /\ Len(Append(q, t)) = Len(q) + 1 /\ Len(q) \in Nat
  BY AppendProperties, LenProperties
<1>2. Len(<< >>) = 0
  OBVIOUS
<1>3. Len(Append(q, t)) # 0
  BY <1>1
<1> QED
  BY <1>1, <1>2, <1>3

(* Removing an element of a sequence leaves a sequence of the same kind. *)
LEMMA RemoveAtType ==
  ASSUME NEW S, NEW q \in Seq(S), NEW i \in 1 .. Len(q)
  PROVE  RemoveAt(q, i) \in Seq(S)
<1>1. SubSeq(q, 1, i-1) \in Seq(S)
  BY SubSeqProperties
<1>2. SubSeq(q, i+1, Len(q)) \in Seq(S)
  BY SubSeqProperties
<1> QED BY <1>1, <1>2, ConcatProperties DEF RemoveAt

(* queue_delete leaves a queue of tasks. *)
LEMMA QueueDeleteType ==
  ASSUME NEW S, NEW q \in Seq(S), NEW t
  PROVE  queue_delete(q, t) \in Seq(S)
<1> DEFINE I == {i \in 1 .. Len(q) : q[i] = t}
<1>1. CASE I = {}
  BY <1>1 DEF queue_delete, RemoveFirst
<1>2. CASE I # {}
  <2>0. I \subseteq Nat
    OBVIOUS
  <2>1. \E m \in I : \A n \in I : m <= n
    BY <1>2, <2>0, LeastNatural
  <2>2. SelectInSeq(q, LAMBDA v : v = t) \in 1 .. Len(q)
    BY <1>2, <2>1 DEF SelectInSeq, Min
  <2> QED
    BY <2>2, RemoveAtType DEF queue_delete, RemoveFirst
<1> QED BY <1>1, <1>2

(* Priority-ordered insertion leaves a queue of tasks. *)
LEMMA InsertTpriType ==
  ASSUME NEW kk, NEW q \in Seq(Task), NEW t \in Task
  PROVE  queue_insert_tpri(kk, q, t) \in Seq(Task)
<1> DEFINE I == {i \in 1 .. Len(q) : kk.tcb[t].priority < kk.tcb[q[i]].priority}
           pos == SelectInSeq(q, LAMBDA u : kk.tcb[t].priority < kk.tcb[u].priority)
<1>1. pos \in 0 .. Len(q)
  <2>1. CASE I = {}
    BY <2>1 DEF SelectInSeq
  <2>2. CASE I # {}
    <3>0. I \subseteq Nat
      OBVIOUS
    <3>1. \E m \in I : \A n \in I : m <= n
      BY <2>2, <3>0, LeastNatural
    <3>2. Min(I) \in I
      BY <3>1 DEF Min
    <3>3. pos = Min(I)
      BY <2>2 DEF SelectInSeq
    <3> QED
      BY <3>2, <3>3
  <2> QED BY <2>1, <2>2
<1>2. ASSUME NEW i \in 1 .. Len(q)
      PROVE  InsertAt(q, i, t) \in Seq(Task)
  <2>1. SubSeq(q, 1, i-1) \in Seq(Task)
    BY SubSeqProperties
  <2>2. SubSeq(q, i, Len(q)) \in Seq(Task)
    BY SubSeqProperties
  <2>3. <<t>> \in Seq(Task)
    OBVIOUS
  <2> QED
    BY <2>1, <2>2, <2>3, ConcatProperties DEF InsertAt
<1>3. Append(q, t) \in Seq(Task)
  OBVIOUS
<1>4. pos # 0 => pos \in 1 .. Len(q)
  BY <1>1
<1>5. queue_insert_tpri(kk, q, t) = IF pos = 0 THEN Append(q, t) ELSE InsertAt(q, pos, t)
  BY DEF queue_insert_tpri
<1> HIDE DEF pos
<1> QED
  BY <1>2, <1>3, <1>4, <1>5

-----------------------------------------------------------------------------
(* Fields *)

(* A task control block with one field replaced by a value of its type. *)
LEMMA TcbUpdate ==
  ASSUME NEW r \in TCB
  PROVE  /\ \A x \in SUBSET TstatBits : [r EXCEPT !.tstat = x] \in TCB
         /\ \A x \in Pri : [r EXCEPT !.priority = x] \in TCB
         /\ \A x \in BOOLEAN : [r EXCEPT !.actcnt = x] \in TCB
         /\ \A x \in BOOLEAN : [r EXCEPT !.wupcnt = x] \in TCB
         /\ \A x \in BOOLEAN : [r EXCEPT !.enatex = x] \in TCB
         /\ \A x \in BOOLEAN : [r EXCEPT !.texptn = x] \in TCB
         /\ \A x \in Nat : [r EXCEPT !.texlevel = x] \in TCB
         /\ \A x \in WInfo : [r EXCEPT !.winfo = x] \in TCB
         /\ \A x \in WObj \cup {NULL} : [r EXCEPT !.wobj = x] \in TCB
         /\ \A x \in TmEvt : [r EXCEPT !.tmevt = x] \in TCB
  BY DEF TCB

(* The same for the TCB of a task in the tables. *)
LEMMA FieldUpdate ==
  ASSUME NEW kk, GoodTables(kk), NEW t \in Task
  PROVE  /\ \A x \in SUBSET TstatBits : GoodTables([kk EXCEPT !.tcb[t].tstat = x])
         /\ \A x \in Pri : GoodTables([kk EXCEPT !.tcb[t].priority = x])
         /\ \A x \in BOOLEAN : GoodTables([kk EXCEPT !.tcb[t].actcnt = x])
         /\ \A x \in BOOLEAN : GoodTables([kk EXCEPT !.tcb[t].wupcnt = x])
         /\ \A x \in BOOLEAN : GoodTables([kk EXCEPT !.tcb[t].enatex = x])
         /\ \A x \in BOOLEAN : GoodTables([kk EXCEPT !.tcb[t].texptn = x])
         /\ \A x \in Nat : GoodTables([kk EXCEPT !.tcb[t].texlevel = x])
         /\ \A x \in WInfo : GoodTables([kk EXCEPT !.tcb[t].winfo = x])
         /\ \A x \in WObj \cup {NULL} : GoodTables([kk EXCEPT !.tcb[t].wobj = x])
         /\ \A x \in TmEvt : GoodTables([kk EXCEPT !.tcb[t].tmevt = x])
<1>1. kk.tcb[t] \in TCB
  BY DEF GoodTables, Tables
<1>2. \A r \in TCB : GoodTables([kk EXCEPT !.tcb[t] = r])
  BY DEF GoodTables, Tables
<1> HIDE DEF GoodTables
<1> QED
  BY <1>1, <1>2, TcbUpdate

(* Constants of the kernel have their types. *)
LEMMA StatTypes ==
  /\ TS_DORMANT \in SUBSET TstatBits /\ TS_RUNNABLE \in SUBSET TstatBits
  /\ TS_WAITING \in SUBSET TstatBits /\ TS_SUSPENDED \in SUBSET TstatBits
  /\ TS_SLEEPING \in SUBSET TstatBits /\ TS_ON_WOBJCB \in SUBSET TstatBits
  BY DEF TS_DORMANT, TS_RUNNABLE, TS_WAITING, TS_SUSPENDED, TS_SLEEPING, TS_ON_WOBJCB, TstatBits

-----------------------------------------------------------------------------
(* task.c *)

(* The head of the most urgent ready queue is a task. *)
LEMMA SearchType ==
  ASSUME NEW kk, GoodTables(kk), kk.ready_primap # {}
  PROVE  search_schedtsk(kk) \in Task
<1>1. kk.ready_primap \subseteq Nat
  BY DEF GoodTables, Tables, Pri
<1>2. \E p \in kk.ready_primap : \A p2 \in kk.ready_primap : p <= p2
  BY <1>1, LeastNatural
<1> DEFINE p == CHOOSE x \in kk.ready_primap : \A p2 \in kk.ready_primap : x <= p2
<1>3. p \in kk.ready_primap
  BY <1>2
<1> HIDE DEF p
<1>4. kk.ready_queue[p] \in Seq(Task) /\ kk.ready_queue[p] # << >>
  BY <1>3 DEF GoodTables, Tables
<1>5. Head(kk.ready_queue[p]) \in Task
  BY <1>4
<1> QED
  BY <1>5 DEF search_schedtsk, p

(* make_runnable preserves GoodTables. *)
LEMMA MakeRunnableType ==
  ASSUME NEW kk, GoodTables(kk), NEW t \in Task
  PROVE  GoodTables(make_runnable(kk, t))
<1> DEFINE pri == kk.tcb[t].priority
           q == Append(kk.ready_queue[pri], t)
<1>0. kk \in Tables /\ \A p \in kk.ready_primap : kk.ready_queue[p] # << >>
  BY DEF GoodTables
<1>1. kk.tcb[t] \in TCB /\ pri \in Pri
  BY <1>0 DEF Tables, TCB
<1>2. [kk.tcb[t] EXCEPT !.tstat = TS_RUNNABLE] \in TCB
  BY <1>1, TcbUpdate, StatTypes
<1>3. q \in Seq(Task) /\ q # << >>
  BY <1>0, <1>1, AppendType DEF Tables
<1>4. kk.ready_primap \cup {pri} \in SUBSET Pri
  BY <1>0, <1>1 DEF Tables
<1>5. make_runnable(kk, t) \in Tables
  BY <1>0, <1>1, <1>2, <1>3, <1>4 DEF make_runnable, Tables, queue_insert_prev
<1>6. /\ make_runnable(kk, t).ready_queue = [kk.ready_queue EXCEPT ![pri] = q]
      /\ make_runnable(kk, t).ready_primap = kk.ready_primap \cup {pri}
  BY <1>0 DEF make_runnable, Tables, queue_insert_prev
<1>7. kk.ready_queue \in [Pri -> Seq(Task)] /\ kk.ready_primap \subseteq Pri
  BY <1>0 DEF Tables
<1> HIDE DEF pri, q
<1>8. \A p \in kk.ready_primap \cup {pri} : [kk.ready_queue EXCEPT ![pri] = q][p] # << >>
  BY <1>0, <1>1, <1>3, <1>7
<1> QED
  BY <1>5, <1>6, <1>8 DEF GoodTables

(* Taking a task out of a ready queue preserves GoodTables. *)
LEMMA LeaveQueueType ==
  ASSUME NEW kk, GoodTables(kk), NEW t, NEW pri \in Pri
  PROVE  /\ GoodTables(leave_queue(kk, t, pri))
         /\ leave_queue(kk, t, pri).tcb = kk.tcb
         /\ leave_queue(kk, t, pri).schedtsk = kk.schedtsk
<1>1. queue_delete(kk.ready_queue[pri], t) \in Seq(Task)
  BY QueueDeleteType DEF GoodTables, Tables
<1> QED
  BY <1>1 DEF leave_queue, GoodTables, Tables

(* make_non_runnable preserves GoodTables, whatever queue t is in. *)
LEMMA MakeNonRunnableType ==
  ASSUME NEW kk, GoodTables(kk), NEW t \in Task
  PROVE  GoodTables(make_non_runnable(kk, t))
<1> DEFINE pri == kk.tcb[t].priority
           k1 == leave_queue(kk, t, pri)
           nxt == IF k1.ready_queue[pri] # << >> THEN Head(k1.ready_queue[pri])
                  ELSE IF k1.ready_primap = {} THEN NULL ELSE search_schedtsk(k1)
<1>1. pri \in Pri
  BY DEF GoodTables, Tables, TCB
<1>2. GoodTables(k1)
  BY <1>1, LeaveQueueType
<1>3. nxt \in Task \cup {NULL}
  <2>1. k1.ready_queue[pri] \in Seq(Task)
    BY <1>1, <1>2 DEF GoodTables, Tables
  <2>2. k1.ready_primap # {} => search_schedtsk(k1) \in Task
    BY <1>2, SearchType
  <2> QED
    BY <2>1, <2>2
<1>4. make_non_runnable(kk, t) =
        [k1 EXCEPT !.schedtsk = IF make_non_runnable_ret(kk, t) THEN nxt ELSE @]
  BY DEF make_non_runnable
<1> HIDE DEF k1, nxt, pri
<1> QED
  BY <1>2, <1>3, <1>4 DEF GoodTables, Tables

(* make_dormant preserves GoodTables. *)
LEMMA MakeDormantType ==
  ASSUME NEW kk, GoodTables(kk), NEW t \in Task
  PROVE  GoodTables(make_dormant(kk, t))
<1>0. kk \in Tables /\ \A p \in kk.ready_primap : kk.ready_queue[p] # << >>
  BY DEF GoodTables
<1>1. kk.tcb[t].actcnt \in BOOLEAN /\ kk.tcb[t].tmevt \in TmEvt
  BY <1>0 DEF Tables, TCB
<1>2. dormant_tcb(t, kk.tcb[t].actcnt, kk.tcb[t].tmevt) \in TCB
  BY <1>1, TaskAssumption DEF dormant_tcb, TCB, TS_DORMANT, TstatBits, WInfo
<1>3. make_dormant(kk, t) =
        [kk EXCEPT !.tcb[t] = dormant_tcb(t, kk.tcb[t].actcnt, kk.tcb[t].tmevt)]
  BY <1>0 DEF make_dormant, Tables
<1> QED
  BY <1>0, <1>2, <1>3 DEF GoodTables, Tables

(* The tail of exit_task and ter_tsk, and exit_task, preserve GoodTables. *)
LEMMA RestartType ==
  ASSUME NEW kk, GoodTables(kk), NEW t \in Task
  PROVE  GoodTables(restart(kk, t))
  BY FieldUpdate, MakeRunnableType DEF restart

(* exit_task preserves GoodTables: the three steps of ext_tsk on the TCB do. *)
LEMMA ExitTaskType ==
  ASSUME NEW kk, GoodTables(kk), NEW t \in Task
  PROVE  GoodTables(exit_task(kk, t))
  BY RestartType, MakeDormantType, MakeNonRunnableType DEF exit_task

(* change_priority preserves GoodTables: newpri's queue has the task. *)
LEMMA ChangePriorityType ==
  ASSUME NEW kk, GoodTables(kk), NEW t \in Task, NEW newpri \in Pri
  PROVE  GoodTables(change_priority(kk, t, newpri))
<1> DEFINE k0 == [kk EXCEPT !.tcb[t].priority = newpri]
           k1 == leave_queue(k0, t, kk.tcb[t].priority)
           q == Append(k1.ready_queue[newpri], t)
           k2 == requeue(kk, t, newpri)
<1>1. kk.tcb[t].priority \in Pri
  BY DEF GoodTables, Tables, TCB
<1>2. GoodTables(k1)
  BY <1>1, FieldUpdate, LeaveQueueType
<1>3. q \in Seq(Task) /\ q # << >>
  BY <1>2, AppendType DEF GoodTables, Tables
<1>4. k2 = [k1 EXCEPT !.ready_queue[newpri] = q, !.ready_primap = @ \cup {newpri}]
  BY <1>2 DEF requeue, queue_insert_prev, GoodTables, Tables
<1> HIDE DEF k1, q, k2
<1>5. GoodTables(k2) /\ k2.ready_primap # {} /\ k2.schedtsk \in Task \cup {NULL}
  BY <1>2, <1>3, <1>4 DEF GoodTables, Tables
<1>6. search_schedtsk(k2) \in Task
  BY <1>5, SearchType
<1>7. kk.schedtsk \in Task \cup {NULL}
  BY DEF GoodTables, Tables
<1>8. \E s \in Task \cup {NULL} : change_priority(kk, t, newpri) = [k2 EXCEPT !.schedtsk = s]
  BY <1>6, <1>7 DEF change_priority, k2
<1> QED
  BY <1>5, <1>8 DEF GoodTables, Tables

(* rotate_ready_queue preserves GoodTables. *)
LEMMA RotateType ==
  ASSUME NEW kk, GoodTables(kk), NEW pri \in Pri
  PROVE  GoodTables(rotate_ready_queue(kk, pri))
<1> DEFINE q == kk.ready_queue[pri]
           r == Append(Tail(q), Head(q))
<1>1. q \in Seq(Task)
  BY DEF GoodTables, Tables
<1>2. CASE Len(q) > 1
  <2>1. Head(q) \in Task /\ Tail(q) \in Seq(Task)
    BY <1>1, <1>2
  <2>2. r \in Seq(Task) /\ r # << >>
    BY <2>1, AppendType
  <2> HIDE DEF r
  <2>3. Head(r) \in Task
    BY <2>2
  <2>4. \E s \in Task \cup {NULL} :
          rotate_ready_queue(kk, pri) = [kk EXCEPT !.ready_queue[pri] = r, !.schedtsk = s]
    BY <1>2, <2>3 DEF rotate_ready_queue, queue_insert_prev, GoodTables, Tables, r
  <2>5. PICK s \in Task \cup {NULL} :
          rotate_ready_queue(kk, pri) = [kk EXCEPT !.ready_queue[pri] = r, !.schedtsk = s]
    BY <2>4
  <2>6. rotate_ready_queue(kk, pri) \in Tables
    <3>1. kk \in Tables
      BY DEF GoodTables
    <3>2. [kk EXCEPT !.ready_queue[pri] = r] \in Tables
      BY <2>2, <3>1 DEF Tables
    <3>3. [[kk EXCEPT !.ready_queue[pri] = r] EXCEPT !.schedtsk = s] \in Tables
      BY <3>2 DEF Tables
    <3> QED
      BY <2>5, <3>3
  <2>7. \A p \in kk.ready_primap : p \in Pri /\ kk.ready_queue[p] # << >>
    BY DEF GoodTables, Tables
  <2>8. /\ rotate_ready_queue(kk, pri).ready_primap = kk.ready_primap
        /\ \A p \in Pri : rotate_ready_queue(kk, pri).ready_queue[p]
                         = IF p = pri THEN r ELSE kk.ready_queue[p]
    BY <2>5 DEF GoodTables, Tables
  <2> QED
    BY <2>2, <2>6, <2>7, <2>8 DEF GoodTables
<1>3. CASE ~(Len(q) > 1)
  BY <1>3 DEF rotate_ready_queue
<1> QED
  BY <1>2, <1>3

-----------------------------------------------------------------------------
(* wait.c *)

(* Entering a wait preserves GoodTables. *)
LEMMA MakeWaitType ==
  ASSUME NEW kk, GoodTables(kk), NEW t \in Task,
         NEW stat \in SUBSET TstatBits, NEW tm \in TmEvt
  PROVE  GoodTables(make_wait_tmout(kk, t, stat, tm))
<1> DEFINE k1 == make_non_runnable([kk EXCEPT !.tcb[t].tstat = stat], t)
           w == IF tm = "none" THEN "NULL" ELSE "TMEVTB"
<1>1. GoodTables(k1)
  BY FieldUpdate, MakeNonRunnableType
<1>2. w \in WInfo
  BY DEF WInfo
<1>3. GoodTables([k1 EXCEPT !.tcb[t].winfo = w])
  BY <1>1, <1>2, FieldUpdate
<1>4. GoodTables([[k1 EXCEPT !.tcb[t].winfo = w] EXCEPT !.tcb[t].tmevt = tm])
  BY <1>3, FieldUpdate
<1>5. make_wait_tmout(kk, t, stat, tm) =
        [[k1 EXCEPT !.tcb[t].winfo = w] EXCEPT !.tcb[t].tmevt = tm]
  BY DEF make_wait_tmout
<1> QED
  BY <1>4, <1>5

(* Leaving a wait preserves GoodTables. *)
LEMMA MakeNonWaitType ==
  ASSUME NEW kk, GoodTables(kk), NEW t \in Task
  PROVE  GoodTables(make_non_wait(kk, t))
<1>1. GoodTables([kk EXCEPT !.tcb[t].wobj = NULL])
  BY FieldUpdate
<1> QED
  BY <1>1, FieldUpdate, StatTypes, MakeRunnableType DEF make_non_wait

(* Ending a wait, by its event, by time-out or by force, preserves GoodTables. *)
LEMMA WaitQueueUpdate ==
  ASSUME NEW kk, GoodTables(kk), NEW o \in WObj \cup {NULL}, NEW q,
         o \in WObj => q \in Seq(Task)
  PROVE  GoodTables([kk EXCEPT !.wait_queue[o] = q])
<1>1. [kk.wait_queue EXCEPT ![o] = q] \in [WObj -> Seq(Task)]
  BY WObjAssumption DEF GoodTables, Tables
<1>2. [kk EXCEPT !.wait_queue[o] = q] \in Tables
  BY <1>1 DEF GoodTables, Tables
<1>3. /\ [kk EXCEPT !.wait_queue[o] = q].ready_queue = kk.ready_queue
      /\ [kk EXCEPT !.wait_queue[o] = q].ready_primap = kk.ready_primap
  BY DEF GoodTables, Tables
<1> QED
  BY <1>2, <1>3 DEF GoodTables

(* Taking a task out of the queue its WINFO_WOBJ names preserves GoodTables. *)
LEMMA UnlinkType ==
  ASSUME NEW kk, GoodTables(kk), NEW t \in Task
  PROVE  GoodTables(wobj_unlink(kk, t))
<1> DEFINE o == kk.tcb[t].wobj
           q == queue_delete(kk.wait_queue[o], t)
<1>1. o \in WObj \cup {NULL}
  BY DEF GoodTables, Tables, TCB
<1>2. o \in WObj => q \in Seq(Task)
  BY QueueDeleteType DEF GoodTables, Tables
<1>3. GoodTables([kk EXCEPT !.wait_queue[o] = q])
  BY <1>1, <1>2, WaitQueueUpdate
<1>4. wobj_unlink(kk, t) = kk \/ wobj_unlink(kk, t) = [kk EXCEPT !.wait_queue[o] = q]
  BY DEF wobj_unlink
<1> QED
  BY <1>3, <1>4

(* tmevtb_dequeue and wait_cancel preserve GoodTables. *)
LEMMA CancelType ==
  ASSUME NEW kk, GoodTables(kk), NEW t \in Task
  PROVE  GoodTables(tmevtb_cancel(kk, t)) /\ GoodTables(wait_cancel(kk, t))
<1>1. "none" \in TmEvt
  BY DEF TmEvt
<1>2. GoodTables(tmevtb_cancel(kk, t))
  BY <1>1, FieldUpdate DEF tmevtb_cancel
<1> QED
  BY <1>2, UnlinkType DEF wait_cancel

(* Each end of a wait (wait_complete, wait_tmout, wait_release) preserves  *)
(* GoodTables, the error code it leaves in WINFO being one of WInfo.       *)
LEMMA EndWaitType ==
  ASSUME NEW kk, GoodTables(kk), NEW t \in Task
  PROVE  /\ GoodTables(wait_complete(kk, t))
         /\ GoodTables(wait_tmout(kk, t))
         /\ GoodTables(wait_tmout_ok(kk, t))
         /\ GoodTables(wait_release(kk, t))
<1>1. \A w \in {"E_OK", "E_TMOUT", "E_RLWAI"} : w \in WInfo
  BY DEF WInfo
<1>2. ASSUME NEW k1, GoodTables(k1), NEW w \in {"E_OK", "E_TMOUT", "E_RLWAI"}
      PROVE  GoodTables(make_non_wait([k1 EXCEPT !.tcb[t].winfo = w], t))
  BY <1>1, <1>2, FieldUpdate, MakeNonWaitType
<1>3. GoodTables(wait_complete(kk, t))
  BY <1>2, CancelType DEF wait_complete
<1>4. GoodTables(wait_tmout(kk, t))
  BY <1>2, UnlinkType DEF wait_tmout
<1>5. GoodTables(wait_tmout_ok(kk, t))
  BY <1>2 DEF wait_tmout_ok
<1>6. GoodTables(wait_release(kk, t))
  BY <1>2, CancelType DEF wait_release
<1> QED
  BY <1>3, <1>4, <1>5, <1>6

(* Reordering a wait queue after chg_pri preserves GoodTables. *)
LEMMA WobjChangeType ==
  ASSUME NEW kk, GoodTables(kk), NEW t \in Task, NEW o
  PROVE  GoodTables(wobj_change_priority(kk, o, t))
<1> DEFINE q == queue_insert_tpri(kk, queue_delete(kk.wait_queue[o], t), t)
<1>1. ASSUME o \in TA_TPRI
      PROVE  o \in WObj /\ q \in Seq(Task)
  <2>1. o \in WObj /\ kk.wait_queue[o] \in Seq(Task)
    BY <1>1, WObjAssumption DEF GoodTables, Tables
  <2>2. queue_delete(kk.wait_queue[o], t) \in Seq(Task)
    BY <2>1, QueueDeleteType
  <2> QED
    BY <2>1, <2>2, InsertTpriType
<1>2. o \in TA_TPRI => GoodTables([kk EXCEPT !.wait_queue[o] = q])
  BY <1>1, WaitQueueUpdate
<1>3. wobj_change_priority(kk, o, t) =
        IF o \in TA_TPRI THEN [kk EXCEPT !.wait_queue[o] = q] ELSE kk
  BY DEF wobj_change_priority
<1> QED
  BY <1>2, <1>3

-----------------------------------------------------------------------------
(* Task exceptions and the dispatcher preserve GoodTables. *)
LEMMA TexType ==
  ASSUME NEW kk, GoodTables(kk), NEW t \in Task
  PROVE  /\ GoodTables(take_texptn(kk, t))
         /\ GoodTables(calltex(kk, t))
<1>1. GoodTables(take_texptn(kk, t))
  <2>1. GoodTables([kk EXCEPT !.tcb[t].enatex = FALSE])
    BY FieldUpdate
  <2>2. GoodTables([[kk EXCEPT !.tcb[t].enatex = FALSE] EXCEPT !.tcb[t].texptn = FALSE])
    BY <2>1, FieldUpdate
  <2> QED
    BY <2>2 DEF take_texptn
<1>2. take_texptn(kk, t).tcb[t].texlevel + 1 \in Nat
  BY <1>1 DEF GoodTables, Tables, TCB
<1>3. GoodTables([take_texptn(kk, t) EXCEPT !.tcb[t].texlevel = take_texptn(kk, t).tcb[t].texlevel + 1])
  BY <1>1, <1>2, FieldUpdate
<1>4. GoodTables(call_texrtn(kk, t))
  BY <1>3 DEF call_texrtn
<1> QED
  BY <1>1, <1>4 DEF calltex

(* What the dispatcher makes of the tables is good, and schedtsk, which it *)
(* loads into runtsk, is a task or NULL.                                   *)
LEMMA DispatchType ==
  ASSUME NEW kk, GoodTables(kk)
  PROVE  GoodTables(dispatch_r(kk)) /\ kk.schedtsk \in Task \cup {NULL}
<1>1. kk.schedtsk \in Task \cup {NULL}
  BY DEF GoodTables, Tables
<1> QED
  BY <1>1, TexType DEF dispatch_r

-----------------------------------------------------------------------------
(* The inductive invariant. *)
TypeInv == TypeOK /\ GoodTables(k)

(* The tables at reset. *)
LEMMA InitType == Init => TypeInv
<1> SUFFICES ASSUME Init PROVE TypeInv
  OBVIOUS
<1>1. \A t \in Task : dormant_tcb(t, FALSE, "none") \in TCB
  BY TaskAssumption DEF dormant_tcb, TCB, TS_DORMANT, TstatBits, WInfo, TmEvt
<1>2. InitTables \in Tables /\ InitTables.ready_primap = {}
  <2>1. << >> \in Seq(Task)
    OBVIOUS
  <2>2. /\ [t \in Task |-> dormant_tcb(t, FALSE, "none")] \in [Task -> TCB]
        /\ [p \in Pri |-> << >>] \in [Pri -> Seq(Task)]
        /\ [o \in WObj |-> << >>] \in [WObj -> Seq(Task)]
    BY <1>1, <2>1
  <2> QED
    BY <2>2 DEF InitTables, Tables
<1>3. k \in Tables /\ k.ready_primap = {}
  BY <1>2 DEF Init
<1>4. GoodTables(k)
  BY <1>3 DEF GoodTables
<1>5. TypeOK
  BY <1>3, TaskAssumption DEF Init, TypeOK
<1> QED
  BY <1>4, <1>5 DEF TypeInv

(* A service call that ends with good tables keeps the invariant. *)
LEMMA CallType ==
  ASSUME TypeInv, NEW k1, GoodTables(k1), NEW disp
  PROVE  /\ TaskCall(k1, disp) => TypeInv'
         /\ IntCall(k1, disp) => TypeInv'
<1>1. GoodTables(dispatch_r(k1)) /\ k1.schedtsk \in Task \cup {NULL}
  BY DispatchType
<1>2. \A kk : GoodTables(kk) => kk \in Tables
  BY DEF GoodTables
<1>3. ASSUME TaskCall(k1, disp)
      PROVE  TypeInv'
  <2>1. GoodTables(k') /\ runtsk' \in Task \cup {NULL}
    BY <1>1, <1>3 DEF TaskCall, TypeInv, TypeOK
  <2>2. k' \in Tables
    BY <2>1, <1>2
  <2> QED
    BY <1>3, <2>1, <2>2 DEF TaskCall, TypeInv, TypeOK, GoodTables
<1>4. ASSUME IntCall(k1, disp)
      PROVE  TypeInv'
  <2>1. GoodTables(k') /\ k' \in Tables
    BY <1>2, <1>4 DEF IntCall
  <2> QED
    BY <1>4, <2>1 DEF IntCall, TypeInv, TypeOK, GoodTables
<1> QED
  BY <1>3, <1>4

(* The calls of a task. *)
LEMMA TaskNextType ==
  ASSUME TypeInv, TaskNext
  PROVE  TypeInv'
<1>1. GoodTables(k)
  BY DEF TypeInv
<1>2. TSKCTX => runtsk \in Task
  BY DEF TSKCTX, TypeInv, TypeOK
<1>3. \A tm \in {"none", "wait_tmout", "wait_tmout_ok"} : tm \in TmEvt
  BY DEF TmEvt
<1>a. ASSUME NEW t \in Task, act_tsk(t) PROVE TypeInv'
  BY <1>1, <1>a, MakeRunnableType, FieldUpdate, CallType DEF act_tsk
<1>b. ASSUME NEW t \in Task, can_act(t) PROVE TypeInv'
  BY <1>1, <1>b, FieldUpdate, CallType DEF can_act
<1>c. ASSUME ext_tsk PROVE TypeInv'
  <2>1. TSKCTX
    BY <1>c DEF ext_tsk
  <2>2. GoodTables(exit_task(k, runtsk))
    BY <1>1, <1>2, <2>1, ExitTaskType
  <2>3. GoodTables(k') /\ runtsk' \in Task \cup {NULL}
    BY <1>c, <2>2, DispatchType DEF ext_tsk
  <2>4. k' \in Tables
    BY <2>3 DEF GoodTables
  <2> QED
    BY <1>c, <2>3, <2>4 DEF ext_tsk, TypeInv, TypeOK, GoodTables
<1>d. ASSUME NEW t \in Task, ter_tsk(t) PROVE TypeInv'
  <2> DEFINE k1 == IF RUNNABLE(k, t) THEN make_non_runnable(k, t)
                   ELSE IF WAITING(k, t) THEN wait_cancel(k, t) ELSE k
             k2 == make_dormant(k1, t)
  <2>1. GoodTables(k1)
    BY <1>1, MakeNonRunnableType, CancelType
  <2>2. GoodTables(restart(k2, t))
    BY <2>1, MakeDormantType, RestartType
  <2>3. TaskCall(restart(k2, t), Disp(restart_ret(k2, t)))
    BY <1>d DEF ter_tsk
  <2> QED
    BY <2>2, <2>3, CallType
<1>e. ASSUME NEW t \in Task, NEW newpri \in Pri, chg_pri(t, newpri) PROVE TypeInv'
  <2> DEFINE k1 == [k EXCEPT !.tcb[t].priority = newpri]
             k2 == IF "WOBJCB" \in k.tcb[t].tstat
                   THEN wobj_change_priority(k1, k.tcb[t].wobj, t) ELSE k1
  <2>1. GoodTables(change_priority(k, t, newpri))
    BY <1>1, ChangePriorityType
  <2>2. GoodTables(k1)
    BY <1>1, FieldUpdate
  <2>3. GoodTables(k2)
    BY <2>2, WobjChangeType
  <2>4. \/ TaskCall(change_priority(k, t, newpri), Disp(change_priority_ret(k, t, newpri)))
        \/ TaskCall(k2, FALSE)
    BY <1>e DEF chg_pri
  <2> QED
    BY <2>1, <2>3, <2>4, CallType
<1>f. ASSUME NEW tm \in {"none", "wait_tmout"}, slp_tsk(tm) PROVE TypeInv'
  <2>1. runtsk \in Task
    BY <1>2, <1>f DEF slp_tsk, CAN_WAIT, TSKCTX_UNL
  <2>2. GoodTables(make_wait_tmout(k, runtsk, TS_SLEEPING, tm))
    BY <1>1, <1>3, <2>1, StatTypes, MakeWaitType
  <2>3. GoodTables([k EXCEPT !.tcb[runtsk].wupcnt = FALSE])
    BY <1>1, <2>1, FieldUpdate
  <2> QED
    BY <1>f, <2>2, <2>3, CallType DEF slp_tsk
<1>g. ASSUME NEW t \in Task, wup_tsk(t) PROVE TypeInv'
  <2>1. GoodTables(wait_complete(k, t)) /\ GoodTables([k EXCEPT !.tcb[t].wupcnt = TRUE])
    BY <1>1, EndWaitType, FieldUpdate
  <2> QED
    BY <1>g, <2>1, CallType DEF wup_tsk, wakeup
<1>h. ASSUME NEW t \in Task, can_wup(t) PROVE TypeInv'
  BY <1>1, <1>h, FieldUpdate, CallType DEF can_wup
<1>i. ASSUME NEW t \in Task, rel_wai(t) PROVE TypeInv'
  BY <1>1, <1>i, EndWaitType, CallType DEF rel_wai
<1>j. ASSUME NEW t \in Task, sus_tsk(t) PROVE TypeInv'
  <2>1. GoodTables([k EXCEPT !.tcb[t].tstat = TS_SUSPENDED])
    BY <1>1, FieldUpdate, StatTypes
  <2>2. GoodTables(make_non_runnable([k EXCEPT !.tcb[t].tstat = TS_SUSPENDED], t))
    BY <2>1, MakeNonRunnableType
  <2>3. k.tcb[t].tstat \cup TS_SUSPENDED \in SUBSET TstatBits
    BY <1>1, StatTypes DEF GoodTables, Tables, TCB
  <2>4. GoodTables([k EXCEPT !.tcb[t].tstat = @ \cup TS_SUSPENDED])
    BY <1>1, <2>3, FieldUpdate
  <2> QED
    BY <1>j, <2>2, <2>4, CallType DEF sus_tsk
<1>k. ASSUME NEW t \in Task, rsm_tsk(t) PROVE TypeInv'
  <2>1. k.tcb[t].tstat \ TS_SUSPENDED \in SUBSET TstatBits
    BY <1>1 DEF GoodTables, Tables, TCB
  <2>2. GoodTables([k EXCEPT !.tcb[t].tstat = @ \ TS_SUSPENDED])
    BY <1>1, <2>1, FieldUpdate
  <2> QED
    BY <1>1, <1>k, <2>2, MakeRunnableType, CallType DEF rsm_tsk
<1>l. ASSUME dly_tsk PROVE TypeInv'
  <2>1. runtsk \in Task
    BY <1>2, <1>l DEF dly_tsk, CAN_WAIT, TSKCTX_UNL
  <2>2. GoodTables(make_wait_tmout(k, runtsk, TS_WAITING, "wait_tmout_ok"))
    BY <1>1, <1>3, <2>1, StatTypes, MakeWaitType
  <2> QED
    BY <1>l, <2>2, CallType DEF dly_tsk
<1>m. ASSUME NEW pri \in Pri, rot_rdq(pri) PROVE TypeInv'
  BY <1>1, <1>m, RotateType, CallType DEF rot_rdq
<1>n. ASSUME dis_dsp PROVE TypeInv'
  BY <1>n DEF dis_dsp, TypeInv, TypeOK, GoodTables
<1>o. ASSUME ena_dsp PROVE TypeInv'
  <2>1. GoodTables(dispatch_r(k)) /\ k.schedtsk \in Task \cup {NULL}
    BY <1>1, DispatchType
  <2>2. GoodTables(k') /\ runtsk' \in Task \cup {NULL}
    BY <1>1, <1>o, <2>1 DEF ena_dsp, TypeInv, TypeOK
  <2>3. k' \in Tables
    BY <2>2 DEF GoodTables
  <2> QED
    BY <1>o, <2>2, <2>3 DEF ena_dsp, TypeInv, TypeOK, GoodTables
<1>p. ASSUME NEW t \in Task, ras_tex(t) PROVE TypeInv'
  <2>1. GoodTables([k EXCEPT !.tcb[t].texptn = TRUE])
    BY <1>1, FieldUpdate
  <2>2. GoodTables(calltex([k EXCEPT !.tcb[t].texptn = TRUE], t))
    BY <2>1, TexType
  <2> QED
    BY <1>p, <2>1, <2>2, CallType DEF ras_tex
<1>q. ASSUME dis_tex PROVE TypeInv'
  <2>1. runtsk \in Task
    BY <1>2, <1>q DEF dis_tex, TSKCTX_UNL
  <2> QED
    BY <1>1, <1>q, <2>1, FieldUpdate, CallType DEF dis_tex
<1>r. ASSUME ena_tex PROVE TypeInv'
  <2>1. runtsk \in Task
    BY <1>2, <1>r DEF ena_tex, TSKCTX_UNL
  <2>2. GoodTables([k EXCEPT !.tcb[runtsk].enatex = TRUE])
    BY <1>1, <2>1, FieldUpdate
  <2> QED
    BY <1>r, <2>1, <2>2, TexType, CallType DEF ena_tex
<1>s. ASSUME texrtn_return PROVE TypeInv'
  <2>1. runtsk \in Task /\ k.tcb[runtsk].texlevel > 0
    BY <1>2, <1>s DEF texrtn_return
  <2>2. GoodTables(take_texptn(k, runtsk))
    BY <1>1, <2>1, TexType
  <2>3. k.tcb[runtsk].texlevel - 1 \in Nat
    BY <1>1, <2>1 DEF GoodTables, Tables, TCB
  <2>4. GoodTables([k EXCEPT !.tcb[runtsk].enatex = TRUE])
    BY <1>1, <2>1, FieldUpdate
  <2>5. GoodTables([[k EXCEPT !.tcb[runtsk].enatex = TRUE]
                       EXCEPT !.tcb[runtsk].texlevel = k.tcb[runtsk].texlevel - 1])
    BY <2>1, <2>3, <2>4, FieldUpdate
  <2>6. GoodTables([k EXCEPT !.tcb[runtsk].enatex = TRUE, !.tcb[runtsk].texlevel = @ - 1])
    BY <1>1, <2>1, <2>5 DEF GoodTables, Tables, TCB
  <2>7. GoodTables(k')
    BY <1>s, <2>2, <2>6 DEF texrtn_return
  <2>8. k' \in Tables
    BY <2>7 DEF GoodTables
  <2> QED
    BY <1>s, <2>7, <2>8 DEF texrtn_return, TypeInv, TypeOK, GoodTables
<1> QED
  BY <1>a, <1>b, <1>c, <1>d, <1>e, <1>f, <1>g, <1>h, <1>i, <1>j, <1>k, <1>l, <1>m,
     <1>n, <1>o, <1>p, <1>q, <1>r, <1>s DEF TaskNext

(* Interrupts, the calls of handlers, the timer and the idle loop. *)
LEMMA IntNextType ==
  ASSUME TypeInv, IntNext
  PROVE  TypeInv'
<1>1. GoodTables(k)
  BY DEF TypeInv
<1>2. GoodTables(dispatch_r(k)) /\ k.schedtsk \in Task \cup {NULL}
  BY <1>1, DispatchType
<1>3. GoodTables(k') => k' \in Tables
  BY DEF GoodTables
<1>a. ASSUME interrupt_enter PROVE TypeInv'
  BY <1>a DEF interrupt_enter, TypeInv, TypeOK, GoodTables
<1>b. ASSUME interrupt_return PROVE TypeInv'
  <2>1. runtsk # NULL => GoodTables(calltex(k, runtsk))
    BY <1>1, TexType DEF TypeInv, TypeOK
  <2>2. GoodTables(k') /\ runtsk' \in Task \cup {NULL}
    BY <1>1, <1>2, <1>b, <2>1 DEF interrupt_return, TypeInv, TypeOK
  <2>3. nest' \in Nat
    BY <1>b DEF interrupt_return, INTCTX_UNL, INTCTX, TypeInv, TypeOK
  <2>4. reqflg' \in BOOLEAN
    BY <1>b DEF interrupt_return, TypeInv, TypeOK
  <2> QED
    BY <1>3, <1>b, <2>2, <2>3, <2>4 DEF interrupt_return, TypeInv, TypeOK
<1>c. ASSUME wait_for_intr PROVE TypeInv'
  <2>1. GoodTables(k') /\ runtsk' \in Task \cup {NULL}
    BY <1>2, <1>c DEF wait_for_intr
  <2> QED
    BY <1>3, <1>c, <2>1 DEF wait_for_intr, TypeInv, TypeOK
<1>d. ASSUME NEW pri \in Pri, irot_rdq(pri) PROVE TypeInv'
  BY <1>1, <1>d, RotateType, CallType DEF irot_rdq
<1>e. ASSUME NEW t \in Task, iact_tsk(t) PROVE TypeInv'
  BY <1>1, <1>e, MakeRunnableType, FieldUpdate, CallType DEF iact_tsk
<1>f. ASSUME NEW t \in Task, iwup_tsk(t) PROVE TypeInv'
  <2>1. GoodTables(wait_complete(k, t)) /\ GoodTables([k EXCEPT !.tcb[t].wupcnt = TRUE])
    BY <1>1, EndWaitType, FieldUpdate
  <2> QED
    BY <1>f, <2>1, CallType DEF iwup_tsk, wakeup
<1>g. ASSUME NEW t \in Task, irel_wai(t) PROVE TypeInv'
  BY <1>1, <1>g, EndWaitType, CallType DEF irel_wai
<1>h. ASSUME NEW t \in Task, iras_tex(t) PROVE TypeInv'
  BY <1>1, <1>h, FieldUpdate, CallType DEF iras_tex
<1>i. ASSUME NEW t \in Task, timeout(t) PROVE TypeInv'
  <2>1. GoodTables([k EXCEPT !.tcb[t].tmevt = "none"])
    BY <1>1, FieldUpdate DEF TmEvt
  <2>2. /\ GoodTables(wait_tmout([k EXCEPT !.tcb[t].tmevt = "none"], t))
        /\ GoodTables(wait_tmout_ok([k EXCEPT !.tcb[t].tmevt = "none"], t))
    BY <2>1, EndWaitType
  <2> QED
    BY <1>i, <2>2, CallType DEF timeout
<1> QED
  BY <1>a, <1>b, <1>c, <1>d, <1>e, <1>f, <1>g, <1>h, <1>i DEF IntNext

(* The start of the system. *)
LEMMA StartType ==
  ASSUME TypeInv, task_initialize \/ kernel_start
  PROVE  TypeInv'
<1>1. GoodTables(k)
  BY DEF TypeInv
<1>2. GoodTables(k') => k' \in Tables
  BY DEF GoodTables
<1>a. ASSUME task_initialize PROVE TypeInv'
  <2> DEFINE t == Head(todo)
             k1 == make_dormant([k EXCEPT !.tcb[t].actcnt = FALSE], t)
  <2>1. t \in Task /\ todo' \in Seq(Task)
    BY <1>a DEF task_initialize, TypeInv, TypeOK
  <2>2. k' = IF t \in TA_ACT THEN make_runnable(k1, t) ELSE k1
    BY <1>a DEF task_initialize
  <2> HIDE DEF t
  <2>3. GoodTables([k EXCEPT !.tcb[t].actcnt = FALSE])
    BY <1>1, <2>1, FieldUpdate
  <2>4. GoodTables(k1)
    BY <2>1, <2>3, MakeDormantType
  <2>5. GoodTables(k')
    BY <2>1, <2>2, <2>4, MakeRunnableType
  <2> QED
    BY <1>2, <1>a, <2>1, <2>5 DEF task_initialize, TypeInv, TypeOK
<1>b. ASSUME kernel_start PROVE TypeInv'
  <2>1. GoodTables(k') /\ runtsk' \in Task \cup {NULL}
    BY <1>1, <1>b, DispatchType DEF kernel_start
  <2> QED
    BY <1>2, <1>b, <2>1 DEF kernel_start, TypeInv, TypeOK
<1> QED
  BY <1>a, <1>b

(* Every step keeps the invariant. *)
LEMMA NextType == TypeInv /\ [Next]_kvars => TypeInv'
<1> SUFFICES ASSUME TypeInv, [Next]_kvars PROVE TypeInv'
  OBVIOUS
<1>1. CASE task_initialize \/ kernel_start
  BY <1>1, StartType
<1>2. CASE loc_cpu
  BY <1>2 DEF loc_cpu, TypeInv, TypeOK, GoodTables
<1>3. CASE unl_cpu
  BY <1>3 DEF unl_cpu, TypeInv, TypeOK, GoodTables
<1>4. CASE TaskNext
  BY <1>4, TaskNextType
<1>5. CASE IntNext
  BY <1>5, IntNextType
<1>6. CASE UNCHANGED kvars
  BY <1>6 DEF kvars, TypeInv, TypeOK, GoodTables
<1> QED
  BY <1>1, <1>2, <1>3, <1>4, <1>5, <1>6 DEF Next

(* The kernel of any configuration keeps its tables well typed, and with   *)
(* them never dispatches anything but a task or the idle loop.             *)
THEOREM TypeCorrect == Spec => []TypeOK
<1>1. TypeInv => TypeOK
  BY DEF TypeInv
<1> QED
  BY <1>1, InitType, NextType, PTL DEF Spec

(* The same with the fact about ready_primap, for the proofs that use it. *)
THEOREM TablesGood == Spec => []GoodTables(k)
<1>1. TypeInv => GoodTables(k)
  BY DEF TypeInv
<1> QED
  BY <1>1, InitType, NextType, PTL DEF Spec

-----------------------------------------------------------------------------
(* Part 2: dispatches and task exceptions.  The argument needs no fact     *)
(* about the order of the queues.  What counts is that every routine of    *)
(* task.c and wait.c that changes schedtsk says so in the BOOL it returns. *)
(* From it follows what the two ways a service call ends, TaskCall and     *)
(* IntCall, preserve, and then what the actions do.                        *)

(* k1 differs from k0 in nothing that decides who is dispatched or whether *)
(* an exception routine is due.                                            *)
Same(k1, k0) ==
  /\ k1.schedtsk = k0.schedtsk
  /\ \A u \in Task : /\ k1.tcb[u].priority = k0.tcb[u].priority
                     /\ k1.tcb[u].enatex = k0.tcb[u].enatex
                     /\ k1.tcb[u].texptn = k0.tcb[u].texptn

(* k1 makes no exception routine due that was not due in k0. *)
TexQuiet(k1, k0) == \A u \in Task : tex_due(k1, u) => tex_due(k0, u)

(* What a routine that returns ret may do to the tables. *)
Reports(k1, k0, ret) == (~ret => k1.schedtsk = k0.schedtsk) /\ TexQuiet(k1, k0)

-----------------------------------------------------------------------------
(* 2.1: who changes schedtsk. *)

(* Bookkeeping fields do not matter. *)
LEMMA FieldSame ==
  ASSUME NEW kk \in Tables, NEW t \in Task, NEW x
  PROVE  /\ Same([kk EXCEPT !.tcb[t].tstat = x], kk)
         /\ Same([kk EXCEPT !.tcb[t].actcnt = x], kk)
         /\ Same([kk EXCEPT !.tcb[t].wupcnt = x], kk)
         /\ Same([kk EXCEPT !.tcb[t].texlevel = x], kk)
         /\ Same([kk EXCEPT !.tcb[t].winfo = x], kk)
         /\ Same([kk EXCEPT !.tcb[t].wobj = x], kk)
         /\ Same([kk EXCEPT !.tcb[t].tmevt = x], kk)
  BY DEF Same, Tables, TCB

(* Neither do they change tstat. *)
LEMMA StatSame ==
  ASSUME NEW kk \in Tables, NEW t \in Task, NEW x
  PROVE  /\ [kk EXCEPT !.tcb[t].winfo = x].tcb[t].tstat = kk.tcb[t].tstat
         /\ [kk EXCEPT !.tcb[t].wobj = x].tcb[t].tstat = kk.tcb[t].tstat
         /\ [kk EXCEPT !.tcb[t].tmevt = x].tcb[t].tstat = kk.tcb[t].tstat
  BY DEF Tables, TCB

(* Same is transitive: two steps that leave schedtsk and every task's      *)
(* exception state alone compose.                                          *)
LEMMA SameTransitive ==
  ASSUME NEW k0, NEW k1, NEW k2, Same(k2, k1), Same(k1, k0)
  PROVE  Same(k2, k0)
  BY DEF Same

(* Same tables give the same answer to "is t more urgent than schedtsk?". *)
LEMMA SameRet ==
  ASSUME NEW k0 \in Tables, NEW k1, Same(k1, k0), NEW t \in Task
  PROVE  /\ make_runnable_ret(k1, t) <=> make_runnable_ret(k0, t)
         /\ TexQuiet(k1, k0)
<1>1. k0.schedtsk \in Task \cup {NULL}
  BY DEF Tables
<1>2. make_runnable_ret(k1, t) <=> make_runnable_ret(k0, t)
  BY <1>1 DEF make_runnable_ret, Same
<1>3. TexQuiet(k1, k0)
  BY DEF TexQuiet, tex_due, Same
<1> QED
  BY <1>2, <1>3

(* A routine applied to tables that are the same reports as on the tables. *)
LEMMA ReportsSame ==
  ASSUME NEW k0 \in Tables, NEW k1, Same(k1, k0), NEW k2, NEW ret, Reports(k2, k1, ret)
  PROVE  Reports(k2, k0, ret)
  BY DEF Reports, Same, TexQuiet, tex_due

(* make_runnable returns TRUE whenever it changes schedtsk. *)
LEMMA MakeRunnableReports ==
  ASSUME NEW kk \in Tables, NEW t \in Task
  PROVE  Reports(make_runnable(kk, t), kk, make_runnable_ret(kk, t))
<1>1. /\ make_runnable(kk, t).schedtsk =
           IF make_runnable_ret(kk, t) THEN t ELSE kk.schedtsk
      /\ make_runnable(kk, t).tcb =
           [kk.tcb EXCEPT ![t] = [kk.tcb[t] EXCEPT !.tstat = TS_RUNNABLE]]
  BY DEF make_runnable, Tables
<1>2. TexQuiet(make_runnable(kk, t), kk)
  BY <1>1 DEF TexQuiet, tex_due, Tables, TCB
<1> QED
  BY <1>1, <1>2 DEF Reports

(* make_non_runnable returns TRUE whenever it changes schedtsk. *)
LEMMA MakeNonRunnableReports ==
  ASSUME NEW kk, GoodTables(kk), NEW t \in Task
  PROVE  Reports(make_non_runnable(kk, t), kk, make_non_runnable_ret(kk, t))
<1> DEFINE pri == kk.tcb[t].priority
           k1 == leave_queue(kk, t, pri)
           x == IF k1.ready_queue[pri] # << >> THEN Head(k1.ready_queue[pri])
                ELSE IF k1.ready_primap = {} THEN NULL ELSE search_schedtsk(k1)
<1>1. pri \in Pri
  BY DEF GoodTables, Tables, TCB
<1>2. GoodTables(k1) /\ k1.tcb = kk.tcb /\ k1.schedtsk = kk.schedtsk
  BY <1>1, LeaveQueueType
<1>3. make_non_runnable(kk, t) =
        [k1 EXCEPT !.schedtsk = IF make_non_runnable_ret(kk, t) THEN x ELSE @]
  BY DEF make_non_runnable
<1> HIDE DEF k1, x
<1>4. /\ make_non_runnable(kk, t).tcb = kk.tcb
      /\ ~make_non_runnable_ret(kk, t) => make_non_runnable(kk, t).schedtsk = kk.schedtsk
  BY <1>2, <1>3 DEF GoodTables, Tables
<1> QED
  BY <1>4 DEF Reports, TexQuiet, tex_due

(* make_non_wait returns TRUE whenever it changes schedtsk: what every end *)
(* of a wait passes on to its caller.                                      *)
LEMMA MakeNonWaitReports ==
  ASSUME NEW kk, GoodTables(kk), NEW t \in Task
  PROVE  Reports(make_non_wait(kk, t), kk, make_non_wait_ret(kk, t))
<1> DEFINE k1 == [kk EXCEPT !.tcb[t].wobj = NULL]
<1>1. kk \in Tables /\ k1 \in Tables /\ GoodTables(k1)
  BY FieldUpdate DEF GoodTables
<1>2. Same(k1, kk)
  BY <1>1, FieldSame
<1>3. CASE SUSPENDED(kk, t)
  <2>1. make_non_wait(kk, t) = [k1 EXCEPT !.tcb[t].tstat = TS_SUSPENDED]
    BY <1>3 DEF make_non_wait
  <2>2. Same(make_non_wait(kk, t), kk)
    BY <1>1, <1>2, <2>1, FieldSame, SameTransitive
  <2> QED
    BY <1>1, <2>2, SameRet DEF Reports, Same
<1>4. CASE ~SUSPENDED(kk, t)
  <2>1. make_non_wait(kk, t) = make_runnable(k1, t)
    BY <1>4 DEF make_non_wait
  <2>2. make_runnable_ret(k1, t) <=> make_non_wait_ret(kk, t)
    BY <1>1, <1>2, <1>4, SameRet DEF make_non_wait_ret
  <2>3. Reports(make_non_wait(kk, t), k1, make_non_wait_ret(kk, t))
    BY <1>1, <2>1, <2>2, MakeRunnableReports DEF Reports
  <2> QED
    BY <1>1, <1>2, <2>3, ReportsSame
<1> QED
  BY <1>3, <1>4

(* The routines that end a wait. *)
LEMMA EndWaitReports ==
  ASSUME NEW kk, GoodTables(kk), NEW t \in Task
  PROVE  LET ret == make_non_wait_ret(kk, t)
         IN /\ Reports(wait_complete(kk, t), kk, ret)
            /\ Reports(wait_tmout(kk, t), kk, ret)
            /\ Reports(wait_tmout_ok(kk, t), kk, ret)
            /\ Reports(wait_release(kk, t), kk, ret)
            /\ Same(wait_cancel(kk, t), kk)
<1> DEFINE Near(k1) == GoodTables(k1) /\ Same(k1, kk) /\ k1.tcb[t].tstat = kk.tcb[t].tstat
<1>1. kk \in Tables
  BY DEF GoodTables
<1>2. \A k1 : GoodTables(k1) => k1 \in Tables
  BY DEF GoodTables
<1>3. Near(kk)
  BY DEF Same
<1>4. ASSUME NEW k1, Near(k1)
      PROVE  Near(tmevtb_cancel(k1, t))
  <2>1. Near([k1 EXCEPT !.tcb[t].tmevt = "none"])
    BY <1>2, <1>4, FieldUpdate, FieldSame, StatSame, SameTransitive DEF TmEvt
  <2> QED
    BY <1>4, <2>1 DEF tmevtb_cancel
<1>5. ASSUME NEW k1, Near(k1)
      PROVE  Near(wobj_unlink(k1, t))
  <2>1. wobj_unlink(k1, t).tcb = k1.tcb /\ wobj_unlink(k1, t).schedtsk = k1.schedtsk
    BY <1>2, <1>4, <1>5 DEF wobj_unlink, Tables
  <2>2. Same(wobj_unlink(k1, t), kk)
    BY <1>5, <2>1 DEF Same
  <2> QED
    BY <1>5, <2>1, <2>2, UnlinkType
<1>6. ASSUME NEW k1, Near(k1), NEW w \in {"E_OK", "E_TMOUT", "E_RLWAI"}
      PROVE  Reports(make_non_wait([k1 EXCEPT !.tcb[t].winfo = w], t), kk, make_non_wait_ret(kk, t))
  <2> DEFINE k2 == [k1 EXCEPT !.tcb[t].winfo = w]
  <2>1. GoodTables(k2)
    BY <1>6, FieldUpdate DEF WInfo
  <2>2. Same(k2, kk) /\ k2.tcb[t].tstat = kk.tcb[t].tstat
    BY <1>2, <1>6, FieldSame, StatSame, SameTransitive
  <2> HIDE DEF k2
  <2>3. make_runnable_ret(k2, t) <=> make_runnable_ret(kk, t)
    BY <1>1, <2>2, SameRet
  <2>4. make_non_wait_ret(k2, t) <=> make_non_wait_ret(kk, t)
    BY <2>2, <2>3 DEF make_non_wait_ret, SUSPENDED
  <2>5. Reports(make_non_wait(k2, t), k2, make_non_wait_ret(kk, t))
    BY <2>1, <2>4, MakeNonWaitReports DEF Reports
  <2>6. Reports(make_non_wait(k2, t), kk, make_non_wait_ret(kk, t))
    BY <1>1, <2>2, <2>5, ReportsSame
  <2> QED
    BY <2>6 DEF k2
<1> HIDE DEF Near
<1>7. Reports(wait_complete(kk, t), kk, make_non_wait_ret(kk, t))
  BY <1>3, <1>4, <1>6 DEF wait_complete
<1>8. Reports(wait_tmout(kk, t), kk, make_non_wait_ret(kk, t))
  BY <1>3, <1>5, <1>6 DEF wait_tmout
<1>9. Reports(wait_tmout_ok(kk, t), kk, make_non_wait_ret(kk, t))
  BY <1>3, <1>6 DEF wait_tmout_ok
<1>10. Reports(wait_release(kk, t), kk, make_non_wait_ret(kk, t))
  BY <1>3, <1>4, <1>5, <1>6 DEF wait_release, wait_cancel
<1>11. Same(wait_cancel(kk, t), kk)
  BY <1>3, <1>4, <1>5 DEF wait_cancel, Near
<1> QED
  BY <1>7, <1>8, <1>9, <1>10, <1>11

(* make_dormant and the pending activation that may follow it. *)
LEMMA DormantReports ==
  ASSUME NEW kk \in Tables, NEW t \in Task
  PROVE  make_dormant(kk, t).schedtsk = kk.schedtsk /\ TexQuiet(make_dormant(kk, t), kk)
<1>1. make_dormant(kk, t).schedtsk = kk.schedtsk
  BY DEF make_dormant, Tables
<1>2. /\ make_dormant(kk, t).tcb[t].enatex = FALSE
      /\ \A u \in Task \ {t} : make_dormant(kk, t).tcb[u] = kk.tcb[u]
  BY DEF make_dormant, dormant_tcb, Tables
<1> QED
  BY <1>1, <1>2 DEF TexQuiet, tex_due

(* The activation of a queued request in ext_tsk and ter_tsk returns TRUE  *)
(* whenever it changes schedtsk.                                           *)
LEMMA RestartReports ==
  ASSUME NEW kk, GoodTables(kk), NEW t \in Task
  PROVE  Reports(restart(kk, t), kk, restart_ret(kk, t))
<1> DEFINE k1 == [kk EXCEPT !.tcb[t].actcnt = FALSE]
<1>1. kk \in Tables /\ k1 \in Tables
  BY FieldUpdate DEF GoodTables
<1>2. Same(k1, kk)
  BY <1>1, FieldSame
<1> HIDE DEF k1
<1>3. CASE kk.tcb[t].actcnt
  <2>1. restart(kk, t) = make_runnable(k1, t)
    BY <1>3 DEF restart, k1
  <2>2. make_runnable_ret(k1, t) <=> restart_ret(kk, t)
    BY <1>1, <1>2, <1>3, SameRet DEF restart_ret
  <2>3. Reports(restart(kk, t), k1, restart_ret(kk, t))
    BY <1>1, <2>1, <2>2, MakeRunnableReports DEF Reports
  <2> QED
    BY <1>1, <1>2, <2>3, ReportsSame
<1>4. CASE ~kk.tcb[t].actcnt
  BY <1>4 DEF restart, Reports, TexQuiet
<1> QED
  BY <1>3, <1>4

(* change_priority compares schedtsk before and after. *)
LEMMA ChangePriorityReports ==
  ASSUME NEW kk, GoodTables(kk), NEW t \in Task, NEW newpri \in Pri
  PROVE  Reports(change_priority(kk, t, newpri), kk, change_priority_ret(kk, t, newpri))
<1> DEFINE k0 == [kk EXCEPT !.tcb[t].priority = newpri]
           k1 == leave_queue(k0, t, kk.tcb[t].priority)
           k2 == requeue(kk, t, newpri)
           k3 == change_priority(kk, t, newpri)
<1>1. kk.tcb[t].priority \in Pri
  BY DEF GoodTables, Tables, TCB
<1>2. GoodTables(k1) /\ k1.tcb = k0.tcb
  BY <1>1, FieldUpdate, LeaveQueueType
<1> HIDE DEF k1
<1>3. k2 = [k1 EXCEPT !.ready_queue[newpri] = queue_insert_prev(@, t),
                      !.ready_primap = @ \cup {newpri}]
  BY DEF requeue, k1
<1>4. k2.tcb = k0.tcb /\ DOMAIN k2 = DOMAIN k1
  BY <1>2, <1>3 DEF GoodTables, Tables
<1> HIDE DEF k2
<1>5. k3.tcb = k0.tcb
  BY <1>2, <1>4 DEF change_priority, GoodTables, Tables, k2
<1> HIDE DEF k3
<1>6. TexQuiet(k3, kk)
  BY <1>5 DEF TexQuiet, tex_due, GoodTables, Tables, TCB
<1> QED
  BY <1>6 DEF Reports, change_priority_ret, k3

(* rotate_ready_queue returns TRUE whenever it changes schedtsk. *)
LEMMA RotateReports ==
  ASSUME NEW kk, GoodTables(kk), NEW pri \in Pri
  PROVE  Reports(rotate_ready_queue(kk, pri), kk, rotate_ready_queue_ret(kk, pri))
<1>1. /\ rotate_ready_queue(kk, pri).tcb = kk.tcb
      /\ ~rotate_ready_queue_ret(kk, pri) =>
           rotate_ready_queue(kk, pri).schedtsk = kk.schedtsk
  BY DEF rotate_ready_queue, GoodTables, Tables
<1> QED
  BY <1>1 DEF Reports, TexQuiet, tex_due

(* An exception routine that starts is no longer due. *)
LEMMA TexDelivers ==
  ASSUME NEW kk \in Tables, NEW t \in Task
  PROVE  /\ ~tex_due(calltex(kk, t), t) /\ ~tex_due(take_texptn(kk, t), t)
         /\ calltex(kk, t).schedtsk = kk.schedtsk
<1>1. /\ take_texptn(kk, t).tcb[t].enatex = FALSE
      /\ call_texrtn(kk, t).tcb[t].enatex = FALSE
      /\ call_texrtn(kk, t).schedtsk = kk.schedtsk
  BY DEF take_texptn, call_texrtn, Tables, TCB
<1> QED
  BY <1>1 DEF calltex, tex_due

(* The dispatcher keeps schedtsk and leaves no exception routine due in the*)
(* task it starts.                                                         *)
LEMMA DispatchDelivers ==
  ASSUME NEW kk \in Tables
  PROVE  /\ dispatch_r(kk).schedtsk = kk.schedtsk
         /\ kk.schedtsk # NULL => ~tex_due(dispatch_r(kk), kk.schedtsk)
<1>1. kk.schedtsk \in Task \cup {NULL}
  BY DEF Tables
<1> QED
  BY <1>1, TexDelivers DEF dispatch_r

-----------------------------------------------------------------------------
(* 2.2: the inductive invariant and the two ends of a service call. *)

DispInv == HoldInv /\ DispatchInv /\ TexInv

(* A dispatch establishes the invariant, whatever held before it. *)
LEMMA AfterDispatch ==
  ASSUME NEW k1 \in Tables,
         k' = dispatch_r(k1), runtsk' = k1.schedtsk,
         ~reqflg', enadsp', iniflg'
  PROVE  DispInv'
<1>1. k'.schedtsk = runtsk' /\ (runtsk' # NULL => ~tex_due(k', runtsk'))
  BY DispatchDelivers
<1> QED
  BY <1>1 DEF DispInv, HoldInv, DispatchInv, TexInv

(* The end of a service call of a task. *)
LEMMA TaskCallDisp ==
  ASSUME TypeInv, DispInv, TSKCTX,
         NEW k1 \in Tables, NEW disp \in BOOLEAN, TaskCall(k1, disp),
         disp => enadsp,
         enadsp /\ ~disp => k1.schedtsk = k.schedtsk,
         ~disp /\ tex_due(k1, runtsk) => tex_due(k, runtsk)
  PROVE  DispInv'
<1>1. nest = 0 /\ iniflg /\ runtsk # NULL /\ ~reqflg
  BY DEF DispInv, HoldInv, TSKCTX
<1>2. ~tex_due(k, runtsk) /\ (enadsp => k.schedtsk = runtsk)
  BY <1>1 DEF DispInv, TexInv, DispatchInv
<1>3. CASE disp
  BY <1>1, <1>3, AfterDispatch DEF TaskCall
<1>4. CASE ~disp
  BY <1>1, <1>2, <1>4 DEF TaskCall, DispInv, HoldInv, DispatchInv, TexInv
<1> QED
  BY <1>3, <1>4

(* The same for a routine with its report. *)
LEMMA TaskReport ==
  ASSUME TypeInv, DispInv, TSKCTX,
         NEW k1 \in Tables, NEW ret \in BOOLEAN, TaskCall(k1, Disp(ret)), Reports(k1, k, ret)
  PROVE  DispInv'
<1>1. runtsk \in Task /\ enadsp \in BOOLEAN
  BY DEF TSKCTX, TypeInv, TypeOK
<1>2. Disp(ret) \in BOOLEAN
  BY <1>1 DEF Disp
<1>3. Disp(ret) => enadsp
  BY DEF Disp
<1>4. enadsp /\ ~Disp(ret) => k1.schedtsk = k.schedtsk
  BY DEF Disp, Reports
<1>5. tex_due(k1, runtsk) => tex_due(k, runtsk)
  BY <1>1 DEF Reports, TexQuiet
<1> QED
  BY <1>2, <1>3, <1>4, <1>5, TaskCallDisp

(* The same for a call that only keeps books. *)
LEMMA TaskSame ==
  ASSUME TypeInv, DispInv, TSKCTX,
         NEW k1 \in Tables, TaskCall(k1, FALSE), k1.schedtsk = k.schedtsk,
         tex_due(k1, runtsk) => tex_due(k, runtsk)
  PROVE  DispInv'
  BY TaskCallDisp

(* The end of a service call of a handler. *)
LEMMA IntCallDisp ==
  ASSUME TypeInv, DispInv, INTCTX,
         NEW k1 \in Tables, NEW disp \in BOOLEAN, IntCall(k1, disp),
         enadsp /\ ~disp => k1.schedtsk = k.schedtsk,
         ~disp /\ runtsk # NULL /\ tex_due(k1, runtsk) => tex_due(k, runtsk)
  PROVE  DispInv'
<1>1. nest > 0 /\ nest \in Nat /\ reqflg \in BOOLEAN
  BY DEF INTCTX, TypeInv, TypeOK
<1>2. nest # 0
  BY <1>1
<1>3. iniflg
  BY <1>2 DEF DispInv, HoldInv
<1>4. HoldInv'
  BY <1>2, <1>3 DEF IntCall, DispInv, HoldInv
<1>5. DispatchInv'
  BY <1>1, <1>3 DEF IntCall, DispInv, DispatchInv
<1>6. TexInv'
  BY <1>1 DEF IntCall, DispInv, TexInv
<1> QED
  BY <1>4, <1>5, <1>6 DEF DispInv

(* A handler's call that reports its change of schedtsk preserves DispInv: *)
(* the report is in reqflg.                                                *)
LEMMA IntReport ==
  ASSUME TypeInv, DispInv, INTCTX,
         NEW k1 \in Tables, NEW ret \in BOOLEAN, IntCall(k1, Disp(ret)), Reports(k1, k, ret)
  PROVE  DispInv'
<1>1. runtsk \in Task \cup {NULL} /\ enadsp \in BOOLEAN
  BY DEF TypeInv, TypeOK
<1>2. Disp(ret) \in BOOLEAN
  BY <1>1 DEF Disp
<1>3. enadsp /\ ~Disp(ret) => k1.schedtsk = k.schedtsk
  BY DEF Disp, Reports
<1>4. runtsk # NULL /\ tex_due(k1, runtsk) => tex_due(k, runtsk)
  BY <1>1 DEF Reports, TexQuiet
<1> QED
  BY <1>2, <1>3, <1>4, IntCallDisp

-----------------------------------------------------------------------------
(* 2.3: the actions. *)

(* The values the routines of task.c and wait.c return are Boolean. *)
LEMMA RetBoolean ==
  ASSUME NEW t, NEW p
  PROVE  /\ make_runnable_ret(k, t) \in BOOLEAN
         /\ make_non_runnable_ret(k, t) \in BOOLEAN
         /\ make_non_wait_ret(k, t) \in BOOLEAN
         /\ change_priority_ret(k, t, p) \in BOOLEAN
         /\ rotate_ready_queue_ret(k, p) \in BOOLEAN
         /\ \A k1 : restart_ret(k1, t) \in BOOLEAN
  BY DEF make_runnable_ret, make_non_runnable_ret, make_non_wait_ret,
         change_priority_ret, rotate_ready_queue_ret, restart_ret

(* The calls of a task. *)
LEMMA TaskNextDisp ==
  ASSUME TypeInv, DispInv, TaskNext
  PROVE  DispInv'
<1>1. GoodTables(k) /\ k \in Tables
  BY DEF TypeInv, GoodTables
<1>2. TSKCTX => /\ runtsk \in Task /\ runtsk # NULL
                /\ ~reqflg /\ nest = 0 /\ iniflg
                /\ ~tex_due(k, runtsk) /\ (enadsp => k.schedtsk = runtsk)
  BY DEF TSKCTX, TypeInv, TypeOK, DispInv, HoldInv, DispatchInv, TexInv
<1>3. \A k1 : GoodTables(k1) => k1 \in Tables
  BY DEF GoodTables
<1>4. \A k1 : Same(k1, k) => /\ k1.schedtsk = k.schedtsk
                            /\ \A u \in Task : tex_due(k1, u) => tex_due(k, u)
  BY DEF Same, tex_due
<1>a. ASSUME NEW t \in Task, act_tsk(t) PROVE DispInv'
  <2>1. TSKCTX
    BY <1>a DEF act_tsk, TSKCTX_UNL
  <2>2. CASE TaskCall(make_runnable(k, t), Disp(make_runnable_ret(k, t)))
    <3>1. make_runnable(k, t) \in Tables
      BY <1>1, <1>3, MakeRunnableType
    <3> QED
      BY <1>1, <2>1, <2>2, <3>1, RetBoolean, MakeRunnableReports, TaskReport
  <2>3. CASE TaskCall([k EXCEPT !.tcb[t].actcnt = TRUE], FALSE)
    <3>1. [k EXCEPT !.tcb[t].actcnt = TRUE] \in Tables
      BY <1>1, <1>3, FieldUpdate
    <3>2. Same([k EXCEPT !.tcb[t].actcnt = TRUE], k)
      BY <1>1, FieldSame
    <3> QED
      BY <1>2, <1>4, <2>1, <2>3, <3>1, <3>2, TaskSame
  <2> QED
    BY <1>a, <2>2, <2>3 DEF act_tsk
<1>b. ASSUME NEW t \in Task, can_act(t) PROVE DispInv'
  <2>1. TSKCTX
    BY <1>b DEF can_act, TSKCTX_UNL
  <2>2. [k EXCEPT !.tcb[t].actcnt = FALSE] \in Tables
    BY <1>1, <1>3, FieldUpdate
  <2>3. Same([k EXCEPT !.tcb[t].actcnt = FALSE], k)
    BY <1>1, FieldSame
  <2> QED
    BY <1>2, <1>4, <1>b, <2>1, <2>2, <2>3, TaskSame DEF can_act
<1>c. ASSUME ext_tsk PROVE DispInv'
  <2>1. TSKCTX
    BY <1>c DEF ext_tsk
  <2>2. exit_task(k, runtsk) \in Tables
    BY <1>1, <1>2, <1>3, <2>1, ExitTaskType
  <2> QED
    BY <1>2, <1>c, <2>1, <2>2, AfterDispatch DEF ext_tsk
<1>d. ASSUME NEW t \in Task, ter_tsk(t) PROVE DispInv'
  <2> DEFINE k1 == IF RUNNABLE(k, t) THEN make_non_runnable(k, t)
                   ELSE IF WAITING(k, t) THEN wait_cancel(k, t) ELSE k
             k2 == make_dormant(k1, t)
             k3 == restart(k2, t)
  <2>1. TSKCTX /\ t # runtsk /\ TaskCall(k3, Disp(restart_ret(k2, t)))
    BY <1>d DEF ter_tsk, TSKCTX_UNL
  <2>2. GoodTables(k1) /\ GoodTables(k2) /\ GoodTables(k3)
    BY <1>1, MakeNonRunnableType, CancelType, MakeDormantType, RestartType
  <2>3. TexQuiet(k1, k) /\ (enadsp => k1.schedtsk = k.schedtsk)
    <3>1. CASE RUNNABLE(k, t)
      <4>1. enadsp => ~make_non_runnable_ret(k, t)
        BY <1>2, <2>1 DEF make_non_runnable_ret
      <4>2. k1 = make_non_runnable(k, t)
        BY <3>1
      <4>3. Reports(k1, k, make_non_runnable_ret(k, t))
        BY <1>1, <4>2, MakeNonRunnableReports
      <4> HIDE DEF k1
      <4> QED
        BY <4>1, <4>3 DEF Reports
    <3>2. CASE ~RUNNABLE(k, t) /\ WAITING(k, t)
      BY <1>1, <1>4, <3>2, EndWaitReports DEF TexQuiet
    <3>3. CASE ~RUNNABLE(k, t) /\ ~WAITING(k, t)
      BY <3>3 DEF TexQuiet
    <3> QED
      BY <3>1, <3>2, <3>3
  <2> HIDE DEF k1
  <2>4. k2.schedtsk = k1.schedtsk /\ TexQuiet(k2, k1)
    BY <1>3, <2>2, DormantReports
  <2> HIDE DEF k2
  <2>5. Reports(k3, k2, restart_ret(k2, t))
    BY <2>2, RestartReports
  <2> HIDE DEF k3
  <2>6. k3 \in Tables /\ Disp(restart_ret(k2, t)) \in BOOLEAN
    BY <1>3, <2>2, RetBoolean DEF Disp, TypeInv, TypeOK
  <2>7. enadsp /\ ~Disp(restart_ret(k2, t)) => k3.schedtsk = k.schedtsk
    BY <2>3, <2>4, <2>5 DEF Disp, Reports
  <2>8. tex_due(k3, runtsk) => tex_due(k, runtsk)
    BY <1>2, <2>1, <2>3, <2>4, <2>5 DEF Reports, TexQuiet
  <2>9. Disp(restart_ret(k2, t)) => enadsp
    BY DEF Disp
  <2> QED
    BY <2>1, <2>6, <2>7, <2>8, <2>9, TaskCallDisp
<1>e. ASSUME NEW t \in Task, NEW newpri \in Pri, chg_pri(t, newpri) PROVE DispInv'
  <2> DEFINE k1 == [k EXCEPT !.tcb[t].priority = newpri]
             k2 == IF "WOBJCB" \in k.tcb[t].tstat
                   THEN wobj_change_priority(k1, k.tcb[t].wobj, t) ELSE k1
  <2>1. TSKCTX
    BY <1>e DEF chg_pri, TSKCTX_UNL
  <2>2. CASE TaskCall(change_priority(k, t, newpri), Disp(change_priority_ret(k, t, newpri)))
    <3>1. change_priority(k, t, newpri) \in Tables
      BY <1>1, <1>3, ChangePriorityType
    <3> QED
      BY <1>1, <2>1, <2>2, <3>1, RetBoolean, ChangePriorityReports, TaskReport
  <2>3. CASE TaskCall(k2, FALSE)
    <3>1. GoodTables(k1)
      BY <1>1, FieldUpdate
    <3>2. k2 \in Tables
      BY <1>3, <3>1, WobjChangeType
    <3>3. k1.schedtsk = k.schedtsk /\ TexQuiet(k1, k)
      BY <1>1 DEF TexQuiet, tex_due, Tables, TCB
    <3>4. \A o : /\ wobj_change_priority(k1, o, t).tcb = k1.tcb
                 /\ wobj_change_priority(k1, o, t).schedtsk = k1.schedtsk
      BY <1>3, <3>1 DEF wobj_change_priority, Tables
    <3> HIDE DEF k1
    <3>5. k2.tcb = k1.tcb /\ k2.schedtsk = k1.schedtsk
      BY <3>4
    <3> HIDE DEF k2
    <3>6. k2.schedtsk = k.schedtsk /\ (tex_due(k2, runtsk) => tex_due(k, runtsk))
      BY <1>2, <2>1, <3>3, <3>5 DEF TexQuiet, tex_due
    <3> QED
      BY <2>1, <2>3, <3>2, <3>6, TaskSame
  <2> QED
    BY <1>e, <2>2, <2>3 DEF chg_pri
<1>f. ASSUME NEW tm \in {"none", "wait_tmout"}, slp_tsk(tm) PROVE DispInv'
  <2>1. TSKCTX /\ enadsp /\ runtsk \in Task
    BY <1>2, <1>f DEF slp_tsk, CAN_WAIT, TSKCTX_UNL
  <2>2. CASE TaskCall([k EXCEPT !.tcb[runtsk].wupcnt = FALSE], FALSE)
    <3>1. [k EXCEPT !.tcb[runtsk].wupcnt = FALSE] \in Tables
      BY <1>1, <1>3, <2>1, FieldUpdate
    <3>2. Same([k EXCEPT !.tcb[runtsk].wupcnt = FALSE], k)
      BY <1>1, <2>1, FieldSame
    <3> QED
      BY <1>4, <2>1, <2>2, <3>1, <3>2, TaskSame
  <2>3. CASE TaskCall(make_wait_tmout(k, runtsk, TS_SLEEPING, tm), TRUE)
    <3>1. make_wait_tmout(k, runtsk, TS_SLEEPING, tm) \in Tables
      BY <1>1, <1>3, <2>1, StatTypes, MakeWaitType DEF TmEvt
    <3> QED
      BY <2>1, <2>3, <3>1, TaskCallDisp
  <2> QED
    BY <1>f, <2>2, <2>3 DEF slp_tsk
<1>g. ASSUME NEW t \in Task, wup_tsk(t) PROVE DispInv'
  <2>1. TSKCTX
    BY <1>g DEF wup_tsk, TSKCTX_UNL
  <2>2. CASE TaskCall(wait_complete(k, t), Disp(make_non_wait_ret(k, t)))
    <3>1. wait_complete(k, t) \in Tables /\ Reports(wait_complete(k, t), k, make_non_wait_ret(k, t))
      BY <1>1, <1>3, EndWaitType, EndWaitReports
    <3> QED
      BY <2>1, <2>2, <3>1, RetBoolean, TaskReport
  <2>3. CASE TaskCall([k EXCEPT !.tcb[t].wupcnt = TRUE], FALSE)
    <3>1. [k EXCEPT !.tcb[t].wupcnt = TRUE] \in Tables
      BY <1>1, <1>3, FieldUpdate
    <3>2. Same([k EXCEPT !.tcb[t].wupcnt = TRUE], k)
      BY <1>1, FieldSame
    <3> QED
      BY <1>2, <1>4, <2>1, <2>3, <3>1, <3>2, TaskSame
  <2> QED
    BY <1>g, <2>2, <2>3 DEF wup_tsk, wakeup
<1>h. ASSUME NEW t \in Task, can_wup(t) PROVE DispInv'
  <2>1. TSKCTX
    BY <1>h DEF can_wup, TSKCTX_UNL
  <2>2. [k EXCEPT !.tcb[t].wupcnt = FALSE] \in Tables
    BY <1>1, <1>3, FieldUpdate
  <2>3. Same([k EXCEPT !.tcb[t].wupcnt = FALSE], k)
    BY <1>1, FieldSame
  <2> QED
    BY <1>2, <1>4, <1>h, <2>1, <2>2, <2>3, TaskSame DEF can_wup
<1>i. ASSUME NEW t \in Task, rel_wai(t) PROVE DispInv'
  <2>1. TSKCTX
    BY <1>i DEF rel_wai, TSKCTX_UNL
  <2>2. wait_release(k, t) \in Tables /\ Reports(wait_release(k, t), k, make_non_wait_ret(k, t))
    BY <1>1, <1>3, EndWaitType, EndWaitReports
  <2> QED
    BY <1>i, <2>1, <2>2, RetBoolean, TaskReport DEF rel_wai
<1>j. ASSUME NEW t \in Task, sus_tsk(t) PROVE DispInv'
  <2> DEFINE k1 == [k EXCEPT !.tcb[t].tstat = TS_SUSPENDED]
             k2 == make_non_runnable(k1, t)
             k3 == [k EXCEPT !.tcb[t].tstat = @ \cup TS_SUSPENDED]
  <2>1. TSKCTX
    BY <1>j DEF sus_tsk, TSKCTX_UNL
  <2>2. CASE TaskCall(k2, Disp(make_non_runnable_ret(k, t)))
    <3>1. GoodTables(k1) /\ Same(k1, k)
      BY <1>1, FieldUpdate, FieldSame, StatTypes
    <3> HIDE DEF k1
    <3>2. make_non_runnable_ret(k1, t) <=> make_non_runnable_ret(k, t)
      BY <3>1 DEF make_non_runnable_ret, Same
    <3>3. Reports(k2, k1, make_non_runnable_ret(k, t))
      BY <3>1, <3>2, MakeNonRunnableReports DEF Reports
    <3>4. k2 \in Tables /\ Reports(k2, k, make_non_runnable_ret(k, t))
      BY <1>1, <1>3, <3>1, <3>3, MakeNonRunnableType, ReportsSame
    <3> QED
      BY <2>1, <2>2, <3>4, RetBoolean, TaskReport
  <2>3. CASE TaskCall(k3, FALSE)
    <3>1. k.tcb[t].tstat \cup TS_SUSPENDED \in SUBSET TstatBits
      BY <1>1, StatTypes DEF Tables, TCB
    <3>2. k3 \in Tables /\ Same(k3, k)
      BY <1>1, <1>3, <3>1, FieldUpdate, FieldSame
    <3> QED
      BY <1>2, <1>4, <2>1, <2>3, <3>2, TaskSame
  <2> QED
    BY <1>j, <2>2, <2>3 DEF sus_tsk
<1>k. ASSUME NEW t \in Task, rsm_tsk(t) PROVE DispInv'
  <2> DEFINE k3 == [k EXCEPT !.tcb[t].tstat = @ \ TS_SUSPENDED]
  <2>1. TSKCTX
    BY <1>k DEF rsm_tsk, TSKCTX_UNL
  <2>2. CASE TaskCall(make_runnable(k, t), Disp(make_runnable_ret(k, t)))
    <3>1. make_runnable(k, t) \in Tables
      BY <1>1, <1>3, MakeRunnableType
    <3> QED
      BY <1>1, <2>1, <2>2, <3>1, RetBoolean, MakeRunnableReports, TaskReport
  <2>3. CASE TaskCall(k3, FALSE)
    <3>1. k.tcb[t].tstat \ TS_SUSPENDED \in SUBSET TstatBits
      BY <1>1 DEF Tables, TCB
    <3>2. k3 \in Tables /\ Same(k3, k)
      BY <1>1, <1>3, <3>1, FieldUpdate, FieldSame
    <3> QED
      BY <1>2, <1>4, <2>1, <2>3, <3>2, TaskSame
  <2> QED
    BY <1>k, <2>2, <2>3 DEF rsm_tsk
<1>l. ASSUME dly_tsk PROVE DispInv'
  <2>1. TSKCTX /\ enadsp /\ runtsk \in Task
    BY <1>2, <1>l DEF dly_tsk, CAN_WAIT, TSKCTX_UNL
  <2>2. make_wait_tmout(k, runtsk, TS_WAITING, "wait_tmout_ok") \in Tables
    BY <1>1, <1>3, <2>1, StatTypes, MakeWaitType DEF TmEvt
  <2> QED
    BY <1>l, <2>1, <2>2, TaskCallDisp DEF dly_tsk
<1>m. ASSUME NEW pri \in Pri, rot_rdq(pri) PROVE DispInv'
  <2>1. TSKCTX
    BY <1>m DEF rot_rdq, TSKCTX_UNL
  <2>2. rotate_ready_queue(k, pri) \in Tables
    BY <1>1, <1>3, RotateType
  <2> QED
    BY <1>1, <1>m, <2>1, <2>2, RetBoolean, RotateReports, TaskReport DEF rot_rdq
<1>n. ASSUME dis_dsp PROVE DispInv'
  <2>1. TSKCTX
    BY <1>n DEF dis_dsp, TSKCTX_UNL
  <2> QED
    BY <1>2, <1>n, <2>1 DEF dis_dsp, DispInv, HoldInv, DispatchInv, TexInv, tex_due
<1>o. ASSUME ena_dsp PROVE DispInv'
  <2>1. TSKCTX
    BY <1>o DEF ena_dsp, TSKCTX_UNL
  <2>2. CASE runtsk # k.schedtsk
    BY <1>1, <1>2, <1>o, <2>1, <2>2, AfterDispatch DEF ena_dsp
  <2>3. CASE runtsk = k.schedtsk
    BY <1>2, <1>o, <2>1, <2>3 DEF ena_dsp, DispInv, HoldInv, DispatchInv, TexInv, tex_due
  <2> QED
    BY <2>2, <2>3
<1>p. ASSUME NEW t \in Task, ras_tex(t) PROVE DispInv'
  <2> DEFINE k1 == [k EXCEPT !.tcb[t].texptn = TRUE]
             k2 == IF t = runtsk THEN calltex(k1, t) ELSE k1
  <2>1. TSKCTX /\ TaskCall(k2, FALSE)
    BY <1>p DEF ras_tex, TSKCTX_UNL
  <2>2. GoodTables(k1) /\ k1 \in Tables
    BY <1>1, <1>3, FieldUpdate
  <2>3. k1.schedtsk = k.schedtsk /\ \A u \in Task \ {t} : k1.tcb[u] = k.tcb[u]
    BY <1>1 DEF Tables
  <2> HIDE DEF k1
  <2>4. k2 \in Tables
    BY <1>3, <2>2, TexType
  <2>5. k2.schedtsk = k.schedtsk
    BY <2>2, <2>3, TexDelivers
  <2>6. tex_due(k2, runtsk) => tex_due(k, runtsk)
    <3>1. CASE t = runtsk
      BY <2>2, <3>1, TexDelivers
    <3>2. CASE t # runtsk
      BY <1>2, <2>1, <2>3, <3>2 DEF tex_due
    <3> QED
      BY <3>1, <3>2
  <2> HIDE DEF k2
  <2> QED
    BY <2>1, <2>4, <2>5, <2>6, TaskSame
<1>q. ASSUME dis_tex PROVE DispInv'
  <2> DEFINE k1 == [k EXCEPT !.tcb[runtsk].enatex = FALSE]
  <2>1. TSKCTX /\ runtsk \in Task /\ TaskCall(k1, FALSE)
    BY <1>2, <1>q DEF dis_tex, TSKCTX_UNL
  <2>2. k1 \in Tables
    BY <1>1, <1>3, <2>1, FieldUpdate
  <2>3. k1.schedtsk = k.schedtsk /\ ~tex_due(k1, runtsk)
    BY <1>1, <2>1 DEF tex_due, Tables, TCB
  <2> HIDE DEF k1
  <2> QED
    BY <2>1, <2>2, <2>3, TaskSame
<1>r. ASSUME ena_tex PROVE DispInv'
  <2> DEFINE k1 == [k EXCEPT !.tcb[runtsk].enatex = TRUE]
  <2>1. TSKCTX /\ runtsk \in Task /\ TaskCall(calltex(k1, runtsk), FALSE)
    BY <1>2, <1>r DEF ena_tex, TSKCTX_UNL
  <2>2. GoodTables(k1) /\ k1 \in Tables /\ k1.schedtsk = k.schedtsk
    <3>1. GoodTables(k1)
      BY <1>1, <2>1, FieldUpdate
    <3>2. k1.schedtsk = k.schedtsk
      BY <1>1 DEF Tables
    <3> QED
      BY <1>3, <3>1, <3>2
  <2> HIDE DEF k1
  <2>3. calltex(k1, runtsk) \in Tables
    BY <1>3, <2>1, <2>2, TexType
  <2>4. calltex(k1, runtsk).schedtsk = k.schedtsk /\ ~tex_due(calltex(k1, runtsk), runtsk)
    BY <2>1, <2>2, TexDelivers
  <2> QED
    BY <2>1, <2>3, <2>4, TaskSame
<1>s. ASSUME texrtn_return PROVE DispInv'
  <2>1. TSKCTX /\ runtsk \in Task
    BY <1>2, <1>s DEF texrtn_return
  <2>2. k'.schedtsk = k.schedtsk /\ ~tex_due(k', runtsk)
    <3>1. CASE k.tcb[runtsk].texptn
      <4>1. k' = take_texptn(k, runtsk)
        BY <1>s, <3>1 DEF texrtn_return
      <4>2. take_texptn(k, runtsk).schedtsk = k.schedtsk
        BY <1>1 DEF take_texptn, Tables
      <4> QED
        BY <1>1, <2>1, <4>1, <4>2, TexDelivers
    <3>2. CASE ~k.tcb[runtsk].texptn
      <4>1. k' = [k EXCEPT !.tcb[runtsk].enatex = TRUE, !.tcb[runtsk].texlevel = @ - 1]
        BY <1>s, <3>2 DEF texrtn_return
      <4>2. k'.schedtsk = k.schedtsk /\ k'.tcb[runtsk].texptn = k.tcb[runtsk].texptn
        BY <1>1, <2>1, <4>1 DEF Tables, TCB
      <4> QED
        BY <3>2, <4>2 DEF tex_due
    <3> QED
      BY <3>1, <3>2
  <2> QED
    BY <1>2, <1>s, <2>1, <2>2 DEF texrtn_return, DispInv, HoldInv, DispatchInv, TexInv
<1> QED
  BY <1>a, <1>b, <1>c, <1>d, <1>e, <1>f, <1>g, <1>h, <1>i, <1>j, <1>k, <1>l, <1>m,
     <1>n, <1>o, <1>p, <1>q, <1>r, <1>s DEF TaskNext

(* Interrupts, the calls of handlers, the timer and the idle loop. *)
LEMMA IntNextDisp ==
  ASSUME TypeInv, DispInv, IntNext
  PROVE  DispInv'
<1>1. GoodTables(k) /\ k \in Tables /\ nest \in Nat
  BY DEF TypeInv, TypeOK, GoodTables
<1>2. \A k1 : GoodTables(k1) => k1 \in Tables
  BY DEF GoodTables
<1>3. \A k1 : Same(k1, k) => /\ k1.schedtsk = k.schedtsk
                            /\ \A u \in Task : tex_due(k1, u) => tex_due(k, u)
  BY DEF Same, tex_due
<1>4. runtsk \in Task \cup {NULL}
  BY DEF TypeInv, TypeOK
<1>a. ASSUME interrupt_enter PROVE DispInv'
  BY <1>1, <1>a DEF interrupt_enter, DispInv, HoldInv, DispatchInv, TexInv, tex_due
<1>b. ASSUME interrupt_return PROVE DispInv'
  <2>1. nest > 0 /\ iniflg
    BY <1>1, <1>b DEF interrupt_return, INTCTX_UNL, INTCTX, DispInv, HoldInv
  <2>2. CASE nest = 1 /\ runtsk # NULL /\ reqflg /\ enadsp /\ k.schedtsk # runtsk
    BY <1>1, <1>b, <2>1, <2>2, AfterDispatch DEF interrupt_return
  <2>3. CASE nest = 1 /\ runtsk # NULL /\ reqflg /\ ~(enadsp /\ k.schedtsk # runtsk)
    <3>1. k' = calltex(k, runtsk) /\ runtsk' = runtsk /\ ~reqflg' /\ enadsp' = enadsp /\ iniflg'
      BY <1>b, <2>1, <2>3 DEF interrupt_return
    <3>2. ~tex_due(k', runtsk) /\ k'.schedtsk = k.schedtsk
      BY <1>1, <1>4, <2>3, <3>1, TexDelivers
    <3> QED
      BY <2>3, <3>1, <3>2 DEF DispInv, HoldInv, DispatchInv, TexInv
  <2>4. CASE ~(nest = 1 /\ runtsk # NULL /\ reqflg)
    <3>1. UNCHANGED <<k, runtsk, reqflg, enadsp, iniflg, cpulock>> /\ nest' = nest - 1
      BY <1>b, <2>4 DEF interrupt_return
    <3>2. nest' > 0 \/ nest = 1
      BY <1>1, <2>1, <3>1
    <3> QED
      BY <2>1, <2>4, <3>1, <3>2 DEF DispInv, HoldInv, DispatchInv, TexInv, tex_due
  <2> QED
    BY <2>2, <2>3, <2>4
<1>c. ASSUME wait_for_intr PROVE DispInv'
  BY <1>1, <1>c, AfterDispatch DEF wait_for_intr, DispInv, HoldInv
<1>d. ASSUME NEW pri \in Pri, irot_rdq(pri) PROVE DispInv'
  <2>1. rotate_ready_queue(k, pri) \in Tables
    BY <1>1, <1>2, RotateType
  <2> QED
    BY <1>1, <1>d, <2>1, RetBoolean, RotateReports, IntReport DEF irot_rdq, INTCTX_UNL
<1>e. ASSUME NEW t \in Task, iact_tsk(t) PROVE DispInv'
  <2>1. INTCTX
    BY <1>e DEF iact_tsk, INTCTX_UNL
  <2>2. CASE IntCall(make_runnable(k, t), Disp(make_runnable_ret(k, t)))
    <3>1. make_runnable(k, t) \in Tables
      BY <1>1, <1>2, MakeRunnableType
    <3> QED
      BY <1>1, <2>1, <2>2, <3>1, RetBoolean, MakeRunnableReports, IntReport
  <2>3. CASE IntCall([k EXCEPT !.tcb[t].actcnt = TRUE], FALSE)
    <3>1. [k EXCEPT !.tcb[t].actcnt = TRUE] \in Tables
      BY <1>1, <1>2, FieldUpdate
    <3>2. Same([k EXCEPT !.tcb[t].actcnt = TRUE], k)
      BY <1>1, FieldSame
    <3> QED
      BY <1>3, <1>4, <2>1, <2>3, <3>1, <3>2, IntCallDisp
  <2> QED
    BY <1>e, <2>2, <2>3 DEF iact_tsk
<1>f. ASSUME NEW t \in Task, iwup_tsk(t) PROVE DispInv'
  <2>1. INTCTX
    BY <1>f DEF iwup_tsk, INTCTX_UNL
  <2>2. CASE IntCall(wait_complete(k, t), Disp(make_non_wait_ret(k, t)))
    <3>1. wait_complete(k, t) \in Tables /\ Reports(wait_complete(k, t), k, make_non_wait_ret(k, t))
      BY <1>1, <1>2, EndWaitType, EndWaitReports
    <3> QED
      BY <2>1, <2>2, <3>1, RetBoolean, IntReport
  <2>3. CASE IntCall([k EXCEPT !.tcb[t].wupcnt = TRUE], FALSE)
    <3>1. [k EXCEPT !.tcb[t].wupcnt = TRUE] \in Tables
      BY <1>1, <1>2, FieldUpdate
    <3>2. Same([k EXCEPT !.tcb[t].wupcnt = TRUE], k)
      BY <1>1, FieldSame
    <3> QED
      BY <1>3, <1>4, <2>1, <2>3, <3>1, <3>2, IntCallDisp
  <2> QED
    BY <1>f, <2>2, <2>3 DEF iwup_tsk, wakeup
<1>g. ASSUME NEW t \in Task, irel_wai(t) PROVE DispInv'
  <2>1. INTCTX
    BY <1>g DEF irel_wai, INTCTX_UNL
  <2>2. wait_release(k, t) \in Tables /\ Reports(wait_release(k, t), k, make_non_wait_ret(k, t))
    BY <1>1, <1>2, EndWaitType, EndWaitReports
  <2> QED
    BY <1>g, <2>1, <2>2, RetBoolean, IntReport DEF irel_wai
<1>h. ASSUME NEW t \in Task, iras_tex(t) PROVE DispInv'
  <2> DEFINE k1 == [k EXCEPT !.tcb[t].texptn = TRUE]
             disp == t = runtsk /\ k.tcb[t].enatex
  <2>1. INTCTX /\ IntCall(k1, disp)
    BY <1>h DEF iras_tex, INTCTX_UNL
  <2>2. k1 \in Tables
    BY <1>1, <1>2, FieldUpdate
  <2>3. /\ k1.schedtsk = k.schedtsk
        /\ \A u \in Task \ {t} : k1.tcb[u] = k.tcb[u]
        /\ k1.tcb[t].enatex = k.tcb[t].enatex
    BY <1>1 DEF Tables, TCB
  <2>4. ~disp /\ runtsk # NULL /\ tex_due(k1, runtsk) => tex_due(k, runtsk)
    BY <1>4, <2>3 DEF tex_due
  <2> HIDE DEF k1
  <2>5. disp \in BOOLEAN
    OBVIOUS
  <2> QED
    BY <2>1, <2>2, <2>3, <2>4, <2>5, IntCallDisp
<1>i. ASSUME NEW t \in Task, timeout(t) PROVE DispInv'
  <2> DEFINE k1 == [k EXCEPT !.tcb[t].tmevt = "none"]
  <2>1. INTCTX
    BY <1>i DEF timeout, INTCTX_UNL
  <2>2. GoodTables(k1) /\ k1 \in Tables /\ Same(k1, k) /\ k1.tcb[t].tstat = k.tcb[t].tstat
    BY <1>1, <1>2, FieldUpdate, FieldSame, StatSame DEF TmEvt
  <2>3. \/ IntCall(wait_tmout(k1, t), Disp(make_non_wait_ret(k, t)))
        \/ IntCall(wait_tmout_ok(k1, t), Disp(make_non_wait_ret(k, t)))
    BY <1>i DEF timeout
  <2> HIDE DEF k1
  <2>4. make_non_wait_ret(k1, t) <=> make_non_wait_ret(k, t)
    <3>1. make_runnable_ret(k1, t) <=> make_runnable_ret(k, t)
      BY <1>1, <2>2, SameRet
    <3> QED
      BY <2>2, <3>1 DEF make_non_wait_ret, SUSPENDED
  <2>5. /\ Reports(wait_tmout(k1, t), k1, make_non_wait_ret(k, t))
        /\ Reports(wait_tmout_ok(k1, t), k1, make_non_wait_ret(k, t))
    BY <2>2, <2>4, EndWaitReports DEF Reports
  <2>6. /\ Reports(wait_tmout(k1, t), k, make_non_wait_ret(k, t))
        /\ Reports(wait_tmout_ok(k1, t), k, make_non_wait_ret(k, t))
    BY <1>1, <2>2, <2>5, ReportsSame
  <2>7. wait_tmout(k1, t) \in Tables /\ wait_tmout_ok(k1, t) \in Tables
    BY <1>2, <2>2, EndWaitType
  <2> QED
    BY <2>1, <2>3, <2>6, <2>7, RetBoolean, IntReport
<1> QED
  BY <1>a, <1>b, <1>c, <1>d, <1>e, <1>f, <1>g, <1>h, <1>i DEF IntNext

(* Every step keeps the invariant. *)
LEMMA NextDisp == TypeInv /\ DispInv /\ [Next]_kvars => DispInv'
<1> SUFFICES ASSUME TypeInv, DispInv, [Next]_kvars PROVE DispInv'
  OBVIOUS
<1>0. k \in Tables /\ nest \in Nat
  BY DEF TypeInv, TypeOK
<1>1. CASE task_initialize
  BY <1>1 DEF task_initialize, DispInv, HoldInv, DispatchInv, TexInv
<1>2. CASE kernel_start
  BY <1>0, <1>2, AfterDispatch DEF kernel_start, DispInv, HoldInv
<1>3. CASE loc_cpu
  BY <1>0, <1>3 DEF loc_cpu, TSKCTX, INTCTX, DispInv, HoldInv, DispatchInv, TexInv, tex_due
<1>4. CASE unl_cpu
  BY <1>0, <1>4 DEF unl_cpu, TSKCTX, INTCTX, DispInv, HoldInv, DispatchInv, TexInv, tex_due
<1>5. CASE TaskNext
  BY <1>5, TaskNextDisp
<1>6. CASE IntNext
  BY <1>6, IntNextDisp
<1>7. CASE UNCHANGED kvars
  BY <1>7 DEF kvars, DispInv, HoldInv, DispatchInv, TexInv, tex_due
<1> QED
  BY <1>1, <1>2, <1>3, <1>4, <1>5, <1>6, <1>7 DEF Next

(* DispInv holds at reset. *)
LEMMA InitDisp == Init => DispInv
  BY DEF Init, DispInv, HoldInv, DispatchInv, TexInv

(* 2.1 to 2.3 together. *)
LEMMA DispAlways == Spec => [](TypeInv /\ DispInv)
  BY InitType, InitDisp, NextType, NextDisp, PTL DEF Spec

-----------------------------------------------------------------------------
(* Theorems *)

(* reqflg is never left over to a task, and only a running task disables   *)
(* dispatching.                                                            *)
THEOREM HoldAlways == Spec => []HoldInv
<1>1. DispInv => HoldInv
  BY DEF DispInv
<1> QED
  BY <1>1, DispAlways, PTL

(* No dispatch is lost: whatever services tasks and handlers call, in any  *)
(* order and nesting, a task that runs with dispatching enabled is the one *)
(* to be dispatched, or the way out of the handler knows of the difference.*)
THEOREM NoDispatchLost == Spec => []DispatchInv
<1>1. DispInv => DispatchInv
  BY DEF DispInv
<1> QED
  BY <1>1, DispAlways, PTL

(* No task exception waits for a task that could take it.                  *)
THEOREM TexDelivered == Spec => []TexInv
<1>1. DispInv => TexInv
  BY DEF DispInv
<1> QED
  BY <1>1, DispAlways, PTL

(* The processor changes hands only by ext_tsk or out of a state in which  *)
(* dispatching is enabled, the CPU unlocked and no handler is left.        *)
THEOREM SwitchOnlyWhenAllowed == Spec => NoSwitchWhileHeld
<1> DEFINE Allowed == ext_tsk \/ (enadsp' /\ ~cpulock /\ nest' = 0)
           A == runtsk # NULL /\ runtsk' # runtsk => Allowed
<1>1. ASSUME TypeInv, DispInv, [Next]_kvars
      PROVE  [A]_kvars
  <2> SUFFICES ASSUME Next, runtsk # NULL, runtsk' # runtsk
               PROVE  Allowed
    BY <1>1
  <2>0. TypeInv /\ DispInv
    BY <1>1
  <2>1. ASSUME NEW k1, TaskCall(k1, FALSE)
        PROVE  Allowed
    BY <2>1 DEF TaskCall
  <2>2. ASSUME NEW k1, NEW ret, TaskCall(k1, Disp(ret)), TSKCTX_UNL
        PROVE  Allowed
    BY <2>2 DEF TaskCall, TSKCTX_UNL, TSKCTX, Disp
  <2>w. ASSUME NEW k1, TaskCall(k1, TRUE), CAN_WAIT
        PROVE  Allowed
    BY <2>w DEF TaskCall, CAN_WAIT, TSKCTX_UNL, TSKCTX
  <2>3. ASSUME NEW k1, NEW disp, IntCall(k1, disp)
        PROVE  Allowed
    BY <2>3 DEF IntCall
  <2>4. CASE task_initialize \/ loc_cpu \/ unl_cpu
    BY <2>4 DEF task_initialize, loc_cpu, unl_cpu
  <2>5. CASE kernel_start
    BY <2>0, <2>5 DEF kernel_start, DispInv, HoldInv
  <2>6. CASE TaskNext
    <3>a. ASSUME ext_tsk \/ dis_dsp \/ texrtn_return PROVE Allowed
      BY <3>a DEF dis_dsp, texrtn_return
    <3>b. ASSUME dly_tsk PROVE Allowed
      BY <2>w, <3>b DEF dly_tsk
    <3>c. ASSUME ena_dsp PROVE Allowed
      BY <3>c DEF ena_dsp, TSKCTX_UNL, TSKCTX
    <3>d. ASSUME dis_tex \/ ena_tex PROVE Allowed
      BY <2>1, <3>d DEF dis_tex, ena_tex
    <3>e. ASSUME NEW tm, slp_tsk(tm) PROVE Allowed
      BY <2>1, <2>w, <3>e DEF slp_tsk
    <3>f. ASSUME NEW pri, rot_rdq(pri) PROVE Allowed
      BY <2>1, <2>2, <3>f DEF rot_rdq
    <3>g. ASSUME NEW t, act_tsk(t) \/ can_act(t) PROVE Allowed
      BY <2>1, <2>2, <3>g DEF act_tsk, can_act
    <3>h. ASSUME NEW t, ter_tsk(t) PROVE Allowed
      BY <2>1, <2>2, <3>h DEF ter_tsk
    <3>i. ASSUME NEW t, wup_tsk(t) \/ can_wup(t) \/ rel_wai(t) PROVE Allowed
      BY <2>1, <2>2, <3>i DEF wup_tsk, wakeup, can_wup, rel_wai
    <3>j. ASSUME NEW t, sus_tsk(t) \/ rsm_tsk(t) \/ ras_tex(t) PROVE Allowed
      BY <2>1, <2>2, <3>j DEF sus_tsk, rsm_tsk, ras_tex
    <3>k. ASSUME NEW t, NEW pri, chg_pri(t, pri) PROVE Allowed
      BY <2>1, <2>2, <3>k DEF chg_pri
    <3> QED
      BY <2>6, <3>a, <3>b, <3>c, <3>d, <3>e, <3>f, <3>g, <3>h, <3>i, <3>j, <3>k
         DEF TaskNext
  <2>7. CASE IntNext
    <3>a. ASSUME interrupt_enter PROVE Allowed
      BY <3>a DEF interrupt_enter
    <3>b. ASSUME interrupt_return PROVE Allowed
      <4>1. nest = 1 /\ enadsp /\ ~cpulock
        BY <3>b DEF interrupt_return, INTCTX_UNL
      <4> QED
        BY <3>b, <4>1 DEF interrupt_return
    <3>c. ASSUME wait_for_intr PROVE Allowed
      BY <3>c DEF wait_for_intr
    <3>d. ASSUME NEW pri, irot_rdq(pri) PROVE Allowed
      BY <2>3, <3>d DEF irot_rdq
    <3>e. ASSUME NEW t, iact_tsk(t) \/ iwup_tsk(t) \/ irel_wai(t) \/ iras_tex(t) \/ timeout(t)
          PROVE Allowed
      BY <2>3, <3>e DEF iact_tsk, iwup_tsk, wakeup, irel_wai, iras_tex, timeout
    <3> QED
      BY <2>7, <3>a, <3>b, <3>c, <3>d, <3>e DEF IntNext
  <2> QED
    BY <2>4, <2>5, <2>6, <2>7 DEF Next
<1>2. TypeInv /\ DispInv /\ [Next]_kvars => [A]_kvars
  BY <1>1
<1> QED
  BY <1>2, DispAlways, PTL DEF Spec, NoSwitchWhileHeld

-----------------------------------------------------------------------------
(* Part 3: queues. *)

(* A function on 1 .. n is a sequence. *)
LEMMA FunctionSeq ==
  ASSUME NEW S, NEW n \in Nat, NEW f \in [1 .. n -> S]
  PROVE  f \in Seq(S) /\ Len(f) = n
<1>1. f \in Seq(S)
  BY SeqDef
<1>2. DOMAIN f = 1 .. Len(f) /\ Len(f) \in Nat /\ DOMAIN f = 1 .. n
  BY <1>1, LenProperties
<1> QED
  BY <1>1, <1>2

(* q is a queue of the tasks in S. *)
Holds(q, S) == q \in Seq(Task) /\ NoRepeat(q) /\ Members(q) = S

(* q is in the order of the priorities pr. *)
Sorted(pr, q) == \A i, j \in DOMAIN q : i < j => pr[q[i]] <= pr[q[j]]

(* r is q with t put in at place i; r is q without its i-th entry. *)
Inserted(r, q, i, t) ==
  /\ r \in Seq(Task) /\ Len(r) = Len(q) + 1 /\ i \in 1 .. Len(r)
  /\ \A j \in 1 .. Len(r) : r[j] = IF j < i THEN q[j] ELSE IF j = i THEN t ELSE q[j - 1]

Removed(r, q, i) ==
  /\ r \in Seq(Task) /\ Len(r) = Len(q) - 1 /\ i \in 1 .. Len(q)
  /\ \A j \in 1 .. Len(r) : r[j] = IF j < i THEN q[j] ELSE q[j + 1]

(* A queue is empty exactly if it holds nobody; else it holds its head. *)
LEMMA HoldsHead ==
  ASSUME NEW S, NEW q, Holds(q, S)
  PROVE  /\ S \subseteq Task
         /\ q = << >> <=> S = {}
         /\ q # << >> => Head(q) \in S
<1>1. q \in Seq(Task) /\ Len(q) \in Nat /\ DOMAIN q = 1 .. Len(q)
  BY LenProperties DEF Holds
<1>2. S \subseteq Task
  BY <1>1, ElementOfSeq DEF Holds, Members
<1>3. q # << >> => Len(q) \in Nat \ {0} /\ 1 \in DOMAIN q /\ Head(q) = q[1]
  BY <1>1, EmptySeq
<1>4. q # << >> => q[1] \in S
  BY <1>3 DEF Holds, Members
<1>5. q = << >> => S = {}
  BY <1>1 DEF Holds, Members
<1> QED
  BY <1>2, <1>3, <1>4, <1>5

(* Putting a task in. *)
LEMMA InsertedHolds ==
  ASSUME NEW S, NEW q, Holds(q, S), NEW t \in Task, t \notin S,
         NEW r, NEW i, Inserted(r, q, i, t)
  PROVE  Holds(r, S \cup {t})
<1>1. /\ q \in Seq(Task) /\ Len(q) \in Nat /\ DOMAIN q = 1 .. Len(q)
      /\ r \in Seq(Task) /\ Len(r) \in Nat /\ DOMAIN r = 1 .. Len(r)
  BY LenProperties DEF Holds, Inserted
<1>2. \A j \in 1 .. Len(q) : q[j] \in S /\ q[j] # t
  BY <1>1 DEF Holds, Members
<1> DEFINE from(j) == IF j < i THEN j ELSE j - 1
           to(j) == IF j < i THEN j ELSE j + 1
<1>3. /\ r[i] = t /\ i \in 1 .. Len(r)
      /\ \A j \in 1 .. Len(r) : j # i => from(j) \in 1 .. Len(q) /\ r[j] = q[from(j)]
      /\ \A j \in 1 .. Len(q) : to(j) \in 1 .. Len(r) /\ to(j) # i /\ from(to(j)) = j
  BY <1>1 DEF Inserted
<1>4. \A j, l \in 1 .. Len(r) : j # i /\ l # i /\ from(j) = from(l) => j = l
  BY <1>1, <1>3
<1> HIDE DEF from, to
<1>5. NoRepeat(r)
  <2> SUFFICES ASSUME NEW j \in 1 .. Len(r), NEW l \in 1 .. Len(r), r[j] = r[l]
               PROVE  j = l
    BY <1>1 DEF NoRepeat
  <2>1. CASE j = i \/ l = i
    BY <1>2, <1>3, <2>1
  <2>2. CASE j # i /\ l # i
    <3>1. q[from(j)] = q[from(l)]
      BY <1>3, <2>2
    <3>2. from(j) = from(l)
      BY <1>1, <1>3, <2>2, <3>1 DEF Holds, NoRepeat
    <3> QED
      BY <1>4, <2>2, <3>2
  <2> QED
    BY <2>1, <2>2
<1>6. Members(r) = S \cup {t}
  <2>1. ASSUME NEW j \in 1 .. Len(r) PROVE r[j] \in S \cup {t}
    BY <1>2, <1>3
  <2>2. ASSUME NEW u \in S \cup {t} PROVE \E j \in 1 .. Len(r) : r[j] = u
    <3>1. CASE u = t
      BY <1>3, <3>1
    <3>2. CASE u # t
      <4>1. PICK j \in 1 .. Len(q) : q[j] = u
        BY <1>1, <3>2 DEF Holds, Members
      <4> QED
        BY <1>3, <4>1
    <3> QED
      BY <3>1, <3>2
  <2> QED
    BY <1>1, <2>1, <2>2 DEF Members
<1> QED
  BY <1>1, <1>5, <1>6 DEF Holds

(* Taking a task out. *)
LEMMA RemovedHolds ==
  ASSUME NEW S, NEW q, Holds(q, S), NEW r, NEW i, Removed(r, q, i)
  PROVE  /\ Holds(r, S \ {q[i]})
         /\ \A pr : Sorted(pr, q) => Sorted(pr, r)
         /\ i # 1 => r # << >> /\ Head(r) = Head(q)
<1>1. /\ q \in Seq(Task) /\ Len(q) \in Nat /\ DOMAIN q = 1 .. Len(q)
      /\ r \in Seq(Task) /\ Len(r) \in Nat /\ DOMAIN r = 1 .. Len(r)
      /\ i \in 1 .. Len(q)
  BY LenProperties DEF Holds, Removed
<1> DEFINE from(j) == IF j < i THEN j ELSE j + 1
           to(j) == IF j < i THEN j ELSE j - 1
<1>2. /\ \A j \in 1 .. Len(r) : from(j) \in 1 .. Len(q) /\ from(j) # i /\ r[j] = q[from(j)]
      /\ \A j \in 1 .. Len(q) : j # i => to(j) \in 1 .. Len(r) /\ from(to(j)) = j
  BY <1>1 DEF Removed
<1>3. \A j, l \in 1 .. Len(r) : from(j) = from(l) => j = l
  BY <1>1, <1>2
<1>8. \A j, l \in 1 .. Len(r) : j < l => from(j) < from(l)
  BY <1>1, <1>2
<1> HIDE DEF from, to
<1>4. NoRepeat(r)
  <2> SUFFICES ASSUME NEW j \in 1 .. Len(r), NEW l \in 1 .. Len(r), r[j] = r[l]
               PROVE  j = l
    BY <1>1 DEF NoRepeat
  <2>1. q[from(j)] = q[from(l)]
    BY <1>2
  <2>2. \A m, n \in 1 .. Len(q) : q[m] = q[n] => m = n
    BY <1>1 DEF Holds, NoRepeat
  <2>3. from(j) \in 1 .. Len(q) /\ from(l) \in 1 .. Len(q)
    BY <1>2
  <2>4. from(j) = from(l)
    BY <2>1, <2>2, <2>3
  <2> QED
    BY <1>3, <2>4
<1>5. Members(r) = S \ {q[i]}
  <2>1. ASSUME NEW j \in 1 .. Len(r) PROVE r[j] \in S \ {q[i]}
    BY <1>1, <1>2 DEF Holds, NoRepeat, Members
  <2>2. ASSUME NEW u \in S \ {q[i]} PROVE \E j \in 1 .. Len(r) : r[j] = u
    <3>1. PICK j \in 1 .. Len(q) : q[j] = u
      BY <1>1 DEF Holds, Members
    <3> QED
      BY <1>2, <3>1
  <2> QED
    BY <1>1, <2>1, <2>2 DEF Members
<1>6. ASSUME NEW pr, Sorted(pr, q) PROVE Sorted(pr, r)
  <2> SUFFICES ASSUME NEW j \in 1 .. Len(r), NEW l \in 1 .. Len(r), j < l
               PROVE  pr[r[j]] <= pr[r[l]]
    BY <1>1 DEF Sorted
  <2>0. from(j) \in 1 .. Len(q) /\ from(l) \in 1 .. Len(q)
    BY <1>2
  <2>1. from(j) < from(l) /\ from(j) \in DOMAIN q /\ from(l) \in DOMAIN q
    BY <1>1, <1>8, <2>0
  <2>2. pr[q[from(j)]] <= pr[q[from(l)]]
    BY <1>6, <2>1 DEF Sorted
  <2> QED
    BY <1>2, <2>2
<1>7. i # 1 => r # << >> /\ Head(r) = Head(q)
  <2> SUFFICES ASSUME i # 1 PROVE r # << >> /\ Head(r) = Head(q)
    OBVIOUS
  <2>1. 1 \in 1 .. Len(r) /\ from(1) = 1
    BY <1>1 DEF from, Removed
  <2>2. r[1] = q[1] /\ r # << >> /\ q # << >>
    BY <1>1, <1>2, <2>1
  <2> QED
    BY <1>1, <2>2
<1> QED
  BY <1>1, <1>4, <1>5, <1>6, <1>7 DEF Holds

(* queue_insert_prev puts a task at the end. *)
LEMMA AppendHolds ==
  ASSUME NEW S, NEW q, Holds(q, S), NEW t \in Task, t \notin S
  PROVE  /\ Holds(Append(q, t), S \cup {t})
         /\ Append(q, t) # << >>
         /\ Head(Append(q, t)) = IF q = << >> THEN t ELSE Head(q)
<1>1. q \in Seq(Task) /\ Len(q) \in Nat
  BY LenProperties DEF Holds
<1>2. Inserted(Append(q, t), q, Len(q) + 1, t)
  BY <1>1, AppendProperties DEF Inserted
<1>3. Append(q, t) # << >> /\ Append(q, t) \in Seq(Task)
  BY <1>1, AppendType
<1>4. Head(Append(q, t)) = IF q = << >> THEN t ELSE Head(q)
  BY <1>1, <1>3
<1> QED
  BY <1>2, <1>3, <1>4, InsertedHolds

(* queue_delete_next takes the head off. *)
LEMMA TailHolds ==
  ASSUME NEW S, NEW q, Holds(q, S), q # << >>
  PROVE  /\ Holds(Tail(q), S \ {Head(q)})
         /\ \A pr : Sorted(pr, q) => Sorted(pr, Tail(q))
<1>1. q \in Seq(Task) /\ Len(q) \in Nat
  BY LenProperties DEF Holds
<1>2. /\ Tail(q) \in Seq(Task) /\ Len(Tail(q)) = Len(q) - 1
      /\ \A j \in 1 .. Len(Tail(q)) : Tail(q)[j] = q[j + 1]
      /\ Head(q) = q[1]
  BY <1>1, HeadTailProperties
<1>3. 1 \in 1 .. Len(q)
  BY <1>1, EmptySeq
<1>4. Removed(Tail(q), q, 1)
  BY <1>1, <1>2, <1>3 DEF Removed
<1>5. ASSUME NEW r, NEW i, i = 1, Removed(r, q, i)
      PROVE  Holds(r, S \ {q[i]}) /\ \A pr : Sorted(pr, q) => Sorted(pr, r)
  BY <1>5, RemovedHolds
<1>6. Holds(Tail(q), S \ {q[1]}) /\ \A pr : Sorted(pr, q) => Sorted(pr, Tail(q))
  BY <1>4, <1>5
<1> QED
  BY <1>2, <1>6

(* queue_delete takes a task out wherever it is. *)
LEMMA DeleteHolds ==
  ASSUME NEW S, NEW q, Holds(q, S), NEW t
  PROVE  /\ Holds(queue_delete(q, t), S \ {t})
         /\ \A pr : Sorted(pr, q) => Sorted(pr, queue_delete(q, t))
         /\ q # << >> /\ Head(q) # t =>
              queue_delete(q, t) # << >> /\ Head(queue_delete(q, t)) = Head(q)
<1> DEFINE I == {i \in 1 .. Len(q) : q[i] = t}
<1>1. q \in Seq(Task) /\ Len(q) \in Nat /\ DOMAIN q = 1 .. Len(q)
  BY LenProperties DEF Holds
<1>2. CASE I = {}
  <2>1. queue_delete(q, t) = q
    BY <1>2 DEF queue_delete, RemoveFirst
  <2>2. t \notin S
    BY <1>1, <1>2 DEF Holds, Members
  <2> QED
    BY <2>1, <2>2
<1>3. CASE I # {}
  <2> DEFINE i == SelectInSeq(q, LAMBDA v : v = t)
             r == RemoveAt(q, i)
  <2>1. I \subseteq Nat
    OBVIOUS
  <2>2. \E m \in I : \A n \in I : m <= n
    BY <1>3, <2>1, LeastNatural
  <2>3. i \in 1 .. Len(q) /\ q[i] = t
    BY <1>3, <2>2 DEF SelectInSeq, Min
  <2>4. queue_delete(q, t) = r
    BY <1>3 DEF queue_delete, RemoveFirst
  <2> HIDE DEF i
  <2>5. Removed(r, q, i)
    <3> DEFINE a == SubSeq(q, 1, i - 1)
               b == SubSeq(q, i + 1, Len(q))
    <3>1. /\ i - 1 \in Int /\ i + 1 \in Int /\ 1 \in Int /\ Len(q) \in Int
          /\ \A j \in 1 .. i - 1 : q[j] \in Task
          /\ \A j \in i + 1 .. Len(q) : q[j] \in Task
      BY <1>1, <2>3, ElementOfSeq
    <3>2. /\ a \in Seq(Task) /\ Len(a) = (IF 1 <= i - 1 THEN (i - 1) - 1 + 1 ELSE 0)
          /\ \A j \in 1 .. (i - 1) - 1 + 1 : a[j] = q[1 + j - 1]
      BY <3>1, SubSeqProperties
    <3>3. /\ b \in Seq(Task)
          /\ Len(b) = (IF i + 1 <= Len(q) THEN Len(q) - (i + 1) + 1 ELSE 0)
          /\ \A j \in 1 .. Len(q) - (i + 1) + 1 : b[j] = q[(i + 1) + j - 1]
      BY <3>1, SubSeqProperties
    <3> HIDE DEF a, b
    <3>4. /\ Len(a) = i - 1 /\ Len(b) = Len(q) - i
          /\ \A j \in 1 .. i - 1 : a[j] = q[j]
          /\ \A j \in 1 .. Len(q) - i : b[j] = q[i + j]
      <4>a. i \in Int /\ 1 <= i /\ i <= Len(q) /\ Len(q) \in Int
        BY <1>1, <2>3
      <4>b. Len(a) = i - 1
        BY <3>2, <4>a
      <4>c. Len(b) = Len(q) - i
        BY <3>3, <4>a
      <4>1. Len(a) = i - 1 /\ Len(b) = Len(q) - i
        BY <4>b, <4>c
      <4>2. ASSUME NEW j \in 1 .. i - 1 PROVE a[j] = q[j]
        <5>1. j \in 1 .. (i - 1) - 1 + 1 /\ 1 + j - 1 = j
          BY <1>1, <2>3
        <5> QED
          BY <3>2, <5>1
      <4>3. ASSUME NEW j \in 1 .. Len(q) - i PROVE b[j] = q[i + j]
        <5>1. j \in 1 .. Len(q) - (i + 1) + 1 /\ (i + 1) + j - 1 = i + j
          BY <1>1, <2>3
        <5> QED
          BY <3>3, <5>1
      <4> QED
        BY <4>1, <4>2, <4>3
    <3>5. /\ r \in Seq(Task) /\ Len(r) = Len(a) + Len(b)
          /\ \A j \in 1 .. Len(a) + Len(b) :
               r[j] = IF j <= Len(a) THEN a[j] ELSE b[j - Len(a)]
      BY <3>2, <3>3, ConcatProperties DEF RemoveAt, a, b
    <3> HIDE DEF r
    <3>6. ASSUME NEW j \in 1 .. Len(r) PROVE r[j] = IF j < i THEN q[j] ELSE q[j + 1]
      <4>1. CASE j < i
        <5>1. i \in 1 .. Len(q) /\ Len(q) \in Nat /\ Len(r) = Len(q) - 1
          BY <1>1, <2>3, <3>4, <3>5
        <5>2. j \in 1 .. i - 1 /\ j <= Len(a) /\ j \in 1 .. Len(a) + Len(b)
          BY <3>4, <4>1, <5>1
        <5>3. r[j] = a[j]
          BY <3>5, <5>2
        <5>4. a[j] = q[j]
          BY <3>4, <5>2
        <5> QED
          BY <4>1, <5>3, <5>4
      <4>2. CASE ~(j < i)
        <5>1. j - Len(a) \in 1 .. Len(q) - i /\ i + (j - Len(a)) = j + 1 /\ ~(j <= Len(a))
          BY <1>1, <2>3, <3>4, <3>5, <4>2
        <5>2. r[j] = b[j - Len(a)]
          BY <1>1, <2>3, <3>4, <3>5, <5>1
        <5> QED
          BY <3>4, <4>2, <5>1, <5>2
      <4> QED
        BY <4>1, <4>2
    <3> QED
      BY <1>1, <2>3, <3>4, <3>5, <3>6 DEF Removed
  <2> HIDE DEF r
  <2>6. Head(q) # t => i # 1
    BY <1>1, <2>3
  <2> QED
    BY <2>3, <2>4, <2>5, <2>6, RemovedHolds
<1> QED
  BY <1>2, <1>3

(* queue_insert_tpri keeps a queue in priority order. *)
LEMMA TpriHolds ==
  ASSUME NEW kk \in Tables, NEW S, NEW q, Holds(q, S), NEW t \in Task, t \notin S,
         NEW pr, \A u \in Task : pr[u] = kk.tcb[u].priority, Sorted(pr, q)
  PROVE  LET r == queue_insert_tpri(kk, q, t)
         IN Holds(r, S \cup {t}) /\ Sorted(pr, r)
<1> DEFINE I == {i \in 1 .. Len(q) : kk.tcb[t].priority < kk.tcb[q[i]].priority}
           pos == SelectInSeq(q, LAMBDA u : kk.tcb[t].priority < kk.tcb[u].priority)
           r == queue_insert_tpri(kk, q, t)
           i == IF pos = 0 THEN Len(q) + 1 ELSE pos
<1>1. q \in Seq(Task) /\ Len(q) \in Nat /\ DOMAIN q = 1 .. Len(q)
  BY LenProperties DEF Holds
<1>2. \A j \in 1 .. Len(q) : q[j] \in Task
  BY <1>1, ElementOfSeq
<1>3. \A u \in Task : pr[u] \in Int /\ pr[u] = kk.tcb[u].priority
  BY DEF Tables, TCB, Pri
<1>4. /\ pos \in 0 .. Len(q)
      /\ pos = 0 => I = {}
      /\ pos # 0 => pos \in I /\ \A n \in I : pos <= n
  <2>1. CASE I = {}
    BY <1>1, <2>1 DEF SelectInSeq
  <2>2. CASE I # {}
    <3>0. I \subseteq Nat
      OBVIOUS
    <3>1. \E m \in I : \A n \in I : m <= n
      BY <2>2, <3>0, LeastNatural
    <3>2. Min(I) \in I /\ \A n \in I : Min(I) <= n
      BY <3>1 DEF Min
    <3>3. pos = Min(I)
      BY <2>2 DEF SelectInSeq
    <3>4. I \subseteq 1 .. Len(q)
      OBVIOUS
    <3>5. pos \in I /\ \A n \in I : pos <= n
      BY <3>2, <3>3
    <3>6. pos \in 1 .. Len(q)
      BY <3>4, <3>5
    <3> HIDE DEF pos, I
    <3> QED
      BY <1>1, <3>5, <3>6
  <2> QED BY <2>1, <2>2
<1>5. r = IF pos = 0 THEN Append(q, t) ELSE InsertAt(q, pos, t)
  BY DEF queue_insert_tpri
<1> HIDE DEF pos, r
<1>6. i \in 1 .. Len(q) + 1
  BY <1>1, <1>4
<1>7. /\ \A j \in 1 .. Len(q) : j < i => pr[q[j]] <= pr[t]
      /\ \A j \in 1 .. Len(q) : i <= j => pr[t] <= pr[q[j]]
  <2>1. ASSUME NEW j \in 1 .. Len(q), j < i PROVE pr[q[j]] <= pr[t]
    <3>1. j \notin I
      BY <1>1, <1>4, <2>1
    <3> QED
      BY <1>2, <1>3, <3>1
  <2>2. ASSUME NEW j \in 1 .. Len(q), i <= j PROVE pr[t] <= pr[q[j]]
    <3>1. pos # 0 /\ i = pos /\ i \in 1 .. Len(q) /\ pr[t] < pr[q[i]]
      BY <1>1, <1>2, <1>3, <1>4, <2>2
    <3>2. pr[q[i]] <= pr[q[j]]
      <4>1. i = j \/ i < j
        BY <1>1, <2>2, <3>1
      <4> QED
        BY <1>1, <1>2, <1>3, <3>1, <4>1 DEF Sorted
    <3> QED
      BY <1>2, <1>3, <3>1, <3>2
  <2> QED
    BY <2>1, <2>2
<1>8. Inserted(r, q, i, t)
  <2>1. CASE pos = 0
    BY <1>1, <1>5, <2>1, AppendProperties DEF Inserted
  <2>2. CASE pos # 0
    <3> DEFINE a == SubSeq(q, 1, pos - 1)
               b == SubSeq(q, pos, Len(q))
               c == a \o <<t>>
    <3>0. i = pos /\ pos \in 1 .. Len(q)
      BY <1>1, <1>4, <2>2
    <3>1. /\ pos - 1 \in Int /\ pos \in Int /\ 1 \in Int /\ Len(q) \in Int
          /\ \A j \in 1 .. pos - 1 : q[j] \in Task
          /\ \A j \in pos .. Len(q) : q[j] \in Task
      BY <1>1, <1>2, <3>0
    <3>2. /\ a \in Seq(Task) /\ Len(a) = (IF 1 <= pos - 1 THEN (pos - 1) - 1 + 1 ELSE 0)
          /\ \A j \in 1 .. (pos - 1) - 1 + 1 : a[j] = q[1 + j - 1]
      BY <3>1, SubSeqProperties
    <3>3. /\ b \in Seq(Task)
          /\ Len(b) = (IF pos <= Len(q) THEN Len(q) - pos + 1 ELSE 0)
          /\ \A j \in 1 .. Len(q) - pos + 1 : b[j] = q[pos + j - 1]
      BY <3>1, SubSeqProperties
    <3>4. <<t>> \in Seq(Task) /\ Len(<<t>>) = 1 /\ <<t>>[1] = t
      OBVIOUS
    <3> HIDE DEF a, b
    <3>5. /\ c \in Seq(Task) /\ Len(c) = Len(a) + 1
          /\ \A j \in 1 .. Len(a) + 1 : c[j] = IF j <= Len(a) THEN a[j] ELSE <<t>>[j - Len(a)]
      BY <3>2, <3>4, ConcatProperties
    <3> HIDE DEF c
    <3>6. /\ Len(a) = pos - 1 /\ Len(b) = Len(q) - pos + 1 /\ Len(c) = pos
          /\ \A j \in 1 .. pos - 1 : c[j] = q[j]
          /\ c[pos] = t
          /\ \A j \in 1 .. Len(q) - pos + 1 : b[j] = q[pos + j - 1]
      <4>1. Len(a) = pos - 1 /\ Len(b) = Len(q) - pos + 1 /\ Len(c) = pos
        BY <1>1, <3>0, <3>2, <3>3, <3>5
      <4>2. \A j \in 1 .. pos - 1 : c[j] = q[j]
        BY <1>1, <3>0, <3>2, <3>5, <4>1
      <4>3. c[pos] = <<t>>[1]
        BY <1>1, <3>0, <3>5, <4>1
      <4> QED
        BY <3>3, <3>4, <4>1, <4>2, <4>3
    <3>7. r = c \o b
      BY <1>5, <2>2 DEF InsertAt, a, b, c
    <3>8. /\ r \in Seq(Task) /\ Len(r) = Len(c) + Len(b)
          /\ \A j \in 1 .. Len(c) + Len(b) :
               r[j] = IF j <= Len(c) THEN c[j] ELSE b[j - Len(c)]
      BY <3>3, <3>5, <3>7, ConcatProperties
    <3>9. ASSUME NEW j \in 1 .. Len(r)
          PROVE  r[j] = IF j < i THEN q[j] ELSE IF j = i THEN t ELSE q[j - 1]
      <4>1. CASE j <= pos
        BY <1>1, <3>0, <3>6, <3>8, <4>1
      <4>2. CASE ~(j <= pos)
        <5>1. j - pos \in 1 .. Len(q) - pos + 1 /\ pos + (j - pos) - 1 = j - 1
          BY <1>1, <3>0, <3>6, <3>8, <4>2
        <5>2. r[j] = b[j - pos]
          BY <1>1, <3>0, <3>6, <3>8, <4>2
        <5>3. b[j - pos] = q[pos + (j - pos) - 1]
          BY <3>6, <5>1
        <5>4. ~(j < i) /\ j # i
          BY <1>1, <3>0, <4>2
        <5> QED
          BY <5>1, <5>2, <5>3, <5>4
      <4> QED
        BY <4>1, <4>2
    <3> QED
      BY <1>1, <3>0, <3>6, <3>8, <3>9 DEF Inserted
  <2> QED
    BY <2>1, <2>2
<1> HIDE DEF i
<1>9. Sorted(pr, r)
  <2> SUFFICES ASSUME NEW j \in 1 .. Len(r), NEW l \in 1 .. Len(r), j < l
               PROVE  pr[r[j]] <= pr[r[l]]
    BY <1>8, LenProperties DEF Sorted, Inserted
  <2>1. /\ r[j] = IF j < i THEN q[j] ELSE IF j = i THEN t ELSE q[j - 1]
        /\ r[l] = IF l < i THEN q[l] ELSE IF l = i THEN t ELSE q[l - 1]
        /\ Len(r) = Len(q) + 1
    BY <1>8 DEF Inserted
  <2>2. \A x, y \in 1 .. Len(q) : x < y => pr[q[x]] <= pr[q[y]]
    BY <1>1 DEF Sorted
  <2>3. CASE l < i
    BY <1>1, <1>6, <2>1, <2>2, <2>3
  <2>4. CASE l = i
    BY <1>1, <1>6, <1>7, <2>1, <2>4
  <2>5. CASE i < l /\ j < i
    <3>1. j \in 1 .. Len(q) /\ l - 1 \in 1 .. Len(q) /\ (j < l - 1 \/ j = l - 1)
      BY <1>1, <1>6, <2>1, <2>5
    <3>2. pr[q[j]] <= pr[t] /\ pr[t] <= pr[q[l - 1]]
      BY <1>1, <1>6, <1>7, <2>1, <2>5
    <3>3. r[j] = q[j] /\ r[l] = q[l - 1] /\ q[j] \in Task /\ q[l - 1] \in Task
      BY <1>1, <1>2, <1>6, <2>1, <2>5
    <3> QED
      BY <1>3, <3>2, <3>3
  <2>6. CASE i < l /\ j = i
    BY <1>1, <1>6, <1>7, <2>1, <2>6
  <2>7. CASE i < j
    <3>1. j - 1 \in 1 .. Len(q) /\ l - 1 \in 1 .. Len(q) /\ j - 1 < l - 1
      BY <1>1, <1>6, <2>1, <2>7
    <3>2. r[j] = q[j - 1] /\ r[l] = q[l - 1]
      BY <1>1, <1>6, <2>1, <2>7
    <3> QED
      BY <2>2, <3>1, <3>2
  <2> QED
    BY <1>6, <2>3, <2>4, <2>5, <2>6, <2>7
<1> QED
  BY <1>8, <1>9, InsertedHolds DEF r

-----------------------------------------------------------------------------
(* Part 4: the scheduler's tables.  R is the set of the runnable tasks. *)

(* Each ready queue holds the tasks of its priority. *)
Queues(kk, R) ==
  /\ kk \in Tables /\ R \subseteq Task
  /\ \A p \in Pri : Holds(kk.ready_queue[p], {u \in R : kk.tcb[u].priority = p})
  /\ kk.ready_primap = {p \in Pri : kk.ready_queue[p] # << >>}

(* s is the task to dispatch: the first of the most urgent ones. *)
IsTop(kk, R, s) ==
  IF R = {} THEN s = NULL
            ELSE /\ s \in R
                 /\ \A u \in R : kk.tcb[s].priority <= kk.tcb[u].priority
                 /\ Head(kk.ready_queue[kk.tcb[s].priority]) = s

Ready(kk, R) == Queues(kk, R) /\ IsTop(kk, R, kk.schedtsk)

(* The fields of a TCB the scheduler compares have their types. *)
LEMMA PriType ==
  ASSUME NEW kk \in Tables
  PROVE  /\ \A u \in Task : kk.tcb[u] \in TCB /\ kk.tcb[u].priority \in Pri
         /\ \A p \in Pri : p \in Int
         /\ kk.schedtsk \in Task \cup {NULL} /\ NULL \notin Task
  BY TaskAssumption DEF Tables, TCB, Pri

(* The tables are good in the sense of the type invariant. *)
LEMMA QueuesGood ==
  ASSUME NEW kk, NEW R, Queues(kk, R)
  PROVE  GoodTables(kk)
  BY DEF Queues, GoodTables

(* ready_primap is empty exactly if no task is runnable, and else          *)
(* search_schedtsk finds the task to dispatch.                             *)
LEMMA SearchTop ==
  ASSUME NEW kk, NEW R, Queues(kk, R)
  PROVE  /\ kk.ready_primap = {} <=> R = {}
         /\ R # {} => IsTop(kk, R, search_schedtsk(kk))
<1>1. kk \in Tables /\ R \subseteq Task
  BY DEF Queues
<1>2. \A u \in R : kk.tcb[u].priority \in Pri /\ kk.tcb[u].priority \in kk.ready_primap
  <2> SUFFICES ASSUME NEW u \in R
               PROVE  kk.tcb[u].priority \in Pri /\ kk.tcb[u].priority \in kk.ready_primap
    OBVIOUS
  <2> DEFINE p == kk.tcb[u].priority
             S == {v \in R : kk.tcb[v].priority = p}
  <2>1. p \in Pri
    BY <1>1, PriType
  <2>2. Holds(kk.ready_queue[p], S) /\ u \in S
    BY <2>1 DEF Queues
  <2> HIDE DEF S, p
  <2>3. kk.ready_queue[p] # << >>
    BY <2>2, HoldsHead
  <2> QED
    BY <2>1, <2>3 DEF Queues, p
<1>3. ASSUME NEW p \in kk.ready_primap
      PROVE  /\ p \in Pri
             /\ Head(kk.ready_queue[p]) \in R
             /\ kk.tcb[Head(kk.ready_queue[p])].priority = p
  <2> DEFINE S == {v \in R : kk.tcb[v].priority = p}
  <2>1. p \in Pri /\ kk.ready_queue[p] # << >> /\ Holds(kk.ready_queue[p], S)
    BY DEF Queues
  <2> HIDE DEF S
  <2>2. Head(kk.ready_queue[p]) \in S
    BY <2>1, HoldsHead
  <2> QED
    BY <2>1, <2>2 DEF S
<1>4. kk.ready_primap = {} <=> R = {}
  BY <1>2, <1>3
<1>5. ASSUME R # {}
      PROVE  IsTop(kk, R, search_schedtsk(kk))
  <2> DEFINE p == CHOOSE x \in kk.ready_primap : \A p2 \in kk.ready_primap : x <= p2
  <2>1. kk.ready_primap \subseteq Nat /\ kk.ready_primap # {}
    BY <1>1, <1>4, <1>5 DEF Tables, Pri
  <2>2. \E x \in kk.ready_primap : \A p2 \in kk.ready_primap : x <= p2
    BY <2>1, LeastNatural
  <2>3. p \in kk.ready_primap /\ \A p2 \in kk.ready_primap : p <= p2
    BY <2>2
  <2>4. search_schedtsk(kk) = Head(kk.ready_queue[p])
    BY DEF search_schedtsk
  <2> HIDE DEF p
  <2> QED
    BY <1>2, <1>3, <1>5, <2>3, <2>4 DEF IsTop
<1> QED
  BY <1>4, <1>5

(* What the scheduler's tables say does not depend on other fields. *)
LEMMA ReadyFrame ==
  ASSUME NEW k0, NEW R, Ready(k0, R), NEW k1 \in Tables,
         k1.ready_queue = k0.ready_queue, k1.ready_primap = k0.ready_primap,
         k1.schedtsk = k0.schedtsk,
         \A u \in R : k1.tcb[u].priority = k0.tcb[u].priority
  PROVE  Ready(k1, R)
<1>1. \A p \in Pri : {u \in R : k1.tcb[u].priority = p} = {u \in R : k0.tcb[u].priority = p}
  OBVIOUS
<1>2. Queues(k1, R)
  BY <1>1 DEF Ready, Queues
<1>3. IsTop(k1, R, k1.schedtsk)
  <2>1. k0.schedtsk \in R =>
          k1.tcb[k0.schedtsk].priority = k0.tcb[k0.schedtsk].priority
    OBVIOUS
  <2> QED
    BY <2>1 DEF Ready, IsTop
<1> QED
  BY <1>2, <1>3 DEF Ready

(* Appending a task to the queue of its priority.  It becomes the task to  *)
(* dispatch if it is more urgent than all the others; else that task stays.*)
LEMMA EnqueueReady ==
  ASSUME NEW kk, NEW R, Queues(kk, R), NEW t \in Task, t \notin R,
         NEW k1 \in Tables,
         \A u \in Task : k1.tcb[u].priority = kk.tcb[u].priority,
         k1.ready_queue = [kk.ready_queue EXCEPT
                             ![kk.tcb[t].priority] = queue_insert_prev(@, t)],
         k1.ready_primap = kk.ready_primap \cup {kk.tcb[t].priority}
  PROVE  /\ Queues(k1, R \cup {t})
         /\ (\A u \in R : kk.tcb[t].priority < kk.tcb[u].priority) => IsTop(k1, R \cup {t}, t)
         /\ \A s \in R : /\ IsTop(kk, R, s)
                         /\ ~(kk.tcb[t].priority < kk.tcb[s].priority)
                         => IsTop(k1, R \cup {t}, s)
<1> DEFINE pri == kk.tcb[t].priority
           q == kk.ready_queue[pri]
<1>1. kk \in Tables /\ R \subseteq Task /\ pri \in Pri
  BY PriType DEF Queues
<1>2. \A p \in Pri : k1.ready_queue[p] = IF p = pri THEN Append(q, t) ELSE kk.ready_queue[p]
  BY <1>1 DEF Tables, queue_insert_prev
<1>3. Holds(q, {u \in R : kk.tcb[u].priority = pri})
  BY <1>1 DEF Queues
<1>4. /\ Holds(Append(q, t), {u \in R : kk.tcb[u].priority = pri} \cup {t})
      /\ Append(q, t) # << >>
      /\ Head(Append(q, t)) = IF q = << >> THEN t ELSE Head(q)
  <2> DEFINE S == {u \in R : kk.tcb[u].priority = pri}
  <2>1. t \notin S
    OBVIOUS
  <2> HIDE DEF S, q
  <2> QED
    BY <1>3, <2>1, AppendHolds DEF S
<1>p. \A u \in Task : kk.tcb[u].priority \in Pri /\ kk.tcb[u].priority \in Int
  BY <1>1, PriType
<1>5. Queues(k1, R \cup {t})
  <2>1. ASSUME NEW p \in Pri
        PROVE  Holds(k1.ready_queue[p], {u \in R \cup {t} : k1.tcb[u].priority = p})
    <3>1. CASE p = pri
      <4>1. {u \in R \cup {t} : k1.tcb[u].priority = p}
              = {u \in R : kk.tcb[u].priority = pri} \cup {t}
        BY <1>1, <3>1
      <4> QED
        BY <1>2, <1>4, <3>1, <4>1
    <3>2. CASE p # pri
      <4>1. {u \in R \cup {t} : k1.tcb[u].priority = p} = {u \in R : kk.tcb[u].priority = p}
        BY <1>1, <3>2
      <4> QED
        BY <1>2, <3>2, <4>1 DEF Queues
    <3> QED
      BY <3>1, <3>2
  <2>2. k1.ready_primap = {p \in Pri : k1.ready_queue[p] # << >>}
    <3>1. kk.ready_primap = {p \in Pri : kk.ready_queue[p] # << >>}
      BY DEF Queues
    <3>2. k1.ready_primap = kk.ready_primap \cup {pri}
      OBVIOUS
    <3> HIDE DEF q, pri
    <3> QED
      BY <1>1, <1>2, <1>4, <3>1, <3>2
  <2> QED
    BY <1>1, <2>1, <2>2 DEF Queues
<1>6. ASSUME \A u \in R : pri < kk.tcb[u].priority
      PROVE  IsTop(k1, R \cup {t}, t)
  <2>1. {u \in R : kk.tcb[u].priority = pri} = {}
    BY <1>1, <1>p, <1>6
  <2>2. q = << >>
    <3> HIDE DEF q
    <3> QED
      BY <1>3, <2>1, HoldsHead
  <2>3. Head(k1.ready_queue[k1.tcb[t].priority]) = t
    BY <1>1, <1>2, <1>4, <2>2
  <2>4. \A u \in R \cup {t} : k1.tcb[t].priority <= k1.tcb[u].priority
    BY <1>1, <1>p, <1>6
  <2> QED
    BY <2>3, <2>4 DEF IsTop
<1>7. ASSUME NEW s \in R, IsTop(kk, R, s), ~(pri < kk.tcb[s].priority)
      PROVE  IsTop(k1, R \cup {t}, s)
  <2>1. /\ s \in Task
        /\ \A u \in R : kk.tcb[s].priority <= kk.tcb[u].priority
        /\ Head(kk.ready_queue[kk.tcb[s].priority]) = s
    BY <1>1, <1>7 DEF IsTop
  <2>2. \A u \in R \cup {t} : k1.tcb[s].priority <= k1.tcb[u].priority
    BY <1>1, <1>p, <1>7, <2>1
  <2>3. Head(k1.ready_queue[k1.tcb[s].priority]) = s
    <3>1. CASE kk.tcb[s].priority = pri
      <4>1. s \in {u \in R : kk.tcb[u].priority = pri}
        BY <3>1
      <4>2. q # << >>
        <5> HIDE DEF q
        <5> QED
          BY <1>3, <4>1, HoldsHead
      <4> QED
        BY <1>1, <1>2, <1>4, <2>1, <3>1, <4>2
    <3>2. CASE kk.tcb[s].priority # pri
      BY <1>2, <1>p, <2>1, <3>2
    <3> QED
      BY <3>1, <3>2
  <2> QED
    BY <2>2, <2>3 DEF IsTop
<1> QED
  BY <1>5, <1>6, <1>7

(* make_runnable adds a task that is not runnable. *)
LEMMA MakeRunnableReady ==
  ASSUME NEW kk, NEW R, Ready(kk, R), NEW t \in Task, t \notin R
  PROVE  Ready(make_runnable(kk, t), R \cup {t})
<1> DEFINE pri == kk.tcb[t].priority
           k1 == make_runnable(kk, t)
           s == kk.schedtsk
<1>1. kk \in Tables /\ R \subseteq Task /\ pri \in Pri
  BY PriType DEF Ready, Queues
<1>2. /\ k1.ready_queue = [kk.ready_queue EXCEPT ![pri] = queue_insert_prev(@, t)]
      /\ k1.ready_primap = kk.ready_primap \cup {pri}
      /\ k1.schedtsk = IF make_runnable_ret(kk, t) THEN t ELSE s
      /\ k1.tcb = [kk.tcb EXCEPT ![t] = [kk.tcb[t] EXCEPT !.tstat = TS_RUNNABLE]]
  BY <1>1 DEF make_runnable, Tables
<1>3. k1 \in Tables
  BY QueuesGood, MakeRunnableType DEF GoodTables, Ready
<1>4. \A u \in Task : k1.tcb[u].priority = kk.tcb[u].priority
  BY <1>1, <1>2 DEF Tables, TCB
<1> HIDE DEF k1
<1>5. /\ Queues(k1, R \cup {t})
      /\ (\A u \in R : pri < kk.tcb[u].priority) => IsTop(k1, R \cup {t}, t)
      /\ \A x \in R : /\ IsTop(kk, R, x)
                      /\ ~(pri < kk.tcb[x].priority)
                      => IsTop(k1, R \cup {t}, x)
  BY <1>2, <1>3, <1>4, EnqueueReady DEF Ready
<1>6. IsTop(k1, R \cup {t}, k1.schedtsk)
  <2>1. CASE R = {}
    <3>1. s = NULL
      BY <2>1 DEF Ready, IsTop
    <3>2. k1.schedtsk = t
      BY <1>2, <3>1 DEF make_runnable_ret
    <3> QED
      BY <1>5, <2>1, <3>2
  <2>2. CASE R # {}
    <3>1. /\ s \in R /\ s \in Task /\ s # NULL
          /\ \A u \in R : kk.tcb[s].priority <= kk.tcb[u].priority
      BY <1>1, <2>2, TaskAssumption DEF Ready, IsTop
    <3>2. \A u \in Task : kk.tcb[u].priority \in Int
      BY <1>1, PriType
    <3>3. CASE pri < kk.tcb[s].priority
      <4>1. k1.schedtsk = t
        BY <1>2, <3>3 DEF make_runnable_ret
      <4>2. \A u \in R : pri < kk.tcb[u].priority
        BY <1>1, <3>1, <3>2, <3>3
      <4> QED
        BY <1>5, <4>1, <4>2
    <3>4. CASE ~(pri < kk.tcb[s].priority)
      <4>1. k1.schedtsk = s
        BY <1>2, <3>1, <3>4 DEF make_runnable_ret
      <4> QED
        BY <1>5, <3>1, <3>4, <4>1 DEF Ready
    <3> QED
      BY <3>3, <3>4
  <2> QED
    BY <2>1, <2>2
<1> QED
  BY <1>5, <1>6 DEF Ready, k1

(* Taking a task out of the queue of its priority; k0 is kk but for the    *)
(* TCB of the task itself.  If another one was to be dispatched it stays.  *)
LEMMA LeaveQueueReady ==
  ASSUME NEW kk, NEW R, Queues(kk, R), NEW t \in R,
         NEW k0 \in Tables, k0.ready_queue = kk.ready_queue,
         k0.ready_primap = kk.ready_primap,
         \A u \in Task \ {t} : k0.tcb[u].priority = kk.tcb[u].priority
  PROVE  LET k1 == leave_queue(k0, t, kk.tcb[t].priority)
         IN /\ Queues(k1, R \ {t})
            /\ k1.tcb = k0.tcb /\ k1.schedtsk = k0.schedtsk
            /\ \A s \in R \ {t} : IsTop(kk, R, s) => IsTop(k1, R \ {t}, s)
<1> DEFINE pri == kk.tcb[t].priority
           q == kk.ready_queue[pri]
           d == queue_delete(q, t)
           k1 == leave_queue(k0, t, pri)
<1>1. kk \in Tables /\ R \subseteq Task /\ t \in Task /\ pri \in Pri
  BY PriType DEF Queues
<1>2. GoodTables(k0)
  BY DEF GoodTables, Queues
<1>3. k1 \in Tables /\ k1.tcb = k0.tcb /\ k1.schedtsk = k0.schedtsk
  BY <1>1, <1>2, LeaveQueueType DEF GoodTables
<1>4. /\ \A p \in Pri : k1.ready_queue[p] = IF p = pri THEN d ELSE kk.ready_queue[p]
      /\ k1.ready_primap = IF d = << >> THEN kk.ready_primap \ {pri} ELSE kk.ready_primap
  BY <1>1 DEF leave_queue, Tables
<1> HIDE DEF k1
<1> DEFINE S == {u \in R : kk.tcb[u].priority = pri}
<1>5. Holds(q, S)
  BY <1>1 DEF Queues
<1>6. /\ Holds(d, S \ {t})
      /\ q # << >> /\ Head(q) # t => d # << >> /\ Head(d) = Head(q)
  <2> HIDE DEF q, S
  <2> QED
    BY <1>5, DeleteHolds
<1>7. q # << >>
  <2>1. t \in S
    OBVIOUS
  <2> HIDE DEF q, S
  <2> QED
    BY <1>5, <2>1, HoldsHead
<1>8. Queues(k1, R \ {t})
  <2>1. ASSUME NEW p \in Pri
        PROVE  Holds(k1.ready_queue[p], {u \in R \ {t} : k1.tcb[u].priority = p})
    <3>1. CASE p = pri
      <4>1. {u \in R \ {t} : k1.tcb[u].priority = p} = S \ {t}
        BY <1>1, <1>3, <3>1
      <4> HIDE DEF d, S
      <4> QED
        BY <1>4, <1>6, <3>1, <4>1
    <3>2. CASE p # pri
      <4>1. {u \in R \ {t} : k1.tcb[u].priority = p} = {u \in R : kk.tcb[u].priority = p}
        BY <1>1, <1>3, <3>2
      <4> QED
        BY <1>4, <3>2, <4>1 DEF Queues
    <3> QED
      BY <3>1, <3>2
  <2>2. k1.ready_primap = {p \in Pri : k1.ready_queue[p] # << >>}
    <3>1. kk.ready_primap = {p \in Pri : kk.ready_queue[p] # << >>}
      BY DEF Queues
    <3> HIDE DEF d
    <3> QED
      BY <1>1, <1>4, <1>7, <3>1
  <2> QED
    BY <1>1, <1>3, <2>1, <2>2 DEF Queues
<1>9. ASSUME NEW s \in R \ {t}, IsTop(kk, R, s)
      PROVE  IsTop(k1, R \ {t}, s)
  <2>1. /\ s \in Task
        /\ \A u \in R : kk.tcb[s].priority <= kk.tcb[u].priority
        /\ Head(kk.ready_queue[kk.tcb[s].priority]) = s
    BY <1>1, <1>9 DEF IsTop
  <2>2. \A u \in R \ {t} : k1.tcb[s].priority <= k1.tcb[u].priority
    BY <1>1, <1>3, <2>1
  <2>3. Head(k1.ready_queue[k1.tcb[s].priority]) = s
    <3>1. k1.tcb[s].priority = kk.tcb[s].priority /\ kk.tcb[s].priority \in Pri
      BY <1>1, <1>3, <2>1, PriType
    <3> HIDE DEF d
    <3>2. CASE kk.tcb[s].priority = pri
      BY <1>4, <1>6, <1>7, <2>1, <3>1, <3>2
    <3>3. CASE kk.tcb[s].priority # pri
      BY <1>4, <2>1, <3>1, <3>3
    <3> QED
      BY <3>2, <3>3
  <2> QED
    BY <2>2, <2>3 DEF IsTop
<1> QED
  BY <1>3, <1>8, <1>9 DEF k1

(* make_non_runnable removes a runnable task. *)
LEMMA MakeNonRunnableReady ==
  ASSUME NEW kk, NEW R, Ready(kk, R), NEW t \in R
  PROVE  /\ Ready(make_non_runnable(kk, t), R \ {t})
         /\ make_non_runnable(kk, t).tcb = kk.tcb
         /\ make_non_runnable(kk, t).wait_queue = kk.wait_queue
<1> DEFINE pri == kk.tcb[t].priority
           k1 == leave_queue(kk, t, pri)
           x == IF k1.ready_queue[pri] # << >> THEN Head(k1.ready_queue[pri])
                ELSE IF k1.ready_primap = {} THEN NULL ELSE search_schedtsk(k1)
           s == IF kk.schedtsk = t THEN x ELSE kk.schedtsk
           k2 == make_non_runnable(kk, t)
<1>1. kk \in Tables /\ R \subseteq Task /\ t \in Task /\ pri \in Pri
  BY PriType DEF Ready, Queues
<1>2. /\ Queues(k1, R \ {t})
      /\ k1.tcb = kk.tcb /\ k1.schedtsk = kk.schedtsk
      /\ \A u \in R \ {t} : IsTop(kk, R, u) => IsTop(k1, R \ {t}, u)
  BY <1>1, LeaveQueueReady DEF Ready
<1>3. k1.wait_queue = kk.wait_queue
  BY <1>1 DEF leave_queue, Tables
<1>4. k2 = [k1 EXCEPT !.schedtsk = s]
  BY <1>2 DEF make_non_runnable, make_non_runnable_ret
<1> HIDE DEF k1
<1>5. IsTop(k1, R \ {t}, s)
  <2>1. IsTop(kk, R, kk.schedtsk) /\ kk.schedtsk \in R
    BY DEF Ready, IsTop
  <2>2. CASE kk.schedtsk # t
    BY <1>2, <2>1, <2>2
  <2>3. CASE kk.schedtsk = t /\ k1.ready_queue[pri] # << >>
    <3> DEFINE S == {u \in R \ {t} : k1.tcb[u].priority = pri}
    <3>1. Holds(k1.ready_queue[pri], S)
      BY <1>1, <1>2 DEF Queues
    <3>2. x = Head(k1.ready_queue[pri])
      BY <2>3
    <3> HIDE DEF S, x
    <3>3. x \in S
      BY <2>3, <3>1, <3>2, HoldsHead
    <3>4. x \in R \ {t} /\ kk.tcb[x].priority = pri
      BY <1>2, <3>3 DEF S
    <3>5. \A u \in R : pri <= kk.tcb[u].priority
      BY <2>1, <2>3 DEF IsTop
    <3> QED
      BY <1>2, <2>3, <3>2, <3>4, <3>5 DEF IsTop
  <2>4. CASE kk.schedtsk = t /\ ~(k1.ready_queue[pri] # << >>)
    <3>1. k1.ready_primap = {} <=> R \ {t} = {}
      BY <1>2, SearchTop
    <3>2. R \ {t} # {} => IsTop(k1, R \ {t}, search_schedtsk(k1))
      BY <1>2, SearchTop
    <3> QED
      BY <2>4, <3>1, <3>2 DEF IsTop
  <2> QED
    BY <2>2, <2>3, <2>4
<1>6. s \in Task \cup {NULL}
  BY <1>1, <1>5 DEF IsTop
<1> HIDE DEF s, k2
<1>7. /\ k2.schedtsk = s /\ k2.tcb = k1.tcb /\ k2.wait_queue = k1.wait_queue
      /\ k2.ready_queue = k1.ready_queue /\ k2.ready_primap = k1.ready_primap
      /\ k2 \in Tables
  BY <1>2, <1>4, <1>6 DEF Queues, Tables
<1>8. Ready(k2, R \ {t})
  BY <1>2, <1>5, <1>7 DEF Ready, Queues, IsTop
<1> QED
  BY <1>2, <1>3, <1>7, <1>8 DEF k2

(* change_priority moves a runnable task to the queue of its new priority. *)
LEMMA ChangePriorityReady ==
  ASSUME NEW kk, NEW R, Ready(kk, R), NEW t \in R, NEW newpri \in Pri
  PROVE  LET k3 == change_priority(kk, t, newpri)
         IN /\ Ready(k3, R)
            /\ k3.tcb = [kk.tcb EXCEPT ![t].priority = newpri]
            /\ k3.wait_queue = kk.wait_queue
<1> DEFINE old == kk.tcb[t].priority
           k0 == [kk EXCEPT !.tcb[t].priority = newpri]
           k1 == leave_queue(k0, t, old)
           k2 == requeue(kk, t, newpri)
           s == IF kk.schedtsk = t
                THEN IF newpri >= old THEN search_schedtsk(k2) ELSE t
                ELSE IF newpri < kk.tcb[kk.schedtsk].priority THEN t ELSE kk.schedtsk
           k3 == change_priority(kk, t, newpri)
<1>1. kk \in Tables /\ R \subseteq Task /\ t \in Task /\ old \in Pri
  BY PriType DEF Ready, Queues
<1>2. /\ k0 \in Tables
      /\ k0.ready_queue = kk.ready_queue /\ k0.ready_primap = kk.ready_primap
      /\ k0.schedtsk = kk.schedtsk /\ k0.wait_queue = kk.wait_queue
      /\ \A u \in Task \ {t} : k0.tcb[u] = kk.tcb[u]
      /\ k0.tcb[t].priority = newpri
      /\ k0.tcb = [kk.tcb EXCEPT ![t].priority = newpri]
  <2>1. k0 \in Tables
    BY <1>1, QueuesGood, FieldUpdate DEF GoodTables, Ready
  <2> QED
    BY <1>1, <2>1 DEF Tables, TCB
<1> HIDE DEF k0
<1>3. /\ Queues(k1, R \ {t})
      /\ k1.tcb = k0.tcb /\ k1.schedtsk = k0.schedtsk
      /\ \A u \in R \ {t} : IsTop(kk, R, u) => IsTop(k1, R \ {t}, u)
  <2>1. Queues(kk, R)
    BY DEF Ready
  <2> QED
    BY <1>2, <2>1, LeaveQueueReady
<1>4. k1.wait_queue = kk.wait_queue
  BY <1>2 DEF leave_queue, Tables
<1>5. k2 = [k1 EXCEPT !.ready_queue[newpri] = queue_insert_prev(@, t),
                      !.ready_primap = @ \cup {newpri}]
  BY DEF requeue, k0
<1> HIDE DEF k1, k2
<1>6. /\ k2.ready_queue = [k1.ready_queue EXCEPT ![newpri] = queue_insert_prev(@, t)]
      /\ k2.ready_primap = k1.ready_primap \cup {newpri}
      /\ k2.tcb = k1.tcb /\ k2.schedtsk = k1.schedtsk /\ k2.wait_queue = k1.wait_queue
      /\ k2 \in Tables
  <2>1. k1 \in Tables /\ k1.ready_queue[newpri] \in Seq(Task)
    BY <1>3 DEF Queues, Tables
  <2>2. queue_insert_prev(k1.ready_queue[newpri], t) \in Seq(Task)
    BY <1>1, <2>1, AppendType DEF queue_insert_prev
  <2> QED
    BY <1>5, <2>1, <2>2 DEF Tables
<1>7. k1.tcb[t].priority = newpri
  BY <1>2, <1>3
<1>8. /\ Queues(k2, (R \ {t}) \cup {t})
      /\ (\A u \in R \ {t} : newpri < k1.tcb[u].priority) => IsTop(k2, (R \ {t}) \cup {t}, t)
      /\ \A u \in R \ {t} : /\ IsTop(k1, R \ {t}, u)
                            /\ ~(newpri < k1.tcb[u].priority)
                            => IsTop(k2, (R \ {t}) \cup {t}, u)
  <2>1. t \in Task /\ t \notin R \ {t}
    BY <1>1
  <2>2. \A u \in Task : k2.tcb[u].priority = k1.tcb[u].priority
    BY <1>6
  <2> QED
    BY <1>3, <1>6, <1>7, <2>1, <2>2, EnqueueReady
<1>9. (R \ {t}) \cup {t} = R
  OBVIOUS
<1>10. IsTop(k2, R, s)
  <2>1. /\ kk.schedtsk \in R /\ IsTop(kk, R, kk.schedtsk)
        /\ \A u \in R : kk.tcb[kk.schedtsk].priority <= kk.tcb[u].priority
    BY DEF Ready, IsTop
  <2>2. \A u \in Task : kk.tcb[u].priority \in Int /\ newpri \in Int
    BY <1>1, PriType
  <2>3. \A u \in R \ {t} : k1.tcb[u].priority = kk.tcb[u].priority /\ u \in Task
    BY <1>1, <1>2, <1>3
  <2>4. CASE kk.schedtsk = t /\ newpri >= old
    <3>1. s = search_schedtsk(k2)
      BY <2>4
    <3>2. IsTop(k2, R, search_schedtsk(k2))
      BY <1>8, <1>9, SearchTop
    <3> QED
      BY <3>1, <3>2
  <2>5. CASE kk.schedtsk = t /\ ~(newpri >= old)
    <3>1. \A u \in R \ {t} : newpri < k1.tcb[u].priority
      BY <1>1, <2>1, <2>2, <2>3, <2>5
    <3>2. s = t
      BY <2>5
    <3> QED
      BY <1>8, <1>9, <3>1, <3>2
  <2>6. CASE kk.schedtsk # t /\ newpri < kk.tcb[kk.schedtsk].priority
    <3>1. \A u \in R \ {t} : newpri < k1.tcb[u].priority
      BY <1>1, <2>1, <2>2, <2>3, <2>6
    <3>2. s = t
      BY <2>6
    <3> QED
      BY <1>8, <1>9, <3>1, <3>2
  <2>7. CASE kk.schedtsk # t /\ ~(newpri < kk.tcb[kk.schedtsk].priority)
    <3>1. s = kk.schedtsk /\ s \in R \ {t}
      BY <2>1, <2>7
    <3>2. IsTop(k1, R \ {t}, s) /\ ~(newpri < k1.tcb[s].priority)
      BY <1>3, <2>1, <2>3, <2>7, <3>1
    <3> QED
      BY <1>8, <1>9, <3>1, <3>2
  <2> QED
    BY <2>4, <2>5, <2>6, <2>7
<1>11. s \in Task
  BY <1>1, <1>10 DEF IsTop
<1>12. k3 = [k2 EXCEPT !.schedtsk = s]
  BY DEF change_priority, k2
<1> HIDE DEF k3, s
<1>13. /\ k3.schedtsk = s /\ k3.tcb = k2.tcb /\ k3.wait_queue = k2.wait_queue
       /\ k3.ready_queue = k2.ready_queue /\ k3.ready_primap = k2.ready_primap
       /\ k3 \in Tables
  BY <1>6, <1>11, <1>12 DEF Tables
<1>14. Ready(k3, R)
  BY <1>8, <1>9, <1>10, <1>13 DEF Ready, Queues, IsTop
<1> QED
  BY <1>2, <1>3, <1>4, <1>6, <1>13, <1>14 DEF k3

(* rotate_ready_queue keeps the tables, and with them who is runnable.     *)
LEMMA RotateReady ==
  ASSUME NEW kk, NEW R, Ready(kk, R), NEW pri \in Pri
  PROVE  LET k1 == rotate_ready_queue(kk, pri)
         IN Ready(k1, R) /\ k1.tcb = kk.tcb /\ k1.wait_queue = kk.wait_queue
<1> DEFINE q == kk.ready_queue[pri]
           r == Append(Tail(q), Head(q))
           S == {u \in R : kk.tcb[u].priority = pri}
           s == IF kk.schedtsk = Head(q) THEN Head(r) ELSE kk.schedtsk
           k1 == rotate_ready_queue(kk, pri)
<1>1. kk \in Tables /\ R \subseteq Task
  BY DEF Ready, Queues
<1>2. Holds(q, S)
  BY DEF Ready, Queues
<1>3. CASE ~(Len(q) > 1)
  BY <1>1, <1>3 DEF rotate_ready_queue
<1>4. CASE Len(q) > 1
  <2>1. q \in Seq(Task) /\ Len(q) \in Nat /\ q # << >>
    BY <1>2, <1>4, LenProperties DEF Holds
  <2>4. Holds(Tail(q), S \ {Head(q)})
    <3> HIDE DEF q, S
    <3> QED
      BY <1>2, <2>1, TailHolds
  <2>5. Head(q) \in S
    <3> HIDE DEF q, S
    <3> QED
      BY <1>2, <2>1, HoldsHead
  <2>6. Holds(r, (S \ {Head(q)}) \cup {Head(q)}) /\ r # << >>
    <3>1. Head(q) \in Task /\ Head(q) \notin S \ {Head(q)}
      BY <1>1, <2>5
    <3> HIDE DEF q, S
    <3> QED
      BY <2>4, <3>1, AppendHolds
  <2>7. Holds(r, S)
    <3>1. (S \ {Head(q)}) \cup {Head(q)} = S
      BY <2>5
    <3> QED
      BY <2>6, <3>1
  <2>8. Head(r) \in S
    <3> HIDE DEF r, S
    <3> QED
      BY <2>6, <2>7, HoldsHead
  <2>9. k1 = [kk EXCEPT !.ready_queue[pri] = r, !.schedtsk = s]
    BY <1>1, <1>4 DEF rotate_ready_queue, rotate_ready_queue_ret, queue_insert_prev, Tables
  <2>10. s \in Task \cup {NULL} /\ r \in Seq(Task)
    BY <1>1, <2>7, <2>8, PriType DEF Holds
  <2> HIDE DEF k1, r, s
  <2>11. /\ k1 \in Tables /\ k1.tcb = kk.tcb /\ k1.wait_queue = kk.wait_queue
         /\ k1.schedtsk = s /\ k1.ready_primap = kk.ready_primap
         /\ \A p \in Pri : k1.ready_queue[p] = IF p = pri THEN r ELSE kk.ready_queue[p]
    <3>1. /\ k1.tcb = kk.tcb /\ k1.wait_queue = kk.wait_queue
          /\ k1.schedtsk = s /\ k1.ready_primap = kk.ready_primap
          /\ \A p \in Pri : k1.ready_queue[p] = IF p = pri THEN r ELSE kk.ready_queue[p]
      BY <1>1, <2>9 DEF Tables
    <3>2. k1 \in Tables
      <4>1. GoodTables(kk)
        BY QueuesGood DEF Ready
      <4>2. GoodTables(k1)
        BY <4>1, RotateType DEF k1
      <4> QED
        BY <4>2 DEF GoodTables
    <3> QED
      BY <3>1, <3>2
  <2>12. Queues(k1, R)
    <3>1. ASSUME NEW p \in Pri
          PROVE  Holds(k1.ready_queue[p], {u \in R : k1.tcb[u].priority = p})
      <4>1. CASE p = pri
        BY <2>7, <2>11, <4>1
      <4>2. CASE p # pri
        BY <2>11, <4>2 DEF Ready, Queues
      <4> QED
        BY <4>1, <4>2
    <3>2. k1.ready_primap = {p \in Pri : k1.ready_queue[p] # << >>}
      <4>1. kk.ready_primap = {p \in Pri : kk.ready_queue[p] # << >>}
        BY DEF Ready, Queues
      <4> HIDE DEF q, S
      <4>2. q = kk.ready_queue[pri]
        BY DEF q
      <4> QED
        BY <2>1, <2>6, <2>11, <4>1, <4>2
    <3> QED
      BY <1>1, <2>11, <3>1, <3>2 DEF Queues
  <2>13. IsTop(k1, R, s)
    <3>1. /\ kk.schedtsk \in R /\ R # {}
          /\ \A u \in R : kk.tcb[kk.schedtsk].priority <= kk.tcb[u].priority
          /\ Head(kk.ready_queue[kk.tcb[kk.schedtsk].priority]) = kk.schedtsk
      BY <2>5 DEF Ready, IsTop
    <3>2. CASE kk.schedtsk = Head(q)
      <4>1. s = Head(r) /\ s \in R /\ kk.tcb[s].priority = pri
        BY <2>8, <3>2 DEF s
      <4>2. kk.tcb[kk.schedtsk].priority = pri
        BY <2>5, <3>2
      <4> QED
        BY <2>11, <3>1, <4>1, <4>2 DEF IsTop
    <3>3. CASE kk.schedtsk # Head(q)
      <4>1. s = kk.schedtsk
        BY <3>3 DEF s
      <4>2. kk.tcb[s].priority # pri /\ kk.tcb[s].priority \in Pri
        BY <1>1, <3>1, <3>3, <4>1, PriType
      <4> QED
        BY <2>11, <3>1, <4>1, <4>2 DEF IsTop
    <3> QED
      BY <3>2, <3>3
  <2> QED
    BY <2>11, <2>12, <2>13 DEF Ready, k1
<1> QED
  BY <1>3, <1>4

-----------------------------------------------------------------------------
(* Part 5: task control blocks and wait queues. *)

(* What TstatInv and TimerInv say of one TCB; the wait queue of a TA_TPRI  *)
(* object is known to chg_pri by the bit WOBJCB.                           *)
TcbOK(r) ==
  /\ "RUNNABLE" \in r.tstat => r.tstat = TS_RUNNABLE
  /\ r.tstat \cap {"SLEEP", "WOBJ"} # {} => "WAITING" \in r.tstat
  /\ "WOBJCB" \in r.tstat => "WOBJ" \in r.tstat
  /\ ~({"SLEEP", "WOBJ"} \subseteq r.tstat)
  /\ "WOBJ" \in r.tstat <=> r.wobj # NULL
  /\ r.wobj \in TA_TPRI => "WOBJCB" \in r.tstat
  /\ r.tmevt # "none" <=> "WAITING" \in r.tstat /\ r.winfo = "TMEVTB"
  /\ "WAITING" \in r.tstat => r.winfo \in {"NULL", "TMEVTB"}
  /\ r.tmevt = "wait_tmout_ok" => r.tstat \ TS_SUSPENDED = TS_WAITING

PriOf(kk) == [u \in Task |-> kk.tcb[u].priority]

(* The wait queues hold the tasks of W that wait in them. *)
Linked(kk, W) ==
  \A o \in WObj : /\ Holds(kk.wait_queue[o], {u \in W : kk.tcb[u].wobj = o})
                  /\ o \in TA_TPRI => Sorted(PriOf(kk), kk.wait_queue[o])

Runnable(kk) == {u \in Task : RUNNABLE(kk, u)}

(* The tables between two service calls. *)
Consistent(kk) ==
  /\ Ready(kk, Runnable(kk))
  /\ \A u \in Task : TcbOK(kk.tcb[u])
  /\ Linked(kk, Task)

(* The tables inside one, while the TCB of t is being worked on: the other *)
(* TCBs are as they should be.                                             *)
OthersOK(kk, t, R) ==
  \A u \in Task \ {t} : TcbOK(kk.tcb[u]) /\ (u \in R <=> RUNNABLE(kk, u))

(* Besides, t is in no wait queue. *)
Apart(kk, t, R) == Ready(kk, R) /\ OthersOK(kk, t, R) /\ Linked(kk, Task \ {t})

(* k1 differs from kk in nothing but the TCB of t; in the TCBs in nothing  *)
(* but that of t.                                                          *)
Keep(k1, kk, t) == \A u \in Task \ {t} : k1.tcb[u] = kk.tcb[u]

Only(k1, kk, t) ==
  /\ k1.ready_queue = kk.ready_queue /\ k1.ready_primap = kk.ready_primap
  /\ k1.schedtsk = kk.schedtsk /\ k1.wait_queue = kk.wait_queue
  /\ Keep(k1, kk, t)

(* An assignment to a field of a TCB. *)
LEMMA FieldOnly ==
  ASSUME NEW kk \in Tables, NEW t \in Task, NEW r
  PROVE  Only([kk EXCEPT !.tcb[t] = r], kk, t) /\ [kk EXCEPT !.tcb[t] = r].tcb[t] = r
  BY DEF Only, Keep, Tables

(* Assignments compose. *)
LEMMA OnlyTransitive ==
  ASSUME NEW k0, NEW k1, NEW k2, NEW t, Only(k1, k0, t), Only(k2, k1, t)
  PROVE  Only(k2, k0, t)
  BY DEF Only, Keep

(* The priorities of the tasks in W decide whether their queues are sorted.*)
LEMMA LinkedFrame ==
  ASSUME NEW k0, NEW W \in SUBSET Task, Linked(k0, W), NEW k1,
         k1.wait_queue = k0.wait_queue,
         \A u \in W : k1.tcb[u].wobj = k0.tcb[u].wobj /\ k1.tcb[u].priority = k0.tcb[u].priority
  PROVE  Linked(k1, W)
<1> SUFFICES ASSUME NEW o \in WObj
             PROVE  /\ Holds(k1.wait_queue[o], {u \in W : k1.tcb[u].wobj = o})
                    /\ o \in TA_TPRI => Sorted(PriOf(k1), k1.wait_queue[o])
  BY DEF Linked
<1> DEFINE q == k0.wait_queue[o]
<1>1. {u \in W : k1.tcb[u].wobj = o} = {u \in W : k0.tcb[u].wobj = o}
  OBVIOUS
<1>2. Holds(q, {u \in W : k0.tcb[u].wobj = o})
  BY DEF Linked
<1>3. \A i \in DOMAIN q : q[i] \in W
  BY <1>2 DEF Holds, Members
<1>4. \A i \in DOMAIN q : PriOf(k1)[q[i]] = PriOf(k0)[q[i]]
  BY <1>3 DEF PriOf
<1>5. o \in TA_TPRI => Sorted(PriOf(k1), q)
  BY <1>4 DEF Linked, Sorted
<1> QED
  BY <1>1, <1>2, <1>5

(* A task that waits for no object can be worked on at once. *)
LEMMA TakeApart ==
  ASSUME NEW kk, Consistent(kk), NEW t \in Task, kk.tcb[t].wobj = NULL
  PROVE  Apart(kk, t, Runnable(kk))
<1>1. \A o \in WObj : {u \in Task \ {t} : kk.tcb[u].wobj = o} = {u \in Task : kk.tcb[u].wobj = o}
  BY WObjAssumption
<1>2. Linked(kk, Task \ {t})
  BY <1>1 DEF Consistent, Linked
<1> QED
  BY <1>2 DEF Consistent, Apart, OthersOK, Runnable

(* The tables are consistent again when its TCB is in order. *)
LEMMA PutBack ==
  ASSUME NEW kk, NEW t \in Task, NEW R, Apart(kk, t, R), TcbOK(kk.tcb[t]),
         kk.tcb[t].wobj = NULL, t \in R <=> RUNNABLE(kk, t)
  PROVE  Consistent(kk)
<1>1. \A o \in WObj : {u \in Task \ {t} : kk.tcb[u].wobj = o} = {u \in Task : kk.tcb[u].wobj = o}
  BY WObjAssumption
<1>2. Linked(kk, Task)
  BY <1>1 DEF Apart, Linked
<1>3. Runnable(kk) = R
  BY DEF Apart, OthersOK, Ready, Queues, Runnable
<1> QED
  BY <1>2, <1>3 DEF Consistent, Apart, OthersOK

(* Assignments to the TCB of the task that is worked on. *)
LEMMA ApartOnly ==
  ASSUME NEW kk, NEW t \in Task, NEW R, Apart(kk, t, R), NEW k1 \in Tables, Only(k1, kk, t),
         t \notin R \/ k1.tcb[t].priority = kk.tcb[t].priority
  PROVE  Apart(k1, t, R)
<1>1. R \subseteq Task
  BY DEF Apart, Ready, Queues
<1>2. \A u \in R : k1.tcb[u].priority = kk.tcb[u].priority
  BY <1>1 DEF Only, Keep
<1>3. Ready(k1, R)
  BY <1>2, ReadyFrame DEF Apart, Only
<1>4. OthersOK(k1, t, R)
  BY DEF Apart, OthersOK, Only, Keep, RUNNABLE
<1>5. Linked(k1, Task \ {t})
  <2>1. Task \ {t} \in SUBSET Task /\ Linked(kk, Task \ {t}) /\ k1.wait_queue = kk.wait_queue
    BY DEF Apart, Only
  <2>2. \A u \in Task \ {t} : k1.tcb[u].wobj = kk.tcb[u].wobj /\ k1.tcb[u].priority = kk.tcb[u].priority
    BY DEF Only, Keep
  <2> QED
    BY <2>1, <2>2, LinkedFrame
<1> QED
  BY <1>3, <1>4, <1>5 DEF Apart

(* Assignments between two calls that keep what the queues depend on. *)
LEMMA ConsistentOnly ==
  ASSUME NEW kk, Consistent(kk), NEW t \in Task, NEW k1 \in Tables, Only(k1, kk, t),
         TcbOK(k1.tcb[t]), k1.tcb[t].priority = kk.tcb[t].priority,
         k1.tcb[t].wobj = kk.tcb[t].wobj, RUNNABLE(k1, t) <=> RUNNABLE(kk, t)
  PROVE  Consistent(k1)
<1>1. \A u \in Task : /\ k1.tcb[u].priority = kk.tcb[u].priority
                      /\ k1.tcb[u].wobj = kk.tcb[u].wobj
                      /\ RUNNABLE(k1, u) <=> RUNNABLE(kk, u)
                      /\ TcbOK(k1.tcb[u])
  BY DEF Only, Keep, Consistent, RUNNABLE
<1>2. Runnable(k1) = Runnable(kk)
  BY <1>1 DEF Runnable
<1>3. Runnable(kk) \subseteq Task
  BY DEF Runnable
<1>4. Ready(k1, Runnable(k1))
  BY <1>1, <1>2, <1>3, ReadyFrame DEF Consistent, Only
<1>5. Linked(k1, Task)
  <2>1. Task \in SUBSET Task
    OBVIOUS
  <2> QED
    BY <1>1, <2>1, LinkedFrame DEF Consistent, Only
<1> QED
  BY <1>1, <1>4, <1>5 DEF Consistent

(* Consistent tables have what the earlier proofs call good tables. *)
LEMMA ConsistentGood ==
  ASSUME NEW kk, Consistent(kk)
  PROVE  GoodTables(kk) /\ kk \in Tables /\ \A u \in Task : kk.tcb[u] \in TCB
<1>1. GoodTables(kk)
  BY QueuesGood DEF Consistent, Ready
<1> QED
  BY <1>1 DEF GoodTables, Tables

(* So have those in which one TCB is being worked on. *)
LEMMA ApartGood ==
  ASSUME NEW kk, NEW t, NEW R, Apart(kk, t, R)
  PROVE  GoodTables(kk) /\ kk \in Tables /\ \A u \in Task : kk.tcb[u] \in TCB
<1>1. GoodTables(kk)
  BY QueuesGood DEF Apart, Ready
<1> QED
  BY <1>1 DEF GoodTables, Tables

-----------------------------------------------------------------------------
(* The routines of task.c and wait.c on consistent tables. *)

(* make_runnable, for a task that is nowhere. *)
LEMMA MakeRunnableOK ==
  ASSUME NEW kk, NEW t \in Task, NEW R, Apart(kk, t, R), t \notin R,
         kk.tcb[t].wobj = NULL, kk.tcb[t].tmevt = "none"
  PROVE  LET k1 == make_runnable(kk, t)
         IN Consistent(k1) /\ Keep(k1, kk, t) /\ RUNNABLE(k1, t)
<1> DEFINE k1 == make_runnable(kk, t)
<1>1. kk \in Tables /\ GoodTables(kk) /\ kk.tcb[t] \in TCB
  BY ApartGood
<1>2. /\ k1.tcb = [kk.tcb EXCEPT ![t] = [kk.tcb[t] EXCEPT !.tstat = TS_RUNNABLE]]
      /\ k1.wait_queue = kk.wait_queue
  BY <1>1 DEF make_runnable, Tables
<1>3. Ready(k1, R \cup {t})
  BY MakeRunnableReady DEF Apart
<1> HIDE DEF k1
<1>4. Keep(k1, kk, t) /\ k1.tcb[t] = [kk.tcb[t] EXCEPT !.tstat = TS_RUNNABLE]
  BY <1>1, <1>2 DEF Keep, Tables
<1>5. /\ k1.tcb[t].tstat = TS_RUNNABLE /\ k1.tcb[t].wobj = NULL
      /\ k1.tcb[t].tmevt = "none" /\ RUNNABLE(k1, t)
  BY <1>1, <1>4 DEF TCB, TS_RUNNABLE, RUNNABLE
<1>6. TcbOK(k1.tcb[t])
  <2>1. NULL \notin TA_TPRI
    BY WObjAssumption
  <2> QED
    BY <1>5, <2>1 DEF TcbOK, TS_RUNNABLE
<1>7. Apart(k1, t, R \cup {t})
  <2>1. OthersOK(k1, t, R \cup {t})
    BY <1>4 DEF Apart, OthersOK, Keep, RUNNABLE
  <2>2. Linked(k1, Task \ {t})
    <3>1. Task \ {t} \in SUBSET Task /\ Linked(kk, Task \ {t})
      BY DEF Apart
    <3>2. \A u \in Task \ {t} : k1.tcb[u].wobj = kk.tcb[u].wobj /\ k1.tcb[u].priority = kk.tcb[u].priority
      BY <1>4 DEF Keep
    <3> QED
      BY <1>2, <3>1, <3>2, LinkedFrame
  <2> QED
    BY <1>3, <2>1, <2>2 DEF Apart
<1>8. Consistent(k1)
  BY <1>5, <1>6, <1>7, PutBack
<1> QED
  BY <1>4, <1>5, <1>8 DEF k1

(* make_non_runnable, for a task whose tstat may have been set already. *)
LEMMA MakeNonRunnableOK ==
  ASSUME NEW kk, NEW t \in Task, NEW R, Apart(kk, t, R), t \in R
  PROVE  LET k1 == make_non_runnable(kk, t)
         IN Apart(k1, t, R \ {t}) /\ k1.tcb = kk.tcb
<1> DEFINE k1 == make_non_runnable(kk, t)
<1>1. Ready(k1, R \ {t}) /\ k1.tcb = kk.tcb /\ k1.wait_queue = kk.wait_queue
  BY MakeNonRunnableReady DEF Apart
<1> HIDE DEF k1
<1>2. OthersOK(k1, t, R \ {t})
  BY <1>1 DEF Apart, OthersOK, RUNNABLE
<1>3. Linked(k1, Task \ {t})
  BY <1>1, LinkedFrame DEF Apart
<1> QED
  BY <1>1, <1>2, <1>3 DEF Apart, k1

(* make_non_wait, for a task whose time event and wait queue are dealt     *)
(* with.                                                                   *)
LEMMA MakeNonWaitOK ==
  ASSUME NEW kk, NEW t \in Task, NEW R, Apart(kk, t, R), t \notin R,
         kk.tcb[t].tmevt = "none"
  PROVE  LET k1 == make_non_wait(kk, t)
         IN Consistent(k1) /\ Keep(k1, kk, t)
<1> DEFINE k1 == [kk EXCEPT !.tcb[t].wobj = NULL]
           k2 == [k1 EXCEPT !.tcb[t].tstat = TS_SUSPENDED]
<1>1. kk \in Tables /\ GoodTables(kk) /\ kk.tcb[t] \in TCB
  BY ApartGood
<1>2. k1 \in Tables /\ GoodTables(k1)
  BY <1>1, FieldUpdate DEF GoodTables
<1>3. Only(k1, kk, t) /\ k1.tcb[t] = [kk.tcb[t] EXCEPT !.wobj = NULL]
  BY <1>1, FieldOnly
<1>4. Apart(k1, t, R)
  BY <1>2, <1>3, ApartOnly
<1>5. k1.tcb[t].wobj = NULL /\ k1.tcb[t].tmevt = "none" /\ k1.tcb[t] \in TCB
  BY <1>1, <1>2, <1>3 DEF TCB, Tables
<1>6. CASE ~SUSPENDED(kk, t)
  <2>1. make_non_wait(kk, t) = make_runnable(k1, t)
    BY <1>6 DEF make_non_wait
  <2> HIDE DEF k1
  <2>2. Consistent(make_runnable(k1, t)) /\ Keep(make_runnable(k1, t), k1, t)
    BY <1>4, <1>5, MakeRunnableOK
  <2> QED
    BY <1>3, <2>1, <2>2 DEF Only, Keep
<1>7. CASE SUSPENDED(kk, t)
  <2>1. make_non_wait(kk, t) = k2
    BY <1>7 DEF make_non_wait
  <2> HIDE DEF k1
  <2>2. k2 \in Tables
    BY <1>2, FieldUpdate, StatTypes DEF GoodTables
  <2>3. Only(k2, k1, t) /\ k2.tcb[t] = [k1.tcb[t] EXCEPT !.tstat = TS_SUSPENDED]
    BY <1>2, FieldOnly
  <2> HIDE DEF k2
  <2>4. Apart(k2, t, R)
    BY <1>4, <2>2, <2>3, ApartOnly
  <2>5. /\ k2.tcb[t].tstat = TS_SUSPENDED /\ k2.tcb[t].wobj = NULL
        /\ k2.tcb[t].tmevt = "none" /\ ~RUNNABLE(k2, t)
    BY <1>5, <2>3 DEF TCB, TS_SUSPENDED, RUNNABLE
  <2>6. TcbOK(k2.tcb[t])
    <3>1. NULL \notin TA_TPRI
      BY WObjAssumption
    <3> QED
      BY <2>5, <3>1 DEF TcbOK, TS_SUSPENDED
  <2>7. Consistent(k2)
    BY <2>4, <2>5, <2>6, PutBack
  <2> QED
    BY <1>3, <2>1, <2>3, <2>7 DEF Only, Keep
<1> QED
  BY <1>6, <1>7

(* The TCB of a task that waits for no object. *)
LEMMA NoObject ==
  ASSUME NEW r, TcbOK(r)
  PROVE  /\ "RUNNABLE" \in r.tstat => r.wobj = NULL /\ r.tmevt = "none"
         /\ "WAITING" \notin r.tstat => r.wobj = NULL /\ r.tmevt = "none"
         /\ "WOBJ" \notin r.tstat => r.wobj = NULL
         /\ "WAITING" \in r.tstat => "RUNNABLE" \notin r.tstat
  BY DEF TcbOK, TS_RUNNABLE

(* The head of wait_complete and wait_cancel: the time event is gone, and  *)
(* nothing else changes.                                                   *)
LEMMA TmevtbCancelOnly ==
  ASSUME NEW kk \in Tables, NEW t \in Task
  PROVE  LET k1 == tmevtb_cancel(kk, t)
         IN /\ k1 \in Tables /\ Only(k1, kk, t)
            /\ k1.tcb[t].tstat = kk.tcb[t].tstat /\ k1.tcb[t].wobj = kk.tcb[t].wobj
            /\ k1.tcb[t].priority = kk.tcb[t].priority
            /\ k1.tcb[t].actcnt = kk.tcb[t].actcnt
            /\ TcbOK(kk.tcb[t]) /\ "WAITING" \in kk.tcb[t].tstat => k1.tcb[t].tmevt = "none"
<1> DEFINE r == [kk.tcb[t] EXCEPT !.tmevt = "none"]
           k1 == [kk EXCEPT !.tcb[t] = r]
<1>1. kk.tcb[t] \in TCB /\ r \in TCB
  BY DEF Tables, TCB, TmEvt
<1>2. k1 \in Tables /\ Only(k1, kk, t) /\ k1.tcb[t] = r
  BY <1>1, FieldOnly DEF Tables
<1>3. CASE tmevtb_set(kk.tcb[t].winfo)
  <2>1. tmevtb_cancel(kk, t) = k1
    BY <1>3 DEF tmevtb_cancel
  <2> HIDE DEF k1
  <2> QED
    BY <1>1, <1>2, <2>1 DEF TCB
<1>4. CASE ~tmevtb_set(kk.tcb[t].winfo)
  BY <1>4 DEF tmevtb_cancel, Only, Keep, tmevtb_set, TcbOK
<1> QED
  BY <1>3, <1>4

(* Unlinking a task from the wait queue it is in, while the time event in  *)
(* its TCB may already be gone.                                            *)
LEMMA UnlinkOK ==
  ASSUME NEW kk \in Tables, NEW t \in Task, NEW R, t \notin R,
         Ready(kk, R), OthersOK(kk, t, R), Linked(kk, Task),
         "WOBJ" \in kk.tcb[t].tstat <=> kk.tcb[t].wobj # NULL
  PROVE  Apart(wobj_unlink(kk, t), t, R) /\ wobj_unlink(kk, t).tcb = kk.tcb
<1> DEFINE o == kk.tcb[t].wobj
           k1 == wobj_unlink(kk, t)
<1>1. CASE "WOBJ" \notin kk.tcb[t].tstat
  <2>1. k1 = kk /\ o = NULL
    BY <1>1 DEF wobj_unlink
  <2>2. \A x \in WObj : {u \in Task \ {t} : kk.tcb[u].wobj = x} = {u \in Task : kk.tcb[u].wobj = x}
    BY <2>1, WObjAssumption
  <2>3. Linked(kk, Task \ {t})
    BY <2>2 DEF Linked
  <2> QED
    BY <2>1, <2>3 DEF Apart
<1>2. CASE "WOBJ" \in kk.tcb[t].tstat
  <2>1. o \in WObj
    <3>1. kk.tcb[t] \in TCB
      BY DEF Tables
    <3> QED
      BY <1>2, <3>1 DEF TCB
  <2>2. k1 = [kk EXCEPT !.wait_queue[o] = queue_delete(@, t)]
    BY <1>2 DEF wobj_unlink
  <2>3. \A x \in WObj : k1.wait_queue[x] = IF x = o THEN queue_delete(kk.wait_queue[o], t)
                                                   ELSE kk.wait_queue[x]
    BY <2>1, <2>2 DEF Tables
  <2>4. /\ k1.ready_queue = kk.ready_queue /\ k1.ready_primap = kk.ready_primap
        /\ k1.schedtsk = kk.schedtsk /\ k1.tcb = kk.tcb
    BY <2>2 DEF Tables
  <2>5. k1 \in Tables
    BY QueuesGood, UnlinkType DEF Ready, GoodTables
  <2> HIDE DEF k1
  <2>6. Ready(k1, R)
    BY <2>4, <2>5, ReadyFrame
  <2>7. OthersOK(k1, t, R)
    BY <2>4 DEF OthersOK, RUNNABLE
  <2>8. ASSUME NEW x \in WObj
        PROVE  /\ Holds(k1.wait_queue[x], {u \in Task \ {t} : k1.tcb[u].wobj = x})
               /\ x \in TA_TPRI => Sorted(PriOf(k1), k1.wait_queue[x])
    <3> DEFINE q == kk.wait_queue[x]
               S == {u \in Task : kk.tcb[u].wobj = x}
    <3>1. Holds(q, S) /\ (x \in TA_TPRI => Sorted(PriOf(kk), q))
      BY DEF Linked
    <3>2. {u \in Task \ {t} : k1.tcb[u].wobj = x} = S \ {t}
      BY <2>4
    <3>3. PriOf(k1) = PriOf(kk)
      BY <2>4 DEF PriOf
    <3>4. CASE x = o
      <4>1. k1.wait_queue[x] = queue_delete(q, t)
        BY <2>3, <3>4
      <4> HIDE DEF q, S
      <4>2. Holds(queue_delete(q, t), S \ {t})
        BY <3>1, DeleteHolds
      <4>3. x \in TA_TPRI => Sorted(PriOf(kk), queue_delete(q, t))
        BY <3>1, DeleteHolds
      <4> QED
        BY <3>2, <3>3, <4>1, <4>2, <4>3
    <3>5. CASE x # o
      <4>1. t \notin S
        BY <3>5
      <4>2. S \ {t} = S
        BY <4>1
      <4>3. k1.wait_queue[x] = q
        BY <2>3, <3>5
      <4> HIDE DEF q, S
      <4> QED
        BY <3>1, <3>2, <3>3, <4>2, <4>3
    <3> QED
      BY <3>4, <3>5
  <2>9. Linked(k1, Task \ {t})
    BY <2>8 DEF Linked
  <2> QED
    BY <2>4, <2>6, <2>7, <2>9 DEF Apart, k1
<1> QED
  BY <1>1, <1>2

(* wait_cancel, for a task that is not runnable: if it waits, its time     *)
(* event is gone.                                                          *)
LEMMA WaitCancelOK ==
  ASSUME NEW kk, Consistent(kk), NEW t \in Task, "WAITING" \in kk.tcb[t].tstat
  PROVE  LET k1 == wait_cancel(kk, t)
         IN /\ Apart(k1, t, Runnable(kk)) /\ Keep(k1, kk, t) /\ t \notin Runnable(kk)
            /\ k1.tcb[t].tmevt = "none" /\ k1.tcb[t].actcnt = kk.tcb[t].actcnt
<1> DEFINE k0 == tmevtb_cancel(kk, t)
           R == Runnable(kk)
<1>1. kk \in Tables /\ TcbOK(kk.tcb[t]) /\ Ready(kk, R) /\ Linked(kk, Task)
  BY ConsistentGood DEF Consistent
<1>2. t \notin R
  BY <1>1, NoObject DEF Runnable, RUNNABLE
<1>3. /\ k0 \in Tables /\ Only(k0, kk, t)
      /\ k0.tcb[t].tstat = kk.tcb[t].tstat /\ k0.tcb[t].wobj = kk.tcb[t].wobj
      /\ k0.tcb[t].priority = kk.tcb[t].priority /\ k0.tcb[t].actcnt = kk.tcb[t].actcnt
      /\ k0.tcb[t].tmevt = "none"
  BY <1>1, TmevtbCancelOnly
<1>4. wait_cancel(kk, t) = wobj_unlink(k0, t)
  BY DEF wait_cancel
<1> HIDE DEF k0
<1>5. Ready(k0, R)
  <2>1. \A u \in R : k0.tcb[u].priority = kk.tcb[u].priority
    BY <1>2, <1>3 DEF Only, Keep, Runnable
  <2> QED
    BY <1>1, <1>3, <2>1, ReadyFrame DEF Only
<1>6. OthersOK(k0, t, R)
  BY <1>3 DEF OthersOK, Only, Keep, Consistent, Runnable, RUNNABLE
<1>7. Linked(k0, Task)
  <2>1. Task \in SUBSET Task
    OBVIOUS
  <2>2. \A u \in Task : k0.tcb[u].wobj = kk.tcb[u].wobj /\ k0.tcb[u].priority = kk.tcb[u].priority
    BY <1>3 DEF Only, Keep
  <2> QED
    BY <1>1, <1>3, <2>1, <2>2, LinkedFrame DEF Only
<1>8. "WOBJ" \in k0.tcb[t].tstat <=> k0.tcb[t].wobj # NULL
  BY <1>1, <1>3 DEF TcbOK
<1> HIDE DEF R
<1>9. Apart(wobj_unlink(k0, t), t, R) /\ wobj_unlink(k0, t).tcb = k0.tcb
  BY <1>2, <1>3, <1>5, <1>6, <1>7, <1>8, UnlinkOK
<1> QED
  BY <1>2, <1>3, <1>4, <1>9 DEF Only, Keep, R

(* A wait that ends: make_non_wait after the error code is stored. *)
LEMMA StoreAndWake ==
  ASSUME NEW kk, NEW t \in Task, NEW R, Apart(kk, t, R), t \notin R,
         kk.tcb[t].tmevt = "none", NEW w \in WInfo
  PROVE  LET k1 == make_non_wait([kk EXCEPT !.tcb[t].winfo = w], t)
         IN Consistent(k1) /\ Keep(k1, kk, t)
<1> DEFINE k0 == [kk EXCEPT !.tcb[t].winfo = w]
<1>1. kk \in Tables /\ GoodTables(kk) /\ kk.tcb[t] \in TCB
  BY ApartGood
<1>2. k0 \in Tables
  BY <1>1, FieldUpdate DEF GoodTables
<1>3. Only(k0, kk, t) /\ k0.tcb[t] = [kk.tcb[t] EXCEPT !.winfo = w]
  BY <1>1, FieldOnly
<1> HIDE DEF k0
<1>4. Apart(k0, t, R)
  BY <1>2, <1>3, ApartOnly
<1>5. k0.tcb[t].tmevt = "none"
  BY <1>1, <1>3 DEF TCB
<1>6. Consistent(make_non_wait(k0, t)) /\ Keep(make_non_wait(k0, t), k0, t)
  BY <1>4, <1>5, MakeNonWaitOK
<1> QED
  BY <1>3, <1>6 DEF k0, Only, Keep

(* wait_release, for a waiting task. *)
LEMMA WaitReleaseOK ==
  ASSUME NEW kk, Consistent(kk), NEW t \in Task, "WAITING" \in kk.tcb[t].tstat
  PROVE  Consistent(wait_release(kk, t)) /\ Keep(wait_release(kk, t), kk, t)
<1> DEFINE k1 == wait_cancel(kk, t)
<1>1. /\ Apart(k1, t, Runnable(kk)) /\ Keep(k1, kk, t) /\ t \notin Runnable(kk)
      /\ k1.tcb[t].tmevt = "none"
  BY WaitCancelOK
<1>2. wait_release(kk, t) = make_non_wait([k1 EXCEPT !.tcb[t].winfo = "E_RLWAI"], t)
  BY DEF wait_release
<1>3. "E_RLWAI" \in WInfo
  BY DEF WInfo
<1> HIDE DEF k1
<1>4. Consistent(wait_release(kk, t)) /\ Keep(wait_release(kk, t), k1, t)
  BY <1>1, <1>2, <1>3, StoreAndWake
<1> QED
  BY <1>1, <1>4 DEF Keep

(* wait_complete, for a waiting task its object has already unlinked.      *)
LEMMA WaitCompleteOK ==
  ASSUME NEW kk, NEW t \in Task, NEW R, Apart(kk, t, R), t \notin R,
         TcbOK(kk.tcb[t]), "WAITING" \in kk.tcb[t].tstat
  PROVE  Consistent(wait_complete(kk, t)) /\ Keep(wait_complete(kk, t), kk, t)
<1> DEFINE k1 == tmevtb_cancel(kk, t)
<1>1. kk \in Tables
  BY ApartGood
<1>2. /\ k1 \in Tables /\ Only(k1, kk, t) /\ k1.tcb[t].tmevt = "none"
      /\ k1.tcb[t].priority = kk.tcb[t].priority
  BY <1>1, TmevtbCancelOnly
<1>3. wait_complete(kk, t) = make_non_wait([k1 EXCEPT !.tcb[t].winfo = "E_OK"], t)
  BY DEF wait_complete
<1>4. "E_OK" \in WInfo
  BY DEF WInfo
<1> HIDE DEF k1
<1>5. Apart(k1, t, R)
  BY <1>2, ApartOnly
<1>6. Consistent(wait_complete(kk, t)) /\ Keep(wait_complete(kk, t), k1, t)
  BY <1>2, <1>3, <1>4, <1>5, StoreAndWake
<1> QED
  BY <1>2, <1>6 DEF Only, Keep

(* The call-backs of the time events. *)
LEMMA TimeoutOK ==
  ASSUME NEW kk, Consistent(kk), NEW t \in Task, kk.tcb[t].tmevt # "none"
  PROVE  LET k1 == [kk EXCEPT !.tcb[t].tmevt = "none"]
         IN /\ "WAITING" \in kk.tcb[t].tstat
            /\ Consistent(wait_tmout(k1, t)) /\ Keep(wait_tmout(k1, t), kk, t)
            /\ kk.tcb[t].tmevt = "wait_tmout_ok" =>
                 Consistent(wait_tmout_ok(k1, t)) /\ Keep(wait_tmout_ok(k1, t), kk, t)
<1> DEFINE k1 == [kk EXCEPT !.tcb[t].tmevt = "none"]
           R == Runnable(kk)
<1>1. /\ kk \in Tables /\ GoodTables(kk) /\ TcbOK(kk.tcb[t]) /\ Ready(kk, R) /\ Linked(kk, Task)
      /\ kk.tcb[t] \in TCB
  BY ConsistentGood DEF Consistent
<1>2. "WAITING" \in kk.tcb[t].tstat
  BY <1>1 DEF TcbOK
<1>3. t \notin R
  BY <1>1, <1>2, NoObject DEF Runnable, RUNNABLE
<1>4. k1 \in Tables
  BY <1>1, FieldUpdate DEF GoodTables, TmEvt
<1>5. Only(k1, kk, t) /\ k1.tcb[t] = [kk.tcb[t] EXCEPT !.tmevt = "none"]
  BY <1>1, FieldOnly
<1> HIDE DEF k1
<1>6. /\ k1.tcb[t].tstat = kk.tcb[t].tstat /\ k1.tcb[t].wobj = kk.tcb[t].wobj
      /\ k1.tcb[t].priority = kk.tcb[t].priority /\ k1.tcb[t].tmevt = "none"
  BY <1>1, <1>5 DEF TCB
<1>7. Consistent(wait_tmout(k1, t)) /\ Keep(wait_tmout(k1, t), kk, t)
  <2>1. Ready(k1, R)
    <3>1. \A u \in R : k1.tcb[u].priority = kk.tcb[u].priority
      BY <1>3, <1>5 DEF Only, Keep, Runnable
    <3> QED
      BY <1>1, <1>4, <1>5, <3>1, ReadyFrame DEF Only
  <2>2. OthersOK(k1, t, R)
    BY <1>5 DEF OthersOK, Only, Keep, Consistent, Runnable, RUNNABLE
  <2>3. Linked(k1, Task)
    <3>1. Task \in SUBSET Task
      OBVIOUS
    <3>2. \A u \in Task : k1.tcb[u].wobj = kk.tcb[u].wobj /\ k1.tcb[u].priority = kk.tcb[u].priority
      BY <1>5, <1>6 DEF Only, Keep
    <3> QED
      BY <1>1, <1>5, <3>1, <3>2, LinkedFrame DEF Only
  <2>4. "WOBJ" \in k1.tcb[t].tstat <=> k1.tcb[t].wobj # NULL
    BY <1>1, <1>6 DEF TcbOK
  <2> HIDE DEF R
  <2>5. Apart(wobj_unlink(k1, t), t, R) /\ wobj_unlink(k1, t).tcb = k1.tcb
    BY <1>3, <1>4, <2>1, <2>2, <2>3, <2>4, UnlinkOK
  <2>6. "E_TMOUT" \in WInfo
    BY DEF WInfo
  <2>7. /\ Consistent(wait_tmout(k1, t))
        /\ Keep(wait_tmout(k1, t), wobj_unlink(k1, t), t)
    BY <1>3, <1>6, <2>5, <2>6, StoreAndWake DEF wait_tmout
  <2> QED
    BY <1>5, <2>5, <2>7 DEF Only, Keep
<1>8. ASSUME kk.tcb[t].tmevt = "wait_tmout_ok"
      PROVE  Consistent(wait_tmout_ok(k1, t)) /\ Keep(wait_tmout_ok(k1, t), kk, t)
  <2>1. kk.tcb[t].wobj = NULL
    BY <1>1, <1>8 DEF TcbOK, TS_SUSPENDED, TS_WAITING
  <2>2. Apart(kk, t, R)
    BY <2>1, TakeApart
  <2>3. Apart(k1, t, R)
    BY <1>3, <1>4, <1>5, <2>2, ApartOnly
  <2>4. "E_OK" \in WInfo
    BY DEF WInfo
  <2>5. Consistent(wait_tmout_ok(k1, t)) /\ Keep(wait_tmout_ok(k1, t), k1, t)
    BY <1>3, <1>6, <2>3, <2>4, StoreAndWake DEF wait_tmout_ok
  <2> QED
    BY <1>5, <2>5 DEF Only, Keep
<1> QED
  BY <1>2, <1>7, <1>8 DEF k1

(* make_wait_tmout, for a runnable task: what it leaves in the TCB.        *)
LEMMA MakeWaitOK ==
  ASSUME NEW kk, Consistent(kk), NEW t \in Task, RUNNABLE(kk, t),
         NEW stat \in SUBSET TstatBits, NEW tm \in TmEvt
  PROVE  LET k1 == make_wait_tmout(kk, t, stat, tm)
         IN /\ Apart(k1, t, Runnable(kk) \ {t}) /\ Keep(k1, kk, t)
            /\ k1.tcb[t].tstat = stat /\ k1.tcb[t].wobj = NULL /\ k1.tcb[t].tmevt = tm
            /\ k1.tcb[t].winfo = IF tm = "none" THEN "NULL" ELSE "TMEVTB"
            /\ k1.wait_queue = kk.wait_queue
<1> DEFINE w == IF tm = "none" THEN "NULL" ELSE "TMEVTB"
           k0 == [kk EXCEPT !.tcb[t].tstat = stat]
           k1 == make_non_runnable(k0, t)
           k2 == [k1 EXCEPT !.tcb[t].winfo = w]
           k3 == [k2 EXCEPT !.tcb[t].tmevt = tm]
           R == Runnable(kk)
<1>1. /\ kk \in Tables /\ GoodTables(kk) /\ TcbOK(kk.tcb[t]) /\ kk.tcb[t] \in TCB
      /\ t \in R /\ kk.tcb[t].wobj = NULL
  BY ConsistentGood, NoObject DEF Consistent, Runnable, RUNNABLE
<1>2. Apart(kk, t, R)
  BY <1>1, TakeApart
<1>3. k0 \in Tables
  BY <1>1, FieldUpdate DEF GoodTables
<1>4. Only(k0, kk, t) /\ k0.tcb[t] = [kk.tcb[t] EXCEPT !.tstat = stat]
  BY <1>1, FieldOnly
<1>5. make_wait_tmout(kk, t, stat, tm) = k3
  BY DEF make_wait_tmout
<1> HIDE DEF k0
<1>6. /\ k0.tcb[t].tstat = stat /\ k0.tcb[t].wobj = NULL
      /\ k0.tcb[t].priority = kk.tcb[t].priority /\ k0.tcb[t] \in TCB
  BY <1>1, <1>3, <1>4 DEF TCB, Tables
<1>7. Apart(k0, t, R)
  BY <1>2, <1>3, <1>4, <1>6, ApartOnly
<1>8. Apart(k1, t, R \ {t}) /\ k1.tcb = k0.tcb /\ k1 \in Tables /\ k1.wait_queue = k0.wait_queue
  BY <1>1, <1>7, MakeNonRunnableOK, MakeNonRunnableReady, ApartGood DEF Apart
<1> HIDE DEF k1
<1>9. w \in WInfo
  BY DEF WInfo
<1> HIDE DEF w
<1>10. k2 \in Tables
  BY <1>8, <1>9, FieldUpdate, ApartGood DEF GoodTables
<1>11. Only(k2, k1, t) /\ k2.tcb[t] = [k1.tcb[t] EXCEPT !.winfo = w]
  BY <1>8, FieldOnly
<1> HIDE DEF k2
<1>12. Apart(k2, t, R \ {t})
  BY <1>8, <1>10, <1>11, ApartOnly
<1>13. k3 \in Tables
  BY <1>12, FieldUpdate, ApartGood DEF GoodTables
<1>14. Only(k3, k2, t) /\ k3.tcb[t] = [k2.tcb[t] EXCEPT !.tmevt = tm]
  BY <1>10, FieldOnly
<1> HIDE DEF k3
<1>15. Apart(k3, t, R \ {t})
  BY <1>12, <1>13, <1>14, ApartOnly
<1>16. /\ k3.tcb[t].tstat = stat /\ k3.tcb[t].wobj = NULL /\ k3.tcb[t].tmevt = tm
       /\ k3.tcb[t].winfo = w
  BY <1>6, <1>8, <1>11, <1>14 DEF TCB
<1>17. Keep(k3, kk, t) /\ k3.wait_queue = kk.wait_queue
  BY <1>4, <1>8, <1>11, <1>14 DEF Only, Keep
<1> QED
  BY <1>5, <1>15, <1>16, <1>17 DEF w

(* slp_tsk, tslp_tsk and dly_tsk of a runnable task. *)
LEMMA SleepOK ==
  ASSUME NEW kk, Consistent(kk), NEW t \in Task, RUNNABLE(kk, t)
  PROVE  /\ \A tm \in {"none", "wait_tmout"} :
              Consistent(make_wait_tmout(kk, t, TS_SLEEPING, tm))
         /\ Consistent(make_wait_tmout(kk, t, TS_WAITING, "wait_tmout_ok"))
<1>1. \A tm \in {"none", "wait_tmout", "wait_tmout_ok"} : tm \in TmEvt
  BY DEF TmEvt
<1>2. NULL \notin TA_TPRI
  BY WObjAssumption
<1>3. ASSUME NEW tm \in {"none", "wait_tmout"}
      PROVE  Consistent(make_wait_tmout(kk, t, TS_SLEEPING, tm))
  <2> DEFINE k1 == make_wait_tmout(kk, t, TS_SLEEPING, tm)
  <2>1. /\ Apart(k1, t, Runnable(kk) \ {t})
        /\ k1.tcb[t].tstat = TS_SLEEPING /\ k1.tcb[t].wobj = NULL /\ k1.tcb[t].tmevt = tm
        /\ k1.tcb[t].winfo = IF tm = "none" THEN "NULL" ELSE "TMEVTB"
    BY <1>1, StatTypes, MakeWaitOK
  <2> HIDE DEF k1
  <2>2. TcbOK(k1.tcb[t])
    BY <1>2, <2>1 DEF TcbOK, TS_SLEEPING, TS_RUNNABLE
  <2>3. ~RUNNABLE(k1, t)
    BY <2>1 DEF RUNNABLE, TS_SLEEPING
  <2>4. Consistent(k1)
    BY <2>1, <2>2, <2>3, PutBack
  <2> QED
    BY <2>4 DEF k1
<1>4. ASSUME NEW tm, tm = "wait_tmout_ok"
      PROVE  Consistent(make_wait_tmout(kk, t, TS_WAITING, tm))
  <2> DEFINE k1 == make_wait_tmout(kk, t, TS_WAITING, tm)
  <2>0. tm \in TmEvt /\ TS_WAITING \in SUBSET TstatBits
    BY <1>4, StatTypes DEF TmEvt
  <2>1. /\ Apart(k1, t, Runnable(kk) \ {t})
        /\ k1.tcb[t].tstat = TS_WAITING /\ k1.tcb[t].wobj = NULL
        /\ k1.tcb[t].tmevt = tm
        /\ k1.tcb[t].winfo = IF tm = "none" THEN "NULL" ELSE "TMEVTB"
    BY <2>0, MakeWaitOK
  <2> HIDE DEF k1
  <2>2. TcbOK(k1.tcb[t])
    BY <1>2, <1>4, <2>1 DEF TcbOK, TS_WAITING, TS_RUNNABLE, TS_SUSPENDED
  <2>3. ~RUNNABLE(k1, t)
    BY <2>1 DEF RUNNABLE, TS_WAITING
  <2>4. Consistent(k1)
    BY <2>1, <2>2, <2>3, PutBack
  <2> QED
    BY <2>4 DEF k1
<1> QED
  BY <1>3, <1>4

(* make_dormant, for a task that is in no queue and has no time event.     *)
LEMMA MakeDormantOK ==
  ASSUME NEW kk, NEW t \in Task, NEW R, Apart(kk, t, R), t \notin R,
         kk.tcb[t].tmevt = "none"
  PROVE  LET k1 == make_dormant(kk, t)
         IN Consistent(k1) /\ Keep(k1, kk, t) /\ k1.tcb[t].tstat = TS_DORMANT
<1> DEFINE k1 == make_dormant(kk, t)
           r == dormant_tcb(t, kk.tcb[t].actcnt, kk.tcb[t].tmevt)
<1>1. kk \in Tables /\ GoodTables(kk)
  BY ApartGood
<1>2. k1 = [kk EXCEPT !.tcb[t] = r]
  BY <1>1 DEF make_dormant, Tables
<1>3. k1 \in Tables
  BY <1>1, MakeDormantType DEF GoodTables
<1> HIDE DEF r
<1>4. Only(k1, kk, t) /\ k1.tcb[t] = r
  BY <1>1, <1>2, FieldOnly
<1> HIDE DEF k1
<1>5. r.tstat = TS_DORMANT /\ r.wobj = NULL /\ r.tmevt = "none"
  BY DEF r, dormant_tcb
<1>6. TcbOK(r)
  <2>1. NULL \notin TA_TPRI
    BY WObjAssumption
  <2> QED
    BY <1>5, <2>1 DEF TcbOK, TS_DORMANT
<1>7. Apart(k1, t, R)
  BY <1>3, <1>4, ApartOnly
<1>8. ~RUNNABLE(k1, t)
  BY <1>4, <1>5 DEF RUNNABLE, TS_DORMANT
<1>9. Consistent(k1)
  BY <1>4, <1>5, <1>6, <1>7, <1>8, PutBack
<1> QED
  BY <1>4, <1>5, <1>9 DEF Only, k1

(* Activating a task that is dormant or merely suspended: act_tsk, rsm_tsk.*)
LEMMA ActivateOK ==
  ASSUME NEW kk, Consistent(kk), NEW t \in Task,
         ~RUNNABLE(kk, t), "WAITING" \notin kk.tcb[t].tstat
  PROVE  LET k1 == make_runnable(kk, t)
         IN Consistent(k1) /\ Keep(k1, kk, t) /\ RUNNABLE(k1, t)
<1>1. kk.tcb[t].wobj = NULL /\ kk.tcb[t].tmevt = "none"
  BY NoObject DEF Consistent
<1>2. Apart(kk, t, Runnable(kk))
  BY <1>1, TakeApart
<1>3. t \notin Runnable(kk)
  BY DEF Runnable
<1> QED
  BY <1>1, <1>2, <1>3, MakeRunnableOK

(* The pending activation of a dormant task. *)
LEMMA RestartOK ==
  ASSUME NEW kk, Consistent(kk), NEW t \in Task, kk.tcb[t].tstat = TS_DORMANT
  PROVE  Consistent(restart(kk, t)) /\ Keep(restart(kk, t), kk, t)
<1> DEFINE k1 == [kk EXCEPT !.tcb[t].actcnt = FALSE]
<1>1. kk \in Tables /\ GoodTables(kk) /\ kk.tcb[t] \in TCB /\ TcbOK(kk.tcb[t])
  BY ConsistentGood DEF Consistent
<1>2. k1 \in Tables
  BY <1>1, FieldUpdate DEF GoodTables
<1>3. Only(k1, kk, t) /\ k1.tcb[t] = [kk.tcb[t] EXCEPT !.actcnt = FALSE]
  BY <1>1, FieldOnly
<1>4. restart(kk, t) = IF kk.tcb[t].actcnt THEN make_runnable(k1, t) ELSE kk
  BY DEF restart
<1> HIDE DEF k1
<1>5. /\ k1.tcb[t].tstat = kk.tcb[t].tstat /\ k1.tcb[t].wobj = kk.tcb[t].wobj
      /\ k1.tcb[t].priority = kk.tcb[t].priority /\ k1.tcb[t].tmevt = kk.tcb[t].tmevt
      /\ k1.tcb[t].winfo = kk.tcb[t].winfo
  BY <1>1, <1>3 DEF TCB
<1>6. Consistent(k1)
  <2>1. TcbOK(k1.tcb[t])
    BY <1>1, <1>5 DEF TcbOK
  <2> QED
    BY <1>2, <1>3, <1>5, <2>1, ConsistentOnly DEF RUNNABLE
<1>7. ~RUNNABLE(k1, t) /\ "WAITING" \notin k1.tcb[t].tstat
  BY <1>5 DEF RUNNABLE, TS_DORMANT
<1>8. Consistent(make_runnable(k1, t)) /\ Keep(make_runnable(k1, t), k1, t)
  BY <1>6, <1>7, ActivateOK
<1> QED
  BY <1>3, <1>4, <1>8 DEF Only, Keep

(* A runnable task leaves its ready queue and goes dormant: ext_tsk.       *)
LEMMA ExitTaskOK ==
  ASSUME NEW kk, Consistent(kk), NEW t \in Task, RUNNABLE(kk, t)
  PROVE  LET k1 == make_dormant(make_non_runnable(kk, t), t)
         IN /\ Consistent(k1) /\ Keep(k1, kk, t) /\ k1.tcb[t].tstat = TS_DORMANT
            /\ Consistent(exit_task(kk, t))
<1> DEFINE k0 == make_non_runnable(kk, t)
           R == Runnable(kk)
<1>1. t \in R /\ kk.tcb[t].wobj = NULL /\ kk.tcb[t].tmevt = "none"
  BY NoObject DEF Consistent, Runnable, RUNNABLE
<1>2. Apart(kk, t, R)
  BY <1>1, TakeApart
<1>3. Apart(k0, t, R \ {t}) /\ k0.tcb = kk.tcb
  BY <1>1, <1>2, MakeNonRunnableOK
<1> HIDE DEF k0, R
<1>4. t \notin R \ {t} /\ k0.tcb[t].tmevt = "none"
  BY <1>1, <1>3
<1>5. /\ Consistent(make_dormant(k0, t)) /\ Keep(make_dormant(k0, t), k0, t)
      /\ make_dormant(k0, t).tcb[t].tstat = TS_DORMANT
  BY <1>3, <1>4, MakeDormantOK
<1>6. Keep(make_dormant(k0, t), kk, t)
  BY <1>3, <1>5 DEF Keep
<1>7. Consistent(restart(make_dormant(k0, t), t))
  BY <1>5, RestartOK
<1> QED
  BY <1>5, <1>6, <1>7 DEF exit_task, k0

(* The part of ter_tsk that depends on the state of the task. *)
LEMMA TerminateOK ==
  ASSUME NEW kk, Consistent(kk), NEW t \in Task
  PROVE  LET k1 == IF RUNNABLE(kk, t) THEN make_non_runnable(kk, t)
                   ELSE IF WAITING(kk, t) THEN wait_cancel(kk, t) ELSE kk
             k2 == make_dormant(k1, t)
         IN Consistent(restart(k2, t)) /\ Keep(restart(k2, t), kk, t)
<1> DEFINE k1 == IF RUNNABLE(kk, t) THEN make_non_runnable(kk, t)
                 ELSE IF WAITING(kk, t) THEN wait_cancel(kk, t) ELSE kk
           k2 == make_dormant(k1, t)
<1>1. Consistent(k2) /\ Keep(k2, kk, t) /\ k2.tcb[t].tstat = TS_DORMANT
  <2>1. CASE RUNNABLE(kk, t)
    BY <2>1, ExitTaskOK
  <2>2. CASE ~RUNNABLE(kk, t) /\ WAITING(kk, t)
    <3>1. k1 = wait_cancel(kk, t)
      BY <2>2
    <3>2. /\ Apart(k1, t, Runnable(kk)) /\ Keep(k1, kk, t) /\ t \notin Runnable(kk)
          /\ k1.tcb[t].tmevt = "none"
      BY <2>2, <3>1, WaitCancelOK DEF WAITING
    <3> HIDE DEF k1
    <3>3. Consistent(k2) /\ Keep(k2, k1, t) /\ k2.tcb[t].tstat = TS_DORMANT
      BY <3>2, MakeDormantOK
    <3> QED
      BY <3>2, <3>3 DEF Keep
  <2>3. CASE ~RUNNABLE(kk, t) /\ ~WAITING(kk, t)
    <3>1. k1 = kk
      BY <2>3
    <3>2. kk.tcb[t].wobj = NULL /\ kk.tcb[t].tmevt = "none" /\ t \notin Runnable(kk)
      BY <2>3, NoObject DEF Consistent, WAITING, Runnable
    <3>3. Apart(kk, t, Runnable(kk))
      BY <3>2, TakeApart
    <3> QED
      BY <3>1, <3>2, <3>3, MakeDormantOK
  <2> QED
    BY <2>1, <2>2, <2>3
<1> HIDE DEF k2
<1>2. Consistent(restart(k2, t)) /\ Keep(restart(k2, t), k2, t)
  BY <1>1, RestartOK
<1> QED
  BY <1>1, <1>2 DEF Keep, k2

(* sus_tsk of a runnable task. *)
LEMMA SuspendRunnableOK ==
  ASSUME NEW kk, Consistent(kk), NEW t \in Task, RUNNABLE(kk, t)
  PROVE  LET k1 == make_non_runnable([kk EXCEPT !.tcb[t].tstat = TS_SUSPENDED], t)
         IN Consistent(k1) /\ Keep(k1, kk, t)
<1> DEFINE k0 == [kk EXCEPT !.tcb[t].tstat = TS_SUSPENDED]
           k1 == make_non_runnable(k0, t)
           R == Runnable(kk)
<1>1. /\ kk \in Tables /\ GoodTables(kk) /\ TcbOK(kk.tcb[t]) /\ kk.tcb[t] \in TCB
      /\ t \in R /\ kk.tcb[t].wobj = NULL /\ kk.tcb[t].tmevt = "none"
  BY ConsistentGood, NoObject DEF Consistent, Runnable, RUNNABLE
<1>2. Apart(kk, t, R)
  BY <1>1, TakeApart
<1>3. k0 \in Tables
  BY <1>1, FieldUpdate, StatTypes DEF GoodTables
<1>4. Only(k0, kk, t) /\ k0.tcb[t] = [kk.tcb[t] EXCEPT !.tstat = TS_SUSPENDED]
  BY <1>1, FieldOnly
<1> HIDE DEF k0
<1>5. /\ k0.tcb[t].tstat = TS_SUSPENDED /\ k0.tcb[t].wobj = NULL
      /\ k0.tcb[t].tmevt = "none" /\ k0.tcb[t].priority = kk.tcb[t].priority
  BY <1>1, <1>4 DEF TCB
<1>6. Apart(k0, t, R)
  BY <1>2, <1>3, <1>4, <1>5, ApartOnly
<1>7. Apart(k1, t, R \ {t}) /\ k1.tcb = k0.tcb
  BY <1>1, <1>6, MakeNonRunnableOK
<1> HIDE DEF k1
<1>8. TcbOK(k1.tcb[t]) /\ ~RUNNABLE(k1, t)
  <2>1. NULL \notin TA_TPRI
    BY WObjAssumption
  <2> QED
    BY <1>5, <1>7, <2>1 DEF TcbOK, TS_SUSPENDED, RUNNABLE
<1>9. Consistent(k1)
  BY <1>5, <1>7, <1>8, PutBack
<1> QED
  BY <1>4, <1>7, <1>9 DEF Only, Keep, k0, k1

(* sus_tsk and rsm_tsk of a waiting task. *)
LEMMA SuspendWaitingOK ==
  ASSUME NEW kk, Consistent(kk), NEW t \in Task, "WAITING" \in kk.tcb[t].tstat,
         NEW stat, stat \in {kk.tcb[t].tstat \cup TS_SUSPENDED, kk.tcb[t].tstat \ TS_SUSPENDED}
  PROVE  LET k1 == [kk EXCEPT !.tcb[t].tstat = stat]
         IN Consistent(k1) /\ Keep(k1, kk, t)
<1> DEFINE k1 == [kk EXCEPT !.tcb[t].tstat = stat]
<1>1. /\ kk \in Tables /\ GoodTables(kk) /\ TcbOK(kk.tcb[t]) /\ kk.tcb[t] \in TCB
  BY ConsistentGood DEF Consistent
<1>2. "RUNNABLE" \notin kk.tcb[t].tstat
  BY <1>1, NoObject
<1>3. stat \in SUBSET TstatBits
  BY <1>1, StatTypes DEF TCB
<1>4. k1 \in Tables
  BY <1>1, <1>3, FieldUpdate DEF GoodTables
<1>5. Only(k1, kk, t) /\ k1.tcb[t] = [kk.tcb[t] EXCEPT !.tstat = stat]
  BY <1>1, FieldOnly
<1> HIDE DEF k1
<1>6. /\ k1.tcb[t].tstat = stat /\ k1.tcb[t].wobj = kk.tcb[t].wobj
      /\ k1.tcb[t].priority = kk.tcb[t].priority /\ k1.tcb[t].tmevt = kk.tcb[t].tmevt
      /\ k1.tcb[t].winfo = kk.tcb[t].winfo
  BY <1>1, <1>5 DEF TCB
<1>7. /\ \A b \in TstatBits \ {"SUSPENDED"} : b \in stat <=> b \in kk.tcb[t].tstat
      /\ stat \ TS_SUSPENDED = kk.tcb[t].tstat \ TS_SUSPENDED
  BY DEF TS_SUSPENDED
<1>8. /\ \A b \in {"RUNNABLE", "WAITING", "SLEEP", "WOBJ", "WOBJCB"} :
           b \in stat <=> b \in kk.tcb[t].tstat
  BY <1>7 DEF TstatBits
<1>9. TcbOK(k1.tcb[t])
  BY <1>1, <1>2, <1>6, <1>7, <1>8 DEF TcbOK
<1>10. Consistent(k1)
  BY <1>4, <1>5, <1>6, <1>8, <1>9, ConsistentOnly DEF RUNNABLE
<1> QED
  BY <1>5, <1>10 DEF Only, k1

(* k1 differs from kk in fields of t's TCB that are only books: counters   *)
(* and the task exception state.                                           *)
Books(k1, kk, t) ==
  /\ k1 \in Tables /\ Only(k1, kk, t)
  /\ k1.tcb[t].tstat = kk.tcb[t].tstat /\ k1.tcb[t].priority = kk.tcb[t].priority
  /\ k1.tcb[t].wobj = kk.tcb[t].wobj /\ k1.tcb[t].winfo = kk.tcb[t].winfo
  /\ k1.tcb[t].tmevt = kk.tcb[t].tmevt

(* They may be written at any time. *)
LEMMA BooksOK ==
  ASSUME NEW kk, Consistent(kk), NEW t \in Task, NEW k1, Books(k1, kk, t)
  PROVE  Consistent(k1) /\ Keep(k1, kk, t) /\ Runnable(k1) = Runnable(kk)
<1>1. TcbOK(k1.tcb[t])
  BY DEF Consistent, Books, TcbOK
<1>2. Consistent(k1)
  BY <1>1, ConsistentOnly DEF Books, RUNNABLE
<1>3. Runnable(k1) = Runnable(kk)
  BY DEF Books, Only, Keep, Runnable, RUNNABLE
<1> QED
  BY <1>2, <1>3 DEF Books, Only

(* A change of one field of a task that the ready queues do not look at leaves their books right. *)
LEMMA FieldBooks ==
  ASSUME NEW kk, GoodTables(kk), NEW t \in Task
  PROVE  /\ \A x \in BOOLEAN : Books([kk EXCEPT !.tcb[t].actcnt = x], kk, t)
         /\ \A x \in BOOLEAN : Books([kk EXCEPT !.tcb[t].wupcnt = x], kk, t)
         /\ \A x \in BOOLEAN : Books([kk EXCEPT !.tcb[t].enatex = x], kk, t)
         /\ \A x \in BOOLEAN : Books([kk EXCEPT !.tcb[t].texptn = x], kk, t)
         /\ \A x \in Nat : Books([kk EXCEPT !.tcb[t].texlevel = x], kk, t)
<1> DEFINE Near(r) == /\ r.tstat = kk.tcb[t].tstat /\ r.priority = kk.tcb[t].priority
                      /\ r.wobj = kk.tcb[t].wobj /\ r.winfo = kk.tcb[t].winfo
                      /\ r.tmevt = kk.tcb[t].tmevt
<1>1. kk \in Tables /\ kk.tcb[t] \in TCB
  BY DEF GoodTables, Tables
<1>2. ASSUME NEW r \in TCB, Near(r)
      PROVE  Books([kk EXCEPT !.tcb[t] = r], kk, t)
  <2> DEFINE k1 == [kk EXCEPT !.tcb[t] = r]
  <2>1. k1 \in Tables
    BY <1>1 DEF Tables
  <2>2. Only(k1, kk, t) /\ k1.tcb[t] = r
    BY <1>1, FieldOnly
  <2> HIDE DEF k1
  <2>3. Books(k1, kk, t)
    BY <1>2, <2>1, <2>2 DEF Books
  <2> QED
    BY <2>3 DEF k1
<1>3. /\ \A x : Near([kk.tcb[t] EXCEPT !.actcnt = x]) /\ Near([kk.tcb[t] EXCEPT !.wupcnt = x])
      /\ \A x : Near([kk.tcb[t] EXCEPT !.enatex = x]) /\ Near([kk.tcb[t] EXCEPT !.texptn = x])
      /\ \A x : Near([kk.tcb[t] EXCEPT !.texlevel = x])
  BY <1>1 DEF TCB
<1> HIDE DEF Near
<1> QED
  BY <1>1, <1>2, <1>3, TcbUpdate

(* Task exceptions are books. *)
LEMMA TexBooks ==
  ASSUME NEW kk, GoodTables(kk), NEW t \in Task
  PROVE  Books(take_texptn(kk, t), kk, t) /\ Books(calltex(kk, t), kk, t)
<1> DEFINE k0 == [kk EXCEPT !.tcb[t].enatex = FALSE]
           k1 == take_texptn(kk, t)
           k2 == call_texrtn(kk, t)
<1>1. GoodTables(k0) /\ Books(k0, kk, t)
  BY FieldUpdate, FieldBooks
<1>2. k1 = [k0 EXCEPT !.tcb[t].texptn = FALSE]
  BY DEF take_texptn
<1> HIDE DEF k0, k1
<1>3. GoodTables(k1) /\ Books(k1, k0, t)
  BY <1>1, <1>2, FieldUpdate, FieldBooks
<1>4. k1.tcb[t].texlevel + 1 \in Nat
  BY <1>3 DEF GoodTables, Tables, TCB
<1>5. k2 = [k1 EXCEPT !.tcb[t].texlevel = k1.tcb[t].texlevel + 1]
  BY DEF call_texrtn, k1
<1> HIDE DEF k2
<1>6. Books(k2, k1, t)
  BY <1>3, <1>4, <1>5, FieldBooks
<1>7. Books(kk, kk, t)
  BY DEF Books, Only, Keep, GoodTables
<1>8. Books(k1, kk, t)
  BY <1>1, <1>3 DEF Books, Only, Keep
<1>9. Books(k2, kk, t)
  BY <1>6, <1>8 DEF Books, Only, Keep
<1> QED
  BY <1>7, <1>8, <1>9 DEF calltex, k1, k2

(* The dispatcher keeps the tables, and loads a runnable task or NULL into *)
(* runtsk.                                                                 *)
LEMMA DispatchOK ==
  ASSUME NEW kk, Consistent(kk)
  PROVE  /\ Consistent(dispatch_r(kk))
         /\ kk.schedtsk # NULL => RUNNABLE(dispatch_r(kk), kk.schedtsk)
<1>1. GoodTables(kk) /\ kk.schedtsk \in Task \cup {NULL}
  BY ConsistentGood, PriType
<1>2. kk.schedtsk # NULL => kk.schedtsk \in Runnable(kk)
  BY DEF Consistent, Ready, IsTop
<1>3. CASE kk.schedtsk = NULL
  BY <1>3 DEF dispatch_r
<1>4. CASE kk.schedtsk # NULL
  <2> DEFINE t == kk.schedtsk
             k1 == calltex(kk, t)
  <2>1. t \in Task /\ dispatch_r(kk) = k1
    BY <1>1, <1>4 DEF dispatch_r
  <2> HIDE DEF t, k1
  <2>2. Books(k1, kk, t)
    BY <1>1, <2>1, TexBooks DEF k1
  <2>3. Consistent(k1) /\ Runnable(k1) = Runnable(kk)
    BY <2>1, <2>2, BooksOK
  <2> QED
    BY <1>2, <1>4, <2>1, <2>3 DEF Runnable, t
<1> QED
  BY <1>3, <1>4

(* rot_rdq and irot_rdq. *)
LEMMA RotateOK ==
  ASSUME NEW kk, Consistent(kk), NEW pri \in Pri
  PROVE  LET k1 == rotate_ready_queue(kk, pri)
         IN Consistent(k1) /\ k1.tcb = kk.tcb
<1> DEFINE k1 == rotate_ready_queue(kk, pri)
<1>1. Ready(k1, Runnable(kk)) /\ k1.tcb = kk.tcb /\ k1.wait_queue = kk.wait_queue
  BY RotateReady DEF Consistent
<1> HIDE DEF k1
<1>2. Runnable(k1) = Runnable(kk) /\ PriOf(k1) = PriOf(kk)
  BY <1>1 DEF Runnable, RUNNABLE, PriOf
<1>3. Consistent(k1)
  BY <1>1, <1>2 DEF Consistent, Linked
<1> QED
  BY <1>1, <1>3 DEF k1

(* chg_pri of a runnable task. *)
LEMMA ChangeRunnableOK ==
  ASSUME NEW kk, Consistent(kk), NEW t \in Task, RUNNABLE(kk, t), NEW newpri \in Pri
  PROVE  LET k1 == change_priority(kk, t, newpri)
         IN Consistent(k1) /\ Keep(k1, kk, t) /\ RUNNABLE(k1, t)
<1> DEFINE k1 == change_priority(kk, t, newpri)
           R == Runnable(kk)
<1>1. /\ kk \in Tables /\ TcbOK(kk.tcb[t]) /\ kk.tcb[t] \in TCB
      /\ t \in R /\ kk.tcb[t].wobj = NULL
  BY ConsistentGood, NoObject DEF Consistent, Runnable, RUNNABLE
<1>2. Apart(kk, t, R)
  BY <1>1, TakeApart
<1>3. /\ Ready(k1, R) /\ k1.tcb = [kk.tcb EXCEPT ![t].priority = newpri]
      /\ k1.wait_queue = kk.wait_queue
  BY <1>1, ChangePriorityReady DEF Consistent
<1> HIDE DEF k1
<1>4. Keep(k1, kk, t) /\ k1.tcb[t] = [kk.tcb[t] EXCEPT !.priority = newpri]
  BY <1>1, <1>3 DEF Keep, Tables
<1>5. /\ k1.tcb[t].tstat = kk.tcb[t].tstat /\ k1.tcb[t].wobj = kk.tcb[t].wobj
      /\ k1.tcb[t].winfo = kk.tcb[t].winfo /\ k1.tcb[t].tmevt = kk.tcb[t].tmevt
  BY <1>1, <1>4 DEF TCB
<1>6. Apart(k1, t, R)
  <2>1. OthersOK(k1, t, R)
    BY <1>2, <1>4 DEF Apart, OthersOK, Keep, RUNNABLE
  <2>2. Task \ {t} \in SUBSET Task /\ Linked(kk, Task \ {t})
    BY <1>2 DEF Apart
  <2>3. \A u \in Task \ {t} : k1.tcb[u].wobj = kk.tcb[u].wobj /\ k1.tcb[u].priority = kk.tcb[u].priority
    BY <1>4 DEF Keep
  <2>4. Linked(k1, Task \ {t})
    BY <1>3, <2>2, <2>3, LinkedFrame
  <2> QED
    BY <1>3, <2>1, <2>4 DEF Apart
<1>7. TcbOK(k1.tcb[t])
  BY <1>1, <1>5 DEF TcbOK
<1>8. RUNNABLE(k1, t)
  BY <1>5 DEF RUNNABLE
<1>9. Consistent(k1)
  BY <1>1, <1>5, <1>6, <1>7, <1>8, PutBack
<1> QED
  BY <1>4, <1>8, <1>9 DEF k1

(* A queue stays sorted when the priority of a task outside it changes.    *)
LEMMA SortedFrame ==
  ASSUME NEW kk, NEW k1, NEW t, Keep(k1, kk, t), NEW S, S \subseteq Task, t \notin S,
         NEW q, Holds(q, S), Sorted(PriOf(kk), q)
  PROVE  Sorted(PriOf(k1), q)
<1>1. \A i \in DOMAIN q : q[i] \in S
  BY DEF Holds, Members
<1>2. \A i \in DOMAIN q : PriOf(k1)[q[i]] = PriOf(kk)[q[i]]
  BY <1>1 DEF PriOf, Keep
<1> QED
  BY <1>2 DEF Sorted

(* chg_pri of a task that is not runnable: its wait queue is reordered if  *)
(* its object is TA_TPRI.                                                  *)
LEMMA ChangeWaitingOK ==
  ASSUME NEW kk, Consistent(kk), NEW t \in Task, ~RUNNABLE(kk, t), NEW newpri \in Pri
  PROVE  LET k1 == [kk EXCEPT !.tcb[t].priority = newpri]
             k2 == IF "WOBJCB" \in kk.tcb[t].tstat
                   THEN wobj_change_priority(k1, kk.tcb[t].wobj, t) ELSE k1
         IN Consistent(k2) /\ Keep(k2, kk, t)
<1> DEFINE k1 == [kk EXCEPT !.tcb[t].priority = newpri]
           o == kk.tcb[t].wobj
           k2 == IF "WOBJCB" \in kk.tcb[t].tstat THEN wobj_change_priority(k1, o, t) ELSE k1
           R == Runnable(kk)
           q(x) == kk.wait_queue[x]
           S(x) == {u \in Task : kk.tcb[u].wobj = x}
           d == queue_delete(q(o), t)
           r == queue_insert_tpri(k1, d, t)
<1>1. /\ kk \in Tables /\ GoodTables(kk) /\ TcbOK(kk.tcb[t]) /\ kk.tcb[t] \in TCB /\ t \notin R
  BY ConsistentGood DEF Consistent, Runnable
<1>2. k1 \in Tables /\ GoodTables(k1)
  BY <1>1, FieldUpdate DEF GoodTables
<1>3. Only(k1, kk, t) /\ k1.tcb[t] = [kk.tcb[t] EXCEPT !.priority = newpri]
  BY <1>1, FieldOnly
<1>4. k2 = IF o \in TA_TPRI THEN [k1 EXCEPT !.wait_queue[o] = r] ELSE k1
  <2>1. o \in TA_TPRI => "WOBJCB" \in kk.tcb[t].tstat
    BY <1>1 DEF TcbOK
  <2>2. wobj_change_priority(k1, o, t) = IF o \in TA_TPRI THEN [k1 EXCEPT !.wait_queue[o] = r] ELSE k1
    <3>1. k1.wait_queue = kk.wait_queue
      BY <1>3 DEF Only
    <3> HIDE DEF k1
    <3> QED
      BY <3>1 DEF wobj_change_priority
  <2> HIDE DEF k1, o, r
  <2> QED
    BY <2>1, <2>2 DEF k2, o
<1>5. GoodTables(k2)
  BY <1>2, WobjChangeType
<1> HIDE DEF k1
<1>6. /\ k1.tcb[t].tstat = kk.tcb[t].tstat /\ k1.tcb[t].wobj = kk.tcb[t].wobj
      /\ k1.tcb[t].winfo = kk.tcb[t].winfo /\ k1.tcb[t].tmevt = kk.tcb[t].tmevt
  BY <1>1, <1>3 DEF TCB
<1> HIDE DEF k2, r, d
<1>7. /\ k2.tcb = k1.tcb /\ k2.ready_queue = k1.ready_queue
      /\ k2.ready_primap = k1.ready_primap /\ k2.schedtsk = k1.schedtsk
      /\ \A x \in WObj : k2.wait_queue[x] = IF x = o /\ o \in TA_TPRI THEN r ELSE q(x)
      /\ k2 \in Tables
  <2>1. k2 \in Tables
    BY <1>5 DEF GoodTables
  <2> QED
    BY <1>2, <1>3, <1>4, <2>1 DEF Only, Tables
<1>8. Keep(k2, kk, t) /\ Keep(k1, kk, t)
  BY <1>3, <1>7 DEF Only, Keep
<1>9. Runnable(k2) = R
  BY <1>3, <1>6, <1>7 DEF Only, Keep, Runnable, RUNNABLE
<1>10. Ready(k2, R)
  <2>1. \A u \in R : k2.tcb[u].priority = kk.tcb[u].priority
    BY <1>1, <1>8 DEF Keep, Runnable
  <2> QED
    BY <1>3, <1>7, <2>1, ReadyFrame DEF Only, Consistent
<1>11. \A u \in Task : TcbOK(k2.tcb[u])
  <2>1. TcbOK(k2.tcb[t])
    BY <1>1, <1>6, <1>7 DEF TcbOK
  <2> QED
    BY <1>8, <2>1 DEF Keep, Consistent
<1>12. PriOf(k2) = PriOf(k1)
  BY <1>7 DEF PriOf
<1>13. ASSUME NEW x \in WObj
       PROVE  /\ Holds(k2.wait_queue[x], {u \in Task : k2.tcb[u].wobj = x})
              /\ x \in TA_TPRI => Sorted(PriOf(k2), k2.wait_queue[x])
  <2>1. {u \in Task : k2.tcb[u].wobj = x} = S(x)
    BY <1>6, <1>7, <1>8 DEF Keep
  <2>2. Holds(q(x), S(x)) /\ S(x) \subseteq Task /\ (x \in TA_TPRI => Sorted(PriOf(kk), q(x)))
    BY DEF Consistent, Linked
  <2>3. CASE x = o /\ o \in TA_TPRI
    <3>1. k2.wait_queue[x] = r
      BY <1>7, <2>3
    <3> DEFINE qo == q(o)
               So == S(o)
    <3>2. Holds(qo, So) /\ So \subseteq Task /\ t \in So /\ Sorted(PriOf(kk), qo)
      BY <2>2, <2>3
    <3>3. d = queue_delete(qo, t)
      BY DEF d
    <3> HIDE DEF qo, So
    <3>4. Holds(d, So \ {t}) /\ Sorted(PriOf(kk), d)
      BY <3>2, <3>3, DeleteHolds
    <3>5. So \ {t} \subseteq Task /\ t \notin So \ {t} /\ (So \ {t}) \cup {t} = So
      BY <3>2
    <3>6. Sorted(PriOf(k1), d)
      BY <1>8, <3>4, <3>5, SortedFrame
    <3>7. \A u \in Task : PriOf(k1)[u] = k1.tcb[u].priority
      BY DEF PriOf
    <3>8. Holds(r, (So \ {t}) \cup {t}) /\ Sorted(PriOf(k1), r)
      BY <1>2, <3>4, <3>5, <3>6, <3>7, TpriHolds DEF r
    <3>9. Holds(r, So)
      BY <3>5, <3>8
    <3>10. So = S(x)
      BY <2>3 DEF So
    <3> QED
      BY <1>12, <2>1, <3>1, <3>8, <3>9, <3>10
  <2>4. CASE ~(x = o /\ o \in TA_TPRI)
    <3>1. k2.wait_queue[x] = q(x)
      BY <1>7, <2>4
    <3>2. x \in TA_TPRI => t \notin S(x)
      BY <2>4
    <3>3. x \in TA_TPRI => Sorted(PriOf(k1), q(x))
      <4> DEFINE qx == q(x)
                 Sx == S(x)
      <4> HIDE DEF qx, Sx
      <4>1. Holds(qx, Sx) /\ Sx \subseteq Task /\ (x \in TA_TPRI => Sorted(PriOf(kk), qx) /\ t \notin Sx)
        BY <2>2, <3>2 DEF qx, Sx
      <4>2. x \in TA_TPRI => Sorted(PriOf(k1), qx)
        BY <1>8, <4>1, SortedFrame
      <4> QED
        BY <4>2 DEF qx
    <3> QED
      BY <1>12, <2>1, <2>2, <3>1, <3>3
  <2> QED
    BY <2>3, <2>4
<1>14. Consistent(k2)
  BY <1>9, <1>10, <1>11, <1>13 DEF Consistent, Linked
<1> QED
  BY <1>8, <1>14 DEF k2, k1

-----------------------------------------------------------------------------
(* Part 6: the inductive invariant and the two ends of a service call. *)

(* The tasks task_initialize has not visited yet are dormant. *)
StartInv ==
  ~iniflg => /\ NoRepeat(todo)
             /\ \A t \in Members(todo) : k.tcb[t].tstat = TS_DORMANT

TableInv == Consistent(k) /\ RunningInv /\ StartInv

(* The end of a service call.  The running task is still runnable, or the  *)
(* processor switches to a runnable one.                                   *)
LEMMA CallOK ==
  ASSUME iniflg, NEW k1, Consistent(k1), NEW disp
  PROVE  /\ TaskCall(k1, disp) /\ (~disp /\ runtsk # NULL => RUNNABLE(k1, runtsk)) => TableInv'
         /\ IntCall(k1, disp) /\ (runtsk # NULL => RUNNABLE(k1, runtsk)) => TableInv'
<1>1. ASSUME TaskCall(k1, disp), ~disp /\ runtsk # NULL => RUNNABLE(k1, runtsk)
      PROVE  TableInv'
  <2>1. Consistent(k') /\ (runtsk' # NULL => RUNNABLE(k', runtsk'))
    BY <1>1, DispatchOK DEF TaskCall
  <2> QED
    BY <1>1, <2>1 DEF TaskCall, TableInv, RunningInv, StartInv
<1>2. ASSUME IntCall(k1, disp), runtsk # NULL => RUNNABLE(k1, runtsk)
      PROVE  TableInv'
  BY <1>2 DEF IntCall, TableInv, RunningInv, StartInv
<1> QED
  BY <1>1, <1>2

(* The running task stays runnable if only another TCB changes, or if the  *)
(* task whose TCB changes was not runnable or still is.                    *)
LEMMA StillRunning ==
  ASSUME TypeInv, TableInv, NEW t \in Task, NEW k1, Keep(k1, k, t),
         t # runtsk \/ ~RUNNABLE(k, t) \/ RUNNABLE(k1, t)
  PROVE  runtsk # NULL => RUNNABLE(k1, runtsk)
<1>1. runtsk # NULL => runtsk \in Task /\ RUNNABLE(k, runtsk)
  BY DEF TypeInv, TypeOK, TableInv, RunningInv
<1> QED
  BY <1>1 DEF Keep, RUNNABLE

(* Both together: a service call about task t. *)
LEMMA CallAbout ==
  ASSUME TypeInv, TableInv, iniflg, NEW t \in Task, NEW k1, Consistent(k1), Keep(k1, k, t),
         t # runtsk \/ ~RUNNABLE(k, t) \/ RUNNABLE(k1, t),
         NEW disp, TaskCall(k1, disp) \/ IntCall(k1, disp)
  PROVE  TableInv'
<1>1. runtsk # NULL => RUNNABLE(k1, runtsk)
  BY StillRunning
<1> QED
  BY <1>1, CallOK

(* A service call that only keeps books. *)
LEMMA CallBooks ==
  ASSUME TypeInv, TableInv, iniflg, NEW t \in Task, NEW k1, Books(k1, k, t),
         NEW disp, TaskCall(k1, disp) \/ IntCall(k1, disp)
  PROVE  TableInv'
<1>1. Consistent(k1) /\ Keep(k1, k, t) /\ Runnable(k1) = Runnable(k)
  BY BooksOK DEF TableInv
<1>2. ~RUNNABLE(k, t) \/ RUNNABLE(k1, t)
  BY <1>1 DEF Runnable
<1> QED
  BY <1>1, <1>2, CallAbout

(* A waiting task is not runnable. *)
LEMMA WaitingNotRunnable ==
  ASSUME TableInv, NEW t \in Task, "WAITING" \in k.tcb[t].tstat
  PROVE  ~RUNNABLE(k, t)
  BY NoObject DEF TableInv, Consistent, RUNNABLE

(* A sleeping task waits, and for no object. *)
LEMMA SleepingTask ==
  ASSUME TableInv, NEW t \in Task, "SLEEP" \in k.tcb[t].tstat
  PROVE  "WAITING" \in k.tcb[t].tstat /\ k.tcb[t].wobj = NULL
<1>1. TcbOK(k.tcb[t])
  BY DEF TableInv, Consistent
<1>2. {"SLEEP"} \subseteq k.tcb[t].tstat
  OBVIOUS
<1> QED
  BY <1>1, <1>2 DEF TcbOK

(* wup_tsk and iwup_tsk of a sleeping task. *)
LEMMA WakeupOK ==
  ASSUME TableInv, NEW t \in Task, "SLEEP" \in k.tcb[t].tstat
  PROVE  Consistent(wait_complete(k, t)) /\ Keep(wait_complete(k, t), k, t) /\ ~RUNNABLE(k, t)
<1>1. "WAITING" \in k.tcb[t].tstat /\ k.tcb[t].wobj = NULL
  BY SleepingTask
<1>2. ~RUNNABLE(k, t) /\ TcbOK(k.tcb[t]) /\ Consistent(k)
  BY <1>1, WaitingNotRunnable DEF TableInv, Consistent
<1>3. Apart(k, t, Runnable(k)) /\ t \notin Runnable(k)
  BY <1>1, <1>2, TakeApart DEF Runnable
<1> QED
  BY <1>1, <1>2, <1>3, WaitCompleteOK

-----------------------------------------------------------------------------
(* Part 7: the actions. *)

(* The calls of a task. *)
LEMMA TaskNextTables ==
  ASSUME TypeInv, DispInv, TableInv, TaskNext
  PROVE  TableInv'
<1>1. GoodTables(k) /\ Consistent(k) /\ \A u \in Task : TcbOK(k.tcb[u])
  BY DEF TypeInv, TableInv, Consistent
<1>2. TSKCTX => iniflg /\ runtsk \in Task /\ RUNNABLE(k, runtsk)
  BY DEF TSKCTX, TypeInv, TypeOK, TableInv, RunningInv
<1>a. ASSUME NEW t \in Task, act_tsk(t) PROVE TableInv'
  <2>1. iniflg
    BY <1>2, <1>a DEF act_tsk, TSKCTX_UNL
  <2>2. CASE DORMANT(k, t) /\ TaskCall(make_runnable(k, t), Disp(make_runnable_ret(k, t)))
    <3>1. ~RUNNABLE(k, t) /\ "WAITING" \notin k.tcb[t].tstat
      BY <2>2 DEF DORMANT, TS_DORMANT, RUNNABLE
    <3>2. Consistent(make_runnable(k, t)) /\ Keep(make_runnable(k, t), k, t)
      BY <1>1, <3>1, ActivateOK
    <3> QED
      BY <2>1, <2>2, <3>1, <3>2, CallAbout
  <2>3. CASE TaskCall([k EXCEPT !.tcb[t].actcnt = TRUE], FALSE)
    BY <1>1, <2>1, <2>3, FieldBooks, CallBooks
  <2> QED
    BY <1>a, <2>2, <2>3 DEF act_tsk
<1>b. ASSUME NEW t \in Task, can_act(t) PROVE TableInv'
  <2>1. iniflg
    BY <1>2, <1>b DEF can_act, TSKCTX_UNL
  <2> QED
    BY <1>1, <1>b, <2>1, FieldBooks, CallBooks DEF can_act
<1>c. ASSUME ext_tsk PROVE TableInv'
  <2>1. iniflg /\ runtsk \in Task /\ RUNNABLE(k, runtsk)
    BY <1>2, <1>c DEF ext_tsk
  <2>2. Consistent(exit_task(k, runtsk))
    BY <1>1, <2>1, ExitTaskOK
  <2>3. Consistent(k') /\ (runtsk' # NULL => RUNNABLE(k', runtsk'))
    BY <1>c, <2>2, DispatchOK DEF ext_tsk
  <2> QED
    BY <1>c, <2>1, <2>3 DEF ext_tsk, TableInv, RunningInv, StartInv
<1>d. ASSUME NEW t \in Task, ter_tsk(t) PROVE TableInv'
  <2> DEFINE k1 == IF RUNNABLE(k, t) THEN make_non_runnable(k, t)
                   ELSE IF WAITING(k, t) THEN wait_cancel(k, t) ELSE k
             k2 == make_dormant(k1, t)
  <2>1. iniflg /\ t # runtsk
    BY <1>2, <1>d DEF ter_tsk, TSKCTX_UNL
  <2>2. Consistent(restart(k2, t)) /\ Keep(restart(k2, t), k, t)
    BY <1>1, TerminateOK
  <2>3. TaskCall(restart(k2, t), Disp(restart_ret(k2, t)))
    BY <1>d DEF ter_tsk
  <2> HIDE DEF k2
  <2> QED
    BY <2>1, <2>2, <2>3, CallAbout
<1>e. ASSUME NEW t \in Task, NEW newpri \in Pri, chg_pri(t, newpri) PROVE TableInv'
  <2> DEFINE k1 == [k EXCEPT !.tcb[t].priority = newpri]
             k2 == IF "WOBJCB" \in k.tcb[t].tstat
                   THEN wobj_change_priority(k1, k.tcb[t].wobj, t) ELSE k1
  <2>1. iniflg
    BY <1>2, <1>e DEF chg_pri, TSKCTX_UNL
  <2>2. CASE /\ RUNNABLE(k, t)
             /\ TaskCall(change_priority(k, t, newpri), Disp(change_priority_ret(k, t, newpri)))
    <3>1. /\ Consistent(change_priority(k, t, newpri))
          /\ Keep(change_priority(k, t, newpri), k, t)
          /\ RUNNABLE(change_priority(k, t, newpri), t)
      BY <1>1, <2>2, ChangeRunnableOK
    <3> QED
      BY <2>1, <2>2, <3>1, CallAbout
  <2>3. CASE ~RUNNABLE(k, t) /\ TaskCall(k2, FALSE)
    <3>1. Consistent(k2) /\ Keep(k2, k, t)
      BY <1>1, <2>3, ChangeWaitingOK
    <3> HIDE DEF k2
    <3> QED
      BY <2>1, <2>3, <3>1, CallAbout
  <2> QED
    BY <1>e, <2>2, <2>3 DEF chg_pri
<1>f. ASSUME NEW tm \in {"none", "wait_tmout"}, slp_tsk(tm) PROVE TableInv'
  <2>1. iniflg /\ runtsk \in Task /\ RUNNABLE(k, runtsk)
    BY <1>2, <1>f DEF slp_tsk, CAN_WAIT, TSKCTX_UNL
  <2>2. CASE TaskCall([k EXCEPT !.tcb[runtsk].wupcnt = FALSE], FALSE)
    BY <1>1, <2>1, <2>2, FieldBooks, CallBooks
  <2>3. CASE TaskCall(make_wait_tmout(k, runtsk, TS_SLEEPING, tm), TRUE)
    <3>1. Consistent(make_wait_tmout(k, runtsk, TS_SLEEPING, tm))
      BY <1>1, <2>1, SleepOK
    <3> QED
      BY <2>1, <2>3, <3>1, CallOK
  <2> QED
    BY <1>f, <2>2, <2>3 DEF slp_tsk
<1>g. ASSUME NEW t \in Task, wup_tsk(t) PROVE TableInv'
  <2>1. iniflg
    BY <1>2, <1>g DEF wup_tsk, TSKCTX_UNL
  <2>2. CASE "SLEEP" \in k.tcb[t].tstat
    <3>1. TaskCall(wait_complete(k, t), Disp(make_non_wait_ret(k, t)))
      BY <1>g, <2>2 DEF wup_tsk, wakeup
    <3> QED
      BY <2>1, <2>2, <3>1, WakeupOK, CallAbout
  <2>3. CASE "SLEEP" \notin k.tcb[t].tstat
    <3>1. TaskCall([k EXCEPT !.tcb[t].wupcnt = TRUE], FALSE)
      BY <1>g, <2>3 DEF wup_tsk, wakeup
    <3> QED
      BY <1>1, <2>1, <3>1, FieldBooks, CallBooks
  <2> QED
    BY <2>2, <2>3
<1>h. ASSUME NEW t \in Task, can_wup(t) PROVE TableInv'
  <2>1. iniflg
    BY <1>2, <1>h DEF can_wup, TSKCTX_UNL
  <2> QED
    BY <1>1, <1>h, <2>1, FieldBooks, CallBooks DEF can_wup
<1>i. ASSUME NEW t \in Task, rel_wai(t) PROVE TableInv'
  <2>1. iniflg /\ "WAITING" \in k.tcb[t].tstat
    BY <1>2, <1>i DEF rel_wai, TSKCTX_UNL, WAITING
  <2>2. Consistent(wait_release(k, t)) /\ Keep(wait_release(k, t), k, t) /\ ~RUNNABLE(k, t)
    BY <1>1, <2>1, WaitReleaseOK, WaitingNotRunnable
  <2> QED
    BY <1>i, <2>1, <2>2, CallAbout DEF rel_wai
<1>j. ASSUME NEW t \in Task, sus_tsk(t) PROVE TableInv'
  <2> DEFINE k1 == make_non_runnable([k EXCEPT !.tcb[t].tstat = TS_SUSPENDED], t)
             k2 == [k EXCEPT !.tcb[t].tstat = @ \cup TS_SUSPENDED]
  <2>1. TSKCTX /\ iniflg /\ (t = runtsk => enadsp)
    BY <1>2, <1>j DEF sus_tsk, TSKCTX_UNL
  <2>2. CASE RUNNABLE(k, t) /\ TaskCall(k1, Disp(make_non_runnable_ret(k, t)))
    <3>1. Consistent(k1) /\ Keep(k1, k, t)
      BY <1>1, <2>2, SuspendRunnableOK
    <3>2. CASE t # runtsk
      <4> HIDE DEF k1
      <4> QED
        BY <2>1, <2>2, <3>1, <3>2, CallAbout
    <3>3. CASE t = runtsk
      <4>1. k.schedtsk = t
        BY <2>1, <3>3 DEF DispInv, DispatchInv, TSKCTX
      <4>2. Disp(make_non_runnable_ret(k, t))
        BY <2>1, <3>3, <4>1 DEF Disp, make_non_runnable_ret
      <4> HIDE DEF k1
      <4> QED
        BY <2>1, <2>2, <3>1, <4>2, CallOK
    <3> QED
      BY <3>2, <3>3
  <2>3. CASE WAITING(k, t) /\ TaskCall(k2, FALSE)
    <3>1. "WAITING" \in k.tcb[t].tstat
      BY <2>3 DEF WAITING
    <3>2. Consistent(k2) /\ Keep(k2, k, t) /\ ~RUNNABLE(k, t)
      BY <1>1, <3>1, SuspendWaitingOK, WaitingNotRunnable
    <3> HIDE DEF k2
    <3> QED
      BY <2>1, <2>3, <3>2, CallAbout
  <2> QED
    BY <1>j, <2>2, <2>3 DEF sus_tsk
<1>k. ASSUME NEW t \in Task, rsm_tsk(t) PROVE TableInv'
  <2> DEFINE k2 == [k EXCEPT !.tcb[t].tstat = @ \ TS_SUSPENDED]
  <2>1. iniflg /\ SUSPENDED(k, t)
    BY <1>2, <1>k DEF rsm_tsk, TSKCTX_UNL
  <2>2. CASE ~WAITING(k, t) /\ TaskCall(make_runnable(k, t), Disp(make_runnable_ret(k, t)))
    <3>1. ~RUNNABLE(k, t)
      BY <1>1, <2>1 DEF TcbOK, RUNNABLE, SUSPENDED, TS_RUNNABLE
    <3>2. Consistent(make_runnable(k, t)) /\ Keep(make_runnable(k, t), k, t)
      BY <1>1, <2>2, <3>1, ActivateOK DEF WAITING
    <3> QED
      BY <2>1, <2>2, <3>1, <3>2, CallAbout
  <2>3. CASE WAITING(k, t) /\ TaskCall(k2, FALSE)
    <3>1. "WAITING" \in k.tcb[t].tstat
      BY <2>3 DEF WAITING
    <3>2. Consistent(k2) /\ Keep(k2, k, t) /\ ~RUNNABLE(k, t)
      BY <1>1, <3>1, SuspendWaitingOK, WaitingNotRunnable
    <3> HIDE DEF k2
    <3> QED
      BY <2>1, <2>3, <3>2, CallAbout
  <2> QED
    BY <1>k, <2>2, <2>3 DEF rsm_tsk
<1>l. ASSUME dly_tsk PROVE TableInv'
  <2>1. iniflg /\ runtsk \in Task /\ RUNNABLE(k, runtsk)
    BY <1>2, <1>l DEF dly_tsk, CAN_WAIT, TSKCTX_UNL
  <2>2. Consistent(make_wait_tmout(k, runtsk, TS_WAITING, "wait_tmout_ok"))
    BY <1>1, <2>1, SleepOK
  <2> QED
    BY <1>l, <2>1, <2>2, CallOK DEF dly_tsk
<1>m. ASSUME NEW pri \in Pri, rot_rdq(pri) PROVE TableInv'
  <2> DEFINE k1 == rotate_ready_queue(k, pri)
  <2>1. iniflg /\ RUNNABLE(k, runtsk) /\ TaskCall(k1, Disp(rotate_ready_queue_ret(k, pri)))
    BY <1>2, <1>m DEF rot_rdq, TSKCTX_UNL
  <2>2. Consistent(k1) /\ k1.tcb = k.tcb
    BY <1>1, RotateOK
  <2> HIDE DEF k1
  <2>3. RUNNABLE(k1, runtsk)
    BY <2>1, <2>2 DEF RUNNABLE
  <2> QED
    BY <2>1, <2>2, <2>3, CallOK
<1>n. ASSUME dis_dsp PROVE TableInv'
  BY <1>n DEF dis_dsp, TableInv, RunningInv, StartInv
<1>o. ASSUME ena_dsp PROVE TableInv'
  <2>1. iniflg
    BY <1>2, <1>o DEF ena_dsp, TSKCTX_UNL
  <2>2. CASE runtsk # k.schedtsk
    <3>1. Consistent(k') /\ (runtsk' # NULL => RUNNABLE(k', runtsk'))
      BY <1>1, <1>o, <2>2, DispatchOK DEF ena_dsp
    <3> QED
      BY <1>o, <2>1, <3>1 DEF ena_dsp, TableInv, RunningInv, StartInv
  <2>3. CASE runtsk = k.schedtsk
    BY <1>o, <2>3 DEF ena_dsp, TableInv, RunningInv, StartInv
  <2> QED
    BY <2>2, <2>3
<1>p. ASSUME NEW t \in Task, ras_tex(t) PROVE TableInv'
  <2> DEFINE k1 == [k EXCEPT !.tcb[t].texptn = TRUE]
             k2 == IF t = runtsk THEN calltex(k1, t) ELSE k1
  <2>1. iniflg /\ TaskCall(k2, FALSE)
    BY <1>2, <1>p DEF ras_tex, TSKCTX_UNL
  <2>2. GoodTables(k1) /\ Books(k1, k, t)
    BY <1>1, FieldUpdate, FieldBooks
  <2> HIDE DEF k1
  <2>3. Books(calltex(k1, t), k1, t)
    BY <2>2, TexBooks
  <2>4. Books(k2, k, t)
    BY <2>2, <2>3 DEF Books, Only, Keep
  <2> HIDE DEF k2
  <2> QED
    BY <2>1, <2>4, CallBooks
<1>q. ASSUME dis_tex PROVE TableInv'
  <2>1. iniflg /\ runtsk \in Task
    BY <1>2, <1>q DEF dis_tex, TSKCTX_UNL
  <2> QED
    BY <1>1, <1>q, <2>1, FieldBooks, CallBooks DEF dis_tex
<1>r. ASSUME ena_tex PROVE TableInv'
  <2> DEFINE k1 == [k EXCEPT !.tcb[runtsk].enatex = TRUE]
             k2 == calltex(k1, runtsk)
  <2>1. iniflg /\ runtsk \in Task /\ TaskCall(k2, FALSE)
    BY <1>2, <1>r DEF ena_tex, TSKCTX_UNL
  <2>2. GoodTables(k1) /\ Books(k1, k, runtsk)
    BY <1>1, <2>1, FieldUpdate, FieldBooks
  <2> HIDE DEF k1
  <2>3. Books(k2, k1, runtsk)
    BY <2>1, <2>2, TexBooks
  <2>4. Books(k2, k, runtsk)
    BY <2>2, <2>3 DEF Books, Only, Keep
  <2> HIDE DEF k2
  <2> QED
    BY <2>1, <2>4, CallBooks
<1>s. ASSUME texrtn_return PROVE TableInv'
  <2> DEFINE k1 == [k EXCEPT !.tcb[runtsk].enatex = TRUE]
             k2 == [k EXCEPT !.tcb[runtsk].enatex = TRUE, !.tcb[runtsk].texlevel = @ - 1]
  <2>1. iniflg /\ runtsk \in Task /\ RUNNABLE(k, runtsk) /\ k.tcb[runtsk].texlevel > 0
    BY <1>2, <1>s DEF texrtn_return
  <2>2. Books(take_texptn(k, runtsk), k, runtsk)
    BY <1>1, <2>1, TexBooks
  <2>3. Books(k2, k, runtsk)
    <3>1. GoodTables(k1) /\ Books(k1, k, runtsk)
      BY <1>1, <2>1, FieldUpdate, FieldBooks
    <3>2. k.tcb[runtsk].texlevel - 1 \in Nat
      BY <1>1, <2>1 DEF GoodTables, Tables, TCB
    <3>3. k2 = [k1 EXCEPT !.tcb[runtsk].texlevel = k.tcb[runtsk].texlevel - 1]
      BY <1>1, <2>1 DEF GoodTables, Tables, TCB
    <3> HIDE DEF k1, k2
    <3>4. Books(k2, k1, runtsk)
      BY <2>1, <3>1, <3>2, <3>3, FieldBooks
    <3> QED
      BY <3>1, <3>4 DEF Books, Only, Keep
  <2>4. Books(k', k, runtsk)
    BY <1>s, <2>2, <2>3 DEF texrtn_return
  <2>5. Consistent(k') /\ Runnable(k') = Runnable(k)
    BY <1>1, <2>1, <2>4, BooksOK
  <2> QED
    BY <1>s, <2>1, <2>5 DEF texrtn_return, TableInv, RunningInv, StartInv, Runnable
<1> QED
  BY <1>a, <1>b, <1>c, <1>d, <1>e, <1>f, <1>g, <1>h, <1>i, <1>j, <1>k, <1>l, <1>m,
     <1>n, <1>o, <1>p, <1>q, <1>r, <1>s DEF TaskNext

(* Interrupts, the calls of handlers, the timer and the idle loop. *)
LEMMA IntNextTables ==
  ASSUME TypeInv, DispInv, TableInv, IntNext
  PROVE  TableInv'
<1>1. GoodTables(k) /\ Consistent(k) /\ nest \in Nat
  BY DEF TypeInv, TypeOK, TableInv
<1>2. INTCTX => iniflg
  BY <1>1 DEF INTCTX, DispInv, HoldInv
<1>3. runtsk # NULL => runtsk \in Task /\ RUNNABLE(k, runtsk)
  BY DEF TypeInv, TypeOK, TableInv, RunningInv
<1>4. Consistent(dispatch_r(k)) /\ (k.schedtsk # NULL => RUNNABLE(dispatch_r(k), k.schedtsk))
  BY <1>1, DispatchOK
<1>a. ASSUME interrupt_enter PROVE TableInv'
  BY <1>a DEF interrupt_enter, TableInv, RunningInv, StartInv
<1>b. ASSUME interrupt_return PROVE TableInv'
  <2>1. iniflg
    BY <1>2, <1>b DEF interrupt_return, INTCTX_UNL
  <2>2. CASE k' = dispatch_r(k) /\ runtsk' = k.schedtsk
    BY <1>4, <1>b, <2>1, <2>2 DEF interrupt_return, TableInv, RunningInv, StartInv
  <2>3. CASE runtsk # NULL /\ k' = calltex(k, runtsk) /\ runtsk' = runtsk
    <3>1. Books(k', k, runtsk)
      BY <1>1, <1>3, <2>3, TexBooks
    <3>2. Consistent(k') /\ Runnable(k') = Runnable(k)
      BY <1>1, <1>3, <2>3, <3>1, BooksOK
    <3> QED
      BY <1>3, <1>b, <2>1, <2>3, <3>2
         DEF interrupt_return, TableInv, RunningInv, StartInv, Runnable
  <2>4. CASE UNCHANGED <<k, runtsk>>
    BY <1>b, <2>1, <2>4 DEF interrupt_return, TableInv, RunningInv, StartInv
  <2> QED
    BY <1>b, <2>2, <2>3, <2>4 DEF interrupt_return
<1>c. ASSUME wait_for_intr PROVE TableInv'
  BY <1>4, <1>c DEF wait_for_intr, TableInv, RunningInv, StartInv
<1>d. ASSUME NEW pri \in Pri, irot_rdq(pri) PROVE TableInv'
  <2> DEFINE k1 == rotate_ready_queue(k, pri)
  <2>1. iniflg /\ IntCall(k1, Disp(rotate_ready_queue_ret(k, pri)))
    BY <1>2, <1>d DEF irot_rdq, INTCTX_UNL
  <2>2. Consistent(k1) /\ k1.tcb = k.tcb
    BY <1>1, RotateOK
  <2> HIDE DEF k1
  <2>3. runtsk # NULL => RUNNABLE(k1, runtsk)
    BY <1>3, <2>2 DEF RUNNABLE
  <2> QED
    BY <2>1, <2>2, <2>3, CallOK
<1>e. ASSUME NEW t \in Task, iact_tsk(t) PROVE TableInv'
  <2>1. iniflg
    BY <1>2, <1>e DEF iact_tsk, INTCTX_UNL
  <2>2. CASE DORMANT(k, t) /\ IntCall(make_runnable(k, t), Disp(make_runnable_ret(k, t)))
    <3>1. ~RUNNABLE(k, t) /\ "WAITING" \notin k.tcb[t].tstat
      BY <2>2 DEF DORMANT, TS_DORMANT, RUNNABLE
    <3>2. Consistent(make_runnable(k, t)) /\ Keep(make_runnable(k, t), k, t)
      BY <1>1, <3>1, ActivateOK
    <3> QED
      BY <2>1, <2>2, <3>1, <3>2, CallAbout
  <2>3. CASE IntCall([k EXCEPT !.tcb[t].actcnt = TRUE], FALSE)
    BY <1>1, <2>1, <2>3, FieldBooks, CallBooks
  <2> QED
    BY <1>e, <2>2, <2>3 DEF iact_tsk
<1>f. ASSUME NEW t \in Task, iwup_tsk(t) PROVE TableInv'
  <2>1. iniflg
    BY <1>2, <1>f DEF iwup_tsk, INTCTX_UNL
  <2>2. CASE "SLEEP" \in k.tcb[t].tstat
    <3>1. IntCall(wait_complete(k, t), Disp(make_non_wait_ret(k, t)))
      BY <1>f, <2>2 DEF iwup_tsk, wakeup
    <3> QED
      BY <2>1, <2>2, <3>1, WakeupOK, CallAbout
  <2>3. CASE "SLEEP" \notin k.tcb[t].tstat
    <3>1. IntCall([k EXCEPT !.tcb[t].wupcnt = TRUE], FALSE)
      BY <1>f, <2>3 DEF iwup_tsk, wakeup
    <3> QED
      BY <1>1, <2>1, <3>1, FieldBooks, CallBooks
  <2> QED
    BY <2>2, <2>3
<1>g. ASSUME NEW t \in Task, irel_wai(t) PROVE TableInv'
  <2>1. iniflg /\ "WAITING" \in k.tcb[t].tstat
    BY <1>2, <1>g DEF irel_wai, INTCTX_UNL, WAITING
  <2>2. Consistent(wait_release(k, t)) /\ Keep(wait_release(k, t), k, t) /\ ~RUNNABLE(k, t)
    BY <1>1, <2>1, WaitReleaseOK, WaitingNotRunnable
  <2> QED
    BY <1>g, <2>1, <2>2, CallAbout DEF irel_wai
<1>h. ASSUME NEW t \in Task, iras_tex(t) PROVE TableInv'
  <2>1. iniflg
    BY <1>2, <1>h DEF iras_tex, INTCTX_UNL
  <2> QED
    BY <1>1, <1>h, <2>1, FieldBooks, CallBooks DEF iras_tex
<1>i. ASSUME NEW t \in Task, timeout(t) PROVE TableInv'
  <2> DEFINE k1 == [k EXCEPT !.tcb[t].tmevt = "none"]
             ret == Disp(make_non_wait_ret(k, t))
  <2>1. iniflg
    BY <1>2, <1>i DEF timeout, INTCTX_UNL
  <2>2. \/ k.tcb[t].tmevt = "wait_tmout" /\ IntCall(wait_tmout(k1, t), ret)
        \/ k.tcb[t].tmevt = "wait_tmout_ok" /\ IntCall(wait_tmout_ok(k1, t), ret)
    BY <1>i DEF timeout
  <2>3. k.tcb[t].tmevt # "none"
    BY <2>2
  <2>4. /\ "WAITING" \in k.tcb[t].tstat
        /\ Consistent(wait_tmout(k1, t)) /\ Keep(wait_tmout(k1, t), k, t)
        /\ k.tcb[t].tmevt = "wait_tmout_ok" =>
             Consistent(wait_tmout_ok(k1, t)) /\ Keep(wait_tmout_ok(k1, t), k, t)
    BY <1>1, <2>3, TimeoutOK
  <2>5. ~RUNNABLE(k, t)
    BY <2>4, WaitingNotRunnable
  <2> HIDE DEF k1, ret
  <2> QED
    BY <2>1, <2>2, <2>4, <2>5, CallAbout
<1> QED
  BY <1>a, <1>b, <1>c, <1>d, <1>e, <1>f, <1>g, <1>h, <1>i DEF IntNext

(* One iteration of task_initialize: the task it visits is dormant, and is *)
(* not visited again.                                                      *)
LEMMA InitializeTables ==
  ASSUME TypeInv, TableInv, task_initialize
  PROVE  TableInv'
<1> DEFINE t == Head(todo)
           k0 == [k EXCEPT !.tcb[t].actcnt = FALSE]
           k1 == make_dormant(k0, t)
           k2 == IF t \in TA_ACT THEN make_runnable(k1, t) ELSE k1
<1>1. /\ GoodTables(k) /\ Consistent(k) /\ todo \in Seq(Task) /\ todo # << >> /\ ~iniflg
      /\ k' = k2 /\ todo' = Tail(todo) /\ iniflg' = iniflg /\ runtsk' = runtsk
  BY DEF task_initialize, TypeInv, TypeOK, TableInv
<1>2. NoRepeat(todo) /\ \A u \in Members(todo) : k.tcb[u].tstat = TS_DORMANT
  BY <1>1 DEF TableInv, StartInv
<1>3. Holds(todo, Members(todo))
  BY <1>1, <1>2 DEF Holds
<1>4. t \in Members(todo) /\ Members(todo) \subseteq Task
  BY <1>1, <1>3, HoldsHead
<1>5. Holds(todo', Members(todo) \ {t})
  BY <1>1, <1>3, TailHolds
<1> HIDE DEF t
<1>6. Books(k0, k, t)
  BY <1>1, <1>4, FieldBooks
<1>7. Consistent(k0) /\ Keep(k0, k, t) /\ k0.tcb[t].tstat = TS_DORMANT
  BY <1>1, <1>2, <1>4, <1>6, BooksOK DEF Books
<1> HIDE DEF k0
<1>8. k0.tcb[t].wobj = NULL /\ k0.tcb[t].tmevt = "none"
  BY <1>4, <1>7, NoObject DEF Consistent, TS_DORMANT
<1>9. Apart(k0, t, Runnable(k0)) /\ t \notin Runnable(k0)
  BY <1>4, <1>7, <1>8, TakeApart DEF Runnable, RUNNABLE, TS_DORMANT
<1>10. Consistent(k1) /\ Keep(k1, k0, t) /\ k1.tcb[t].tstat = TS_DORMANT
  BY <1>4, <1>8, <1>9, MakeDormantOK
<1> HIDE DEF k1
<1>11. ~RUNNABLE(k1, t) /\ "WAITING" \notin k1.tcb[t].tstat
  BY <1>10 DEF RUNNABLE, TS_DORMANT
<1>12. Consistent(make_runnable(k1, t)) /\ Keep(make_runnable(k1, t), k1, t)
  BY <1>4, <1>10, <1>11, ActivateOK
<1>13. Consistent(k2) /\ Keep(k2, k, t)
  BY <1>7, <1>10, <1>12 DEF Keep
<1> HIDE DEF k2
<1>14. runtsk # NULL => RUNNABLE(k2, runtsk)
  <2>1. ~RUNNABLE(k, t)
    BY <1>2, <1>4 DEF RUNNABLE, TS_DORMANT
  <2> QED
    BY <1>4, <1>13, <2>1, StillRunning
<1>15. StartInv'
  <2>1. NoRepeat(todo') /\ Members(todo') = Members(todo) \ {t}
    BY <1>5 DEF Holds
  <2>2. \A u \in Members(todo) \ {t} : k2.tcb[u].tstat = TS_DORMANT
    BY <1>2, <1>4, <1>13 DEF Keep
  <2> QED
    BY <1>1, <2>1, <2>2 DEF StartInv
<1> QED
  BY <1>1, <1>13, <1>14, <1>15 DEF TableInv, RunningInv

(* Every step keeps the invariant. *)
LEMMA NextTables == TypeInv /\ DispInv /\ TableInv /\ [Next]_kvars => TableInv'
<1> SUFFICES ASSUME TypeInv, DispInv, TableInv, [Next]_kvars PROVE TableInv'
  OBVIOUS
<1>1. CASE task_initialize
  BY <1>1, InitializeTables
<1>2. CASE kernel_start
  <2>1. Consistent(k') /\ (runtsk' # NULL => RUNNABLE(k', runtsk'))
    BY <1>2, DispatchOK DEF kernel_start, TableInv
  <2> QED
    BY <1>2, <2>1 DEF kernel_start, TableInv, RunningInv, StartInv
<1>3. CASE loc_cpu
  BY <1>3 DEF loc_cpu, TableInv, RunningInv, StartInv
<1>4. CASE unl_cpu
  BY <1>4 DEF unl_cpu, TableInv, RunningInv, StartInv
<1>5. CASE TaskNext
  BY <1>5, TaskNextTables
<1>6. CASE IntNext
  BY <1>6, IntNextTables
<1>7. CASE UNCHANGED kvars
  BY <1>7 DEF kvars, TableInv, RunningInv, StartInv
<1> QED
  BY <1>1, <1>2, <1>3, <1>4, <1>5, <1>6, <1>7 DEF Next

(* It holds at reset: all tasks are dormant and all queues empty. *)
LEMMA InitConsistent == Consistent(InitTables)
<1>1. InitTables \in Tables
  <2>1. \A t \in Task : dormant_tcb(t, FALSE, "none") \in TCB
    BY TaskAssumption DEF dormant_tcb, TCB, TS_DORMANT, TstatBits, WInfo, TmEvt
  <2>2. << >> \in Seq(Task)
    OBVIOUS
  <2> QED
    BY <2>1, <2>2 DEF InitTables, Tables
<1>2. /\ \A t \in Task : InitTables.tcb[t] = dormant_tcb(t, FALSE, "none")
      /\ \A p \in Pri : InitTables.ready_queue[p] = << >>
      /\ \A o \in WObj : InitTables.wait_queue[o] = << >>
      /\ InitTables.ready_primap = {} /\ InitTables.schedtsk = NULL
  BY DEF InitTables
<1> DEFINE kk == InitTables
<1> HIDE DEF kk
<1>3. \A t \in Task : /\ kk.tcb[t].tstat = {} /\ kk.tcb[t].wobj = NULL
                      /\ kk.tcb[t].tmevt = "none"
  <2>1. TAKE t \in Task
  <2>2. kk.tcb[t] = dormant_tcb(t, FALSE, "none")
    BY <1>2 DEF kk
  <2>3. /\ dormant_tcb(t, FALSE, "none").tstat = {}
        /\ dormant_tcb(t, FALSE, "none").wobj = NULL
        /\ dormant_tcb(t, FALSE, "none").tmevt = "none"
    BY DEF dormant_tcb, TS_DORMANT
  <2> QED
    BY <2>2, <2>3
<1>4. Holds(<< >>, {})
  BY DEF Holds, NoRepeat, Members
<1>5. Runnable(kk) = {}
  BY <1>3 DEF Runnable, RUNNABLE
<1>6. Ready(kk, {})
  <2>1. \A p \in Pri : {u \in {} : kk.tcb[u].priority = p} = {}
    OBVIOUS
  <2> QED
    BY <1>1, <1>2, <1>4, <2>1 DEF kk, Ready, Queues, IsTop
<1>7. \A t \in Task : TcbOK(kk.tcb[t])
  <2>1. NULL \notin TA_TPRI
    BY WObjAssumption
  <2> QED
    BY <1>3, <2>1 DEF TcbOK
<1>8. Linked(kk, Task)
  <2>1. \A o \in WObj : {u \in Task : kk.tcb[u].wobj = o} = {}
    BY <1>3, WObjAssumption
  <2>2. \A o \in WObj : kk.wait_queue[o] = << >>
    BY <1>2 DEF kk
  <2>3. \A pr : Sorted(pr, << >>)
    BY DEF Sorted
  <2> QED
    BY <1>4, <2>1, <2>2, <2>3 DEF Linked
<1> QED
  BY <1>5, <1>6, <1>7, <1>8 DEF Consistent, kk

(* task_initialize builds tables that agree with each other. *)
LEMMA InitTablesInv == Init => TableInv
<1> SUFFICES ASSUME Init PROVE TableInv
  OBVIOUS
<1>1. Consistent(k)
  BY InitConsistent DEF Init
<1>2. \A t \in Task : k.tcb[t].tstat = TS_DORMANT
  BY DEF Init, InitTables, dormant_tcb
<1>3. Members(todo) \subseteq Task /\ NoRepeat(todo)
  BY TaskAssumption, TorderAssumption, ElementOfSeq, LenProperties DEF Init, Members, NoRepeat
<1> QED
  BY <1>1, <1>2, <1>3 DEF Init, TableInv, RunningInv, StartInv

(* The actions together. *)
LEMMA TablesAlways == Spec => []TableInv
BY InitTablesInv, NextTables, InitType, InitDisp, NextType, NextDisp, PTL DEF Spec

-----------------------------------------------------------------------------
(* Theorems *)

(* What consistent tables mean, in the words of the invariants. *)
LEMMA TablesMean ==
  ASSUME Consistent(k)
  PROVE  ReadyQueueInv /\ SchedtskInv /\ TstatInv /\ TimerInv /\ WaitQueueInv
<1>1. k \in Tables /\ Queues(k, Runnable(k)) /\ IsTop(k, Runnable(k), k.schedtsk)
  BY ConsistentGood DEF Consistent, Ready
<1>2. ReadyQueueInv
  <2>1. \A p \in Pri : {u \in Runnable(k) : k.tcb[u].priority = p}
                        = {t \in Task : RUNNABLE(k, t) /\ k.tcb[t].priority = p}
    BY DEF Runnable
  <2> QED
    BY <1>1, <2>1 DEF ReadyQueueInv, Queues, Holds
<1>3. SchedtskInv
  <2> DEFINE R == Runnable(k)
             s == search_schedtsk(k)
  <2>1. k.ready_primap = {} <=> R = {}
    BY <1>1, SearchTop
  <2>2. CASE R = {}
    BY <1>1, <2>1, <2>2 DEF SchedtskInv, IsTop
  <2>3. CASE R # {}
    <3>1. IsTop(k, R, s)
      BY <1>1, <2>3, SearchTop
    <3> HIDE DEF s
    <3>2. R \subseteq Task /\ \A u \in Task : k.tcb[u].priority \in Int
      BY <1>1, PriType DEF Queues
    <3>3. k.tcb[s].priority = k.tcb[k.schedtsk].priority
      <4> HIDE DEF R
      <4>1. /\ s \in R /\ k.schedtsk \in R
            /\ k.tcb[s].priority <= k.tcb[k.schedtsk].priority
            /\ k.tcb[k.schedtsk].priority <= k.tcb[s].priority
        BY <1>1, <2>3, <3>1 DEF IsTop, R
      <4> QED
        BY <3>2, <4>1
    <3>4. k.schedtsk = s
      BY <1>1, <2>3, <3>1, <3>3 DEF IsTop
    <3> QED
      BY <2>1, <2>3, <3>4 DEF SchedtskInv, s
  <2> QED
    BY <2>2, <2>3
<1>4. TstatInv
  BY DEF Consistent, TcbOK, TstatInv, RUNNABLE, WAITING
<1>5. TimerInv
  BY DEF Consistent, TcbOK, TimerInv, WAITING
<1>6. WaitQueueInv
  <2> SUFFICES ASSUME NEW o \in WObj
               PROVE  LET q == k.wait_queue[o]
                      IN /\ NoRepeat(q)
                         /\ Members(q) = {t \in Task : k.tcb[t].wobj = o}
                         /\ o \in TA_TPRI =>
                              \A i, j \in DOMAIN q :
                                i < j => k.tcb[q[i]].priority <= k.tcb[q[j]].priority
    BY DEF WaitQueueInv
  <2> DEFINE q == k.wait_queue[o]
  <2>1. Holds(q, {t \in Task : k.tcb[t].wobj = o}) /\ (o \in TA_TPRI => Sorted(PriOf(k), q))
    BY DEF Consistent, Linked
  <2>2. \A i \in DOMAIN q : q[i] \in Task
    BY <2>1 DEF Holds, Members
  <2>3. \A i \in DOMAIN q : PriOf(k)[q[i]] = k.tcb[q[i]].priority
    BY <2>2 DEF PriOf
  <2> QED
    BY <2>1, <2>3 DEF Holds, Sorted
<1> QED
  BY <1>2, <1>3, <1>4, <1>5, <1>6

(* The ready queues hold the runnable tasks, once each, at their priority. *)
THEOREM ReadyQueuesRight == Spec => []ReadyQueueInv
<1>1. TableInv => ReadyQueueInv
  BY TablesMean DEF TableInv
<1> QED
  BY <1>1, TablesAlways, PTL

(* schedtsk, which is only ever updated incrementally, is what a search of *)
(* the ready queues would find.                                            *)
THEOREM SchedtskRight == Spec => []SchedtskInv
<1>1. TableInv => SchedtskInv
  BY TablesMean DEF TableInv
<1> QED
  BY <1>1, TablesAlways, PTL

(* The processor never executes a task that is not runnable. *)
THEOREM RunningIsRunnable == Spec => []RunningInv
<1>1. TableInv => RunningInv
  BY DEF TableInv
<1> QED
  BY <1>1, TablesAlways, PTL

(* The bits of tstat combine as task.h says. *)
THEOREM TstatRight == Spec => []TstatInv
<1>1. TableInv => TstatInv
  BY TablesMean DEF TableInv
<1> QED
  BY <1>1, TablesAlways, PTL

(* A time event is registered exactly while a wait with a time limit is on.*)
THEOREM TimersRight == Spec => []TimerInv
<1>1. TableInv => TimerInv
  BY TablesMean DEF TableInv
<1> QED
  BY <1>1, TablesAlways, PTL
-----------------------------------------------------------------------------
(* Part 8: the order within a ready queue.  A routine of task.c or wait.c  *)
(* takes one task out of the queue it is in, or puts it at the tail of one *)
(* queue, or both, and leaves the order of all others alone.               *)

(* The tables are a record with a queue for each priority. *)
Shape(kk) ==
  /\ DOMAIN kk = {"tcb", "ready_queue", "ready_primap", "schedtsk", "wait_queue"}
  /\ DOMAIN kk.ready_queue = Pri

SameQueues(k1, kk) == Shape(k1) /\ k1.ready_queue = kk.ready_queue

Leaves(k1, kk, t) ==
  /\ Shape(k1)
  /\ \A p \in Pri :
       k1.ready_queue[p] \in {kk.ready_queue[p], queue_delete(kk.ready_queue[p], t)}

Joins(k1, kk, t) ==
  /\ Shape(k1)
  /\ \A p \in Pri : k1.ready_queue[p] \in {kk.ready_queue[p], Append(kk.ready_queue[p], t)}

(* What is left of the queue q when t has left it, if it has. *)
Rest(s, q, t) ==
  \/ s = q
  \/ s = queue_delete(q, t)
  \/ q # << >> /\ t = Head(q) /\ s = Tail(q)

Moves(k1, kk, t) ==
  /\ Shape(k1)
  /\ \A p \in Pri :
       \E s : Rest(s, kk.ready_queue[p], t) /\ k1.ready_queue[p] \in {s, Append(s, t)}

(* Any tables have that shape. *)
LEMMA TablesShape == ASSUME NEW kk \in Tables PROVE Shape(kk)
  BY DEF Tables, Shape

(* Steps in a row. *)
LEMMA InARow ==
  ASSUME NEW kk, NEW k1, NEW k2, NEW t
  PROVE  /\ SameQueues(k1, kk) => Leaves(k1, kk, t) /\ Joins(k1, kk, t)
         /\ SameQueues(k1, kk) /\ SameQueues(k2, k1) => SameQueues(k2, kk)
         /\ SameQueues(k1, kk) /\ Leaves(k2, k1, t) => Leaves(k2, kk, t)
         /\ Leaves(k1, kk, t) /\ SameQueues(k2, k1) => Leaves(k2, kk, t)
         /\ SameQueues(k1, kk) /\ Joins(k2, k1, t) => Joins(k2, kk, t)
         /\ Joins(k1, kk, t) /\ SameQueues(k2, k1) => Joins(k2, kk, t)
         /\ Leaves(k1, kk, t) /\ Joins(k2, k1, t) => Moves(k2, kk, t)
         /\ Moves(k1, kk, t) /\ SameQueues(k2, k1) => Moves(k2, kk, t)
         /\ Leaves(k1, kk, t) \/ Joins(k1, kk, t) \/ SameQueues(k1, kk) => Moves(k1, kk, t)
<1>1. /\ SameQueues(k1, kk) => Leaves(k1, kk, t) /\ Joins(k1, kk, t)
      /\ SameQueues(k1, kk) /\ SameQueues(k2, k1) => SameQueues(k2, kk)
      /\ SameQueues(k1, kk) /\ Leaves(k2, k1, t) => Leaves(k2, kk, t)
      /\ Leaves(k1, kk, t) /\ SameQueues(k2, k1) => Leaves(k2, kk, t)
      /\ SameQueues(k1, kk) /\ Joins(k2, k1, t) => Joins(k2, kk, t)
      /\ Joins(k1, kk, t) /\ SameQueues(k2, k1) => Joins(k2, kk, t)
  BY DEF SameQueues, Leaves, Joins
<1>2. Moves(k1, kk, t) /\ SameQueues(k2, k1) => Moves(k2, kk, t)
  BY DEF SameQueues, Moves
<1>3. ASSUME Leaves(k1, kk, t), Joins(k2, k1, t) PROVE Moves(k2, kk, t)
  <2> SUFFICES ASSUME NEW p \in Pri
               PROVE  Rest(k1.ready_queue[p], kk.ready_queue[p], t)
                        /\ k2.ready_queue[p] \in {k1.ready_queue[p], Append(k1.ready_queue[p], t)}
    BY <1>3 DEF Moves, Joins
  <2> QED
    BY <1>3 DEF Leaves, Joins, Rest
<1>4. Leaves(k1, kk, t) => Moves(k1, kk, t)
  BY DEF Leaves, Moves, Rest
<1>5. Joins(k1, kk, t) => Moves(k1, kk, t)
  BY DEF Joins, Moves, Rest
<1> QED
  BY <1>1, <1>2, <1>3, <1>4, <1>5

(* Assignments to a TCB and to a wait queue. *)
LEMMA QueuesUntouched ==
  ASSUME NEW kk, Shape(kk), NEW t, NEW x
  PROVE  /\ SameQueues(kk, kk)
         /\ SameQueues([kk EXCEPT !.tcb[t] = x], kk)
         /\ SameQueues([kk EXCEPT !.tcb[t].tstat = x], kk)
         /\ SameQueues([kk EXCEPT !.tcb[t].priority = x], kk)
         /\ SameQueues([kk EXCEPT !.tcb[t].actcnt = x], kk)
         /\ SameQueues([kk EXCEPT !.tcb[t].wupcnt = x], kk)
         /\ SameQueues([kk EXCEPT !.tcb[t].enatex = x], kk)
         /\ SameQueues([kk EXCEPT !.tcb[t].texptn = x], kk)
         /\ SameQueues([kk EXCEPT !.tcb[t].texlevel = x], kk)
         /\ SameQueues([kk EXCEPT !.tcb[t].winfo = x], kk)
         /\ SameQueues([kk EXCEPT !.tcb[t].wobj = x], kk)
         /\ SameQueues([kk EXCEPT !.tcb[t].tmevt = x], kk)
         /\ SameQueues([kk EXCEPT !.schedtsk = x], kk)
         /\ SameQueues([kk EXCEPT !.wait_queue[t] = x], kk)
  BY DEF SameQueues, Shape

(* make_runnable puts t at the tail of its queue. *)
LEMMA RunnableJoins ==
  ASSUME NEW kk, Shape(kk), NEW t
  PROVE  Joins(make_runnable(kk, t), kk, t)
  BY DEF make_runnable, Joins, Shape, queue_insert_prev

(* leave_queue and make_non_runnable take it out. *)
LEMMA NonRunnableLeaves ==
  ASSUME NEW kk, Shape(kk), NEW t, NEW pri
  PROVE  /\ Leaves(leave_queue(kk, t, pri), kk, t)
         /\ Leaves(make_non_runnable(kk, t), kk, t)
<1>1. ASSUME NEW p PROVE Leaves(leave_queue(kk, t, p), kk, t)
  BY DEF leave_queue, Leaves, Shape
<1> DEFINE k1 == leave_queue(kk, t, kk.tcb[t].priority)
           next == IF k1.ready_queue[kk.tcb[t].priority] # << >>
                   THEN Head(k1.ready_queue[kk.tcb[t].priority])
                   ELSE IF k1.ready_primap = {} THEN NULL ELSE search_schedtsk(k1)
           x == IF make_non_runnable_ret(kk, t) THEN next ELSE k1.schedtsk
<1>2. make_non_runnable(kk, t) = [k1 EXCEPT !.schedtsk = x]
  BY DEF make_non_runnable
<1>3. Leaves(k1, kk, t)
  BY <1>1
<1> HIDE DEF k1, next, x
<1>4. SameQueues([k1 EXCEPT !.schedtsk = x], k1)
  BY <1>3, QueuesUntouched DEF Leaves
<1> QED
  BY <1>1, <1>2, <1>3, <1>4, InARow

(* change_priority moves t to the tail of another queue, or its own. *)
LEMMA ChangePriorityMoves ==
  ASSUME NEW kk, Shape(kk), NEW t, NEW newpri
  PROVE  Moves(change_priority(kk, t, newpri), kk, t)
<1> DEFINE k0 == [kk EXCEPT !.tcb[t].priority = newpri]
           k1 == leave_queue(k0, t, kk.tcb[t].priority)
           k2 == [k1 EXCEPT !.ready_queue[newpri] = queue_insert_prev(@, t),
                            !.ready_primap = @ \cup {newpri}]
           x == IF kk.schedtsk = t
                THEN IF newpri >= kk.tcb[t].priority THEN search_schedtsk(k2) ELSE t
                ELSE IF newpri < kk.tcb[kk.schedtsk].priority THEN t ELSE kk.schedtsk
<1>1. change_priority(kk, t, newpri) = [k2 EXCEPT !.schedtsk = x]
  BY DEF change_priority, requeue
<1>2. SameQueues(k0, kk)
  BY QueuesUntouched
<1> HIDE DEF k0
<1>3. Leaves(k1, k0, t)
  BY <1>2, NonRunnableLeaves DEF SameQueues
<1> HIDE DEF k1
<1>4. Joins(k2, k1, t)
  BY <1>3 DEF Leaves, Joins, Shape, queue_insert_prev
<1> HIDE DEF k2, x
<1>5. SameQueues([k2 EXCEPT !.schedtsk = x], k2)
  BY <1>4, QueuesUntouched DEF Joins
<1>6. Leaves(k1, kk, t)
  BY <1>2, <1>3, InARow
<1>7. Moves(k2, kk, t)
  BY <1>4, <1>6, InARow
<1> QED
  BY <1>1, <1>5, <1>7, InARow

(* rotate_ready_queue moves the head of a queue to its tail. *)
LEMMA RotateMoves ==
  ASSUME NEW kk \in Tables, NEW pri \in Pri
  PROVE  \E t \in Task \cup {NULL} : Moves(rotate_ready_queue(kk, pri), kk, t)
<1> DEFINE q == kk.ready_queue[pri]
           r == Append(Tail(q), Head(q))
           x == IF rotate_ready_queue_ret(kk, pri) THEN Head(r) ELSE kk.schedtsk
           k1 == rotate_ready_queue(kk, pri)
<1>1. Shape(kk) /\ q \in Seq(Task)
  BY TablesShape DEF Tables
<1>2. CASE Len(q) > 1
  <2>1. q # << >> /\ Head(q) \in Task
    BY <1>1, <1>2, EmptySeq, HeadTailProperties
  <2>2. k1 = [kk EXCEPT !.ready_queue[pri] = r, !.schedtsk = x]
    BY <1>2 DEF rotate_ready_queue, queue_insert_prev
  <2> HIDE DEF x, k1
  <2>3. /\ Shape(k1)
        /\ \A p \in Pri : k1.ready_queue[p] = IF p = pri THEN r ELSE kk.ready_queue[p]
    BY <1>1, <2>2 DEF Shape
  <2>4. Rest(Tail(q), q, Head(q))
    BY <2>1 DEF Rest
  <2>5. ASSUME NEW p \in Pri
        PROVE  \E s : Rest(s, kk.ready_queue[p], Head(q))
                        /\ k1.ready_queue[p] \in {s, Append(s, Head(q))}
    <3>1. CASE p = pri
      BY <2>3, <2>4, <3>1
    <3>2. CASE p # pri
      BY <2>3, <3>2 DEF Rest
    <3> QED
      BY <3>1, <3>2
  <2>6. Moves(k1, kk, Head(q))
    BY <2>3, <2>5 DEF Moves
  <2> QED
    BY <2>1, <2>6 DEF k1
<1>3. CASE ~(Len(q) > 1)
  <2>1. k1 = kk
    BY <1>3 DEF rotate_ready_queue
  <2> QED
    BY <1>1, <2>1, QueuesUntouched, InARow
<1> QED
  BY <1>2, <1>3

(* The end of a wait puts t at the tail of its queue, if anywhere. *)
LEMMA WaitEndJoins ==
  ASSUME NEW kk, Shape(kk), NEW t
  PROVE  /\ SameQueues(tmevtb_cancel(kk, t), kk)
         /\ SameQueues(wobj_unlink(kk, t), kk)
         /\ SameQueues(wait_cancel(kk, t), kk)
         /\ Joins(make_non_wait(kk, t), kk, t)
         /\ Joins(wait_complete(kk, t), kk, t)
         /\ Joins(wait_release(kk, t), kk, t)
         /\ Joins(wait_tmout(kk, t), kk, t)
         /\ Joins(wait_tmout_ok(kk, t), kk, t)
<1>1. ASSUME NEW k1, Shape(k1) PROVE SameQueues(tmevtb_cancel(k1, t), k1)
  BY <1>1, QueuesUntouched DEF tmevtb_cancel
<1>2. ASSUME NEW k1, Shape(k1) PROVE SameQueues(wobj_unlink(k1, t), k1)
  BY <1>2, QueuesUntouched DEF wobj_unlink, SameQueues, Shape
<1>3. ASSUME NEW k1, Shape(k1) PROVE SameQueues(wait_cancel(k1, t), k1)
  <2>1. SameQueues(tmevtb_cancel(k1, t), k1)
    BY <1>1, <1>3
  <2>2. Shape(tmevtb_cancel(k1, t))
    BY <2>1 DEF SameQueues
  <2>3. SameQueues(wobj_unlink(tmevtb_cancel(k1, t), t), tmevtb_cancel(k1, t))
    BY <1>2, <2>2
  <2> QED
    BY <2>1, <2>3, InARow DEF wait_cancel
<1>4. ASSUME NEW k1, Shape(k1) PROVE Joins(make_non_wait(k1, t), k1, t)
  <2> DEFINE k2 == [k1 EXCEPT !.tcb[t].wobj = NULL]
  <2>1. SameQueues(k2, k1)
    BY <1>4, QueuesUntouched
  <2>2. make_non_wait(k1, t) \in {[k2 EXCEPT !.tcb[t].tstat = TS_SUSPENDED], make_runnable(k2, t)}
    BY DEF make_non_wait
  <2> HIDE DEF k2
  <2>3. Shape(k2)
    BY <2>1 DEF SameQueues
  <2>4. SameQueues([k2 EXCEPT !.tcb[t].tstat = TS_SUSPENDED], k2) /\ Joins(make_runnable(k2, t), k2, t)
    BY <2>3, QueuesUntouched, RunnableJoins
  <2>5. Joins(make_non_wait(k1, t), k2, t)
    BY <2>2, <2>4, InARow
  <2> QED
    BY <2>1, <2>5, InARow
<1>5. ASSUME NEW k1, SameQueues(k1, kk), NEW w
      PROVE  Joins(make_non_wait([k1 EXCEPT !.tcb[t].winfo = w], t), kk, t)
  <2> DEFINE k2 == [k1 EXCEPT !.tcb[t].winfo = w]
  <2>0. Shape(k1)
    BY <1>5 DEF SameQueues
  <2>1. SameQueues(k2, k1)
    BY <2>0, QueuesUntouched
  <2> HIDE DEF k2
  <2>2. Joins(make_non_wait(k2, t), k2, t)
    BY <1>4, <2>1 DEF SameQueues
  <2>3. SameQueues(k2, kk)
    BY <1>5, <2>1, InARow
  <2>4. Joins(make_non_wait(k2, t), kk, t)
    BY <2>2, <2>3, InARow
  <2> QED
    BY <2>4 DEF k2
<1>6. /\ SameQueues(tmevtb_cancel(kk, t), kk) /\ SameQueues(wobj_unlink(kk, t), kk)
      /\ SameQueues(wait_cancel(kk, t), kk) /\ SameQueues(kk, kk)
  BY <1>1, <1>2, <1>3, QueuesUntouched
<1>7. /\ Joins(wait_complete(kk, t), kk, t) /\ Joins(wait_release(kk, t), kk, t)
      /\ Joins(wait_tmout(kk, t), kk, t) /\ Joins(wait_tmout_ok(kk, t), kk, t)
  BY <1>5, <1>6 DEF wait_complete, wait_release, wait_tmout, wait_tmout_ok
<1> QED
  BY <1>4, <1>6, <1>7

(* make_wait takes t out of its queue. *)
LEMMA WaitLeaves ==
  ASSUME NEW kk, Shape(kk), NEW t, NEW stat, NEW tm
  PROVE  Leaves(make_wait_tmout(kk, t, stat, tm), kk, t)
<1> DEFINE k0 == [kk EXCEPT !.tcb[t].tstat = stat]
           k1 == make_non_runnable(k0, t)
           w == IF tm = "none" THEN "NULL" ELSE "TMEVTB"
           k2 == [k1 EXCEPT !.tcb[t].winfo = w]
           k3 == [k2 EXCEPT !.tcb[t].tmevt = tm]
<1>1. make_wait_tmout(kk, t, stat, tm) = k3
  BY DEF make_wait_tmout
<1>2. SameQueues(k0, kk)
  BY QueuesUntouched
<1> HIDE DEF k0
<1>3. Leaves(k1, k0, t)
  BY <1>2, NonRunnableLeaves DEF SameQueues
<1> HIDE DEF k1
<1>4. SameQueues(k2, k1)
  BY <1>3, QueuesUntouched DEF Leaves
<1> HIDE DEF k2
<1>5. Shape(k2)
  BY <1>4 DEF SameQueues
<1>6. SameQueues(k3, k2)
  BY <1>5, QueuesUntouched
<1> QED
  BY <1>1, <1>2, <1>3, <1>4, <1>6, InARow

(* The end of a task, and its restart. *)
LEMMA EndMoves ==
  ASSUME NEW kk, Shape(kk), NEW t
  PROVE  /\ Moves(exit_task(kk, t), kk, t)
         /\ LET k1 == IF RUNNABLE(kk, t) THEN make_non_runnable(kk, t)
                      ELSE IF WAITING(kk, t) THEN wait_cancel(kk, t) ELSE kk
            IN Moves(restart(make_dormant(k1, t), t), kk, t)
<1>1. ASSUME NEW k1, Leaves(k1, kk, t) PROVE Moves(restart(make_dormant(k1, t), t), kk, t)
  <2> DEFINE k2 == make_dormant(k1, t)
             k3 == [k2 EXCEPT !.tcb[t].actcnt = FALSE]
  <2>1. SameQueues(k2, k1)
    BY <1>1, QueuesUntouched DEF make_dormant, Leaves
  <2> HIDE DEF k2
  <2>a. Shape(k2)
    BY <2>1 DEF SameQueues
  <2>2. SameQueues(k2, k2) /\ SameQueues(k3, k2)
    BY <2>a, QueuesUntouched
  <2> HIDE DEF k3
  <2>3. Joins(make_runnable(k3, t), k3, t)
    BY <2>2, RunnableJoins DEF SameQueues
  <2>4. restart(k2, t) \in {make_runnable(k3, t), k2}
    BY DEF restart, k3
  <2>5. Joins(restart(k2, t), k2, t)
    BY <2>2, <2>3, <2>4, InARow
  <2>6. Leaves(k2, kk, t)
    BY <1>1, <2>1, InARow
  <2>7. Moves(restart(k2, t), kk, t)
    BY <2>5, <2>6, InARow
  <2> QED
    BY <2>7 DEF k2
<1>2. /\ Leaves(make_non_runnable(kk, t), kk, t)
      /\ Leaves(wait_cancel(kk, t), kk, t) /\ Leaves(kk, kk, t)
  BY NonRunnableLeaves, WaitEndJoins, QueuesUntouched, InARow
<1> QED
  BY <1>1, <1>2 DEF exit_task

(* Exceptions and the dispatcher do not touch the queues. *)
LEMMA TexKeeps ==
  ASSUME NEW kk, Shape(kk), NEW t
  PROVE  /\ SameQueues(take_texptn(kk, t), kk) /\ SameQueues(calltex(kk, t), kk)
         /\ SameQueues(dispatch_r(kk), kk)
<1>1. ASSUME NEW u PROVE SameQueues(take_texptn(kk, u), kk)
  BY DEF take_texptn, SameQueues, Shape
<1>2. ASSUME NEW u PROVE SameQueues(calltex(kk, u), kk)
  <2> DEFINE k1 == take_texptn(kk, u)
  <2>1. SameQueues(k1, kk)
    BY <1>1
  <2> HIDE DEF k1
  <2>2. SameQueues([k1 EXCEPT !.tcb[u].texlevel = @ + 1], k1)
    BY <2>1 DEF SameQueues, Shape
  <2>3. SameQueues(call_texrtn(kk, u), kk)
    BY <2>1, <2>2, InARow DEF call_texrtn, k1
  <2> QED
    BY <2>3, QueuesUntouched DEF calltex
<1> QED
  BY <1>1, <1>2, QueuesUntouched DEF dispatch_r

(* A service call moves the task that its routine moves. *)
LEMMA CallMoves ==
  ASSUME NEW t, NEW k1, Moves(k1, k, t), NEW disp, TaskCall(k1, disp) \/ IntCall(k1, disp)
  PROVE  Moves(k', k, t)
<1>1. Shape(k1)
  BY DEF Moves
<1>2. SameQueues(dispatch_r(k1), k1) /\ SameQueues(k1, k1)
  BY <1>1, TexKeeps, QueuesUntouched
<1>3. k' \in {k1, dispatch_r(k1)}
  BY DEF TaskCall, IntCall
<1> QED
  BY <1>2, <1>3, InARow

(* What any step of the kernel does to the ready queues. *)
OneMoves == \E t \in Task \cup {NULL} : Moves(k', k, t)

(* Calls that only keep books. *)
LEMMA CallUntouched ==
  ASSUME NEW k1, SameQueues(k1, k), NEW disp, TaskCall(k1, disp) \/ IntCall(k1, disp)
  PROVE  OneMoves
  BY InARow, CallMoves DEF OneMoves

(* No step moves two tasks within the ready queues. *)
LEMMA NextMoves == ASSUME TypeInv, [Next]_kvars PROVE OneMoves
<1>1. /\ k \in Tables /\ todo \in Seq(Task) /\ runtsk \in Task \cup {NULL}
      /\ Shape(k) /\ SameQueues(k, k)
  BY TablesShape, QueuesUntouched DEF TypeInv, TypeOK
<1>2. ASSUME SameQueues(k', k) PROVE OneMoves
  BY <1>2, InARow DEF OneMoves
<1>3. ASSUME SameQueues(k', dispatch_r(k)) \/ \E t : SameQueues(k', calltex(k, t))
      PROVE  OneMoves
  BY <1>1, <1>2, <1>3, TexKeeps, InARow
<1>4. ASSUME NEW t \in Task \cup {NULL}, NEW k1,
             Joins(k1, k, t) \/ Leaves(k1, k, t) \/ Moves(k1, k, t),
             NEW disp, TaskCall(k1, disp) \/ IntCall(k1, disp)
      PROVE  OneMoves
  BY <1>4, InARow, CallMoves DEF OneMoves
<1>5. CASE UNCHANGED k
  BY <1>1, <1>2, <1>5
<1>a. CASE task_initialize
  <2> DEFINE t == Head(todo)
             k0 == [k EXCEPT !.tcb[t].actcnt = FALSE]
             k1 == make_dormant(k0, t)
  <2>0. todo \in Seq(Task) /\ todo # << >>
    BY <1>1, <1>a DEF task_initialize
  <2>1. t \in Task
    BY <2>0, HeadTailProperties
  <2>2. k' = IF t \in TA_ACT THEN make_runnable(k1, t) ELSE k1
    BY <1>a DEF task_initialize
  <2>3. SameQueues(k0, k)
    BY <1>1, QueuesUntouched
  <2> HIDE DEF t, k0
  <2>a. Shape(k0)
    BY <2>3 DEF SameQueues
  <2>4. SameQueues(k1, k0)
    BY <2>a, QueuesUntouched DEF make_dormant
  <2> HIDE DEF k1
  <2>5. Joins(make_runnable(k1, t), k1, t) /\ Joins(k1, k1, t)
    BY <2>4, RunnableJoins, QueuesUntouched, InARow DEF SameQueues
  <2>6. Joins(k', k, t)
    BY <2>2, <2>3, <2>4, <2>5, InARow
  <2> QED
    BY <2>1, <2>6, InARow DEF OneMoves
<1>b. CASE kernel_start
  <2>1. SameQueues(dispatch_r(k), dispatch_r(k)) /\ k' = dispatch_r(k)
    BY <1>1, <1>b, TexKeeps DEF kernel_start, SameQueues
  <2> QED
    BY <1>3, <2>1
<1>c. CASE TaskNext
  <2>a. CASE ext_tsk
    <3>1. Moves(exit_task(k, runtsk), k, runtsk)
      BY <1>1, EndMoves
    <3> DEFINE k1 == exit_task(k, runtsk)
    <3>2. k' = dispatch_r(k1)
      BY <2>a DEF ext_tsk
    <3>3. Shape(k1)
      BY <3>1 DEF Moves
    <3> HIDE DEF k1
    <3>4. SameQueues(dispatch_r(k1), k1)
      BY <3>3, TexKeeps
    <3>5. Moves(k', k, runtsk)
      BY <3>1, <3>2, <3>4, InARow DEF k1
    <3> QED
      BY <1>1, <3>5 DEF OneMoves
  <2>b. CASE dly_tsk \/ \E tm \in {"none", "wait_tmout"} : slp_tsk(tm)
    <3>1. \A stat, tm : Leaves(make_wait_tmout(k, runtsk, stat, tm), k, runtsk)
      BY <1>1, WaitLeaves
    <3>2. SameQueues([k EXCEPT !.tcb[runtsk].wupcnt = FALSE], k)
      BY <1>1, QueuesUntouched
    <3>3. CASE dly_tsk
      BY <1>1, <1>4, <3>1, <3>3 DEF dly_tsk
    <3>4. ASSUME NEW tm, slp_tsk(tm) PROVE OneMoves
      BY <1>1, <1>4, <3>1, <3>2, <3>4, CallUntouched DEF slp_tsk
    <3> QED
      BY <2>b, <3>3, <3>4
  <2>c. CASE dis_dsp \/ ena_dsp
    <3>1. k' \in {k, dispatch_r(k)}
      BY <2>c DEF dis_dsp, ena_dsp
    <3>2. SameQueues(k, k) /\ SameQueues(dispatch_r(k), k)
      BY <1>1, TexKeeps
    <3> QED
      BY <1>2, <3>1, <3>2
  <2>d. CASE dis_tex
    <3>1. SameQueues([k EXCEPT !.tcb[runtsk].enatex = FALSE], k)
      BY <1>1, QueuesUntouched
    <3> QED
      BY <2>d, <3>1, CallUntouched DEF dis_tex
  <2>e. CASE ena_tex
    <3> DEFINE k1 == [k EXCEPT !.tcb[runtsk].enatex = TRUE]
    <3>1. SameQueues(k1, k)
      BY <1>1, QueuesUntouched
    <3> HIDE DEF k1
    <3>2. SameQueues(calltex(k1, runtsk), k)
      BY <3>1, TexKeeps, InARow DEF SameQueues
    <3> QED
      BY <2>e, <3>2, CallUntouched DEF ena_tex, k1
  <2>f. CASE texrtn_return
    <3>1. SameQueues(take_texptn(k, runtsk), k)
      BY <1>1, TexKeeps
    <3>2. \A n : SameQueues([k EXCEPT !.tcb[runtsk].enatex = TRUE, !.tcb[runtsk].texlevel = n], k)
      BY <1>1 DEF SameQueues, Shape
    <3>3. \/ k' = take_texptn(k, runtsk)
          \/ k' = [k EXCEPT !.tcb[runtsk].enatex = TRUE, !.tcb[runtsk].texlevel = @ - 1]
      BY <2>f DEF texrtn_return
    <3> QED
      BY <1>2, <3>1, <3>2, <3>3
  <2>g. ASSUME NEW pri \in Pri, rot_rdq(pri) PROVE OneMoves
    <3>1. PICK t \in Task \cup {NULL} : Moves(rotate_ready_queue(k, pri), k, t)
      BY <1>1, RotateMoves
    <3> QED
      BY <1>4, <2>g, <3>1 DEF rot_rdq
  <2>h. ASSUME NEW t \in Task,
               act_tsk(t) \/ can_act(t) \/ ter_tsk(t) \/ wup_tsk(t) \/ can_wup(t)
        PROVE  OneMoves
    <3>1. Joins(make_runnable(k, t), k, t) /\ Joins(wait_complete(k, t), k, t)
      BY <1>1, RunnableJoins, WaitEndJoins
    <3>2. /\ \A x : SameQueues([k EXCEPT !.tcb[t].actcnt = x], k)
          /\ \A x : SameQueues([k EXCEPT !.tcb[t].wupcnt = x], k)
      BY <1>1, QueuesUntouched
    <3>3. CASE act_tsk(t)
      BY <1>4, <3>1, <3>2, <3>3, CallUntouched DEF act_tsk
    <3>4. CASE can_act(t) \/ can_wup(t)
      BY <3>2, <3>4, CallUntouched DEF can_act, can_wup
    <3>5. CASE ter_tsk(t)
      <4> DEFINE k1 == IF RUNNABLE(k, t) THEN make_non_runnable(k, t)
                       ELSE IF WAITING(k, t) THEN wait_cancel(k, t) ELSE k
                 k2 == restart(make_dormant(k1, t), t)
      <4>1. Moves(k2, k, t)
        BY <1>1, EndMoves
      <4>2. \E disp : TaskCall(k2, disp)
        BY <3>5 DEF ter_tsk
      <4> HIDE DEF k2
      <4> QED
        BY <1>4, <4>1, <4>2
    <3>6. CASE wup_tsk(t)
      BY <1>4, <3>1, <3>2, <3>6, CallUntouched DEF wup_tsk, wakeup
    <3> QED
      BY <2>h, <3>3, <3>4, <3>5, <3>6
  <2>i. ASSUME NEW t \in Task, rel_wai(t) \/ sus_tsk(t) \/ rsm_tsk(t) \/ ras_tex(t)
        PROVE  OneMoves
    <3>1. Joins(make_runnable(k, t), k, t) /\ Joins(wait_release(k, t), k, t)
      BY <1>1, RunnableJoins, WaitEndJoins
    <3>2. /\ \A x : SameQueues([k EXCEPT !.tcb[t].tstat = x], k)
          /\ SameQueues([k EXCEPT !.tcb[t].texptn = TRUE], k)
      BY <1>1, QueuesUntouched
    <3>3. CASE rel_wai(t)
      BY <1>4, <3>1, <3>3 DEF rel_wai
    <3>4. CASE sus_tsk(t)
      <4> DEFINE k1 == [k EXCEPT !.tcb[t].tstat = TS_SUSPENDED]
      <4>1. SameQueues(k1, k)
        BY <3>2
      <4>2. \/ \E disp : TaskCall(make_non_runnable(k1, t), disp)
            \/ \E x : TaskCall([k EXCEPT !.tcb[t].tstat = x], FALSE)
        BY <3>4 DEF sus_tsk
      <4> HIDE DEF k1
      <4>3. Shape(k1)
        BY <4>1 DEF SameQueues
      <4>4. Leaves(make_non_runnable(k1, t), k1, t)
        BY <4>3, NonRunnableLeaves
      <4>5. Leaves(make_non_runnable(k1, t), k, t)
        BY <4>1, <4>4, InARow
      <4> QED
        BY <1>4, <3>2, <4>2, <4>5, CallUntouched
    <3>5. CASE rsm_tsk(t)
      <4>1. \/ \E disp : TaskCall(make_runnable(k, t), disp)
            \/ \E x : TaskCall([k EXCEPT !.tcb[t].tstat = x], FALSE)
        BY <3>5 DEF rsm_tsk
      <4> QED
        BY <1>4, <3>1, <3>2, <4>1, CallUntouched
    <3>6. CASE ras_tex(t)
      <4> DEFINE k1 == [k EXCEPT !.tcb[t].texptn = TRUE]
      <4>1. \E k2 \in {k1, calltex(k1, t)} : TaskCall(k2, FALSE)
        BY <3>6 DEF ras_tex
      <4>2. SameQueues(k1, k)
        BY <3>2
      <4> HIDE DEF k1
      <4>3. Shape(k1)
        BY <4>2 DEF SameQueues
      <4>4. SameQueues(calltex(k1, t), k1)
        BY <4>3, TexKeeps
      <4>5. SameQueues(calltex(k1, t), k)
        BY <4>2, <4>4, InARow
      <4> QED
        BY <4>1, <4>2, <4>5, CallUntouched
    <3> QED
      BY <2>i, <3>3, <3>4, <3>5, <3>6
  <2>j. ASSUME NEW t \in Task, NEW pri \in Pri, chg_pri(t, pri) PROVE OneMoves
    <3> DEFINE k1 == [k EXCEPT !.tcb[t].priority = pri]
               o == k.tcb[t].wobj
    <3>1. \/ \E disp : TaskCall(change_priority(k, t, pri), disp)
          \/ \E k2 \in {k1, wobj_change_priority(k1, o, t)} : TaskCall(k2, FALSE)
      BY <2>j DEF chg_pri
    <3>2. SameQueues(k1, k) /\ Moves(change_priority(k, t, pri), k, t)
      BY <1>1, QueuesUntouched, ChangePriorityMoves
    <3> HIDE DEF k1, o
    <3>3. SameQueues(wobj_change_priority(k1, o, t), k1)
      BY <3>2 DEF wobj_change_priority, SameQueues, Shape
    <3>4. SameQueues(wobj_change_priority(k1, o, t), k)
      BY <3>2, <3>3, InARow
    <3> QED
      BY <1>4, <3>1, <3>2, <3>4, CallUntouched
  <2> QED
    BY <1>c, <2>a, <2>b, <2>c, <2>d, <2>e, <2>f, <2>g, <2>h, <2>i, <2>j DEF TaskNext
<1>d. CASE IntNext
  <2>a. CASE interrupt_enter \/ interrupt_return \/ wait_for_intr
    <3>1. k' \in {k, dispatch_r(k), calltex(k, runtsk)}
      BY <2>a DEF interrupt_enter, interrupt_return, wait_for_intr
    <3>2. SameQueues(k, k) /\ SameQueues(dispatch_r(k), k) /\ SameQueues(calltex(k, runtsk), k)
      BY <1>1, TexKeeps
    <3> QED
      BY <1>2, <3>1, <3>2
  <2>b. ASSUME NEW pri \in Pri, irot_rdq(pri) PROVE OneMoves
    <3>1. PICK t \in Task \cup {NULL} : Moves(rotate_ready_queue(k, pri), k, t)
      BY <1>1, RotateMoves
    <3> QED
      BY <1>4, <2>b, <3>1 DEF irot_rdq
  <2>c. ASSUME NEW t \in Task, iact_tsk(t) \/ iwup_tsk(t) \/ irel_wai(t) \/ iras_tex(t)
        PROVE  OneMoves
    <3>1. /\ Joins(make_runnable(k, t), k, t) /\ Joins(wait_complete(k, t), k, t)
          /\ Joins(wait_release(k, t), k, t)
      BY <1>1, RunnableJoins, WaitEndJoins
    <3>2. /\ SameQueues([k EXCEPT !.tcb[t].actcnt = TRUE], k)
          /\ SameQueues([k EXCEPT !.tcb[t].wupcnt = TRUE], k)
          /\ SameQueues([k EXCEPT !.tcb[t].texptn = TRUE], k)
      BY <1>1, QueuesUntouched
    <3>3. CASE iact_tsk(t)
      BY <1>4, <3>1, <3>2, <3>3, CallUntouched DEF iact_tsk
    <3>4. CASE iwup_tsk(t)
      BY <1>4, <3>1, <3>2, <3>4, CallUntouched DEF iwup_tsk, wakeup
    <3>5. CASE irel_wai(t)
      BY <1>4, <3>1, <3>5 DEF irel_wai
    <3>6. CASE iras_tex(t)
      BY <3>2, <3>6, CallUntouched DEF iras_tex
    <3> QED
      BY <2>c, <3>3, <3>4, <3>5, <3>6
  <2>d. ASSUME NEW t \in Task, timeout(t) PROVE OneMoves
    <3> DEFINE k1 == [k EXCEPT !.tcb[t].tmevt = "none"]
    <3>1. \E k2 \in {wait_tmout(k1, t), wait_tmout_ok(k1, t)} : \E disp : IntCall(k2, disp)
      BY <2>d DEF timeout
    <3>2. SameQueues(k1, k)
      BY <1>1, QueuesUntouched
    <3> HIDE DEF k1
    <3>3. Shape(k1)
      BY <3>2 DEF SameQueues
    <3>4. Joins(wait_tmout(k1, t), k1, t) /\ Joins(wait_tmout_ok(k1, t), k1, t)
      BY <3>3, WaitEndJoins
    <3>5. Joins(wait_tmout(k1, t), k, t) /\ Joins(wait_tmout_ok(k1, t), k, t)
      BY <3>2, <3>4, InARow
    <3> QED
      BY <1>4, <3>1, <3>5
  <2> QED
    BY <1>d, <2>a, <2>b, <2>c, <2>d DEF IntNext
<1>e. CASE loc_cpu \/ unl_cpu
  BY <1>5, <1>e DEF loc_cpu, unl_cpu
<1> QED
  BY <1>5, <1>a, <1>b, <1>c, <1>d, <1>e DEF Next, kvars

(* The place of a task in a queue. *)
LEMMA IndexIs ==
  ASSUME NEW S, NEW q, Holds(q, S)
  PROVE  /\ DOMAIN q = 1 .. Len(q) /\ Len(q) \in Nat
         /\ \A u \in S : Index(q, u) \in DOMAIN q /\ q[Index(q, u)] = u
         /\ \A i \in DOMAIN q : q[i] \in S /\ Index(q, q[i]) = i
<1>1. q \in Seq(Task) /\ DOMAIN q = 1 .. Len(q) /\ Len(q) \in Nat
  BY LenProperties DEF Holds
<1>2. ASSUME NEW u \in S PROVE Index(q, u) \in DOMAIN q /\ q[Index(q, u)] = u
  <2>1. \E i \in DOMAIN q : q[i] = u
    BY DEF Holds, Members
  <2> QED
    BY <2>1 DEF Index
<1>3. ASSUME NEW i \in DOMAIN q PROVE q[i] \in S /\ Index(q, q[i]) = i
  <2>1. q[i] \in S
    BY DEF Holds, Members
  <2> QED
    BY <1>2, <2>1 DEF Holds, NoRepeat
<1> QED
  BY <1>1, <1>2, <1>3

(* The tasks that stay in a queue keep their order. *)
LEMMA RestKeepsOrder ==
  ASSUME NEW S, NEW q, Holds(q, S), NEW t, NEW s, Rest(s, q, t)
  PROVE  /\ Holds(s, S) \/ Holds(s, S \ {t})
         /\ \A u, v \in Members(s) : Index(s, u) > Index(s, v) => Index(q, u) > Index(q, v)
<1> DEFINE pr == [u \in S |-> Index(q, u)]
<1>1. Sorted(pr, q)
  BY IndexIs DEF Sorted
<1> HIDE DEF pr
<1>2. /\ Holds(s, S) \/ Holds(s, S \ {t})
      /\ Sorted(pr, s)
  <2>1. Holds(queue_delete(q, t), S \ {t}) /\ Sorted(pr, queue_delete(q, t))
    BY <1>1, DeleteHolds
  <2>2. q # << >> => Holds(Tail(q), S \ {Head(q)}) /\ Sorted(pr, Tail(q))
    BY <1>1, TailHolds
  <2> QED
    BY <1>1, <2>1, <2>2 DEF Rest
<1>3. Members(s) \subseteq S /\ Holds(s, Members(s))
  BY <1>2 DEF Holds
<1>4. ASSUME NEW u \in Members(s), NEW v \in Members(s), Index(s, u) > Index(s, v)
      PROVE  Index(q, u) > Index(q, v)
  <2> DEFINE a == Index(q, u)  b == Index(q, v)
  <2>1. /\ Index(s, u) \in DOMAIN s /\ s[Index(s, u)] = u
        /\ Index(s, v) \in DOMAIN s /\ s[Index(s, v)] = v
        /\ DOMAIN s = 1 .. Len(s) /\ Len(s) \in Nat
    BY <1>3, IndexIs
  <2>2. pr[v] <= pr[u] /\ u # v
    BY <1>2, <1>4, <2>1 DEF Sorted
  <2>3. pr[v] = b /\ pr[u] = a
    BY <1>3 DEF pr
  <2>4. a \in DOMAIN q /\ q[a] = u /\ b \in DOMAIN q /\ q[b] = v /\ DOMAIN q = 1 .. Len(q)
    BY <1>3, IndexIs
  <2>5. a # b
    BY <2>2, <2>4
  <2>6. a \in Int /\ b \in Int
    BY <2>4, IndexIs
  <2> HIDE DEF a, b
  <2>7. a > b
    BY <2>2, <2>3, <2>5, <2>6
  <2> QED
    BY <2>7 DEF a, b
<1> QED
  BY <1>2, <1>4

(* A queue r that t has left, joined, or both: the others keep their order,*)
(* if t has lost its place it is the last,                                 *)
LEMMA OneMoved ==
  ASSUME NEW S, NEW q, Holds(q, S), NEW R, NEW r, Holds(r, R), NEW t,
         NEW s, Rest(s, q, t), r \in {s, Append(s, t)},
         NEW u \in S \cap R, NEW v \in S \cap R,
         Index(q, u) < Index(q, v), Index(r, u) > Index(r, v)
  PROVE  u = t /\ r[Len(r)] = t
<1>1. /\ Holds(s, S) \/ Holds(s, S \ {t})
      /\ \A x, y \in Members(s) : Index(s, x) > Index(s, y) => Index(q, x) > Index(q, y)
  BY RestKeepsOrder
<1>2. /\ Index(q, u) \in Int /\ Index(q, v) \in Int
  BY IndexIs
<1>3. R = Members(r) /\ Holds(s, Members(s)) /\ Members(s) \subseteq S
  BY <1>1 DEF Holds
<1>4. r # s
  BY <1>1, <1>2, <1>3
<1>5. r = Append(s, t)
  BY <1>4
<1>6. s \in Seq(Task) /\ Len(s) \in Nat /\ DOMAIN s = 1 .. Len(s)
  BY <1>3, LenProperties DEF Holds
<1>7. t \in Task
  <2>1. /\ Len(s) + 1 \in DOMAIN r
        /\ r[Len(s) + 1] = t
    BY <1>5, <1>6
  <2> QED
    BY <2>1, HoldsHead DEF Holds, Members
<1>8. /\ Len(r) = Len(s) + 1 /\ r[Len(r)] = t /\ DOMAIN r = 1 .. Len(s) + 1
      /\ \A i \in 1 .. Len(s) : r[i] = s[i]
  BY <1>5, <1>6, <1>7, AppendProperties
<1>9. ASSUME NEW x \in R, x # t PROVE x \in Members(s) /\ Index(r, x) = Index(s, x)
  <2>1. Index(r, x) \in DOMAIN r /\ r[Index(r, x)] = x
    BY IndexIs
  <2>2. Index(r, x) \in 1 .. Len(s) /\ s[Index(r, x)] = x
    BY <1>6, <1>8, <1>9, <2>1
  <2>3. Index(s, s[Index(r, x)]) = Index(r, x)
    BY <1>3, <1>6, <2>2, IndexIs
  <2> QED
    BY <1>6, <2>2, <2>3 DEF Members
<1>10. u = t
  <2> SUFFICES ASSUME u # t PROVE FALSE
    OBVIOUS
  <2>1. CASE v = t
    <3>1. Index(r, t) = Len(s) + 1
      <4>1. Len(s) + 1 \in DOMAIN r /\ r[Len(s) + 1] = t
        BY <1>6, <1>8
      <4> QED
        BY <4>1, IndexIs
    <3>2. Index(r, u) \in DOMAIN r
      BY IndexIs
    <3> QED
      BY <1>6, <1>8, <2>1, <3>1, <3>2
  <2>2. CASE v # t
    <3>1. u \in Members(s) /\ v \in Members(s) /\ Index(s, u) > Index(s, v)
      BY <1>9, <2>2
    <3> QED
      BY <1>1, <1>2, <3>1
  <2> QED
    BY <2>1, <2>2
<1> QED
  BY <1>8, <1>10

(* and one that was not in the queue is t, at the tail.                    *)
LEMMA OneJoined ==
  ASSUME NEW S, NEW q, Holds(q, S), NEW R, NEW r, Holds(r, R), NEW t,
         NEW s, Rest(s, q, t), r \in {s, Append(s, t)}, NEW u \in R \ S
  PROVE  u = t /\ r[Len(r)] = t
<1>1. /\ Holds(s, S) \/ Holds(s, S \ {t})
      /\ \A x, y \in Members(s) : Index(s, x) > Index(s, y) => Index(q, x) > Index(q, y)
  BY RestKeepsOrder
<1>2. R = Members(r) /\ Holds(s, Members(s)) /\ Members(s) \subseteq S
  BY <1>1 DEF Holds
<1>3. r = Append(s, t)
  BY <1>2
<1>4. s \in Seq(Task) /\ Len(s) \in Nat /\ DOMAIN s = 1 .. Len(s)
  BY <1>2, LenProperties DEF Holds
<1>5. t \in Task
  <2>1. Len(s) + 1 \in DOMAIN r /\ r[Len(s) + 1] = t
    BY <1>3, <1>4
  <2> QED
    BY <2>1, HoldsHead DEF Holds, Members
<1>6. /\ Len(r) = Len(s) + 1 /\ r[Len(r)] = t /\ DOMAIN r = 1 .. Len(s) + 1
      /\ \A i \in 1 .. Len(s) : r[i] = s[i]
  BY <1>3, <1>4, <1>5, AppendProperties
<1>7. PICK i \in DOMAIN r : r[i] = u
  BY <1>2 DEF Members
<1>8. i \notin 1 .. Len(s)
  <2> SUFFICES ASSUME i \in 1 .. Len(s) PROVE FALSE
    OBVIOUS
  <2>1. u = s[i] /\ i \in DOMAIN s
    BY <1>4, <1>6, <1>7
  <2> QED
    BY <1>2, <2>1 DEF Members
<1>9. i = Len(r)
  BY <1>4, <1>6, <1>7, <1>8
<1> QED
  BY <1>6, <1>7, <1>9

(* Among tasks of one priority the order is first come, first served: the  *)
(* tasks of a queue keep their order in a step, and the one task at most   *)
(* that comes to the queue, or loses its place in it, is at the tail.      *)
THEOREM FirstComeFirstServed == Spec => OneGoesToTail
<1>1. ASSUME TypeInv, TableInv, TableInv', [Next]_kvars
      PROVE  \A p \in Pri :
               LET q == k.ready_queue[p]
                   r == k'.ready_queue[p]
                   overtaken(t) == \E u \in Members(q) \cap Members(r) :
                                     Index(q, t) < Index(q, u) /\ Index(r, t) > Index(r, u)
                   came == {t \in Members(r) : t \notin Members(q) \/ overtaken(t)}
               IN Cardinality(came) <= 1 /\ \A t \in came : r[Len(r)] = t
  <2>1. PICK t \in Task \cup {NULL} : Moves(k', k, t)
    BY <1>1, NextMoves DEF OneMoves
  <2> TAKE p \in Pri
  <2> DEFINE q == k.ready_queue[p]
             r == k'.ready_queue[p]
             overtaken(x) == \E u \in Members(q) \cap Members(r) :
                               Index(q, x) < Index(q, u) /\ Index(r, x) > Index(r, u)
             came == {x \in Members(r) : x \notin Members(q) \/ overtaken(x)}
  <2>2. Holds(q, Members(q)) /\ Holds(r, Members(r))
    BY <1>1 DEF TableInv, Consistent, Ready, Queues, Holds
  <2>3. PICK s : Rest(s, q, t) /\ r \in {s, Append(s, t)}
    BY <2>1 DEF Moves
  <2> HIDE DEF q, r
  <2>4. ASSUME NEW x \in came PROVE x = t /\ r[Len(r)] = x
    <3>1. CASE x \notin Members(q)
      BY <2>2, <2>3, <3>1, OneJoined
    <3>2. CASE x \in Members(q)
      BY <2>2, <2>3, <3>2, OneMoved
    <3> QED
      BY <3>1, <3>2
  <2>5. came = {} \/ came = {t}
    BY <2>4
  <2>6. Cardinality(came) <= 1
    BY <2>5, FS_EmptySet, FS_Singleton
  <2> QED
    BY <2>4, <2>6 DEF q, r
<1>2. Spec => []TypeInv
  BY InitType, NextType, PTL DEF Spec
<1> QED
  BY <1>1, <1>2, TablesAlways, PTL DEF Spec, OneGoesToTail
=============================================================================
