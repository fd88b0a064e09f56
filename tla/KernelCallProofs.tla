-------------------------- MODULE KernelCallProofs --------------------------
(***************************************************************************)
(* What the proofs about the synchronisation objects need of the kernel,   *)
(* for any set of tasks, priorities, wait queues and bounds.               *)
(*                                                                         *)
(* Part 1: the invariants of the kernel survive its own steps and the      *)
(* calls of objects, and only the latter put tasks into wait queues.       *)
(* Part 2: which waits a step ends, and how the task can tell.             *)
(* Part 3: semaphores, for any number of them, any initial and maximum     *)
(* counts and any mixture of queue disciplines: their counts are right,    *)
(* and the kernel's own invariants survive their calls.                    *)
(***************************************************************************)
EXTENDS Semaphore, KernelProofs

-----------------------------------------------------------------------------
(* Part 1: the calls of synchronisation objects. *)

(* Everything that is proved of the kernel's state. *)
KernelInvs == TypeInv /\ DispInv /\ TableInv

(* k1 has the wait queues of kk. *)
Kept(k1, kk) == "wait_queue" \in DOMAIN k1 /\ k1.wait_queue = kk.wait_queue

(* No wait queue that is empty in kk has entries in k1. *)
NoNew(k1, kk) ==
  \A o \in WObj : kk.wait_queue[o] = << >> => k1.wait_queue[o] = << >>

(* The scheduler does not touch the wait queues. *)
LEMMA SchedulerKeeps ==
  ASSUME NEW kk, "wait_queue" \in DOMAIN kk, NEW t, NEW p
  PROVE  /\ Kept(make_runnable(kk, t), kk)
         /\ Kept(make_non_runnable(kk, t), kk)
         /\ Kept(change_priority(kk, t, p), kk)
         /\ Kept(rotate_ready_queue(kk, p), kk)
         /\ Kept(dispatch_r(kk), kk)
         /\ Kept(calltex(kk, t), kk)
         /\ Kept(take_texptn(kk, t), kk)
<1>1. Kept(make_runnable(kk, t), kk)
  BY DEF Kept, make_runnable
<1>2. Kept(leave_queue(kk, t, p), kk)
  BY DEF Kept, leave_queue
<1>3. Kept(make_non_runnable(kk, t), kk)
  BY DEF Kept, make_non_runnable, leave_queue
<1>4. Kept(requeue(kk, t, p), kk)
  BY DEF Kept, requeue, leave_queue
<1>5. Kept(change_priority(kk, t, p), kk)
  BY <1>4 DEF Kept, change_priority
<1>6. Kept(rotate_ready_queue(kk, p), kk)
  BY DEF Kept, rotate_ready_queue
<1>7. Kept(take_texptn(kk, t), kk)
  BY DEF Kept, take_texptn
<1>8. Kept(call_texrtn(kk, t), kk)
  BY <1>7 DEF Kept, call_texrtn
<1>9. Kept(calltex(kk, t), kk)
  BY <1>8 DEF Kept, calltex
<1>10. Kept(dispatch_r(kk), kk)
  <2>1. \A u : Kept(calltex(kk, u), kk)
    BY DEF Kept, calltex, call_texrtn, take_texptn
  <2> QED
    BY <2>1 DEF dispatch_r, Kept
<1> QED
  BY <1>1, <1>3, <1>5, <1>6, <1>7, <1>9, <1>10

(* Neither does an assignment to a field of a TCB. *)
LEMMA FieldKeeps ==
  ASSUME NEW kk, "wait_queue" \in DOMAIN kk, NEW t, NEW x
  PROVE  /\ Kept([kk EXCEPT !.tcb[t] = x], kk)
         /\ Kept([kk EXCEPT !.tcb[t].tstat = x], kk)
         /\ Kept([kk EXCEPT !.tcb[t].priority = x], kk)
         /\ Kept([kk EXCEPT !.tcb[t].actcnt = x], kk)
         /\ Kept([kk EXCEPT !.tcb[t].wupcnt = x], kk)
         /\ Kept([kk EXCEPT !.tcb[t].enatex = x], kk)
         /\ Kept([kk EXCEPT !.tcb[t].texptn = x], kk)
         /\ Kept([kk EXCEPT !.tcb[t].winfo = x], kk)
         /\ Kept([kk EXCEPT !.tcb[t].wobj = x], kk)
         /\ Kept([kk EXCEPT !.tcb[t].tmevt = x], kk)
  BY DEF Kept

(* Two calls in a row that keep the waiting tasks keep them together. *)
LEMMA KeptTransitive ==
  ASSUME NEW k0, NEW k1, NEW k2, Kept(k1, k0), Kept(k2, k1)
  PROVE  Kept(k2, k0)
  BY DEF Kept

(* The routines that are made of them. *)
LEMMA RoutinesKeep ==
  ASSUME NEW kk, "wait_queue" \in DOMAIN kk, NEW t, NEW stat, NEW tm, NEW w
  PROVE  /\ Kept(make_non_wait(kk, t), kk)
         /\ Kept(make_non_wait([kk EXCEPT !.tcb[t].winfo = w], t), kk)
         /\ Kept(wait_tmout_ok(kk, t), kk)
         /\ Kept(wait_complete(kk, t), kk)
         /\ Kept(make_wait_tmout(kk, t, stat, tm), kk)
         /\ Kept(restart(kk, t), kk)
         /\ Kept(make_dormant(kk, t), kk)
         /\ Kept(exit_task(kk, t), kk)
         /\ Kept(tmevtb_cancel(kk, t), kk)
<1>1. ASSUME NEW k1, "wait_queue" \in DOMAIN k1
      PROVE  Kept(make_non_wait(k1, t), k1)
  <2> DEFINE k2 == [k1 EXCEPT !.tcb[t].wobj = NULL]
  <2>1. Kept(k2, k1)
    BY <1>1, FieldKeeps
  <2>2. make_non_wait(k1, t) = IF SUSPENDED(k1, t) THEN [k2 EXCEPT !.tcb[t].tstat = TS_SUSPENDED]
                                                   ELSE make_runnable(k2, t)
    BY DEF make_non_wait
  <2> HIDE DEF k2
  <2>3. "wait_queue" \in DOMAIN k2
    BY <2>1 DEF Kept
  <2>4. Kept([k2 EXCEPT !.tcb[t].tstat = TS_SUSPENDED], k2) /\ Kept(make_runnable(k2, t), k2)
    BY <2>3, FieldKeeps, SchedulerKeeps
  <2> QED
    BY <2>1, <2>2, <2>4, KeptTransitive
<1>2. ASSUME NEW k1, "wait_queue" \in DOMAIN k1, NEW v
      PROVE  Kept(make_non_wait([k1 EXCEPT !.tcb[t].winfo = v], t), k1)
  <2> DEFINE k2 == [k1 EXCEPT !.tcb[t].winfo = v]
  <2>1. Kept(k2, k1)
    BY <1>2, FieldKeeps
  <2> HIDE DEF k2
  <2>2. Kept(make_non_wait(k2, t), k2)
    BY <1>1, <2>1 DEF Kept
  <2> QED
    BY <2>1, <2>2, KeptTransitive DEF k2
<1>3. Kept(tmevtb_cancel(kk, t), kk)
  BY FieldKeeps DEF tmevtb_cancel, Kept
<1>4. Kept(wait_complete(kk, t), kk)
  <2> DEFINE k1 == tmevtb_cancel(kk, t)
  <2> HIDE DEF k1
  <2>1. Kept(k1, kk)
    BY <1>3 DEF k1
  <2>2. Kept(make_non_wait([k1 EXCEPT !.tcb[t].winfo = "E_OK"], t), k1)
    BY <1>2, <2>1 DEF Kept
  <2>3. wait_complete(kk, t) = make_non_wait([k1 EXCEPT !.tcb[t].winfo = "E_OK"], t)
    BY DEF wait_complete, k1
  <2> QED
    BY <2>1, <2>2, <2>3, KeptTransitive
<1>5. Kept(make_wait_tmout(kk, t, stat, tm), kk)
  <2> DEFINE k0 == [kk EXCEPT !.tcb[t].tstat = stat]
             k1 == make_non_runnable(k0, t)
  <2>1. Kept(k0, kk)
    BY FieldKeeps
  <2>2. make_wait_tmout(kk, t, stat, tm) =
          [k1 EXCEPT !.tcb[t].winfo = IF tm = "none" THEN "NULL" ELSE "TMEVTB",
                     !.tcb[t].tmevt = tm]
    BY DEF make_wait_tmout
  <2> HIDE DEF k0
  <2>3. Kept(k1, k0)
    BY <2>1, SchedulerKeeps DEF Kept
  <2> HIDE DEF k1
  <2>4. Kept(make_wait_tmout(kk, t, stat, tm), k1)
    BY <2>2, <2>3 DEF Kept
  <2> QED
    BY <2>1, <2>3, <2>4, KeptTransitive
<1>6. ASSUME NEW k1, "wait_queue" \in DOMAIN k1
      PROVE  Kept(restart(k1, t), k1)
  <2> DEFINE k2 == [k1 EXCEPT !.tcb[t].actcnt = FALSE]
  <2>1. Kept(k2, k1)
    BY <1>6, FieldKeeps
  <2> HIDE DEF k2
  <2>2. Kept(make_runnable(k2, t), k2)
    BY <2>1, SchedulerKeeps DEF Kept
  <2>3. Kept(make_runnable(k2, t), k1) /\ Kept(k1, k1)
    BY <1>6, <2>1, <2>2 DEF Kept
  <2> QED
    BY <2>3 DEF restart, k2
<1>7. ASSUME NEW k1, "wait_queue" \in DOMAIN k1
      PROVE  Kept(make_dormant(k1, t), k1)
  BY <1>7 DEF make_dormant, Kept
<1>8. Kept(exit_task(kk, t), kk)
  <2> DEFINE k1 == make_non_runnable(kk, t)
             k2 == make_dormant(k1, t)
  <2>1. Kept(k1, kk)
    BY SchedulerKeeps
  <2> HIDE DEF k1
  <2>2. Kept(k2, k1)
    BY <1>7, <2>1 DEF Kept
  <2> HIDE DEF k2
  <2>3. Kept(restart(k2, t), k2)
    BY <1>6, <2>2 DEF Kept
  <2> QED
    BY <2>1, <2>2, <2>3, KeptTransitive DEF exit_task, k1, k2
<1>9. Kept(wait_tmout_ok(kk, t), kk)
  BY <1>2 DEF wait_tmout_ok
<1> QED
  BY <1>1, <1>2, <1>3, <1>4, <1>5, <1>6, <1>7, <1>8, <1>9

(* An empty queue stays empty when a task is taken out. *)
LEMMA DeleteEmpty ==
  ASSUME NEW t
  PROVE  queue_delete(<< >>, t) = << >>
<1>1. Holds(<< >>, {})
  BY DEF Holds, NoRepeat, Members
<1>2. Holds(queue_delete(<< >>, t), {} \ {t})
  BY <1>1, DeleteHolds
<1> DEFINE q == queue_delete(<< >>, t)
<1> HIDE DEF q
<1>3. q \in Seq(Task) /\ Members(q) = {}
  BY <1>2 DEF Holds, q
<1>4. q = << >>
  <2>1. Len(q) \in Nat /\ DOMAIN q = 1 .. Len(q)
    BY <1>3, LenProperties
  <2>2. \A i \in DOMAIN q : q[i] \in Members(q)
    BY DEF Members
  <2>3. 1 \notin 1 .. Len(q)
    BY <1>3, <2>1, <2>2
  <2>4. Len(q) = 0
    BY <2>1, <2>3
  <2> QED
    BY <1>3, <2>4, EmptySeq
<1> QED
  BY <1>4 DEF q

(* The two ends of a service call keep the queues. *)
LEMMA CallKeeps ==
  ASSUME NEW k1, "wait_queue" \in DOMAIN k1, NEW disp,
         TaskCall(k1, disp) \/ IntCall(k1, disp)
  PROVE  k'.wait_queue = k1.wait_queue
<1>1. Kept(dispatch_r(k1), k1)
  BY SchedulerKeeps
<1> QED
  BY <1>1 DEF TaskCall, IntCall, Kept
(* wobj_unlink puts nobody into a queue. *)
LEMMA UnlinkNoNew ==
  ASSUME NEW kk, "wait_queue" \in DOMAIN kk, DOMAIN kk.wait_queue = WObj, NEW t
  PROVE  "wait_queue" \in DOMAIN wobj_unlink(kk, t) /\ NoNew(wobj_unlink(kk, t), kk)
<1>1. CASE "WOBJ" \in kk.tcb[t].tstat
  <2> DEFINE o == kk.tcb[t].wobj
             d == queue_delete(kk.wait_queue[o], t)
             k1 == [kk EXCEPT !.wait_queue[o] = queue_delete(@, t)]
  <2>1. wobj_unlink(kk, t) = k1
    BY <1>1 DEF wobj_unlink
  <2>2. "wait_queue" \in DOMAIN k1 /\ k1.wait_queue = [kk.wait_queue EXCEPT ![o] = d]
    OBVIOUS
  <2>3. kk.wait_queue[o] = << >> => d = << >>
    BY DeleteEmpty
  <2> HIDE DEF d, k1
  <2> QED
    BY <2>1, <2>2, <2>3 DEF NoNew
<1>2. CASE "WOBJ" \notin kk.tcb[t].tstat
  BY <1>2 DEF wobj_unlink, NoNew
<1> QED
  BY <1>1, <1>2

(* Nor do the routines that end a wait from outside. *)
LEMMA CancelNoNew ==
  ASSUME NEW kk, "wait_queue" \in DOMAIN kk, DOMAIN kk.wait_queue = WObj, NEW t
  PROVE  /\ "wait_queue" \in DOMAIN wait_cancel(kk, t) /\ NoNew(wait_cancel(kk, t), kk)
         /\ "wait_queue" \in DOMAIN wait_release(kk, t) /\ NoNew(wait_release(kk, t), kk)
         /\ "wait_queue" \in DOMAIN wait_tmout(kk, t) /\ NoNew(wait_tmout(kk, t), kk)
<1>1. "wait_queue" \in DOMAIN wait_cancel(kk, t) /\ NoNew(wait_cancel(kk, t), kk)
  <2> DEFINE k1 == tmevtb_cancel(kk, t)
  <2>1. Kept(k1, kk)
    BY RoutinesKeep
  <2>2. wait_cancel(kk, t) = wobj_unlink(k1, t)
    BY DEF wait_cancel
  <2> HIDE DEF k1
  <2> QED
    BY <2>1, <2>2, UnlinkNoNew DEF Kept, NoNew
<1>2. ASSUME NEW k1, "wait_queue" \in DOMAIN k1, NoNew(k1, kk), NEW w
      PROVE  LET k2 == make_non_wait([k1 EXCEPT !.tcb[t].winfo = w], t)
             IN "wait_queue" \in DOMAIN k2 /\ NoNew(k2, kk)
  <2> DEFINE k2 == make_non_wait([k1 EXCEPT !.tcb[t].winfo = w], t)
  <2>1. Kept(k2, k1)
    BY <1>2, RoutinesKeep
  <2> HIDE DEF k2
  <2> QED
    BY <1>2, <2>1 DEF Kept, NoNew, k2
<1>3. "wait_queue" \in DOMAIN wait_release(kk, t) /\ NoNew(wait_release(kk, t), kk)
  BY <1>1, <1>2 DEF wait_release
<1>4. "wait_queue" \in DOMAIN wait_tmout(kk, t) /\ NoNew(wait_tmout(kk, t), kk)
  BY <1>2, UnlinkNoNew DEF wait_tmout
<1> QED
  BY <1>1, <1>3, <1>4

(* chg_pri of a waiting task requeues it in its queue, which it is in. *)
LEMMA RequeueNoNew ==
  ASSUME NEW kk, Consistent(kk), NEW t \in Task, NEW k1, Kept(k1, kk),
         "WOBJCB" \in kk.tcb[t].tstat
  PROVE  LET k2 == wobj_change_priority(k1, kk.tcb[t].wobj, t)
         IN "wait_queue" \in DOMAIN k2 /\ NoNew(k2, kk)
<1> DEFINE o == kk.tcb[t].wobj
           k2 == wobj_change_priority(k1, o, t)
           new == queue_insert_tpri(k1, queue_delete(k1.wait_queue[o], t), t)
<1>1. kk \in Tables /\ kk.tcb[t] \in TCB /\ TcbOK(kk.tcb[t])
  BY ConsistentGood DEF Consistent
<1>2. o \in WObj
  BY <1>1 DEF TcbOK, TCB
<1>3. kk.wait_queue[o] # << >>
  <2>1. Members(kk.wait_queue[o]) = {u \in Task : kk.tcb[u].wobj = o}
    BY <1>2 DEF Consistent, Linked, Holds
  <2>2. t \in Members(kk.wait_queue[o])
    BY <2>1
  <2>3. Members(<< >>) = {}
    BY DEF Members
  <2> QED
    BY <2>2, <2>3
<1>4. k2 = IF o \in TA_TPRI THEN [k1 EXCEPT !.wait_queue[o] = new] ELSE k1
  BY DEF wobj_change_priority
<1> HIDE DEF new
<1>5. "wait_queue" \in DOMAIN k1 /\ k1.wait_queue = kk.wait_queue /\ DOMAIN kk.wait_queue = WObj
  BY <1>1 DEF Kept, Tables
<1>6. "wait_queue" \in DOMAIN k2 /\ \A x \in WObj : x # o => k2.wait_queue[x] = kk.wait_queue[x]
  BY <1>4, <1>5
<1> HIDE DEF k2
<1>7. NoNew(k2, kk)
  BY <1>3, <1>6 DEF NoNew
<1> QED
  BY <1>6, <1>7 DEF k2

(* A service call that puts nobody into a queue. *)
LEMMA CallNoNew ==
  ASSUME NEW k1, "wait_queue" \in DOMAIN k1, NoNew(k1, k), NEW disp,
         TaskCall(k1, disp) \/ IntCall(k1, disp)
  PROVE  NoNew(k', k)
  BY CallKeeps DEF NoNew

(* The end of a service call (TaskCall, IntCall) keeps every wait its table change keeps. *)
LEMMA CallKept ==
  ASSUME NEW k1, Kept(k1, k), NEW disp, TaskCall(k1, disp) \/ IntCall(k1, disp)
  PROVE  NoNew(k', k)
  BY CallKeeps DEF NoNew, Kept

(* None of the kernel's own calls puts a task into the wait queue of an    *)
(* object.                                                                 *)
LEMMA TaskNextNoNew ==
  ASSUME TypeInv, TableInv, TaskNext
  PROVE  NoNew(k', k)
<1>0. /\ "wait_queue" \in DOMAIN k /\ DOMAIN k.wait_queue = WObj
      /\ Kept(k, k) /\ NoNew(k, k) /\ Consistent(k)
  BY DEF TypeInv, TypeOK, Tables, Kept, NoNew, TableInv
<1>1. ASSUME NEW k1, Kept(k1, k), k' = k1 PROVE NoNew(k', k)
  BY <1>1 DEF Kept, NoNew
<1>a. ASSUME NEW t \in Task, act_tsk(t) PROVE NoNew(k', k)
  BY <1>0, <1>a, SchedulerKeeps, FieldKeeps, CallKept DEF act_tsk
<1>b. ASSUME NEW t \in Task, can_act(t) PROVE NoNew(k', k)
  BY <1>0, <1>b, FieldKeeps, CallKept DEF can_act
<1>c. ASSUME ext_tsk PROVE NoNew(k', k)
  <2>1. Kept(exit_task(k, runtsk), k)
    BY <1>0, RoutinesKeep
  <2>2. Kept(dispatch_r(exit_task(k, runtsk)), exit_task(k, runtsk))
    BY <2>1, SchedulerKeeps DEF Kept
  <2>3. k' = dispatch_r(exit_task(k, runtsk))
    BY <1>c DEF ext_tsk
  <2> QED
    BY <1>1, <2>1, <2>2, <2>3, KeptTransitive
<1>d. ASSUME NEW t \in Task, ter_tsk(t) PROVE NoNew(k', k)
  <2> DEFINE k1 == IF RUNNABLE(k, t) THEN make_non_runnable(k, t)
                   ELSE IF WAITING(k, t) THEN wait_cancel(k, t) ELSE k
             k2 == make_dormant(k1, t)
             k3 == restart(k2, t)
             ret == Disp(restart_ret(k2, t))
  <2>1. "wait_queue" \in DOMAIN k1 /\ NoNew(k1, k)
    <3>1. "wait_queue" \in DOMAIN make_non_runnable(k, t) /\ NoNew(make_non_runnable(k, t), k)
      BY <1>0, SchedulerKeeps DEF Kept, NoNew
    <3> QED
      BY <1>0, <3>1, CancelNoNew
  <2>2. TaskCall(k3, ret)
    BY <1>d DEF ter_tsk
  <2> HIDE DEF k1
  <2>3. Kept(k2, k1)
    BY <2>1, RoutinesKeep
  <2> HIDE DEF k2
  <2>4. Kept(k3, k2)
    BY <2>3, RoutinesKeep DEF Kept
  <2> HIDE DEF k3, ret
  <2>5. "wait_queue" \in DOMAIN k3 /\ NoNew(k3, k)
    BY <2>1, <2>3, <2>4 DEF Kept, NoNew
  <2> QED
    BY <2>2, <2>5, CallNoNew
<1>e. ASSUME NEW t \in Task, NEW newpri \in Pri, chg_pri(t, newpri) PROVE NoNew(k', k)
  <2> DEFINE k1 == [k EXCEPT !.tcb[t].priority = newpri]
             k2 == IF "WOBJCB" \in k.tcb[t].tstat
                   THEN wobj_change_priority(k1, k.tcb[t].wobj, t) ELSE k1
  <2>1. Kept(k1, k)
    BY <1>0, FieldKeeps
  <2>2. \/ TaskCall(change_priority(k, t, newpri), Disp(change_priority_ret(k, t, newpri)))
        \/ TaskCall(k2, FALSE)
    BY <1>e DEF chg_pri
  <2> HIDE DEF k1
  <2>3. "wait_queue" \in DOMAIN k2 /\ NoNew(k2, k)
    BY <1>0, <2>1, RequeueNoNew DEF Kept, NoNew
  <2> HIDE DEF k2
  <2> QED
    BY <1>0, <2>2, <2>3, SchedulerKeeps, CallKept, CallNoNew
<1>f. ASSUME NEW tm \in {"none", "wait_tmout"}, slp_tsk(tm) PROVE NoNew(k', k)
  BY <1>0, <1>f, FieldKeeps, RoutinesKeep, CallKept DEF slp_tsk
<1>g. ASSUME NEW t \in Task, wup_tsk(t) PROVE NoNew(k', k)
  <2>1. \/ TaskCall(wait_complete(k, t), Disp(make_non_wait_ret(k, t)))
        \/ TaskCall([k EXCEPT !.tcb[t].wupcnt = TRUE], FALSE)
    BY <1>g DEF wup_tsk, wakeup
  <2> QED
    BY <1>0, <2>1, FieldKeeps, RoutinesKeep, CallKept
<1>h. ASSUME NEW t \in Task, can_wup(t) PROVE NoNew(k', k)
  BY <1>0, <1>h, FieldKeeps, CallKept DEF can_wup
<1>i. ASSUME NEW t \in Task, rel_wai(t) PROVE NoNew(k', k)
  BY <1>0, <1>i, CancelNoNew, CallNoNew DEF rel_wai
<1>j. ASSUME NEW t \in Task, sus_tsk(t) PROVE NoNew(k', k)
  <2> DEFINE k0 == [k EXCEPT !.tcb[t].tstat = TS_SUSPENDED]
             k1 == make_non_runnable(k0, t)
  <2>1. Kept(k0, k)
    BY <1>0, FieldKeeps
  <2>2. \/ TaskCall(k1, Disp(make_non_runnable_ret(k, t)))
        \/ TaskCall([k EXCEPT !.tcb[t].tstat = @ \cup TS_SUSPENDED], FALSE)
    BY <1>j DEF sus_tsk
  <2> HIDE DEF k0
  <2>3. Kept(k1, k)
    BY <2>1, SchedulerKeeps, KeptTransitive DEF Kept
  <2> HIDE DEF k1
  <2> QED
    BY <1>0, <2>2, <2>3, FieldKeeps, CallKept
<1>k. ASSUME NEW t \in Task, rsm_tsk(t) PROVE NoNew(k', k)
  BY <1>0, <1>k, SchedulerKeeps, FieldKeeps, CallKept DEF rsm_tsk
<1>l. ASSUME dly_tsk PROVE NoNew(k', k)
  BY <1>0, <1>l, RoutinesKeep, CallKept DEF dly_tsk
<1>m. ASSUME NEW pri \in Pri, rot_rdq(pri) PROVE NoNew(k', k)
  BY <1>0, <1>m, SchedulerKeeps, CallKept DEF rot_rdq
<1>n. ASSUME dis_dsp PROVE NoNew(k', k)
  BY <1>0, <1>n DEF dis_dsp, NoNew
<1>o. ASSUME ena_dsp PROVE NoNew(k', k)
  BY <1>0, <1>1, <1>o, SchedulerKeeps DEF ena_dsp
<1>p. ASSUME NEW t \in Task, ras_tex(t) PROVE NoNew(k', k)
  <2> DEFINE k1 == [k EXCEPT !.tcb[t].texptn = TRUE]
  <2>1. Kept(k1, k)
    BY <1>0, FieldKeeps
  <2>2. TaskCall(IF t = runtsk THEN calltex(k1, t) ELSE k1, FALSE)
    BY <1>p DEF ras_tex
  <2> HIDE DEF k1
  <2>3. Kept(calltex(k1, t), k)
    BY <2>1, SchedulerKeeps, KeptTransitive DEF Kept
  <2> QED
    BY <2>1, <2>2, <2>3, CallKept
<1>q. ASSUME dis_tex PROVE NoNew(k', k)
  BY <1>0, <1>q, FieldKeeps, CallKept DEF dis_tex
<1>r. ASSUME ena_tex PROVE NoNew(k', k)
  <2> DEFINE k1 == [k EXCEPT !.tcb[runtsk].enatex = TRUE]
  <2>1. Kept(k1, k)
    BY <1>0, FieldKeeps
  <2>2. TaskCall(calltex(k1, runtsk), FALSE)
    BY <1>r DEF ena_tex
  <2> HIDE DEF k1
  <2>3. Kept(calltex(k1, runtsk), k)
    BY <2>1, SchedulerKeeps, KeptTransitive DEF Kept
  <2> QED
    BY <2>2, <2>3, CallKept
<1>s. ASSUME texrtn_return PROVE NoNew(k', k)
  <2>1. Kept(take_texptn(k, runtsk), k)
    BY <1>0, SchedulerKeeps
  <2>2. Kept([k EXCEPT !.tcb[runtsk].enatex = TRUE, !.tcb[runtsk].texlevel = @ - 1], k)
    BY <1>0 DEF Kept
  <2> QED
    BY <1>1, <1>s, <2>1, <2>2 DEF texrtn_return
<1> QED
  BY <1>a, <1>b, <1>c, <1>d, <1>e, <1>f, <1>g, <1>h, <1>i, <1>j, <1>k, <1>l, <1>m,
     <1>n, <1>o, <1>p, <1>q, <1>r, <1>s DEF TaskNext

(* No service of an interrupt handler puts a task into an object's wait queue. *)
LEMMA IntNextNoNew ==
  ASSUME TypeInv, TableInv, IntNext
  PROVE  NoNew(k', k)
<1>0. /\ "wait_queue" \in DOMAIN k /\ DOMAIN k.wait_queue = WObj
      /\ Kept(k, k) /\ NoNew(k, k) /\ Consistent(k)
  BY DEF TypeInv, TypeOK, Tables, Kept, NoNew, TableInv
<1>1. ASSUME NEW k1, Kept(k1, k), k' = k1 PROVE NoNew(k', k)
  BY <1>1 DEF Kept, NoNew
<1>a. ASSUME interrupt_enter PROVE NoNew(k', k)
  BY <1>0, <1>a DEF interrupt_enter, NoNew
<1>b. ASSUME interrupt_return PROVE NoNew(k', k)
  BY <1>0, <1>1, <1>b, SchedulerKeeps DEF interrupt_return
<1>c. ASSUME wait_for_intr PROVE NoNew(k', k)
  BY <1>0, <1>1, <1>c, SchedulerKeeps DEF wait_for_intr
<1>d. ASSUME NEW pri \in Pri, irot_rdq(pri) PROVE NoNew(k', k)
  BY <1>0, <1>d, SchedulerKeeps, CallKept DEF irot_rdq
<1>e. ASSUME NEW t \in Task, iact_tsk(t) PROVE NoNew(k', k)
  BY <1>0, <1>e, SchedulerKeeps, FieldKeeps, CallKept DEF iact_tsk
<1>f. ASSUME NEW t \in Task, iwup_tsk(t) PROVE NoNew(k', k)
  <2>1. \/ IntCall(wait_complete(k, t), Disp(make_non_wait_ret(k, t)))
        \/ IntCall([k EXCEPT !.tcb[t].wupcnt = TRUE], FALSE)
    BY <1>f DEF iwup_tsk, wakeup
  <2> QED
    BY <1>0, <2>1, FieldKeeps, RoutinesKeep, CallKept
<1>g. ASSUME NEW t \in Task, irel_wai(t) PROVE NoNew(k', k)
  BY <1>0, <1>g, CancelNoNew, CallNoNew DEF irel_wai
<1>h. ASSUME NEW t \in Task, iras_tex(t) PROVE NoNew(k', k)
  BY <1>0, <1>h, FieldKeeps, CallKept DEF iras_tex
<1>i. ASSUME NEW t \in Task, timeout(t) PROVE NoNew(k', k)
  <2> DEFINE k1 == [k EXCEPT !.tcb[t].tmevt = "none"]
  <2>1. Kept(k1, k)
    BY <1>0, FieldKeeps
  <2>2. \/ IntCall(wait_tmout(k1, t), Disp(make_non_wait_ret(k, t)))
        \/ IntCall(wait_tmout_ok(k1, t), Disp(make_non_wait_ret(k, t)))
    BY <1>i DEF timeout
  <2> HIDE DEF k1
  <2>3. Kept(wait_tmout_ok(k1, t), k)
    BY <2>1, RoutinesKeep, KeptTransitive DEF Kept
  <2>4. "wait_queue" \in DOMAIN wait_tmout(k1, t) /\ NoNew(wait_tmout(k1, t), k)
    BY <1>0, <2>1, CancelNoNew DEF Kept, NoNew
  <2> QED
    BY <2>2, <2>3, <2>4, CallKept, CallNoNew
<1> QED
  BY <1>a, <1>b, <1>c, <1>d, <1>e, <1>f, <1>g, <1>h, <1>i DEF IntNext

(* No step of the kernel puts a task into an object's wait queue: only the objects' own services do. *)
LEMMA NextNoNew == TypeInv /\ TableInv /\ [Next]_kvars => NoNew(k', k)
<1> SUFFICES ASSUME TypeInv, TableInv, [Next]_kvars PROVE NoNew(k', k)
  OBVIOUS
<1>0. "wait_queue" \in DOMAIN k
  BY DEF TypeInv, TypeOK, Tables
<1>1. CASE task_initialize
  <2> DEFINE t == Head(todo)
             k0 == [k EXCEPT !.tcb[t].actcnt = FALSE]
             k1 == make_dormant(k0, t)
  <2>1. Kept(k0, k)
    BY <1>0, FieldKeeps
  <2>2. k' = IF t \in TA_ACT THEN make_runnable(k1, t) ELSE k1
    BY <1>1 DEF task_initialize
  <2> HIDE DEF k0, t
  <2>3. Kept(k1, k)
    BY <2>1, RoutinesKeep, KeptTransitive DEF Kept
  <2> HIDE DEF k1
  <2>4. Kept(make_runnable(k1, t), k)
    BY <2>3, SchedulerKeeps, KeptTransitive DEF Kept
  <2> QED
    BY <2>2, <2>3, <2>4 DEF Kept, NoNew
<1>2. CASE kernel_start
  BY <1>0, <1>2, SchedulerKeeps DEF kernel_start, Kept, NoNew
<1>3. CASE loc_cpu
  BY <1>3 DEF loc_cpu, NoNew
<1>4. CASE unl_cpu
  BY <1>4 DEF unl_cpu, NoNew
<1>5. CASE TaskNext
  BY <1>5, TaskNextNoNew
<1>6. CASE IntNext
  BY <1>6, IntNextNoNew
<1>7. CASE UNCHANGED kvars
  BY <1>7 DEF kvars, NoNew
<1> QED
  BY <1>1, <1>2, <1>3, <1>4, <1>5, <1>6, <1>7 DEF Next
(* Every step of the kernel's own keeps all of its invariants. *)
LEMMA KernelStep == KernelInvs /\ [Next]_kvars => KernelInvs'
  BY NextType, NextDisp, NextTables DEF KernelInvs

(* All invariants of the kernel hold at the start. *)
LEMMA KernelStart == Init => KernelInvs
  BY InitType, InitDisp, InitTablesInv DEF KernelInvs

(* The context of a call, as the proofs use it. *)
LEMMA CallContext ==
  ASSUME KernelInvs, TSKCTX \/ INTCTX
  PROVE  iniflg
<1>1. nest \in Nat /\ HoldInv
  BY DEF KernelInvs, TypeInv, TypeOK, DispInv
<1> QED
  BY <1>1 DEF TSKCTX, INTCTX, HoldInv

(* A call that leaves the kernel alone. *)
LEMMA CallNothing ==
  ASSUME KernelInvs, (TSKCTX /\ TaskCall(k, FALSE)) \/ (INTCTX /\ IntCall(k, FALSE))
  PROVE  KernelInvs' /\ k' = k
<1>1. iniflg
  BY CallContext
<1>2. /\ GoodTables(k) /\ k \in Tables /\ Consistent(k) /\ RunningInv
      /\ TypeInv /\ DispInv /\ TableInv
  BY DEF KernelInvs, TypeInv, TypeOK, TableInv
<1>3. TypeInv'
  BY <1>2, CallType
<1>4. DispInv'
  BY <1>2, TaskCallDisp, IntCallDisp
<1>5. TableInv'
  BY <1>1, <1>2, CallOK DEF RunningInv
<1> QED
  BY <1>3, <1>4, <1>5 DEF KernelInvs, TaskCall, IntCall

(* What the first task of a wait queue looks like when it is taken off. *)
LEMMA UnqueueOK ==
  ASSUME NEW kk, Consistent(kk), NEW o \in WObj, kk.wait_queue[o] # << >>
  PROVE  LET t == Head(kk.wait_queue[o])
             k1 == [kk EXCEPT !.wait_queue[o] = Tail(@)]
         IN /\ t \in Task /\ "WAITING" \in kk.tcb[t].tstat /\ kk.tcb[t].wobj = o
            /\ t \notin Runnable(kk) /\ Apart(k1, t, Runnable(kk)) /\ GoodTables(k1)
            /\ k1.tcb = kk.tcb /\ k1.schedtsk = kk.schedtsk
            /\ k1.wait_queue = [kk.wait_queue EXCEPT ![o] = Tail(@)]
<1> DEFINE q == kk.wait_queue[o]
           t == Head(q)
           k1 == [kk EXCEPT !.wait_queue[o] = Tail(q)]
           S == {u \in Task : kk.tcb[u].wobj = o}
           R == Runnable(kk)
<1>1. /\ kk \in Tables /\ GoodTables(kk) /\ Ready(kk, R) /\ Linked(kk, Task)
      /\ \A u \in Task : TcbOK(kk.tcb[u])
  BY ConsistentGood DEF Consistent
<1>2. Holds(q, S) /\ (o \in TA_TPRI => Sorted(PriOf(kk), q)) /\ q # << >>
  BY <1>1 DEF Linked
<1>3. t \in S
  <2> HIDE DEF q, S
  <2> QED
    BY <1>2, HoldsHead
<1>4. t \in Task /\ kk.tcb[t].wobj = o /\ o # NULL
  BY <1>3, WObjAssumption
<1>5. "WAITING" \in kk.tcb[t].tstat /\ t \notin R
  BY <1>1, <1>4, NoObject DEF Runnable, RUNNABLE
<1>6. Holds(Tail(q), S \ {t}) /\ (o \in TA_TPRI => Sorted(PriOf(kk), Tail(q)))
  <2> HIDE DEF q, S
  <2> QED
    BY <1>2, TailHolds DEF t
<1>7. /\ k1.tcb = kk.tcb /\ k1.schedtsk = kk.schedtsk
      /\ k1.ready_queue = kk.ready_queue /\ k1.ready_primap = kk.ready_primap
      /\ k1.wait_queue = [kk.wait_queue EXCEPT ![o] = Tail(q)]
      /\ \A x \in WObj : k1.wait_queue[x] = IF x = o THEN Tail(q) ELSE kk.wait_queue[x]
  BY <1>1 DEF Tables
<1>8. GoodTables(k1)
  BY <1>1, <1>6, WaitQueueUpdate DEF Holds
<1> HIDE DEF t, R
<1>9. Linked(k1, Task \ {t})
  <2>1. PriOf(k1) = PriOf(kk)
    BY <1>7 DEF PriOf
  <2> SUFFICES ASSUME NEW x \in WObj
               PROVE  /\ Holds(k1.wait_queue[x], {u \in Task \ {t} : k1.tcb[u].wobj = x})
                      /\ x \in TA_TPRI => Sorted(PriOf(k1), k1.wait_queue[x])
    BY DEF Linked
  <2>2. CASE x = o
    <3>1. {u \in Task \ {t} : k1.tcb[u].wobj = x} = S \ {t}
      BY <1>7, <2>2
    <3> QED
      BY <1>6, <1>7, <2>1, <2>2, <3>1
  <2>3. CASE x # o
    <3>1. {u \in Task \ {t} : k1.tcb[u].wobj = x} = {u \in Task : kk.tcb[u].wobj = x}
      BY <1>4, <1>7, <2>3
    <3>2. Holds(kk.wait_queue[x], {u \in Task : kk.tcb[u].wobj = x})
      BY <1>1 DEF Linked
    <3>3. x \in TA_TPRI => Sorted(PriOf(kk), kk.wait_queue[x])
      BY <1>1 DEF Linked
    <3> QED
      BY <1>7, <2>1, <2>3, <3>1, <3>2, <3>3
  <2> QED
    BY <2>2, <2>3
<1>10. k1 \in Tables
  BY <1>8 DEF GoodTables
<1> HIDE DEF k1
<1>11. Ready(k1, R)
  BY <1>1, <1>7, <1>10, ReadyFrame
<1>12. OthersOK(k1, t, R)
  BY <1>1, <1>7 DEF OthersOK, R, Runnable, RUNNABLE
<1>13. Apart(k1, t, R)
  BY <1>9, <1>11, <1>12 DEF Apart
<1> QED
  BY <1>4, <1>5, <1>7, <1>8, <1>13 DEF t, R, k1

(* An object hands something to the first task of its wait queue. *)
LEMMA WakeHead ==
  ASSUME KernelInvs, NEW o \in WObj, k.wait_queue[o] # << >>,
         LET t == Head(k.wait_queue[o])
             k1 == [k EXCEPT !.wait_queue[o] = Tail(@)]
             k2 == wait_complete(k1, t)
             disp == Disp(make_non_wait_ret(k, t))
         IN (TSKCTX /\ TaskCall(k2, disp)) \/ (INTCTX /\ IntCall(k2, disp))
  PROVE  KernelInvs' /\ k'.wait_queue = [k.wait_queue EXCEPT ![o] = Tail(@)]
<1> DEFINE t == Head(k.wait_queue[o])
           k1 == [k EXCEPT !.wait_queue[o] = Tail(@)]
           k2 == wait_complete(k1, t)
           ret == make_non_wait_ret(k, t)
<1>1. iniflg
  BY CallContext
<1>2. TypeInv /\ DispInv /\ TableInv /\ Consistent(k) /\ k \in Tables
  BY DEF KernelInvs, TypeInv, TypeOK, TableInv
<1>3. /\ t \in Task /\ "WAITING" \in k.tcb[t].tstat
      /\ t \notin Runnable(k) /\ Apart(k1, t, Runnable(k)) /\ GoodTables(k1)
      /\ k1.tcb = k.tcb /\ k1.schedtsk = k.schedtsk
      /\ k1.wait_queue = [k.wait_queue EXCEPT ![o] = Tail(@)]
  BY <1>2, UnqueueOK
<1>4. (TSKCTX /\ TaskCall(k2, Disp(ret))) \/ (INTCTX /\ IntCall(k2, Disp(ret)))
  OBVIOUS
<1>5. ret \in BOOLEAN
  BY RetBoolean
<1>6. "wait_queue" \in DOMAIN k1
  BY <1>3 DEF GoodTables, Tables
<1>7. Same(k1, k)
  BY <1>3 DEF Same
<1> HIDE DEF t, k1
<1>8. Consistent(k2) /\ Keep(k2, k1, t)
  BY <1>2, <1>3, WaitCompleteOK DEF Consistent
<1>9. GoodTables(k2) /\ k2 \in Tables
  BY <1>8, ConsistentGood
<1>10. k1 \in Tables
  BY <1>3 DEF GoodTables
<1>11. Kept(k2, k1)
  BY <1>6, RoutinesKeep
<1>12. make_non_wait_ret(k1, t) <=> ret
  BY <1>2, <1>3, <1>7, SameRet DEF make_non_wait_ret, SUSPENDED
<1>13. Reports(k2, k1, ret)
  BY <1>3, <1>12, EndWaitReports DEF Reports
<1> HIDE DEF ret, k2
<1>14. Reports(k2, k, ret)
  BY <1>2, <1>7, <1>13, ReportsSame
<1>15. Keep(k2, k, t)
  BY <1>3, <1>8 DEF Keep
<1>16. ~RUNNABLE(k, t)
  BY <1>3 DEF Runnable
<1>17. TypeInv'
  BY <1>2, <1>4, <1>9, CallType
<1>18. DispInv'
  BY <1>2, <1>4, <1>5, <1>9, <1>14, TaskReport, IntReport
<1>19. TableInv'
  BY <1>1, <1>2, <1>3, <1>4, <1>8, <1>15, <1>16, CallAbout
<1>20. k'.wait_queue = k2.wait_queue
  BY <1>4, <1>11, CallKeeps DEF Kept
<1> QED
  BY <1>3, <1>11, <1>17, <1>18, <1>19, <1>20 DEF KernelInvs, Kept

(* The running task waits for an object: q is its place in the queue. *)
LEMMA WaitOn ==
  ASSUME KernelInvs, CAN_WAIT, NEW o \in WObj, NEW tm \in {"none", "wait_tmout"},
         NEW stat, stat \in {{"WAITING", "WOBJ", "WOBJCB"}, {"WAITING", "WOBJ"}},
         o \in TA_TPRI => "WOBJCB" \in stat,
         NEW q,
         LET k1 == make_wait_tmout(k, runtsk, stat, tm)
             k2 == [k1 EXCEPT !.wait_queue[o] = q]
         IN /\ TaskCall([k2 EXCEPT !.tcb[runtsk].wobj = o], TRUE)
            /\ k1 \in Tables /\ k1.wait_queue = k.wait_queue
               => \A S : /\ Holds(k.wait_queue[o], S) /\ runtsk \notin S
                         /\ o \in TA_TPRI => Sorted(PriOf(k1), k.wait_queue[o])
                         => /\ Holds(q, S \cup {runtsk})
                            /\ o \in TA_TPRI => Sorted(PriOf(k1), q)
  PROVE  KernelInvs' /\ k'.wait_queue = [k.wait_queue EXCEPT ![o] = q]
<1> DEFINE t == runtsk
           k1 == make_wait_tmout(k, t, stat, tm)
           k2 == [k1 EXCEPT !.wait_queue[o] = q]
           k3 == [k2 EXCEPT !.tcb[t].wobj = o]
           R == Runnable(k) \ {t}
           S == {u \in Task \ {t} : k1.tcb[u].wobj = o}
<1>1. /\ TypeInv /\ DispInv /\ TableInv /\ Consistent(k) /\ k \in Tables
      /\ iniflg /\ enadsp /\ TSKCTX /\ t \in Task /\ RUNNABLE(k, t)
  BY DEF KernelInvs, TypeInv, TypeOK, TableInv, RunningInv, CAN_WAIT, TSKCTX_UNL, TSKCTX
<1>2. stat \in SUBSET TstatBits /\ tm \in TmEvt
  BY DEF TstatBits, TmEvt
<1>3. /\ Apart(k1, t, R) /\ Keep(k1, k, t)
      /\ k1.tcb[t].tstat = stat /\ k1.tcb[t].tmevt = tm
      /\ k1.tcb[t].winfo = IF tm = "none" THEN "NULL" ELSE "TMEVTB"
      /\ k1.wait_queue = k.wait_queue
  BY <1>1, <1>2, MakeWaitOK
<1>4. TaskCall(k3, TRUE)
  OBVIOUS
<1>6. k1 \in Tables /\ GoodTables(k1) /\ \A u \in Task : k1.tcb[u] \in TCB
  BY <1>3, ApartGood
<1>7. \A X : /\ Holds(k.wait_queue[o], X) /\ t \notin X
             /\ o \in TA_TPRI => Sorted(PriOf(k1), k.wait_queue[o])
             => Holds(q, X \cup {t}) /\ (o \in TA_TPRI => Sorted(PriOf(k1), q))
  BY <1>3, <1>6
<1> HIDE DEF k1, t, R
<1>8. Ready(k1, R) /\ OthersOK(k1, t, R) /\ Linked(k1, Task \ {t})
  BY <1>3 DEF Apart
<1>9. /\ Holds(k1.wait_queue[o], S) /\ t \notin S
      /\ o \in TA_TPRI => Sorted(PriOf(k1), k1.wait_queue[o])
  BY <1>8 DEF Linked
<1>10. /\ Holds(q, S \cup {t}) /\ q \in Seq(Task)
       /\ o \in TA_TPRI => Sorted(PriOf(k1), q)
  <2> HIDE DEF S
  <2> QED
    BY <1>3, <1>7, <1>9 DEF Holds
<1>12. GoodTables(k2)
  BY <1>6, <1>10, WaitQueueUpdate
<1>13. k2 \in Tables
  BY <1>12 DEF GoodTables
<1>14. /\ k2.tcb = k1.tcb /\ k2.schedtsk = k1.schedtsk
       /\ k2.ready_queue = k1.ready_queue /\ k2.ready_primap = k1.ready_primap
       /\ k2.wait_queue = [k1.wait_queue EXCEPT ![o] = q]
       /\ \A x \in WObj : k2.wait_queue[x] = IF x = o THEN q ELSE k1.wait_queue[x]
  BY <1>6 DEF Tables
<1> HIDE DEF k2
<1>15. GoodTables(k3)
  BY <1>1, <1>12, FieldUpdate
<1>16. k3 \in Tables
  BY <1>15 DEF GoodTables
<1>17. Only(k3, k2, t) /\ k3.tcb[t] = [k2.tcb[t] EXCEPT !.wobj = o]
  BY <1>1, <1>13, FieldOnly
<1> HIDE DEF k3
<1>18. /\ k3.tcb[t].tstat = stat /\ k3.tcb[t].tmevt = tm /\ k3.tcb[t].wobj = o
       /\ k3.tcb[t].winfo = IF tm = "none" THEN "NULL" ELSE "TMEVTB"
       /\ k3.tcb[t].priority = k1.tcb[t].priority
  <2>1. k1.tcb[t] \in TCB
    BY <1>1, <1>6
  <2> QED
    BY <1>3, <1>14, <1>17, <2>1 DEF TCB
<1>19. \A u \in Task \ {t} : k3.tcb[u] = k1.tcb[u]
  BY <1>14, <1>17 DEF Only, Keep
<1>20. TcbOK(k3.tcb[t])
  <2>1. o # NULL
    BY WObjAssumption
  <2>2. "RUNNABLE" \notin stat /\ "SLEEP" \notin stat /\ "WAITING" \in stat /\ "WOBJ" \in stat
    OBVIOUS
  <2>3. ~({"SLEEP", "WOBJ"} \subseteq stat)
    BY <2>2
  <2>4. tm # "none" <=> k3.tcb[t].winfo = "TMEVTB"
    BY <1>18
  <2>5. tm # "wait_tmout_ok"
    OBVIOUS
  <2> QED
    BY <1>18, <2>1, <2>2, <2>3, <2>4, <2>5 DEF TcbOK
<1>21. \A u \in Task : TcbOK(k3.tcb[u]) /\ (u \in R <=> RUNNABLE(k3, u))
  BY <1>8, <1>18, <1>19, <1>20 DEF OthersOK, RUNNABLE, R
<1>22. \A u \in Task : k3.tcb[u].priority = k1.tcb[u].priority
  BY <1>18, <1>19
<1>23. R \subseteq Task
  BY DEF R, Runnable
<1>24. Ready(k3, R) /\ Runnable(k3) = R
  <2>1. Ready(k3, R)
    BY <1>8, <1>14, <1>16, <1>17, <1>22, <1>23, ReadyFrame DEF Only
  <2> QED
    BY <1>21, <1>23, <2>1 DEF Runnable
<1>25. Linked(k3, Task)
  <2>1. PriOf(k3) = PriOf(k1)
    BY <1>22 DEF PriOf
  <2>2. \A x \in WObj : k3.wait_queue[x] = IF x = o THEN q ELSE k1.wait_queue[x]
    BY <1>14, <1>17 DEF Only
  <2> SUFFICES ASSUME NEW x \in WObj
               PROVE  /\ Holds(k3.wait_queue[x], {u \in Task : k3.tcb[u].wobj = x})
                      /\ x \in TA_TPRI => Sorted(PriOf(k3), k3.wait_queue[x])
    BY DEF Linked
  <2>3. CASE x = o
    <3>1. {u \in Task : k3.tcb[u].wobj = x} = S \cup {t}
      BY <1>1, <1>18, <1>19, <2>3
    <3> QED
      BY <1>10, <2>1, <2>2, <2>3, <3>1
  <2>4. CASE x # o
    <3>1. {u \in Task : k3.tcb[u].wobj = x} = {u \in Task \ {t} : k1.tcb[u].wobj = x}
      BY <1>18, <1>19, <2>4
    <3>2. /\ Holds(k1.wait_queue[x], {u \in Task \ {t} : k1.tcb[u].wobj = x})
          /\ x \in TA_TPRI => Sorted(PriOf(k1), k1.wait_queue[x])
      BY <1>8 DEF Linked
    <3> QED
      BY <2>1, <2>2, <2>4, <3>1, <3>2
  <2> QED
    BY <2>3, <2>4
<1>26. Consistent(k3)
  BY <1>21, <1>24, <1>25 DEF Consistent
<1>27. TypeInv'
  BY <1>1, <1>4, <1>15, CallType
<1>28. DispInv'
  BY <1>1, <1>4, <1>16, TaskCallDisp
<1>29. TableInv'
  BY <1>1, <1>4, <1>26, CallOK
<1>30. k'.wait_queue = k3.wait_queue
  <2>1. "wait_queue" \in DOMAIN k3
    BY <1>16 DEF Tables
  <2> QED
    BY <1>4, <2>1, CallKeeps
<1> QED
  BY <1>3, <1>14, <1>17, <1>27, <1>28, <1>29, <1>30 DEF KernelInvs, Only
(* wobj_make_wait_tmout by the running task. *)
LEMMA WaitOnObject ==
  ASSUME KernelInvs, CAN_WAIT, NEW o \in WObj, NEW tm \in {"none", "wait_tmout"},
         TaskCall(wobj_make_wait_tmout(k, runtsk, o, tm), TRUE)
  PROVE  /\ KernelInvs'
         /\ \E q : /\ k'.wait_queue = [k.wait_queue EXCEPT ![o] = q]
                   /\ o \notin TA_TPRI => q = Append(k.wait_queue[o], runtsk)
<1> DEFINE k1 == make_wait_tmout(k, runtsk, TS_ON_WOBJCB, tm)
           q == IF o \in TA_TPRI THEN queue_insert_tpri(k1, k1.wait_queue[o], runtsk)
                                 ELSE queue_insert_prev(k1.wait_queue[o], runtsk)
           k2 == [k1 EXCEPT !.wait_queue[o] = q]
<1>1. runtsk \in Task
  BY DEF KernelInvs, TypeInv, TypeOK, CAN_WAIT, TSKCTX_UNL, TSKCTX
<1>2. wobj_make_wait_tmout(k, runtsk, o, tm) = [k2 EXCEPT !.tcb[runtsk].wobj = o]
  BY DEF wobj_make_wait_tmout, wobj_queue_insert
<1>3. "wait_queue" \in DOMAIN k
  BY DEF KernelInvs, TypeInv, TypeOK, Tables
<1>4. k1.wait_queue = k.wait_queue
  <2>1. Kept(make_wait_tmout(k, runtsk, TS_ON_WOBJCB, tm), k)
    BY <1>3, RoutinesKeep
  <2> QED
    BY <2>1 DEF Kept
<1> HIDE DEF k1
<1>5. ASSUME k1 \in Tables, NEW S, Holds(k.wait_queue[o], S), runtsk \notin S,
             o \in TA_TPRI => Sorted(PriOf(k1), k.wait_queue[o])
      PROVE  /\ Holds(q, S \cup {runtsk})
             /\ o \in TA_TPRI => Sorted(PriOf(k1), q)
  <2>1. CASE o \notin TA_TPRI
    BY <1>1, <1>4, <1>5, <2>1, AppendHolds DEF queue_insert_prev
  <2>2. CASE o \in TA_TPRI
    <3> DEFINE pr == PriOf(k1)
    <3>1. \A u \in Task : pr[u] = k1.tcb[u].priority
      BY DEF PriOf
    <3>2. Sorted(pr, k.wait_queue[o])
      BY <1>5, <2>2
    <3>3. q = queue_insert_tpri(k1, k.wait_queue[o], runtsk)
      BY <1>4, <2>2
    <3> HIDE DEF pr, q
    <3>4. Holds(q, S \cup {runtsk}) /\ Sorted(pr, q)
      BY <1>1, <1>5, <3>1, <3>2, <3>3, TpriHolds
    <3> QED
      BY <3>4 DEF pr
  <2> QED
    BY <2>1, <2>2
<1>6. /\ TS_ON_WOBJCB \in {{"WAITING", "WOBJ", "WOBJCB"}, {"WAITING", "WOBJ"}}
      /\ "WOBJCB" \in TS_ON_WOBJCB
  BY DEF TS_ON_WOBJCB
<1>7. o \notin TA_TPRI => q = Append(k.wait_queue[o], runtsk)
  BY <1>4 DEF queue_insert_prev
<1> HIDE DEF q
<1>8. TaskCall([k2 EXCEPT !.tcb[runtsk].wobj = o], TRUE)
  BY <1>2
<1>9. KernelInvs' /\ k'.wait_queue = [k.wait_queue EXCEPT ![o] = q]
  BY <1>5, <1>6, <1>8, WaitOn DEF k1
<1> QED
  BY <1>7, <1>9

-----------------------------------------------------------------------------
(* Part 2: the waits that a step ends, and how the task can tell. *)

(* The wait of u, and what wakes it, are as they were. *)
SameWait(k1, kk, u) ==
  /\ WAITING(k1, u) <=> WAITING(kk, u)
  /\ k1.tcb[u].wobj = kk.tcb[u].wobj
  /\ k1.tcb[u].winfo = kk.tcb[u].winfo

Others(k1, kk, t) == \A u \in Task \ {t} : SameWait(k1, kk, u)

(* The wait queues without t; those in order of priority may be reordered. *)
Without(k1, kk, t) ==
  \A o \in WObj \ TA_TPRI :
    k1.wait_queue[o] = IF kk.tcb[t].wobj = o THEN queue_delete(kk.wait_queue[o], t)
                                             ELSE kk.wait_queue[o]

(* No wait begins or ends. *)
Calm(k1, kk) ==
  /\ \A u \in Task : SameWait(k1, kk, u)
  /\ \A o \in WObj \ TA_TPRI : k1.wait_queue[o] = kk.wait_queue[o]

(* The wait of t ends, and not by the object it waits for. *)
Ends(k1, kk, t) ==
  /\ Others(k1, kk, t) /\ Without(k1, kk, t)
  /\ WAITING(kk, t) /\ ~WAITING(k1, t) /\ k1.tcb[t].wobj = NULL
  /\ kk.tcb[t].wobj # NULL => k1.tcb[t].winfo \in {"E_TMOUT", "E_RLWAI"}

(* t ends, perhaps to start anew. *)
Goes(k1, kk, t) ==
  /\ Others(k1, kk, t) /\ Without(k1, kk, t)
  /\ ~WAITING(k1, t) /\ k1.tcb[t].wobj = NULL /\ k1.tcb[t].winfo = "NULL"

(* t, which is in no wait queue, waits for no object. *)
Sleeps(k1, kk, t) ==
  /\ Others(k1, kk, t)
  /\ kk.tcb[t].wobj = NULL /\ k1.tcb[t].wobj = NULL
  /\ \A o \in WObj \ TA_TPRI : k1.wait_queue[o] = kk.wait_queue[o]

(* Calm steps in a row, and a calm step after another one. *)
LEMMA CalmAfter ==
  ASSUME NEW kk, NEW k1, NEW k2, Calm(k2, k1), NEW t \in Task
  PROVE  /\ Calm(k1, kk) => Calm(k2, kk)
         /\ Others(k1, kk, t) => Others(k2, kk, t)
         /\ Without(k1, kk, t) => Without(k2, kk, t)
         /\ Ends(k1, kk, t) => Ends(k2, kk, t)
         /\ Goes(k1, kk, t) => Goes(k2, kk, t)
         /\ Sleeps(k1, kk, t) => Sleeps(k2, kk, t)
<1>1. Calm(k1, kk) => Calm(k2, kk)
  BY DEF Calm, SameWait
<1>2. Others(k1, kk, t) => Others(k2, kk, t)
  BY DEF Calm, Others, SameWait
<1>3. Without(k1, kk, t) => Without(k2, kk, t)
  BY DEF Calm, Without
<1>4. SameWait(k2, k1, t) /\ \A o \in WObj \ TA_TPRI : k2.wait_queue[o] = k1.wait_queue[o]
  BY DEF Calm
<1> QED
  BY <1>1, <1>2, <1>3, <1>4 DEF Ends, Goes, Sleeps, SameWait

(* Assignments to fields of a TCB. *)
LEMMA FieldWaits ==
  ASSUME NEW kk \in Tables, NEW t \in Task, NEW x
  PROVE  /\ Calm(kk, kk)
         /\ Calm([kk EXCEPT !.tcb[t].priority = x], kk)
         /\ Calm([kk EXCEPT !.tcb[t].actcnt = x], kk)
         /\ Calm([kk EXCEPT !.tcb[t].wupcnt = x], kk)
         /\ Calm([kk EXCEPT !.tcb[t].enatex = x], kk)
         /\ Calm([kk EXCEPT !.tcb[t].texptn = x], kk)
         /\ Calm([kk EXCEPT !.tcb[t].texlevel = x], kk)
         /\ Calm([kk EXCEPT !.tcb[t].tmevt = x], kk)
         /\ (("WAITING" \in x) <=> WAITING(kk, t)) => Calm([kk EXCEPT !.tcb[t].tstat = x], kk)
<1>1. kk.tcb \in [Task -> TCB] /\ kk.tcb[t] \in TCB
  BY DEF Tables
<1>2. Calm(kk, kk)
  BY DEF Calm, SameWait
<1>3. ASSUME NEW r, r.wobj = kk.tcb[t].wobj, r.winfo = kk.tcb[t].winfo,
             ("WAITING" \in r.tstat) <=> WAITING(kk, t)
      PROVE  Calm([kk EXCEPT !.tcb[t] = r], kk)
  BY <1>3 DEF Calm, SameWait, WAITING, Tables
<1>4. /\ Calm([kk EXCEPT !.tcb[t].priority = x], kk)
      /\ Calm([kk EXCEPT !.tcb[t].actcnt = x], kk)
      /\ Calm([kk EXCEPT !.tcb[t].wupcnt = x], kk)
      /\ Calm([kk EXCEPT !.tcb[t].enatex = x], kk)
      /\ Calm([kk EXCEPT !.tcb[t].texptn = x], kk)
  BY <1>1, <1>3 DEF TCB, WAITING
<1>5. /\ Calm([kk EXCEPT !.tcb[t].texlevel = x], kk)
      /\ Calm([kk EXCEPT !.tcb[t].tmevt = x], kk)
      /\ (("WAITING" \in x) <=> WAITING(kk, t)) => Calm([kk EXCEPT !.tcb[t].tstat = x], kk)
  BY <1>1, <1>3 DEF TCB, WAITING
<1> QED
  BY <1>2, <1>4, <1>5

(* The routines that move tasks between the ready queues, and those that   *)
(* start exception routines.                                               *)
LEMMA SchedulerWaits ==
  ASSUME NEW kk, GoodTables(kk), NEW t \in Task
  PROVE  /\ Calm(make_non_runnable(kk, t), kk)
         /\ \A p \in Pri : Calm(change_priority(kk, t, p), kk)
         /\ \A p \in Pri : Calm(rotate_ready_queue(kk, p), kk)
         /\ ~WAITING(kk, t) => Calm(make_runnable(kk, t), kk)
         /\ Calm(take_texptn(kk, t), kk)
         /\ Calm(calltex(kk, t), kk)
         /\ Calm(dispatch_r(kk), kk)
<1>1. kk \in Tables /\ kk.tcb[t] \in TCB
  BY DEF GoodTables, Tables
<1>2. ASSUME NEW k1, k1.tcb = kk.tcb, k1.wait_queue = kk.wait_queue PROVE Calm(k1, kk)
  BY <1>2 DEF Calm, SameWait, WAITING
<1>3. Calm(make_non_runnable(kk, t), kk)
  <2>1. make_non_runnable(kk, t).tcb = kk.tcb /\ make_non_runnable(kk, t).wait_queue = kk.wait_queue
    BY <1>1 DEF make_non_runnable, leave_queue, Tables
  <2> QED
    BY <1>2, <2>1
<1>4. ASSUME NEW p \in Pri PROVE Calm(change_priority(kk, t, p), kk)
  <2> DEFINE k0 == [kk EXCEPT !.tcb[t].priority = p]
             k1 == change_priority(kk, t, p)
  <2>1. k1.tcb = k0.tcb /\ k1.wait_queue = k0.wait_queue
    BY <1>1 DEF change_priority, requeue, leave_queue, Tables
  <2>2. Calm(k0, kk)
    BY <1>1, FieldWaits
  <2> HIDE DEF k0, k1
  <2>3. Calm(k1, k0)
    BY <2>1 DEF Calm, SameWait, WAITING
  <2> QED
    BY <2>2, <2>3, CalmAfter DEF k1
<1>5. ASSUME NEW p \in Pri PROVE Calm(rotate_ready_queue(kk, p), kk)
  <2>1. rotate_ready_queue(kk, p).tcb = kk.tcb /\ rotate_ready_queue(kk, p).wait_queue = kk.wait_queue
    BY <1>1 DEF rotate_ready_queue, Tables
  <2> QED
    BY <1>2, <2>1
<1>6. ASSUME ~WAITING(kk, t) PROVE Calm(make_runnable(kk, t), kk)
  <2> DEFINE k0 == [kk EXCEPT !.tcb[t].tstat = TS_RUNNABLE]
             k1 == make_runnable(kk, t)
  <2>1. k1.tcb = k0.tcb /\ k1.wait_queue = k0.wait_queue
    BY <1>1 DEF make_runnable, Tables
  <2>2. "WAITING" \notin TS_RUNNABLE
    BY DEF TS_RUNNABLE
  <2>3. Calm(k0, kk)
    BY <1>1, <1>6, <2>2, FieldWaits
  <2> HIDE DEF k0, k1
  <2>4. Calm(k1, k0)
    BY <2>1 DEF Calm, SameWait, WAITING
  <2> QED
    BY <2>3, <2>4, CalmAfter DEF k1
<1>7. ASSUME NEW u \in Task PROVE Calm(take_texptn(kk, u), kk)
  <2> DEFINE k0 == [kk EXCEPT !.tcb[u].enatex = FALSE]
             k1 == [k0 EXCEPT !.tcb[u].texptn = FALSE]
  <2>1. GoodTables(k0) /\ Calm(k0, kk)
    BY <1>1, FieldUpdate, FieldWaits
  <2>2. take_texptn(kk, u) = k1
    BY DEF take_texptn
  <2> HIDE DEF k0
  <2>3. Calm(k1, k0)
    BY <2>1, FieldWaits DEF GoodTables
  <2> HIDE DEF k1
  <2> QED
    BY <2>1, <2>2, <2>3, CalmAfter
<1>8. ASSUME NEW u \in Task PROVE Calm(calltex(kk, u), kk)
  <2> DEFINE k0 == take_texptn(kk, u)
             x == k0.tcb[u].texlevel + 1
             k1 == [k0 EXCEPT !.tcb[u].texlevel = x]
  <2>1. GoodTables(k0) /\ Calm(k0, kk)
    BY <1>7, TexType
  <2>2. call_texrtn(kk, u) = k1
    BY DEF call_texrtn
  <2> HIDE DEF k0, x
  <2>3. Calm(k1, k0)
    BY <2>1, FieldWaits DEF GoodTables
  <2> HIDE DEF k1
  <2>4. Calm(k1, kk) /\ Calm(kk, kk)
    BY <1>1, <2>1, <2>3, CalmAfter, FieldWaits
  <2> QED
    BY <2>2, <2>4 DEF calltex
<1>9. Calm(dispatch_r(kk), kk)
  <2>1. kk.schedtsk \in Task \cup {NULL} /\ Calm(kk, kk)
    BY <1>1, FieldWaits DEF Tables
  <2> QED
    BY <1>8, <2>1 DEF dispatch_r
<1> QED
  BY <1>3, <1>4, <1>5, <1>6, <1>7, <1>8, <1>9

(* make_non_wait, with the error code that is stored before it. *)
LEMMA NonWaitEnds ==
  ASSUME NEW kk, GoodTables(kk), NEW t \in Task, NEW w \in WInfo
  PROVE  LET k1 == make_non_wait([kk EXCEPT !.tcb[t].winfo = w], t)
         IN /\ Others(k1, kk, t) /\ k1.wait_queue = kk.wait_queue
            /\ ~WAITING(k1, t) /\ k1.tcb[t].wobj = NULL /\ k1.tcb[t].winfo = w
<1> DEFINE k0 == [kk EXCEPT !.tcb[t].winfo = w]
           k2 == [k0 EXCEPT !.tcb[t].wobj = NULL]
           k1 == make_non_wait(k0, t)
<1>1. kk \in Tables /\ GoodTables(k0) /\ GoodTables(k2)
  <2>1. kk \in Tables /\ GoodTables(k0)
    BY FieldUpdate DEF GoodTables
  <2> HIDE DEF k0
  <2>2. GoodTables(k2)
    BY <2>1, FieldUpdate
  <2> QED
    BY <2>1, <2>2
<1>2. /\ k2.tcb = [kk.tcb EXCEPT ![t] = [kk.tcb[t] EXCEPT !.winfo = w, !.wobj = NULL]]
      /\ k2.wait_queue = kk.wait_queue
  BY <1>1 DEF Tables, TCB
<1>3. k1 = IF SUSPENDED(k0, t) THEN [k2 EXCEPT !.tcb[t].tstat = TS_SUSPENDED]
                               ELSE make_runnable(k2, t)
  BY DEF make_non_wait
<1> HIDE DEF k0, k1, k2
<1>4. ASSUME NEW s \in {TS_SUSPENDED, TS_RUNNABLE}, NEW k3,
             k3.tcb = [k2.tcb EXCEPT ![t].tstat = s], k3.wait_queue = k2.wait_queue
      PROVE  /\ Others(k3, kk, t) /\ k3.wait_queue = kk.wait_queue
             /\ ~WAITING(k3, t) /\ k3.tcb[t].wobj = NULL /\ k3.tcb[t].winfo = w
  <2>1. kk.tcb \in [Task -> TCB] /\ kk.tcb[t] \in TCB
    BY <1>1 DEF Tables
  <2>2. /\ k3.tcb[t] = [[kk.tcb[t] EXCEPT !.winfo = w, !.wobj = NULL] EXCEPT !.tstat = s]
        /\ \A u \in Task \ {t} : k3.tcb[u] = kk.tcb[u]
    BY <1>2, <1>4, <2>1
  <2>3. k3.tcb[t].tstat = s /\ k3.tcb[t].wobj = NULL /\ k3.tcb[t].winfo = w
    BY <2>1, <2>2 DEF TCB
  <2> QED
    BY <1>2, <1>4, <2>2, <2>3 DEF Others, SameWait, WAITING, TS_SUSPENDED, TS_RUNNABLE
<1>5. CASE SUSPENDED(k0, t)
  <2> DEFINE k3 == [k2 EXCEPT !.tcb[t].tstat = TS_SUSPENDED]
  <2>1. k3.tcb = [k2.tcb EXCEPT ![t].tstat = TS_SUSPENDED] /\ k3.wait_queue = k2.wait_queue
    BY <1>1 DEF GoodTables, Tables
  <2>2. k1 = k3
    BY <1>3, <1>5
  <2> QED
    BY <1>4, <2>1, <2>2 DEF k0, k1
<1>6. CASE ~SUSPENDED(k0, t)
  <2> DEFINE k3 == make_runnable(k2, t)
  <2>1. k3.tcb = [k2.tcb EXCEPT ![t].tstat = TS_RUNNABLE] /\ k3.wait_queue = k2.wait_queue
    BY <1>1 DEF GoodTables, Tables, make_runnable
  <2>2. k1 = k3
    BY <1>3, <1>6
  <2> HIDE DEF k3
  <2> QED
    BY <1>4, <2>1, <2>2 DEF k0, k1
<1> QED
  BY <1>5, <1>6

(* The routines of wait.c and task.c that end waits or begin them. *)
LEMMA RoutineWaits ==
  ASSUME NEW kk, GoodTables(kk), NEW t \in Task
  PROVE  /\ LET k1 == wait_complete(kk, t)
            IN /\ Others(k1, kk, t) /\ k1.wait_queue = kk.wait_queue
               /\ ~WAITING(k1, t) /\ k1.tcb[t].wobj = NULL /\ k1.tcb[t].winfo = "E_OK"
         /\ LET k1 == wait_tmout_ok(kk, t)
            IN /\ Others(k1, kk, t) /\ k1.wait_queue = kk.wait_queue
               /\ ~WAITING(k1, t) /\ k1.tcb[t].wobj = NULL /\ k1.tcb[t].winfo = "E_OK"
         /\ LET k1 == wait_tmout(kk, t)
            IN /\ Others(k1, kk, t) /\ k1.wait_queue = wobj_unlink(kk, t).wait_queue
               /\ ~WAITING(k1, t) /\ k1.tcb[t].wobj = NULL /\ k1.tcb[t].winfo = "E_TMOUT"
         /\ LET k1 == wait_release(kk, t)
            IN /\ Others(k1, kk, t) /\ k1.wait_queue = wobj_unlink(kk, t).wait_queue
               /\ ~WAITING(k1, t) /\ k1.tcb[t].wobj = NULL /\ k1.tcb[t].winfo = "E_RLWAI"
         /\ LET k1 == make_dormant(kk, t)
            IN /\ Others(k1, kk, t) /\ k1.wait_queue = kk.wait_queue
               /\ ~WAITING(k1, t) /\ k1.tcb[t].wobj = NULL /\ k1.tcb[t].winfo = "NULL"
         /\ Others(wait_cancel(kk, t), kk, t)
         /\ wait_cancel(kk, t).wait_queue = wobj_unlink(kk, t).wait_queue
<1>1. kk \in Tables /\ {"E_OK", "E_TMOUT", "E_RLWAI"} \subseteq WInfo
  BY DEF GoodTables, WInfo
<1> DEFINE k0 == tmevtb_cancel(kk, t)
<1>2. /\ GoodTables(k0) /\ Others(k0, kk, t) /\ k0.wait_queue = kk.wait_queue
      /\ k0.tcb[t].tstat = kk.tcb[t].tstat /\ k0.tcb[t].wobj = kk.tcb[t].wobj
  <2>1. GoodTables(k0)
    BY CancelType
  <2>2. Calm([kk EXCEPT !.tcb[t].tmevt = "none"], kk) /\ Calm(kk, kk)
    BY <1>1, FieldWaits
  <2>3. Calm(k0, kk)
    BY <2>2 DEF tmevtb_cancel
  <2>4. k0.wait_queue = kk.wait_queue
    BY <1>1 DEF tmevtb_cancel
  <2>5. k0.tcb[t].tstat = kk.tcb[t].tstat /\ k0.tcb[t].wobj = kk.tcb[t].wobj
    BY <1>1 DEF tmevtb_cancel, Tables, TCB
  <2> QED
    BY <2>1, <2>3, <2>4, <2>5 DEF Calm, Others
<1>3. ASSUME NEW k1, GoodTables(k1), Others(k1, kk, t), NEW w \in {"E_OK", "E_TMOUT", "E_RLWAI"}
      PROVE  LET k2 == make_non_wait([k1 EXCEPT !.tcb[t].winfo = w], t)
             IN /\ Others(k2, kk, t) /\ k2.wait_queue = k1.wait_queue
                /\ ~WAITING(k2, t) /\ k2.tcb[t].wobj = NULL /\ k2.tcb[t].winfo = w
  <2> DEFINE k2 == make_non_wait([k1 EXCEPT !.tcb[t].winfo = w], t)
  <2>1. /\ Others(k2, k1, t) /\ k2.wait_queue = k1.wait_queue
        /\ ~WAITING(k2, t) /\ k2.tcb[t].wobj = NULL /\ k2.tcb[t].winfo = w
    BY <1>1, <1>3, NonWaitEnds
  <2> HIDE DEF k2
  <2>2. Others(k2, kk, t)
    BY <1>3, <2>1 DEF Others, SameWait
  <2> QED
    BY <2>1, <2>2 DEF k2
<1>4. \A k1 \in Tables : /\ wobj_unlink(k1, t).tcb = k1.tcb
                         /\ "WOBJ" \in k1.tcb[t].tstat =>
                              wobj_unlink(k1, t).wait_queue
                                = [k1.wait_queue EXCEPT ![k1.tcb[t].wobj] = queue_delete(@, t)]
                         /\ "WOBJ" \notin k1.tcb[t].tstat => wobj_unlink(k1, t) = k1
  BY DEF wobj_unlink, Tables
<1> HIDE DEF k0
<1>5. Others(kk, kk, t)
  BY DEF Others, SameWait
<1>6. GoodTables(wobj_unlink(kk, t)) /\ Others(wobj_unlink(kk, t), kk, t)
  BY <1>1, <1>4, UnlinkType DEF Others, SameWait, WAITING
<1>7. /\ GoodTables(wait_cancel(kk, t)) /\ Others(wait_cancel(kk, t), kk, t)
      /\ wait_cancel(kk, t).wait_queue = wobj_unlink(kk, t).wait_queue
  <2>1. wait_cancel(kk, t) = wobj_unlink(k0, t) /\ k0 \in Tables
    BY <1>2 DEF wait_cancel, k0, GoodTables
  <2>2. wobj_unlink(k0, t).wait_queue = wobj_unlink(kk, t).wait_queue
    BY <1>1, <1>2, <1>4, <2>1
  <2>3. Others(wobj_unlink(k0, t), kk, t)
    BY <1>2, <1>4, <2>1 DEF Others, SameWait, WAITING
  <2> QED
    BY <2>1, <2>2, <2>3, CancelType
<1>8. LET k1 == wait_complete(kk, t)
      IN /\ Others(k1, kk, t) /\ k1.wait_queue = kk.wait_queue
         /\ ~WAITING(k1, t) /\ k1.tcb[t].wobj = NULL /\ k1.tcb[t].winfo = "E_OK"
  <2>1. wait_complete(kk, t) = make_non_wait([k0 EXCEPT !.tcb[t].winfo = "E_OK"], t)
    BY DEF wait_complete, k0
  <2> DEFINE k1 == make_non_wait([k0 EXCEPT !.tcb[t].winfo = "E_OK"], t)
  <2>2. /\ Others(k1, kk, t) /\ k1.wait_queue = k0.wait_queue
        /\ ~WAITING(k1, t) /\ k1.tcb[t].wobj = NULL /\ k1.tcb[t].winfo = "E_OK"
    BY <1>2, <1>3
  <2> HIDE DEF k1
  <2>3. k1.wait_queue = kk.wait_queue
    BY <1>2, <2>2
  <2> QED
    BY <2>1, <2>2, <2>3 DEF k1
<1>9. LET k1 == make_dormant(kk, t)
      IN /\ Others(k1, kk, t) /\ k1.wait_queue = kk.wait_queue
         /\ ~WAITING(k1, t) /\ k1.tcb[t].wobj = NULL /\ k1.tcb[t].winfo = "NULL"
  BY <1>1 DEF make_dormant, dormant_tcb, Tables, Others, SameWait, WAITING, TS_DORMANT
<1>10. LET k1 == wait_tmout(kk, t)
       IN /\ Others(k1, kk, t) /\ k1.wait_queue = wobj_unlink(kk, t).wait_queue
          /\ ~WAITING(k1, t) /\ k1.tcb[t].wobj = NULL /\ k1.tcb[t].winfo = "E_TMOUT"
  BY <1>3, <1>6 DEF wait_tmout
<1>11. LET k1 == wait_release(kk, t)
       IN /\ Others(k1, kk, t) /\ k1.wait_queue = wobj_unlink(kk, t).wait_queue
          /\ ~WAITING(k1, t) /\ k1.tcb[t].wobj = NULL /\ k1.tcb[t].winfo = "E_RLWAI"
  BY <1>3, <1>7 DEF wait_release
<1>12. LET k1 == wait_tmout_ok(kk, t)
       IN /\ Others(k1, kk, t) /\ k1.wait_queue = kk.wait_queue
          /\ ~WAITING(k1, t) /\ k1.tcb[t].wobj = NULL /\ k1.tcb[t].winfo = "E_OK"
  BY <1>3, <1>5 DEF wait_tmout_ok
<1> QED
  BY <1>7, <1>8, <1>9, <1>10, <1>11, <1>12

(* A task begins to wait. *)
LEMMA MakeWaitWaits ==
  ASSUME NEW kk, GoodTables(kk), NEW t \in Task, NEW stat \in SUBSET TstatBits, NEW tm \in TmEvt
  PROVE  LET k1 == make_wait_tmout(kk, t, stat, tm)
         IN /\ Others(k1, kk, t) /\ k1.wait_queue = kk.wait_queue
            /\ (WAITING(k1, t) <=> "WAITING" \in stat) /\ k1.tcb[t].wobj = kk.tcb[t].wobj
            /\ k1.tcb[t].winfo \in {"NULL", "TMEVTB"} /\ GoodTables(k1)
<1> DEFINE k0 == [kk EXCEPT !.tcb[t].tstat = stat]
           k2 == make_non_runnable(k0, t)
           k1 == make_wait_tmout(kk, t, stat, tm)
           w == IF tm = "none" THEN "NULL" ELSE "TMEVTB"
<1>1. kk \in Tables /\ k1 = [k2 EXCEPT !.tcb[t].winfo = w, !.tcb[t].tmevt = tm] /\ GoodTables(k1)
  BY MakeWaitType DEF GoodTables, make_wait_tmout
<1>2. GoodTables(k0)
  BY FieldUpdate
<1>3. k2.tcb = k0.tcb /\ k2.wait_queue = k0.wait_queue /\ k2 \in Tables
  <2> HIDE DEF k0
  <2>1. k0 \in Tables /\ GoodTables(k2)
    BY <1>2, MakeNonRunnableType DEF GoodTables
  <2> QED
    BY <2>1 DEF make_non_runnable, leave_queue, Tables, GoodTables
<1>4. k0.tcb = [kk.tcb EXCEPT ![t].tstat = stat] /\ k0.wait_queue = kk.wait_queue
  BY <1>1 DEF Tables
<1> HIDE DEF k0, k2, w
<1>5. /\ k1.tcb = [k2.tcb EXCEPT ![t] = [k2.tcb[t] EXCEPT !.winfo = w, !.tmevt = tm]]
      /\ k1.wait_queue = k2.wait_queue
  BY <1>1, <1>3 DEF Tables
<1> HIDE DEF k1
<1>6. kk.tcb[t] \in TCB /\ kk.tcb \in [Task -> TCB]
  BY <1>1 DEF Tables
<1>7. /\ k1.tcb[t] = [[kk.tcb[t] EXCEPT !.tstat = stat] EXCEPT !.winfo = w, !.tmevt = tm]
      /\ \A u \in Task \ {t} : k1.tcb[u] = kk.tcb[u]
  <2>1. k2.tcb \in [Task -> TCB] /\ k2.tcb = [kk.tcb EXCEPT ![t].tstat = stat]
    BY <1>3, <1>4 DEF Tables
  <2>2. k2.tcb[t] = [kk.tcb[t] EXCEPT !.tstat = stat] /\ \A u \in Task \ {t} : k2.tcb[u] = kk.tcb[u]
    BY <1>6, <2>1
  <2>3. k1.tcb[t] = [k2.tcb[t] EXCEPT !.winfo = w, !.tmevt = tm] /\ \A u \in Task \ {t} : k1.tcb[u] = k2.tcb[u]
    BY <1>5, <2>1
  <2> QED
    BY <2>2, <2>3
<1>8. k1.tcb[t].tstat = stat /\ k1.tcb[t].wobj = kk.tcb[t].wobj /\ k1.tcb[t].winfo = w
  BY <1>6, <1>7 DEF TCB
<1>9. Others(k1, kk, t) /\ (WAITING(k1, t) <=> "WAITING" \in stat)
  BY <1>7, <1>8 DEF Others, SameWait, WAITING
<1> QED
  BY <1>1, <1>3, <1>4, <1>5, <1>8, <1>9 DEF k1, w

-----------------------------------------------------------------------------
(* The actions of module Kernel, by what they do to waits. *)

(* The end of a service call neither begins nor ends a wait. *)
LEMMA CallWaits ==
  ASSUME NEW k1, GoodTables(k1), NEW disp, TaskCall(k1, disp) \/ IntCall(k1, disp)
  PROVE  Calm(k', k1)
<1>1. Calm(k1, k1)
  BY DEF Calm, SameWait
<1>2. Calm(dispatch_r(k1), k1)
  <2>1. CASE k1.schedtsk = NULL
    BY <1>1, <2>1 DEF dispatch_r
  <2>2. CASE k1.schedtsk # NULL
    BY <2>2, SchedulerWaits DEF GoodTables, Tables
  <2> QED
    BY <2>1, <2>2
<1>3. k' = k1 \/ k' = dispatch_r(k1)
  BY DEF TaskCall, IntCall
<1> QED
  BY <1>1, <1>2, <1>3

(* The queue a task is unlinked from. *)
LEMMA UnlinkWaits ==
  ASSUME NEW kk, GoodTables(kk), NEW t \in Task, TcbOK(kk.tcb[t])
  PROVE  \A o \in WObj : wobj_unlink(kk, t).wait_queue[o]
           = IF kk.tcb[t].wobj = o THEN queue_delete(kk.wait_queue[o], t) ELSE kk.wait_queue[o]
<1>1. "WOBJ" \in kk.tcb[t].tstat <=> kk.tcb[t].wobj # NULL
  BY DEF TcbOK
<1>2. kk.wait_queue \in [WObj -> Seq(Task)] /\ kk \in Tables
  BY DEF GoodTables, Tables
<1>3. CASE "WOBJ" \in kk.tcb[t].tstat
  <2>1. wobj_unlink(kk, t).wait_queue
          = [kk.wait_queue EXCEPT ![kk.tcb[t].wobj] = queue_delete(@, t)]
    BY <1>2, <1>3 DEF wobj_unlink, Tables
  <2> QED
    BY <1>2, <2>1
<1>4. CASE "WOBJ" \notin kk.tcb[t].tstat
  BY <1>1, <1>4, WObjAssumption DEF wobj_unlink
<1> QED
  BY <1>3, <1>4

(* Calls about t, whether it waits or not, that leave its wait alone. *)
LEMMA CalmCalls ==
  ASSUME KernelInvs, NEW t \in Task,
         \/ act_tsk(t) \/ iact_tsk(t) \/ can_act(t) \/ can_wup(t) \/ sus_tsk(t) \/ rsm_tsk(t)
         \/ ras_tex(t) \/ iras_tex(t) \/ \E pri \in Pri : chg_pri(t, pri)
  PROVE  Calm(k', k)
<1>1. GoodTables(k) /\ k \in Tables /\ TcbOK(k.tcb[t]) /\ TableInv
  BY DEF KernelInvs, TypeInv, TypeOK, TableInv, Consistent
<1>2. ASSUME NEW k1, GoodTables(k1), Calm(k1, k), NEW disp, TaskCall(k1, disp) \/ IntCall(k1, disp)
      PROVE  Calm(k', k)
  BY <1>2, CallWaits, CalmAfter
<1>3. ASSUME NEW x \in SUBSET TstatBits, ("WAITING" \in x) <=> WAITING(k, t)
      PROVE  GoodTables([k EXCEPT !.tcb[t].tstat = x]) /\ Calm([k EXCEPT !.tcb[t].tstat = x], k)
  BY <1>1, <1>3, FieldUpdate, FieldWaits
<1>a. ASSUME act_tsk(t) \/ iact_tsk(t) PROVE Calm(k', k)
  <2>1. CASE DORMANT(k, t)
    <3>1. ~WAITING(k, t)
      BY <2>1 DEF DORMANT, WAITING, TS_DORMANT
    <3>2. GoodTables(make_runnable(k, t)) /\ Calm(make_runnable(k, t), k)
      BY <1>1, <3>1, MakeRunnableType, SchedulerWaits
    <3> QED
      BY <1>a, <1>2, <2>1, <3>2 DEF act_tsk, iact_tsk
  <2>2. CASE ~DORMANT(k, t)
    <3>1. /\ GoodTables([k EXCEPT !.tcb[t].actcnt = TRUE])
          /\ Calm([k EXCEPT !.tcb[t].actcnt = TRUE], k)
      BY <1>1, FieldUpdate, FieldWaits
    <3> QED
      BY <1>a, <1>2, <2>2, <3>1 DEF act_tsk, iact_tsk
  <2> QED
    BY <2>1, <2>2
<1>b. ASSUME can_act(t) PROVE Calm(k', k)
  BY <1>1, <1>2, <1>b, FieldUpdate, FieldWaits DEF can_act
<1>c. ASSUME can_wup(t) PROVE Calm(k', k)
  BY <1>1, <1>2, <1>c, FieldUpdate, FieldWaits DEF can_wup
<1>d. ASSUME sus_tsk(t) PROVE Calm(k', k)
  <2>1. CASE RUNNABLE(k, t)
    <3> DEFINE k0 == [k EXCEPT !.tcb[t].tstat = TS_SUSPENDED]
               k1 == make_non_runnable(k0, t)
    <3>1. ~WAITING(k, t) /\ "WAITING" \notin TS_SUSPENDED
      BY <1>1, <2>1, NoObject DEF RUNNABLE, WAITING, TS_SUSPENDED
    <3>2. GoodTables(k0) /\ Calm(k0, k)
      BY <1>3, <3>1, StatTypes
    <3>3. TaskCall(k1, Disp(make_non_runnable_ret(k, t)))
      BY <1>d, <2>1, NoObject, <1>1 DEF sus_tsk, RUNNABLE, WAITING
    <3> HIDE DEF k0
    <3>4. GoodTables(k1) /\ Calm(k1, k0)
      BY <3>2, MakeNonRunnableType, SchedulerWaits
    <3> HIDE DEF k1
    <3> QED
      BY <1>2, <3>2, <3>3, <3>4, CalmAfter
  <2>2. CASE ~RUNNABLE(k, t)
    <3>1. WAITING(k, t) /\ TaskCall([k EXCEPT !.tcb[t].tstat = @ \cup TS_SUSPENDED], FALSE)
      BY <1>d, <2>2 DEF sus_tsk
    <3>2. k.tcb[t].tstat \cup TS_SUSPENDED \in SUBSET TstatBits
      BY <1>1, StatTypes DEF Tables, TCB
    <3>3. "WAITING" \in k.tcb[t].tstat \cup TS_SUSPENDED
      BY <3>1 DEF WAITING
    <3> QED
      BY <1>2, <1>3, <3>1, <3>2, <3>3
  <2> QED
    BY <2>1, <2>2
<1>e. ASSUME rsm_tsk(t) PROVE Calm(k', k)
  <2>1. CASE ~WAITING(k, t)
    <3>1. GoodTables(make_runnable(k, t)) /\ Calm(make_runnable(k, t), k)
      BY <1>1, <2>1, MakeRunnableType, SchedulerWaits
    <3> QED
      BY <1>e, <1>2, <2>1, <3>1 DEF rsm_tsk
  <2>2. CASE WAITING(k, t)
    <3>1. TaskCall([k EXCEPT !.tcb[t].tstat = @ \ TS_SUSPENDED], FALSE)
      BY <1>e, <2>2 DEF rsm_tsk
    <3>2. k.tcb[t].tstat \ TS_SUSPENDED \in SUBSET TstatBits
      BY <1>1 DEF Tables, TCB
    <3>3. "WAITING" \in k.tcb[t].tstat \ TS_SUSPENDED
      BY <2>2 DEF WAITING, TS_SUSPENDED
    <3> QED
      BY <1>2, <1>3, <2>2, <3>1, <3>2, <3>3
  <2> QED
    BY <2>1, <2>2
<1>f. ASSUME ras_tex(t) \/ iras_tex(t) PROVE Calm(k', k)
  <2> DEFINE k1 == [k EXCEPT !.tcb[t].texptn = TRUE]
  <2>1. GoodTables(k1) /\ Calm(k1, k)
    BY <1>1, FieldUpdate, FieldWaits
  <2>2. \/ TaskCall(IF t = runtsk THEN calltex(k1, t) ELSE k1, FALSE)
        \/ IntCall(k1, t = runtsk /\ k.tcb[t].enatex)
    BY <1>f DEF ras_tex, iras_tex
  <2> HIDE DEF k1
  <2>3. GoodTables(calltex(k1, t)) /\ Calm(calltex(k1, t), k)
    BY <2>1, TexType, SchedulerWaits, CalmAfter
  <2> QED
    BY <1>2, <2>1, <2>2, <2>3
<1>g. ASSUME NEW pri \in Pri, chg_pri(t, pri) PROVE Calm(k', k)
  <2> DEFINE k1 == [k EXCEPT !.tcb[t].priority = pri]
             o == k.tcb[t].wobj
             k2 == IF "WOBJCB" \in k.tcb[t].tstat THEN wobj_change_priority(k1, o, t) ELSE k1
  <2>1. GoodTables(change_priority(k, t, pri)) /\ Calm(change_priority(k, t, pri), k)
    BY <1>1, ChangePriorityType, SchedulerWaits
  <2>2. GoodTables(k1) /\ Calm(k1, k) /\ Calm(k1, k1)
    <3>1. GoodTables(k1) /\ Calm(k1, k)
      BY <1>1, FieldUpdate, FieldWaits
    <3> QED
      BY <3>1, FieldWaits DEF GoodTables
  <2>3. \/ TaskCall(change_priority(k, t, pri), Disp(change_priority_ret(k, t, pri)))
        \/ TaskCall(k2, FALSE)
    BY <1>g DEF chg_pri
  <2> HIDE DEF k1
  <2>4. GoodTables(wobj_change_priority(k1, o, t)) /\ k1 \in Tables
    BY <2>2, WobjChangeType DEF GoodTables
  <2>5. Calm(wobj_change_priority(k1, o, t), k1)
    <3>1. CASE o \in TA_TPRI
      <4> DEFINE q == queue_insert_tpri(k1, queue_delete(k1.wait_queue[o], t), t)
      <4>1. wobj_change_priority(k1, o, t) = [k1 EXCEPT !.wait_queue[o] = q]
        BY <3>1 DEF wobj_change_priority
      <4> HIDE DEF q, o
      <4>2. /\ [k1 EXCEPT !.wait_queue[o] = q].tcb = k1.tcb
            /\ \A x \in WObj \ {o} : [k1 EXCEPT !.wait_queue[o] = q].wait_queue[x] = k1.wait_queue[x]
        BY <2>4 DEF Tables
      <4> QED
        BY <3>1, <4>1, <4>2 DEF Calm, SameWait, WAITING
    <3>2. CASE o \notin TA_TPRI
      BY <2>2, <3>2 DEF wobj_change_priority
    <3> QED
      BY <3>1, <3>2
  <2>6. GoodTables(k2) /\ Calm(k2, k)
    BY <2>2, <2>4, <2>5, CalmAfter
  <2> HIDE DEF k2
  <2> QED
    BY <1>2, <2>1, <2>3, <2>6
<1> QED
  BY <1>a, <1>b, <1>c, <1>d, <1>e, <1>f, <1>g

(* Calls that name no task, interrupts, the idle loop and the end of       *)
(* kernel_start.                                                           *)
LEMMA CalmSteps ==
  ASSUME KernelInvs,
         \/ dis_dsp \/ ena_dsp \/ dis_tex \/ ena_tex \/ texrtn_return
         \/ loc_cpu \/ unl_cpu \/ kernel_start
         \/ interrupt_enter \/ interrupt_return \/ wait_for_intr
         \/ \E pri \in Pri : rot_rdq(pri) \/ irot_rdq(pri)
         \/ UNCHANGED kvars
  PROVE  Calm(k', k)
<1>1. GoodTables(k) /\ k \in Tables /\ runtsk \in Task \cup {NULL} /\ NULL \notin Task
  BY TaskAssumption DEF KernelInvs, TypeInv, TypeOK
<1>2. Calm(k, k)
  BY DEF Calm, SameWait
<1>3. ASSUME NEW k1, GoodTables(k1), Calm(k1, k), NEW disp, TaskCall(k1, disp) \/ IntCall(k1, disp)
      PROVE  Calm(k', k)
  <2>1. Calm(k', k1)
    BY <1>3, CallWaits
  <2> QED
    BY <1>3, <2>1 DEF Calm, SameWait
<1>4. Calm(dispatch_r(k), k)
  <2>1. CASE k.schedtsk = NULL
    BY <1>2, <2>1 DEF dispatch_r
  <2>2. CASE k.schedtsk # NULL
    BY <1>1, <2>2, SchedulerWaits DEF Tables
  <2> QED
    BY <2>1, <2>2
<1>5. TSKCTX => runtsk \in Task
  BY <1>1 DEF TSKCTX
<1>a. CASE dis_dsp \/ loc_cpu \/ unl_cpu \/ interrupt_enter \/ UNCHANGED kvars
  BY <1>2, <1>a DEF dis_dsp, loc_cpu, unl_cpu, interrupt_enter, kvars
<1>b. CASE ena_dsp \/ kernel_start \/ wait_for_intr
  BY <1>2, <1>4, <1>b DEF ena_dsp, kernel_start, wait_for_intr
<1>c. CASE interrupt_return
  <2>1. runtsk # NULL => Calm(calltex(k, runtsk), k)
    BY <1>1, SchedulerWaits
  <2> QED
    BY <1>2, <1>4, <1>c, <2>1 DEF interrupt_return
<1>d. CASE dis_tex
  <2>1. runtsk \in Task
    BY <1>5, <1>d DEF dis_tex, TSKCTX_UNL
  <2> QED
    BY <1>1, <1>3, <1>d, <2>1, FieldUpdate, FieldWaits DEF dis_tex
<1>e. CASE ena_tex
  <2> DEFINE k1 == [k EXCEPT !.tcb[runtsk].enatex = TRUE]
  <2>1. runtsk \in Task
    BY <1>5, <1>e DEF ena_tex, TSKCTX_UNL
  <2>2. GoodTables(k1) /\ Calm(k1, k)
    BY <1>1, <2>1, FieldUpdate, FieldWaits
  <2>3. TaskCall(calltex(k1, runtsk), FALSE)
    BY <1>e DEF ena_tex
  <2> HIDE DEF k1
  <2>4. GoodTables(calltex(k1, runtsk)) /\ Calm(calltex(k1, runtsk), k)
    BY <2>1, <2>2, TexType, SchedulerWaits, CalmAfter
  <2> QED
    BY <1>3, <2>3, <2>4
<1>f. CASE texrtn_return
  <2> DEFINE k1 == [k EXCEPT !.tcb[runtsk].enatex = TRUE]
             x == k.tcb[runtsk].texlevel - 1
             k2 == [k1 EXCEPT !.tcb[runtsk].texlevel = x]
  <2>1. runtsk \in Task
    BY <1>5, <1>f DEF texrtn_return
  <2>2. Calm(take_texptn(k, runtsk), k)
    BY <1>1, <2>1, SchedulerWaits
  <2>3. k' = take_texptn(k, runtsk) \/ k' = k2
    BY <1>1, <1>f, <2>1 DEF texrtn_return, Tables, TCB
  <2>4. GoodTables(k1) /\ Calm(k1, k)
    BY <1>1, <2>1, FieldUpdate, FieldWaits
  <2> HIDE DEF k1, x
  <2>5. Calm(k2, k1)
    BY <2>1, <2>4, FieldWaits DEF GoodTables
  <2> HIDE DEF k2
  <2> QED
    BY <2>2, <2>3, <2>4, <2>5, CalmAfter, <2>1
<1>g. CASE \E pri \in Pri : rot_rdq(pri) \/ irot_rdq(pri)
  <2>1. PICK pri \in Pri : rot_rdq(pri) \/ irot_rdq(pri)
    BY <1>g
  <2>2. GoodTables(rotate_ready_queue(k, pri))
    BY <1>1, RotateType
  <2>3. Calm(rotate_ready_queue(k, pri), k)
    <3>1. rotate_ready_queue(k, pri).tcb = k.tcb /\ rotate_ready_queue(k, pri).wait_queue = k.wait_queue
      BY <1>1 DEF rotate_ready_queue, Tables
    <3> QED
      BY <3>1 DEF Calm, SameWait, WAITING
  <2>4. CASE rot_rdq(pri)
    BY <1>3, <2>2, <2>3, <2>4 DEF rot_rdq
  <2>5. CASE irot_rdq(pri)
    BY <1>3, <2>2, <2>3, <2>5 DEF irot_rdq
  <2> QED
    BY <2>1, <2>4, <2>5
<1> QED
  BY <1>a, <1>b, <1>c, <1>d, <1>e, <1>f, <1>g

(* wup_tsk, rel_wai, their counterparts for handlers and the call-backs of *)
(* the time events end the wait of t, but none on an object with E_OK; or  *)
(* they queue a wake-up.                                                   *)
LEMMA EndSteps ==
  ASSUME KernelInvs, NEW t \in Task,
         \/ wup_tsk(t) \/ iwup_tsk(t) \/ rel_wai(t) \/ irel_wai(t) \/ timeout(t)
  PROVE  Calm(k', k) \/ Ends(k', k, t)
<1>1. GoodTables(k) /\ k \in Tables /\ TcbOK(k.tcb[t]) /\ TableInv
  BY DEF KernelInvs, TypeInv, TypeOK, TableInv, Consistent
<1>2. ASSUME NEW k1, GoodTables(k1), Ends(k1, k, t), NEW disp, TaskCall(k1, disp) \/ IntCall(k1, disp)
      PROVE  Ends(k', k, t)
  BY <1>2, CallWaits, CalmAfter
<1>3. \A o \in WObj : wobj_unlink(k, t).wait_queue[o]
           = IF k.tcb[t].wobj = o THEN queue_delete(k.wait_queue[o], t) ELSE k.wait_queue[o]
  BY <1>1, UnlinkWaits
<1>a. CASE wup_tsk(t) \/ iwup_tsk(t)
  <2>1. CASE "SLEEP" \in k.tcb[t].tstat
    <3> DEFINE k1 == wait_complete(k, t)
    <3>1. WAITING(k, t) /\ k.tcb[t].wobj = NULL
      BY <1>1, <2>1, SleepingTask DEF WAITING
    <3>2. /\ GoodTables(k1) /\ Others(k1, k, t) /\ k1.wait_queue = k.wait_queue
          /\ ~WAITING(k1, t) /\ k1.tcb[t].wobj = NULL
      BY <1>1, EndWaitType, RoutineWaits
    <3>3. TaskCall(k1, Disp(make_non_wait_ret(k, t))) \/ IntCall(k1, Disp(make_non_wait_ret(k, t)))
      BY <1>a, <2>1 DEF wup_tsk, iwup_tsk, wakeup
    <3> HIDE DEF k1
    <3>4. Ends(k1, k, t)
      BY <3>1, <3>2, WObjAssumption DEF Ends, Without
    <3> QED
      BY <1>2, <3>2, <3>3, <3>4
  <2>2. CASE "SLEEP" \notin k.tcb[t].tstat
    <3> DEFINE k1 == [k EXCEPT !.tcb[t].wupcnt = TRUE]
    <3>1. TaskCall(k1, FALSE) \/ IntCall(k1, FALSE)
      BY <1>a, <2>2 DEF wup_tsk, iwup_tsk, wakeup
    <3>2. GoodTables(k1) /\ Calm(k1, k)
      BY <1>1, FieldUpdate, FieldWaits
    <3> HIDE DEF k1
    <3> QED
      BY <3>1, <3>2, CallWaits, CalmAfter
  <2> QED
    BY <2>1, <2>2
<1>b. CASE rel_wai(t) \/ irel_wai(t)
  <2> DEFINE k1 == wait_release(k, t)
  <2>1. /\ WAITING(k, t)
        /\ TaskCall(k1, Disp(make_non_wait_ret(k, t))) \/ IntCall(k1, Disp(make_non_wait_ret(k, t)))
    BY <1>b DEF rel_wai, irel_wai
  <2>2. /\ GoodTables(k1) /\ Others(k1, k, t) /\ k1.wait_queue = wobj_unlink(k, t).wait_queue
        /\ ~WAITING(k1, t) /\ k1.tcb[t].wobj = NULL /\ k1.tcb[t].winfo = "E_RLWAI"
    <3>1. GoodTables(k1)
      BY <1>1, EndWaitType
    <3> HIDE DEF k1
    <3> QED
      BY <1>1, <3>1, RoutineWaits DEF k1
  <2> HIDE DEF k1
  <2>3. Ends(k1, k, t)
    BY <1>3, <2>1, <2>2 DEF Ends, Without
  <2> QED
    BY <1>2, <2>1, <2>2, <2>3
<1>c. CASE timeout(t)
  <2> DEFINE k0 == [k EXCEPT !.tcb[t].tmevt = "none"]
             r == Disp(make_non_wait_ret(k, t))
  <2>1. GoodTables(k0) /\ Calm(k0, k) /\ k0.tcb[t].tstat = k.tcb[t].tstat /\ k0.wait_queue = k.wait_queue
    BY <1>1, FieldUpdate, FieldWaits DEF TmEvt, Tables, TCB
  <2>2. /\ k.tcb[t].tmevt # "none"
        /\ \/ IntCall(wait_tmout(k0, t), r)
           \/ k.tcb[t].tmevt = "wait_tmout_ok" /\ IntCall(wait_tmout_ok(k0, t), r)
    BY <1>c DEF timeout
  <2>3. /\ WAITING(k, t)
        /\ k.tcb[t].tmevt = "wait_tmout_ok" => k.tcb[t].wobj = NULL
    BY <1>1, <2>2, NoObject DEF TcbOK, WAITING, TS_WAITING, TS_SUSPENDED
  <2> HIDE DEF k0, r
  <2>4. k0.tcb[t].wobj = k.tcb[t].wobj /\ k0.wait_queue = k.wait_queue /\ Others(k0, k, t)
    BY <2>1 DEF Calm, SameWait, Others
  <2>5. wobj_unlink(k0, t).wait_queue = wobj_unlink(k, t).wait_queue
    BY <1>1, <2>1, <2>4 DEF wobj_unlink, GoodTables, Tables
  <2>6. ASSUME NEW k1, GoodTables(k1), Others(k1, k0, t), ~WAITING(k1, t), k1.tcb[t].wobj = NULL,
               \/ k1.wait_queue = wobj_unlink(k0, t).wait_queue /\ k1.tcb[t].winfo = "E_TMOUT"
               \/ k1.wait_queue = k0.wait_queue /\ k.tcb[t].wobj = NULL
        PROVE  Ends(k1, k, t)
    <3>1. Others(k1, k, t)
      BY <2>4, <2>6 DEF Others, SameWait
    <3>2. Without(k1, k, t)
      BY <1>3, <2>4, <2>5, <2>6, WObjAssumption DEF Without
    <3> QED
      BY <2>3, <2>6, <3>1, <3>2 DEF Ends
  <2>7. CASE IntCall(wait_tmout(k0, t), r)
    <3>1. GoodTables(wait_tmout(k0, t)) /\ Ends(wait_tmout(k0, t), k, t)
      BY <2>1, <2>6, EndWaitType, RoutineWaits
    <3> QED
      BY <1>2, <2>7, <3>1
  <2>8. CASE k.tcb[t].tmevt = "wait_tmout_ok" /\ IntCall(wait_tmout_ok(k0, t), r)
    <3>1. GoodTables(wait_tmout_ok(k0, t)) /\ Ends(wait_tmout_ok(k0, t), k, t)
      BY <2>1, <2>3, <2>6, <2>8, EndWaitType, RoutineWaits
    <3> QED
      BY <1>2, <2>8, <3>1
  <2> QED
    BY <2>2, <2>7, <2>8
<1> QED
  BY <1>a, <1>b, <1>c

(* ter_tsk, ext_tsk and task_initialize leave a task that is dormant or    *)
(* has started anew, with a stack of its own.                              *)
LEMMA GoneSteps ==
  ASSUME KernelInvs, NEW t \in Task,
         ter_tsk(t) \/ (ext_tsk /\ t = runtsk) \/ (task_initialize /\ t = Head(todo))
  PROVE  Goes(k', k, t)
<1>1. GoodTables(k) /\ k \in Tables /\ TcbOK(k.tcb[t]) /\ TableInv
  BY DEF KernelInvs, TypeInv, TypeOK, TableInv, Consistent
<1>2. ASSUME NEW k0, GoodTables(k0), Others(k0, k, t), Without(k0, k, t)
      PROVE  LET k1 == make_dormant(k0, t)
             IN /\ GoodTables(k1) /\ Goes(k1, k, t)
                /\ GoodTables(make_runnable(k1, t)) /\ Goes(make_runnable(k1, t), k, t)
                /\ GoodTables(restart(k1, t)) /\ Goes(restart(k1, t), k, t)
  <2> DEFINE k1 == make_dormant(k0, t)
  <2>1. /\ Others(k1, k0, t) /\ k1.wait_queue = k0.wait_queue /\ GoodTables(k1)
        /\ ~WAITING(k1, t) /\ k1.tcb[t].wobj = NULL /\ k1.tcb[t].winfo = "NULL"
    <3>1. GoodTables(k1)
      BY <1>2, MakeDormantType
    <3> HIDE DEF k1
    <3> QED
      BY <1>2, <3>1, RoutineWaits DEF k1
  <2> HIDE DEF k1
  <2>2. Goes(k1, k, t)
    BY <1>2, <2>1 DEF Goes, Others, SameWait, Without
  <2>3. ASSUME NEW kk, GoodTables(kk), Goes(kk, k, t)
        PROVE  GoodTables(make_runnable(kk, t)) /\ Goes(make_runnable(kk, t), k, t)
    <3>1. Calm(make_runnable(kk, t), kk)
      BY <2>3, SchedulerWaits DEF Goes
    <3> QED
      BY <2>3, <3>1, MakeRunnableType, CalmAfter
  <2>4. GoodTables(restart(k1, t)) /\ Goes(restart(k1, t), k, t)
    <3> DEFINE k2 == [k1 EXCEPT !.tcb[t].actcnt = FALSE]
    <3>1. GoodTables(k2) /\ Calm(k2, k1)
      BY <2>1, FieldUpdate, FieldWaits DEF GoodTables
    <3>2. restart(k1, t) = IF k1.tcb[t].actcnt THEN make_runnable(k2, t) ELSE k1
      BY DEF restart
    <3> HIDE DEF k2
    <3>3. Goes(k2, k, t)
      BY <2>2, <3>1, CalmAfter
    <3> QED
      BY <2>1, <2>2, <2>3, <3>1, <3>2, <3>3
  <2> QED
    BY <2>1, <2>2, <2>3, <2>4 DEF k1
<1>3. ASSUME k.tcb[t].wobj = NULL, NEW k0, Calm(k0, k)
      PROVE  Others(k0, k, t) /\ Without(k0, k, t)
  BY <1>3, WObjAssumption DEF Calm, Others, Without
<1>4. RUNNABLE(k, t) \/ ~WAITING(k, t) => k.tcb[t].wobj = NULL
  BY <1>1, NoObject DEF RUNNABLE, WAITING
<1>5. Calm(k, k) /\ GoodTables(make_non_runnable(k, t)) /\ Calm(make_non_runnable(k, t), k)
  BY <1>1, MakeNonRunnableType, SchedulerWaits, FieldWaits
<1>a. CASE ter_tsk(t)
  <2> DEFINE k0 == IF RUNNABLE(k, t) THEN make_non_runnable(k, t)
                   ELSE IF WAITING(k, t) THEN wait_cancel(k, t) ELSE k
             k1 == make_dormant(k0, t)
  <2>1. GoodTables(k0) /\ Others(k0, k, t) /\ Without(k0, k, t)
    <3>1. CASE RUNNABLE(k, t)
      BY <1>3, <1>4, <1>5, <3>1
    <3>2. CASE ~RUNNABLE(k, t) /\ WAITING(k, t)
      <4>1. /\ GoodTables(wait_cancel(k, t)) /\ Others(wait_cancel(k, t), k, t)
            /\ wait_cancel(k, t).wait_queue = wobj_unlink(k, t).wait_queue
        BY <1>1, CancelType, RoutineWaits
      <4>2. Without(wait_cancel(k, t), k, t)
        BY <1>1, <4>1, UnlinkWaits DEF Without
      <4> QED
        BY <3>2, <4>1, <4>2
    <3>3. CASE ~RUNNABLE(k, t) /\ ~WAITING(k, t)
      BY <1>1, <1>3, <1>4, <1>5, <3>3
    <3> QED
      BY <3>1, <3>2, <3>3
  <2>2. TaskCall(restart(k1, t), Disp(restart_ret(k1, t)))
    BY <1>a DEF ter_tsk
  <2> HIDE DEF k0
  <2>3. GoodTables(restart(k1, t)) /\ Goes(restart(k1, t), k, t)
    BY <1>2, <2>1
  <2> HIDE DEF k1
  <2> QED
    BY <2>2, <2>3, CallWaits, CalmAfter
<1>b. CASE ext_tsk /\ t = runtsk
  <2> DEFINE k1 == exit_task(k, t)
  <2>1. k.tcb[t].wobj = NULL
    BY <1>1, <1>4, <1>b, TaskAssumption DEF TableInv, RunningInv
  <2>2. GoodTables(k1) /\ Goes(k1, k, t)
    BY <1>2, <1>3, <1>5, <2>1 DEF exit_task
  <2>3. k' = dispatch_r(k1)
    BY <1>b DEF ext_tsk
  <2> HIDE DEF k1
  <2>4. Calm(dispatch_r(k1), k1)
    BY <2>2, SchedulerWaits
  <2> QED
    BY <2>2, <2>3, <2>4, CalmAfter
<1>c. CASE task_initialize /\ t = Head(todo)
  <2> DEFINE k0 == [k EXCEPT !.tcb[t].actcnt = FALSE]
             k1 == make_dormant(k0, t)
  <2>1. k' = IF t \in TA_ACT THEN make_runnable(k1, t) ELSE k1
    BY <1>c DEF task_initialize
  <2>2. k.tcb[t].wobj = NULL
    <3>1. todo \in Seq(Task) /\ todo # << >> /\ ~iniflg
      BY <1>c DEF task_initialize, KernelInvs, TypeInv, TypeOK
    <3>2. t \in Members(todo)
      BY <1>c, <3>1 DEF Members
    <3>3. ~WAITING(k, t)
      BY <1>1, <3>1, <3>2 DEF TableInv, StartInv, WAITING, TS_DORMANT
    <3> QED
      BY <1>4, <3>3
  <2>3. GoodTables(k0) /\ Others(k0, k, t) /\ Without(k0, k, t)
    BY <1>1, <1>3, <2>2, FieldUpdate, FieldWaits
  <2> HIDE DEF k0
  <2> QED
    BY <1>2, <2>1, <2>3
<1> QED
  BY <1>a, <1>b, <1>c

(* slp_tsk and dly_tsk: the running task waits, but for no object. *)
LEMMA SleepSteps ==
  ASSUME KernelInvs, dly_tsk \/ \E tm \in {"none", "wait_tmout"} : slp_tsk(tm)
  PROVE  runtsk \in Task /\ (Calm(k', k) \/ Sleeps(k', k, runtsk))
<1>1. GoodTables(k) /\ k \in Tables
  BY DEF KernelInvs, TypeInv, TypeOK
<1>2. runtsk \in Task /\ RUNNABLE(k, runtsk)
  BY DEF KernelInvs, TypeInv, TypeOK, TableInv, RunningInv, dly_tsk, slp_tsk, CAN_WAIT, TSKCTX_UNL, TSKCTX
<1>3. k.tcb[runtsk].wobj = NULL
  BY <1>2, NoObject DEF KernelInvs, TableInv, Consistent, RUNNABLE
<1>4. ASSUME NEW stat \in SUBSET TstatBits, NEW tm \in TmEvt,
             TaskCall(make_wait_tmout(k, runtsk, stat, tm), TRUE)
      PROVE  Sleeps(k', k, runtsk)
  <2> DEFINE k1 == make_wait_tmout(k, runtsk, stat, tm)
  <2>2. /\ Others(k1, k, runtsk) /\ k1.wait_queue = k.wait_queue
        /\ k1.tcb[runtsk].wobj = k.tcb[runtsk].wobj /\ GoodTables(k1)
    BY <1>1, <1>2, MakeWaitWaits
  <2> HIDE DEF k1
  <2>3. Sleeps(k1, k, runtsk)
    BY <1>3, <2>2 DEF Sleeps
  <2>4. Calm(k', k1)
    BY <1>4, <2>2, CallWaits DEF k1
  <2> QED
    BY <1>2, <2>3, <2>4, CalmAfter
<1>a. CASE dly_tsk
  <2>1. "wait_tmout_ok" \in TmEvt /\ TS_WAITING \in SUBSET TstatBits
    BY StatTypes DEF TmEvt
  <2>2. TaskCall(make_wait_tmout(k, runtsk, TS_WAITING, "wait_tmout_ok"), TRUE)
    BY <1>a DEF dly_tsk
  <2>3. Sleeps(k', k, runtsk)
    BY <1>4, <2>1, <2>2
  <2> QED
    BY <1>2, <2>3
<1>b. ASSUME NEW tm \in {"none", "wait_tmout"}, slp_tsk(tm)
      PROVE  Calm(k', k) \/ Sleeps(k', k, runtsk)
  <2> DEFINE k1 == [k EXCEPT !.tcb[runtsk].wupcnt = FALSE]
  <2>1. GoodTables(k1) /\ Calm(k1, k)
    BY <1>1, <1>2, FieldUpdate, FieldWaits
  <2>2. TaskCall(k1, FALSE) \/ TaskCall(make_wait_tmout(k, runtsk, TS_SLEEPING, tm), TRUE)
    BY <1>b DEF slp_tsk
  <2>3. tm \in TmEvt
    BY DEF TmEvt
  <2> HIDE DEF k1
  <2>4. CASE TaskCall(k1, FALSE)
    BY <1>2, <2>1, <2>4, CallWaits, CalmAfter
  <2> QED
    BY <1>4, <2>2, <2>3, <2>4, StatTypes
<1> QED
  BY <1>2, <1>a, <1>b

-----------------------------------------------------------------------------
(* The calls of objects, in the same terms. *)

(* A task that is linked into a wait queue waits, and with no error code   *)
(* yet; the queue holds the tasks that wait for its object.                *)
LEMMA WaitsFor ==
  ASSUME KernelInvs, NEW o \in WObj
  PROVE  /\ \A t \in Task : k.tcb[t].wobj = o =>
              WAITING(k, t) /\ k.tcb[t].winfo \in {"NULL", "TMEVTB"} /\ ~RUNNABLE(k, t)
         /\ Holds(k.wait_queue[o], {t \in Task : k.tcb[t].wobj = o})
         /\ k.wait_queue[o] = << >> <=> \A t \in Task : k.tcb[t].wobj # o
         /\ k.wait_queue[o] # << >> => /\ Head(k.wait_queue[o]) \in Task
                                       /\ k.tcb[Head(k.wait_queue[o])].wobj = o
<1>1. Linked(k, Task) /\ \A t \in Task : TcbOK(k.tcb[t])
  BY DEF KernelInvs, TableInv, Consistent
<1>2. ASSUME NEW t \in Task, k.tcb[t].wobj = o
      PROVE  WAITING(k, t) /\ k.tcb[t].winfo \in {"NULL", "TMEVTB"} /\ ~RUNNABLE(k, t)
  <2>1. k.tcb[t].wobj # NULL /\ TcbOK(k.tcb[t])
    BY <1>1, <1>2, WObjAssumption
  <2>2. WAITING(k, t) /\ ~RUNNABLE(k, t)
    BY <2>1, NoObject DEF WAITING, RUNNABLE
  <2> QED
    BY <2>1, <2>2 DEF TcbOK, WAITING
<1> DEFINE q == k.wait_queue[o]
           S == {t \in Task : k.tcb[t].wobj = o}
<1>3. Holds(q, S)
  BY <1>1 DEF Linked
<1> HIDE DEF q, S
<1>4. q = << >> <=> S = {}
  BY <1>3, HoldsHead
<1>5. q # << >> => Head(q) \in S
  BY <1>3, HoldsHead
<1> QED
  BY <1>2, <1>3, <1>4, <1>5 DEF q, S

(* The running task waits for nothing. *)
LEMMA RunningWaits ==
  ASSUME KernelInvs, runtsk # NULL
  PROVE  /\ runtsk \in Task /\ RUNNABLE(k, runtsk) /\ ~WAITING(k, runtsk)
         /\ k.tcb[runtsk].wobj = NULL
<1>1. runtsk \in Task /\ RUNNABLE(k, runtsk)
  BY DEF KernelInvs, TypeInv, TypeOK, TableInv, RunningInv
<1>2. TcbOK(k.tcb[runtsk])
  BY <1>1 DEF KernelInvs, TableInv, Consistent
<1> QED
  BY <1>1, <1>2, NoObject DEF RUNNABLE, WAITING

(* An object hands something to the first task of its wait queue: that     *)
(* task, and no other, sees its wait ended, with E_OK.                     *)
LEMMA HeadWakes ==
  ASSUME KernelInvs, NEW o \in WObj, k.wait_queue[o] # << >>,
         LET t == Head(k.wait_queue[o])
             k1 == [k EXCEPT !.wait_queue[o] = Tail(@)]
             k2 == wait_complete(k1, t)
             disp == Disp(make_non_wait_ret(k, t))
         IN (TSKCTX /\ TaskCall(k2, disp)) \/ (INTCTX /\ IntCall(k2, disp))
  PROVE  LET t == Head(k.wait_queue[o])
         IN /\ t \in Task /\ k.tcb[t].wobj = o /\ WAITING(k, t)
            /\ KernelInvs' /\ k'.wait_queue = [k.wait_queue EXCEPT ![o] = Tail(@)]
            /\ Others(k', k, t)
            /\ ~WAITING(k', t) /\ k'.tcb[t].wobj = NULL /\ k'.tcb[t].winfo = "E_OK"
<1> DEFINE t == Head(k.wait_queue[o])
           k1 == [k EXCEPT !.wait_queue[o] = Tail(@)]
           k2 == wait_complete(k1, t)
           disp == Disp(make_non_wait_ret(k, t))
<1>1. KernelInvs' /\ k'.wait_queue = [k.wait_queue EXCEPT ![o] = Tail(@)]
  BY WakeHead
<1>2. t \in Task /\ k.tcb[t].wobj = o /\ WAITING(k, t) /\ GoodTables(k1) /\ k1.tcb = k.tcb
  BY UnqueueOK DEF KernelInvs, TableInv, WAITING
<1>3. TaskCall(k2, disp) \/ IntCall(k2, disp)
  OBVIOUS
<1> HIDE DEF t, k1, disp
<1>4. GoodTables(k2)
  BY <1>2, EndWaitType
<1>5. /\ Others(k2, k1, t) /\ ~WAITING(k2, t) /\ k2.tcb[t].wobj = NULL
      /\ k2.tcb[t].winfo = "E_OK"
  BY <1>2, RoutineWaits
<1> HIDE DEF k2
<1>6. Calm(k', k2)
  BY <1>3, <1>4, CallWaits
<1>7. Others(k2, k, t)
  BY <1>2, <1>5 DEF Others, SameWait, WAITING
<1>8. Others(k', k, t)
  BY <1>2, <1>6, <1>7, CalmAfter
<1>9. ~WAITING(k', t) /\ k'.tcb[t].wobj = NULL /\ k'.tcb[t].winfo = "E_OK"
  BY <1>2, <1>5, <1>6 DEF Calm, SameWait
<1> QED
  BY <1>1, <1>2, <1>8, <1>9 DEF t

(* The running task begins to wait for an object. *)
LEMMA RunningBlocks ==
  ASSUME KernelInvs, CAN_WAIT, NEW o \in WObj, NEW tm \in {"none", "wait_tmout"},
         TaskCall(wobj_make_wait_tmout(k, runtsk, o, tm), TRUE)
  PROVE  /\ KernelInvs' /\ runtsk \in Task /\ Others(k', k, runtsk)
         /\ WAITING(k', runtsk) /\ k'.tcb[runtsk].wobj = o
         /\ k'.tcb[runtsk].winfo \in {"NULL", "TMEVTB"}
<1> DEFINE t == runtsk
           k1 == make_wait_tmout(k, t, TS_ON_WOBJCB, tm)
           q == IF o \in TA_TPRI THEN queue_insert_tpri(k1, k1.wait_queue[o], t)
                                 ELSE queue_insert_prev(k1.wait_queue[o], t)
           k2 == [k1 EXCEPT !.wait_queue[o] = q]
           k3 == [k2 EXCEPT !.tcb[t].wobj = o]
<1>1. t \in Task /\ GoodTables(k) /\ TS_ON_WOBJCB \in SUBSET TstatBits /\ tm \in TmEvt
  BY StatTypes DEF KernelInvs, TypeInv, TypeOK, CAN_WAIT, TSKCTX_UNL, TSKCTX, TmEvt
<1>2. TaskCall(k3, TRUE)
  BY DEF wobj_make_wait_tmout, wobj_queue_insert
<1>3. KernelInvs'
  BY WaitOnObject
<1>4. /\ GoodTables(k1) /\ Others(k1, k, t) /\ (WAITING(k1, t) <=> "WAITING" \in TS_ON_WOBJCB)
      /\ k1.tcb[t].winfo \in {"NULL", "TMEVTB"}
  <2> DEFINE kk == make_wait_tmout(k, t, TS_ON_WOBJCB, tm)
  <2>1. GoodTables(kk)
    BY <1>1, MakeWaitType
  <2> HIDE DEF kk
  <2> QED
    BY <1>1, <2>1, MakeWaitWaits DEF kk
<1> HIDE DEF k1, t
<1>5. q \in Seq(Task)
  <2>1. k1.wait_queue[o] \in Seq(Task)
    BY <1>4 DEF GoodTables, Tables
  <2> QED
    BY <1>1, <2>1, AppendType, InsertTpriType DEF queue_insert_prev
<1> HIDE DEF q
<1>6. GoodTables(k2) /\ k2.tcb = k1.tcb
  BY <1>4, <1>5, WaitQueueUpdate DEF GoodTables, Tables
<1> HIDE DEF k2
<1>7. GoodTables(k3)
  BY <1>1, <1>6, FieldUpdate
<1>8. k3.tcb = [k2.tcb EXCEPT ![t].wobj = o] /\ k2.tcb \in [Task -> TCB]
  BY <1>6 DEF GoodTables, Tables
<1> HIDE DEF k3
<1>9. k3.tcb[t] = [k2.tcb[t] EXCEPT !.wobj = o] /\ \A u \in Task \ {t} : k3.tcb[u] = k2.tcb[u]
  BY <1>1, <1>8
<1>10. k3.tcb[t].wobj = o /\ k3.tcb[t].tstat = k1.tcb[t].tstat /\ k3.tcb[t].winfo = k1.tcb[t].winfo
  BY <1>1, <1>6, <1>8, <1>9 DEF TCB
<1>11. Others(k3, k, t) /\ WAITING(k3, t) /\ k3.tcb[t].winfo \in {"NULL", "TMEVTB"}
  BY <1>4, <1>6, <1>9, <1>10 DEF Others, SameWait, WAITING, TS_ON_WOBJCB
<1>12. Calm(k', k3)
  BY <1>2, <1>7, CallWaits
<1>13. Others(k', k, t)
  BY <1>1, <1>11, <1>12, CalmAfter
<1>14. WAITING(k', t) /\ k'.tcb[t].wobj = o /\ k'.tcb[t].winfo \in {"NULL", "TMEVTB"}
  BY <1>1, <1>10, <1>11, <1>12 DEF Calm, SameWait
<1> QED
  BY <1>1, <1>3, <1>13, <1>14 DEF t
(* Whatever the kernel does, at most one task begins or ends a wait. *)
LEMMA NextWaits ==
  ASSUME KernelInvs, [Next]_kvars
  PROVE  Calm(k', k) \/ \E t \in Task : Ends(k', k, t) \/ Goes(k', k, t) \/ Sleeps(k', k, t)
<1>1. CASE \/ dis_dsp \/ ena_dsp \/ dis_tex \/ ena_tex \/ texrtn_return
           \/ loc_cpu \/ unl_cpu \/ kernel_start
           \/ interrupt_enter \/ interrupt_return \/ wait_for_intr
           \/ \E pri \in Pri : rot_rdq(pri) \/ irot_rdq(pri)
           \/ UNCHANGED kvars
  BY <1>1, CalmSteps
<1>2. ASSUME NEW t \in Task,
             \/ act_tsk(t) \/ iact_tsk(t) \/ can_act(t) \/ can_wup(t) \/ sus_tsk(t) \/ rsm_tsk(t)
             \/ ras_tex(t) \/ iras_tex(t) \/ \E pri \in Pri : chg_pri(t, pri)
      PROVE  Calm(k', k)
  BY <1>2, CalmCalls
<1>3. ASSUME NEW t \in Task,
             \/ wup_tsk(t) \/ iwup_tsk(t) \/ rel_wai(t) \/ irel_wai(t) \/ timeout(t)
      PROVE  Calm(k', k) \/ Ends(k', k, t)
  BY <1>3, EndSteps
<1>4. ASSUME NEW t \in Task, ter_tsk(t)
      PROVE  Goes(k', k, t)
  BY <1>4, GoneSteps
<1>5. CASE ext_tsk
  <2> PICK t \in Task : t = runtsk
    BY <1>5, RunningWaits DEF ext_tsk, TSKCTX
  <2> QED
    BY <1>5, GoneSteps
<1>6. CASE task_initialize
  <2>1. todo \in Seq(Task) /\ todo # << >>
    BY <1>6 DEF task_initialize, KernelInvs, TypeInv, TypeOK
  <2> PICK t \in Task : t = Head(todo)
    BY <2>1
  <2> QED
    BY <1>6, GoneSteps
<1>7. CASE dly_tsk \/ \E tm \in {"none", "wait_tmout"} : slp_tsk(tm)
  BY <1>7, SleepSteps
<1> QED
  BY <1>1, <1>2, <1>3, <1>4, <1>5, <1>6, <1>7 DEF Next, TaskNext, IntNext

-----------------------------------------------------------------------------
(* Part 3: semaphores. *)

(* The inductive invariant: what is proved of the kernel, and of counts. *)
SemIInv == KernelInvs /\ semcnt \in [Sem -> Nat] /\ SemInv

(* A call on s, with what it does to the two parts of SemInv. *)
LEMMA SemStep ==
  ASSUME SemIInv, NEW s \in Sem, KernelInvs',
         \A x \in WObj \ {s} : k.wait_queue[x] = << >> => k'.wait_queue[x] = << >>,
         NEW n \in 0 .. maxsem[s], semcnt' = [semcnt EXCEPT ![s] = n],
         k'.wait_queue[s] # << >> => n = 0
  PROVE  SemIInv'
<1>1. Sem \subseteq WObj /\ n \in Nat
  BY SemAssumption
<1>2. semcnt' \in [Sem -> Nat]
  BY <1>1 DEF SemIInv
<1>3. ASSUME NEW x \in Sem
      PROVE  semcnt'[x] \in 0 .. maxsem[x] /\ (k'.wait_queue[x] # << >> => semcnt'[x] = 0)
  <2>1. CASE x = s
    BY <2>1 DEF SemIInv
  <2>2. CASE x # s
    <3>1. semcnt'[x] = semcnt[x] /\ x \in WObj \ {s}
      BY <1>1, <2>2 DEF SemIInv
    <3>2. semcnt[x] \in 0 .. maxsem[x] /\ (k.wait_queue[x] # << >> => semcnt[x] = 0)
      BY DEF SemIInv, SemInv
    <3> QED
      BY <3>1, <3>2
  <2> QED
    BY <2>1, <2>2
<1> QED
  BY <1>2, <1>3 DEF SemIInv, SemInv

(* sig_sem and isig_sem. *)
LEMMA SignalInv ==
  ASSUME SemIInv, NEW s \in Sem,
         (TSKCTX /\ signal(s, TaskCall)) \/ (INTCTX /\ signal(s, IntCall))
  PROVE  SemIInv'
<1>1. /\ KernelInvs /\ s \in WObj /\ semcnt[s] \in 0 .. maxsem[s] /\ semcnt \in [Sem -> Nat]
      /\ maxsem[s] \in Nat /\ (k.wait_queue[s] # << >> => semcnt[s] = 0)
      /\ DOMAIN k.wait_queue = WObj
  BY SemAssumption DEF SemIInv, SemInv, KernelInvs, TypeInv, TypeOK, Tables
<1>2. CASE k.wait_queue[s] # << >>
  <2> DEFINE t == Head(k.wait_queue[s])
             k2 == wait_complete([k EXCEPT !.wait_queue[s] = Tail(@)], t)
             disp == Disp(make_non_wait_ret(k, t))
  <2>1. /\ ((TSKCTX /\ TaskCall(k2, disp)) \/ (INTCTX /\ IntCall(k2, disp)))
        /\ UNCHANGED semcnt
    BY <1>2 DEF signal
  <2>2. KernelInvs' /\ k'.wait_queue = [k.wait_queue EXCEPT ![s] = Tail(@)]
    BY <1>1, <1>2, <2>1, WakeHead
  <2>3. semcnt' = [semcnt EXCEPT ![s] = semcnt[s]] /\ semcnt[s] = 0
    BY <1>1, <1>2, <2>1
  <2> QED
    BY <1>1, <2>2, <2>3, SemStep
<1>3. CASE k.wait_queue[s] = << >>
  <2>1. /\ semcnt[s] < maxsem[s]
        /\ semcnt' = [semcnt EXCEPT ![s] = @ + 1]
        /\ ((TSKCTX /\ TaskCall(k, FALSE)) \/ (INTCTX /\ IntCall(k, FALSE)))
    BY <1>3 DEF signal
  <2>2. KernelInvs' /\ k' = k
    BY <1>1, <2>1, CallNothing
  <2>3. semcnt[s] + 1 \in 0 .. maxsem[s] /\ semcnt' = [semcnt EXCEPT ![s] = semcnt[s] + 1]
    BY <1>1, <2>1
  <2> QED
    BY <1>3, <2>2, <2>3, SemStep
<1> QED
  BY <1>2, <1>3

(* pol_sem, and wai_sem when a unit is there. *)
LEMMA TakeInv ==
  ASSUME SemIInv, NEW s \in Sem, TSKCTX, take_unit(s)
  PROVE  SemIInv'
<1>1. /\ KernelInvs /\ semcnt[s] \in 0 .. maxsem[s] /\ maxsem[s] \in Nat
      /\ (k.wait_queue[s] # << >> => semcnt[s] = 0)
  BY SemAssumption DEF SemIInv, SemInv
<1>2. semcnt[s] >= 1 /\ semcnt' = [semcnt EXCEPT ![s] = semcnt[s] - 1]
  BY DEF take_unit
<1>3. KernelInvs' /\ k' = k
  <2>1. TaskCall(k, FALSE)
    BY DEF take_unit
  <2> QED
    BY <1>1, <2>1, CallNothing
<1>4. semcnt[s] - 1 \in 0 .. maxsem[s] /\ k.wait_queue[s] = << >>
  BY <1>1, <1>2
<1> QED
  BY <1>2, <1>3, <1>4, SemStep

(* wai_sem and twai_sem. *)
LEMMA WaitInv ==
  ASSUME SemIInv, NEW s \in Sem, NEW tm \in {"none", "wait_tmout"}, twai_sem(s, tm)
  PROVE  SemIInv'
<1>1. /\ KernelInvs /\ s \in WObj /\ semcnt[s] \in 0 .. maxsem[s] /\ maxsem[s] \in Nat
      /\ semcnt \in [Sem -> Nat] /\ DOMAIN k.wait_queue = WObj /\ CAN_WAIT /\ TSKCTX
  BY SemAssumption DEF SemIInv, SemInv, KernelInvs, TypeInv, TypeOK, Tables, twai_sem,
                       CAN_WAIT, TSKCTX_UNL
<1>2. CASE take_unit(s)
  BY <1>1, <1>2, TakeInv
<1>3. CASE /\ semcnt[s] < 1
           /\ TaskCall(wobj_make_wait_tmout(k, runtsk, s, tm), TRUE)
           /\ UNCHANGED semcnt
  <2>1. PICK q : KernelInvs' /\ k'.wait_queue = [k.wait_queue EXCEPT ![s] = q]
    BY <1>1, <1>3, WaitOnObject
  <2>2. semcnt' = [semcnt EXCEPT ![s] = semcnt[s]] /\ semcnt[s] = 0
    BY <1>1, <1>3
  <2> QED
    BY <1>1, <2>1, <2>2, SemStep
<1> QED
  BY <1>2, <1>3 DEF twai_sem

(* Every semaphore service, and every step of the kernel, keeps the strengthened invariant. *)
LEMMA SemNextInv == SemIInv /\ [SemNext]_semvars => SemIInv'
<1> SUFFICES ASSUME SemIInv, [SemNext]_semvars PROVE SemIInv'
  OBVIOUS
<1>1. ASSUME NEW s \in Sem, SemCallsOf(s) PROVE SemIInv'
  <2>1. CASE sig_sem(s)
    <3>1. TSKCTX /\ signal(s, TaskCall)
      BY <2>1 DEF sig_sem, TSKCTX_UNL
    <3> QED
      BY <3>1, SignalInv
  <2>2. CASE isig_sem(s)
    <3>1. INTCTX /\ signal(s, IntCall)
      BY <2>2 DEF isig_sem, INTCTX_UNL
    <3> QED
      BY <3>1, SignalInv
  <2>3. CASE pol_sem(s)
    BY <2>3, TakeInv DEF pol_sem, TSKCTX_UNL
  <2>4. CASE \E tm \in {"none", "wait_tmout"} : twai_sem(s, tm)
    BY <2>4, WaitInv
  <2> QED
    BY <1>1, <2>1, <2>2, <2>3, <2>4 DEF SemCallsOf
<1>2. CASE [Next]_kvars /\ UNCHANGED semcnt
  <2>1. KernelInvs' /\ NoNew(k', k)
    BY <1>2, KernelStep, NextNoNew DEF SemIInv, KernelInvs
  <2>2. SemInv'
    BY <1>2, <2>1, SemAssumption DEF SemIInv, SemInv, NoNew
  <2> QED
    BY <1>2, <2>1, <2>2 DEF SemIInv
<1> QED
  BY <1>1, <1>2 DEF SemNext, SemCalls, semvars

(* It holds at the start. *)
LEMMA SemInitInv == SemInit => SemIInv
<1> SUFFICES ASSUME SemInit PROVE SemIInv
  OBVIOUS
<1>1. KernelInvs
  BY KernelStart DEF SemInit
<1>2. semcnt \in [Sem -> Nat] /\ \A s \in Sem : semcnt[s] \in 0 .. maxsem[s]
  BY SemAssumption DEF SemInit
<1>3. \A o \in WObj : k.wait_queue[o] = << >>
  BY DEF SemInit, Init, InitTables
<1> QED
  BY <1>1, <1>2, <1>3, SemAssumption DEF SemIInv, SemInv

(* The strengthened invariant holds throughout. *)
LEMMA SemAlways == SemSpec => []SemIInv
  BY SemInitInv, SemNextInv, PTL DEF SemSpec

-----------------------------------------------------------------------------
(* Theorems *)

(* A task never waits for a unit that is there, and the count stays within *)
(* its maximum, however waits end.                                         *)
THEOREM SemaphoreRight == SemSpec => []SemInv
<1>1. SemIInv => SemInv
  BY DEF SemIInv
<1> QED
  BY <1>1, SemAlways, PTL

(* The wait queues hold exactly the tasks that wait, in priority order     *)
(* where the object says so, also after time-outs, rel_wai and chg_pri.    *)
THEOREM WaitQueuesRight == SemSpec => []WaitQueueInv
<1>1. SemIInv => WaitQueueInv
  BY TablesMean DEF SemIInv, KernelInvs, TableInv
<1> QED
  BY <1>1, SemAlways, PTL

(* The kernel keeps its invariants with semaphores in use.                 *)
THEOREM KernelWithSemaphores ==
  SemSpec => [](/\ TypeOK /\ HoldInv /\ DispatchInv /\ TexInv /\ RunningInv
                /\ ReadyQueueInv /\ SchedtskInv /\ TstatInv /\ TimerInv)
<1>1. SemIInv => /\ TypeOK /\ HoldInv /\ DispatchInv /\ TexInv /\ RunningInv
                 /\ ReadyQueueInv /\ SchedtskInv /\ TstatInv /\ TimerInv
  BY TablesMean DEF SemIInv, KernelInvs, TypeInv, DispInv, TableInv
<1> QED
  BY <1>1, SemAlways, PTL
=============================================================================
