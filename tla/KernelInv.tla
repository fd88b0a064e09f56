----------------------------- MODULE KernelInv -----------------------------
(***************************************************************************)
(* What makes the kernel of module Kernel correct, as invariants named so  *)
(* that the proofs can take them one by one, action properties, and the    *)
(* liveness of a requested dispatch.                                       *)
(***************************************************************************)
EXTENDS Kernel

(* Type invariant. *)
TypeOK ==
  /\ k \in Tables
  /\ runtsk \in Task \cup {NULL}
  /\ enadsp \in BOOLEAN
  /\ reqflg \in BOOLEAN
  /\ cpulock \in BOOLEAN
  /\ nest \in Nat
  /\ iniflg \in BOOLEAN
  /\ todo \in Seq(Task)

-----------------------------------------------------------------------------
NoRepeat(q) == \A i, j \in DOMAIN q : q[i] = q[j] => i = j

Members(q) == {q[i] : i \in DOMAIN q}

(* The ready queue of each priority holds exactly the runnable tasks of    *)
(* that priority, once each, and ready_primap has the bits of the          *)
(* non-empty queues: what make_runnable, make_non_runnable and             *)
(* change_priority rely on when they relink a TCB.                         *)
ReadyQueueInv ==
  /\ \A p \in Pri :
       /\ NoRepeat(k.ready_queue[p])
       /\ Members(k.ready_queue[p]) =
            {t \in Task : RUNNABLE(k, t) /\ k.tcb[t].priority = p}
  /\ k.ready_primap = {p \in Pri : k.ready_queue[p] # << >>}

(* schedtsk, which the kernel updates incrementally, is the head of the    *)
(* most urgent non-empty ready queue, NULL when no task is runnable        *)
(* (the comment on schedtsk in task.h).                                    *)
SchedtskInv ==
  IF k.ready_primap = {} THEN k.schedtsk = NULL
                         ELSE k.schedtsk = search_schedtsk(k)

(* No dispatch is lost: while dispatching is enabled a task that runs      *)
(* outside handlers is the most urgent one; while a handler or the idle    *)
(* loop runs, a difference is recorded in reqflg, which the way out polls. *)
DispatchInv ==
  iniflg /\ enadsp /\ k.schedtsk # runtsk =>
    /\ nest > 0 \/ runtsk = NULL
    /\ reqflg

(* The dispatch-disabled state belongs to a running task, and reqflg is    *)
(* never left over from a handler to the task it interrupted.              *)
HoldInv ==
  /\ ~enadsp => runtsk # NULL
  /\ iniflg /\ nest = 0 /\ runtsk # NULL => ~reqflg
  /\ ~iniflg => runtsk = NULL /\ nest = 0 /\ ~reqflg /\ enadsp /\ cpulock

(* The running task is runnable whatever handlers and other tasks do: the  *)
(* calls that address runtsk (make_wait, exit_task) may take it out of its *)
(* ready queue.                                                            *)
RunningInv == runtsk # NULL => RUNNABLE(k, runtsk)

(* The bits of tstat combine as task.h says: a task is dormant, runnable,  *)
(* waiting, suspended or both of the last two; a wait reason comes with    *)
(* WAITING, and the two bits of a wait on an object come with the queue.   *)
TstatInv ==
  \A t \in Task :
    /\ RUNNABLE(k, t) => k.tcb[t].tstat = TS_RUNNABLE
    /\ k.tcb[t].tstat \cap {"SLEEP", "WOBJ"} # {} => WAITING(k, t)
    /\ "WOBJCB" \in k.tcb[t].tstat => "WOBJ" \in k.tcb[t].tstat
    /\ ~({"SLEEP", "WOBJ"} \subseteq k.tcb[t].tstat)
    /\ ("WOBJ" \in k.tcb[t].tstat) <=> (k.tcb[t].wobj # NULL)

(* A time event of a task is registered exactly while the task waits and   *)
(* its WINFO says so.  Otherwise a time-out that lost the race against a   *)
(* wake-up would end a later wait, or wait_complete would take an error    *)
(* code out of the WINFO union for the address of a time event block.      *)
TimerInv ==
  \A t \in Task :
    /\ (k.tcb[t].tmevt # "none") <=> (WAITING(k, t) /\ k.tcb[t].winfo = "TMEVTB")
    /\ WAITING(k, t) => k.tcb[t].winfo \in {"NULL", "TMEVTB"}
    /\ k.tcb[t].tmevt = "wait_tmout_ok" => k.tcb[t].tstat \ TS_SUSPENDED = TS_WAITING

(* A task is linked into a wait queue exactly while it waits on it, and    *)
(* the queue of a TA_TPRI object is in priority order, also after chg_pri. *)
WaitQueueInv ==
  \A o \in WObj :
    LET q == k.wait_queue[o]
    IN /\ NoRepeat(q)
       /\ Members(q) = {t \in Task : k.tcb[t].wobj = o}
       /\ o \in TA_TPRI =>
            \A i, j \in DOMAIN q :
              i < j => k.tcb[q[i]].priority <= k.tcb[q[j]].priority

(* A task exception is delivered as soon as it can be: a task that runs    *)
(* with exceptions enabled has none pending, unless a handler raised it    *)
(* and reqflg makes the handler's return deliver it.                       *)
TexInv ==
  runtsk # NULL /\ tex_due(k, runtsk) => nest > 0 /\ reqflg

-----------------------------------------------------------------------------
(* The running task keeps the processor while dispatching is disabled, the *)
(* CPU is locked or a handler runs, whatever other tasks or handlers make  *)
(* runnable: it loses it only to a dispatch out of those states (ena_dsp   *)
(* is the step that leaves the first), or by ext_tsk.                      *)
NoSwitchWhileHeld ==
  [][runtsk # NULL /\ runtsk' # runtsk =>
       ext_tsk \/ (enadsp' /\ ~cpulock /\ nest' = 0)]_kvars

Index(q, t) == CHOOSE i \in DOMAIN q : q[i] = t

(* Among tasks of one priority the order is first come, first served: the  *)
(* tasks of a ready queue keep their order in every step, and behind them, *)
(* at the tail, stands the one task at most that has come to the queue, be *)
(* it newly runnable (activated, woken, released, timed out or resumed),   *)
(* from another priority, or out of its place in this queue.  A preempted  *)
(* task thus stays ahead of those that came later.                         *)
OneGoesToTail ==
  [][\A p \in Pri :
       LET q == k.ready_queue[p]
           r == k'.ready_queue[p]
           overtaken(t) == \E u \in Members(q) \cap Members(r) :
                             Index(q, t) < Index(q, u) /\ Index(r, t) > Index(r, u)
           came == {t \in Members(r) : t \notin Members(q) \/ overtaken(t)}
       IN Cardinality(came) <= 1 /\ \A t \in came : r[Len(r)] = t]_kvars

-----------------------------------------------------------------------------
(* Fairness.  A handler is finite code that unlocks the CPU it locked and  *)
(* returns however often it is interrupted; an interrupt storm ends, so    *)
(* the outermost handler too returns at last; the idle loop polls reqflg   *)
(* between interrupts.  Nothing is assumed of the tasks.                   *)
Fairness ==
  /\ SF_kvars(interrupt_return /\ nest = 1)
  /\ SF_kvars(interrupt_return)
  /\ SF_kvars(wait_for_intr)
  /\ WF_kvars(INTCTX /\ unl_cpu)

FairSpec == Spec /\ Fairness

(* A task that becomes more urgent than the running one while a handler or *)
(* the idle loop runs is dispatched, or overtaken by a still more urgent   *)
(* one: the mismatch does not last.                                        *)
DispatchHappens ==
  (iniflg /\ enadsp /\ k.schedtsk # runtsk) ~> (k.schedtsk = runtsk)
=============================================================================
