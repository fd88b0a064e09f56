------------------------------ MODULE Kernel ------------------------------
(***************************************************************************)
(* The TOPPERS/JSP kernel on one Blackfin core: the service calls of       *)
(* task_manage.c, task_sync.c, sys_manage.c and task_except.c, the time    *)
(* event call-backs, interrupt entry and exit, the idle loop and the       *)
(* dispatcher of cpu_support.S.                                            *)
(*                                                                         *)
(* A service call runs between t_lock_cpu (i_lock_cpu) and the matching    *)
(* unlock, so it is one action.  Between two service calls anything may    *)
(* happen: the running task and the innermost interrupt handler call any   *)
(* service their context allows, and interrupts nest.  A call that is      *)
(* refused (E_CTX, E_OBJ, E_QOVR, E_ILUSE, E_PAR) changes nothing and is a *)
(* stuttering step.                                                        *)
(*                                                                         *)
(* Modules of synchronisation objects extend this one: their state is      *)
(* theirs, their calls are built with TaskCall and IntCall below.          *)
(***************************************************************************)
EXTENDS KernelTables

CONSTANTS
  MaxNest,       \* bound on nested interrupt handlers (hardware: 10)
  MaxTexLevel    \* bound on nested task exception routines of one task

ASSUME BoundAssumption == MaxNest \in Nat /\ MaxTexLevel \in Nat

VARIABLES
  k,             \* the kernel tables, see KernelTables
  runtsk,        \* the task the processor executes, NULL when idle
  enadsp,        \* FALSE while dispatching is disabled (dis_dsp)
  reqflg,        \* a handler asked for a dispatch or a task exception
  cpulock,       \* CPU-locked state left by loc_cpu or iloc_cpu (IMASK)
  nest,          \* interrupt handlers in progress (IPEND)
  iniflg,        \* the kernel is in operation
  todo           \* tasks task_initialize has not visited yet

kvars == <<k, runtsk, enadsp, reqflg, cpulock, nest, iniflg, todo>>

Init ==
  /\ k = InitTables
  /\ runtsk = NULL
  /\ enadsp = TRUE
  /\ reqflg = FALSE
  /\ cpulock = TRUE
  /\ nest = 0
  /\ iniflg = FALSE
  /\ todo = torder_table

(* One iteration of the loop of task_initialize. *)
task_initialize ==
  /\ ~iniflg
  /\ todo # << >>
  /\ todo' = Tail(todo)
  /\ LET t == Head(todo)
         k1 == make_dormant([k EXCEPT !.tcb[t].actcnt = FALSE], t)
     IN k' = IF t \in TA_ACT THEN make_runnable(k1, t) ELSE k1
  /\ UNCHANGED <<runtsk, enadsp, reqflg, cpulock, nest, iniflg>>

(* The end of kernel_start: exit_and_dispatch with every task initialised. *)
kernel_start ==
  /\ ~iniflg
  /\ todo = << >>
  /\ iniflg' = TRUE
  /\ cpulock' = FALSE
  /\ runtsk' = k.schedtsk
  /\ k' = dispatch_r(k)
  /\ UNCHANGED <<enadsp, reqflg, nest, todo>>

-----------------------------------------------------------------------------
(* Contexts, as check.h tests them *)

TSKCTX == iniflg /\ nest = 0 /\ runtsk # NULL
TSKCTX_UNL == TSKCTX /\ ~cpulock
CAN_WAIT == TSKCTX_UNL /\ enadsp
INTCTX == nest > 0
INTCTX_UNL == INTCTX /\ ~cpulock

(* The end of a service call of a task: the tables become k1, and if disp  *)
(* the processor switches to the task that is now the most urgent.         *)
TaskCall(k1, disp) ==
  /\ IF disp THEN k' = dispatch_r(k1) /\ runtsk' = k1.schedtsk
             ELSE k' = k1 /\ UNCHANGED runtsk
  /\ UNCHANGED <<enadsp, reqflg, cpulock, nest, iniflg, todo>>

(* Mistake: the request is not recorded. *)
IntCall_mut(k1, disp) ==
  /\ k' = k1
  /\ UNCHANGED <<runtsk, reqflg, enadsp, cpulock, nest, iniflg, todo>>

(* The end of a service call of a handler: the dispatch is only requested. *)
IntCall(k1, disp) ==
  /\ k' = k1
  /\ reqflg' = (reqflg \/ disp)
  /\ UNCHANGED <<runtsk, enadsp, cpulock, nest, iniflg, todo>>

(* Mistake: enadsp is not looked at. *)
Disp_mut(ret) == ret

(* A BOOL returned by a routine of task.c or wait.c. *)
Disp(ret) == ret /\ enadsp

-----------------------------------------------------------------------------
(* task_manage.c *)

act_tsk(t) ==
  /\ TSKCTX_UNL
  /\ \/ /\ DORMANT(k, t)
        /\ TaskCall(make_runnable(k, t), Disp(make_runnable_ret(k, t)))
     \/ /\ ~DORMANT(k, t)
        /\ TaskCall([k EXCEPT !.tcb[t].actcnt = TRUE], FALSE)

iact_tsk(t) ==
  /\ INTCTX_UNL
  /\ \/ /\ DORMANT(k, t)
        /\ IntCall(make_runnable(k, t), Disp(make_runnable_ret(k, t)))
     \/ /\ ~DORMANT(k, t)
        /\ IntCall([k EXCEPT !.tcb[t].actcnt = TRUE], FALSE)

can_act(t) ==
  /\ TSKCTX_UNL
  /\ TaskCall([k EXCEPT !.tcb[t].actcnt = FALSE], FALSE)

(* Mistake: the dispatch-disabled state survives its task. *)
ext_tsk_mut ==
  /\ TSKCTX
  /\ LET k1 == exit_task(k, runtsk)
     IN k' = dispatch_r(k1) /\ runtsk' = k1.schedtsk
  /\ cpulock' = FALSE
  /\ UNCHANGED <<enadsp, reqflg, nest, iniflg, todo>>

(* Also legal in the CPU-locked and in the dispatch-disabled state, both   *)
(* of which it ends.                                                       *)
ext_tsk ==
  /\ TSKCTX
  /\ LET k1 == exit_task(k, runtsk)
     IN k' = dispatch_r(k1) /\ runtsk' = k1.schedtsk
  /\ enadsp' = TRUE
  /\ cpulock' = FALSE
  /\ UNCHANGED <<reqflg, nest, iniflg, todo>>

(* Mistake: a task that is not dormant is taken for a waiting one. *)
ter_tsk_mut(t) ==
  /\ TSKCTX_UNL
  /\ t # runtsk
  /\ ~DORMANT(k, t)
  /\ LET k1 == make_dormant(wait_cancel(k, t), t)
     IN TaskCall(restart(k1, t), Disp(restart_ret(k1, t)))

ter_tsk(t) ==
  /\ TSKCTX_UNL
  /\ t # runtsk
  /\ ~DORMANT(k, t)
  /\ LET k1 == IF RUNNABLE(k, t) THEN make_non_runnable(k, t)
               ELSE IF WAITING(k, t) THEN wait_cancel(k, t) ELSE k
         k2 == make_dormant(k1, t)
     IN TaskCall(restart(k2, t), Disp(restart_ret(k2, t)))

(* Mistake: the priority of the call (from 1) is stored unconverted. *)
chg_pri_mut(t, newpri) ==
  /\ TSKCTX_UNL
  /\ ~DORMANT(k, t) /\ ~RUNNABLE(k, t)
  /\ TaskCall([k EXCEPT !.tcb[t].priority = newpri + 1], FALSE)

chg_pri(t, newpri) ==
  /\ TSKCTX_UNL
  /\ ~DORMANT(k, t)
  /\ \/ /\ RUNNABLE(k, t)
        /\ TaskCall(change_priority(k, t, newpri),
                    Disp(change_priority_ret(k, t, newpri)))
     \/ /\ ~RUNNABLE(k, t)
        /\ LET k1 == [k EXCEPT !.tcb[t].priority = newpri]
           IN TaskCall(IF "WOBJCB" \in k.tcb[t].tstat
                       THEN wobj_change_priority(k1, k.tcb[t].wobj, t) ELSE k1,
                       FALSE)

-----------------------------------------------------------------------------
(* task_sync.c *)

(* slp_tsk and tslp_tsk *)
slp_tsk(tm) ==
  /\ CAN_WAIT
  /\ IF k.tcb[runtsk].wupcnt
     THEN TaskCall([k EXCEPT !.tcb[runtsk].wupcnt = FALSE], FALSE)
     ELSE TaskCall(make_wait_tmout(k, runtsk, TS_SLEEPING, tm), TRUE)

(* wup_tsk and iwup_tsk; Call is TaskCall or IntCall *)
wakeup(t, Call(_, _)) ==
  /\ ~DORMANT(k, t)
  /\ IF "SLEEP" \in k.tcb[t].tstat
     THEN Call(wait_complete(k, t), Disp(make_non_wait_ret(k, t)))
     ELSE Call([k EXCEPT !.tcb[t].wupcnt = TRUE], FALSE)

wup_tsk(t) == TSKCTX_UNL /\ wakeup(t, TaskCall)
iwup_tsk(t) == INTCTX_UNL /\ wakeup(t, IntCall)

can_wup(t) ==
  /\ TSKCTX_UNL
  /\ ~DORMANT(k, t)
  /\ TaskCall([k EXCEPT !.tcb[t].wupcnt = FALSE], FALSE)

rel_wai(t) ==
  /\ TSKCTX_UNL
  /\ WAITING(k, t)
  /\ TaskCall(wait_release(k, t), Disp(make_non_wait_ret(k, t)))

irel_wai(t) ==
  /\ INTCTX_UNL
  /\ WAITING(k, t)
  /\ IntCall(wait_release(k, t), Disp(make_non_wait_ret(k, t)))

(* Mistake: a task may suspend itself while dispatching is disabled. *)
sus_tsk_mut(t) ==
  /\ TSKCTX_UNL
  /\ RUNNABLE(k, t)
  /\ TaskCall(make_non_runnable([k EXCEPT !.tcb[t].tstat = TS_SUSPENDED], t),
              Disp(make_non_runnable_ret(k, t)))

sus_tsk(t) ==
  /\ TSKCTX_UNL
  /\ t = runtsk => enadsp
  /\ \/ /\ RUNNABLE(k, t)
        /\ TaskCall(make_non_runnable([k EXCEPT !.tcb[t].tstat = TS_SUSPENDED], t),
                    Disp(make_non_runnable_ret(k, t)))
     \/ /\ WAITING(k, t) /\ ~SUSPENDED(k, t)
        /\ TaskCall([k EXCEPT !.tcb[t].tstat = @ \cup TS_SUSPENDED], FALSE)

(* rsm_tsk and frsm_tsk, which is the same in this kernel *)
rsm_tsk(t) ==
  /\ TSKCTX_UNL
  /\ SUSPENDED(k, t)
  /\ \/ /\ ~WAITING(k, t)
        /\ TaskCall(make_runnable(k, t), Disp(make_runnable_ret(k, t)))
     \/ /\ WAITING(k, t)
        /\ TaskCall([k EXCEPT !.tcb[t].tstat = @ \ TS_SUSPENDED], FALSE)

dly_tsk ==
  /\ CAN_WAIT
  /\ TaskCall(make_wait_tmout(k, runtsk, TS_WAITING, "wait_tmout_ok"), TRUE)

-----------------------------------------------------------------------------
(* sys_manage.c *)

rot_rdq(pri) ==
  /\ TSKCTX_UNL
  /\ TaskCall(rotate_ready_queue(k, pri), Disp(rotate_ready_queue_ret(k, pri)))

irot_rdq(pri) ==
  /\ INTCTX_UNL
  /\ IntCall(rotate_ready_queue(k, pri), Disp(rotate_ready_queue_ret(k, pri)))

loc_cpu ==
  /\ TSKCTX \/ INTCTX
  /\ cpulock' = TRUE
  /\ UNCHANGED <<k, runtsk, enadsp, reqflg, nest, iniflg, todo>>

unl_cpu ==
  /\ TSKCTX \/ INTCTX
  /\ cpulock' = FALSE
  /\ UNCHANGED <<k, runtsk, enadsp, reqflg, nest, iniflg, todo>>

dis_dsp ==
  /\ TSKCTX_UNL
  /\ enadsp' = FALSE
  /\ UNCHANGED <<k, runtsk, reqflg, cpulock, nest, iniflg, todo>>

ena_dsp ==
  /\ TSKCTX_UNL
  /\ enadsp' = TRUE
  /\ IF runtsk # k.schedtsk
     THEN k' = dispatch_r(k) /\ runtsk' = k.schedtsk
     ELSE UNCHANGED <<k, runtsk>>
  /\ UNCHANGED <<reqflg, cpulock, nest, iniflg, todo>>

-----------------------------------------------------------------------------
(* task_except.c and the loop of call_texrtn *)

ras_tex(t) ==
  /\ TSKCTX_UNL
  /\ ~DORMANT(k, t) /\ t \in texrtn
  /\ LET k1 == [k EXCEPT !.tcb[t].texptn = TRUE]
     IN TaskCall(IF t = runtsk THEN calltex(k1, t) ELSE k1, FALSE)

(* Mistake: the handler's return is not told. *)
iras_tex_mut(t) ==
  /\ INTCTX_UNL
  /\ ~DORMANT(k, t) /\ t \in texrtn
  /\ IntCall([k EXCEPT !.tcb[t].texptn = TRUE], FALSE)

iras_tex(t) ==
  /\ INTCTX_UNL
  /\ ~DORMANT(k, t) /\ t \in texrtn
  /\ IntCall([k EXCEPT !.tcb[t].texptn = TRUE], t = runtsk /\ k.tcb[t].enatex)

dis_tex ==
  /\ TSKCTX_UNL
  /\ runtsk \in texrtn
  /\ TaskCall([k EXCEPT !.tcb[runtsk].enatex = FALSE], FALSE)

ena_tex ==
  /\ TSKCTX_UNL
  /\ runtsk \in texrtn
  /\ k.tcb[runtsk].texlevel < MaxTexLevel
  /\ TaskCall(calltex([k EXCEPT !.tcb[runtsk].enatex = TRUE], runtsk), FALSE)

(* The exception routine returns: again for the causes raised meanwhile,   *)
(* else back to what it interrupted.  A routine may return CPU-locked.     *)
texrtn_return ==
  /\ TSKCTX
  /\ k.tcb[runtsk].texlevel > 0
  /\ cpulock' = FALSE
  /\ k' = IF k.tcb[runtsk].texptn
          THEN take_texptn(k, runtsk)
          ELSE [k EXCEPT !.tcb[runtsk].enatex = TRUE, !.tcb[runtsk].texlevel = @ - 1]
  /\ UNCHANGED <<runtsk, enadsp, reqflg, nest, iniflg, todo>>

-----------------------------------------------------------------------------
(* Interrupts, the timer's call-backs and the idle loop *)

(* A handler starts, unless the CPU-locked state masks it. *)
interrupt_enter ==
  /\ iniflg /\ ~cpulock
  /\ nest < MaxNest
  /\ nest' = nest + 1
  /\ UNCHANGED <<k, runtsk, enadsp, reqflg, cpulock, iniflg, todo>>

(* A nested handler, or one that interrupted the idle loop (which runs in  *)
(* interrupt 14), just returns; the outermost one serves reqflg.           *)
interrupt_return ==
  /\ INTCTX_UNL
  /\ nest' = nest - 1
  /\ IF nest = 1 /\ runtsk # NULL /\ reqflg
     THEN /\ reqflg' = FALSE
          /\ IF enadsp /\ k.schedtsk # runtsk
             THEN k' = dispatch_r(k) /\ runtsk' = k.schedtsk
             ELSE k' = calltex(k, runtsk) /\ UNCHANGED runtsk
     ELSE UNCHANGED <<k, runtsk, reqflg>>
  /\ UNCHANGED <<enadsp, cpulock, iniflg, todo>>

(* wait_for_intr: the idle loop polls reqflg with handlers masked. *)
wait_for_intr ==
  /\ iniflg /\ nest = 0 /\ runtsk = NULL
  /\ reqflg
  /\ reqflg' = FALSE
  /\ runtsk' = k.schedtsk
  /\ k' = dispatch_r(k)
  /\ UNCHANGED <<enadsp, cpulock, nest, iniflg, todo>>

(* isig_tim pops a task's time event and runs its call-back. *)
timeout(t) ==
  /\ INTCTX_UNL
  /\ LET k1 == [k EXCEPT !.tcb[t].tmevt = "none"]
     IN \/ /\ k.tcb[t].tmevt = "wait_tmout"
           /\ IntCall(wait_tmout(k1, t), Disp(make_non_wait_ret(k, t)))
        \/ /\ k.tcb[t].tmevt = "wait_tmout_ok"
           /\ IntCall(wait_tmout_ok(k1, t), Disp(make_non_wait_ret(k, t)))

-----------------------------------------------------------------------------
TaskNext ==
  \/ ext_tsk \/ dly_tsk \/ dis_dsp \/ ena_dsp \/ dis_tex \/ ena_tex
  \/ texrtn_return
  \/ \E tm \in {"none", "wait_tmout"} : slp_tsk(tm)
  \/ \E pri \in Pri : rot_rdq(pri)
  \/ \E t \in Task :
       \/ act_tsk(t) \/ can_act(t) \/ ter_tsk(t) \/ wup_tsk(t) \/ can_wup(t)
       \/ rel_wai(t) \/ sus_tsk(t) \/ rsm_tsk(t) \/ ras_tex(t)
       \/ \E pri \in Pri : chg_pri(t, pri)

IntNext ==
  \/ interrupt_enter \/ interrupt_return \/ wait_for_intr
  \/ \E pri \in Pri : irot_rdq(pri)
  \/ \E t \in Task :
       iact_tsk(t) \/ iwup_tsk(t) \/ irel_wai(t) \/ iras_tex(t) \/ timeout(t)

Next == task_initialize \/ kernel_start \/ loc_cpu \/ unl_cpu
        \/ TaskNext \/ IntNext

Spec == Init /\ [][Next]_kvars
=============================================================================
