------------------------------ MODULE SemLock ------------------------------
(***************************************************************************)
(* Tasks that use one semaphore to guard a resource, the way fs_support.c  *)
(* of the SDK guards the file system: ff_req_grant calls twai_sem and says *)
(* whether it returned E_OK, ff_rel_grant calls sig_sem; the file system   *)
(* works only between the two, and only when granted.  The write and read  *)
(* loops of serial.c and the owners of the SPI bus do the same without a   *)
(* time-out (they do not expect another end of the wait).  Here waits end  *)
(* by sig_sem, time-out and rel_wai at any moment, tasks are suspended and *)
(* change priority.  A task that ended its wait acts on the error code in  *)
(* its WINFO only when it runs again.                                      *)
(***************************************************************************)
EXTENDS Semaphore

CONSTANT lock      \* the semaphore

ASSUME LockAssumption == lock \in Sem /\ IsFiniteSet(Task)

VARIABLE pc        \* where each task is

lockvars == <<semvars, pc>>

LockInit == SemInit /\ pc = [t \in Task |-> "out"]

Goto(l) == pc' = [pc EXCEPT ![runtsk] = l]

Acquire(tm) ==
  /\ TSKCTX /\ pc[runtsk] = "out"
  /\ twai_sem(lock, tm)
  /\ Goto(IF semcnt[lock] >= 1 THEN "using" ELSE "waiting")

(* twai_sem returns winfo.wercd. *)
Return ==
  /\ TSKCTX_UNL /\ pc[runtsk] = "waiting"
  /\ Goto(IF k.tcb[runtsk].winfo = "E_OK" THEN "using" ELSE "out")
  /\ UNCHANGED semvars

Release ==
  /\ TSKCTX /\ pc[runtsk] = "using"
  /\ sig_sem(lock)
  /\ Goto("out")

LockCalls ==
  \/ \E tm \in {"none", "wait_tmout"} : Acquire(tm)
  \/ Return \/ Release

Using == {t \in Task : pc[t] = "using"}

(* Tasks sig_sem has given a unit to that have not run since. *)
Granted ==
  {t \in Task : pc[t] = "waiting" /\ ~WAITING(k, t) /\ k.tcb[t].winfo = "E_OK"}

(* A task that waits has not returned from twai_sem when it runs again. *)
Returned == runtsk # NULL => pc[runtsk] # "waiting"

(* What goes on besides, on other semaphores too.  Nobody ends a task that *)
(* owns a unit: the kernel would not give the unit back.                   *)
LockKernel ==
  \/ /\ task_initialize \/ kernel_start \/ IntNext \/ (INTCTX /\ (loc_cpu \/ unl_cpu))
     /\ UNCHANGED <<semcnt, pc>>
  \/ /\ \E s \in Sem \ {lock} : isig_sem(s)
     /\ UNCHANGED pc
  \/ /\ TSKCTX /\ Returned
     /\ \/ /\ TaskNext \/ loc_cpu \/ unl_cpu
           /\ ~ext_tsk /\ \A t \in Task : ~ter_tsk(t)
           /\ UNCHANGED <<semcnt, pc>>
        \/ \E s \in Sem \ {lock} : SemCallsOf(s) /\ UNCHANGED pc
        \/ ext_tsk /\ pc[runtsk] = "out" /\ UNCHANGED <<semcnt, pc>>
        \/ \E t \in Task \ (Using \cup Granted) :
             ter_tsk(t) /\ pc' = [pc EXCEPT ![t] = "out"] /\ UNCHANGED semcnt

LockNext == LockCalls \/ LockKernel

LockSpec == LockInit /\ [][LockNext]_lockvars

-----------------------------------------------------------------------------
(* No unit is lost or doubled when a time-out or rel_wai meets sig_sem:    *)
(* the units in the semaphore, in use and on their way add up.             *)
UnitsConserved ==
  semcnt[lock] + Cardinality(Using) + Cardinality(Granted) = isemcnt[lock]
=============================================================================
