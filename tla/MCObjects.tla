----------------------------- MODULE MCObjects -----------------------------
(***************************************************************************)
(* An instance for TLC of the synchronisation objects over one kernel      *)
(* (semaphore, file system lock, event flag, mailbox, memory pool, data    *)
(* queue, heap) and of the system log.  A behaviour is about one of them,  *)
(* which served names.  Task t1 is more urgent than t2 and t3, and t3      *)
(* starts when another task activates it; semaphores and the pool queue by *)
(* priority.                                                               *)
(***************************************************************************)
EXTENDS SemLock, EventFlag, Mailbox, MemPool, DataQueue, Heap, SysLog

CONSTANTS t1, t2, t3, sem, flg, flgclr, fifo, bypri, pool, m1, m2, m3, d1, d2

VARIABLE served

MCipriority == [t \in Task |-> IF t = t1 THEN 0 ELSE 1]
MCtorder == <<t2, t1, t3>>
MCisemcnt == [s \in Sem |-> 1]
MCmaxsem == [s \in Sem |-> IF s = lock THEN 1 ELSE 2]
MCiflgptn == [f \in Flg |-> {}]
MCMSGPRI == [m \in Msg |-> IF m = m1 THEN 1 ELSE 2]
MClimit == [m \in Mpf |-> 2]

objvars == <<semcnt, pc, flgvars, mbxvars, mpfvars, dtqvars, heap, logvars>>

ObjInit ==
  /\ LockInit /\ FlgInit /\ MbxInit /\ MpfInit /\ DtqInit /\ HeapInit /\ LogInit
  /\ served \in {"semaphore", "lock", "eventflag", "mailbox", "mempool",
                 "dataqueue", "heap", "log"}

(* Activations are those of dormant tasks; MCKernel covers queued ones. *)
Activate(t) == DORMANT(k, t) /\ act_tsk(t)

(* What goes on besides the calls on the lock, and besides malloc and free. *)
LockElsewhere ==
  /\ \/ task_initialize \/ kernel_start
     \/ interrupt_enter \/ interrupt_return \/ wait_for_intr
     \/ \E t \in Task : irel_wai(t) \/ timeout(t)
     \/ /\ Returned
        /\ \/ dis_dsp \/ ena_dsp \/ Activate(t3)
           \/ \E t \in Task :
                \/ sus_tsk(t) \/ rsm_tsk(t) \/ rel_wai(t)
                \/ \E pri \in Pri : chg_pri(t, pri)
  /\ UNCHANGED <<semcnt, pc>>

HeapElsewhere ==
  /\ \/ interrupt_enter \/ interrupt_return \/ wait_for_intr
     \/ \E t \in Task : DORMANT(k, t) /\ iact_tsk(t)
     \/ \E t \in Task : iwup_tsk(t) \/ timeout(t)
     \/ /\ TSKCTX /\ heap[runtsk] = "out"
        /\ \/ dis_dsp \/ ena_dsp \/ loc_cpu \/ unl_cpu
           \/ slp_tsk("wait_tmout")
           \/ \E t \in Task : wup_tsk(t)
  /\ UNCHANGED heap

(* A part's own state changes, the other parts' does not. *)
ObjCalls ==
  \/ /\ served = "semaphore" /\ SemCallsOf(sem)
     /\ UNCHANGED <<pc, flgvars, mbxvars, mpfvars, dtqvars, heap, logvars>>
  \/ /\ served = "lock"
     /\ LockCalls \/ LockElsewhere
     /\ UNCHANGED <<flgvars, mbxvars, mpfvars, dtqvars, heap, logvars>>
  \/ /\ served = "eventflag" /\ (FlgCalls \/ wai_flg_return)
     /\ UNCHANGED <<semcnt, pc, mbxvars, mpfvars, dtqvars, heap, logvars>>
  \/ /\ served = "mailbox" /\ MbxCalls
     /\ UNCHANGED <<semcnt, pc, flgvars, mpfvars, dtqvars, heap, logvars>>
  \/ /\ served = "mempool" /\ MpfCalls
     /\ UNCHANGED <<semcnt, pc, flgvars, mbxvars, dtqvars, heap, logvars>>
  \/ /\ served = "dataqueue" /\ DtqCalls
     /\ UNCHANGED <<semcnt, pc, flgvars, mbxvars, mpfvars, heap, logvars>>
  \/ /\ served = "heap" /\ (HeapCalls \/ HeapElsewhere)
     /\ UNCHANGED <<semcnt, pc, flgvars, mbxvars, mpfvars, dtqvars, logvars>>
  \/ /\ served = "log" /\ LogNext
     /\ UNCHANGED <<kvars, semcnt, pc, flgvars, mbxvars, mpfvars, dtqvars, heap>>

(* The calls that run tasks and end or reorder waits; the third task has a *)
(* part in a data queue only where that has no ring.                       *)
KernelCalls ==
  /\ served # "log"
  /\ \/ task_initialize \/ kernel_start
     \/ /\ served \notin {"lock", "heap"}
        /\ \/ interrupt_enter \/ interrupt_return \/ wait_for_intr
           \/ \E t \in Task : timeout(t)
     \/ served # "mailbox" /\ \E t \in Task : irel_wai(t)
     \/ /\ served = "eventflag" /\ runtsk # NULL /\ ~in_wai_flg(runtsk)
        /\ \E t \in Task : rel_wai(t)
     \/ /\ served \in {"semaphore", "mempool"}
        /\ \E t \in Task : rel_wai(t) \/ sus_tsk(t) \/ rsm_tsk(t)
     \/ served \in {"mailbox", "mempool"} /\ Activate(t3)
     \/ /\ served = "semaphore"
        /\ \/ ext_tsk
           \/ \E t \in Task :
                Activate(t) \/ ter_tsk(t) \/ \E pri \in Pri : chg_pri(t, pri)
     \/ /\ served = "dataqueue"
        /\ \/ ext_tsk
           \/ \E t \in Task : ter_tsk(t)
           \/ \E t \in Task : (t = t3 => dtqcnt = 0) /\ DORMANT(k, t) /\ iact_tsk(t)
  /\ UNCHANGED objvars

ObjNext == (ObjCalls \/ KernelCalls) /\ UNCHANGED served

ObjSpec == ObjInit /\ [][ObjNext]_<<kvars, objvars, served>>
=============================================================================
