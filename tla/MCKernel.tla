----------------------------- MODULE MCKernel -----------------------------
(***************************************************************************)
(* Instances of Kernel for TLC.  Task a is more urgent than b and c; b and *)
(* c share a priority.  The full next-state relation runs on a and b; with  *)
(* three tasks a smaller one keeps the instance small.                     *)
(***************************************************************************)
EXTENDS KernelInv

CONSTANTS a, b, c

MCipriority == [t \in Task |-> IF t = a THEN 0 ELSE 1]
MCtorder == IF c \in Task THEN <<b, a, c>> ELSE <<b, a>>

(* The services that move tasks in and between ready queues: no CPU lock,  *)
(* no time-outs, no task exceptions.                                       *)
SchedNext ==
  \/ task_initialize \/ kernel_start
  \/ ext_tsk \/ dis_dsp \/ ena_dsp
  \/ slp_tsk("none")
  \/ \E pri \in Pri : rot_rdq(pri) \/ irot_rdq(pri)
  \/ \E t \in Task :
       \/ act_tsk(t) \/ ter_tsk(t) \/ sus_tsk(t) \/ rsm_tsk(t)
       \/ \E pri \in Pri : chg_pri(t, pri)
       \/ iact_tsk(t) \/ iwup_tsk(t)
  \/ interrupt_enter \/ interrupt_return \/ wait_for_intr

SchedSpec == Init /\ [][SchedNext]_kvars

LiveSpec == Init /\ [][SchedNext \/ loc_cpu \/ unl_cpu]_kvars /\ Fairness
=============================================================================
