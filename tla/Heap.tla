-------------------------------- MODULE Heap --------------------------------
(***************************************************************************)
(* malloc and free of kz_malloc.c over the kernel.  They keep the compiler *)
(* library's heap routines to one task at a time with dis_dsp and ena_dsp, *)
(* or leave the CPU-locked state they are called in alone.  Handlers do    *)
(* not call them; before the kernel runs only one thread of control does.  *)
(* The two functions differ in the library routine they call, which is     *)
(* external, so they are one operation here.                               *)
(***************************************************************************)
EXTENDS KernelInv

VARIABLE heap      \* per task: "out" of malloc and free, "held" (dispatching
                   \* disabled by them) or "locked" (called CPU-locked)

HeapInit == heap = [t \in Task |-> "out"]

(* Mistake: without dis_dsp. *)
malloc_mut ==
  /\ TSKCTX /\ heap[runtsk] = "out"
  /\ heap' = [heap EXCEPT ![runtsk] = IF cpulock THEN "locked" ELSE "held"]
  /\ UNCHANGED kvars

(* iniflg && !sense_lock() decides. *)
malloc ==
  /\ TSKCTX /\ heap[runtsk] = "out"
  /\ \/ /\ cpulock
        /\ heap' = [heap EXCEPT ![runtsk] = "locked"]
        /\ UNCHANGED kvars
     \/ /\ heap' = [heap EXCEPT ![runtsk] = "held"]
        /\ dis_dsp

malloc_return ==
  /\ TSKCTX /\ heap[runtsk] # "out"
  /\ heap' = [heap EXCEPT ![runtsk] = "out"]
  /\ IF heap[runtsk] = "held" THEN ena_dsp ELSE UNCHANGED kvars

HeapCalls == malloc \/ malloc_return

(* What tasks and handlers do besides, in sections of their own as well.   *)
(* A task inside malloc or free makes no call, nor do its exception        *)
(* routines.                                                               *)
HeapKernel ==
  /\ \/ task_initialize \/ kernel_start \/ IntNext \/ (INTCTX /\ (loc_cpu \/ unl_cpu))
     \/ TSKCTX /\ heap[runtsk] = "out" /\ (TaskNext \/ loc_cpu \/ unl_cpu)
  /\ UNCHANGED heap

HeapNext == HeapCalls \/ HeapKernel

HeapSpec == Init /\ HeapInit /\ [][HeapNext]_<<kvars, heap>>

-----------------------------------------------------------------------------
(* While a task is inside the heap no other task runs: neither a handler   *)
(* that readies a more urgent one, nor a call of malloc made in a section  *)
(* with dispatching disabled, which ends that section, lets one in.        *)
HeapExclusive == \A t \in Task : heap[t] # "out" => runtsk = t
=============================================================================
