----------------------------- MODULE Semaphore -----------------------------
(***************************************************************************)
(* Semaphores, kernel/semaphore.c, on top of the kernel.                   *)
(***************************************************************************)
EXTENDS KernelInv

CONSTANTS
  Sem,           \* the semaphores; each is its own wait queue
  isemcnt,       \* initial count
  maxsem         \* maximum count

ASSUME SemAssumption ==
  /\ Sem \subseteq WObj
  /\ maxsem \in [Sem -> Nat \ {0}]
  /\ isemcnt \in [Sem -> Nat]
  /\ \A s \in Sem : isemcnt[s] <= maxsem[s]

VARIABLE semcnt

semvars == <<kvars, semcnt>>

SemInit == Init /\ semcnt = isemcnt

(* sig_sem and isig_sem; Call is TaskCall or IntCall.  At maxsem the call  *)
(* is refused with E_QOVR.                                                 *)
signal(s, Call(_, _)) ==
  IF k.wait_queue[s] # << >>
  THEN LET t == Head(k.wait_queue[s])
           k1 == [k EXCEPT !.wait_queue[s] = Tail(@)]
       IN /\ Call(wait_complete(k1, t), Disp(make_non_wait_ret(k, t)))
          /\ UNCHANGED semcnt
  ELSE /\ semcnt[s] < maxsem[s]
       /\ semcnt' = [semcnt EXCEPT ![s] = @ + 1]
       /\ Call(k, FALSE)

sig_sem(s) == TSKCTX_UNL /\ signal(s, TaskCall)
isig_sem(s) == INTCTX_UNL /\ signal(s, IntCall)

take_unit(s) ==
  /\ semcnt[s] >= 1
  /\ semcnt' = [semcnt EXCEPT ![s] = @ - 1]
  /\ TaskCall(k, FALSE)

pol_sem(s) == TSKCTX_UNL /\ take_unit(s)

(* A mistake: the last unit is not given out.  (No specification uses the  *)
(* operators with suffix _mut; they show what each property finds.)        *)
twai_sem_mut(s, tm) ==
  /\ CAN_WAIT
  /\ \/ semcnt[s] > 1 /\ take_unit(s)
     \/ /\ semcnt[s] <= 1
        /\ TaskCall(wobj_make_wait_tmout(k, runtsk, s, tm), TRUE)
        /\ UNCHANGED semcnt

(* wai_sem and twai_sem *)
twai_sem(s, tm) ==
  /\ CAN_WAIT
  /\ \/ take_unit(s)
     \/ /\ semcnt[s] < 1
        /\ TaskCall(wobj_make_wait_tmout(k, runtsk, s, tm), TRUE)
        /\ UNCHANGED semcnt

SemCallsOf(s) ==
  \/ sig_sem(s) \/ isig_sem(s) \/ pol_sem(s)
  \/ \E tm \in {"none", "wait_tmout"} : twai_sem(s, tm)

SemCalls == \E s \in Sem : SemCallsOf(s)

SemNext == SemCalls \/ (Next /\ UNCHANGED semcnt)

SemSpec == SemInit /\ [][SemNext]_semvars

-----------------------------------------------------------------------------
(* A task never waits for a unit that is there, although tasks leave the   *)
(* queue by time-out, rel_wai and ter_tsk as well as by sig_sem.           *)
SemInv ==
  \A s \in Sem :
    /\ semcnt[s] \in 0 .. maxsem[s]
    /\ k.wait_queue[s] # << >> => semcnt[s] = 0
=============================================================================
