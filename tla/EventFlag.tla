----------------------------- MODULE EventFlag -----------------------------
(***************************************************************************)
(* Event flags, kernel/eventflag.c, on top of the kernel.  A flag has one  *)
(* waiter at most.  The waiting task's WINFO_FLG says what it waits for,   *)
(* and receives the pattern that ended the wait; the task reads that when  *)
(* it runs again, maybe after other tasks have changed the flag.           *)
(***************************************************************************)
EXTENDS KernelInv

CONSTANTS
  Flg,           \* the event flags; each is its own wait queue
  iflgptn,       \* initial patterns
  TA_CLR,        \* the flags a wait clears
  Bit            \* the bits of a pattern

ASSUME FlgAssumption ==
  /\ Flg \subseteq WObj
  /\ iflgptn \in [Flg -> SUBSET Bit]
  /\ TA_CLR \subseteq Flg

VARIABLES
  flgptn,        \* the pattern of each flag
  winfo_flg      \* the WINFO_FLG on the stack of each task in wai_flg

flgvars == <<flgptn, winfo_flg>>

Wait(p, mode, ptn) == [waiptn |-> p, wfmode |-> mode, flgptn |-> ptn]

NoWait == Wait({}, "none", {})

FlgInit ==
  /\ Init
  /\ flgptn = iflgptn
  /\ winfo_flg = [t \in Task |-> NoWait]

(* Mistake: the mode is ignored. *)
eventflag_cond_mut(ptn, p, mode) == ptn \cap p # {}

eventflag_cond(ptn, p, mode) ==
  IF mode = "TWF_ORW" THEN ptn \cap p # {} ELSE p \subseteq ptn

after_wait(f, ptn) == IF f \in TA_CLR THEN {} ELSE ptn

ends_wait(f, ptn) ==
  LET q == k.wait_queue[f]
  IN /\ q # << >>
     /\ eventflag_cond(ptn, winfo_flg[Head(q)].waiptn, winfo_flg[Head(q)].wfmode)

(* set_flg and iset_flg; Call is TaskCall or IntCall *)
set(f, p, Call(_, _)) ==
  LET ptn == flgptn[f] \cup p
      t == Head(k.wait_queue[f])
  IN IF ends_wait(f, ptn)
     THEN /\ flgptn' = [flgptn EXCEPT ![f] = after_wait(f, ptn)]
          /\ winfo_flg' = [winfo_flg EXCEPT ![t].flgptn = ptn]
          /\ Call(wait_complete([k EXCEPT !.wait_queue[f] = Tail(@)], t),
                  Disp(make_non_wait_ret(k, t)))
     ELSE /\ flgptn' = [flgptn EXCEPT ![f] = ptn]
          /\ UNCHANGED winfo_flg
          /\ Call(k, FALSE)

set_flg(f, p) == TSKCTX_UNL /\ set(f, p, TaskCall)
iset_flg(f, p) == INTCTX_UNL /\ set(f, p, IntCall)

clr_flg(f, p) ==
  /\ TSKCTX_UNL
  /\ flgptn' = [flgptn EXCEPT ![f] = @ \cap p]
  /\ UNCHANGED winfo_flg
  /\ TaskCall(k, FALSE)

(* Also the wait that need not block.  A second waiter gets E_ILUSE. *)
pol_flg(f, p, mode) ==
  /\ TSKCTX_UNL
  /\ k.wait_queue[f] = << >>
  /\ eventflag_cond(flgptn[f], p, mode)
  /\ flgptn' = [flgptn EXCEPT ![f] = after_wait(f, @)]
  /\ UNCHANGED winfo_flg
  /\ TaskCall(k, FALSE)

(* Mistake: a second task may wait. *)
twai_flg_mut(f, p, mode, tm) ==
  /\ CAN_WAIT
  /\ ~eventflag_cond(flgptn[f], p, mode)
  /\ winfo_flg' = [winfo_flg EXCEPT ![runtsk] = Wait(p, mode, {})]
  /\ TaskCall(wobj_make_wait_tmout(k, runtsk, f, tm), TRUE)
  /\ UNCHANGED flgptn

(* wai_flg and twai_flg when they block *)
twai_flg(f, p, mode, tm) ==
  /\ CAN_WAIT
  /\ k.wait_queue[f] = << >>
  /\ ~eventflag_cond(flgptn[f], p, mode)
  /\ winfo_flg' = [winfo_flg EXCEPT ![runtsk] = Wait(p, mode, {})]
  /\ TaskCall(wobj_make_wait_tmout(k, runtsk, f, tm), TRUE)
  /\ UNCHANGED flgptn

in_wai_flg(t) == winfo_flg[t] # NoWait

(* wai_flg returns to its task with the pattern in WINFO_FLG. *)
wai_flg_return ==
  /\ TSKCTX
  /\ in_wai_flg(runtsk)
  /\ winfo_flg' = [winfo_flg EXCEPT ![runtsk] = NoWait]
  /\ UNCHANGED <<kvars, flgptn>>

FlgCalls ==
  \E f \in Flg, p \in SUBSET Bit \ {{}} :
    \/ iset_flg(f, p)
    \/ /\ runtsk # NULL => ~in_wai_flg(runtsk)
       /\ \/ set_flg(f, p) \/ clr_flg(f, Bit \ p)
          \/ \E mode \in {"TWF_ANDW", "TWF_ORW"} :
               \/ pol_flg(f, p, mode)
               \/ \E tm \in {"none", "wait_tmout"} : twai_flg(f, p, mode, tm)

(* A task is inside wai_flg until that returns, so it makes no call before *)
(* then, nor do its exception routines; and ter_tsk discards the stack the *)
(* WINFO_FLG is on.                                                        *)
FlgKernel ==
  \/ /\ task_initialize \/ kernel_start \/ IntNext \/ (INTCTX /\ (loc_cpu \/ unl_cpu))
     /\ UNCHANGED winfo_flg
  \/ /\ TSKCTX /\ ~in_wai_flg(runtsk)
     /\ \/ /\ TaskNext \/ loc_cpu \/ unl_cpu
           /\ \A t \in Task : ~ter_tsk(t)
           /\ UNCHANGED winfo_flg
        \/ \E t \in Task : ter_tsk(t) /\ winfo_flg' = [winfo_flg EXCEPT ![t] = NoWait]

FlgNext == FlgCalls \/ wai_flg_return \/ (FlgKernel /\ UNCHANGED flgptn)

FlgSpec == FlgInit /\ [][FlgNext]_<<kvars, flgvars>>

-----------------------------------------------------------------------------
Satisfies(ptn, w) ==
  \/ w.wfmode = "TWF_ANDW" /\ w.waiptn \subseteq ptn
  \/ w.wfmode = "TWF_ORW" /\ w.waiptn \cap ptn # {}

(* At most one task waits for a flag and its condition does not hold; and  *)
(* a task whose wait was ended by set_flg reads a pattern that satisfied   *)
(* its condition, whatever others did to the flag before it ran again.     *)
FlgInv ==
  /\ \A f \in Flg :
       LET q == k.wait_queue[f]
       IN /\ Len(q) <= 1
          /\ q # << >> => ~Satisfies(flgptn[f], winfo_flg[Head(q)])
  /\ \A t \in Task :
       in_wai_flg(t) /\ ~WAITING(k, t) /\ k.tcb[t].winfo = "E_OK" =>
         Satisfies(winfo_flg[t].flgptn, winfo_flg[t])
=============================================================================
