--------------------------- MODULE KernelTables ---------------------------
(***************************************************************************)
(* The data the TOPPERS/JSP kernel keeps about tasks, and the routines of  *)
(* kernel/task.c, kernel/wait.c and kernel/queue.h that change it.         *)
(*                                                                         *)
(* The kernel runs every one of these routines in the CPU-locked state, so *)
(* each is a function from the tables before to the tables after.  The     *)
(* tables are one record k:                                                *)
(*   tcb           the task control blocks, with three fields the C struct *)
(*                 reaches through pointers:                               *)
(*                   wobj      the wait queue it is linked into            *)
(*                   tmevt     the call-back its time event block has in   *)
(*                             the time event heap, "none" if not there    *)
(*                   texlevel  activations of call_texrtn on its stack     *)
(*   ready_queue, ready_primap, schedtsk                                   *)
(*   wait_queue    the wait queues of the synchronisation objects          *)
(*                                                                         *)
(* A routine that in C returns a BOOL "a dispatch is needed" is two        *)
(* operators: the effect, and the value it returns apart from the factor   *)
(* enadsp, which Kernel.tla applies (the suffix is _ret).                  *)
(***************************************************************************)
EXTENDS Integers, Sequences, FiniteSets, SequencesExt

CONSTANTS
  Task,          \* the tasks of tinib_table
  NULL,          \* the null pointer
  TNUM_TPRI,     \* number of priority levels (16 in kernel.h)
  ipriority,     \* tinib->ipriority, internal representation
  TA_ACT,        \* tasks created with attribute TA_ACT
  torder_table,  \* the order task_initialize visits the tasks in
  texrtn,        \* tasks that define a task exception routine
  WObj,          \* wait queues of synchronisation objects
  TA_TPRI        \* those whose object has attribute TA_TPRI

(* Internal priorities; a smaller number is more urgent. *)
Pri == 0 .. TNUM_TPRI - 1

(* The configurator generates a well-formed task table. *)
ASSUME TaskAssumption ==
  /\ NULL \notin Task
  /\ TNUM_TPRI \in Nat
  /\ ipriority \in [Task -> Pri]
  /\ TA_ACT \subseteq Task
  /\ torder_table \in Seq(Task)
  /\ texrtn \subseteq Task

(* The order of initialisation is that of the configuration file, where    *)
(* each task is created once.                                              *)
ASSUME TorderAssumption ==
  \A i, j \in DOMAIN torder_table : torder_table[i] = torder_table[j] => i = j

ASSUME WObjAssumption ==
  /\ NULL \notin WObj
  /\ TA_TPRI \subseteq WObj

(* Bits of tcb->tstat; TS_DORMANT is the empty set. *)
TS_DORMANT == {}
TS_RUNNABLE == {"RUNNABLE"}
TS_WAITING == {"WAITING"}
TS_SUSPENDED == {"SUSPENDED"}
TS_SLEEPING == {"WAITING", "SLEEP"}
TS_ON_WOBJCB == {"WAITING", "WOBJ", "WOBJCB"}

RUNNABLE(k, t) == "RUNNABLE" \in k.tcb[t].tstat
WAITING(k, t) == "WAITING" \in k.tcb[t].tstat
SUSPENDED(k, t) == "SUSPENDED" \in k.tcb[t].tstat
DORMANT(k, t) == k.tcb[t].tstat = TS_DORMANT

(* WINFO is a union of the error code and the pointer to the time event    *)
(* block: while the task waits it is NULL or points to the block, from the *)
(* end of the wait on it is the error code.  E_OK is 0, like NULL.         *)
WInfo == {"NULL", "TMEVTB", "E_OK", "E_TMOUT", "E_RLWAI"}
tmevtb_set(w) == w \notin {"NULL", "E_OK"}

TmEvt == {"none", "wait_tmout", "wait_tmout_ok"}

TstatBits == {"RUNNABLE", "WAITING", "SUSPENDED", "SLEEP", "WOBJ", "WOBJCB"}

TCB ==
  [ tstat : SUBSET TstatBits,
    priority : Pri,
    actcnt : BOOLEAN,
    wupcnt : BOOLEAN,
    enatex : BOOLEAN,
    texptn : BOOLEAN,
    texlevel : Nat,
    winfo : WInfo,
    wobj : WObj \cup {NULL},
    tmevt : TmEvt ]

Tables ==
  [ tcb : [Task -> TCB],
    ready_queue : [Pri -> Seq(Task)],
    ready_primap : SUBSET Pri,
    schedtsk : Task \cup {NULL},
    wait_queue : [WObj -> Seq(Task)] ]

(* What make_dormant leaves in a TCB.  create_context discards the task's  *)
(* stack: its WINFO and its activations of call_texrtn with it.            *)
dormant_tcb(t, act, tm) ==
  [ tstat |-> TS_DORMANT,
    priority |-> ipriority[t],
    actcnt |-> act,
    wupcnt |-> FALSE,
    enatex |-> FALSE,
    texptn |-> FALSE,
    texlevel |-> 0,
    winfo |-> "NULL",
    wobj |-> NULL,
    tmevt |-> tm ]

(* The tables at reset, before task_initialize visits the first task. *)
InitTables ==
  [ tcb |-> [t \in Task |-> dormant_tcb(t, FALSE, "none")],
    ready_queue |-> [p \in Pri |-> << >>],
    ready_primap |-> {},
    schedtsk |-> NULL,
    wait_queue |-> [o \in WObj |-> << >>] ]

-----------------------------------------------------------------------------
(* queue.h and the priority-ordered insertion of wait.c *)

(* The operators with suffix _mut are the routine they precede with a      *)
(* plausible mistake; no specification uses them.  They show which mistake *)
(* each property finds.  Here: insertion at the wrong end.                 *)
queue_insert_prev_mut(q, t) == <<t>> \o q

queue_insert_prev(q, t) == Append(q, t)

queue_delete(q, t) == RemoveFirst(q, t)

(* Before the first entry of strictly lower urgency, else at the end. *)
queue_insert_tpri(k, q, t) ==
  LET after(u) == k.tcb[t].priority < k.tcb[u].priority
      pos == SelectInSeq(q, after)
  IN IF pos = 0 THEN Append(q, t) ELSE InsertAt(q, pos, t)

-----------------------------------------------------------------------------
(* task.c *)

search_schedtsk(k) ==
  LET schedpri == CHOOSE p \in k.ready_primap :
                    \A p2 \in k.ready_primap : p <= p2
  IN Head(k.ready_queue[schedpri])

(* Mistake: a task of equal priority preempts. *)
make_runnable_ret_mut(k, t) ==
  \/ k.schedtsk = NULL
  \/ k.tcb[t].priority <= k.tcb[k.schedtsk].priority

make_runnable_ret(k, t) ==
  \/ k.schedtsk = NULL
  \/ k.tcb[t].priority < k.tcb[k.schedtsk].priority

make_runnable(k, t) ==
  LET pri == k.tcb[t].priority
  IN [k EXCEPT
        !.tcb[t].tstat = TS_RUNNABLE,
        !.ready_queue[pri] = queue_insert_prev(@, t),
        !.ready_primap = @ \cup {pri},
        !.schedtsk = IF make_runnable_ret(k, t) THEN t ELSE @]

(* Takes t out of the queue of priority pri, and pri out of the bitmap     *)
(* when the queue becomes empty.                                           *)
leave_queue(k, t, pri) ==
  LET q == queue_delete(k.ready_queue[pri], t)
  IN [k EXCEPT
        !.ready_queue[pri] = q,
        !.ready_primap = IF q = << >> THEN @ \ {pri} ELSE @]

make_non_runnable_ret(k, t) == k.schedtsk = t

make_non_runnable(k, t) ==
  LET pri == k.tcb[t].priority
      k1 == leave_queue(k, t, pri)
      next == IF k1.ready_queue[pri] # << >> THEN Head(k1.ready_queue[pri])
              ELSE IF k1.ready_primap = {} THEN NULL ELSE search_schedtsk(k1)
  IN [k1 EXCEPT
        !.schedtsk = IF make_non_runnable_ret(k, t) THEN next ELSE @]

make_dormant(k, t) ==
  [k EXCEPT !.tcb[t] = dormant_tcb(t, @.actcnt, @.tmevt)]

(* A pending activation request makes a task that just became dormant      *)
(* runnable again (the shared tail of exit_task and ter_tsk).              *)
restart_ret(k, t) == k.tcb[t].actcnt /\ make_runnable_ret(k, t)

restart(k, t) ==
  IF k.tcb[t].actcnt THEN make_runnable([k EXCEPT !.tcb[t].actcnt = FALSE], t) ELSE k

exit_task(k, t) == restart(make_dormant(make_non_runnable(k, t), t), t)

(* Mistake: the task is looked for in the queue it moves to. *)
requeue_mut(k, t, newpri) ==
  LET k1 == leave_queue([k EXCEPT !.tcb[t].priority = newpri], t, newpri)
  IN [k1 EXCEPT
        !.ready_queue[newpri] = queue_insert_prev(@, t),
        !.ready_primap = @ \cup {newpri}]

(* change_priority moves the task to the tail of the queue of newpri. *)
requeue(k, t, newpri) ==
  LET k1 == leave_queue([k EXCEPT !.tcb[t].priority = newpri], t, k.tcb[t].priority)
  IN [k1 EXCEPT
        !.ready_queue[newpri] = queue_insert_prev(@, t),
        !.ready_primap = @ \cup {newpri}]

change_priority(k, t, newpri) ==
  LET k1 == requeue(k, t, newpri)
      new == IF k.schedtsk = t
             THEN IF newpri >= k.tcb[t].priority THEN search_schedtsk(k1) ELSE t
             ELSE IF newpri < k.tcb[k.schedtsk].priority THEN t ELSE k.schedtsk
  IN [k1 EXCEPT !.schedtsk = new]

change_priority_ret(k, t, newpri) ==
  change_priority(k, t, newpri).schedtsk # k.schedtsk

rotate_ready_queue_ret(k, pri) ==
  /\ Len(k.ready_queue[pri]) > 1
  /\ k.schedtsk = Head(k.ready_queue[pri])

(* Mistake: schedtsk keeps the task that was rotated away. *)
rotate_ready_queue_mut(k, pri) ==
  LET q == k.ready_queue[pri]
  IN IF Len(q) > 1
     THEN [k EXCEPT !.ready_queue[pri] = queue_insert_prev(Tail(q), Head(q))]
     ELSE k

rotate_ready_queue(k, pri) ==
  LET q == k.ready_queue[pri]
      rotated == queue_insert_prev(Tail(q), Head(q))
  IN IF Len(q) > 1
     THEN [k EXCEPT
             !.ready_queue[pri] = rotated,
             !.schedtsk = IF rotate_ready_queue_ret(k, pri)
                          THEN Head(rotated) ELSE @]
     ELSE k

-----------------------------------------------------------------------------
(* wait.c.  tm says which call-back is registered: "none" for TMO_FEVR. *)

(* Mistake: a wait without time-out leaves the last error code in WINFO. *)
make_wait_tmout_mut(k, t, stat, tm) ==
  LET k1 == make_non_runnable([k EXCEPT !.tcb[t].tstat = stat], t)
  IN [k1 EXCEPT
        !.tcb[t].winfo = IF tm = "none" THEN @ ELSE "TMEVTB",
        !.tcb[t].tmevt = tm]

make_wait_tmout(k, t, stat, tm) ==
  LET k1 == make_non_runnable([k EXCEPT !.tcb[t].tstat = stat], t)
  IN [k1 EXCEPT
        !.tcb[t].winfo = IF tm = "none" THEN "NULL" ELSE "TMEVTB",
        !.tcb[t].tmevt = tm]

make_wait(k, t, stat) == make_wait_tmout(k, t, stat, "none")

(* Mistake: the test of TS_SUSPENDED is inverted. *)
make_non_wait_ret_mut(k, t) == SUSPENDED(k, t) /\ make_runnable_ret(k, t)

make_non_wait_ret(k, t) == ~SUSPENDED(k, t) /\ make_runnable_ret(k, t)

(* Mistake: only the WAITING bit of a suspended task is cleared. *)
make_non_wait_mut(k, t) ==
  LET k1 == [k EXCEPT !.tcb[t].wobj = NULL]
  IN IF SUSPENDED(k, t) THEN [k1 EXCEPT !.tcb[t].tstat = @ \ TS_WAITING]
                        ELSE make_runnable(k1, t)

make_non_wait(k, t) ==
  LET k1 == [k EXCEPT !.tcb[t].wobj = NULL]
  IN IF SUSPENDED(k, t) THEN [k1 EXCEPT !.tcb[t].tstat = TS_SUSPENDED]
                        ELSE make_runnable(k1, t)

(* Mistake: the time event stays in the heap. *)
tmevtb_cancel_mut(k, t) == k

(* The shared head of wait_complete and wait_cancel. *)
tmevtb_cancel(k, t) ==
  IF tmevtb_set(k.tcb[t].winfo) THEN [k EXCEPT !.tcb[t].tmevt = "none"] ELSE k

wait_complete(k, t) ==
  make_non_wait([tmevtb_cancel(k, t) EXCEPT !.tcb[t].winfo = "E_OK"], t)

(* Unlinks the task from the wait queue it is in. *)
wobj_unlink(k, t) ==
  IF "WOBJ" \in k.tcb[t].tstat
  THEN [k EXCEPT !.wait_queue[k.tcb[t].wobj] = queue_delete(@, t)]
  ELSE k

(* Mistake: the task stays in the wait queue. *)
wait_tmout_mut(k, t) == make_non_wait([k EXCEPT !.tcb[t].winfo = "E_TMOUT"], t)

(* Call-back of the time event heap, which has already dropped the event. *)
wait_tmout(k, t) ==
  make_non_wait([wobj_unlink(k, t) EXCEPT !.tcb[t].winfo = "E_TMOUT"], t)

wait_tmout_ok(k, t) == make_non_wait([k EXCEPT !.tcb[t].winfo = "E_OK"], t)

wait_cancel(k, t) == wobj_unlink(tmevtb_cancel(k, t), t)

wait_release(k, t) ==
  make_non_wait([wait_cancel(k, t) EXCEPT !.tcb[t].winfo = "E_RLWAI"], t)

wobj_queue_insert(k, o, t) ==
  [k EXCEPT !.wait_queue[o] =
     IF o \in TA_TPRI THEN queue_insert_tpri(k, @, t)
                      ELSE queue_insert_prev(@, t)]

wobj_make_wait_tmout(k, t, o, tm) ==
  LET k1 == make_wait_tmout(k, t, TS_ON_WOBJCB, tm)
  IN [wobj_queue_insert(k1, o, t) EXCEPT !.tcb[t].wobj = o]

wobj_make_wait(k, t, o) == wobj_make_wait_tmout(k, t, o, "none")

(* Mistake: the wait queue is not reordered. *)
wobj_change_priority_mut(k, o, t) == k

wobj_change_priority(k, o, t) ==
  IF o \in TA_TPRI
  THEN [k EXCEPT !.wait_queue[o] =
          queue_insert_tpri(k, queue_delete(@, t), t)]
  ELSE k

-----------------------------------------------------------------------------
(* Task exceptions and the resumption of a task by the dispatcher *)

(* Entry of call_texrtn's loop: the pending causes are taken. *)
take_texptn(k, t) == [k EXCEPT !.tcb[t].enatex = FALSE, !.tcb[t].texptn = FALSE]

call_texrtn(k, t) == [take_texptn(k, t) EXCEPT !.tcb[t].texlevel = @ + 1]

tex_due(k, t) == k.tcb[t].enatex /\ k.tcb[t].texptn

calltex(k, t) == IF tex_due(k, t) THEN call_texrtn(k, t) ELSE k

(* dispatch_r: schedtsk is about to become the running task, and starts    *)
(* its exception routine when one is due.                                  *)
dispatch_r(k) ==
  IF k.schedtsk = NULL THEN k ELSE calltex(k, k.schedtsk)
=============================================================================
