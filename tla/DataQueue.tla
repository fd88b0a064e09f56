----------------------------- MODULE DataQueue -----------------------------
(***************************************************************************)
(* One data queue of kernel/dataqueue.c on top of the kernel: a ring of    *)
(* dtqcnt cells, a queue of blocked senders (the common wait queue of the  *)
(* DTQCB) and a queue of blocked receivers, which is not the common one:   *)
(* its tasks have no TS_WAIT_WOBJCB and always wait in order of arrival.   *)
(***************************************************************************)
EXTENDS KernelInv

CONSTANTS
  swait_queue,   \* the wait queue of the senders
  rwait_queue,   \* the wait queue of the receivers
  Capacity,      \* capacities of the ring to consider, 0 among them or not
  Data

ASSUME DtqAssumption ==
  /\ {swait_queue, rwait_queue} \subseteq WObj
  /\ swait_queue # rwait_queue
  /\ rwait_queue \notin TA_TPRI
  /\ Capacity \subseteq Nat
  /\ Data # {}

VARIABLES
  ring,          \* the cells, as a function on 0 .. dtqcnt - 1
  count, head, tail,
  offer,         \* per task, winfo->data of its last blocked send
  received       \* the last delivery: <<receiver, data>>, by *p_data or winfo

ringvars == <<ring, count, head, tail>>
dtqvars == <<ringvars, offer, received>>
vars == <<kvars, dtqvars>>

(* The capacity is fixed when the queue is configured. *)
dtqcnt == Cardinality(DOMAIN ring)

AnyData == CHOOSE d \in Data : TRUE

DtqInit ==
  /\ Init
  /\ \E n \in Capacity : ring = [i \in 0 .. n - 1 |-> AnyData]
  /\ count = 0 /\ head = 0 /\ tail = 0
  /\ offer = [t \in Task |-> AnyData]
  /\ received = << >>

(* A mistake: the index wraps one cell late.  (No specification uses the   *)
(* operators with suffix _mut; they show what each property finds.)        *)
next_mut(i) == IF i + 1 > dtqcnt THEN 0 ELSE i + 1

next(i) == IF i + 1 >= dtqcnt THEN 0 ELSE i + 1

TS_RECEIVING == {"WAITING", "WOBJ"}

(* send_data_rwait and wait_complete: d goes to the first receiver. *)
send_data_rwait(d, Call(_, _)) ==
  /\ k.wait_queue[rwait_queue] # << >>
  /\ LET t == Head(k.wait_queue[rwait_queue])
         k1 == [k EXCEPT !.wait_queue[rwait_queue] = Tail(@)]
     IN /\ received' = <<t, d>>
        /\ Call(wait_complete(k1, t), Disp(make_non_wait_ret(k, t)))
  /\ UNCHANGED <<ringvars, offer>>

no_receiver == k.wait_queue[rwait_queue] = << >>

enqueue_data(d, Call(_, _)) ==
  /\ no_receiver
  /\ count < dtqcnt
  /\ ring' = [ring EXCEPT ![tail] = d]
  /\ count' = count + 1
  /\ tail' = next(tail)
  /\ UNCHANGED <<head, offer, received>>
  /\ Call(k, FALSE)

force_enqueue_data(d, Call(_, _)) ==
  /\ no_receiver
  /\ ring' = [ring EXCEPT ![tail] = d]
  /\ tail' = next(tail)
  /\ IF count < dtqcnt THEN count' = count + 1 /\ UNCHANGED head
                       ELSE head' = next(tail) /\ UNCHANGED count
  /\ UNCHANGED <<offer, received>>
  /\ Call(k, FALSE)

(* psnd_dtq and ipsnd_dtq *)
psnd(d, Call(_, _)) == send_data_rwait(d, Call) \/ enqueue_data(d, Call)

psnd_dtq(d) == TSKCTX_UNL /\ psnd(d, TaskCall)
ipsnd_dtq(d) == INTCTX_UNL /\ psnd(d, IntCall)

(* fsnd_dtq and ifsnd_dtq *)
fsnd(d, Call(_, _)) ==
  /\ dtqcnt > 0
  /\ send_data_rwait(d, Call) \/ force_enqueue_data(d, Call)

fsnd_dtq(d) == TSKCTX_UNL /\ fsnd(d, TaskCall)
ifsnd_dtq(d) == INTCTX_UNL /\ fsnd(d, IntCall)

(* snd_dtq and tsnd_dtq: the sender blocks when the ring is full. *)
tsnd_dtq(d, tm) ==
  /\ CAN_WAIT
  /\ \/ psnd(d, TaskCall)
     \/ /\ no_receiver
        /\ count >= dtqcnt
        /\ offer' = [offer EXCEPT ![runtsk] = d]
        /\ TaskCall(wobj_make_wait_tmout(k, runtsk, swait_queue, tm), TRUE)
        /\ UNCHANGED <<ringvars, received>>

sender == Head(k.wait_queue[swait_queue])
complete_sender ==
  TaskCall(wait_complete([k EXCEPT !.wait_queue[swait_queue] = Tail(@)],
                         sender),
           Disp(make_non_wait_ret(k, sender)))

(* Mistake: the first blocked sender is released, its data forgotten. *)
dequeue_data_mut ==
  /\ count > 0
  /\ received' = <<runtsk, ring[head]>>
  /\ head' = next(head)
  /\ count' = count - 1
  /\ IF k.wait_queue[swait_queue] = << >> THEN TaskCall(k, FALSE) ELSE complete_sender
  /\ UNCHANGED <<ring, tail, offer>>

(* dequeue_data; the cell it frees takes the first blocked sender's data. *)
dequeue_data ==
  /\ count > 0
  /\ received' = <<runtsk, ring[head]>>
  /\ head' = next(head)
  /\ IF k.wait_queue[swait_queue] = << >>
     THEN /\ count' = count - 1
          /\ UNCHANGED <<ring, tail>>
          /\ TaskCall(k, FALSE)
     ELSE /\ ring' = [ring EXCEPT ![tail] = offer[sender]]
          /\ tail' = next(tail)
          /\ UNCHANGED count
          /\ complete_sender
  /\ UNCHANGED offer

(* With dtqcnt = 0 the data comes straight from a blocked sender. *)
receive_data_swait ==
  /\ count = 0
  /\ k.wait_queue[swait_queue] # << >>
  /\ received' = <<runtsk, offer[sender]>>
  /\ complete_sender
  /\ UNCHANGED <<ringvars, offer>>

receive == dequeue_data \/ receive_data_swait

prcv_dtq == TSKCTX_UNL /\ receive

(* Mistake: an empty ring is taken for the absence of senders. *)
trcv_dtq_mut(tm) ==
  /\ CAN_WAIT
  /\ \/ dequeue_data
     \/ /\ count = 0
        /\ LET k1 == make_wait_tmout(k, runtsk, TS_RECEIVING, tm)
               k2 == [k1 EXCEPT !.wait_queue[rwait_queue] =
                        queue_insert_prev(@, runtsk)]
           IN TaskCall([k2 EXCEPT !.tcb[runtsk].wobj = rwait_queue], TRUE)
        /\ UNCHANGED dtqvars

(* rcv_dtq and trcv_dtq *)
trcv_dtq(tm) ==
  /\ CAN_WAIT
  /\ \/ receive
     \/ /\ count = 0
        /\ k.wait_queue[swait_queue] = << >>
        /\ LET k1 == make_wait_tmout(k, runtsk, TS_RECEIVING, tm)
               k2 == [k1 EXCEPT !.wait_queue[rwait_queue] =
                        queue_insert_prev(@, runtsk)]
           IN TaskCall([k2 EXCEPT !.tcb[runtsk].wobj = rwait_queue], TRUE)
        /\ UNCHANGED dtqvars

DtqCalls ==
  \/ prcv_dtq
  \/ \E tm \in {"none", "wait_tmout"} : trcv_dtq(tm)
  \/ \E d \in Data :
       \/ psnd_dtq(d) \/ ipsnd_dtq(d) \/ fsnd_dtq(d) \/ ifsnd_dtq(d)
       \/ \E tm \in {"none", "wait_tmout"} : tsnd_dtq(d, tm)

DtqNext == DtqCalls \/ (Next /\ UNCHANGED dtqvars)

DtqSpec == DtqInit /\ [][DtqNext]_vars

-----------------------------------------------------------------------------
(* Nobody waits without reason: blocked senders mean a full ring, blocked  *)
(* receivers an empty one and no sender, although waits also end by        *)
(* time-out, rel_wai and ter_tsk; head, tail and count agree.              *)
DtqInv ==
  /\ count \in 0 .. dtqcnt
  /\ dtqcnt > 0 => tail = (head + count) % dtqcnt
  /\ k.wait_queue[swait_queue] # << >> => count = dtqcnt
  /\ k.wait_queue[rwait_queue] # << >> =>
       count = 0 /\ k.wait_queue[swait_queue] = << >>

-----------------------------------------------------------------------------
(* What a data queue promises, module Channel: the buffered data followed  *)
(* by the data of the blocked senders is one first-in first-out line.      *)
buffered == [i \in 1 .. count |-> ring[(head + i - 1) % dtqcnt]]
offered == [i \in DOMAIN k.wait_queue[swait_queue] |->
              offer[k.wait_queue[swait_queue][i]]]

C == INSTANCE Channel WITH
       cap <- dtqcnt,
       line <- buffered \o offered,
       senders <- k.wait_queue[swait_queue],
       takers <- k.wait_queue[rwait_queue],
       delivered <- received

(* Every step of the kernel and of the data queue calls is a step of the   *)
(* channel or leaves it alone: nothing is lost (but what fsnd_dtq drops),  *)
(* doubled or overtaken.                                                   *)
ImplementsChannel == C!Spec
=============================================================================
