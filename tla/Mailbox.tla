------------------------------ MODULE Mailbox ------------------------------
(***************************************************************************)
(* Mailboxes, kernel/mailbox.c, on top of the kernel.  The messages in a   *)
(* mailbox are linked through their own headers; a message is in one       *)
(* mailbox at most and its sender leaves it alone until it is received.    *)
(***************************************************************************)
EXTENDS KernelInv

CONSTANTS
  Mbx,           \* the mailboxes; each is its own wait queue
  TA_MPRI,       \* those with messages in priority order
  Msg,           \* the messages
  MSGPRI         \* their priorities

ASSUME MbxAssumption ==
  /\ Mbx \subseteq WObj
  /\ TA_MPRI \subseteq Mbx
  /\ MSGPRI \in [Msg -> Nat]
  /\ IsFiniteSet(Msg) /\ NULL \notin Msg

VARIABLES
  mbx_head,      \* mbxcb->head
  mbx_last,      \* mbxcb->last, which means nothing while head is NULL
  msg_next,      \* the link in each message
  arrived        \* the messages of each mailbox in the order they came

mbxvars == <<mbx_head, mbx_last, msg_next, arrived>>

MbxInit ==
  /\ Init
  /\ mbx_head = [m \in Mbx |-> NULL]
  /\ mbx_last = [m \in Mbx |-> NULL]
  /\ msg_next = [g \in Msg |-> NULL]
  /\ arrived = [m \in Mbx |-> << >>]

(* The links next lead from h on through the messages of c and no further. *)
links(next, c, h) ==
  /\ h = (IF c = << >> THEN NULL ELSE c[1])
  /\ \A i \in DOMAIN c : next[c[i]] = (IF i = Len(c) THEN NULL ELSE c[i + 1])

(* Mistake: a new message goes before those of equal priority. *)
insert_pos_mut(c, g) ==
  CHOOSE i \in 0 .. Len(c) :
    /\ \A j \in 1 .. i : MSGPRI[c[j]] < MSGPRI[g]
    /\ i < Len(c) => MSGPRI[c[i + 1]] >= MSGPRI[g]

(* How many messages enqueue_msg_pri steps over: it stops at the first of  *)
(* less urgent priority.                                                   *)
insert_pos(c, g) ==
  CHOOSE i \in 0 .. Len(c) :
    /\ \A j \in 1 .. i : MSGPRI[c[j]] <= MSGPRI[g]
    /\ i < Len(c) => MSGPRI[c[i + 1]] > MSGPRI[g]

enqueue_msg_pri(m, g) ==
  \E c \in SeqOf(Msg, Cardinality(Msg)) :
    /\ links(msg_next, c, mbx_head[m])
    /\ LET i == insert_pos(c, g)
           following == IF i < Len(c) THEN c[i + 1] ELSE NULL
       IN IF i = 0
          THEN /\ msg_next' = [msg_next EXCEPT ![g] = following]
               /\ mbx_head' = [mbx_head EXCEPT ![m] = g]
          ELSE /\ msg_next' = [msg_next EXCEPT ![g] = following, ![c[i]] = g]
               /\ UNCHANGED mbx_head

(* Mistake: a stale last is taken for the end of the queue. *)
append_msg_mut(m, g) ==
  /\ IF mbx_last[m] # NULL
     THEN /\ msg_next' = [msg_next EXCEPT ![g] = NULL, ![mbx_last[m]] = g]
          /\ UNCHANGED mbx_head
     ELSE /\ msg_next' = [msg_next EXCEPT ![g] = NULL]
          /\ mbx_head' = [mbx_head EXCEPT ![m] = g]
  /\ mbx_last' = [mbx_last EXCEPT ![m] = g]

append_msg(m, g) ==
  /\ IF mbx_head[m] # NULL
     THEN /\ msg_next' = [msg_next EXCEPT ![g] = NULL, ![mbx_last[m]] = g]
          /\ UNCHANGED mbx_head
     ELSE /\ msg_next' = [msg_next EXCEPT ![g] = NULL]
          /\ mbx_head' = [mbx_head EXCEPT ![m] = g]
  /\ mbx_last' = [mbx_last EXCEPT ![m] = g]

snd_mbx(m, g) ==
  /\ TSKCTX_UNL
  /\ \A n \in Mbx : \A i \in DOMAIN arrived[n] : arrived[n][i] # g
  /\ IF k.wait_queue[m] # << >>
     THEN LET t == Head(k.wait_queue[m])
          IN /\ TaskCall(wait_complete([k EXCEPT !.wait_queue[m] = Tail(@)], t),
                         Disp(make_non_wait_ret(k, t)))
             /\ UNCHANGED mbxvars
     ELSE /\ arrived' = [arrived EXCEPT ![m] = Append(@, g)]
          /\ TaskCall(k, FALSE)
          /\ \/ m \in TA_MPRI /\ enqueue_msg_pri(m, g) /\ UNCHANGED mbx_last
             \/ m \notin TA_MPRI /\ append_msg(m, g)

(* rcv_mbx, prcv_mbx and trcv_mbx with a message there *)
prcv_mbx(m) ==
  /\ TSKCTX_UNL
  /\ mbx_head[m] # NULL
  /\ mbx_head' = [mbx_head EXCEPT ![m] = msg_next[mbx_head[m]]]
  /\ LET i == CHOOSE i \in DOMAIN arrived[m] : arrived[m][i] = mbx_head[m]
     IN arrived' = [arrived EXCEPT ![m] = RemoveAt(@, i)]
  /\ UNCHANGED <<mbx_last, msg_next>>
  /\ TaskCall(k, FALSE)

(* rcv_mbx and trcv_mbx when they block *)
trcv_mbx(m, tm) ==
  /\ CAN_WAIT
  /\ mbx_head[m] = NULL
  /\ TaskCall(wobj_make_wait_tmout(k, runtsk, m, tm), TRUE)
  /\ UNCHANGED mbxvars

MbxCalls ==
  \E m \in Mbx :
    \/ prcv_mbx(m)
    \/ \E g \in Msg : snd_mbx(m, g)
    \/ \E tm \in {"none", "wait_tmout"} : trcv_mbx(m, tm)

MbxNext == MbxCalls \/ (Next /\ UNCHANGED mbxvars)

MbxSpec == MbxInit /\ [][MbxNext]_<<kvars, mbxvars>>

-----------------------------------------------------------------------------
(* The message g has been in m for longer than h. *)
before(m, g, h) ==
  \E i, j \in DOMAIN arrived[m] : i < j /\ arrived[m][i] = g /\ arrived[m][j] = h

(* g is received from m before h. *)
ahead(m, g, h) ==
  \/ m \in TA_MPRI /\ MSGPRI[g] < MSGPRI[h]
  \/ (m \in TA_MPRI => MSGPRI[g] = MSGPRI[h]) /\ before(m, g, h)

(* The links run through exactly the messages that have arrived and not    *)
(* been received, by priority where the mailbox asks for it and in order   *)
(* of arrival otherwise, and end there; no task waits for a message that   *)
(* is there.                                                               *)
MbxInv ==
  \A m \in Mbx : \E c \in SeqOf(Msg, Cardinality(Msg)) :
    /\ links(msg_next, c, mbx_head[m])
    /\ Members(c) = Members(arrived[m])
    /\ \A i, j \in DOMAIN c : i < j => ahead(m, c[i], c[j])
    /\ c # << >> => k.wait_queue[m] = << >>
=============================================================================
