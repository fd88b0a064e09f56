---------------------------- MODULE SerialProofs ----------------------------
(***************************************************************************)
(* Proofs about the serial interface driver, for any number of tasks and   *)
(* buffers of any size: the semaphores mirror the counts, no character is  *)
(* lost, doubled or overtaken, and a pending START or STOP has its         *)
(* interrupt.  All but the last assume that the port is closed only when   *)
(* drained (CloseDrained).                                                 *)
(***************************************************************************)
EXTENDS Serial, FiniteSetTheorems, TLAPS

Places == {"out", "wai_snd", "wri", "sig_snd", "wai_rcv", "rea", "sig_rcv"}

Types ==
  /\ openflag \in BOOLEAN /\ ier \subseteq {"RX", "TX"}
  /\ at \in [Task -> Places]
  /\ ret \in [Task -> {"out", "wai_rcv", "rea", "sig_rcv"}]
  /\ sem \in [rcv : {0, 1}, snd : {0, 1}]
  /\ rcv_count \in 0 .. SERIAL_BUFSZ

(* The send token and the receive token, without counting: the token is in *)
(* the semaphore, with exactly one task, or not there at all.              *)
Writing(t) == at[t] \in {"wri", "sig_snd"}

SndToken ==
  \/ sem.snd = 0 /\ snd_count = SERIAL_BUFSZ /\ \A t \in Task : ~Writing(t)
  \/ sem.snd = 1 /\ snd_count < SERIAL_BUFSZ /\ \A t \in Task : ~Writing(t)
  \/ /\ sem.snd = 0 /\ snd_count < SERIAL_BUFSZ
     /\ \E t \in Task : Writing(t) /\ \A u \in Task \ {t} : ~Writing(u)

RcvToken ==
  \/ sem.rcv = 0 /\ rcv_count = 0 /\ \A t \in Task : ~HoldsRcv(t)
  \/ sem.rcv = 1 /\ rcv_count > 0 /\ \A t \in Task : ~HoldsRcv(t)
  \/ /\ sem.rcv = 0 /\ rcv_count > 0
     /\ \E t \in Task : HoldsRcv(t) /\ \A u \in Task \ {t} : ~HoldsRcv(u)

(* The sum of a and b in a circle of n places. *)
Plus(a, b, n) == IF a + b < n THEN a + b ELSE a + b - n

(* snd_buffer holds the characters that follow sent, in order. *)
Line ==
  /\ sent \in 0 .. SERIAL_BUFSZ /\ snd_count \in 0 .. SERIAL_BUFSZ
  /\ snd_read_ptr \in 0 .. SERIAL_BUFSZ - 1
  /\ DOMAIN snd_buffer = 0 .. SERIAL_BUFSZ - 1
  /\ written = Plus(sent, snd_count, Stamps)
  /\ snd_write_ptr = Plus(snd_read_ptr, snd_count, SERIAL_BUFSZ)
  /\ \A i \in 0 .. snd_count - 1 :
       snd_buffer[Plus(snd_read_ptr, i, SERIAL_BUFSZ)] = Plus(sent, i + 1, Stamps)

(* A closed port has nothing left in it. *)
Closed == ~openflag => Drained /\ ier = {}

SerIInv == Types /\ SndToken /\ RcvToken /\ Line /\ Closed

-----------------------------------------------------------------------------
(* The remainder of a number below twice the divisor. *)
LEMMA Rest ==
  ASSUME NEW n \in Nat \ {0}, NEW x \in 0 .. 2 * n - 1
  PROVE  x % n = IF x < n THEN x ELSE x - n
<1>1. CASE x < n
  BY <1>1, SMTT(30)
<1>2. CASE ~(x < n)
  BY <1>2, SMTT(30)
<1> QED
  BY <1>1, <1>2

(* Sizes and successors. *)
LEMMA Sizes ==
  /\ SERIAL_BUFSZ \in Nat \ {0} /\ Stamps = SERIAL_BUFSZ + 1 /\ UIntRange \in Nat
  /\ SERIAL_BUFSZ + 1 < UIntRange
  /\ \A n \in 0 .. SERIAL_BUFSZ : Succ(n) = Plus(n, 1, Stamps) /\ Succ(n) \in 0 .. SERIAL_BUFSZ
  /\ \A p \in 0 .. SERIAL_BUFSZ - 1 :
       INC_PTR(p) = Plus(p, 1, SERIAL_BUFSZ) /\ INC_PTR(p) \in 0 .. SERIAL_BUFSZ - 1
<1>1. /\ SERIAL_BUFSZ \in Nat \ {0} /\ Stamps = SERIAL_BUFSZ + 1 /\ UIntRange \in Nat
      /\ SERIAL_BUFSZ + 1 < UIntRange
  BY SerialAssumption DEF Stamps
<1>2. ASSUME NEW n \in 0 .. SERIAL_BUFSZ
      PROVE  Succ(n) = Plus(n, 1, Stamps) /\ Succ(n) \in 0 .. SERIAL_BUFSZ
  <2> DEFINE m == Stamps
             x == n + 1
  <2>1. m \in Nat \ {0} /\ x \in 0 .. 2 * m - 1 /\ x <= m
    BY <1>1
  <2> HIDE DEF m, x
  <2>2. x % m = IF x < m THEN x ELSE x - m
    BY <2>1, Rest
  <2>3. Succ(n) = IF x < m THEN x ELSE x - m
    BY <2>2, Zenon DEF Succ, m, x
  <2> QED
    BY <1>1, <2>1, <2>3 DEF Plus, m, x
<1>3. ASSUME NEW p \in 0 .. SERIAL_BUFSZ - 1
      PROVE  INC_PTR(p) = Plus(p, 1, SERIAL_BUFSZ) /\ INC_PTR(p) \in 0 .. SERIAL_BUFSZ - 1
  <2> DEFINE m == SERIAL_BUFSZ
             x == p + 1
  <2>1. m \in Nat \ {0} /\ x \in 0 .. 2 * m - 1 /\ x <= m
    BY <1>1
  <2> HIDE DEF m, x
  <2>2. x % m = IF x < m THEN x ELSE x - m
    BY <2>1, Rest
  <2>3. INC_PTR(p) = IF x < m THEN x ELSE x - m
    BY <2>2, Zenon DEF INC_PTR, m, x
  <2> QED
    BY <1>1, <2>1, <2>3 DEF Plus, m, x
<1> QED
  BY <1>1, <1>2, <1>3

-----------------------------------------------------------------------------
(* The parts of Line that a step of the send side needs to know. *)
LEMMA LineBounds ==
  ASSUME Line
  PROVE  /\ written \in 0 .. SERIAL_BUFSZ
         /\ snd_count < SERIAL_BUFSZ => snd_write_ptr \in 0 .. SERIAL_BUFSZ - 1
         /\ snd_count > 0 => snd_buffer[snd_read_ptr] = Succ(sent)
         /\ snd_count = 0 => written = sent
<1>1. written \in 0 .. SERIAL_BUFSZ /\ (snd_count = 0 => written = sent)
  BY Sizes DEF Line, Plus
<1>2. snd_count < SERIAL_BUFSZ => snd_write_ptr \in 0 .. SERIAL_BUFSZ - 1
  BY Sizes DEF Line, Plus
<1>3. ASSUME snd_count > 0  PROVE snd_buffer[snd_read_ptr] = Succ(sent)
  <2>1. 0 \in 0 .. snd_count - 1 /\ Plus(snd_read_ptr, 0, SERIAL_BUFSZ) = snd_read_ptr
    BY <1>3, Sizes DEF Line, Plus
  <2>2. snd_buffer[snd_read_ptr] = Plus(sent, 0 + 1, Stamps)
    BY <2>1 DEF Line
  <2> QED
    BY <2>2, Sizes DEF Line
<1> QED
  BY <1>1, <1>2, <1>3

(* A step that neither accepts nor sends a character. *)
LEMMA LineStays ==
  ASSUME Line,
         UNCHANGED <<snd_buffer, snd_read_ptr, snd_write_ptr, snd_count, sent, written>>
  PROVE  Line'
BY DEF Line

(* A character that is written and sent at once. *)
LEMMA LineDirect ==
  ASSUME Line, snd_count = 0, written' = Succ(written), sent' = Succ(written),
         UNCHANGED <<snd_buffer, snd_read_ptr, snd_write_ptr, snd_count>>
  PROVE  Line' /\ sent' = Succ(sent)
<1>1. written = sent
  BY LineBounds
<1>2. sent' = Succ(sent) /\ sent' \in 0 .. SERIAL_BUFSZ
  BY <1>1, Sizes DEF Line
<1> QED
  BY <1>1, <1>2, Sizes DEF Line, Plus

(* A character that is written into snd_buffer. *)
LEMMA LinePut ==
  ASSUME Line, snd_count < SERIAL_BUFSZ, written' = Succ(written),
         put_snd_buffer(Succ(written)), UNCHANGED <<sent, snd_read_ptr>>
  PROVE  Line'
<1> DEFINE B == SERIAL_BUFSZ
           c == Plus(written, 1, Stamps)
<1>1. /\ Succ(written) = c /\ written \in 0 .. B /\ snd_write_ptr \in 0 .. B - 1
      /\ INC_PTR(snd_write_ptr) = Plus(snd_write_ptr, 1, B)
  BY LineBounds, Sizes
<1>2. /\ B \in Nat \ {0} /\ Stamps = B + 1 /\ sent \in 0 .. B
      /\ snd_count \in 0 .. B - 1 /\ snd_read_ptr \in 0 .. B - 1
  BY Sizes DEF Line
<1>3. /\ snd_write_ptr' = Plus(snd_write_ptr, 1, B) /\ snd_count' = snd_count + 1
      /\ written' = c
      /\ snd_buffer' = [snd_buffer EXCEPT ![snd_write_ptr] = c]
  BY <1>1 DEF put_snd_buffer
<1>4. /\ written = Plus(sent, snd_count, Stamps)
      /\ snd_write_ptr = Plus(snd_read_ptr, snd_count, B)
  BY DEF Line
<1>5. written' = Plus(sent', snd_count', Stamps)
  BY <1>1, <1>2, <1>3, <1>4 DEF Plus
<1>6. snd_write_ptr' = Plus(snd_read_ptr', snd_count', B)
  BY <1>1, <1>2, <1>3, <1>4 DEF Plus
<1>7. ASSUME NEW i \in 0 .. snd_count' - 1
      PROVE  snd_buffer'[Plus(snd_read_ptr', i, B)] = Plus(sent', i + 1, Stamps)
  <2>1. CASE i = snd_count
    <3>1. Plus(snd_read_ptr', i, B) = snd_write_ptr
      BY <1>4, <2>1
    <3>2. snd_buffer'[snd_write_ptr] = c
      BY <1>1, <1>3 DEF Line
    <3>3. c = Plus(sent', i + 1, Stamps)
      BY <1>2, <1>4, <2>1 DEF Plus
    <3> QED
      BY <3>1, <3>2, <3>3
  <2>2. CASE i # snd_count
    <3> DEFINE k == Plus(snd_read_ptr, i, B)
    <3>1. i \in 0 .. snd_count - 1
      BY <1>2, <1>3, <2>2
    <3>2. k \in 0 .. B - 1 /\ k # snd_write_ptr
      BY <1>2, <1>4, <3>1 DEF Plus
    <3>3. snd_buffer[k] = Plus(sent, i + 1, Stamps)
      BY <3>1 DEF Line
    <3>4. snd_buffer'[k] = snd_buffer[k]
      <4> HIDE DEF k, c
      <4> QED
        BY <1>3, <3>2 DEF Line
    <3> QED
      BY <3>3, <3>4
  <2> QED
    BY <2>1, <2>2
<1>8. DOMAIN snd_buffer' = 0 .. B - 1
  BY <1>3 DEF Line
<1>9. sent' \in 0 .. B /\ snd_count' \in 0 .. B /\ snd_read_ptr' \in 0 .. B - 1
  BY <1>2, <1>3
<1> QED
  BY <1>5, <1>6, <1>7, <1>8, <1>9 DEF Line

(* A character that is sent from snd_buffer. *)
LEMMA LineTake ==
  ASSUME Line, snd_count > 0, sent' = snd_buffer[snd_read_ptr], take_snd_buffer,
         UNCHANGED written
  PROVE  Line' /\ sent' = Succ(sent)
<1> DEFINE B == SERIAL_BUFSZ
<1>1. /\ sent' = Succ(sent) /\ Succ(sent) = Plus(sent, 1, Stamps)
      /\ INC_PTR(snd_read_ptr) = Plus(snd_read_ptr, 1, B)
  BY LineBounds, Sizes DEF Line
<1>2. /\ B \in Nat \ {0} /\ Stamps = B + 1 /\ sent \in 0 .. B
      /\ snd_count \in 1 .. B /\ snd_read_ptr \in 0 .. B - 1
  BY Sizes DEF Line
<1>3. /\ snd_read_ptr' = Plus(snd_read_ptr, 1, B) /\ snd_count' = snd_count - 1
      /\ sent' = Plus(sent, 1, Stamps) /\ snd_write_ptr' = snd_write_ptr
      /\ snd_buffer' = [snd_buffer EXCEPT ![snd_read_ptr] = 0]
  BY <1>1 DEF take_snd_buffer
<1>4. /\ written = Plus(sent, snd_count, Stamps)
      /\ snd_write_ptr = Plus(snd_read_ptr, snd_count, B)
  BY DEF Line
<1>5. written' = Plus(sent', snd_count', Stamps)
  BY <1>2, <1>3, <1>4 DEF Plus
<1>6. snd_write_ptr' = Plus(snd_read_ptr', snd_count', B)
  BY <1>2, <1>3, <1>4 DEF Plus
<1>7. ASSUME NEW i \in 0 .. snd_count' - 1
      PROVE  snd_buffer'[Plus(snd_read_ptr', i, B)] = Plus(sent', i + 1, Stamps)
  <2> DEFINE k == Plus(snd_read_ptr, i + 1, B)
  <2>1. i + 1 \in 0 .. snd_count - 1 /\ i \in 0 .. B - 2
    BY <1>2, <1>3
  <2>2. k \in 0 .. B - 1 /\ k # snd_read_ptr /\ Plus(snd_read_ptr', i, B) = k
    BY <1>2, <1>3, <2>1 DEF Plus
  <2>3. snd_buffer[k] = Plus(sent, i + 1 + 1, Stamps)
    BY <2>1 DEF Line
  <2>4. Plus(sent, i + 1 + 1, Stamps) = Plus(sent', i + 1, Stamps)
    BY <1>2, <1>3, <2>1 DEF Plus
  <2>5. snd_buffer'[k] = snd_buffer[k]
    <3> HIDE DEF k
    <3> QED
      BY <1>3, <2>2 DEF Line
  <2> QED
    BY <2>2, <2>3, <2>4, <2>5
<1>8. DOMAIN snd_buffer' = 0 .. B - 1
  BY <1>3 DEF Line
<1>9. sent' \in 0 .. B /\ snd_count' \in 0 .. B /\ snd_read_ptr' \in 0 .. B - 1
  BY <1>2, <1>3 DEF Plus
<1> QED
  BY <1>1, <1>5, <1>6, <1>7, <1>8, <1>9 DEF Line
-----------------------------------------------------------------------------
(* A step that moves no writer in or out of its loop, leaves the send      *)
(* semaphore and the count alone.                                          *)
LEMMA SndStays ==
  ASSUME SndToken, \A u \in Task : Writing(u)' <=> Writing(u),
         sem'.snd = sem.snd, snd_count' = snd_count
  PROVE  SndToken'
<1> DEFINE W(u) == Writing(u)
           V(u) == Writing(u)'
<1>1. \A u \in Task : V(u) <=> W(u)
  OBVIOUS
<1>2. \/ sem.snd = 0 /\ snd_count = SERIAL_BUFSZ /\ \A t \in Task : ~W(t)
      \/ sem.snd = 1 /\ snd_count < SERIAL_BUFSZ /\ \A t \in Task : ~W(t)
      \/ /\ sem.snd = 0 /\ snd_count < SERIAL_BUFSZ
         /\ \E t \in Task : W(t) /\ \A u \in Task \ {t} : ~W(u)
  BY DEF SndToken
<1> HIDE DEF W, V
<1>3. \/ sem'.snd = 0 /\ snd_count' = SERIAL_BUFSZ /\ \A t \in Task : ~V(t)
      \/ sem'.snd = 1 /\ snd_count' < SERIAL_BUFSZ /\ \A t \in Task : ~V(t)
      \/ /\ sem'.snd = 0 /\ snd_count' < SERIAL_BUFSZ
         /\ \E t \in Task : V(t) /\ \A u \in Task \ {t} : ~V(u)
  BY <1>1, <1>2
<1> QED
  BY <1>3 DEF SndToken, V

(* A step that leaves the token of the readers and the count alone. *)
LEMMA RcvStays ==
  ASSUME RcvToken, \A u \in Task : HoldsRcv(u)' <=> HoldsRcv(u),
         sem'.rcv = sem.rcv, rcv_count' = rcv_count
  PROVE  RcvToken'
<1> DEFINE W(u) == HoldsRcv(u)
           V(u) == HoldsRcv(u)'
<1>1. \A u \in Task : V(u) <=> W(u)
  OBVIOUS
<1>2. \/ sem.rcv = 0 /\ rcv_count = 0 /\ \A t \in Task : ~W(t)
      \/ sem.rcv = 1 /\ rcv_count > 0 /\ \A t \in Task : ~W(t)
      \/ /\ sem.rcv = 0 /\ rcv_count > 0
         /\ \E t \in Task : W(t) /\ \A u \in Task \ {t} : ~W(u)
  BY DEF RcvToken
<1> HIDE DEF W, V
<1>3. \/ sem'.rcv = 0 /\ rcv_count' = 0 /\ \A t \in Task : ~V(t)
      \/ sem'.rcv = 1 /\ rcv_count' > 0 /\ \A t \in Task : ~V(t)
      \/ /\ sem'.rcv = 0 /\ rcv_count' > 0
         /\ \E t \in Task : V(t) /\ \A u \in Task \ {t} : ~V(u)
  BY <1>1, <1>2
<1> QED
  BY <1>3 DEF RcvToken, V

(* Task t moves; the others stay in their places. *)
LEMMA OneMoves ==
  ASSUME Types, NEW t \in Task, NEW p \in Places, at' = [at EXCEPT ![t] = p]
  PROVE  /\ at' \in [Task -> Places] /\ at'[t] = p
         /\ \A u \in Task \ {t} : at'[u] = at[u]
         /\ \A u \in Task \ {t} : Writing(u)' <=> Writing(u)
         /\ ret' = ret => \A u \in Task \ {t} : HoldsRcv(u)' <=> HoldsRcv(u)
BY DEF Types, Writing, HoldsRcv

(* A writer is the only one, and the semaphore is not there. *)
LEMMA OneWriter ==
  ASSUME SndToken, NEW t \in Task, Writing(t)
  PROVE  /\ sem.snd = 0 /\ snd_count < SERIAL_BUFSZ
         /\ \A u \in Task \ {t} : ~Writing(u)
<1> DEFINE W(u) == Writing(u)
<1>1. \/ sem.snd = 0 /\ snd_count = SERIAL_BUFSZ /\ \A v \in Task : ~W(v)
      \/ sem.snd = 1 /\ snd_count < SERIAL_BUFSZ /\ \A v \in Task : ~W(v)
      \/ /\ sem.snd = 0 /\ snd_count < SERIAL_BUFSZ
         /\ \E v \in Task : W(v) /\ \A u \in Task \ {v} : ~W(u)
  BY DEF SndToken
<1>2. W(t)
  OBVIOUS
<1> HIDE DEF W
<1>3. /\ sem.snd = 0 /\ snd_count < SERIAL_BUFSZ
      /\ \A u \in Task \ {t} : ~W(u)
  BY <1>1, <1>2
<1> QED
  BY <1>3 DEF W

(* Likewise for a reader. *)
LEMMA OneReader ==
  ASSUME RcvToken, NEW t \in Task, HoldsRcv(t)
  PROVE  /\ sem.rcv = 0 /\ rcv_count > 0
         /\ \A u \in Task \ {t} : ~HoldsRcv(u)
<1> DEFINE W(u) == HoldsRcv(u)
<1>1. \/ sem.rcv = 0 /\ rcv_count = 0 /\ \A v \in Task : ~W(v)
      \/ sem.rcv = 1 /\ rcv_count > 0 /\ \A v \in Task : ~W(v)
      \/ /\ sem.rcv = 0 /\ rcv_count > 0
         /\ \E v \in Task : W(v) /\ \A u \in Task \ {v} : ~W(u)
  BY DEF RcvToken
<1>2. W(t)
  OBVIOUS
<1> HIDE DEF W
<1>3. /\ sem.rcv = 0 /\ rcv_count > 0
      /\ \A u \in Task \ {t} : ~W(u)
  BY <1>1, <1>2
<1> QED
  BY <1>3 DEF W

(* Taking the send token. *)
LEMMA SndTaken ==
  ASSUME SndToken, sem.snd = 1, sem'.snd = 0, snd_count' = snd_count,
         SERIAL_BUFSZ \in Nat,
         NEW t \in Task, Writing(t)', \A u \in Task \ {t} : Writing(u)' <=> Writing(u)
  PROVE  SndToken'
<1>1. snd_count < SERIAL_BUFSZ /\ \A u \in Task : ~Writing(u)
  BY DEF SndToken
<1>2. \A u \in Task \ {t} : ~(Writing(u)')
  BY <1>1
<1> QED
  BY <1>1, <1>2 DEF SndToken

(* Returning the send token. *)
LEMMA SndReturned ==
  ASSUME SndToken, NEW t \in Task, Writing(t), sem'.snd = 1, snd_count' = snd_count,
         ~Writing(t)', \A u \in Task \ {t} : Writing(u)' <=> Writing(u)
  PROVE  SndToken'
<1>1. snd_count < SERIAL_BUFSZ /\ \A u \in Task \ {t} : ~Writing(u)
  BY OneWriter
<1>2. \A u \in Task : ~(Writing(u)')
  BY <1>1
<1> QED
  BY <1>1, <1>2 DEF SndToken
-----------------------------------------------------------------------------
(* What is proved of each step: it keeps the invariant, and if it sends a  *)
(* character for the tasks, it sends the next one.                         *)
Keeps == SerIInv' /\ sent' \in {sent, Succ(sent)}

(* The initial state. *)
LEMMA SerInit == Init => SerIInv
<1> SUFFICES ASSUME Init PROVE SerIInv
  OBVIOUS
<1>1. Types
  <2>1. sem \in [rcv : {0, 1}, snd : {0, 1}]
    BY DEF Init
  <2>2. at \in [Task -> Places] /\ ret \in [Task -> {"out", "wai_rcv", "rea", "sig_rcv"}]
    BY DEF Init, Places
  <2>3. openflag \in BOOLEAN /\ ier \subseteq {"RX", "TX"}
    BY DEF Init
  <2>4. rcv_count \in 0 .. SERIAL_BUFSZ
    BY Sizes DEF Init
  <2> QED
    BY <2>1, <2>2, <2>3, <2>4 DEF Types
<1>2. SndToken
  BY Sizes DEF Init, SndToken, Writing
<1>3. RcvToken
  BY DEF Init, RcvToken, HoldsRcv
<1>4. Line
  BY Sizes DEF Init, Line, Plus
<1>5. Closed
  BY DEF Init, Closed, Drained
<1> QED
  BY <1>1, <1>2, <1>3, <1>4, <1>5 DEF SerIInv

(* Opening finds the tasks out, the send token there and no other.         *)
LEMMA KeepsOpen ==
  ASSUME SerIInv, NEW t \in Task, serial_opn_por(t)
  PROVE  Keeps
<1>1. Drained /\ Types /\ SndToken /\ RcvToken /\ Line
  BY DEF SerIInv, Closed, serial_opn_por
<1>2. Types'
  BY <1>1, Sizes DEF Types, serial_opn_por, pcvars
<1>3. /\ sem' = sem /\ at' = at /\ ret' = ret /\ \A u \in Task : at[u] = "out"
      /\ snd_count = 0 /\ rcv_count = 0 /\ snd_count' = 0 /\ rcv_count' = 0
  BY <1>1 DEF serial_opn_por, Drained, pcvars
<1>4. SndToken'
  BY <1>1, <1>3, SndStays DEF Writing
<1>5. RcvToken'
  BY <1>1, <1>3, RcvStays DEF HoldsRcv
<1>6. Line' /\ sent' = sent
  BY <1>1, Sizes DEF Line, Plus, serial_opn_por
<1>7. Closed'
  BY DEF Closed, serial_opn_por
<1> QED
  BY <1>2, <1>4, <1>5, <1>6, <1>7 DEF SerIInv, Keeps

(* Closing a drained port. *)
LEMMA KeepsClose ==
  ASSUME SerIInv, CloseDrained, NEW t \in Task, serial_cls_por(t)
  PROVE  Keeps
<1>1. Types /\ SndToken /\ RcvToken /\ Line /\ Drained
  BY DEF SerIInv, serial_cls_por
<1>2. UNCHANGED <<rcv_count, sndvars, sent, sem, pcvars, written>> /\ ier' = {} /\ openflag' = FALSE
  BY DEF serial_cls_por
<1>3. Types'
  BY <1>1, <1>2 DEF Types, pcvars
<1>4. SndToken'
  BY <1>1, <1>2, SndStays DEF Writing, pcvars, sndvars
<1>5. RcvToken'
  BY <1>1, <1>2, RcvStays DEF HoldsRcv, pcvars
<1>6. Line'
  BY <1>1, <1>2, LineStays DEF sndvars
<1>7. Closed'
  BY <1>1, <1>2 DEF Closed, Drained, pcvars, sndvars
<1> QED
  BY <1>2, <1>3, <1>4, <1>5, <1>6, <1>7 DEF SerIInv, Keeps

(* Another setting, or the end of a transmission. *)
LEMMA KeepsRest ==
  ASSUME SerIInv,
         UNCHANGED <<openflag, rcv_count, sndvars, ier, sent, sem, pcvars, written>>
  PROVE  Keeps
<1>1. Types /\ SndToken /\ RcvToken /\ Line /\ Closed
  BY DEF SerIInv
<1>3. Types'
  BY <1>1 DEF Types, pcvars
<1>4. SndToken'
  BY <1>1, SndStays DEF Writing, pcvars, sndvars
<1>5. RcvToken'
  BY <1>1, RcvStays DEF HoldsRcv, pcvars
<1>6. Line'
  BY <1>1, LineStays DEF sndvars
<1>7. Closed'
  BY <1>1 DEF Closed, Drained, pcvars, sndvars
<1> QED
  BY <1>3, <1>4, <1>5, <1>6, <1>7 DEF SerIInv, Keeps

(* A step of the loops that only moves task t and the semaphores.          *)
LEMMA KeepsMove ==
  ASSUME SerIInv, NEW t \in Task, NEW p \in Places, openflag,
         at' = [at EXCEPT ![t] = p],
         sem' \in [rcv : {0, 1}, snd : {0, 1}],
         ret' \in [Task -> {"out", "wai_rcv", "rea", "sig_rcv"}],
         SndToken', RcvToken',
         UNCHANGED <<openflag, rcv_count, sndvars, ier, sent, written>>
  PROVE  Keeps
<1>1. Types /\ Line
  BY DEF SerIInv
<1>2. Types'
  BY <1>1, OneMoves DEF Types
<1>3. Line'
  BY <1>1, LineStays DEF sndvars
<1>4. Closed'
  BY DEF Closed
<1> QED
  BY <1>2, <1>3, <1>4 DEF SerIInv, Keeps

(* A port on which a task is in a loop, or an interrupt comes, is open. *)
LEMMA OpenWhenUsed ==
  ASSUME SerIInv
  PROVE  /\ ier # {} => openflag
         /\ \A t \in Task : at[t] # "out" => openflag
BY DEF SerIInv, Closed, Drained

(* The calls of serial_wri_dat and serial_rea_dat. *)
LEMMA KeepsCall ==
  ASSUME SerIInv, NEW t \in Task, NEW len,
         serial_wri_dat(t, len) \/ serial_rea_dat(t, len)
  PROVE  Keeps
<1> USE DEF Places
<1>1. Types /\ SndToken /\ RcvToken
  BY DEF SerIInv
<1>2. PICK p \in {"wai_snd", "wai_rcv"} : at' = [at EXCEPT ![t] = p]
  BY DEF serial_wri_dat, serial_rea_dat
<1>3. /\ openflag /\ at[t] = "out"
      /\ UNCHANGED <<openflag, rcv_count, sndvars, ier, sent, written, sem>>
  BY DEF serial_wri_dat, serial_rea_dat, uart, portvars
<1>4. /\ at'[t] = p /\ \A u \in Task \ {t} : at'[u] = at[u]
      /\ \A u \in Task \ {t} : Writing(u)' <=> Writing(u)
  BY <1>1, <1>2, OneMoves
<1>5. /\ ret' \in [Task -> {"out", "wai_rcv", "rea", "sig_rcv"}]
      /\ \A u \in Task \ {t} : ret'[u] = ret[u]
      /\ p = "wai_snd" => ret'[t] = "out"
  <2>1. CASE serial_wri_dat(t, len)
    BY <1>1, <2>1 DEF Types, serial_wri_dat
  <2>2. CASE serial_rea_dat(t, len)
    BY <1>1, <1>2, <2>2 DEF Types, serial_rea_dat
  <2> QED
    BY <2>1, <2>2
<1>6. SndToken'
  <2>1. ~Writing(t) /\ ~Writing(t)'
    BY <1>2, <1>3, <1>4 DEF Writing
  <2>2. \A u \in Task : Writing(u)' <=> Writing(u)
    BY <1>4, <2>1
  <2> QED
    BY <1>1, <1>3, <2>2, SndStays DEF sndvars
<1>7. RcvToken'
  <2>1. ~HoldsRcv(t) /\ ~HoldsRcv(t)'
    BY <1>2, <1>3, <1>4, <1>5 DEF HoldsRcv
  <2>2. \A u \in Task : HoldsRcv(u)' <=> HoldsRcv(u)
    BY <1>4, <1>5, <2>1 DEF HoldsRcv
  <2> QED
    BY <1>1, <1>3, <2>2, RcvStays
<1>8. sem' \in [rcv : {0, 1}, snd : {0, 1}]
  BY <1>1, <1>3 DEF Types
<1> QED
  BY <1>2, <1>3, <1>5, <1>6, <1>7, <1>8, KeepsMove
(* Taking and returning the send semaphore. *)
LEMMA KeepsSnd ==
  ASSUME SerIInv, NEW t \in Task,
         \/ wai_sem(t, "snd", "wai_snd", "wri")
         \/ sig_sem(t, "snd", "sig_snd", ret[t])
  PROVE  Keeps
<1> USE DEF Places
<1>1. Types /\ SndToken /\ RcvToken
  BY DEF SerIInv
<1>2. /\ at[t] \in {"wai_snd", "sig_snd"}
      /\ UNCHANGED <<openflag, rcv_count, sndvars, ier, sent, written, ret>>
  BY DEF wai_sem, sig_sem, uart, portvars
<1>3. PICK p \in Places :
        /\ at' = [at EXCEPT ![t] = p]
        /\ at[t] = "wai_snd" => p = "wri" /\ sem.snd = 1 /\ sem'.snd = 0
        /\ at[t] = "sig_snd" => p = ret[t] /\ sem'.snd = sem.snd + 1
        /\ sem'.rcv = sem.rcv
        /\ sem' = [sem EXCEPT !.snd = sem'.snd]
  <2>1. CASE wai_sem(t, "snd", "wai_snd", "wri")
    <3>1. sem.snd \in {0, 1} /\ sem.snd > 0 /\ sem' = [sem EXCEPT !.snd = @ - 1]
      BY <1>1, <2>1 DEF wai_sem, Types
    <3>2. sem'.snd = sem.snd - 1 /\ sem'.rcv = sem.rcv
      BY <1>1, <3>1 DEF Types
    <3>3. sem' = [sem EXCEPT !.snd = sem'.snd]
      BY <3>1, <3>2, Zenon
    <3>4. at[t] = "wai_snd" /\ at' = [at EXCEPT ![t] = "wri"]
      BY <2>1 DEF wai_sem
    <3>5. sem.snd = 1 /\ sem'.snd = 0
      BY <3>1, <3>2
    <3> WITNESS "wri" \in Places
    <3> QED
      BY <3>2, <3>3, <3>4, <3>5
  <2>2. CASE sig_sem(t, "snd", "sig_snd", ret[t])
    <3>1. ret[t] \in Places
      BY <1>1 DEF Types
    <3>2. sem' = [sem EXCEPT !.snd = @ + 1]
      BY <2>2 DEF sig_sem
    <3>3. sem'.snd = sem.snd + 1 /\ sem'.rcv = sem.rcv
      BY <1>1, <3>2 DEF Types
    <3> WITNESS ret[t] \in Places
    <3> QED
      BY <2>2, <3>2, <3>3 DEF sig_sem
  <2> QED
    BY <2>1, <2>2
<1>4. /\ at'[t] = p /\ \A u \in Task \ {t} : Writing(u)' <=> Writing(u)
      /\ \A u \in Task \ {t} : HoldsRcv(u)' <=> HoldsRcv(u)
  BY <1>1, <1>2, <1>3, OneMoves
<1>5. ret[t] \in {"out", "wai_rcv", "rea", "sig_rcv"} /\ ret'[t] = ret[t]
  BY <1>1, <1>2 DEF Types
<1>6. RcvToken'
  <2>1. HoldsRcv(t)' <=> HoldsRcv(t)
    BY <1>2, <1>3, <1>4, <1>5 DEF HoldsRcv
  <2>2. \A u \in Task : HoldsRcv(u)' <=> HoldsRcv(u)
    BY <1>4, <2>1
  <2> QED
    BY <1>1, <1>2, <1>3, <2>2, RcvStays
<1>7. SndToken' /\ sem'.snd \in {0, 1}
  <2>1. CASE at[t] = "wai_snd"
    <3>1. Writing(t)'
      BY <1>3, <1>4, <2>1 DEF Writing
    <3> QED
      BY <1>1, <1>2, <1>3, <1>4, <2>1, <3>1, SndTaken, Sizes DEF sndvars
  <2>2. CASE at[t] = "sig_snd"
    <3>1. Writing(t) /\ ~(Writing(t)')
      BY <1>3, <1>4, <1>5, <2>2 DEF Writing
    <3>2. sem'.snd = 1
      BY <1>1, <1>3, <2>2, <3>1, OneWriter
    <3> QED
      BY <1>1, <1>2, <1>4, <3>1, <3>2, SndReturned DEF sndvars
  <2> QED
    BY <1>2, <2>1, <2>2
<1>8. sem' \in [rcv : {0, 1}, snd : {0, 1}]
  BY <1>1, <1>3, <1>7 DEF Types
<1>9. ret' \in [Task -> {"out", "wai_rcv", "rea", "sig_rcv"}]
  BY <1>1, <1>2 DEF Types
<1>10. openflag
  BY <1>2, OpenWhenUsed
<1> QED
  BY <1>2, <1>3, <1>6, <1>7, <1>8, <1>9, <1>10, KeepsMove

(* Taking and returning the receive semaphore. *)
LEMMA KeepsRcv ==
  ASSUME SerIInv, NEW t \in Task,
         \/ wai_sem(t, "rcv", "wai_rcv", "rea")
         \/ sig_sem(t, "rcv", "sig_rcv", "out")
  PROVE  Keeps
<1> USE DEF Places
<1>1. Types /\ SndToken /\ RcvToken
  BY DEF SerIInv
<1>2. /\ at[t] \in {"wai_rcv", "sig_rcv"}
      /\ UNCHANGED <<openflag, rcv_count, sndvars, ier, sent, written, ret>>
  BY DEF wai_sem, sig_sem, uart, portvars
<1>3. PICK p \in {"rea", "out"} :
        /\ at' = [at EXCEPT ![t] = p]
        /\ at[t] = "wai_rcv" => p = "rea" /\ sem.rcv = 1 /\ sem'.rcv = 0
        /\ at[t] = "sig_rcv" => p = "out" /\ sem'.rcv = sem.rcv + 1
        /\ sem'.snd = sem.snd
        /\ sem' = [sem EXCEPT !.rcv = sem'.rcv]
  <2>1. CASE wai_sem(t, "rcv", "wai_rcv", "rea")
    <3>1. sem.rcv \in {0, 1} /\ sem.rcv > 0 /\ sem' = [sem EXCEPT !.rcv = @ - 1]
      BY <1>1, <2>1 DEF wai_sem, Types
    <3>2. sem'.rcv = sem.rcv - 1 /\ sem'.snd = sem.snd
      BY <1>1, <3>1 DEF Types
    <3>3. sem' = [sem EXCEPT !.rcv = sem'.rcv]
      BY <3>1, <3>2, Zenon
    <3>4. at[t] = "wai_rcv" /\ at' = [at EXCEPT ![t] = "rea"]
      BY <2>1 DEF wai_sem
    <3>5. sem.rcv = 1 /\ sem'.rcv = 0
      BY <3>1, <3>2
    <3> WITNESS "rea" \in {"rea", "out"}
    <3> QED
      BY <3>2, <3>3, <3>4, <3>5
  <2>2. CASE sig_sem(t, "rcv", "sig_rcv", "out")
    <3>1. sem' = [sem EXCEPT !.rcv = @ + 1]
      BY <2>2 DEF sig_sem
    <3>2. sem'.rcv = sem.rcv + 1 /\ sem'.snd = sem.snd
      BY <1>1, <3>1 DEF Types
    <3> WITNESS "out" \in {"rea", "out"}
    <3> QED
      BY <2>2, <3>1, <3>2 DEF sig_sem
  <2> QED
    BY <2>1, <2>2
<1>4. /\ at'[t] = p /\ \A u \in Task \ {t} : Writing(u)' <=> Writing(u)
      /\ \A u \in Task \ {t} : HoldsRcv(u)' <=> HoldsRcv(u)
  BY <1>1, <1>2, <1>3, OneMoves
<1>6. SndToken'
  <2>1. Writing(t)' <=> Writing(t)
    BY <1>2, <1>3, <1>4 DEF Writing
  <2>2. \A u \in Task : Writing(u)' <=> Writing(u)
    BY <1>4, <2>1
  <2> QED
    BY <1>1, <1>2, <1>3, <2>2, SndStays DEF sndvars
<1>7. RcvToken' /\ sem'.rcv \in {0, 1}
  <2>1. CASE at[t] = "wai_rcv"
    <3>1. HoldsRcv(t)'
      BY <1>3, <1>4, <2>1 DEF HoldsRcv
    <3>2. rcv_count > 0 /\ \A u \in Task : ~HoldsRcv(u)
      BY <1>1, <1>3, <2>1 DEF RcvToken
    <3>3. \A u \in Task \ {t} : ~(HoldsRcv(u)')
      BY <1>4, <3>2
    <3> QED
      BY <1>2, <1>3, <2>1, <3>1, <3>2, <3>3 DEF RcvToken
  <2>2. CASE at[t] = "sig_rcv"
    <3>1. HoldsRcv(t) /\ ~(HoldsRcv(t)')
      BY <1>3, <1>4, <2>2 DEF HoldsRcv
    <3>2. sem.rcv = 0 /\ rcv_count > 0 /\ \A u \in Task \ {t} : ~HoldsRcv(u)
      BY <1>1, <3>1, OneReader
    <3>3. sem'.rcv = 1 /\ \A u \in Task : ~(HoldsRcv(u)')
      BY <1>3, <1>4, <2>2, <3>1, <3>2
    <3> QED
      BY <1>2, <3>2, <3>3 DEF RcvToken
  <2> QED
    BY <1>2, <2>1, <2>2
<1>8. sem' \in [rcv : {0, 1}, snd : {0, 1}]
  BY <1>1, <1>3, <1>7 DEF Types
<1>9. ret' \in [Task -> {"out", "wai_rcv", "rea", "sig_rcv"}]
  BY <1>1, <1>2 DEF Types
<1>10. openflag
  BY <1>2, OpenWhenUsed
<1> QED
  BY <1>2, <1>3, <1>6, <1>7, <1>8, <1>9, <1>10, KeepsMove
(* One character of the write loop: sent at once, or into snd_buffer, in   *)
(* which the writer has left room.                                         *)
LEMMA KeepsWrite ==
  ASSUME SerIInv, NEW t \in Task, serial_wri_chr(t)
  PROVE  Keeps
<1> DEFINE B == SERIAL_BUFSZ
           now == snd_count = 0 /\ ~snd_stopped /\ thr_empty
           full == ~now /\ snd_count + 1 = B
           p == after_write(t, full)
<1>1. Types /\ SndToken /\ RcvToken /\ Line /\ at[t] = "wri" /\ openflag
  BY OpenWhenUsed DEF SerIInv, serial_wri_chr
<1>2. Writing(t)
  BY <1>1 DEF Writing
<1>3. /\ sem.snd = 0 /\ snd_count < B /\ \A u \in Task \ {t} : ~Writing(u)
      /\ snd_count \in Nat /\ B \in Nat
  BY <1>1, <1>2, OneWriter, Sizes DEF Line
<1>4. /\ at' = [at EXCEPT ![t] = p]
      /\ UNCHANGED <<openflag, rcv_count, snd_read_ptr, sem, ret>>
      /\ written' = Succ(written)
  BY DEF serial_wri_chr, portvars
<1>5. /\ ret[t] \in {"out", "wai_rcv", "rea", "sig_rcv"} /\ ret'[t] = ret[t]
  BY <1>1, <1>4 DEF Types
<1>6. /\ p \in Places
      /\ p \in {"wri", "sig_snd"} \/ p \in {"wai_snd", ret[t]}
      /\ full <=> p \in {"wai_snd", ret[t]}
      /\ full <=> ~(p \in {"wri", "sig_snd"})
      /\ p \in {"wai_snd", "wri", "sig_snd", ret[t]}
  <2> HIDE DEF full
  <2> QED
    BY <1>5 DEF after_write, Places
<1> HIDE DEF p
<1>7. /\ at'[t] = p /\ \A u \in Task \ {t} : Writing(u)' <=> Writing(u)
      /\ \A u \in Task \ {t} : HoldsRcv(u)' <=> HoldsRcv(u)
      /\ at' \in [Task -> Places]
  BY <1>1, <1>4, <1>6, OneMoves
<1>8. RcvToken'
  <2>1. HoldsRcv(t)' <=> HoldsRcv(t)
    BY <1>1, <1>4, <1>5, <1>6, <1>7 DEF HoldsRcv
  <2>2. \A u \in Task : HoldsRcv(u)' <=> HoldsRcv(u)
    BY <1>7, <2>1
  <2> QED
    BY <1>1, <1>4, <2>2, RcvStays
<1>9. Line' /\ sent' \in {sent, Succ(sent)} /\ snd_count' = IF now THEN snd_count ELSE snd_count + 1
  <2>1. CASE now
    <3>1. /\ snd_count = 0 /\ sent' = Succ(written)
          /\ UNCHANGED <<snd_buffer, snd_write_ptr, snd_count>>
      BY <2>1 DEF serial_wri_chr, serial_snd_chr, send
    <3> QED
      BY <1>1, <1>4, <2>1, <3>1, LineDirect
  <2>2. CASE ~now
    <3>1. put_snd_buffer(Succ(written)) /\ sent' = sent
      BY <2>2 DEF serial_wri_chr, serial_snd_chr, uart
    <3>2. snd_count' = snd_count + 1
      BY <3>1 DEF put_snd_buffer
    <3> QED
      BY <1>1, <1>3, <1>4, <2>2, <3>1, <3>2, LinePut
  <2> QED
    BY <2>1, <2>2
<1>10. SndToken'
  <2>1. \A u \in Task \ {t} : ~(Writing(u)')
    BY <1>3, <1>7
  <2>2. Writing(t)' <=> ~full
    BY <1>6, <1>7 DEF Writing
  <2>3. CASE full
    <3>1. snd_count' = B /\ \A u \in Task : ~(Writing(u)')
      BY <1>9, <2>1, <2>2, <2>3
    <3> QED
      BY <1>3, <1>4, <3>1 DEF SndToken
  <2>4. CASE ~full
    <3>1. snd_count' < B
      BY <1>3, <1>9, <2>4
    <3> QED
      BY <1>3, <1>4, <2>1, <2>2, <2>4, <3>1 DEF SndToken
  <2> QED
    BY <2>3, <2>4
<1>11. Types'
  <2>1. ier' \subseteq {"RX", "TX"}
    BY <1>1 DEF Types, serial_wri_chr, serial_snd_chr, uart
  <2> QED
    BY <1>1, <1>4, <1>7, <2>1 DEF Types
<1>12. Closed'
  BY <1>1, <1>4 DEF Closed
<1> QED
  BY <1>8, <1>9, <1>10, <1>11, <1>12 DEF Keeps, SerIInv

(* One character of the read loop: the reader finds one without looking.   *)
LEMMA KeepsRead ==
  ASSUME SerIInv, NEW t \in Task, serial_rea_chr(t)
  PROVE  Keeps
<1> DEFINE B == SERIAL_BUFSZ
           empty == rcv_count - 1 = 0
           next == after_read(t, empty)
           echo == "ECHO" \in ioctl
           p == IF echo THEN "wai_snd" ELSE next
<1>1. Types /\ SndToken /\ RcvToken /\ Line /\ at[t] = "rea" /\ openflag
  BY OpenWhenUsed DEF SerIInv, serial_rea_chr
<1>2. HoldsRcv(t)
  BY <1>1 DEF HoldsRcv
<1>3. sem.rcv = 0 /\ rcv_count \in 1 .. B /\ \A u \in Task \ {t} : ~HoldsRcv(u)
  BY <1>1, <1>2, OneReader, Sizes DEF Types
<1>4. (rcv_count - 1) % UIntRange = rcv_count - 1
  <2> DEFINE n == UIntRange
             x == rcv_count - 1
  <2>1. n \in Nat \ {0} /\ x \in 0 .. 2 * n - 1 /\ x < n
    BY <1>3, Sizes
  <2> HIDE DEF n, x
  <2>2. x % n = x
    BY <2>1, Rest
  <2> QED
    BY <2>2 DEF n, x
<1>5. /\ rcv_count' = rcv_count - 1
      /\ at' = [at EXCEPT ![t] = p]
      /\ ret' = [ret EXCEPT ![t] = IF echo THEN next ELSE @]
      /\ UNCHANGED <<openflag, sndvars, sem, written>>
  BY <1>4 DEF serial_rea_chr, portvars
<1>6. /\ next \in {"wai_rcv", "rea", "out", "sig_rcv"}
      /\ empty <=> ~(next \in {"rea", "sig_rcv"})
  <2> HIDE DEF empty
  <2> QED
    BY DEF after_read
<1> HIDE DEF next, empty, echo
<1>7. p \in Places
  BY <1>6 DEF Places
<1>8. /\ at'[t] = p /\ \A u \in Task \ {t} : Writing(u)' <=> Writing(u)
      /\ at' \in [Task -> Places] /\ \A u \in Task \ {t} : at'[u] = at[u]
  BY <1>1, <1>5, <1>7, OneMoves
<1>9. /\ ret' \in [Task -> {"out", "wai_rcv", "rea", "sig_rcv"}]
      /\ \A u \in Task \ {t} : ret'[u] = ret[u]
      /\ echo => ret'[t] = next
  BY <1>1, <1>5, <1>6 DEF Types
<1>10. SndToken'
  <2>1. ~Writing(t) /\ ~(Writing(t)')
    BY <1>1, <1>6, <1>8 DEF Writing
  <2>2. \A u \in Task : Writing(u)' <=> Writing(u)
    BY <1>8, <2>1
  <2> QED
    BY <1>1, <1>5, <2>2, SndStays DEF sndvars
<1>11. RcvToken'
  <2>1. \A u \in Task \ {t} : ~(HoldsRcv(u)')
    BY <1>3, <1>8, <1>9 DEF HoldsRcv
  <2>2. HoldsRcv(t)' <=> ~empty
    <3>1. CASE echo
      BY <1>6, <1>8, <1>9, <3>1 DEF HoldsRcv
    <3>2. CASE ~echo
      BY <1>6, <1>8, <3>2 DEF HoldsRcv
    <3> QED
      BY <3>1, <3>2
  <2>3. empty <=> rcv_count' = 0
    BY <1>5 DEF empty
  <2>4. rcv_count' \in Nat
    BY <1>3, <1>5
  <2> QED
    BY <1>3, <1>5, <2>1, <2>2, <2>3, <2>4 DEF RcvToken
<1>12. Types'
  <2>1. ier' \subseteq {"RX", "TX"}
    BY <1>1 DEF Types, serial_rea_chr, serial_snd_chr, uart
  <2>2. rcv_count' \in 0 .. B
    BY <1>3, <1>5, Sizes
  <2> QED
    BY <1>1, <1>5, <1>8, <1>9, <2>1, <2>2 DEF Types
<1>13. Line' /\ sent' = sent
  <2>1. sent' = sent
    BY DEF serial_rea_chr, serial_snd_chr, uart, tell
  <2> QED
    BY <1>1, <1>5, <2>1, LineStays DEF sndvars
<1>14. Closed'
  BY <1>1, <1>5 DEF Closed
<1> QED
  BY <1>10, <1>11, <1>12, <1>13, <1>14 DEF Keeps, SerIInv
-----------------------------------------------------------------------------
(* An interrupt service routine takes a character from snd_buffer; the     *)
(* first one from a full buffer brings the send token back.                *)
LEMMA IsrTakes ==
  ASSUME SerIInv, snd_count > 0, sent' = snd_buffer[snd_read_ptr], take_snd_buffer,
         UNCHANGED <<written, pcvars>>
  PROVE  /\ Line' /\ SndToken' /\ sent' \in {sent, Succ(sent)}
         /\ sem' \in [rcv : {0, 1}, snd : {0, 1}] /\ sem'.rcv = sem.rcv
<1>1. Types /\ SndToken /\ Line
  BY DEF SerIInv
<1>2. Line' /\ sent' = Succ(sent)
  BY <1>1, LineTake
<1>3. snd_count \in 1 .. SERIAL_BUFSZ /\ snd_count' = snd_count - 1 /\ SERIAL_BUFSZ \in Nat
  BY <1>1, Sizes DEF Line, take_snd_buffer
<1>4. \A u \in Task : Writing(u)' <=> Writing(u)
  BY DEF Writing, pcvars
<1>5. CASE snd_count = SERIAL_BUFSZ
  <2>1. sem.snd = 0 /\ \A u \in Task : ~Writing(u)
    BY <1>1, <1>5, Sizes DEF SndToken
  <2>2. sem' = [sem EXCEPT !.snd = @ + 1]
    BY <1>5 DEF take_snd_buffer
  <2>3. /\ sem' \in [rcv : {0, 1}, snd : {0, 1}]
        /\ sem'.rcv = sem.rcv /\ sem'.snd = 1
    BY <1>1, <2>1, <2>2 DEF Types
  <2>4. SndToken'
    BY <1>3, <1>4, <1>5, <2>1, <2>3 DEF SndToken
  <2> QED
    BY <1>2, <2>3, <2>4
<1>6. CASE snd_count # SERIAL_BUFSZ
  <2>1. sem' = sem
    BY <1>6 DEF take_snd_buffer
  <2>2. SndToken'
    <3> DEFINE W(u) == Writing(u)
               V(u) == Writing(u)'
    <3>1. \A u \in Task : V(u) <=> W(u)
      BY <1>4
    <3>2. \/ sem.snd = 1 /\ \A t \in Task : ~W(t)
          \/ sem.snd = 0 /\ \E t \in Task : W(t) /\ \A u \in Task \ {t} : ~W(u)
      BY <1>1, <1>6 DEF SndToken
    <3> HIDE DEF W, V
    <3>3. \/ sem'.snd = 1 /\ \A t \in Task : ~V(t)
          \/ sem'.snd = 0 /\ \E t \in Task : V(t) /\ \A u \in Task \ {t} : ~V(u)
      BY <2>1, <3>1, <3>2
    <3>4. snd_count' < SERIAL_BUFSZ
      BY <1>3
    <3> QED
      BY <3>3, <3>4 DEF SndToken, V
  <2> QED
    BY <1>1, <1>2, <2>1, <2>2 DEF Types
<1> QED
  BY <1>5, <1>6

(* An interrupt service routine leaves the send side alone. *)
LEMMA IsrKeeps ==
  ASSUME SerIInv, sent' = sent, sem'.snd = sem.snd, UNCHANGED <<written, pcvars>>,
         UNCHANGED <<snd_buffer, snd_read_ptr, snd_write_ptr, snd_count>>
  PROVE  Line' /\ SndToken' /\ sent' \in {sent, Succ(sent)}
<1>1. Line'
  BY LineStays DEF SerIInv
<1>2. SndToken'
  BY SndStays DEF SerIInv, Writing, pcvars
<1> QED
  BY <1>1, <1>2

(* What remains to be shown of an interrupt service routine. *)
LEMMA KeepsIsr ==
  ASSUME SerIInv, openflag, UNCHANGED <<openflag, pcvars>>, ier' \subseteq {"RX", "TX"},
         Line', SndToken', RcvToken', sent' \in {sent, Succ(sent)},
         sem' \in [rcv : {0, 1}, snd : {0, 1}], rcv_count' \in 0 .. SERIAL_BUFSZ
  PROVE  Keeps
<1>1. Types'
  BY DEF SerIInv, Types, pcvars
<1>2. Closed'
  BY DEF Closed
<1> QED
  BY <1>1, <1>2 DEF SerIInv, Keeps

(* The transmit interrupt. *)
LEMMA KeepsTx ==
  ASSUME SerIInv, sio_ierdy_snd
  PROVE  Keeps
<1>1. /\ Types /\ RcvToken /\ openflag
      /\ UNCHANGED <<openflag, pcvars, written, rcv_count>>
  BY OpenWhenUsed DEF SerIInv, sio_ierdy_snd, portvars
<1>2. /\ Line' /\ SndToken' /\ sent' \in {sent, Succ(sent)}
      /\ sem' \in [rcv : {0, 1}, snd : {0, 1}] /\ sem'.rcv = sem.rcv
  <2>1. CASE keep_snd_buffer /\ sent' = sent
    BY <1>1, <2>1, IsrKeeps DEF keep_snd_buffer, Types
  <2>2. CASE take_snd_buffer /\ snd_count > 0 /\ sent' = snd_buffer[snd_read_ptr]
    BY <1>1, <2>2, IsrTakes
  <2> QED
    BY <2>1, <2>2 DEF sio_ierdy_snd, tell, send
<1>3. ier' \subseteq {"RX", "TX"}
  BY <1>1 DEF Types, sio_ierdy_snd
<1>4. RcvToken'
  BY <1>1, <1>2, RcvStays DEF HoldsRcv, pcvars
<1>5. rcv_count' \in 0 .. SERIAL_BUFSZ
  BY <1>1 DEF Types
<1> QED
  BY <1>1, <1>2, <1>3, <1>4, <1>5, KeepsIsr

(* A received character that is stored: there is room for it, and the      *)
(* first one brings the receive token.                                     *)
LEMMA StoreKeeps ==
  ASSUME SerIInv, rx_store, rcv_count # SERIAL_BUFSZ, UNCHANGED <<written, pcvars>>
  PROVE  /\ Line' /\ SndToken' /\ RcvToken' /\ sent' = sent
         /\ sem' \in [rcv : {0, 1}, snd : {0, 1}] /\ rcv_count' \in 0 .. SERIAL_BUFSZ
<1> DEFINE B == SERIAL_BUFSZ
<1>1. Types /\ RcvToken /\ B \in Nat /\ rcv_count \in 0 .. B - 1
  BY Sizes DEF SerIInv, Types
<1>2. (rcv_count + 1) % UIntRange = rcv_count + 1
  <2> DEFINE n == UIntRange
             x == rcv_count + 1
  <2>1. n \in Nat \ {0} /\ x \in 0 .. 2 * n - 1 /\ x < n
    BY <1>1, Sizes
  <2> HIDE DEF n, x
  <2>2. x % n = x
    BY <2>1, Rest
  <2> QED
    BY <2>2 DEF n, x
<1>3. /\ rcv_count' = rcv_count + 1 /\ sent' = sent /\ UNCHANGED sndvars
      /\ sem' = IF rcv_count = 0 THEN [sem EXCEPT !.rcv = @ + 1] ELSE sem
  BY <1>2 DEF rx_store, serial_snd_chr, uart, tell
<1>4. rcv_count' \in 1 .. B
  BY <1>1, <1>3
<1>5. \A u \in Task : HoldsRcv(u)' <=> HoldsRcv(u)
  BY DEF HoldsRcv, pcvars
<1>6. /\ sem' \in [rcv : {0, 1}, snd : {0, 1}] /\ sem'.snd = sem.snd /\ RcvToken'
  <2>1. CASE rcv_count = 0
    <3>1. sem.rcv = 0 /\ \A u \in Task : ~HoldsRcv(u)
      BY <1>1, <2>1 DEF RcvToken
    <3>2. sem' = [sem EXCEPT !.rcv = @ + 1]
      BY <1>3, <2>1
    <3>3. sem' \in [rcv : {0, 1}, snd : {0, 1}] /\ sem'.snd = sem.snd /\ sem'.rcv = 1
      BY <1>1, <3>1, <3>2 DEF Types
    <3>4. rcv_count' > 0
      BY <1>4
    <3> QED
      BY <1>5, <3>1, <3>3, <3>4 DEF RcvToken
  <2>2. CASE rcv_count # 0
    <3>1. sem' = sem /\ rcv_count' > 0
      BY <1>3, <1>4, <2>2
    <3> DEFINE W(u) == HoldsRcv(u)
               V(u) == HoldsRcv(u)'
    <3>2. \A u \in Task : V(u) <=> W(u)
      BY <1>5
    <3>3. \/ sem.rcv = 1 /\ \A t \in Task : ~W(t)
          \/ sem.rcv = 0 /\ \E t \in Task : W(t) /\ \A u \in Task \ {t} : ~W(u)
      BY <1>1, <2>2 DEF RcvToken
    <3> HIDE DEF W, V
    <3>4. \/ sem'.rcv = 1 /\ \A t \in Task : ~V(t)
          \/ sem'.rcv = 0 /\ \E t \in Task : V(t) /\ \A u \in Task \ {t} : ~V(u)
      BY <3>1, <3>2, <3>3
    <3>5. RcvToken'
      BY <3>1, <3>4 DEF RcvToken, V
    <3> QED
      BY <1>1, <3>1, <3>5 DEF Types
  <2> QED
    BY <2>1, <2>2
<1>7. Line' /\ SndToken'
  BY <1>3, <1>6, IsrKeeps DEF sndvars
<1> QED
  BY <1>3, <1>4, <1>6, <1>7

(* The receive interrupt. *)
LEMMA KeepsRx ==
  ASSUME SerIInv, NEW c, sio_ierdy_rcv(c)
  PROVE  Keeps
<1>1. /\ Types /\ RcvToken /\ openflag
      /\ UNCHANGED <<openflag, pcvars, written>>
  BY OpenWhenUsed DEF SerIInv, sio_ierdy_rcv, portvars
<1>2. rx_stop \/ rx_restart \/ rx_drop \/ (rx_store /\ rcv_count # SERIAL_BUFSZ)
  BY DEF sio_ierdy_rcv
<1>3. ier' \subseteq {"RX", "TX"}
  BY <1>1, <1>2 DEF Types, rx_stop, rx_restart, rx_drop, rx_store, serial_snd_chr, uart
<1>4. CASE rx_store /\ rcv_count # SERIAL_BUFSZ
  BY <1>1, <1>3, <1>4, StoreKeeps, KeepsIsr
<1>5. CASE rx_stop \/ rx_restart \/ rx_drop
  <2>1. rcv_count' = rcv_count
    BY <1>5 DEF rx_stop, rx_restart, rx_drop
  <2>2. \/ keep_snd_buffer /\ sent' = sent
        \/ take_snd_buffer /\ snd_count > 0 /\ sent' = snd_buffer[snd_read_ptr]
    BY <1>5 DEF rx_stop, rx_restart, rx_drop, serial_snd_chr, uart, send
  <2>3. /\ Line' /\ SndToken' /\ sent' \in {sent, Succ(sent)}
        /\ sem' \in [rcv : {0, 1}, snd : {0, 1}] /\ sem'.rcv = sem.rcv
    <3>1. CASE keep_snd_buffer /\ sent' = sent
      BY <1>1, <3>1, IsrKeeps DEF keep_snd_buffer, Types
    <3>2. CASE take_snd_buffer /\ snd_count > 0 /\ sent' = snd_buffer[snd_read_ptr]
      BY <1>1, <3>2, IsrTakes
    <3> QED
      BY <2>2, <3>1, <3>2
  <2>4. RcvToken'
    BY <1>1, <2>1, <2>3, RcvStays DEF HoldsRcv, pcvars
  <2>5. rcv_count' \in 0 .. SERIAL_BUFSZ
    BY <1>1, <2>1 DEF Types
  <2> QED
    BY <1>1, <1>3, <2>3, <2>4, <2>5, KeepsIsr
<1> QED
  BY <1>2, <1>4, <1>5
-----------------------------------------------------------------------------
(* Every step keeps the invariant and sends nothing out of order. *)
LEMMA KeepsNext ==
  ASSUME SerIInv, CloseDrained, [Next]_vars
  PROVE  Keeps
<1>1. CASE UNCHANGED vars
  BY <1>1, KeepsRest DEF vars, portvars, uart
<1>2. CASE sio_ierdy_snd
  BY <1>2, KeepsTx
<1>3. CASE transmit
  BY <1>3, KeepsRest DEF transmit, portvars
<1>4. ASSUME NEW c \in {"STOP", "START", "data"}, sio_ierdy_rcv(c)
      PROVE  Keeps
  BY <1>4, KeepsRx
<1>5. ASSUME NEW t \in Task, serial_opn_por(t) \/ serial_cls_por(t) \/ serial_ctl_por(t)
      PROVE  Keeps
  <2>1. CASE serial_ctl_por(t)
    BY <2>1, KeepsRest DEF serial_ctl_por, uart
  <2> QED
    BY <1>5, <2>1, KeepsOpen, KeepsClose
<1>6. ASSUME NEW t \in Task, NEW len \in 1 .. MaxLen,
             serial_wri_dat(t, len) \/ serial_rea_dat(t, len)
      PROVE  Keeps
  BY <1>6, KeepsCall
<1>7. ASSUME NEW t \in Task,
             \/ wai_sem(t, "snd", "wai_snd", "wri")
             \/ sig_sem(t, "snd", "sig_snd", ret[t])
      PROVE  Keeps
  BY <1>7, KeepsSnd
<1>8. ASSUME NEW t \in Task,
             \/ wai_sem(t, "rcv", "wai_rcv", "rea")
             \/ sig_sem(t, "rcv", "sig_rcv", "out")
      PROVE  Keeps
  BY <1>8, KeepsRcv
<1>9. ASSUME NEW t \in Task, serial_wri_chr(t) \/ serial_rea_chr(t)
      PROVE  Keeps
  BY <1>9, KeepsWrite, KeepsRead
<1> QED
  BY <1>1, <1>2, <1>3, <1>4, <1>5, <1>6, <1>7, <1>8, <1>9 DEF Next

(* The invariant of the driver whose port is closed only when drained. *)
LEMMA SerInvariant ==
  ASSUME CloseDrained
  PROVE  Spec => []SerIInv
<1>1. SerIInv /\ [Next]_vars => SerIInv'
  BY KeepsNext DEF Keeps
<1> QED
  BY SerInit, <1>1, PTL DEF Spec

(* The semaphores mirror the counts: of the send semaphore and the writers *)
(* in their loop there is one exactly while snd_buffer has room, of the    *)
(* receive semaphore and the readers one exactly while rcv_buffer holds a  *)
(* character, however many tasks share the port.                           *)
THEOREM TokensMirrorCounts ==
  ASSUME CloseDrained
  PROVE  Spec => []TokenInv
<1>1. SerIInv => TokenInv
  <2> SUFFICES ASSUME SerIInv PROVE TokenInv
    OBVIOUS
  <2> DEFINE W == {t \in Task : at[t] \in {"wri", "sig_snd"}}
             R == {t \in Task : HoldsRcv(t)}
  <2>1. Types /\ SndToken /\ RcvToken /\ snd_count \in 0 .. SERIAL_BUFSZ
    BY DEF SerIInv, Line
  <2>3. /\ (\A u \in Task : ~Writing(u)) => Cardinality(W) = 0
        /\ \A t \in Task : Writing(t) /\ (\A u \in Task \ {t} : ~Writing(u))
             => Cardinality(W) = 1
    <3>1. (\A u \in Task : ~Writing(u)) => W = {}
      BY DEF Writing
    <3>2. ASSUME NEW t \in Task, Writing(t), \A u \in Task \ {t} : ~Writing(u)
          PROVE  W = {t}
      BY <3>2 DEF Writing
    <3> HIDE DEF W
    <3> QED
      BY <3>1, <3>2, FS_EmptySet, FS_Singleton
  <2>4. /\ (\A u \in Task : ~HoldsRcv(u)) => Cardinality(R) = 0
        /\ \A t \in Task : HoldsRcv(t) /\ (\A u \in Task \ {t} : ~HoldsRcv(u))
             => Cardinality(R) = 1
    <3>1. (\A u \in Task : ~HoldsRcv(u)) => R = {}
      BY DEF HoldsRcv
    <3>2. ASSUME NEW t \in Task, HoldsRcv(t), \A u \in Task \ {t} : ~HoldsRcv(u)
          PROVE  R = {t}
      BY <3>2 DEF HoldsRcv
    <3> HIDE DEF R
    <3> QED
      BY <3>1, <3>2, FS_EmptySet, FS_Singleton
  <2> HIDE DEF W, R
  <2>5. sem.snd + Cardinality(W) = (IF snd_count = SERIAL_BUFSZ THEN 0 ELSE 1)
    BY <2>1, <2>3, Sizes DEF SndToken
  <2>6. sem.rcv + Cardinality(R) = (IF rcv_count = 0 THEN 0 ELSE 1)
    BY <2>1, <2>4 DEF RcvToken
  <2> QED
    BY <2>5, <2>6 DEF TokenInv, At, W, R
<1> QED
  BY SerInvariant, <1>1, PTL

(* What was written and not sent is in snd_buffer, whose pointers agree    *)
(* with its count, and neither count passes the size of its buffer,        *)
(* although serial_wri_chr and serial_rea_chr do not look.                 *)
THEOREM NothingIsLost ==
  ASSUME CloseDrained
  PROVE  Spec => []NothingLost
<1>1. SerIInv => NothingLost
  <2> SUFFICES ASSUME SerIInv PROVE NothingLost
    OBVIOUS
  <2>1. /\ sent \in 0 .. SERIAL_BUFSZ /\ snd_count \in 0 .. SERIAL_BUFSZ
        /\ snd_read_ptr \in 0 .. SERIAL_BUFSZ - 1 /\ rcv_count \in 0 .. SERIAL_BUFSZ
        /\ written = Plus(sent, snd_count, Stamps)
        /\ snd_write_ptr = Plus(snd_read_ptr, snd_count, SERIAL_BUFSZ)
    BY DEF SerIInv, Types, Line
  <2>2. (sent + snd_count) % Stamps = Plus(sent, snd_count, Stamps)
    <3> DEFINE n == Stamps
               x == sent + snd_count
    <3>1. n \in Nat \ {0} /\ x \in 0 .. 2 * n - 1
      BY <2>1, Sizes
    <3> HIDE DEF n, x
    <3>2. x % n = IF x < n THEN x ELSE x - n
      BY <3>1, Rest
    <3>3. x % n = Plus(sent, snd_count, n)
      BY <2>1, <3>1, <3>2 DEF Plus, x
    <3> QED
      BY <3>3, Zenon DEF n, x
  <2>3. (snd_read_ptr + snd_count) % SERIAL_BUFSZ = Plus(snd_read_ptr, snd_count, SERIAL_BUFSZ)
    <3> DEFINE n == SERIAL_BUFSZ
               x == snd_read_ptr + snd_count
    <3>1. n \in Nat \ {0} /\ x \in 0 .. 2 * n - 1
      BY <2>1, Sizes
    <3> HIDE DEF n, x
    <3>2. x % n = IF x < n THEN x ELSE x - n
      BY <3>1, Rest
    <3>3. x % n = Plus(snd_read_ptr, snd_count, n)
      BY <2>1, <3>1, <3>2 DEF Plus, x
    <3> QED
      BY <3>3, Zenon DEF n, x
  <2> QED
    BY <2>1, <2>2, <2>3 DEF NothingLost
<1> QED
  BY SerInvariant, <1>1, PTL

(* The characters go out in the order in which they were written, none     *)
(* twice and none skipped, over STOP and START, echoes and full buffers.   *)
THEOREM SentInOrder ==
  ASSUME CloseDrained
  PROVE  Spec => InOrder
<1>1. SerIInv /\ [Next]_vars => [sent' \in {sent, Succ(sent)}]_vars
  BY KeepsNext DEF Keeps
<1> QED
  BY SerInvariant, <1>1, PTL DEF Spec, InOrder

(* A START or STOP that waits for the transmitter has its interrupt,       *)
(* whatever is in the buffers when the port is closed and opened.          *)
THEOREM FcGetsSent == Spec => []FcWillBeSent
<1>1. Init => FcWillBeSent
  BY DEF Init, FcWillBeSent
<1>2. FcWillBeSent /\ [Next]_vars => FcWillBeSent'
  <2> SUFFICES ASSUME FcWillBeSent, [Next]_vars PROVE FcWillBeSent'
    OBVIOUS
  <2> USE DEF FcWillBeSent
  <2>1. CASE UNCHANGED <<openflag, rcv_fc_chr, ier>>
    BY <2>1
  <2>2. CASE sio_ierdy_snd
    BY <2>2 DEF sio_ierdy_snd, portvars
  <2>3. ASSUME NEW c \in {"STOP", "START", "data"}, sio_ierdy_rcv(c)
        PROVE  FcWillBeSent'
    <3>1. rx_stop \/ rx_restart \/ rx_drop \/ rx_store
      BY <2>3 DEF sio_ierdy_rcv
    <3>2. openflag' = openflag
      BY <2>3 DEF sio_ierdy_rcv, portvars
    <3>3. CASE rx_stop \/ rx_drop
      BY <3>2, <3>3 DEF rx_stop, rx_drop, fcvars, uart
    <3>4. CASE rx_restart
      BY <3>2, <3>4 DEF rx_restart, fcvars, uart, serial_snd_chr
    <3>5. CASE rx_store
      BY <3>2, <3>5 DEF rx_store, fcvars, uart, serial_snd_chr
    <3> QED
      BY <3>1, <3>3, <3>4, <3>5
  <2>4. ASSUME NEW t \in Task, serial_opn_por(t) \/ serial_cls_por(t)
        PROVE  FcWillBeSent'
    BY <2>4 DEF serial_opn_por, serial_cls_por, fcvars
  <2>5. ASSUME NEW t \in Task, serial_wri_chr(t)
        PROVE  FcWillBeSent'
    BY <2>5 DEF serial_wri_chr, serial_snd_chr, portvars, fcvars, uart
  <2>6. ASSUME NEW t \in Task, serial_rea_chr(t)
        PROVE  FcWillBeSent'
    BY <2>6 DEF serial_rea_chr, serial_snd_chr, portvars, fcvars, uart
  <2> QED
    BY <2>1, <2>2, <2>3, <2>4, <2>5, <2>6
       DEF Next, vars, portvars, fcvars, uart, transmit, serial_ctl_por, serial_wri_dat,
           serial_rea_dat, wai_sem, sig_sem
<1> QED
  BY <1>1, <1>2, PTL DEF Spec
=============================================================================
