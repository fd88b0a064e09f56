------------------------------- MODULE Serial -------------------------------
(***************************************************************************)
(* The serial interface driver, systask/serial.c, with the UART driver of  *)
(* pdic/simple_sio/uart.c under it: one port, tasks that read and write,   *)
(* the two interrupt service routines, the line.                           *)
(*                                                                         *)
(* A section between loc_cpu and unl_cpu and an interrupt service routine  *)
(* are one action each.  The two semaphores of the port are counters a     *)
(* task may take from while positive: module SemLock shows of the kernel's *)
(* semaphores what is used here.  The calls are made under _syscall, which *)
(* aborts the kernel on an error, so a wait does not end by rel_wai, and a *)
(* semaphore counted above 1 here is an E_QOVR that aborts there.          *)
(*                                                                         *)
(* A character of the application is a number, one more (mod Stamps) than  *)
(* that of the character before it.  The CR that precedes an LF is one     *)
(* more character: serial_wri_chr takes and returns the send semaphore     *)
(* around it as serial_wri_dat does around any other.  Of the ring         *)
(* rcv_buffer only the count is kept; a cell of snd_buffer is cleared when *)
(* its character is sent, so that dead data does not multiply the states.  *)
(***************************************************************************)
EXTENDS Integers, FiniteSets

CONSTANTS
  Task,
  SERIAL_BUFSZ, BUFCNT_STOP, BUFCNT_START,
  UIntRange,     \* UINT counts modulo this (2^32)
  MaxLen,        \* bound on the length of a read or write
  Ioctls,        \* the settings serial_ctl_por is called with
  CloseDrained   \* whether the port is closed only when drained

ASSUME SerialAssumption ==
  /\ {BUFCNT_START, BUFCNT_STOP, SERIAL_BUFSZ, UIntRange} \subseteq Nat
  /\ 0 < BUFCNT_START /\ BUFCNT_START < BUFCNT_STOP /\ BUFCNT_STOP < SERIAL_BUFSZ
  /\ SERIAL_BUFSZ + 1 < UIntRange
  /\ Ioctls \subseteq SUBSET {"ECHO", "CRLF", "FCSND", "FCANY", "FCRCV"}

VARIABLES
  openflag, ioctl,
  rcv_count, rcv_fc_chr, rcv_stopped,
  snd_buffer, snd_read_ptr, snd_write_ptr, snd_count, snd_stopped,
  sem,           \* counts of SERIAL_RCV_SEM and SERIAL_SND_SEM
  ier,           \* interrupt enable register of the UART
  thr_empty,     \* transmit holding register
  at, left, wleft, ret,  \* per task: program counter and loop counters
  written, sent,         \* last character accepted from, sent for the tasks
  told                   \* last STOP or START sent to the other side

sndvars == <<snd_buffer, snd_read_ptr, snd_write_ptr, snd_count, snd_stopped>>
fcvars == <<rcv_fc_chr, rcv_stopped>>
uart == <<ier, thr_empty, sent, told>>
pcvars == <<at, left, wleft, ret>>
portvars == <<openflag, ioctl>>
vars == <<portvars, rcv_count, sndvars, fcvars, uart, sem, pcvars, written>>

Stamps == SERIAL_BUFSZ + 1
Succ(n) == (n + 1) % Stamps

(* A mistake: the pointer wraps one cell late.  (No specification uses the *)
(* operators with suffix _mut; they show what each property finds.)        *)
INC_PTR_mut(p) == (p + 1) % (SERIAL_BUFSZ + 1)

INC_PTR(p) == (p + 1) % SERIAL_BUFSZ

Init ==
  /\ openflag = FALSE /\ ioctl = {}
  /\ rcv_count = 0 /\ rcv_fc_chr = "NUL" /\ rcv_stopped = FALSE
  /\ snd_buffer = [i \in 0 .. SERIAL_BUFSZ - 1 |-> 0] /\ snd_read_ptr = 0 /\ snd_write_ptr = 0
  /\ snd_count = 0 /\ snd_stopped = FALSE
  /\ sem = [rcv |-> 0, snd |-> 1]
  /\ ier = {} /\ thr_empty = TRUE
  /\ at = [t \in Task |-> "out"]
  /\ left = [t \in Task |-> 0] /\ wleft = [t \in Task |-> 0]
  /\ ret = [t \in Task |-> "out"]
  /\ written = 0 /\ sent = 0 /\ told = "START"

-----------------------------------------------------------------------------
(* serial_opn_por and uart_opn_por: buffers and counters are cleared, the  *)
(* semaphores are not.                                                     *)
serial_opn_por(t) ==
  /\ at[t] = "out" /\ ~openflag
  /\ openflag' = TRUE
  /\ ioctl' \in Ioctls
  /\ rcv_count' = 0 /\ rcv_fc_chr' = "NUL" /\ rcv_stopped' = FALSE
  /\ snd_read_ptr' = 0 /\ snd_write_ptr' = 0 /\ snd_count' = 0
  /\ snd_stopped' = FALSE
  /\ ier' = {"RX"}
  /\ written' = sent
  /\ UNCHANGED <<snd_buffer, thr_empty, sent, told, sem, pcvars>>

(* Nothing of the last session is left: what an application that closes    *)
(* the port has to wait for itself, serial_cls_por does not.               *)
Drained == rcv_count = 0 /\ snd_count = 0 /\ \A t \in Task : at[t] = "out"

serial_cls_por(t) ==
  /\ CloseDrained => Drained
  /\ at[t] = "out" /\ openflag
  /\ openflag' = FALSE
  /\ ier' = {}
  /\ UNCHANGED <<ioctl, rcv_count, sndvars, fcvars, thr_empty, sent, told, sem,
                 pcvars, written>>

serial_ctl_por(t) ==
  /\ at[t] = "out" /\ openflag
  /\ ioctl' \in Ioctls
  /\ UNCHANGED <<openflag, rcv_count, sndvars, fcvars, uart, sem, pcvars, written>>

-----------------------------------------------------------------------------
(* Mistake: the transmit interrupt is not enabled. *)
serial_snd_chr_mut(now) ==
  /\ thr_empty' = FALSE
  /\ UNCHANGED ier
  /\ IF thr_empty THEN now ELSE UNCHANGED <<sent, told>>

(* serial_snd_chr: the character goes to the transmit register when that   *)
(* is empty, else the transmit interrupt is enabled to send it later.      *)
serial_snd_chr(now) ==
  /\ thr_empty' = FALSE
  /\ ier' = IF thr_empty THEN ier ELSE ier \cup {"TX"}
  /\ IF thr_empty THEN now ELSE UNCHANGED <<sent, told>>

send(c) == sent' = c /\ UNCHANGED told
tell(fc) == told' = fc /\ UNCHANGED sent

wai_sem(t, s, from, to) ==
  /\ at[t] = from
  /\ sem[s] > 0
  /\ sem' = [sem EXCEPT ![s] = @ - 1]
  /\ at' = [at EXCEPT ![t] = to]
  /\ UNCHANGED <<portvars, rcv_count, sndvars, fcvars, uart, left, wleft, ret, written>>

sig_sem(t, s, from, to) ==
  /\ at[t] = from
  /\ sem' = [sem EXCEPT ![s] = @ + 1]
  /\ at' = [at EXCEPT ![t] = to]
  /\ UNCHANGED <<portvars, rcv_count, sndvars, fcvars, uart, left, wleft, ret, written>>

serial_wri_dat(t, len) ==
  /\ at[t] = "out" /\ openflag
  /\ at' = [at EXCEPT ![t] = "wai_snd"]
  /\ wleft' = [wleft EXCEPT ![t] = len]
  /\ ret' = [ret EXCEPT ![t] = "out"]
  /\ UNCHANGED <<portvars, rcv_count, sndvars, fcvars, uart, sem, left, written>>

(* Where the write loop goes after a character, with buffer_full = full. *)
after_write(t, full) ==
  IF wleft[t] > 1 THEN IF full THEN "wai_snd" ELSE "wri"
  ELSE IF full THEN ret[t] ELSE "sig_snd"

put_snd_buffer(c) ==
  /\ snd_buffer' = [snd_buffer EXCEPT ![snd_write_ptr] = c]
  /\ snd_write_ptr' = INC_PTR(snd_write_ptr)
  /\ snd_count' = snd_count + 1

(* Mistake: a character is sent past those in the buffer. *)
serial_wri_chr_mut(t) ==
  LET c == Succ(written)
      try == ~snd_stopped
      full == ~(try /\ thr_empty) /\ snd_count + 1 = SERIAL_BUFSZ
  IN /\ at[t] = "wri"
     /\ IF try THEN serial_snd_chr(send(c)) ELSE UNCHANGED uart
     /\ IF try /\ thr_empty
        THEN UNCHANGED <<snd_buffer, snd_write_ptr, snd_count>>
        ELSE put_snd_buffer(c)
     /\ written' = c
     /\ at' = [at EXCEPT ![t] = after_write(t, full)]
     /\ wleft' = [wleft EXCEPT ![t] = @ - 1]
     /\ UNCHANGED <<portvars, rcv_count, snd_read_ptr, snd_stopped, fcvars, sem,
                    left, ret>>

serial_wri_chr(t) ==
  LET c == Succ(written)
      try == snd_count = 0 /\ ~snd_stopped
      full == ~(try /\ thr_empty) /\ snd_count + 1 = SERIAL_BUFSZ
  IN /\ at[t] = "wri"
     /\ IF try THEN serial_snd_chr(send(c)) ELSE UNCHANGED uart
     /\ IF try /\ thr_empty
        THEN UNCHANGED <<snd_buffer, snd_write_ptr, snd_count>>
        ELSE put_snd_buffer(c)
     /\ written' = c
     /\ at' = [at EXCEPT ![t] = after_write(t, full)]
     /\ wleft' = [wleft EXCEPT ![t] = @ - 1]
     /\ UNCHANGED <<portvars, rcv_count, snd_read_ptr, snd_stopped, fcvars, sem,
                    left, ret>>

serial_rea_dat(t, len) ==
  /\ at[t] = "out" /\ openflag
  /\ at' = [at EXCEPT ![t] = "wai_rcv"]
  /\ left' = [left EXCEPT ![t] = len]
  /\ UNCHANGED <<portvars, rcv_count, sndvars, fcvars, uart, sem, wleft, ret, written>>

(* Where the read loop goes after a character, with buffer_empty = empty. *)
after_read(t, empty) ==
  IF left[t] > 1 THEN IF empty THEN "wai_rcv" ELSE "rea"
  ELSE IF empty THEN "out" ELSE "sig_rcv"

(* What the echo of a character comes to: two of them for an LF.  CRLF is  *)
(* looked at when they are written, and may be set before that.            *)
echoed == IF \E setting \in Ioctls : "CRLF" \in setting THEN {1, 2} ELSE {1}

(* START is sent when the buffer has drained to BUFCNT_START; with ECHO    *)
(* the character is written back before the next is read.                  *)
serial_rea_chr(t) ==
  LET count == (rcv_count - 1) % UIntRange
      next == after_read(t, count = 0)
      start == rcv_stopped /\ count <= BUFCNT_START
      echo == "ECHO" \in ioctl
  IN /\ at[t] = "rea"
     /\ rcv_count' = count
     /\ IF start
        THEN /\ serial_snd_chr(tell("START"))
             /\ rcv_fc_chr' = IF thr_empty THEN rcv_fc_chr ELSE "START"
             /\ rcv_stopped' = FALSE
        ELSE UNCHANGED <<uart, fcvars>>
     /\ left' = [left EXCEPT ![t] = @ - 1]
     /\ at' = [at EXCEPT ![t] = IF echo THEN "wai_snd" ELSE next]
     /\ \E n \in echoed : wleft' = [wleft EXCEPT ![t] = IF echo THEN n ELSE @]
     /\ ret' = [ret EXCEPT ![t] = IF echo THEN next ELSE @]
     /\ UNCHANGED <<portvars, sndvars, sem, written>>

-----------------------------------------------------------------------------
(* Mistake: the count is compared after it is decremented. *)
take_snd_buffer_mut ==
  /\ snd_read_ptr' = INC_PTR(snd_read_ptr)
  /\ snd_buffer' = [snd_buffer EXCEPT ![snd_read_ptr] = 0]
  /\ sem' = IF snd_count - 1 = SERIAL_BUFSZ THEN [sem EXCEPT !.snd = @ + 1] ELSE sem
  /\ snd_count' = snd_count - 1
  /\ UNCHANGED snd_write_ptr

(* One character leaves snd_buffer, in an interrupt service routine. *)
take_snd_buffer ==
  /\ snd_read_ptr' = INC_PTR(snd_read_ptr)
  /\ snd_buffer' = [snd_buffer EXCEPT ![snd_read_ptr] = 0]
  /\ sem' = IF snd_count = SERIAL_BUFSZ THEN [sem EXCEPT !.snd = @ + 1] ELSE sem
  /\ snd_count' = snd_count - 1
  /\ UNCHANGED snd_write_ptr

keep_snd_buffer ==
  UNCHANGED <<snd_buffer, snd_read_ptr, snd_write_ptr, snd_count, sem>>

(* uart_tx_isr and sio_ierdy_snd *)
sio_ierdy_snd ==
  /\ "TX" \in ier /\ thr_empty
  /\ \/ /\ rcv_fc_chr # "NUL"
        /\ thr_empty' = FALSE
        /\ tell(rcv_fc_chr)
        /\ rcv_fc_chr' = "NUL"
        /\ UNCHANGED ier /\ keep_snd_buffer
     \/ /\ rcv_fc_chr = "NUL" /\ ~snd_stopped /\ snd_count > 0
        /\ thr_empty' = FALSE
        /\ send(snd_buffer[snd_read_ptr])
        /\ take_snd_buffer
        /\ UNCHANGED <<ier, rcv_fc_chr>>
     \/ /\ rcv_fc_chr = "NUL" /\ (snd_stopped \/ snd_count = 0)
        /\ ier' = ier \ {"TX"}
        /\ UNCHANGED <<thr_empty, sent, told, rcv_fc_chr>> /\ keep_snd_buffer
  /\ UNCHANGED <<portvars, rcv_count, snd_stopped, rcv_stopped, pcvars, written>>

(* uart_rx_isr and sio_ierdy_rcv with the received character c, one        *)
(* operator for each of its branches.                                      *)
rx_stop ==
  /\ snd_stopped' = TRUE
  /\ keep_snd_buffer /\ UNCHANGED <<rcv_count, fcvars, uart>>

rx_restart ==
  /\ snd_stopped' = FALSE
  /\ IF snd_count > 0
     THEN /\ serial_snd_chr(send(snd_buffer[snd_read_ptr]))
          /\ IF thr_empty THEN take_snd_buffer ELSE keep_snd_buffer
     ELSE keep_snd_buffer /\ UNCHANGED uart
  /\ UNCHANGED <<rcv_count, fcvars>>

rx_drop ==
  keep_snd_buffer /\ UNCHANGED <<snd_stopped, rcv_count, fcvars, uart>>

rx_store ==
  LET stop == "FCRCV" \in ioctl /\ ~rcv_stopped /\ rcv_count + 1 >= BUFCNT_STOP
  IN /\ sem' = IF rcv_count = 0 THEN [sem EXCEPT !.rcv = @ + 1] ELSE sem
     /\ rcv_count' = (rcv_count + 1) % UIntRange
     /\ IF stop
        THEN /\ serial_snd_chr(tell("STOP"))
             /\ rcv_fc_chr' = IF thr_empty THEN rcv_fc_chr ELSE "STOP"
             /\ rcv_stopped' = TRUE
        ELSE UNCHANGED <<uart, fcvars>>
     /\ UNCHANGED sndvars

sio_ierdy_rcv(c) ==
  /\ "RX" \in ier
  /\ IF "FCSND" \in ioctl /\ c = "STOP" THEN rx_stop
     ELSE IF snd_stopped /\ (c = "START" \/ "FCANY" \in ioctl) THEN rx_restart
     ELSE IF ("FCSND" \in ioctl /\ c = "START") \/ rcv_count = SERIAL_BUFSZ
     THEN rx_drop ELSE rx_store
  /\ UNCHANGED <<portvars, pcvars, written>>

(* The UART has sent the character in its transmit register. *)
transmit ==
  /\ ~thr_empty
  /\ thr_empty' = TRUE
  /\ UNCHANGED <<portvars, rcv_count, sndvars, fcvars, ier, sent, told, sem, pcvars, written>>

Next ==
  \/ sio_ierdy_snd \/ transmit
  \/ \E c \in {"STOP", "START", "data"} : sio_ierdy_rcv(c)
  \/ \E t \in Task :
       \/ serial_opn_por(t) \/ serial_cls_por(t) \/ serial_ctl_por(t)
       \/ \E len \in 1 .. MaxLen : serial_wri_dat(t, len) \/ serial_rea_dat(t, len)
       \/ wai_sem(t, "snd", "wai_snd", "wri") \/ serial_wri_chr(t)
       \/ sig_sem(t, "snd", "sig_snd", ret[t])
       \/ wai_sem(t, "rcv", "wai_rcv", "rea") \/ serial_rea_chr(t)
       \/ sig_sem(t, "rcv", "sig_rcv", "out")

Spec == Init /\ [][Next]_vars

-----------------------------------------------------------------------------
At(places) == Cardinality({t \in Task : at[t] \in places})

(* A reader between two characters of its loop holds the receive token     *)
(* also while it echoes.                                                   *)
HoldsRcv(t) ==
  \/ at[t] \in {"rea", "sig_rcv"}
  \/ at[t] \in {"wai_snd", "wri", "sig_snd"} /\ ret[t] \in {"rea", "sig_rcv"}

(* Each semaphore is a token.  The send token is with the one task in its  *)
(* write loop, or it is gone while snd_buffer is full and comes back with  *)
(* the first character sent; the receive token is there or with the one    *)
(* reader exactly while rcv_buffer holds a character.  So a task that has  *)
(* the token finds room, or a character, without looking.                  *)
TokenInv ==
  /\ sem.snd + At({"wri", "sig_snd"}) = (IF snd_count = SERIAL_BUFSZ THEN 0 ELSE 1)
  /\ sem.rcv + Cardinality({t \in Task : HoldsRcv(t)}) = (IF rcv_count = 0 THEN 0 ELSE 1)

(* Characters are sent in the order in which the tasks wrote them, none    *)
(* twice and none skipped: a write that finds the transmitter free does    *)
(* not overtake snd_buffer, and restarting after STOP neither repeats nor  *)
(* skips one.                                                              *)
InOrder == [][sent' \in {sent, Succ(sent)}]_vars

(* What was written but not sent is what snd_buffer holds, its     *)
(* pointers agree with its count, and neither count exceeds its buffer     *)
(* although the tasks do not look at them before they put or take.         *)
NothingLost ==
  /\ snd_count \in 0 .. SERIAL_BUFSZ /\ rcv_count \in 0 .. SERIAL_BUFSZ
  /\ written = (sent + snd_count) % Stamps
  /\ snd_write_ptr = (snd_read_ptr + snd_count) % SERIAL_BUFSZ

(* A START or STOP that waits for the transmitter has the transmit         *)
(* interrupt enabled while the port is open.                               *)
FcWillBeSent == openflag /\ rcv_fc_chr # "NUL" => "TX" \in ier

-----------------------------------------------------------------------------
(* What comments of serial.c say and the code does not do. *)

(* "Resume sending" (serial.c:505): characters in snd_buffer that nothing  *)
(* holds back have the transmit interrupt to send them.                    *)
SendingResumes == openflag /\ snd_count > 0 /\ ~snd_stopped => "TX" \in ier

(* rcv_stopped: "the state in which STOP has been sent" (serial.c:113):    *)
(* when the last of STOP and START that the other side got, or is going to *)
(* get, is STOP, the driver knows that it has to send START.               *)
StopIsRemembered ==
  (IF rcv_fc_chr # "NUL" THEN rcv_fc_chr ELSE told) = "STOP" => rcv_stopped

(* rcv_count: "number of characters in the receive buffer" (serial.c:111). *)
RcvCountInRange == rcv_count <= SERIAL_BUFSZ
=============================================================================
