----------------------------- MODULE SpiDriver -----------------------------
(***************************************************************************)
(* The SPI driver of the SDK, kzdev_spi.c, over semaphores and the kernel. *)
(* A user takes the bus with kzdev_spi_open, transfers nTx units out and   *)
(* nRx units in (both at once) any number of times, and gives it back.     *)
(* The interrupt handler moves one unit at a time and signals the end with *)
(* a second semaphore.  Initialisation routines, which run before the      *)
(* kernel is in operation, poll the device instead; they are the caller    *)
(* NULL here.                                                              *)
(*                                                                         *)
(* The device is modelled as the driver programs it (TIMOD 00): a read of  *)
(* RDBR while it is enabled starts the next shift, which sends what TDBR   *)
(* holds and puts the answer in RDBR.  Unit i of a buffer is the number i  *)
(* and a filler (0xFF) is 0; the i-th answer of the other side is i.       *)
(***************************************************************************)
EXTENDS Semaphore, FiniteSetsExt

CONSTANTS
  SPI_DEVICE_SEM, SPI_COMPLETE_SIG,
  SpiUser,         \* the tasks that use the driver
  Transfer,        \* the pairs <<nTx, nRx>> they ask for
  MayTimeOut       \* does twai_sem ever end by time-out?

NoConfig == "none"

ASSUME SpiAssumption ==
  /\ {SPI_DEVICE_SEM, SPI_COMPLETE_SIG} \subseteq Sem
  /\ isemcnt[SPI_DEVICE_SEM] = 1 /\ isemcnt[SPI_COMPLETE_SIG] = 0
  /\ SpiUser \subseteq Task /\ NoConfig \notin Task \cup {NULL}
  /\ Transfer \subseteq (Nat \X Nat) \ {<<0, 0>>}
  /\ MayTimeOut \in BOOLEAN

VARIABLES
  pc,              \* where each user is
  job,             \* the parameters of the call of each user
  spi,             \* the driver's variables: cur (mpCurConfig), tx, rx (the
                   \* counts left), ena (INHNO_SPI0 enabled)
  dev,             \* the device: on (CTL), tdbr, shift (one is going on), full (RXS)
  wire, rxbuf      \* units sent, units stored, of the current transfer

spivars == <<pc, job, spi, dev, wire, rxbuf>>

Users == SpiUser \cup {NULL}
caller == IF iniflg THEN runtsk ELSE NULL
spi_goto(l) == pc' = [pc EXCEPT ![caller] = l]

SpiInit ==
  /\ SemInit
  /\ pc = [u \in Users |-> "out"]
  /\ job = [u \in Users |-> <<0, 0>>]
  /\ spi = [cur |-> "none", tx |-> 0, rx |-> 0, ena |-> FALSE]
  /\ dev = [on |-> FALSE, tdbr |-> 0, shift |-> FALSE, full |-> FALSE]
  /\ wire = << >> /\ rxbuf = << >>

-----------------------------------------------------------------------------
(* The device *)

shift_end ==
  /\ dev.shift
  /\ dev' = [dev EXCEPT !.shift = FALSE, !.full = TRUE]
  /\ wire' = Append(wire, dev.tdbr)
  /\ UNCHANGED <<semvars, pc, job, spi, rxbuf>>

read_RDBR(d) == [d EXCEPT !.full = FALSE, !.shift = d.on]

-----------------------------------------------------------------------------
(* snd, get_rx and rcv_snd; ntx is the length of the current Tx buffer *)

snd_dev(d, s, ntx) == [d EXCEPT !.tdbr = IF s.tx > 0 THEN ntx - s.tx + 1 ELSE 0]
snd_spi(s) == [s EXCEPT !.tx = Max({@ - 1, 0})]

get_rx(s) == [s EXCEPT !.rx = Max({@ - 1, 0})]
store == rxbuf' = IF spi.rx > 0 THEN Append(rxbuf, Len(wire)) ELSE rxbuf

transfer_end_mut == spi.tx <= 0 /\ spi.rx <= 0

transfer_end == spi.tx <= 0 /\ spi.rx <= 1

(* Mistake: the read that starts the next shift precedes the write. *)
send_mut(ntx) == [read_RDBR(dev) EXCEPT !.tdbr = @]

send(ntx) == read_RDBR(snd_dev(dev, spi, ntx))

rcv_snd ==
  /\ store
  /\ IF transfer_end
     THEN /\ dev' = [dev EXCEPT !.on = FALSE, !.full = @ /\ spi.rx = 0]
          /\ spi' = [get_rx(spi) EXCEPT !.cur = NoConfig]
     ELSE /\ dev' = send(job[spi.cur][1])
          /\ spi' = get_rx(snd_spi(spi))
  /\ UNCHANGED wire

(* The semaphore call of the handler; its error E_QOVR is ignored. *)
signal_complete ==
  \/ isig_sem(SPI_COMPLETE_SIG)
  \/ /\ INTCTX_UNL
     /\ k.wait_queue[SPI_COMPLETE_SIG] = << >>
     /\ semcnt[SPI_COMPLETE_SIG] = maxsem[SPI_COMPLETE_SIG]
     /\ UNCHANGED semvars

KzISRSpi ==
  /\ INTCTX_UNL /\ spi.ena /\ dev.full /\ dev.on
  /\ spi.cur # NoConfig
  /\ rcv_snd
  /\ IF transfer_end THEN signal_complete ELSE UNCHANGED semvars
  /\ UNCHANGED <<pc, job>>

-----------------------------------------------------------------------------
(* The calls.  Before iniflg the semaphores are left alone. *)

at(l) ==
  /\ (iniflg => TSKCTX_UNL) /\ (~iniflg => todo = << >>)
  /\ caller \in Users /\ pc[caller] \in l

open_mut ==
  /\ at({"out"})
  /\ spi_goto("open")
  /\ UNCHANGED <<semvars, job, spi, dev, wire, rxbuf>>

kzdev_spi_open ==
  /\ at({"out"})
  /\ IF iniflg THEN twai_sem(SPI_DEVICE_SEM, "none") ELSE UNCHANGED semvars
  /\ spi_goto(IF iniflg /\ semcnt[SPI_DEVICE_SEM] < 1 THEN "opening" ELSE "open")
  /\ UNCHANGED <<job, spi, dev, wire, rxbuf>>

open_return ==
  /\ at({"opening"})
  /\ spi_goto("open")
  /\ UNCHANGED <<semvars, job, spi, dev, wire, rxbuf>>

kzdev_spi_close ==
  /\ at({"open", "done"})
  /\ IF iniflg THEN sig_sem(SPI_DEVICE_SEM) ELSE UNCHANGED semvars
  /\ spi_goto("out")
  /\ UNCHANGED <<job, spi, dev, wire, rxbuf>>

(* kzdev_spi_readwrite up to the double read of RDBR in spi_start *)
kzdev_spi_readwrite(n) ==
  /\ at({"open", "done"})
  /\ job' = [job EXCEPT ![caller] = n]
  /\ spi' = [spi EXCEPT !.cur = caller, !.tx = n[1], !.rx = n[2]]
  /\ dev' = read_RDBR(dev)
  /\ wire' = << >> /\ rxbuf' = << >>
  /\ spi_goto("starting")
  /\ UNCHANGED semvars

(* The device is enabled, and the first unit written. *)
spi_start ==
  /\ at({"starting"})
  /\ spi.cur # NoConfig
  /\ dev' = snd_dev([dev EXCEPT !.on = TRUE], spi, job[spi.cur][1])
  /\ spi' = snd_spi(spi)
  /\ spi_goto("trigger")
  /\ UNCHANGED <<semvars, job, wire, rxbuf>>

(* The last read of spi_start, which starts the first shift. *)
spi_trigger ==
  /\ at({"trigger"})
  /\ dev' = read_RDBR(dev)
  /\ spi_goto(IF iniflg THEN "enable" ELSE "polling")
  /\ UNCHANGED <<semvars, job, spi, wire, rxbuf>>

exec_by_polling ==
  /\ at({"polling"})
  /\ dev.full
  /\ rcv_snd
  /\ spi_goto(IF transfer_end THEN "done" ELSE "polling")
  /\ UNCHANGED <<semvars, job>>

ena_int ==
  /\ at({"enable"})
  /\ spi' = [spi EXCEPT !.ena = TRUE]
  /\ spi_goto("wait")
  /\ UNCHANGED <<semvars, job, dev, wire, rxbuf>>

exec_by_interrupt ==
  /\ at({"wait"})
  /\ twai_sem(SPI_COMPLETE_SIG, "wait_tmout")
  /\ spi_goto(IF semcnt[SPI_COMPLETE_SIG] >= 1 THEN "done" ELSE "waiting")
  /\ UNCHANGED <<job, spi, dev, wire, rxbuf>>

(* twai_sem returns; after a time-out the driver signals its own semaphore *)
(* (E_QOVR is ignored).                                                    *)
exec_return ==
  /\ at({"waiting"})
  /\ \/ /\ k.tcb[runtsk].winfo = "E_OK"
        /\ UNCHANGED semvars
        /\ spi_goto("done")
     \/ /\ k.tcb[runtsk].winfo # "E_OK"
        /\ \/ sig_sem(SPI_COMPLETE_SIG)
           \/ semcnt[SPI_COMPLETE_SIG] = maxsem[SPI_COMPLETE_SIG] /\ UNCHANGED semvars
        /\ spi_goto("open")
  /\ UNCHANGED <<job, spi, dev, wire, rxbuf>>

-----------------------------------------------------------------------------
SpiElsewhere ==
  /\ \/ task_initialize
     \/ pc[NULL] = "out" /\ kernel_start
     \/ interrupt_enter \/ interrupt_return \/ wait_for_intr
     \/ MayTimeOut /\ \E t \in SpiUser : timeout(t)
  /\ UNCHANGED <<semcnt, spivars>>

SpiNext ==
  \/ shift_end \/ KzISRSpi
  \/ kzdev_spi_open \/ open_return \/ kzdev_spi_close
  \/ \E n \in Transfer : kzdev_spi_readwrite(n)
  \/ spi_start \/ spi_trigger \/ exec_by_polling
  \/ ena_int \/ exec_by_interrupt \/ exec_return
  \/ SpiElsewhere

SpiSpec == SpiInit /\ [][SpiNext]_<<semvars, spivars>>

-----------------------------------------------------------------------------
(* A transfer that has been reported as done is done: the wire carried     *)
(* exactly the units of the Tx buffer and then fillers, in order, and as   *)
(* many as the longer of the two buffers; the Rx buffer holds the answers, *)
(* the first ones, in order; and the device is off.                        *)
TransferDone ==
  \A u \in Users : pc[u] = "done" =>
    /\ wire = [i \in 1 .. Max({job[u][1], job[u][2]}) |-> IF i <= job[u][1] THEN i ELSE 0]
    /\ rxbuf = [i \in 1 .. job[u][2] |-> i]
    /\ ~dev.on /\ spi.cur = NoConfig

(* The driver works for one user at a time, from its open to its close,    *)
(* and a transfer is going on only for that user; neither the handler nor  *)
(* spi_start meets an mpCurConfig that has been cleared under it.          *)
OneTransfer ==
  LET holders == {u \in Users : pc[u] \notin {"out", "opening"}}
  IN /\ Cardinality(holders) <= 1
     /\ spi.cur # NoConfig => spi.cur \in holders
     /\ \A u \in holders : pc[u] = "starting" => spi.cur = u
     /\ dev.on => spi.cur # NoConfig
=============================================================================
