------------------------------- MODULE Audio -------------------------------
(***************************************************************************)
(* The audio driver of the SDK, kzdev_audio.c.  Two DMA channels run round *)
(* a triple buffer of rows, one recording and one playing; the interrupt   *)
(* of each row, KzAudioISRSport0, moves it to and from a double buffer,    *)
(* and wakes the DSP task for each half that is full.  The DSP task has    *)
(* the highest priority (kzsdk.cfg), so a user task runs only while the    *)
(* DSP task sleeps or its call-back waits, and never with an interrupt     *)
(* pending.                                                                *)
(*                                                                         *)
(* Row n of the input is the number n, silence is 0, and the call-back     *)
(* copies its input to its output.  nBlocks is counted in rows of          *)
(* SAMPLES_PER_INTR samples.  A user is one task; the test and the         *)
(* assignment of mbStarted are nevertheless two steps.                     *)
(***************************************************************************)
EXTENDS Integers, Sequences

CONSTANTS
  AudioUser,       \* the tasks that start and stop the audio
  Blocks,          \* values of nBlocks / SAMPLES_PER_INTR that are asked for
  MaxBlocks,       \* KZAUDIO_MAX_AUDIO_NBLOCKS / SAMPLES_PER_INTR
  MaxRows,         \* bound on the rows of one session
  CbkWaits         \* may the call-back wait?

ASSUME AudioAssumption ==
  /\ Blocks \subseteq Nat /\ MaxBlocks \in Nat \ {0} /\ MaxRows \in Nat
  /\ CbkWaits \in BOOLEAN

INTR_PER_BUFFER == 3
Silence == 0

VARIABLES
  aud,             \* the driver's scalars: mbStarted, mfnCbk (is it set?), mnBlocks,
                   \* State1, State2 and Inner2 (mnAudioBuf...), pre (preState2)
  rx1, tx1,        \* the triple buffers, a row each
  rx2, tx2,        \* the halves of the double buffers
  dma,             \* on, row (in progress), irq (status bit), n (rows done), out (played)
  dsp,             \* where the DSP task is; aud_wup: its wake-up count
  aud_wup,
  aud_user         \* where each user task is

audvars == <<aud, rx1, tx1, rx2, tx2, dma, dsp, aud_wup, aud_user>>

Rows == 0 .. INTR_PER_BUFFER - 1
SilentHalves == [h \in 0 .. 1 |-> [i \in 0 .. MaxBlocks - 1 |-> Silence]]

AudioInit ==
  /\ aud = [mbStarted |-> FALSE, mfnCbk |-> FALSE, mnBlocks |-> 0,
            State1 |-> 0, State2 |-> 0, Inner2 |-> 0, pre |-> 0]
  /\ rx1 = [r \in Rows |-> Silence] /\ tx1 = rx1
  /\ rx2 = SilentHalves /\ tx2 = SilentHalves
  /\ dma = [on |-> FALSE, row |-> 0, irq |-> FALSE, n |-> 0, out |-> Silence]
  /\ dsp = "slp" /\ aud_wup = 0
  /\ aud_user = [u \in AudioUser |-> "out"]

-----------------------------------------------------------------------------
(* The deadlines the driver relies on: a row's interrupt is served before  *)
(* the next row is done, and the DSP task is through with a half before    *)
(* the other half is full.                                                 *)
InTime == ~dma.irq /\ ~(dsp # "slp" /\ aud.Inner2 = aud.mnBlocks - 1)

dma_row ==
  /\ dma.on /\ InTime /\ dma.n < MaxRows
  /\ dma' = [dma EXCEPT !.n = @ + 1, !.row = (@ + 1) % INTR_PER_BUFFER,
                        !.irq = TRUE, !.out = tx1[dma.row]]
  /\ rx1' = [rx1 EXCEPT ![dma.row] = dma.n + 1]
  /\ UNCHANGED <<aud, tx1, rx2, tx2, dsp, aud_wup, aud_user>>

(* iwup_tsk: a second wake-up is refused and lost. *)
wake == IF dsp = "slp" THEN dsp' = "prepare" /\ UNCHANGED aud_wup
                       ELSE aud_wup' = 1 /\ UNCHANGED dsp

(* The register DMA2_CURR_Y_COUNT reads 2 while the second row is played. *)
KzAudioISRSport0 ==
  /\ dma.irq
  /\ dma' = [dma EXCEPT !.irq = FALSE]
  /\ LET s1 == IF dma.row = 1 THEN 0 ELSE aud.State1 + 1
         h == aud.State2
         full == aud.Inner2 + 1 >= aud.mnBlocks
     IN /\ rx2' = [rx2 EXCEPT ![h][aud.Inner2] = rx1[s1]]
        /\ tx1' = [tx1 EXCEPT ![s1] = tx2[h][aud.Inner2]]
        /\ aud' = [aud EXCEPT !.State1 = s1,
                              !.Inner2 = IF full THEN 0 ELSE @ + 1,
                              !.State2 = IF full THEN 1 - @ ELSE @]
        /\ IF full THEN wake ELSE UNCHANGED <<dsp, aud_wup>>
  /\ UNCHANGED <<rx1, tx2, aud_user>>

-----------------------------------------------------------------------------
(* KzAudioDspTask, from slp_tsk to slp_tsk *)

half(h, block) == [tx2 EXCEPT ![h] =
                     [i \in DOMAIN @ |-> IF i < aud.mnBlocks THEN block[i] ELSE @[i]]]

(* Mistake: the half that is being filled, not the one that is full. *)
dsp_prepare_mut ==
  /\ dsp = "prepare"
  /\ aud' = [aud EXCEPT !.pre = aud.State2]
  /\ tx2' = half(aud.State2, SilentHalves[0])
  /\ dsp' = "call"
  /\ UNCHANGED <<rx1, tx1, rx2, dma, aud_wup, aud_user>>

dsp_prepare ==
  /\ dsp = "prepare"
  /\ LET pre == IF aud.State2 = 0 THEN 1 ELSE aud.State2 - 1
     IN /\ aud' = [aud EXCEPT !.pre = pre]
        /\ tx2' = half(pre, SilentHalves[0])
  /\ dsp' = "call"
  /\ UNCHANGED <<rx1, tx1, rx2, dma, aud_wup, aud_user>>

dsp_call ==
  /\ dsp = "call"
  /\ dsp' = IF aud.mfnCbk THEN "cbk" ELSE "post"
  /\ UNCHANGED <<aud, rx1, tx1, rx2, tx2, dma, aud_wup, aud_user>>

callback ==
  /\ dsp = "cbk"
  /\ tx2' = half(aud.pre, rx2[aud.pre])
  /\ dsp' = "post"
  /\ UNCHANGED <<aud, rx1, tx1, rx2, dma, aud_wup, aud_user>>

dsp_post ==
  /\ dsp = "post"
  /\ dsp' = IF aud_wup > 0 THEN "prepare" ELSE "slp"
  /\ aud_wup' = 0
  /\ UNCHANGED <<aud, rx1, tx1, rx2, tx2, dma, aud_user>>

-----------------------------------------------------------------------------
(* kzdev_audio_start and kzdev_audio_stop *)

may_run(u, l) ==
  /\ aud_user[u] = l /\ ~dma.irq
  /\ dsp = "slp" \/ (CbkWaits /\ dsp = "cbk")

aud_goto(u, l) == aud_user' = [aud_user EXCEPT ![u] = l]

kzdev_audio_start(u) ==
  /\ may_run(u, "out")
  /\ ~aud.mbStarted
  /\ aud_goto(u, "claim")
  /\ UNCHANGED <<aud, rx1, tx1, rx2, tx2, dma, dsp, aud_wup>>

(* setup_audio refuses a size that does not fit. *)
refuse(u) ==
  /\ may_run(u, "claim")
  /\ \E n \in Blocks : n = 0 \/ n > MaxBlocks
  /\ aud' = [aud EXCEPT !.mbStarted = FALSE, !.mfnCbk = FALSE, !.mnBlocks = 0]
  /\ aud_goto(u, "out")
  /\ UNCHANGED <<rx1, tx1, rx2, tx2, dma, dsp, aud_wup>>

(* Mistake: the place in the half is left from the last session. *)
setup_audio_mut(u, n) ==
  /\ may_run(u, "claim")
  /\ n \in 1 .. MaxBlocks
  /\ aud' = [aud EXCEPT !.mbStarted = TRUE, !.mnBlocks = n, !.State1 = 2, !.State2 = 0]
  /\ rx2' = SilentHalves /\ tx2' = SilentHalves
  /\ aud_goto(u, "cbk")
  /\ UNCHANGED <<rx1, tx1, dma, dsp, aud_wup>>

(* numof of the triple buffers is 3: their rows keep what they held. *)
setup_audio(u, n) ==
  /\ may_run(u, "claim")
  /\ n \in 1 .. MaxBlocks
  /\ aud' = [aud EXCEPT !.mbStarted = TRUE, !.mnBlocks = n,
                        !.State1 = 2, !.State2 = 0, !.Inner2 = 0]
  /\ rx2' = SilentHalves /\ tx2' = SilentHalves
  /\ aud_goto(u, "cbk")
  /\ UNCHANGED <<rx1, tx1, dma, dsp, aud_wup>>

set_callback(u) ==
  /\ may_run(u, "cbk")
  /\ aud' = [aud EXCEPT !.mfnCbk = TRUE]
  /\ aud_goto(u, "start")
  /\ UNCHANGED <<rx1, tx1, rx2, tx2, dma, dsp, aud_wup>>

start_audio(u) ==
  /\ may_run(u, "start")
  /\ dma' = [dma EXCEPT !.on = TRUE, !.row = 0, !.n = 0, !.out = Silence]
  /\ aud_goto(u, "out")
  /\ UNCHANGED <<aud, rx1, tx1, rx2, tx2, dsp, aud_wup>>

(* Mistake: no dly_tsk. *)
stop_audio_mut(u) ==
  /\ may_run(u, "out")
  /\ aud.mbStarted
  /\ dma' = [dma EXCEPT !.on = FALSE]
  /\ aud_goto(u, "stopped")
  /\ UNCHANGED <<aud, rx1, tx1, rx2, tx2, dsp, aud_wup>>

stop_audio(u) ==
  /\ may_run(u, "out")
  /\ aud.mbStarted
  /\ dma' = [dma EXCEPT !.on = FALSE]
  /\ aud_goto(u, "delay")
  /\ UNCHANGED <<aud, rx1, tx1, rx2, tx2, dsp, aud_wup>>

(* dly_tsk(10): a call-back that waits ends within it. *)
delay_end(u) ==
  /\ may_run(u, "delay")
  /\ dsp = "slp"
  /\ dma' = [dma EXCEPT !.irq = FALSE]
  /\ aud_goto(u, "stopped")
  /\ UNCHANGED <<aud, rx1, tx1, rx2, tx2, dsp, aud_wup>>

kzdev_audio_stop(u) ==
  /\ may_run(u, "stopped")
  /\ aud' = [aud EXCEPT !.mfnCbk = FALSE, !.mnBlocks = 0, !.mbStarted = FALSE]
  /\ aud_goto(u, "out")
  /\ UNCHANGED <<rx1, tx1, rx2, tx2, dma, dsp, aud_wup>>

AudioNext ==
  \/ dma_row \/ KzAudioISRSport0
  \/ dsp_prepare \/ dsp_call \/ callback \/ dsp_post
  \/ \E u \in AudioUser :
       \/ kzdev_audio_start(u) \/ refuse(u) \/ \E n \in Blocks : setup_audio(u, n)
       \/ set_callback(u) \/ start_audio(u)
       \/ stop_audio(u) \/ delay_end(u) \/ kzdev_audio_stop(u)

AudioSpec == AudioInit /\ [][AudioNext]_audvars

-----------------------------------------------------------------------------
(* What is played is what was recorded, processed once, in order, and late *)
(* by the two buffers: both halves and the triple buffer.  Until then it   *)
(* is silence, but for the first three rows, which still hold the last     *)
(* rows of the session before.                                             *)
Delayed ==
  LET lag == 2 * aud.mnBlocks + INTR_PER_BUFFER
  IN dma.on /\ dma.n > INTR_PER_BUFFER =>
       dma.out = IF dma.n > lag THEN dma.n - lag ELSE Silence

(* When kzdev_audio_stop has returned, the driver is silent: no call-back  *)
(* runs or will run, and the next session finds the task asleep with no    *)
(* wake-up left and no interrupt pending.                                  *)
QuietWhenStopped ==
  ~aud.mbStarted => dsp = "slp" /\ aud_wup = 0 /\ ~dma.on /\ ~dma.irq /\ ~aud.mfnCbk
=============================================================================
