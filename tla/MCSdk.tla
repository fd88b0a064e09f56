------------------------------- MODULE MCSdk -------------------------------
(***************************************************************************)
(* An instance for TLC of the parts of the SDK: SPI driver, files, audio   *)
(* driver, device polling.  They share no state in these models, so a      *)
(* behaviour is about one of them, which served names; the switches have   *)
(* no state in common with the other devices either, only a task that goes *)
(* from one to the next.  The volumes are those of MCFiles.                *)
(***************************************************************************)
EXTENDS MCFiles, SpiDriver, Audio, Devices

CONSTANTS t1, t2, u1, u2

VARIABLE served

MCipriority == [t \in Task |-> IF t = t1 THEN 0 ELSE 1]
MCtorder == <<t2, t1>>
MCisemcnt == [s \in Sem |-> IF s = SPI_DEVICE_SEM THEN 1 ELSE 0]
MCmaxsem == [s \in Sem |-> 1]
MCTransfer == {<<1, 0>>, <<0, 1>>, <<1, 1>>, <<3, 1>>, <<1, 3>>, <<2, 2>>}

spiparts == <<semvars, spivars>>
sdkvars == <<spiparts, stdiovars, audvars, devvars, served>>

(* What the files start with is told apart where they are served.          *)
FirstVolume == CHOOSE d \in Volume : TRUE

SdkInit ==
  /\ served \in {"spi", "files", "audio", "switches", "card"}
  /\ SpiInit /\ StdioInit /\ AudioInit /\ DevInit
  /\ served # "files" =>
       fs.ss = FirstVolume.ss /\ fs.csize = FirstVolume.csize
       /\ fs.data = FirstVolume.data /\ fs.fat = FirstVolume.fat

SwitchesOnly == UNCHANGED mems /\ \A w \in DevUser : user'[w].at \in {"out", "force"}

NoSwitches == ~sw'.cbk /\ sw'.cur = sw.cur

SdkNext ==
  /\ UNCHANGED served
  /\ \/ served = "spi" /\ SpiNext /\ UNCHANGED <<stdiovars, audvars, devvars>>
     \/ served = "files" /\ StdioNext /\ UNCHANGED <<spiparts, audvars, devvars>>
     \/ served = "audio" /\ AudioNext /\ UNCHANGED <<spiparts, stdiovars, devvars>>
     \/ /\ DevNext
        /\ \/ served = "switches" /\ SwitchesOnly
           \/ served = "card" /\ NoSwitches
        /\ UNCHANGED <<spiparts, stdiovars, audvars>>

(* DevFairness, where it matters *)
SdkFairness ==
  /\ WF_devvars(served = "card" /\ KzDevCycHander)
  /\ WF_devvars(served = "card" /\ KzDevPollingTask)
  /\ \A w \in DevUser : SF_devvars(served = "card" /\ Finish(w))

SdkSpec == SdkInit /\ [][SdkNext]_sdkvars /\ SdkFairness
=============================================================================
