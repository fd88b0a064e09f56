------------------------------ MODULE Devices ------------------------------
(***************************************************************************)
(* The device polling task of the SDK (kzdev.c) with switches, the         *)
(* accelerometer (kzdev_mems.c) and the memory card (kzdev_mmc.c).  A      *)
(* cyclic handler wakes the polling task each millisecond.  The task scans *)
(* the switches, reads the accelerometer over the SPI bus, and counts down *)
(* the two timers with which the card driver limits its waits.  Bus users  *)
(* hold kzdev_spi_open's semaphore; a transfer waits for its interrupt.    *)
(*                                                                         *)
(* User tasks are less urgent than the polling task, as the main task of   *)
(* every sample is (priority 8 against 5): they run only while it sleeps   *)
(* or waits.  Call-backs do not wait.  LEDs are left out.                  *)
(***************************************************************************)
EXTENDS Integers, Sequences

CONSTANTS
  Switch,          \* how many switches, KZDEV_SW_NUM
  DevUser,         \* the user tasks
  SwUser, MemsUser, CardUser,   \* those that use switches, accelerometer, card
  KZDEV_SW_SCAN_TIME, KZDEV_MMC_SCAN_TIME,
  Limit,           \* what wait_ready and rcvr_datablock set their timer to
  NOBODY, POLLER   \* no owner of the bus; the polling task

ASSUME DevAssumption ==
  /\ {Switch, KZDEV_SW_SCAN_TIME, KZDEV_MMC_SCAN_TIME, Limit} \subseteq Nat \ {0}
  /\ SwUser \cup MemsUser \cup CardUser \subseteq DevUser
  /\ {NOBODY, POLLER} \cap DevUser = {} /\ NOBODY # POLLER

VARIABLES
  pol,             \* where the polling task is; wup: its wake-up count
  wup,
  scancount,       \* mnScanCount of the switches (sw) and of the card (mmc)
  sw,              \* mSwCB: cbk (is mfnCbk set?), force, cur; i: the loop's index
  heard,           \* what the present call-back has been told of each switch
  mems,            \* cbk (mMemsCB.mfnCbk), on (mbActivated)
  timer,           \* Timer1 and Timer2
  waited,          \* scans of the card since a timer was last set, up to Limit
  bus,             \* who holds the SPI bus
  user             \* per user task: at, todo (the waits of a card operation),
                   \* rest (accelerometer transfers left)

devvars == <<pol, wup, scancount, sw, heard, mems, timer, waited, bus, user>>

Switches == 1 .. Switch
Position == {"up", "down"}
Unheard == [i \in Switches |-> "nothing"]

DevInit ==
  /\ pol = [at |-> "slp", rest |-> 0] /\ wup = 0
  /\ scancount = [sw |-> 0, mmc |-> 0]
  /\ sw = [cbk |-> FALSE, force |-> FALSE, cur |-> [i \in Switches |-> "up"], i |-> 1]
  /\ heard = Unheard
  /\ mems = [cbk |-> FALSE, on |-> FALSE]
  /\ timer = <<0, 0>> /\ waited = 0
  /\ bus = NOBODY
  /\ user = [u \in DevUser |-> [at |-> "out", todo |-> << >>, rest |-> 0]]

-----------------------------------------------------------------------------
(* The polling task *)

pol_goto(l) == pol' = [pol EXCEPT !.at = l]

(* The task sleeps, or waits for the bus or its interrupt. *)
polling_waits ==
  \/ pol.at \in {"slp", "transfer"}
  \/ pol.at = "open" /\ bus # NOBODY

(* The tick; a turn of the task takes less than the tick's millisecond,    *)
(* but for its waits.                                                      *)
KzDevCycHander ==
  /\ polling_waits
  /\ IF pol.at = "slp" THEN pol_goto("switches") /\ UNCHANGED wup
                       ELSE wup' = 1 /\ UNCHANGED pol
  /\ UNCHANGED <<scancount, sw, heard, mems, timer, waited, bus, user>>

scan_switches ==
  /\ pol.at = "switches"
  /\ LET due == scancount.sw + 1 >= KZDEV_SW_SCAN_TIME
     IN /\ scancount' = [scancount EXCEPT !.sw = IF due THEN 0 ELSE @ + 1]
        /\ pol_goto(IF due THEN "switch" ELSE "mems")
  /\ UNCHANGED <<wup, sw, heard, mems, timer, waited, bus, user>>

(* Switch i is read; mbForceCbk is cleared after the last one.             *)
poll_switch(now) ==
  /\ pol.at = "switch"
  /\ LET tell == now # sw.cur[sw.i] \/ sw.force
         last == sw.i = Switch
     IN /\ sw' = [sw EXCEPT !.cur[sw.i] = now,
                            !.i = IF last THEN 1 ELSE @ + 1,
                            !.force = @ /\ ~last]
        /\ heard' = IF tell /\ sw.cbk THEN [heard EXCEPT ![sw.i] = now] ELSE heard
        /\ pol_goto(IF last THEN "mems" ELSE "switch")
  /\ UNCHANGED <<wup, scancount, mems, timer, waited, bus, user>>

(* kzdev_mems_isReady, then three reads, each with the bus to itself *)
mems_poll(ready) ==
  /\ pol.at = "mems"
  /\ pol' = IF mems.on /\ ready THEN [at |-> "open", rest |-> 3]
                                ELSE [at |-> "card", rest |-> 0]
  /\ UNCHANGED <<wup, scancount, sw, heard, mems, timer, waited, bus, user>>

mems_open ==
  /\ pol.at = "open"
  /\ bus = NOBODY
  /\ bus' = POLLER
  /\ pol_goto("transfer")
  /\ UNCHANGED <<wup, scancount, sw, heard, mems, timer, waited, user>>

mems_transfer ==
  /\ pol.at = "transfer"
  /\ bus' = NOBODY
  /\ pol' = [at |-> IF pol.rest > 1 THEN "open" ELSE "card", rest |-> pol.rest - 1]
  /\ UNCHANGED <<wup, scancount, sw, heard, mems, timer, waited, user>>

dec(n) == IF n > 0 THEN n - 1 ELSE n

(* Mistake: the second timer is forgotten. *)
disk_timerproc_mut == timer' = <<dec(timer[1]), timer[2]>>

disk_timerproc == timer' = <<dec(timer[1]), dec(timer[2])>>

(* The card's turn, and back to slp_tsk *)
mmc_poll ==
  /\ pol.at = "card"
  /\ LET due == scancount.mmc + 1 >= KZDEV_MMC_SCAN_TIME
     IN /\ scancount' = [scancount EXCEPT !.mmc = IF due THEN 0 ELSE @ + 1]
        /\ IF due THEN disk_timerproc ELSE UNCHANGED timer
        /\ waited' = IF due /\ waited < Limit THEN waited + 1 ELSE waited
  /\ pol_goto(IF wup > 0 THEN "switches" ELSE "slp")
  /\ wup' = 0
  /\ UNCHANGED <<sw, heard, mems, bus, user>>

KzDevPollingTask ==
  \/ scan_switches
  \/ \E now \in Position : poll_switch(now)
  \/ \E ready \in BOOLEAN : mems_poll(ready)
  \/ mems_open \/ mems_transfer \/ mmc_poll

-----------------------------------------------------------------------------
(* User tasks *)

at_user(u, l) == polling_waits /\ user[u].at = l
user_goto(u, l) == user' = [user EXCEPT ![u].at = l]

(* Mistake: mbForceCbk is set before the call-back is there. *)
KzSwStart_mut(u) ==
  /\ \/ /\ at_user(u, "out") /\ ~sw.cbk
        /\ sw' = [sw EXCEPT !.force = TRUE]
        /\ user_goto(u, "force")
     \/ /\ at_user(u, "force")
        /\ sw' = [sw EXCEPT !.cbk = TRUE]
        /\ user_goto(u, "out")
  /\ UNCHANGED <<pol, wup, scancount, heard, mems, timer, waited, bus>>

KzSwStart(u) ==
  /\ \/ /\ at_user(u, "out") /\ ~sw.cbk
        /\ sw' = [sw EXCEPT !.cbk = TRUE]
        /\ user_goto(u, "force")
     \/ /\ at_user(u, "force")
        /\ sw' = [sw EXCEPT !.force = TRUE]
        /\ user_goto(u, "out")
  /\ UNCHANGED <<pol, wup, scancount, heard, mems, timer, waited, bus>>

KzSwStop(u) ==
  /\ at_user(u, "out") /\ sw.cbk
  /\ sw' = [sw EXCEPT !.cbk = FALSE]
  /\ heard' = Unheard
  /\ UNCHANGED <<pol, wup, scancount, mems, timer, waited, bus, user>>

KzMemsStart(u) ==
  /\ at_user(u, "out") /\ ~mems.cbk
  /\ mems' = [mems EXCEPT !.cbk = TRUE]
  /\ user' = [user EXCEPT ![u].at = "mems_start", ![u].rest = 4]
  /\ UNCHANGED <<pol, wup, scancount, sw, heard, timer, waited, bus>>

KzMemsStop(u) ==
  /\ at_user(u, "out") /\ mems.cbk
  /\ mems' = [cbk |-> FALSE, on |-> FALSE]
  /\ user' = [user EXCEPT ![u].at = "mems_stop", ![u].rest = 1]
  /\ UNCHANGED <<pol, wup, scancount, sw, heard, timer, waited, bus>>

(* One of the transfers of kzdev_mems_start and kzdev_mems_stop; the last  *)
(* one of kzdev_mems_start finds the device or not.                        *)
user_mems_open(u) ==
  /\ at_user(u, "mems_start") \/ at_user(u, "mems_stop")
  /\ bus = NOBODY
  /\ bus' = u
  /\ UNCHANGED <<pol, wup, scancount, sw, heard, mems, timer, waited, user>>

user_mems_transfer(u, found) ==
  /\ at_user(u, "mems_start") \/ at_user(u, "mems_stop")
  /\ bus = u
  /\ bus' = NOBODY
  /\ LET last == user[u].rest = 1
     IN /\ user' = [user EXCEPT ![u].at = IF last THEN "out" ELSE @, ![u].rest = @ - 1]
        /\ mems' = IF last /\ user[u].at = "mems_start"
                   THEN [cbk |-> found, on |-> found] ELSE mems
  /\ UNCHANGED <<pol, wup, scancount, sw, heard, timer, waited>>

-----------------------------------------------------------------------------
(* Card operations.  "ready" is wait_ready (Timer2), "token" the loop of   *)
(* rcvr_datablock (Timer1), "answer" an answer that is read without wait.  *)

CardOperation ==
  { <<"ready", "answer", "token">>,             \* disk_read
    <<"ready", "answer", "ready", "answer">>,   \* disk_write
    <<"ready">> }                               \* disk_ioctl, CTRL_SYNC

disk_call(u, o) ==
  /\ at_user(u, "out")
  /\ user' = [user EXCEPT ![u].at = "lock", ![u].todo = o]
  /\ UNCHANGED <<pol, wup, scancount, sw, heard, mems, timer, waited, bus>>

spi_lock(u) ==
  /\ at_user(u, "lock")
  /\ bus = NOBODY
  /\ bus' = u
  /\ user_goto(u, "phase")
  /\ UNCHANGED <<pol, wup, scancount, sw, heard, mems, timer, waited>>

timer_of(u) == IF Head(user[u].todo) = "token" THEN 1 ELSE 2

(* Mistake: the timer keeps what an earlier wait left of it. *)
set_timer_mut(u) ==
  /\ at_user(u, "phase")
  /\ user[u].todo # << >> /\ Head(user[u].todo) # "answer"
  /\ timer' = [timer EXCEPT ![timer_of(u)] = IF @ = 0 THEN Limit ELSE @]
  /\ waited' = 0
  /\ user_goto(u, "wait")
  /\ UNCHANGED <<pol, wup, scancount, sw, heard, mems, bus>>

set_timer(u) ==
  /\ at_user(u, "phase")
  /\ user[u].todo # << >> /\ Head(user[u].todo) # "answer"
  /\ timer' = [timer EXCEPT ![timer_of(u)] = Limit]
  /\ waited' = 0
  /\ user_goto(u, "wait")
  /\ UNCHANGED <<pol, wup, scancount, sw, heard, mems, bus>>

(* The card answers: the wait, or the look at an answer, is over. *)
card_answers(u) ==
  /\ \/ at_user(u, "wait")
     \/ at_user(u, "phase") /\ user[u].todo # << >> /\ Head(user[u].todo) = "answer"
  /\ user' = [user EXCEPT ![u].at = "phase", ![u].todo = Tail(@)]
  /\ UNCHANGED <<pol, wup, scancount, sw, heard, mems, timer, waited, bus>>

card_refuses(u) ==
  /\ at_user(u, "phase") /\ user[u].todo # << >> /\ Head(user[u].todo) = "answer"
  /\ user_goto(u, "release")
  /\ UNCHANGED <<pol, wup, scancount, sw, heard, mems, timer, waited, bus>>

(* It has not answered, and the timer is down. *)
card_timeout(u) ==
  /\ at_user(u, "wait")
  /\ timer[timer_of(u)] = 0
  /\ user_goto(u, "release")
  /\ UNCHANGED <<pol, wup, scancount, sw, heard, mems, timer, waited, bus>>

release_spi(u) ==
  /\ \/ at_user(u, "release")
     \/ at_user(u, "phase") /\ user[u].todo = << >>
  /\ bus' = NOBODY
  /\ user' = [user EXCEPT ![u].at = "out", ![u].todo = << >>]
  /\ UNCHANGED <<pol, wup, scancount, sw, heard, mems, timer, waited>>

(* What a call does by itself, without the card's help *)
Finish(u) ==
  \/ user_mems_open(u) \/ \E found \in BOOLEAN : user_mems_transfer(u, found)
  \/ spi_lock(u) \/ set_timer(u) \/ card_timeout(u) \/ release_spi(u)

DevNext ==
  \/ KzDevCycHander \/ KzDevPollingTask
  \/ \E u \in SwUser : KzSwStart(u) \/ KzSwStop(u)
  \/ \E u \in MemsUser : KzMemsStart(u) \/ KzMemsStop(u)
  \/ \E u \in CardUser, o \in CardOperation : disk_call(u, o)
  \/ \E u \in DevUser :
       \/ Finish(u)
       \/ card_answers(u) \/ card_refuses(u)

(* Ticks keep coming; the polling task, the most urgent here, proceeds     *)
(* when it can; a user task in the middle of a call gets the processor     *)
(* again and again, between the turns of the polling task.  Nothing is     *)
(* asked of the card: it need never answer.                                *)
DevFairness ==
  /\ WF_devvars(KzDevCycHander) /\ WF_devvars(KzDevPollingTask)
  /\ \A u \in DevUser : SF_devvars(Finish(u))

DevSpec == DevInit /\ [][DevNext]_devvars /\ DevFairness

-----------------------------------------------------------------------------
(* Whoever registers a call-back for the switches is told how each of them *)
(* stands, although a scan may fall between the two assignments of         *)
(* KzSwStart; and once told, is kept up to date.                           *)
SwitchesReported ==
  LET registered == sw.cbk /\ \A u \in DevUser : user[u].at # "force"
      scanned == ~sw.force /\ pol.at # "switch"
  IN registered /\ scanned => heard = sw.cur

(* A wait for the card does not give up early, though the timers go down   *)
(* by another task and are shared by all waits.                            *)
NoEarlyTimeout ==
  [][\A u \in DevUser :
       user[u].at = "wait" /\ user'[u].at = "release" => waited = Limit]_devvars

(* Each wait has its end, whatever the card does (the comments at          *)
(* kzdev_mmc.c:140 and :200 give 500 ms and 100 ms) ...                    *)
CardTimesOut == \A u \in DevUser : user[u].at = "wait" ~> user[u].at # "wait"

(* ... as long as the polling task is not in want of the bus itself.       *)
CardTimesOutAlone ==
  \A u \in DevUser :
    user[u].at = "wait" ~> (user[u].at # "wait" \/ pol.at = "open")
=============================================================================
