------------------------------ MODULE SdkProofs ------------------------------
(***************************************************************************)
(* Proofs about the parts of the SDK.                                      *)
(*                                                                         *)
(* Part 1: device polling, for any number of switches, users and scan      *)
(* times: SwitchesReported (theorem SwitchesAreReported) and               *)
(* NoEarlyTimeout (theorem WaitsRunTheirTime).  The first needs to know    *)
(* how far a forced scan has come; the second, that a card operation has   *)
(* the bus, and that what is left in the timer of a wait and the scans it  *)
(* has waited make up its limit.                                           *)
(*                                                                         *)
(* Part 2: the audio driver, for any size of the blocks and any length of  *)
(* a session: Delayed (theorem SamplesInOrder) and QuietWhenStopped        *)
(* (theorem StopIsQuiet).  Both need that one task at most starts and      *)
(* stops the audio, OneUser: nothing in the driver keeps two apart between *)
(* the test and the assignment of mbStarted.  The argument counts rows.    *)
(* Of n rows done all have been served but one at most; first is how many  *)
(* had been when the present half was begun; SessionInv says in these      *)
(* terms what each buffer holds.                                           *)
(*                                                                         *)
(* Part 3: the SPI driver, for any number of users and any lengths of the  *)
(* transfers: OneTransfer (theorem OneTransferAtATime) and TransferDone    *)
(* (theorem TransfersAreDone), while no transfer times out.                *)
(***************************************************************************)
EXTENDS Devices, Audio, SpiDriver, KernelCallProofs

-----------------------------------------------------------------------------
(* Part 1: device polling. *)

Place == {"out", "force", "mems_start", "mems_stop", "lock", "phase", "wait", "release"}

UserRecord == [at : Place, todo : Seq({"ready", "answer", "token"}), rest : Int]

DevTypes ==
  /\ pol \in [at : {"slp", "switches", "switch", "mems", "open", "transfer", "card"},
              rest : Int]
  /\ sw \in [cbk : BOOLEAN, force : BOOLEAN, cur : [Switches -> Position], i : Switches]
  /\ heard \in [Switches -> Position \cup {"nothing"}]
  /\ timer \in [1 .. 2 -> Nat]
  /\ waited \in 0 .. Limit
  /\ user \in [DevUser -> UserRecord]

Registered == sw.cbk /\ \A u \in DevUser : user[u].at # "force"

(* A registered call-back has been told of every switch, or is about to be *)
(* told, or has been told of those before i in the scan that is going on.  *)
ScanInv ==
  /\ pol.at # "switch" => sw.i = 1
  /\ Registered /\ ~sw.force => heard = sw.cur
  /\ Registered /\ pol.at = "switch" =>
       \A j \in Switches : j < sw.i => heard[j] = sw.cur[j]

(* Who has the bus, and what is left of a wait.                            *)
CardWaitInv ==
  /\ pol.at = "transfer" => bus = POLLER
  /\ \A u \in DevUser :
       /\ user[u].at \in {"phase", "wait", "release"} => bus = u
       /\ user[u].at = "wait" =>
            user[u].todo # << >> /\ timer[timer_of(u)] + waited >= Limit

DevInv == DevTypes /\ ScanInv /\ CardWaitInv

-----------------------------------------------------------------------------
(* The users after one of them has gone to l, with the waits q left. *)
Moved(users, u, l, q) ==
  /\ users \in [DevUser -> UserRecord]
  /\ \A w \in DevUser \ {u} : users[w] = user[w]
  /\ users[u].at = l /\ users[u].todo = q

(* The forms of that step in module Devices. *)
LEMMA UserMoves ==
  ASSUME user \in [DevUser -> UserRecord], NEW u \in DevUser, NEW l \in Place
  PROVE  /\ Moved([user EXCEPT ![u].at = l], u, l, user[u].todo)
         /\ \A n \in Int :
              Moved([user EXCEPT ![u].at = l, ![u].rest = n], u, l, user[u].todo)
         /\ \A q \in Seq({"ready", "answer", "token"}) :
              Moved([user EXCEPT ![u].at = l, ![u].todo = q], u, l, q)
  BY DEF Moved, UserRecord

(* The start. *)
LEMMA DevInitOK == DevInit => DevInv
<1> SUFFICES ASSUME DevInit PROVE DevInv
  OBVIOUS
<1> USE DevAssumption
<1>1. DevTypes
  BY DEF DevInit, DevTypes, UserRecord, Place, Unheard, Switches, Position
<1>2. ScanInv /\ CardWaitInv
  BY DEF DevInit, ScanInv, CardWaitInv, Registered
<1> QED
  BY <1>1, <1>2 DEF DevInv

(* A step of the cyclic handler or of the polling task keeps DevInv. *)
LEMMA PollingOK ==
  ASSUME DevInv, KzDevCycHander \/ KzDevPollingTask
  PROVE  DevInv'
<1> USE DevAssumption DEF DevInv
<1>1. CASE KzDevCycHander
  <2>1. DevTypes'
    BY <1>1 DEF DevTypes, KzDevCycHander, pol_goto, polling_waits
  <2>2. ScanInv' /\ CardWaitInv'
    BY <1>1 DEF DevTypes, ScanInv, CardWaitInv, KzDevCycHander, pol_goto, polling_waits,
                Registered, timer_of
  <2> QED BY <2>1, <2>2
<1>2. CASE scan_switches
  <2>1. DevTypes'
    BY <1>2 DEF DevTypes, scan_switches, pol_goto
  <2>2. ScanInv' /\ CardWaitInv'
    BY <1>2 DEF DevTypes, ScanInv, CardWaitInv, scan_switches, pol_goto, Registered, timer_of, Switches
  <2> QED BY <2>1, <2>2
<1>3. ASSUME NEW now \in Position, poll_switch(now)
      PROVE  DevInv'
  <2>1. sw.i \in Switches /\ (sw.i # Switch => sw.i + 1 \in Switches) /\ 1 \in Switches
    BY DEF DevTypes, Switches
  <2>2. DevTypes'
    BY <1>3, <2>1 DEF DevTypes, poll_switch, pol_goto
  <2>3. ScanInv'
    <3>1. /\ sw'.i = IF sw.i = Switch THEN 1 ELSE sw.i + 1
          /\ sw'.cbk = sw.cbk
          /\ sw'.force = (sw.force /\ sw.i # Switch)
          /\ sw'.cur = [sw.cur EXCEPT ![sw.i] = now]
          /\ pol'.at = IF sw.i = Switch THEN "mems" ELSE "switch"
          /\ user' = user
      BY <1>3 DEF DevTypes, poll_switch, pol_goto
    <3>2. sw.cbk => heard'[sw.i] = now \/ (~sw.force /\ now = sw.cur[sw.i] /\ heard' = heard)
      <4>1. heard' = IF (now # sw.cur[sw.i] \/ sw.force) /\ sw.cbk
                     THEN [heard EXCEPT ![sw.i] = now] ELSE heard
        BY <1>3 DEF poll_switch
      <4>2. heard \in [Switches -> Position \cup {"nothing"}]
        BY DEF DevTypes
      <4> QED
        BY <2>1, <4>1, <4>2
    <3>3. heard' \in [Switches -> Position \cup {"nothing"}]
      BY <2>2 DEF DevTypes
    <3>4. \A j \in Switches : j # sw.i => heard'[j] = heard[j]
      BY <1>3 DEF DevTypes, poll_switch
    <3>5. ASSUME Registered, NEW j \in Switches, j < sw.i \/ j = sw.i
          PROVE  heard'[j] = sw'.cur[j]
      <4>1. sw.cur \in [Switches -> Position] /\ sw.i \in Int /\ j \in Int
        BY <2>1 DEF DevTypes, Switches
      <4>2. pol.at = "switch" /\ sw.cbk
        BY <1>3, <3>5 DEF poll_switch, Registered
      <4>3. j < sw.i => heard[j] = sw.cur[j]
        BY <3>5, <4>2 DEF ScanInv
      <4>4. CASE j = sw.i
        BY <2>1, <3>1, <3>2, <3>5, <4>1, <4>2, <4>4 DEF ScanInv
      <4>5. CASE j # sw.i
        BY <3>1, <3>4, <3>5, <4>1, <4>3, <4>5
      <4> QED
        BY <4>4, <4>5
    <3>6. Registered /\ ~sw.force => \A j \in Switches : heard'[j] = sw'.cur[j]
      <4>1. Registered => sw.cbk
        BY DEF Registered
      <4> QED
        BY <2>1, <3>1, <3>2, <3>4, <4>1 DEF DevTypes, ScanInv
    <3>7. Registered /\ ~sw'.force => \A j \in Switches : heard'[j] = sw'.cur[j]
      BY <2>1, <3>1, <3>5, <3>6 DEF DevTypes, Switches
    <3>8. Registered' = Registered
      BY <3>1 DEF Registered
    <3>9. sw'.cur \in [Switches -> Position]
      BY <2>2 DEF DevTypes
    <3>10. Registered /\ ~sw'.force => heard' = sw'.cur
      BY <3>3, <3>7, <3>9
    <3>11. pol'.at # "switch" => sw'.i = 1
      BY <3>1
    <3>12. ASSUME Registered', pol'.at = "switch", NEW j \in Switches, j < sw'.i
           PROVE  heard'[j] = sw'.cur[j]
      <4>1. sw'.i = sw.i + 1 /\ sw.i \in Int /\ j \in Int
        BY <2>1, <3>1, <3>12 DEF Switches
      <4>2. j < sw.i \/ j = sw.i
        BY <3>12, <4>1
      <4> QED
        BY <3>5, <3>8, <3>12, <4>2
    <3> QED
      BY <3>8, <3>10, <3>11, <3>12 DEF ScanInv
  <2>4. CardWaitInv'
    BY <1>3 DEF DevTypes, CardWaitInv, poll_switch, pol_goto, timer_of
  <2> QED BY <2>2, <2>3, <2>4
<1>4. ASSUME NEW ready \in BOOLEAN, mems_poll(ready)
      PROVE  DevInv'
  <2>1. DevTypes'
    BY <1>4 DEF DevTypes, mems_poll
  <2>2. ScanInv' /\ CardWaitInv'
    BY <1>4 DEF DevTypes, ScanInv, CardWaitInv, mems_poll, Registered, timer_of
  <2> QED BY <2>1, <2>2
<1>5. CASE mems_open
  <2>1. DevTypes'
    BY <1>5 DEF DevTypes, mems_open, pol_goto
  <2>2. ScanInv'
    BY <1>5 DEF DevTypes, ScanInv, mems_open, pol_goto, Registered
  <2>3. CardWaitInv'
    BY <1>5 DEF DevTypes, CardWaitInv, mems_open, pol_goto, timer_of
  <2> QED BY <2>1, <2>2, <2>3
<1>6. CASE mems_transfer
  <2>1. DevTypes'
    BY <1>6 DEF DevTypes, mems_transfer
  <2>2. ScanInv'
    BY <1>6 DEF DevTypes, ScanInv, mems_transfer, Registered
  <2>3. CardWaitInv'
    BY <1>6 DEF DevTypes, CardWaitInv, mems_transfer, timer_of
  <2> QED BY <2>1, <2>2, <2>3
<1>7. CASE mmc_poll
  <2>1. DevTypes'
    <3>1. timer' \in [1 .. 2 -> Nat]
      BY <1>7 DEF DevTypes, mmc_poll, disk_timerproc, dec
    <3> QED
      BY <1>7, <3>1 DEF DevTypes, mmc_poll, pol_goto
  <2>2. ScanInv'
    BY <1>7 DEF DevTypes, ScanInv, mmc_poll, pol_goto, Registered
  <2>3. \A n \in {1, 2} : timer[n] + waited >= Limit => timer'[n] + waited' >= Limit
    <3>1. Limit \in Nat /\ waited \in 0 .. Limit /\ timer[1] \in Nat /\ timer[2] \in Nat
      BY DEF DevTypes
    <3>2. \/ timer' = timer /\ waited' = waited
          \/ /\ timer' = <<dec(timer[1]), dec(timer[2])>>
             /\ waited' = IF waited < Limit THEN waited + 1 ELSE waited
      BY <1>7 DEF mmc_poll, disk_timerproc
    <3> QED
      BY <3>1, <3>2 DEF dec
  <2>4. user' = user /\ bus' = bus /\ pol'.at # "transfer"
    BY <1>7 DEF DevTypes, mmc_poll, pol_goto
  <2>5. \A u \in DevUser : timer_of(u)' = timer_of(u) /\ timer_of(u) \in {1, 2}
    BY <2>4 DEF timer_of
  <2>6. CardWaitInv'
    BY <2>3, <2>4, <2>5 DEF CardWaitInv
  <2> QED BY <2>1, <2>2, <2>6
<1> QED
  BY <1>1, <1>2, <1>3, <1>4, <1>5, <1>6, <1>7 DEF KzDevPollingTask

-----------------------------------------------------------------------------
(* A step of a user that is not about the switches leaves ScanInv alone. *)
LEMMA ScanUntouched ==
  ASSUME DevTypes, ScanInv, UNCHANGED <<pol, sw, heard>>,
         \A u \in DevUser : user'[u].at = "force" <=> user[u].at = "force"
  PROVE  ScanInv'
  BY DEF ScanInv, Registered

(* The steps of KzSwStart and KzSwStop keep DevInv. *)
LEMMA SwitchCallOK ==
  ASSUME DevInv, NEW u \in DevUser, KzSwStart(u) \/ KzSwStop(u)
  PROVE  DevInv'
<1> USE DevAssumption DEF DevInv
<1>1. pol.at # "switch" /\ polling_waits /\ UNCHANGED <<pol, timer, waited, bus>>
  BY DEF KzSwStart, KzSwStop, at_user, polling_waits
<1>2. \/ \E l \in {"out", "force"} : Moved(user', u, l, user[u].todo)
      \/ user' = user
  <2>1. user \in [DevUser -> UserRecord] /\ "out" \in Place /\ "force" \in Place
    BY DEF DevTypes, Place
  <2>2. \/ user' = [user EXCEPT ![u].at = "out"]
        \/ user' = [user EXCEPT ![u].at = "force"]
        \/ user' = user
    BY DEF KzSwStart, KzSwStop, user_goto
  <2> QED
    BY <2>1, <2>2, UserMoves
<1>3. DevTypes'
  <2>1. user' \in [DevUser -> UserRecord]
    BY <1>2 DEF DevTypes, Moved
  <2>2. /\ sw' \in [cbk : BOOLEAN, force : BOOLEAN, cur : [Switches -> Position], i : Switches]
        /\ heard' \in [Switches -> Position \cup {"nothing"}]
    BY DEF DevTypes, KzSwStart, KzSwStop, Unheard
  <2> QED
    BY <1>1, <2>1, <2>2 DEF DevTypes
<1>4. ScanInv'
  <2>1. sw'.i = sw.i /\ sw'.cur = sw.cur
    BY DEF DevTypes, KzSwStart, KzSwStop
  <2>2. CASE KzSwStop(u)
    <3>1. sw'.cbk = FALSE
      BY <2>2 DEF KzSwStop, DevTypes
    <3> QED
      BY <1>1, <2>1, <3>1 DEF ScanInv, Registered
  <2>3. CASE KzSwStart(u)
    <3>1. CASE user[u].at = "out"
      <4>1. user'[u].at = "force"
        BY <2>3, <3>1 DEF KzSwStart, at_user, user_goto, DevTypes, UserRecord
      <4> QED
        BY <1>1, <2>1, <4>1 DEF ScanInv, Registered
    <3>2. CASE user[u].at # "out"
      <4>1. sw'.force = TRUE
        BY <2>3, <3>2 DEF KzSwStart, at_user, DevTypes
      <4> QED
        BY <1>1, <2>1, <4>1 DEF ScanInv, Registered
    <3> QED
      BY <3>1, <3>2
  <2> QED
    BY <2>2, <2>3
<1>5. CardWaitInv'
  <2>1. ASSUME NEW w \in DevUser, user'[w].at \in {"phase", "wait", "release"}
        PROVE  user'[w] = user[w]
    BY <1>2, <2>1 DEF Moved
  <2>2. ASSUME NEW w \in DevUser, user'[w] = user[w]
        PROVE  timer_of(w)' = timer_of(w)
    BY <2>2 DEF timer_of
  <2> QED
    BY <1>1, <2>1, <2>2 DEF CardWaitInv
<1> QED
  BY <1>3, <1>4, <1>5

(* The calls for the accelerometer keep DevInv. *)
LEMMA MemsCallOK ==
  ASSUME DevInv, NEW u \in DevUser,
         \/ KzMemsStart(u) \/ KzMemsStop(u) \/ user_mems_open(u)
         \/ \E found \in BOOLEAN : user_mems_transfer(u, found)
  PROVE  DevInv'
<1> USE DevAssumption DEF DevInv
<1>1. UNCHANGED <<pol, sw, heard, timer, waited>>
  BY DEF KzMemsStart, KzMemsStop, user_mems_open, user_mems_transfer
<1>2. /\ user[u].at \in {"out", "mems_start", "mems_stop"}
      /\ \E l \in {"out", "mems_start", "mems_stop"} : Moved(user', u, l, user[u].todo)
  <2>1. user \in [DevUser -> UserRecord] /\ user[u].rest - 1 \in Int
    BY DEF DevTypes, UserRecord
  <2>2. "out" \in Place /\ "mems_start" \in Place /\ "mems_stop" \in Place
    BY DEF Place
  <2>3. CASE KzMemsStart(u)
    <3>1. Moved([user EXCEPT ![u].at = "mems_start", ![u].rest = 4],
                u, "mems_start", user[u].todo)
      BY <2>1, <2>2, 4 \in Int, UserMoves, Zenon
    <3> QED
      BY <2>3, <3>1 DEF KzMemsStart, at_user
  <2>4. CASE KzMemsStop(u)
    <3>1. Moved([user EXCEPT ![u].at = "mems_stop", ![u].rest = 1],
                u, "mems_stop", user[u].todo)
      BY <2>1, <2>2, 1 \in Int, UserMoves, Zenon
    <3> QED
      BY <2>4, <3>1 DEF KzMemsStop, at_user
  <2>5. CASE user_mems_open(u)
    BY <2>1, <2>5 DEF user_mems_open, at_user, Moved
  <2>6. ASSUME NEW found \in BOOLEAN, user_mems_transfer(u, found)
        PROVE  <1>2!:
    <3>1. /\ user[u].at \in {"mems_start", "mems_stop"}
          /\ \/ user' = [user EXCEPT ![u].at = "out", ![u].rest = user[u].rest - 1]
             \/ user' = [user EXCEPT ![u].at = user[u].at, ![u].rest = user[u].rest - 1]
      BY <2>1, <2>6 DEF user_mems_transfer, at_user
    <3>2. user[u].at \in Place
      BY <2>1 DEF UserRecord
    <3>3. /\ Moved([user EXCEPT ![u].at = "out", ![u].rest = user[u].rest - 1],
                   u, "out", user[u].todo)
          /\ Moved([user EXCEPT ![u].at = user[u].at, ![u].rest = user[u].rest - 1],
                   u, user[u].at, user[u].todo)
      BY <2>1, <2>2, <3>2, UserMoves
    <3> QED
      BY <3>1, <3>3
  <2> QED
    BY <2>3, <2>4, <2>5, <2>6
<1>3. bus' = bus \/ (bus = NOBODY /\ bus' = u) \/ (bus = u /\ bus' = NOBODY)
  BY DEF KzMemsStart, KzMemsStop, user_mems_open, user_mems_transfer
<1>4. DevTypes'
  BY <1>1, <1>2 DEF DevTypes, Moved
<1>5. ScanInv'
  <2>1. \A w \in DevUser : user'[w].at = "force" <=> user[w].at = "force"
    BY <1>2 DEF Moved
  <2> QED
    BY <1>1, <2>1, ScanUntouched
<1>6. CardWaitInv'
  <2>1. \A w \in DevUser \ {u} : timer_of(w)' = timer_of(w)
    BY <1>2 DEF timer_of, Moved
  <2>2. u # POLLER /\ NOBODY # POLLER /\ u # NOBODY
    OBVIOUS
  <2>3. pol'.at = "transfer" => bus' = POLLER
    BY <1>1, <1>3, <2>2 DEF CardWaitInv
  <2>4. ASSUME NEW w \in DevUser
        PROVE  /\ user'[w].at \in {"phase", "wait", "release"} => bus' = w
               /\ user'[w].at = "wait" =>
                    user'[w].todo # << >> /\ timer'[timer_of(w)'] + waited' >= Limit
    <3>1. CASE w = u
      BY <1>2, <3>1 DEF Moved
    <3>2. CASE w # u
      BY <1>1, <1>2, <1>3, <2>1, <3>2 DEF CardWaitInv, Moved
    <3> QED
      BY <3>1, <3>2
  <2> QED
    BY <2>3, <2>4 DEF CardWaitInv
<1> QED
  BY <1>4, <1>5, <1>6

(* The steps of a card operation keep DevInv: while one has the bus, there *)
(* is no other wait that a timer is set for.                               *)
LEMMA CardStepOK ==
  ASSUME DevInv, NEW u \in DevUser,
         \/ \E o \in CardOperation : disk_call(u, o)
         \/ spi_lock(u) \/ set_timer(u) \/ card_answers(u) \/ card_refuses(u)
         \/ card_timeout(u) \/ release_spi(u)
  PROVE  DevInv'
<1> USE DevAssumption DEF DevInv
<1>1. UNCHANGED <<pol, sw, heard>> /\ polling_waits
  BY DEF disk_call, spi_lock, set_timer, card_answers, card_refuses, card_timeout,
         release_spi, at_user
<1>2. user \in [DevUser -> UserRecord] /\ user[u] \in UserRecord
  BY DEF DevTypes
<1>3. u # POLLER /\ NOBODY # POLLER /\ u # NOBODY
  OBVIOUS
<1>4. \E l \in Place \ {"force"}, q \in Seq({"ready", "answer", "token"}) :
        /\ Moved(user', u, l, q) /\ user[u].at # "force"
        /\ l \in {"phase", "wait", "release"} => bus' = u
        /\ bus' = bus \/ (bus = NOBODY /\ bus' = u) \/ (bus = u /\ bus' = NOBODY)
        /\ \/ timer' = timer /\ waited' = waited
           \/ bus = u /\ timer' = [timer EXCEPT ![timer_of(u)] = Limit] /\ waited' = 0
        /\ l = "wait" => q = user[u].todo /\ q # << >> /\ timer'[timer_of(u)] = Limit
  <2>1. {"out", "lock", "phase", "wait", "release"} \subseteq Place \ {"force"}
    BY DEF Place
  <2>2. user[u].todo \in Seq({"ready", "answer", "token"}) /\ << >> \in Seq({"ready", "answer", "token"})
    BY <1>2 DEF UserRecord
  <2>3. user[u].at \in {"phase", "wait", "release"} => bus = u
    BY DEF CardWaitInv
  <2>4. timer \in [1 .. 2 -> Nat] /\ timer_of(u) \in 1 .. 2
    BY DEF DevTypes, timer_of
  <2>5. ASSUME NEW o \in CardOperation, disk_call(u, o)
        PROVE  <1>4!:
    <3>1. o \in Seq({"ready", "answer", "token"})
      <4>1. /\ <<"ready", "answer", "token">> \in Seq({"ready", "answer", "token"})
            /\ <<"ready", "answer", "ready", "answer">> \in Seq({"ready", "answer", "token"})
            /\ <<"ready">> \in Seq({"ready", "answer", "token"})
        OBVIOUS
      <4> QED
        BY <4>1, Zenon DEF CardOperation
    <3>2. Moved([user EXCEPT ![u].at = "lock", ![u].todo = o], u, "lock", o)
      BY <1>2, <2>1, <3>1, UserMoves
    <3> QED
      BY <2>1, <2>5, <3>1, <3>2 DEF disk_call, at_user
  <2>6. CASE spi_lock(u)
    <3>1. Moved([user EXCEPT ![u].at = "phase"], u, "phase", user[u].todo)
      BY <1>2, <2>1, UserMoves
    <3> QED
      BY <2>1, <2>2, <2>6, <3>1 DEF spi_lock, at_user, user_goto
  <2>7. CASE set_timer(u)
    <3>1. Moved([user EXCEPT ![u].at = "wait"], u, "wait", user[u].todo)
      BY <1>2, <2>1, UserMoves
    <3>2. timer'[timer_of(u)] = Limit
      BY <2>4, <2>7 DEF set_timer
    <3> QED
      BY <2>1, <2>2, <2>3, <2>7, <3>1, <3>2 DEF set_timer, at_user, user_goto
  <2>8. CASE card_answers(u)
    <3>1. user[u].at \in {"phase", "wait"} /\ user[u].todo # << >>
      BY <2>8 DEF card_answers, at_user, CardWaitInv
    <3>2. Tail(user[u].todo) \in Seq({"ready", "answer", "token"})
      BY <2>2, <3>1
    <3>3. Moved([user EXCEPT ![u].at = "phase", ![u].todo = Tail(user[u].todo)],
                u, "phase", Tail(user[u].todo))
      BY <1>2, <2>1, <3>2, UserMoves
    <3>4. user' = [user EXCEPT ![u].at = "phase", ![u].todo = Tail(user[u].todo)]
      BY <1>2, <2>8 DEF card_answers
    <3> QED
      BY <2>1, <2>3, <2>8, <3>1, <3>2, <3>3, <3>4 DEF card_answers
  <2>9. CASE card_refuses(u) \/ card_timeout(u)
    <3>1. Moved([user EXCEPT ![u].at = "release"], u, "release", user[u].todo)
      BY <1>2, <2>1, UserMoves
    <3> QED
      BY <2>1, <2>2, <2>3, <2>9, <3>1 DEF card_refuses, card_timeout, at_user, user_goto
  <2>10. CASE release_spi(u)
    <3>1. Moved([user EXCEPT ![u].at = "out", ![u].todo = << >>], u, "out", << >>)
      BY <1>2, <2>1, <2>2, UserMoves
    <3> QED
      BY <2>1, <2>2, <2>3, <2>10, <3>1 DEF release_spi, at_user
  <2> QED
    BY <2>5, <2>6, <2>7, <2>8, <2>9, <2>10
<1>5. PICK l \in Place \ {"force"}, q \in Seq({"ready", "answer", "token"}) : <1>4!(l, q)
  BY <1>4
<1>6. DevTypes'
  <2>1. Limit \in Nat /\ timer' \in [1 .. 2 -> Nat] /\ waited' \in 0 .. Limit
    BY <1>5 DEF DevTypes
  <2> QED
    BY <1>1, <1>5, <2>1 DEF DevTypes, Moved
<1>7. ScanInv'
  <2>1. \A w \in DevUser : user'[w].at = "force" <=> user[w].at = "force"
    BY <1>5 DEF Moved
  <2> QED
    BY <1>1, <2>1, ScanUntouched
<1>8. CardWaitInv'
  <2>1. pol'.at = "transfer" => bus' = POLLER
    BY <1>1, <1>3, <1>5 DEF CardWaitInv
  <2>2. ASSUME NEW w \in DevUser, user'[w].at \in {"phase", "wait", "release"}
        PROVE  bus' = w
    BY <1>3, <1>5, <2>2 DEF CardWaitInv, Moved
  <2>3. ASSUME NEW w \in DevUser, user'[w].at = "wait"
        PROVE  user'[w].todo # << >> /\ timer'[timer_of(w)'] + waited' >= Limit
    <3>1. CASE w = u
      <4>1. l = "wait" /\ user'[u].todo = user[u].todo
        BY <1>5, <2>3, <3>1 DEF Moved
      <4>2. timer_of(w)' = timer_of(u)
        BY <3>1, <4>1 DEF timer_of
      <4>3. waited' \in 0 .. Limit /\ Limit \in Nat
        BY <1>6 DEF DevTypes
      <4> QED
        BY <1>5, <3>1, <4>1, <4>2, <4>3
    <3>2. CASE w # u
      <4>1. user'[w] = user[w] /\ timer_of(w)' = timer_of(w)
        BY <1>5, <3>2 DEF Moved, timer_of
      <4>2. bus = w /\ timer' = timer /\ waited' = waited
        BY <1>5, <2>3, <3>2, <4>1 DEF CardWaitInv
      <4> QED
        BY <2>3, <4>1, <4>2 DEF CardWaitInv
    <3> QED
      BY <3>1, <3>2
  <2> QED
    BY <2>1, <2>2, <2>3 DEF CardWaitInv
<1> QED
  BY <1>6, <1>7, <1>8

-----------------------------------------------------------------------------
(* Every step keeps DevInv. *)
LEMMA DevNextOK == DevInv /\ [DevNext]_devvars => DevInv'
<1> SUFFICES ASSUME DevInv, [DevNext]_devvars PROVE DevInv'
  OBVIOUS
<1>1. CASE UNCHANGED devvars
  BY <1>1 DEF DevInv, DevTypes, ScanInv, CardWaitInv, devvars, Registered, timer_of
<1>2. CASE KzDevCycHander \/ KzDevPollingTask
  BY <1>2, PollingOK
<1>3. ASSUME NEW u \in DevUser, KzSwStart(u) \/ KzSwStop(u)
      PROVE  DevInv'
  BY <1>3, SwitchCallOK
<1>4. ASSUME NEW u \in DevUser,
             KzMemsStart(u) \/ KzMemsStop(u)
             \/ (\E o \in CardOperation : disk_call(u, o))
             \/ Finish(u) \/ card_answers(u) \/ card_refuses(u)
      PROVE  DevInv'
  BY <1>4, MemsCallOK, CardStepOK DEF Finish
<1>5. SwUser \subseteq DevUser /\ MemsUser \subseteq DevUser /\ CardUser \subseteq DevUser
  BY DevAssumption
<1> QED
  BY <1>1, <1>2, <1>3, <1>4, <1>5 DEF DevNext

(* Whoever registers a call-back is told how each switch stands, for any   *)
(* number of switches and users and any scan time.                         *)
THEOREM SwitchesAreReported == DevSpec => []SwitchesReported
<1>1. DevInv => SwitchesReported
  BY DEF DevInv, ScanInv, SwitchesReported, Registered
<1> QED
  BY <1>1, DevInitOK, DevNextOK, PTL DEF DevSpec

(* A step of user task u. *)
UserStep(u) ==
  \/ KzSwStart(u) \/ KzSwStop(u) \/ KzMemsStart(u) \/ KzMemsStop(u)
  \/ \E o \in CardOperation : disk_call(u, o)
  \/ Finish(u) \/ card_answers(u) \/ card_refuses(u)

(* No wait for the card gives up before its limit of scans has passed.     *)
THEOREM WaitsRunTheirTime == DevSpec => NoEarlyTimeout
<1>1. ASSUME DevInv, DevNext, NEW u \in DevUser,
             user[u].at = "wait", user'[u].at = "release"
      PROVE  waited = Limit
  <2>1. user \in [DevUser -> UserRecord]
    BY <1>1 DEF DevInv, DevTypes
  <2>2. card_timeout(u)
    <3>1. SwUser \subseteq DevUser /\ MemsUser \subseteq DevUser /\ CardUser \subseteq DevUser
      BY DevAssumption
    <3>2. \E w \in DevUser : UserStep(w)
      <4>1. ~(KzDevCycHander \/ KzDevPollingTask)
        BY <1>1 DEF KzDevPollingTask, KzDevCycHander, scan_switches, poll_switch,
                    mems_poll, mems_open, mems_transfer, mmc_poll
      <4> QED
        BY <1>1, <3>1, <4>1 DEF DevNext, UserStep
    <3>3. PICK w \in DevUser : UserStep(w)
      BY <3>2
    <3>4. w = u
      <4>1. w # u => user'[u] = user[u]
        BY <2>1, <3>3 DEF UserStep, KzSwStart, KzSwStop, KzMemsStart, KzMemsStop, disk_call,
          Finish, user_mems_open, user_mems_transfer, spi_lock, set_timer, card_timeout,
          release_spi, card_answers, card_refuses, user_goto
      <4> QED
        BY <1>1, <4>1
    <3>5. CASE card_answers(u)
      <4>1. user'[u].at = "phase"
        BY <2>1, <3>5 DEF card_answers, UserRecord
      <4> QED
        BY <1>1, <4>1
    <3>6. CASE ~card_answers(u)
      BY <1>1, <2>1, <3>3, <3>4, <3>6 DEF UserStep, KzSwStart, KzSwStop, KzMemsStart,
        KzMemsStop, disk_call, Finish, user_mems_open, user_mems_transfer, spi_lock,
        set_timer, release_spi, card_refuses, at_user
    <3> QED
      BY <3>5, <3>6
  <2>3. timer[timer_of(u)] = 0 /\ timer[timer_of(u)] + waited >= Limit
    BY <1>1, <2>2 DEF card_timeout, DevInv, CardWaitInv
  <2> QED
    BY <1>1, <2>3, DevAssumption DEF DevInv, DevTypes
<1>2. DevInv /\ [DevNext]_devvars =>
        [\A u \in DevUser :
           user[u].at = "wait" /\ user'[u].at = "release" => waited = Limit]_devvars
  BY <1>1
<1> QED
  BY <1>2, DevInitOK, DevNextOK, PTL DEF DevSpec, NoEarlyTimeout

-----------------------------------------------------------------------------
(* Part 2: the audio driver. *)

OneUser == \A u, v \in AudioUser : u = v

Block == [0 .. MaxBlocks - 1 -> Nat]

AudioTypes ==
  /\ aud \in [mbStarted : BOOLEAN, mfnCbk : BOOLEAN, mnBlocks : 0 .. MaxBlocks,
              State1 : Rows, State2 : 0 .. 1, Inner2 : Nat, pre : 0 .. 1]
  /\ dma \in [on : BOOLEAN, row : Rows, irq : BOOLEAN, n : Nat, out : Nat]
  /\ rx1 \in [Rows -> Nat] /\ tx1 \in [Rows -> Nat]
  /\ rx2 \in [0 .. 1 -> Block] /\ tx2 \in [0 .. 1 -> Block]
  /\ dsp \in {"slp", "prepare", "call", "cbk", "post"}
  /\ aud_wup = 0
  /\ aud_user \in [AudioUser -> {"out", "claim", "cbk", "start", "delay", "stopped"}]

Quiet == dsp = "slp" /\ ~dma.on /\ ~dma.irq

(* What setup_audio leaves behind. *)
Fresh ==
  /\ aud.mnBlocks > 0
  /\ aud.State1 = 2 /\ aud.State2 = 0 /\ aud.Inner2 = 0
  /\ rx2 = SilentHalves /\ tx2 = SilentHalves

(* How far a session is, by the place of the task that runs it. *)
PhaseInv ==
  /\ ~aud.mbStarted => Quiet /\ ~aud.mfnCbk
  /\ \A u \in AudioUser :
       /\ aud_user[u] = "claim" => ~aud.mbStarted
       /\ aud_user[u] \in {"cbk", "start", "delay", "stopped"} => aud.mbStarted
       /\ aud_user[u] \in {"cbk", "start"} => Quiet /\ Fresh
       /\ aud_user[u] = "start" => aud.mfnCbk
       /\ aud_user[u] = "stopped" => Quiet
       /\ aud_user[u] = "delay" => ~dma.on

next(r) == IF r = 2 THEN 0 ELSE r + 1

(* The DMA channels are one row ahead of the driver, two while an          *)
(* interrupt is pending; and the last row of a half finds the task asleep. *)
RowInv ==
  /\ dma.irq => aud.State1 = next(dma.row)
  /\ dma.on /\ ~dma.irq => aud.State1 = next(next(dma.row))
  /\ dma.on \/ dma.irq => aud.Inner2 < aud.mnBlocks
  /\ dma.irq /\ aud.Inner2 = aud.mnBlocks - 1 => dsp = "slp"

served == IF dma.irq THEN dma.n - 1 ELSE dma.n
first == served - aud.Inner2

(* The row that is j rows late: silence, if there is none. *)
late(m, j) == IF m > j THEN m - j ELSE Silence

SessionInv ==
  LET N == aud.mnBlocks
      now == aud.State2
      lag == 2 * N + INTR_PER_BUFFER
  IN dma.on =>
     /\ aud.mfnCbk
     /\ first = 0 \/ first >= N
     /\ dma.irq => rx1[next(next(dma.row))] = dma.n
     /\ \A i \in 0 .. aud.Inner2 - 1 : rx2[now][i] = first + i + 1
     /\ first >= N => \A i \in 0 .. N - 1 : rx2[1 - now][i] = first - N + i + 1
     /\ dsp # "slp" => first >= N
     /\ dsp \in {"call", "cbk", "post"} => aud.pre = 1 - now
     /\ \A i \in 0 .. N - 1 : tx2[now][i] = late(first + i + 1, 2 * N)
     /\ dsp \in {"slp", "post"} =>
          \A i \in 0 .. N - 1 : tx2[1 - now][i] = late(first + i + 1, N)
     /\ dma.n + 1 > 3 => tx1[dma.row] = late(dma.n + 1, lag)
     /\ dma.n + 2 > 3 => tx1[next(dma.row)] = late(dma.n + 2, lag)
     /\ ~dma.irq /\ dma.n + 3 > 3 => tx1[next(next(dma.row))] = late(dma.n + 3, lag)
     /\ dma.n > 3 => dma.out = late(dma.n, lag)

AudioInv == AudioTypes /\ PhaseInv /\ RowInv /\ SessionInv

-----------------------------------------------------------------------------
(* Going round the triple buffer. *)
LEMMA NextRow ==
  ASSUME NEW r \in Rows
  PROVE  /\ (r + 1) % INTR_PER_BUFFER = next(r)
         /\ next(r) \in Rows /\ next(next(r)) \in Rows
         /\ next(next(next(r))) = r
         /\ r # next(r) /\ r # next(next(r)) /\ next(r) # next(next(r))
  BY DEF Rows, INTR_PER_BUFFER, next

(* The start. *)
LEMMA AudioInitOK == AudioInit => AudioInv
<1> SUFFICES ASSUME AudioInit PROVE AudioInv
  OBVIOUS
<1> USE AudioAssumption
<1>1. AudioTypes
  BY DEF AudioInit, AudioTypes, SilentHalves, Block, Rows, INTR_PER_BUFFER, Silence
<1>2. PhaseInv /\ RowInv /\ SessionInv
  BY DEF AudioInit, PhaseInv, RowInv, SessionInv, Quiet
<1> QED
  BY <1>1, <1>2 DEF AudioInv

(* A row is done. *)
LEMMA DmaRowOK ==
  ASSUME AudioInv, dma_row
  PROVE  AudioInv'
<1> USE AudioAssumption DEF AudioInv
<1>1. /\ dma.on /\ ~dma.irq /\ dma'.on /\ dma'.irq
      /\ dma'.n = dma.n + 1 /\ dma'.row = next(dma.row) /\ dma'.out = tx1[dma.row]
      /\ rx1' = [rx1 EXCEPT ![dma.row] = dma.n + 1]
      /\ UNCHANGED <<aud, tx1, rx2, tx2, dsp, aud_wup, aud_user>>
      /\ dsp # "slp" => aud.Inner2 # aud.mnBlocks - 1
  BY NextRow DEF AudioTypes, dma_row, InTime
<1>2. dma.row \in Rows /\ dma.n \in Nat /\ aud.mnBlocks \in Nat /\ aud.Inner2 \in Nat
  BY DEF AudioTypes
<1>3. AudioTypes'
  <2>1. dma' \in [on : BOOLEAN, row : Rows, irq : BOOLEAN, n : Nat, out : Nat]
    <3>1. dma' = [dma EXCEPT !.n = dma.n + 1, !.row = next(dma.row),
                             !.irq = TRUE, !.out = tx1[dma.row]]
      BY <1>2, NextRow DEF dma_row, AudioTypes
    <3>2. next(dma.row) \in Rows /\ dma.n + 1 \in Nat /\ tx1[dma.row] \in Nat
      BY <1>2, NextRow DEF AudioTypes
    <3> QED
      BY <3>1, <3>2 DEF AudioTypes
  <2> QED
    BY <1>1, <1>2, <2>1 DEF AudioTypes
<1>4. PhaseInv'
  BY <1>1 DEF PhaseInv, Quiet
<1>5. RowInv'
  BY <1>1, <1>2, NextRow DEF RowInv
<1>6. SessionInv'
  <2>1. served' = served /\ first' = first
    BY <1>1, <1>2 DEF served, first
  <2>2. rx1'[dma.row] = dma.n + 1
    BY <1>1, <1>2 DEF AudioTypes
  <2> QED
    BY <1>1, <1>2, <2>1, <2>2, NextRow DEF SessionInv
<1> QED
  BY <1>3, <1>4, <1>5, <1>6

(* A row is served. *)
LEMMA IsrOK ==
  ASSUME AudioInv, KzAudioISRSport0
  PROVE  AudioInv'
<1> USE AudioAssumption DEF AudioInv
<1> DEFINE full == aud.Inner2 + 1 >= aud.mnBlocks
           s1 == next(aud.State1)
           h == aud.State2
           i2 == aud.Inner2
<1>1. /\ dma.row \in Rows /\ dma.n \in Nat /\ aud.mnBlocks \in 0 .. MaxBlocks /\ i2 \in Nat
      /\ aud.State1 \in Rows /\ h \in 0 .. 1 /\ i2 < aud.mnBlocks
      /\ aud.State1 = next(dma.row) /\ dma.irq
      /\ full => dsp = "slp"
  BY DEF AudioTypes, RowInv, KzAudioISRSport0
<1>2. s1 = IF dma.row = 1 THEN 0 ELSE aud.State1 + 1
  BY <1>1 DEF next, Rows, INTR_PER_BUFFER
<1>3. /\ dma' = [dma EXCEPT !.irq = FALSE]
      /\ rx2' = [rx2 EXCEPT ![h] = [rx2[h] EXCEPT ![i2] = rx1[s1]]]
      /\ tx1' = [tx1 EXCEPT ![s1] = tx2[h][i2]]
      /\ aud' = [aud EXCEPT !.State1 = s1, !.Inner2 = IF full THEN 0 ELSE i2 + 1,
                            !.State2 = IF full THEN 1 - h ELSE h]
      /\ dsp' = (IF full THEN "prepare" ELSE dsp)
      /\ UNCHANGED <<rx1, tx2, aud_user, aud_wup>>
  <2>1. full <=> i2 + 1 >= aud.mnBlocks
    OBVIOUS
  <2> HIDE DEF full
  <2>2. /\ dma' = [dma EXCEPT !.irq = FALSE]
        /\ rx2' = [rx2 EXCEPT ![h] = [rx2[h] EXCEPT ![i2] = rx1[s1]]]
        /\ tx1' = [tx1 EXCEPT ![s1] = tx2[h][i2]]
        /\ UNCHANGED <<rx1, tx2, aud_user>>
    BY <1>1, <1>2 DEF KzAudioISRSport0, AudioTypes
  <2>3. aud' = [aud EXCEPT !.State1 = s1, !.Inner2 = IF full THEN 0 ELSE i2 + 1,
                           !.State2 = IF full THEN 1 - h ELSE h]
    BY <1>1, <1>2, <2>1 DEF KzAudioISRSport0, AudioTypes
  <2>4. IF full THEN wake ELSE UNCHANGED <<dsp, aud_wup>>
    BY <2>1 DEF KzAudioISRSport0
  <2> QED
    BY <1>1, <2>2, <2>3, <2>4 DEF wake
<1>4. /\ s1 \in Rows /\ i2 \in 0 .. MaxBlocks - 1 /\ i2 + 1 \in Nat /\ 1 - h \in 0 .. 1
      /\ rx1[s1] \in Nat /\ tx2[h][i2] \in Nat
  <2>1. i2 \in 0 .. MaxBlocks - 1 /\ i2 + 1 \in Nat /\ 1 - h \in 0 .. 1
    BY <1>1
  <2>2. s1 \in Rows
    BY <1>1, NextRow
  <2>3. tx2[h] \in Block /\ rx1 \in [Rows -> Nat]
    BY <1>1 DEF AudioTypes
  <2> HIDE DEF i2, h, s1
  <2>4. rx1[s1] \in Nat /\ tx2[h][i2] \in Nat
    BY <2>1, <2>2, <2>3 DEF Block
  <2> QED
    BY <2>1, <2>2, <2>4
<1>5. /\ aud'.mbStarted = aud.mbStarted /\ aud'.mfnCbk = aud.mfnCbk
      /\ aud'.mnBlocks = aud.mnBlocks /\ aud'.pre = aud.pre
      /\ aud'.State1 = s1 /\ aud'.Inner2 = (IF full THEN 0 ELSE i2 + 1)
      /\ aud'.State2 = (IF full THEN 1 - h ELSE h)
      /\ dma'.on = dma.on /\ dma'.row = dma.row /\ ~dma'.irq /\ dma'.n = dma.n
      /\ dma'.out = dma.out
  BY <1>3 DEF AudioTypes
<1> HIDE DEF s1
<1>6. AudioTypes'
  <2>1. dma' \in [on : BOOLEAN, row : Rows, irq : BOOLEAN, n : Nat, out : Nat]
    BY <1>3 DEF AudioTypes
  <2>2. aud' \in [mbStarted : BOOLEAN, mfnCbk : BOOLEAN, mnBlocks : 0 .. MaxBlocks,
                  State1 : Rows, State2 : 0 .. 1, Inner2 : Nat, pre : 0 .. 1]
    <3>1. aud'.Inner2 \in Nat /\ aud'.State2 \in 0 .. 1
      BY <1>1, <1>4, <1>5
    <3> QED
      BY <1>3, <1>4, <1>5, <3>1 DEF AudioTypes
  <2>3. rx2' \in [0 .. 1 -> Block] /\ tx1' \in [Rows -> Nat]
    BY <1>1, <1>3, <1>4 DEF AudioTypes, Block
  <2>4. dsp' \in {"slp", "prepare", "call", "cbk", "post"}
    BY <1>3 DEF AudioTypes
  <2> QED
    BY <1>3, <2>1, <2>2, <2>3, <2>4 DEF AudioTypes
<1>7. PhaseInv'
  BY <1>1, <1>3, <1>5 DEF PhaseInv, Quiet
<1>8. RowInv'
  BY <1>1, <1>5, NextRow DEF RowInv, s1
<1>9. SessionInv'
  <2>0. SUFFICES ASSUME dma.on PROVE SessionInv'
    BY <1>5 DEF SessionInv
  <2>1. /\ served = dma.n - 1 /\ served' = dma.n
        /\ first = dma.n - 1 - i2
        /\ first' = IF full THEN first + aud.mnBlocks ELSE first
    BY <1>1, <1>5 DEF served, first
  <2>2. rx1[s1] = dma.n
    BY <1>1, <2>0 DEF SessionInv, s1
  <2>3. tx2[h][i2] = late(dma.n, 2 * aud.mnBlocks)
    <3>1. tx2[h][i2] = late(first + i2 + 1, 2 * aud.mnBlocks)
      BY <1>1, <2>0 DEF SessionInv
    <3> QED
      BY <1>1, <2>1, <3>1
  <2>4. /\ rx2'[h][i2] = dma.n /\ rx2'[1 - h] = rx2[1 - h]
        /\ \A i \in 0 .. i2 - 1 : rx2'[h][i] = rx2[h][i]
    BY <1>1, <1>3, <1>4, <2>2 DEF AudioTypes, Block
  <2>5. /\ tx1'[s1] = tx2[h][i2]
        /\ tx1'[dma.row] = tx1[dma.row] /\ tx1'[next(dma.row)] = tx1[next(dma.row)]
    BY <1>1, <1>3, NextRow DEF AudioTypes, s1
  <2>6. \A i \in 0 .. i2 : rx2'[h][i] = first + i + 1
    <3>1. \A i \in 0 .. i2 - 1 : rx2[h][i] = first + i + 1
      BY <2>0 DEF SessionInv
    <3>2. \A i \in 0 .. i2 : i = i2 \/ i \in 0 .. i2 - 1
      BY <1>1
    <3>3. first + i2 + 1 = dma.n
      BY <1>1, <2>1
    <3> QED
      BY <2>4, <3>1, <3>2, <3>3
  <2>7. tx1'[next(next(dma'.row))] = late(dma'.n + 3, 2 * aud'.mnBlocks + INTR_PER_BUFFER)
    BY <1>1, <1>5, <2>1, <2>3, <2>5 DEF s1, late, INTR_PER_BUFFER
  <2>8. CASE ~full
    BY <1>1, <1>3, <1>5, <2>0, <2>1, <2>4, <2>5, <2>6, <2>7, <2>8 DEF SessionInv
  <2>9. CASE full
    <3>1. i2 = aud.mnBlocks - 1 /\ dsp = "slp" /\ 1 - (1 - h) = h
      BY <1>1, <2>9
    <3>2. \A i \in 0 .. aud.mnBlocks - 1 : rx2'[h][i] = first' - aud.mnBlocks + i + 1
      BY <1>1, <2>1, <2>6, <2>9, <3>1
    <3>3. \A i \in 0 .. aud.mnBlocks - 1 :
            tx2[1 - h][i] = late(first' + i + 1, 2 * aud.mnBlocks)
      <4>1. \A i \in 0 .. aud.mnBlocks - 1 : tx2[1 - h][i] = late(first + i + 1, aud.mnBlocks)
        BY <2>0, <3>1 DEF SessionInv
      <4> QED
        BY <1>1, <2>1, <2>9, <4>1 DEF late
    <3>4. first >= 0
      BY <1>1, <2>0, <2>1 DEF SessionInv
    <3>5. /\ first' >= aud.mnBlocks /\ aud'.Inner2 = 0 /\ aud'.State2 = 1 - h
          /\ dsp' = "prepare" /\ aud'.mnBlocks = aud.mnBlocks
      BY <1>1, <1>3, <1>5, <2>1, <2>9, <3>4
    <3>6. \A i \in 0 .. aud.mnBlocks - 1 : rx2'[1 - aud'.State2][i] = first' - aud.mnBlocks + i + 1
      BY <3>1, <3>2, <3>5
    <3>7. \A i \in 0 .. aud.mnBlocks - 1 :
            tx2'[aud'.State2][i] = late(first' + i + 1, 2 * aud.mnBlocks)
      BY <1>3, <3>3, <3>5
    <3>8. aud'.mfnCbk /\ \A i \in 0 .. aud'.Inner2 - 1 : FALSE
      BY <1>5, <2>0, <3>5 DEF SessionInv
    <3>9. LET lag == 2 * aud'.mnBlocks + INTR_PER_BUFFER
          IN /\ dma'.n + 1 > 3 => tx1'[dma'.row] = late(dma'.n + 1, lag)
             /\ dma'.n + 2 > 3 => tx1'[next(dma'.row)] = late(dma'.n + 2, lag)
             /\ dma'.n > 3 => dma'.out = late(dma'.n, lag)
      BY <1>5, <2>0, <2>5 DEF SessionInv
    <3> HIDE DEF h, i2, full
    <3> QED
      BY <1>5, <2>7, <3>5, <3>6, <3>7, <3>8, <3>9 DEF SessionInv
  <2> QED
    BY <2>8, <2>9
<1> QED
  BY <1>6, <1>7, <1>8, <1>9

(* The DSP task has a step; it works on the half that is full. *)
LEMMA DspOK ==
  ASSUME AudioInv, dsp_prepare \/ dsp_call \/ callback \/ dsp_post
  PROVE  AudioInv'
<1> USE AudioAssumption DEF AudioInv
<1> DEFINE h == aud.State2
<1>1. /\ dsp # "slp" /\ UNCHANGED <<rx1, tx1, rx2, dma, aud_user>> /\ aud_wup' = 0
      /\ aud' \in [mbStarted : BOOLEAN, mfnCbk : BOOLEAN, mnBlocks : 0 .. MaxBlocks,
                   State1 : Rows, State2 : 0 .. 1, Inner2 : Nat, pre : 0 .. 1]
      /\ aud' = [aud EXCEPT !.pre = aud'.pre]
      /\ h \in 0 .. 1 /\ aud.mnBlocks \in 0 .. MaxBlocks
  <2>1. CASE dsp_prepare
    BY <2>1 DEF dsp_prepare, AudioTypes
  <2>2. CASE dsp_call \/ callback \/ dsp_post
    <3>1. aud = [aud EXCEPT !.pre = aud.pre]
      BY DEF AudioTypes
    <3> QED
      BY <2>2, <3>1 DEF dsp_call, callback, dsp_post, AudioTypes
  <2> QED
    BY <2>1, <2>2
<1>2. /\ aud'.mbStarted = aud.mbStarted /\ aud'.mfnCbk = aud.mfnCbk
      /\ aud'.mnBlocks = aud.mnBlocks /\ aud'.State1 = aud.State1
      /\ aud'.State2 = aud.State2 /\ aud'.Inner2 = aud.Inner2
  BY <1>1 DEF AudioTypes
<1>3. \/ dsp = "prepare" /\ dsp' = "call" /\ aud'.pre = 1 - h /\ tx2'[h] = tx2[h]
         /\ tx2' \in [0 .. 1 -> Block]
      \/ /\ dsp = "call" /\ dsp' = (IF aud.mfnCbk THEN "cbk" ELSE "post")
         /\ UNCHANGED <<aud, tx2>>
      \/ /\ dsp = "cbk" /\ dsp' = "post" /\ UNCHANGED aud
         /\ aud.pre = 1 - h =>
              /\ tx2'[h] = tx2[h]
              /\ \A i \in 0 .. aud.mnBlocks - 1 : tx2'[1 - h][i] = rx2[1 - h][i]
         /\ tx2' \in [0 .. 1 -> Block]
      \/ dsp = "post" /\ dsp' = "slp" /\ UNCHANGED <<aud, tx2>>
  <2>1. ASSUME NEW p \in 0 .. 1, NEW b \in Block
        PROVE  /\ half(p, b) \in [0 .. 1 -> Block]
               /\ p # h => half(p, b)[h] = tx2[h]
               /\ \A i \in 0 .. aud.mnBlocks - 1 : half(p, b)[p][i] = b[i]
    <3>1. tx2 \in [0 .. 1 -> Block] /\ tx2[p] \in Block /\ DOMAIN tx2[p] = 0 .. MaxBlocks - 1
      BY DEF AudioTypes, Block
    <3> DEFINE f == [i \in 0 .. MaxBlocks - 1 |-> IF i < aud.mnBlocks THEN b[i] ELSE tx2[p][i]]
    <3>2. half(p, b) = [tx2 EXCEPT ![p] = f]
      BY <3>1 DEF half
    <3>3. f \in Block
      BY <3>1 DEF Block
    <3>4. \A i \in 0 .. aud.mnBlocks - 1 : f[i] = b[i]
      BY <1>1
    <3> HIDE DEF f
    <3> QED
      BY <1>1, <3>1, <3>2, <3>3, <3>4
  <2>2. CASE dsp_prepare
    <3>1. /\ aud'.pre = 1 - h
          /\ tx2' = half(1 - h, SilentHalves[0]) /\ dsp = "prepare" /\ dsp' = "call"
      <4>1. (IF aud.State2 = 0 THEN 1 ELSE aud.State2 - 1) = 1 - h
        BY <1>1
      <4> QED
        BY <2>2, <4>1 DEF dsp_prepare, AudioTypes
    <3>2. SilentHalves[0] \in Block /\ 1 - h \in 0 .. 1 /\ 1 - h # h
      BY <1>1 DEF SilentHalves, Block, Silence
    <3> QED
      BY <2>1, <3>1, <3>2
  <2>3. CASE callback
    <3>1. aud.pre \in 0 .. 1 /\ rx2[aud.pre] \in Block /\ (aud.pre = 1 - h => aud.pre # h)
      BY <1>1 DEF AudioTypes
    <3> QED
      BY <2>1, <2>3, <3>1 DEF callback
  <2>4. CASE dsp_call \/ dsp_post
    BY <2>4 DEF dsp_call, dsp_post, AudioTypes
  <2> QED
    BY <2>2, <2>3, <2>4
<1>4. AudioTypes'
  BY <1>1, <1>3 DEF AudioTypes
<1>5. PhaseInv'
  BY <1>1, <1>2 DEF PhaseInv, Quiet
<1>6. RowInv'
  BY <1>1, <1>2, <1>3 DEF RowInv
<1>7. SessionInv'
  <2> SUFFICES ASSUME dma.on PROVE SessionInv'
    BY <1>1 DEF SessionInv
  <2>1. first' = first /\ served' = served
    BY <1>1, <1>2 DEF first, served
  <2>2. tx2'[h] = tx2[h]
    BY <1>3 DEF SessionInv
  <2>3. dsp' \in {"slp", "post"} =>
          \A i \in 0 .. aud.mnBlocks - 1 : tx2'[1 - h][i] = late(first + i + 1, aud.mnBlocks)
    <3>1. CASE dsp = "post"
      BY <1>3, <3>1 DEF SessionInv
    <3>2. CASE dsp = "cbk"
      <4>1. /\ \A i \in 0 .. aud.mnBlocks - 1 : tx2'[1 - h][i] = rx2[1 - h][i]
            /\ first >= aud.mnBlocks
            /\ \A i \in 0 .. aud.mnBlocks - 1 : rx2[1 - h][i] = first - aud.mnBlocks + i + 1
        BY <1>3, <3>2 DEF SessionInv
      <4>2. first \in Int
        BY DEF AudioTypes, first, served
      <4> QED
        BY <1>1, <4>1, <4>2 DEF late
    <3>3. CASE dsp \in {"prepare", "call"}
      BY <1>3, <3>3 DEF SessionInv
    <3> QED
      BY <1>1, <1>3, <3>1, <3>2, <3>3
  <2>4. dsp' \in {"call", "cbk", "post"} => aud'.pre = 1 - h
    BY <1>2, <1>3 DEF SessionInv
  <2>5. dsp' # "slp" => first >= aud.mnBlocks
    BY <1>1 DEF SessionInv
  <2> HIDE DEF h
  <2> QED
    BY <1>1, <1>2, <2>1, <2>2, <2>3, <2>4, <2>5 DEF SessionInv, h
<1> QED
  BY <1>4, <1>5, <1>6, <1>7

(* The one user goes to l, and the driver with it. *)
UserGoes(u, l) ==
  /\ aud_user' = [aud_user EXCEPT ![u] = l]
  /\ UNCHANGED <<rx1, tx1, dsp, aud_wup>>

(* Starting: a step of kzdev_audio_start and of what it calls. *)
LEMMA StartOK ==
  ASSUME OneUser, AudioInv, NEW u \in AudioUser,
         \/ kzdev_audio_start(u) \/ refuse(u) \/ \E n \in Blocks : setup_audio(u, n)
         \/ set_callback(u) \/ start_audio(u)
  PROVE  AudioInv'
<1> USE AudioAssumption DEF AudioInv
<1>1. ASSUME NEW l \in {"out", "claim", "cbk", "start", "delay", "stopped"}, UserGoes(u, l)
      PROVE  /\ aud_user' \in [AudioUser -> {"out", "claim", "cbk", "start", "delay", "stopped"}]
             /\ \A w \in AudioUser : aud_user'[w] = l
  BY <1>1 DEF UserGoes, AudioTypes, OneUser
<1>2. aud.mnBlocks \in 0 .. MaxBlocks
  BY DEF AudioTypes
<1>3. CASE kzdev_audio_start(u)
  <2>1. ~aud.mbStarted /\ UserGoes(u, "claim") /\ UNCHANGED <<aud, dma, rx2, tx2>>
    BY <1>3 DEF kzdev_audio_start, UserGoes, aud_goto
  <2>2. \A w \in AudioUser : aud_user'[w] = "claim"
    BY <1>1, <2>1
  <2>3. AudioTypes'
    BY <1>1, <2>1 DEF AudioTypes, UserGoes
  <2>4. PhaseInv' /\ RowInv' /\ SessionInv'
    BY <2>1, <2>2 DEF PhaseInv, Quiet, RowInv, SessionInv, UserGoes
  <2> QED
    BY <2>3, <2>4
<1>4. CASE refuse(u)
  <2>1. /\ aud' = [aud EXCEPT !.mbStarted = FALSE, !.mfnCbk = FALSE, !.mnBlocks = 0]
        /\ UserGoes(u, "out") /\ UNCHANGED <<dma, rx2, tx2>> /\ Quiet
    BY <1>4 DEF refuse, UserGoes, aud_goto, may_run, PhaseInv
  <2>2. \A w \in AudioUser : aud_user'[w] = "out"
    BY <1>1, <2>1
  <2>3. AudioTypes'
    <3>1. aud' \in [mbStarted : BOOLEAN, mfnCbk : BOOLEAN, mnBlocks : 0 .. MaxBlocks,
                   State1 : Rows, State2 : 0 .. 1, Inner2 : Nat, pre : 0 .. 1]
      <4>1. 0 \in 0 .. MaxBlocks
        OBVIOUS
      <4> QED
        BY <2>1, <4>1 DEF AudioTypes
    <3> QED
      BY <1>1, <2>1, <3>1 DEF AudioTypes, UserGoes
  <2>4. ~aud'.mfnCbk /\ Quiet'
    BY <2>1 DEF AudioTypes, Quiet, UserGoes
  <2>5. PhaseInv' /\ RowInv' /\ SessionInv'
    BY <2>2, <2>4 DEF PhaseInv, Quiet, RowInv, SessionInv
  <2> QED
    BY <2>3, <2>5
<1>5. ASSUME NEW n \in Blocks, setup_audio(u, n)
      PROVE  AudioInv'
  <2>1. /\ aud' = [aud EXCEPT !.mbStarted = TRUE, !.mnBlocks = n,
                             !.State1 = 2, !.State2 = 0, !.Inner2 = 0]
        /\ rx2' = SilentHalves /\ tx2' = SilentHalves /\ n \in 1 .. MaxBlocks
        /\ UserGoes(u, "cbk") /\ UNCHANGED dma /\ Quiet
    BY <1>5 DEF setup_audio, UserGoes, aud_goto, may_run, PhaseInv
  <2>2. \A w \in AudioUser : aud_user'[w] = "cbk"
    BY <1>1, <2>1
  <2>3. /\ 2 \in Rows /\ 0 \in 0 .. 1 /\ n \in 0 .. MaxBlocks
        /\ SilentHalves \in [0 .. 1 -> Block]
    BY <2>1 DEF Rows, INTR_PER_BUFFER, SilentHalves, Block, Silence
  <2>4. AudioTypes'
    BY <1>1, <2>1, <2>3 DEF AudioTypes, UserGoes
  <2>5. aud'.mbStarted /\ Fresh' /\ Quiet'
    BY <2>1 DEF AudioTypes, Quiet, Fresh, UserGoes
  <2>6. PhaseInv' /\ RowInv' /\ SessionInv'
    BY <2>2, <2>5 DEF PhaseInv, Quiet, RowInv, SessionInv
  <2> QED
    BY <2>4, <2>6
<1>6. CASE set_callback(u)
  <2>1. /\ aud' = [aud EXCEPT !.mfnCbk = TRUE]
        /\ UserGoes(u, "start") /\ UNCHANGED <<dma, rx2, tx2>> /\ Quiet /\ Fresh
        /\ aud.mbStarted
    BY <1>6 DEF set_callback, UserGoes, aud_goto, may_run, PhaseInv
  <2>2. \A w \in AudioUser : aud_user'[w] = "start"
    BY <1>1, <2>1
  <2>3. AudioTypes'
    BY <1>1, <2>1 DEF AudioTypes, UserGoes
  <2>4. aud'.mbStarted /\ aud'.mfnCbk /\ Fresh' /\ Quiet'
    BY <2>1 DEF AudioTypes, Quiet, Fresh, UserGoes
  <2>5. PhaseInv' /\ RowInv' /\ SessionInv'
    BY <2>2, <2>4 DEF PhaseInv, Quiet, RowInv, SessionInv
  <2> QED
    BY <2>3, <2>5
<1>7. CASE start_audio(u)
  <2>1. /\ dma' = [dma EXCEPT !.on = TRUE, !.row = 0, !.n = 0, !.out = Silence]
        /\ UserGoes(u, "out") /\ UNCHANGED <<aud, rx2, tx2>> /\ Quiet /\ Fresh
        /\ aud.mbStarted /\ aud.mfnCbk
    BY <1>7 DEF start_audio, UserGoes, aud_goto, may_run, PhaseInv
  <2>2. \A w \in AudioUser : aud_user'[w] = "out"
    BY <1>1, <2>1
  <2>3. 0 \in Rows /\ Silence \in Nat
    BY DEF Rows, INTR_PER_BUFFER, Silence
  <2>4. AudioTypes'
    BY <1>1, <2>1, <2>3 DEF AudioTypes, UserGoes
  <2>5. dma'.on /\ ~dma'.irq /\ dma'.row = 0 /\ dma'.n = 0 /\ dsp' = "slp"
    BY <2>1 DEF AudioTypes, Quiet, UserGoes
  <2>6. PhaseInv'
    BY <2>1, <2>2 DEF PhaseInv
  <2>7. RowInv'
    BY <2>1, <2>5 DEF RowInv, Fresh, next
  <2>8. first' = 0
    BY <2>1, <2>5 DEF first, served, Fresh
  <2>9. \A i \in 0 .. aud.mnBlocks - 1, c \in 0 .. 1 : tx2[c][i] = Silence
    BY <1>2, <2>1 DEF Fresh, SilentHalves
  <2>10. \A i \in 0 .. aud.mnBlocks - 1 : /\ late(i + 1, 2 * aud.mnBlocks) = Silence
                                         /\ late(i + 1, aud.mnBlocks) = Silence
    BY <1>2 DEF late
  <2>11. SessionInv'
    BY <1>2, <2>1, <2>5, <2>8, <2>9, <2>10 DEF SessionInv, Fresh
  <2> QED
    BY <2>4, <2>6, <2>7, <2>11
<1> QED
  BY <1>3, <1>4, <1>5, <1>6, <1>7

(* Stopping: kzdev_audio_stop, which waits for the task to be through. *)
LEMMA StopOK ==
  ASSUME OneUser, AudioInv, NEW u \in AudioUser,
         stop_audio(u) \/ delay_end(u) \/ kzdev_audio_stop(u)
  PROVE  AudioInv'
<1> USE AudioAssumption DEF AudioInv
<1>1. ASSUME NEW l \in {"out", "claim", "cbk", "start", "delay", "stopped"}, UserGoes(u, l)
      PROVE  /\ aud_user' \in [AudioUser -> {"out", "claim", "cbk", "start", "delay", "stopped"}]
             /\ \A w \in AudioUser : aud_user'[w] = l
  BY <1>1 DEF UserGoes, AudioTypes, OneUser
<1>2. CASE stop_audio(u)
  <2>1. /\ dma' = [dma EXCEPT !.on = FALSE] /\ ~dma.irq
        /\ UserGoes(u, "delay") /\ UNCHANGED <<aud, rx2, tx2>> /\ aud.mbStarted
    BY <1>2 DEF stop_audio, UserGoes, aud_goto, may_run
  <2>2. \A w \in AudioUser : aud_user'[w] = "delay"
    BY <1>1, <2>1
  <2>3. AudioTypes'
    BY <1>1, <2>1 DEF AudioTypes, UserGoes
  <2>4. ~dma'.on /\ ~dma'.irq
    BY <2>1 DEF AudioTypes
  <2>5. PhaseInv' /\ RowInv' /\ SessionInv'
    BY <2>1, <2>2, <2>4 DEF PhaseInv, RowInv, SessionInv
  <2> QED
    BY <2>3, <2>5
<1>3. CASE delay_end(u)
  <2>1. /\ dma' = [dma EXCEPT !.irq = FALSE] /\ ~dma.on /\ dsp = "slp"
        /\ UserGoes(u, "stopped") /\ UNCHANGED <<aud, rx2, tx2>> /\ aud.mbStarted
    BY <1>3 DEF delay_end, UserGoes, aud_goto, may_run, PhaseInv
  <2>2. \A w \in AudioUser : aud_user'[w] = "stopped"
    BY <1>1, <2>1
  <2>3. AudioTypes'
    BY <1>1, <2>1 DEF AudioTypes, UserGoes
  <2>4. ~dma'.on /\ ~dma'.irq /\ dsp' = "slp"
    BY <2>1 DEF AudioTypes, UserGoes
  <2>5. PhaseInv' /\ RowInv' /\ SessionInv'
    BY <2>1, <2>2, <2>4 DEF PhaseInv, RowInv, SessionInv, Quiet
  <2> QED
    BY <2>3, <2>5
<1>4. CASE kzdev_audio_stop(u)
  <2>1. /\ aud' = [aud EXCEPT !.mfnCbk = FALSE, !.mnBlocks = 0, !.mbStarted = FALSE]
        /\ UserGoes(u, "out") /\ UNCHANGED <<dma, rx2, tx2>> /\ Quiet
    BY <1>4 DEF kzdev_audio_stop, UserGoes, aud_goto, may_run, PhaseInv
  <2>2. \A w \in AudioUser : aud_user'[w] = "out"
    BY <1>1, <2>1
  <2>3. AudioTypes'
    <3>1. aud' \in [mbStarted : BOOLEAN, mfnCbk : BOOLEAN, mnBlocks : 0 .. MaxBlocks,
                   State1 : Rows, State2 : 0 .. 1, Inner2 : Nat, pre : 0 .. 1]
      <4>1. 0 \in 0 .. MaxBlocks
        OBVIOUS
      <4> QED
        BY <2>1, <4>1 DEF AudioTypes
    <3> QED
      BY <1>1, <2>1, <3>1 DEF AudioTypes, UserGoes
  <2>4. ~aud'.mfnCbk /\ Quiet'
    BY <2>1 DEF AudioTypes, Quiet, UserGoes
  <2>5. PhaseInv' /\ RowInv' /\ SessionInv'
    BY <2>2, <2>4 DEF PhaseInv, Quiet, RowInv, SessionInv
  <2> QED
    BY <2>3, <2>5
<1> QED
  BY <1>2, <1>3, <1>4

-----------------------------------------------------------------------------
(* Every step keeps AudioInv. *)
LEMMA AudioNextOK == OneUser /\ AudioInv /\ [AudioNext]_audvars => AudioInv'
<1> SUFFICES ASSUME OneUser, AudioInv, [AudioNext]_audvars PROVE AudioInv'
  OBVIOUS
<1>1. CASE UNCHANGED audvars
  BY <1>1 DEF AudioInv, AudioTypes, PhaseInv, RowInv, SessionInv, audvars, Quiet, Fresh,
              first, served
<1>2. CASE AudioNext
  BY <1>2, DmaRowOK, IsrOK, DspOK, StartOK, StopOK DEF AudioNext
<1> QED
  BY <1>1, <1>2

(* What is played is what was recorded, in order and late by the two       *)
(* buffers, for any block size, any number of rows and of sessions.        *)
THEOREM SamplesInOrder == ASSUME OneUser PROVE AudioSpec => []Delayed
<1>1. AudioInv => Delayed
  <2> SUFFICES ASSUME AudioInv, dma.on, dma.n > INTR_PER_BUFFER
      PROVE LET lag == 2 * aud.mnBlocks + INTR_PER_BUFFER
            IN dma.out = IF dma.n > lag THEN dma.n - lag ELSE Silence
    BY DEF Delayed
  <2> QED
    BY DEF AudioInv, SessionInv, late, INTR_PER_BUFFER
<1> QED
  BY <1>1, AudioInitOK, AudioNextOK, PTL DEF AudioSpec

(* When kzdev_audio_stop has returned no call-back runs or will run, and   *)
(* the next session finds nothing left over.                               *)
THEOREM StopIsQuiet == ASSUME OneUser PROVE AudioSpec => []QuietWhenStopped
<1>1. AudioInv => QuietWhenStopped
  BY DEF AudioInv, PhaseInv, AudioTypes, Quiet, QuietWhenStopped
<1> QED
  BY <1>1, AudioInitOK, AudioNextOK, PTL DEF AudioSpec
-----------------------------------------------------------------------------
(* Part 3: the SPI driver. *)

(* Has the bus; has a unit of the semaphore of the bus, or been given one. *)
Holder(u) == pc[u] \notin {"out", "opening"}
HasBus(u) == Holder(u) \/ (pc[u] = "opening" /\ ~WAITING(k, u))

NullPlaces == {"out", "open", "starting", "trigger", "polling", "done"}
UserPlaces == {"out", "opening", "open", "starting", "trigger", "enable", "wait",
               "waiting", "done"}

SpiTypes ==
  /\ pc[NULL] \in NullPlaces /\ \A u \in SpiUser : pc[u] \in UserPlaces
  /\ iniflg => pc[NULL] = "out"
  /\ ~iniflg => \A u \in SpiUser : pc[u] = "out"
  /\ DOMAIN pc = Users /\ job \in [Users -> Nat \X Nat]
  /\ spi \in [cur : Users \cup {NoConfig}, tx : Nat, rx : Nat, ena : BOOLEAN]
  /\ dev \in [on : BOOLEAN, tdbr : Nat, shift : BOOLEAN, full : BOOLEAN]

(* Who waits for a semaphore of the driver is in the call that waits for   *)
(* it, and a wait for the end of a transfer ends by the signal.            *)
SpiTask(t) ==
  /\ k.tcb[t].wobj = SPI_DEVICE_SEM => t \in SpiUser /\ pc[t] = "opening"
  /\ k.tcb[t].wobj = SPI_COMPLETE_SIG => t \in SpiUser /\ pc[t] = "waiting"
  /\ t \in SpiUser /\ pc[t] = "waiting" =>
       IF WAITING(k, t) THEN k.tcb[t].wobj = SPI_COMPLETE_SIG ELSE k.tcb[t].winfo = "E_OK"

OneBus ==
  /\ \A u \in SpiUser, v \in SpiUser : HasBus(u) /\ HasBus(v) => u = v
  /\ \A u \in SpiUser : HasBus(u) => semcnt[SPI_DEVICE_SEM] = 0
  /\ semcnt[SPI_DEVICE_SEM] \in {0, 1}

(* The wire after j units, and the Rx buffer after j answers. *)
Less(a, b) == IF a > b THEN a - b ELSE 0
Lower(a, b) == IF a > b THEN b ELSE a
Longer(n) == IF n[1] > n[2] THEN n[1] ELSE n[2]
Unit(n, i) == IF i <= n[1] THEN i ELSE 0
Wired(n, j) == wire = [i \in 1 .. j |-> Unit(n, i)]
Stored(n, j) == rxbuf = [i \in 1 .. Lower(j, n[2]) |-> i]

(* The device is idle; it is ready for the transfer n of u, has been       *)
(* started, has m units behind it, has finished.                           *)
Idle == spi.cur = NoConfig /\ ~dev.on /\ ~dev.shift

Prepared(u, n) ==
  /\ spi.cur = u /\ spi.tx = n[1] /\ spi.rx = n[2]
  /\ Longer(n) > 0 /\ Wired(n, 0) /\ Stored(n, 0)
  /\ ~dev.on /\ ~dev.shift /\ ~dev.full

Started(u, n) ==
  /\ spi.cur = u /\ spi.tx = Less(n[1], 1) /\ spi.rx = n[2]
  /\ Longer(n) > 0 /\ Wired(n, 0) /\ Stored(n, 0)
  /\ dev.on /\ ~dev.shift /\ ~dev.full /\ dev.tdbr = Unit(n, 1)

Going(u, n, m) ==
  /\ spi.cur = u /\ spi.tx = Less(n[1], m + 1) /\ spi.rx = Less(n[2], m)
  /\ m < Longer(n) /\ Stored(n, m)
  /\ dev.on
  /\ \/ dev.shift /\ ~dev.full /\ dev.tdbr = Unit(n, m + 1) /\ Wired(n, m)
     \/ ~dev.shift /\ dev.full /\ Wired(n, m + 1)

GoesOn(u, n) == \E m \in Nat : Going(u, n, m)
Finished(n) == Idle /\ Wired(n, Longer(n)) /\ Stored(n, Longer(n))

(* What the place of a user that has the bus says of the device. *)
NoSignal == semcnt[SPI_COMPLETE_SIG] = 0

Phase(u) ==
  \/ pc[u] = "open" /\ Idle /\ NoSignal
  \/ pc[u] = "starting" /\ Prepared(u, job[u]) /\ NoSignal
  \/ pc[u] = "trigger" /\ Started(u, job[u]) /\ NoSignal
  \/ pc[u] \in {"polling", "enable", "wait"} /\ GoesOn(u, job[u]) /\ NoSignal
  \/ pc[u] \in {"enable", "wait"} /\ Finished(job[u]) /\ semcnt[SPI_COMPLETE_SIG] = 1
  \/ pc[u] = "waiting" /\ WAITING(k, u) /\ GoesOn(u, job[u]) /\ NoSignal
  \/ pc[u] = "waiting" /\ ~WAITING(k, u) /\ Finished(job[u]) /\ NoSignal
  \/ pc[u] = "done" /\ Finished(job[u]) /\ NoSignal

Work ==
  \/ Idle /\ NoSignal /\ \A u \in Users : ~Holder(u)
  \/ \E u \in Users : Holder(u) /\ Phase(u) /\ \A v \in Users \ {u} : ~Holder(v)

SpiIInv == SemIInv /\ SpiTypes /\ (\A t \in Task : SpiTask(t)) /\ OneBus /\ Work

-----------------------------------------------------------------------------
(* The greatest of two numbers. *)
LEMMA MaxOfTwo ==
  ASSUME NEW a \in Int, NEW b \in Int
  PROVE  Max({a, b}) = IF a > b THEN a ELSE b
<1> DEFINE S == {a, b}
           m == IF a > b THEN a ELSE b
<1>1. m \in S /\ \A y \in S : m >= y
  OBVIOUS
<1>2. \A x \in S : (\A y \in S : x >= y) => x = m
  OBVIOUS
<1>3. Max(S) \in S /\ \A y \in S : Max(S) >= y
  <2>1. \E x \in S : \A y \in S : x >= y
    BY <1>1
  <2> HIDE DEF S
  <2> QED
    BY <2>1 DEF Max
<1> HIDE DEF S, m
<1>4. Max(S) = m
  BY <1>2, <1>3
<1> QED
  BY <1>4 DEF S, m

(* One more unit on the wire, one more answer in the Rx buffer. *)
LEMMA OneMore ==
  ASSUME NEW n \in Nat \X Nat, NEW m \in Nat
  PROVE  /\ LET w == [i \in 1 .. m |-> Unit(n, i)]
            IN /\ w \in Seq(Nat) /\ Len(w) = m
               /\ Append(w, Unit(n, m + 1)) = [i \in 1 .. m + 1 |-> Unit(n, i)]
         /\ LET w == [i \in 1 .. m |-> i]
            IN Append(w, m + 1) = [i \in 1 .. m + 1 |-> i]
<1> DEFINE e(i) == Unit(n, i)
           w == [i \in 1 .. m |-> e(i)]
           x == [i \in 1 .. m |-> i]
<1>1. \A i \in Nat : e(i) \in Nat
  BY DEF Unit
<1> HIDE DEF e
<1>2. w \in [1 .. m -> Nat] /\ x \in [1 .. m -> Nat]
  BY <1>1
<1>3. w \in Seq(Nat) /\ Len(w) = m /\ x \in Seq(Nat) /\ Len(x) = m
  BY <1>2, FunctionSeq
<1>4. ASSUME NEW s \in Seq(Nat), Len(s) = m, NEW y \in Nat
      PROVE  /\ DOMAIN Append(s, y) = 1 .. m + 1
             /\ \A i \in 1 .. m : Append(s, y)[i] = s[i]
             /\ Append(s, y)[m + 1] = y
             /\ Append(s, y) \in Seq(Nat)
  BY <1>4, AppendProperties, LenProperties
<1>5. Append(w, e(m + 1)) = [i \in 1 .. m + 1 |-> e(i)]
  <2> DEFINE a == Append(w, e(m + 1))
             b == [i \in 1 .. m + 1 |-> e(i)]
  <2>1. DOMAIN a = 1 .. m + 1 /\ a[m + 1] = e(m + 1) /\ \A i \in 1 .. m : a[i] = w[i]
    BY <1>1, <1>3, <1>4
  <2>2. \A i \in 1 .. m + 1 : a[i] = b[i]
    <3> HIDE DEF a
    <3> QED
      BY <2>1
  <2>3. a \in [1 .. m + 1 -> Nat]
    <3>2. e(m + 1) \in Nat
      BY <1>1
    <3>1. a \in Seq(Nat)
      BY <3>2, <1>3, <1>4
    <3> HIDE DEF a
    <3> QED
      BY <2>1, <3>1, LenProperties
  <2> HIDE DEF a
  <2> QED
    BY <2>2, <2>3
<1>6. Append(x, m + 1) = [i \in 1 .. m + 1 |-> i]
  <2> DEFINE a == Append(x, m + 1)
             b == [i \in 1 .. m + 1 |-> i]
  <2>1. DOMAIN a = 1 .. m + 1 /\ a[m + 1] = m + 1 /\ \A i \in 1 .. m : a[i] = x[i]
    BY <1>3, <1>4
  <2>2. \A i \in 1 .. m + 1 : a[i] = b[i]
    <3> HIDE DEF a
    <3> QED
      BY <2>1
  <2>3. a \in [1 .. m + 1 -> Nat]
    <3>1. a \in Seq(Nat)
      BY <1>3, <1>4
    <3> HIDE DEF a
    <3> QED
      BY <2>1, <3>1, LenProperties
  <2> HIDE DEF a
  <2> QED
    BY <2>2, <2>3
<1> QED
  BY <1>3, <1>5, <1>6 DEF e

(* The counts of the driver in numbers. *)
LEMMA Countdown ==
  ASSUME NEW a \in Nat, NEW m \in Nat
  PROVE  /\ Max({Less(a, m) - 1, 0}) = Less(a, m + 1) /\ Less(a, m) \in Nat
         /\ Less(a, 0) = a
         /\ Less(a, m) > 0 <=> m < a
         /\ Less(a, m) <= 0 <=> ~(m < a)
         /\ Less(a, m) <= 1 <=> ~(m + 1 < a)
         /\ m < a => a - Less(a, m) = m
<1>1. Less(a, m) \in Nat /\ Less(a, m) - 1 \in Int /\ 0 \in Int
  BY DEF Less
<1>2. Max({Less(a, m) - 1, 0}) = IF Less(a, m) - 1 > 0 THEN Less(a, m) - 1 ELSE 0
  <2> DEFINE x == Less(a, m) - 1
  <2>1. x \in Int /\ 0 \in Int
    BY <1>1
  <2> HIDE DEF x
  <2>2. Max({x, 0}) = IF x > 0 THEN x ELSE 0
    BY <2>1, MaxOfTwo
  <2> QED
    BY <2>2 DEF x
<1>3. (IF Less(a, m) - 1 > 0 THEN Less(a, m) - 1 ELSE 0) = Less(a, m + 1)
  BY DEF Less
<1> QED
  BY <1>1, <1>2, <1>3 DEF Less

(* A unit is over: the answer is stored, and unless the transfer is over   *)
(* too, the next unit is written before the read that starts it.           *)
LEMMA OneUnit ==
  ASSUME SpiTypes, NEW u \in Users, NEW n \in Nat \X Nat, n = job[u], NEW m \in Nat,
         Going(u, n, m), dev.full, rcv_snd
  PROVE  /\ IF transfer_end THEN Finished(n)' ELSE Going(u, n, m + 1)'
         /\ spi' \in [cur : Users \cup {NoConfig}, tx : Nat, rx : Nat, ena : BOOLEAN]
         /\ dev' \in [on : BOOLEAN, tdbr : Nat, shift : BOOLEAN, full : BOOLEAN]
<1> DEFINE a == n[1]
           b == n[2]
<1>1. /\ a \in Nat /\ b \in Nat /\ u # NoConfig
      /\ spi \in [cur : Users \cup {NoConfig}, tx : Nat, rx : Nat, ena : BOOLEAN]
      /\ dev \in [on : BOOLEAN, tdbr : Nat, shift : BOOLEAN, full : BOOLEAN]
  BY SpiAssumption DEF SpiTypes, Users
<1>2. /\ spi.cur = u /\ spi.tx = Less(a, m + 1) /\ spi.rx = Less(b, m)
      /\ m < Longer(n) /\ Stored(n, m) /\ dev.on /\ ~dev.shift /\ Wired(n, m + 1)
  BY DEF Going
<1>3. /\ Max({spi.tx - 1, 0}) = Less(a, m + 1 + 1) /\ Max({spi.rx - 1, 0}) = Less(b, m + 1)
      /\ spi.tx > 0 <=> m + 1 < a
      /\ spi.tx <= 0 <=> ~(m + 1 < a)
      /\ spi.rx > 0 <=> m < b
      /\ spi.rx <= 1 <=> ~(m + 1 < b)
      /\ m + 1 < a => a - spi.tx = m + 1
      /\ spi.tx \in Nat /\ spi.rx \in Nat
  <2>1. m + 1 \in Nat
    OBVIOUS
  <2>2. /\ Max({Less(a, m + 1) - 1, 0}) = Less(a, m + 1 + 1) /\ Less(a, m + 1) \in Nat
        /\ Less(a, m + 1) > 0 <=> m + 1 < a
        /\ Less(a, m + 1) <= 0 <=> ~(m + 1 < a)
        /\ m + 1 < a => a - Less(a, m + 1) = m + 1
    BY <1>1, <2>1, Countdown
  <2>3. /\ Max({Less(b, m) - 1, 0}) = Less(b, m + 1) /\ Less(b, m) \in Nat
        /\ Less(b, m) > 0 <=> m < b
        /\ Less(b, m) <= 1 <=> ~(m + 1 < b)
    BY <1>1, Countdown
  <2>4. spi.tx = Less(a, m + 1) /\ spi.rx = Less(b, m)
    BY <1>2
  <2> HIDE DEF a, b
  <2> QED
    BY <2>2, <2>3, <2>4
<1>4. transfer_end <=> m + 1 = Longer(n)
  BY <1>1, <1>2, <1>3 DEF transfer_end, Longer
<1>5. Len(wire) = m + 1
  <2>1. m + 1 \in Nat
    OBVIOUS
  <2> QED
    BY <1>2, <2>1, OneMore DEF Wired
<1>6. Stored(n, m + 1)'
  <2>1. rxbuf = [i \in 1 .. Lower(m, b) |-> i]
    BY <1>2 DEF Stored
  <2>2. rxbuf' = IF m < b THEN Append(rxbuf, m + 1) ELSE rxbuf
    BY <1>3, <1>5 DEF rcv_snd, store
  <2>3. CASE m < b
    <3>1. Lower(m, b) = m /\ Lower(m + 1, b) = m + 1
      BY <1>1, <2>3 DEF Lower
    <3>2. rxbuf' = Append([i \in 1 .. m |-> i], m + 1)
      BY <2>1, <2>2, <2>3, <3>1
    <3>3. rxbuf' = [i \in 1 .. m + 1 |-> i]
      BY <3>2, OneMore
    <3> QED
      BY <3>1, <3>3 DEF Stored
  <2>4. CASE ~(m < b)
    <3>1. Lower(m, b) = b /\ Lower(m + 1, b) = b
      BY <1>1, <2>4 DEF Lower
    <3> QED
      BY <2>1, <2>2, <2>4, <3>1 DEF Stored
  <2> QED
    BY <2>3, <2>4
<1>7. Wired(n, m + 1)'
  BY <1>2 DEF rcv_snd, Wired
<1>8. CASE transfer_end
  <2>1. spi' = [get_rx(spi) EXCEPT !.cur = NoConfig]
    BY <1>8 DEF rcv_snd
  <2>2. dev' = [dev EXCEPT !.on = FALSE, !.full = @ /\ spi.rx = 0]
    BY <1>8 DEF rcv_snd
  <2>3. /\ spi' \in [cur : Users \cup {NoConfig}, tx : Nat, rx : Nat, ena : BOOLEAN]
        /\ spi'.cur = NoConfig
    <3>1. Less(b, m + 1) \in Nat
      BY <1>1 DEF Less
    <3> QED
      BY <1>1, <1>3, <2>1, <3>1 DEF get_rx
  <2>4. /\ dev' \in [on : BOOLEAN, tdbr : Nat, shift : BOOLEAN, full : BOOLEAN]
        /\ ~dev'.on /\ ~dev'.shift
    BY <1>1, <1>2, <2>2
  <2>5. Wired(n, Longer(n))' /\ Stored(n, Longer(n))'
    BY <1>4, <1>6, <1>7, <1>8
  <2>6. Finished(n)'
    BY <2>3, <2>4, <2>5 DEF Finished, Idle
  <2> QED
    BY <1>8, <2>3, <2>4, <2>6
<1>9. CASE ~transfer_end
  <2>1. spi' = get_rx(snd_spi(spi)) /\ dev' = send(a)
    BY <1>2, <1>9 DEF rcv_snd
  <2>2. /\ spi' \in [cur : Users \cup {NoConfig}, tx : Nat, rx : Nat, ena : BOOLEAN]
        /\ spi'.cur = u /\ spi'.tx = Less(a, m + 1 + 1) /\ spi'.rx = Less(b, m + 1)
    <3>1. Less(a, m + 1 + 1) \in Nat /\ Less(b, m + 1) \in Nat
      BY <1>1 DEF Less
    <3>2. spi' = [[spi EXCEPT !.tx = Less(a, m + 1 + 1)] EXCEPT !.rx = Less(b, m + 1)]
      BY <1>1, <1>3, <2>1 DEF get_rx, snd_spi
    <3> HIDE DEF a, b
    <3> QED
      BY <1>1, <1>2, <3>1, <3>2
  <2>3. (IF spi.tx > 0 THEN a - spi.tx + 1 ELSE 0) = Unit(n, m + 1 + 1)
    BY <1>1, <1>3 DEF Unit
  <2>4. dev' = [[[dev EXCEPT !.tdbr = Unit(n, m + 1 + 1)]
                  EXCEPT !.full = FALSE] EXCEPT !.shift = TRUE]
    BY <1>1, <1>2, <2>1, <2>3 DEF send, read_RDBR, snd_dev
  <2>5. /\ dev' \in [on : BOOLEAN, tdbr : Nat, shift : BOOLEAN, full : BOOLEAN]
        /\ dev'.on /\ dev'.shift /\ ~dev'.full /\ dev'.tdbr = Unit(n, m + 1 + 1)
    <3>1. Unit(n, m + 1 + 1) \in Nat
      BY <1>1 DEF Unit
    <3> QED
      BY <1>1, <1>2, <2>4, <3>1
  <2>6. m + 1 < Longer(n)
    BY <1>1, <1>2, <1>4, <1>9 DEF Longer
  <2>7. Going(u, n, m + 1)'
    BY <1>6, <1>7, <2>2, <2>5, <2>6 DEF Going
  <2> QED
    BY <1>9, <2>2, <2>5, <2>7
<1> QED
  BY <1>8, <1>9

(* The two semaphores of the driver. *)
LEMMA TwoSemaphores ==
  /\ SPI_DEVICE_SEM \in Sem /\ SPI_COMPLETE_SIG \in Sem /\ SPI_DEVICE_SEM # SPI_COMPLETE_SIG
  /\ SPI_DEVICE_SEM \in WObj /\ SPI_COMPLETE_SIG \in WObj
  /\ SPI_DEVICE_SEM # NULL /\ SPI_COMPLETE_SIG # NULL
  /\ NULL \notin SpiUser /\ SpiUser \subseteq Task /\ NoConfig \notin Users
  BY SpiAssumption, SemAssumption, WObjAssumption, TaskAssumption DEF Users

(* Who calls the driver does not wait; before the kernel is in operation   *)
(* it is an initialisation routine.                                        *)
LEMMA Caller ==
  ASSUME SpiIInv, NEW l, at(l)
  PROVE  /\ caller \in Users /\ pc[caller] \in l
         /\ iniflg => /\ TSKCTX_UNL /\ caller = runtsk /\ caller \in SpiUser /\ caller \in Task
                      /\ ~WAITING(k, caller) /\ k.tcb[caller].wobj = NULL
         /\ ~iniflg => caller = NULL
<1>1. caller \in Users /\ pc[caller] \in l
  BY DEF at
<1>2. CASE iniflg
  <2>1. TSKCTX_UNL /\ runtsk # NULL /\ caller = runtsk
    BY <1>2 DEF at, TSKCTX_UNL, TSKCTX, caller
  <2>2. caller \in SpiUser /\ caller \in Task
    BY <1>1, <2>1, TwoSemaphores DEF Users
  <2>3. ~WAITING(k, runtsk) /\ k.tcb[runtsk].wobj = NULL
    BY <2>1, RunningWaits DEF SpiIInv, SemIInv
  <2> QED
    BY <1>1, <1>2, <2>1, <2>2, <2>3
<1>3. CASE ~iniflg
  BY <1>1, <1>3 DEF caller
<1> QED
  BY <1>2, <1>3

(* One user has the bus; the driver is in the phase that its place says.   *)
LEMMA TheHolder ==
  ASSUME SpiIInv, NEW u \in Users, Holder(u)
  PROVE  /\ Phase(u) /\ \A v \in Users \ {u} : ~Holder(v)
         /\ u \in SpiUser => iniflg /\ semcnt[SPI_DEVICE_SEM] = 0
         /\ u \notin SpiUser => u = NULL /\ ~iniflg
<1>1. Phase(u) /\ \A v \in Users \ {u} : ~Holder(v)
  <2>1. PICK v \in Users : Holder(v) /\ Phase(v) /\ \A w \in Users \ {v} : ~Holder(w)
    BY DEF SpiIInv, Work
  <2>2. v = u
    BY <2>1
  <2> QED
    BY <2>1, <2>2
<1>2. ASSUME u \in SpiUser PROVE iniflg /\ semcnt[SPI_DEVICE_SEM] = 0
  BY <1>2 DEF SpiIInv, SpiTypes, OneBus, HasBus, Holder
<1>3. ASSUME u \notin SpiUser PROVE u = NULL /\ ~iniflg
  BY <1>3 DEF SpiIInv, SpiTypes, Users, Holder
<1> QED
  BY <1>1, <1>2, <1>3

(* Who has the bus goes on, the semaphore of the bus and the tasks being   *)
(* as they were.                                                           *)
LEMMA HolderMoves ==
  ASSUME SpiIInv, SemIInv', k' = k, iniflg' = iniflg,
         semcnt'[SPI_DEVICE_SEM] = semcnt[SPI_DEVICE_SEM],
         NEW u \in Users, Holder(u), NEW l,
         pc' = [pc EXCEPT ![u] = l] \/ (pc' = pc /\ l = pc[u]),
         u = NULL => l \in NullPlaces, u \in SpiUser => l \in UserPlaces,
         l \notin {"out", "opening"},
         l # pc[u] /\ u \in SpiUser => ~WAITING(k, u) /\ l # "waiting",
         job' \in [Users -> Nat \X Nat],
         spi' \in [cur : Users \cup {NoConfig}, tx : Nat, rx : Nat, ena : BOOLEAN],
         dev' \in [on : BOOLEAN, tdbr : Nat, shift : BOOLEAN, full : BOOLEAN],
         Phase(u)'
  PROVE  SpiIInv'
<1>1. /\ DOMAIN pc = Users /\ pc'[u] = l /\ \A v \in Users \ {u} : pc'[v] = pc[v]
      /\ NULL \in Users /\ SpiUser \subseteq Users
  BY DEF SpiIInv, SpiTypes, Users
<1>2. /\ \A v \in Users : Holder(v)' <=> Holder(v)
      /\ \A v \in SpiUser : HasBus(v)' <=> HasBus(v)
  BY <1>1 DEF Holder, HasBus
<1>3. SpiTypes'
  <2>1. u = NULL => ~iniflg
    BY TwoSemaphores, TheHolder
  <2>2. u \in SpiUser => iniflg
    BY TheHolder
  <2>3. pc'[NULL] \in NullPlaces /\ \A v \in SpiUser : pc'[v] \in UserPlaces
    BY <1>1 DEF SpiIInv, SpiTypes
  <2>4. /\ iniflg' => pc'[NULL] = "out"
        /\ ~iniflg' => \A v \in SpiUser : pc'[v] = "out"
    BY <1>1, <2>1, <2>2 DEF SpiIInv, SpiTypes
  <2>5. DOMAIN pc' = Users
    BY <1>1
  <2> QED
    BY <2>3, <2>4, <2>5 DEF SpiTypes
<1>4. ASSUME NEW t \in Task PROVE SpiTask(t)'
  <2>1. SpiTask(t) /\ k'.tcb[t] = k.tcb[t] /\ (WAITING(k', t) <=> WAITING(k, t))
    BY DEF SpiIInv, WAITING
  <2>2. CASE t \in SpiUser /\ pc'[t] # pc[t]
    <3>1. t = u /\ ~WAITING(k, t) /\ l # "waiting"
      BY <1>1, <2>2
    <3>2. k.tcb[t].wobj # SPI_COMPLETE_SIG
      BY <3>1, TwoSemaphores, WaitsFor DEF SpiIInv, SemIInv
    <3>3. k.tcb[t].wobj # SPI_DEVICE_SEM
      BY <3>1, TwoSemaphores, WaitsFor DEF SpiIInv, SemIInv
    <3> QED
      BY <1>1, <2>1, <3>1, <3>2, <3>3 DEF SpiTask
  <2>3. CASE ~(t \in SpiUser /\ pc'[t] # pc[t])
    BY <2>1, <2>3 DEF SpiTask
  <2> QED
    BY <2>2, <2>3
<1>5. OneBus'
  BY <1>2 DEF SpiIInv, OneBus
<1>6. Work'
  <2>1. \A v \in Users \ {u} : ~Holder(v)'
    BY <1>2, TheHolder
  <2> QED
    BY <1>2, <2>1 DEF Work
<1> QED
  BY <1>3, <1>4, <1>5, <1>6 DEF SpiIInv

(* The kernel does something else: no wait of a user of the driver begins  *)
(* or ends.                                                                *)
LEMMA KernelMoves ==
  ASSUME SpiIInv, SemIInv', UNCHANGED <<semcnt, spivars>>,
         iniflg' => pc[NULL] = "out", iniflg => iniflg',
         \A t \in Task : \/ SameWait(k', k, t)
                         \/ k'.tcb[t].wobj = NULL /\ (t \in SpiUser => pc[t] = "out")
  PROVE  SpiIInv'
<1>1. pc' = pc /\ job' = job /\ spi' = spi /\ dev' = dev /\ wire' = wire /\ rxbuf' = rxbuf
  BY DEF spivars
<1>2. \A t \in SpiUser : pc[t] # "out" =>
        (WAITING(k', t) <=> WAITING(k, t)) /\ k'.tcb[t].winfo = k.tcb[t].winfo
  BY TwoSemaphores DEF SameWait
<1>3. SpiTypes'
  BY <1>1 DEF SpiIInv, SpiTypes
<1>4. ASSUME NEW t \in Task PROVE SpiTask(t)'
  <2>1. SpiTask(t)
    BY DEF SpiIInv
  <2>2. CASE SameWait(k', k, t)
    BY <1>1, <2>1, <2>2 DEF SpiTask, SameWait
  <2>3. CASE k'.tcb[t].wobj = NULL /\ (t \in SpiUser => pc[t] = "out")
    BY <1>1, <2>3, TwoSemaphores DEF SpiTask
  <2> QED
    BY <2>2, <2>3
<1>5. \A v \in Users : Holder(v)' <=> Holder(v)
  BY <1>1 DEF Holder
<1>6. OneBus'
  <2>1. \A v \in SpiUser : HasBus(v)' => HasBus(v)
    BY <1>1, <1>2, <1>5 DEF HasBus, Users
  <2> QED
    BY <2>1 DEF SpiIInv, OneBus
<1>7. Work'
  <2>1. CASE Idle /\ NoSignal /\ \A u \in Users : ~Holder(u)
    BY <1>1, <1>5, <2>1 DEF Work, Idle, NoSignal
  <2>2. ASSUME NEW u \in Users, Holder(u), Phase(u), \A v \in Users \ {u} : ~Holder(v)
        PROVE  Work'
    <3>1. Phase(u)'
      <4>1. pc[u] = "waiting" => u \in SpiUser
        BY DEF SpiIInv, SpiTypes, NullPlaces, Users
      <4>2. pc[u] = "waiting" => (WAITING(k', u) <=> WAITING(k, u))
        BY <1>2, <4>1
      <4>3. /\ Prepared(u, job[u])' <=> Prepared(u, job[u])
            /\ Started(u, job[u])' <=> Started(u, job[u])
            /\ GoesOn(u, job[u])' <=> GoesOn(u, job[u])
            /\ Finished(job[u])' <=> Finished(job[u])
        BY <1>1 DEF Prepared, Started, GoesOn, Going, Finished, Wired, Stored, Idle
      <4>4. (Idle' <=> Idle) /\ (NoSignal' <=> NoSignal) /\ semcnt' = semcnt
        BY <1>1 DEF Idle, NoSignal
      <4> QED
        BY <1>1, <2>2, <4>2, <4>3, <4>4 DEF Phase
    <3> QED
      BY <1>5, <2>2, <3>1 DEF Work
  <2> QED
    BY <2>1, <2>2 DEF SpiIInv, Work
<1> QED
  BY <1>3, <1>4, <1>6, <1>7 DEF SpiIInv

(* What a call of the driver on a semaphore does is a step of Semaphore. *)
LEMMA SemaphoreCall ==
  ASSUME SpiIInv, NEW s \in Sem,
         sig_sem(s) \/ isig_sem(s) \/ \E tm \in {"none", "wait_tmout"} : twai_sem(s, tm)
  PROVE  SemIInv'
<1>1. SemCallsOf(s)
  BY DEF SemCallsOf
<1> QED
  BY <1>1, SemNextInv DEF SemNext, SemCalls, SpiIInv

(* A unit is taken, or the caller waits for one. *)
LEMMA TakeOrWait ==
  ASSUME SpiIInv, NEW s \in Sem, NEW tm \in {"none", "wait_tmout"}, twai_sem(s, tm)
  PROVE  /\ iniflg' = iniflg /\ iniflg /\ SemIInv'
         /\ \/ semcnt[s] >= 1 /\ k' = k /\ semcnt' = [semcnt EXCEPT ![s] = semcnt[s] - 1]
            \/ /\ semcnt[s] < 1 /\ semcnt' = semcnt /\ Others(k', k, runtsk)
               /\ WAITING(k', runtsk) /\ k'.tcb[runtsk].wobj = s
<1>1. SemIInv' /\ KernelInvs /\ CAN_WAIT /\ s \in WObj
  BY SemaphoreCall, SemAssumption DEF SpiIInv, SemIInv, twai_sem
<1>2. iniflg /\ (take_unit(s) \/ TaskCall(wobj_make_wait_tmout(k, runtsk, s, tm), TRUE)) => iniflg' = iniflg
  BY DEF take_unit, TaskCall
<1>3. iniflg /\ iniflg' = iniflg
  BY <1>1, <1>2 DEF CAN_WAIT, TSKCTX_UNL, TSKCTX, twai_sem
<1>4. CASE take_unit(s)
  BY <1>1, <1>3, <1>4 DEF take_unit, TaskCall
<1>5. CASE /\ semcnt[s] < 1
           /\ TaskCall(wobj_make_wait_tmout(k, runtsk, s, tm), TRUE)
           /\ UNCHANGED semcnt
  BY <1>1, <1>3, <1>5, RunningBlocks
<1> QED
  BY <1>4, <1>5 DEF twai_sem

(* A unit goes to the head of the queue, or to the count. *)
LEMMA GiveOrCount ==
  ASSUME SpiIInv, NEW s \in Sem, sig_sem(s) \/ isig_sem(s)
  PROVE  /\ iniflg' = iniflg /\ iniflg /\ SemIInv'
         /\ \/ /\ k' = k /\ semcnt' = [semcnt EXCEPT ![s] = semcnt[s] + 1]
               /\ \A t \in Task : k.tcb[t].wobj # s
            \/ /\ semcnt' = semcnt
               /\ \E t \in Task :
                    /\ k.tcb[t].wobj = s /\ WAITING(k, t) /\ Others(k', k, t)
                    /\ ~WAITING(k', t) /\ k'.tcb[t].wobj = NULL /\ k'.tcb[t].winfo = "E_OK"
<1>1. SemIInv' /\ KernelInvs /\ s \in WObj
  BY SemaphoreCall, SemAssumption DEF SpiIInv, SemIInv
<1>2. (TSKCTX /\ signal(s, TaskCall)) \/ (INTCTX /\ signal(s, IntCall))
  BY DEF sig_sem, isig_sem, TSKCTX_UNL, INTCTX_UNL
<1>3. iniflg /\ iniflg' = iniflg
  <2>1. iniflg
    BY <1>1, <1>2, CallContext
  <2>2. iniflg' = iniflg
    BY <1>2 DEF signal, TaskCall, IntCall
  <2> QED
    BY <2>1, <2>2
<1>4. CASE k.wait_queue[s] # << >>
  <2> DEFINE t == Head(k.wait_queue[s])
             k1 == [k EXCEPT !.wait_queue[s] = Tail(@)]
             k2 == wait_complete(k1, t)
             disp == Disp(make_non_wait_ret(k, t))
  <2>1. semcnt' = semcnt
    BY <1>2, <1>4 DEF signal
  <2>2. (TSKCTX /\ TaskCall(k2, disp)) \/ (INTCTX /\ IntCall(k2, disp))
    BY <1>2, <1>4 DEF signal
  <2>3. /\ t \in Task /\ k.tcb[t].wobj = s /\ WAITING(k, t) /\ Others(k', k, t)
        /\ ~WAITING(k', t) /\ k'.tcb[t].wobj = NULL /\ k'.tcb[t].winfo = "E_OK"
    BY <1>1, <1>4, <2>2, HeadWakes
  <2> HIDE DEF t
  <2> QED
    BY <1>1, <1>3, <2>1, <2>3
<1>5. CASE k.wait_queue[s] = << >>
  <2>1. k' = k /\ semcnt' = [semcnt EXCEPT ![s] = semcnt[s] + 1]
    BY <1>2, <1>5 DEF signal, TaskCall, IntCall
  <2>2. \A t \in Task : k.tcb[t].wobj # s
    BY <1>1, <1>5, WaitsFor
  <2> QED
    BY <1>1, <1>3, <2>1, <2>2
<1> QED
  BY <1>4, <1>5

(* A phase does not change with what is not part of it. *)
LEMMA SamePhase ==
  ASSUME SpiIInv, NEW u \in Users, Phase(u), UNCHANGED <<job, spi, dev, wire, rxbuf>>,
         semcnt'[SPI_COMPLETE_SIG] = semcnt[SPI_COMPLETE_SIG], pc'[u] = pc[u],
         pc[u] = "waiting" => (WAITING(k', u) <=> WAITING(k, u))
  PROVE  Phase(u)'
<1>1. /\ Prepared(u, job[u])' <=> Prepared(u, job[u])
      /\ Started(u, job[u])' <=> Started(u, job[u])
      /\ GoesOn(u, job[u])' <=> GoesOn(u, job[u])
      /\ Finished(job[u])' <=> Finished(job[u])
  BY DEF Prepared, Started, GoesOn, Going, Finished, Wired, Stored, Idle
<1>2. Idle' <=> Idle
  BY DEF Idle
<1> QED
  BY <1>1, <1>2 DEF Phase, NoSignal

(* Nor does what is known of a task. *)
LEMMA SameTask ==
  ASSUME NEW t \in Task, SpiTask(t), SameWait(k', k, t), t \in SpiUser => pc'[t] = pc[t]
  PROVE  SpiTask(t)'
  BY DEF SpiTask, SameWait

(* The bus is taken, or given back, by u; nobody waits for it. *)
LEMMA TakesOrLeaves ==
  ASSUME SpiIInv, SemIInv', k' = k, iniflg' = iniflg, UNCHANGED <<job, spi, dev, wire, rxbuf>>,
         semcnt'[SPI_COMPLETE_SIG] = semcnt[SPI_COMPLETE_SIG],
         NEW u \in Users, NEW l \in {"out", "open"}, pc' = [pc EXCEPT ![u] = l],
         Idle, NoSignal, \A v \in Users \ {u} : ~Holder(v),
         u \in SpiUser => /\ iniflg /\ ~WAITING(k, u)
                          /\ semcnt'[SPI_DEVICE_SEM] = (IF l = "out" THEN 1 ELSE 0)
                          /\ \A v \in SpiUser \ {u} : ~HasBus(v),
         u \notin SpiUser => ~iniflg /\ semcnt'[SPI_DEVICE_SEM] = semcnt[SPI_DEVICE_SEM]
  PROVE  SpiIInv'
<1>1. /\ DOMAIN pc = Users /\ pc'[u] = l /\ \A v \in Users \ {u} : pc'[v] = pc[v]
      /\ NULL \in Users /\ SpiUser \subseteq Users /\ (u \notin SpiUser => u = NULL)
  BY DEF SpiIInv, SpiTypes, Users
<1>2. Idle' /\ NoSignal'
  BY DEF Idle, NoSignal
<1>3. SpiTypes'
  <2>1. pc'[NULL] \in NullPlaces /\ \A v \in SpiUser : pc'[v] \in UserPlaces
    BY <1>1 DEF SpiIInv, SpiTypes, NullPlaces, UserPlaces
  <2>2. /\ iniflg' => pc'[NULL] = "out"
        /\ ~iniflg' => \A v \in SpiUser : pc'[v] = "out"
    BY <1>1, TwoSemaphores DEF SpiIInv, SpiTypes
  <2>3. DOMAIN pc' = Users
    BY <1>1
  <2> QED
    BY <2>1, <2>2, <2>3 DEF SpiIInv, SpiTypes
<1>4. ASSUME NEW t \in Task PROVE SpiTask(t)'
  <2>1. SpiTask(t) /\ SameWait(k', k, t)
    BY DEF SpiIInv, SameWait
  <2>2. CASE t = u /\ t \in SpiUser
    <3>1. k.tcb[t].wobj # SPI_COMPLETE_SIG /\ k.tcb[t].wobj # SPI_DEVICE_SEM
      BY <2>2, TwoSemaphores, WaitsFor DEF SpiIInv, SemIInv
    <3> QED
      BY <1>1, <2>2, <3>1 DEF SpiTask
  <2>3. CASE ~(t = u /\ t \in SpiUser)
    BY <1>1, <2>1, <2>3, SameTask
  <2> QED
    BY <2>2, <2>3
<1>5. OneBus'
  <2>1. CASE u \in SpiUser
    <3>1. \A v \in SpiUser \ {u} : ~HasBus(v)'
      BY <1>1, <2>1 DEF HasBus, Holder
    <3>2. l = "out" => ~HasBus(u)'
      BY <1>1 DEF HasBus, Holder
    <3> QED
      BY <2>1, <3>1, <3>2 DEF OneBus
  <2>2. CASE u \notin SpiUser
    <3>1. \A v \in SpiUser : HasBus(v)' <=> HasBus(v)
      BY <1>1, <2>2 DEF HasBus, Holder
    <3> QED
      BY <2>2, <3>1 DEF OneBus, SpiIInv
  <2> QED
    BY <2>1, <2>2
<1>6. Work'
  <2>1. \A v \in Users \ {u} : ~Holder(v)'
    BY <1>1 DEF Holder
  <2>2. CASE l = "out"
    <3>1. ~Holder(u)'
      BY <1>1, <2>2 DEF Holder
    <3> QED
      BY <1>2, <2>1, <3>1 DEF Work
  <2>3. CASE l = "open"
    <3>1. Holder(u)' /\ Phase(u)'
      BY <1>1, <1>2, <2>3 DEF Holder, Phase
    <3> QED
      BY <2>1, <3>1 DEF Work
  <2> QED
    BY <2>2, <2>3
<1> QED
  BY <1>3, <1>4, <1>5, <1>6 DEF SpiIInv

(* Nobody has the bus. *)
LEMMA Nobody ==
  ASSUME SpiIInv, iniflg => \A v \in SpiUser : ~Holder(v), ~iniflg => ~Holder(NULL)
  PROVE  Idle /\ NoSignal /\ \A v \in Users : ~Holder(v)
<1>1. \A v \in Users : ~Holder(v)
  BY DEF SpiIInv, SpiTypes, Users, Holder
<1> QED
  BY <1>1 DEF SpiIInv, Work

(* kzdev_spi_open *)
LEMMA OpenInv ==
  ASSUME SpiIInv, kzdev_spi_open
  PROVE  SpiIInv'
<1> PICK u \in Users : u = caller
  BY Caller DEF kzdev_spi_open
<1> DEFINE D == SPI_DEVICE_SEM
           l == IF iniflg /\ semcnt[D] < 1 THEN "opening" ELSE "open"
<1>1. /\ pc[u] = "out" /\ UNCHANGED <<job, spi, dev, wire, rxbuf>>
      /\ pc' = [pc EXCEPT ![u] = l]
      /\ D \in Sem /\ SPI_COMPLETE_SIG # D /\ SPI_COMPLETE_SIG \in Sem
  BY Caller, TwoSemaphores DEF kzdev_spi_open, spi_goto
<1>2. semcnt \in [Sem -> Nat]
  BY DEF SpiIInv, SemIInv
<1>3. CASE ~iniflg
  <2>1. u = NULL /\ u \notin SpiUser
    BY <1>3, TwoSemaphores, Caller DEF kzdev_spi_open
  <2>2. UNCHANGED semvars /\ l = "open"
    BY <1>3 DEF kzdev_spi_open
  <2>3. SemIInv' /\ k' = k /\ iniflg' = iniflg /\ semcnt' = semcnt
    BY <2>2, SemNextInv DEF SpiIInv, semvars, kvars
  <2>4. Idle /\ NoSignal /\ \A v \in Users : ~Holder(v)
    BY <1>1, <1>3, <2>1, Nobody DEF Holder
  <2> QED
    BY <1>1, <1>3, <2>1, <2>2, <2>3, <2>4, TakesOrLeaves
<1>4. CASE iniflg
  <2>1. twai_sem(D, "none") /\ u = runtsk /\ u \in SpiUser /\ u \in Task /\ ~WAITING(k, u)
    BY <1>4, Caller DEF kzdev_spi_open
  <2>2. CASE semcnt[D] >= 1 /\ k' = k /\ semcnt' = [semcnt EXCEPT ![D] = semcnt[D] - 1]
    <3>1. \A v \in SpiUser : ~HasBus(v)
      BY <1>2, <2>2 DEF SpiIInv, OneBus
    <3>2. Idle /\ NoSignal /\ \A v \in Users : ~Holder(v)
      BY <1>4, <3>1, Nobody DEF HasBus
    <3>3. l = "open" /\ semcnt'[D] = 0 /\ semcnt'[SPI_COMPLETE_SIG] = semcnt[SPI_COMPLETE_SIG]
      BY <1>1, <1>2, <2>2 DEF SpiIInv, OneBus
    <3>4. iniflg' = iniflg /\ SemIInv'
      BY <1>1, <2>1, TakeOrWait
    <3> QED
      BY <1>1, <1>4, <2>1, <2>2, <3>1, <3>2, <3>3, <3>4, TakesOrLeaves
  <2>3. CASE /\ semcnt[D] < 1 /\ semcnt' = semcnt /\ Others(k', k, runtsk)
             /\ WAITING(k', runtsk) /\ k'.tcb[runtsk].wobj = D
    <3>1. /\ iniflg' = iniflg /\ SemIInv'
          /\ pc'[u] = "opening" /\ \A v \in Users \ {u} : pc'[v] = pc[v]
          /\ DOMAIN pc' = Users /\ NULL # u /\ NULL \in Users /\ SpiUser \subseteq Users
      BY <1>1, <1>4, <2>1, <2>3, TakeOrWait, TwoSemaphores DEF SpiIInv, SpiTypes, Users
    <3>2. \A v \in Users : Holder(v)' <=> Holder(v)
      BY <1>1, <3>1 DEF Holder
    <3>3. \A v \in SpiUser : HasBus(v)' => HasBus(v)
      <4>1. \A v \in SpiUser \ {u} : WAITING(k', v) <=> WAITING(k, v)
        BY <2>1, <2>3, TwoSemaphores DEF Others, SameWait
      <4>2. \A v \in SpiUser \ {u} : HasBus(v)' => HasBus(v)
        BY <3>1, <3>2, <4>1 DEF HasBus
      <4>3. ~HasBus(u)'
        BY <2>1, <2>3, <3>1 DEF HasBus, Holder
      <4> QED
        BY <4>2, <4>3
    <3>4. SpiTypes'
      BY <1>1, <1>4, <3>1 DEF SpiIInv, SpiTypes, UserPlaces
    <3>5. OneBus'
      BY <2>3, <3>3 DEF SpiIInv, OneBus
    <3>6. ASSUME NEW t \in Task PROVE SpiTask(t)'
      <4>1. CASE t = u
        BY <1>1, <2>1, <2>3, <3>1, <4>1 DEF SpiTask
      <4>2. CASE t # u
        <5>1. SameWait(k', k, t) /\ SpiTask(t)
          BY <2>1, <2>3, <4>2 DEF Others, SpiIInv
        <5> QED
          BY <3>1, <4>2, <5>1, SameTask
      <4> QED
        BY <4>1, <4>2
    <3>7. Work'
      <4>1. CASE Idle /\ NoSignal /\ \A v \in Users : ~Holder(v)
        BY <1>1, <2>3, <3>2, <4>1 DEF Work, Idle, NoSignal
      <4>2. ASSUME NEW v \in Users, Holder(v), Phase(v), \A w \in Users \ {v} : ~Holder(w)
            PROVE  Work'
        <5>1. v # u /\ pc'[v] = pc[v]
          BY <1>1, <3>1, <4>2 DEF Holder
        <5>2. v \in SpiUser
          BY <1>4, <4>2, TheHolder
        <5>3. WAITING(k', v) <=> WAITING(k, v)
          BY <2>1, <2>3, <5>1, <5>2, TwoSemaphores DEF Others, SameWait
        <5>4. Phase(v)'
          BY <1>1, <2>3, <4>2, <5>1, <5>3, SamePhase
        <5> QED
          BY <3>2, <4>2, <5>4 DEF Work
      <4> QED
        BY <4>1, <4>2 DEF SpiIInv, Work
    <3> QED
      BY <3>1, <3>4, <3>5, <3>6, <3>7 DEF SpiIInv
  <2> QED
    BY <1>1, <2>1, <2>2, <2>3, TakeOrWait
<1> QED
  BY <1>3, <1>4

(* open_return *)
LEMMA OpenReturnInv ==
  ASSUME SpiIInv, open_return
  PROVE  SpiIInv'
<1> PICK u \in Users : u = caller
  BY Caller DEF open_return
<1>1. /\ pc[u] = "opening" /\ UNCHANGED <<semvars, job, spi, dev, wire, rxbuf>>
      /\ pc' = [pc EXCEPT ![u] = "open"]
  BY Caller DEF open_return, spi_goto
<1>2. SemIInv' /\ k' = k /\ iniflg' = iniflg /\ semcnt' = semcnt
  BY <1>1, SemNextInv DEF SpiIInv, semvars, kvars
<1>3. u \in SpiUser /\ iniflg /\ ~WAITING(k, u)
  <2>1. u # NULL
    BY <1>1 DEF SpiIInv, SpiTypes, NullPlaces
  <2> QED
    BY <2>1, Caller DEF open_return
<1>4. HasBus(u) /\ \A v \in SpiUser \ {u} : ~HasBus(v)
  BY <1>1, <1>3 DEF HasBus, SpiIInv, OneBus
<1>5. semcnt[SPI_DEVICE_SEM] = 0 /\ \A v \in SpiUser : ~Holder(v)
  BY <1>1, <1>3, <1>4 DEF SpiIInv, OneBus, HasBus, Holder
<1>6. Idle /\ NoSignal /\ \A v \in Users : ~Holder(v)
  BY <1>3, <1>5, Nobody
<1> QED
  BY <1>1, <1>2, <1>3, <1>4, <1>5, <1>6, TakesOrLeaves

(* Who has the bus and has no transfer going on finds the device idle.     *)
LEMMA IdleHolder ==
  ASSUME SpiIInv, NEW u \in Users, pc[u] \in {"open", "done"}
  PROVE  Holder(u) /\ Idle /\ NoSignal
<1>1. Holder(u)
  BY DEF Holder
<1>2. Phase(u)
  BY <1>1, TheHolder
<1> QED
  BY <1>1, <1>2 DEF Phase, Finished

(* kzdev_spi_close *)
LEMMA CloseInv ==
  ASSUME SpiIInv, kzdev_spi_close
  PROVE  SpiIInv'
<1> PICK u \in Users : u = caller
  BY Caller DEF kzdev_spi_close
<1> DEFINE D == SPI_DEVICE_SEM
<1>1. /\ pc[u] \in {"open", "done"} /\ UNCHANGED <<job, spi, dev, wire, rxbuf>>
      /\ pc' = [pc EXCEPT ![u] = "out"]
      /\ D \in Sem /\ SPI_COMPLETE_SIG # D /\ SPI_COMPLETE_SIG \in Sem
  BY Caller, TwoSemaphores DEF kzdev_spi_close, spi_goto
<1>2. semcnt \in [Sem -> Nat]
  BY DEF SpiIInv, SemIInv
<1>3. Holder(u) /\ Idle /\ NoSignal /\ \A v \in Users \ {u} : ~Holder(v)
  BY <1>1, IdleHolder, TheHolder
<1>4. CASE ~iniflg
  <2>1. u = NULL /\ u \notin SpiUser
    BY <1>4, TwoSemaphores, Caller DEF kzdev_spi_close
  <2>2. UNCHANGED semvars
    BY <1>4 DEF kzdev_spi_close
  <2>3. SemIInv' /\ k' = k /\ iniflg' = iniflg /\ semcnt' = semcnt
    BY <2>2, SemNextInv DEF SpiIInv, semvars, kvars
  <2> QED
    BY <1>1, <1>3, <1>4, <2>1, <2>3, TakesOrLeaves
<1>5. CASE iniflg
  <2>1. sig_sem(D) /\ u = runtsk /\ u \in SpiUser /\ u \in Task /\ ~WAITING(k, u)
    BY <1>5, Caller DEF kzdev_spi_close
  <2>2. HasBus(u) /\ semcnt[D] = 0 /\ \A v \in SpiUser \ {u} : ~HasBus(v)
    BY <1>3, <2>1 DEF HasBus, SpiIInv, OneBus
  <2>3. iniflg' = iniflg /\ SemIInv'
    BY <1>1, <2>1, GiveOrCount
  <2>4. CASE k' = k /\ semcnt' = [semcnt EXCEPT ![D] = semcnt[D] + 1]
    <3>1. semcnt'[D] = 1 /\ semcnt'[SPI_COMPLETE_SIG] = semcnt[SPI_COMPLETE_SIG]
      BY <1>1, <1>2, <2>2, <2>4
    <3> QED
      BY <1>1, <1>3, <1>5, <2>1, <2>2, <2>3, <2>4, <3>1, TakesOrLeaves
  <2>5. ASSUME semcnt' = semcnt, NEW t \in Task, k.tcb[t].wobj = D, WAITING(k, t),
               Others(k', k, t), ~WAITING(k', t), k'.tcb[t].wobj = NULL
        PROVE  SpiIInv'
    <3>1. t \in SpiUser /\ pc[t] = "opening" /\ t # u
      BY <1>1, <2>5 DEF SpiIInv, SpiTask
    <3>2. /\ pc'[u] = "out" /\ \A v \in Users \ {u} : pc'[v] = pc[v]
          /\ DOMAIN pc' = Users /\ NULL # u /\ NULL \in Users /\ SpiUser \subseteq Users
      BY <1>1, <2>1, TwoSemaphores DEF SpiIInv, SpiTypes, Users
    <3>3. \A v \in Users : ~Holder(v)'
      BY <1>3, <3>2 DEF Holder
    <3>4. \A v \in SpiUser \ {t} : ~HasBus(v)'
      <4>1. ~HasBus(u)'
        BY <3>2 DEF HasBus, Holder
      <4>2. ASSUME NEW v \in SpiUser \ {t, u} PROVE ~HasBus(v)'
        <5>1. pc'[v] = pc[v] /\ (WAITING(k', v) <=> WAITING(k, v))
          BY <2>5, <3>2, TwoSemaphores DEF Others, SameWait
        <5> QED
          BY <2>2, <5>1 DEF HasBus, Holder
      <4> QED
        BY <4>1, <4>2
    <3>5. SpiTypes'
      BY <1>1, <1>5, <2>3, <3>2 DEF SpiIInv, SpiTypes, UserPlaces
    <3>6. OneBus'
      BY <2>2, <2>5, <3>4 DEF OneBus
    <3>7. ASSUME NEW s \in Task PROVE SpiTask(s)'
      <4>1. CASE s = t
        BY <2>5, <3>1, <3>2, <4>1, TwoSemaphores DEF SpiTask
      <4>2. CASE s = u
        <5>1. k.tcb[s].wobj # SPI_COMPLETE_SIG /\ k.tcb[s].wobj # D
          BY <2>1, <4>2, TwoSemaphores, WaitsFor DEF SpiIInv, SemIInv
        <5>2. k'.tcb[s].wobj = k.tcb[s].wobj
          BY <2>5, <3>1, <4>2 DEF Others, SameWait
        <5> QED
          BY <3>2, <4>2, <5>1, <5>2 DEF SpiTask
      <4>3. CASE s # t /\ s # u
        <5>1. SameWait(k', k, s) /\ SpiTask(s)
          BY <2>5, <4>3 DEF Others, SpiIInv
        <5> QED
          BY <3>2, <4>3, <5>1, SameTask
      <4> QED
        BY <4>1, <4>2, <4>3
    <3>8. Idle' /\ NoSignal'
      BY <1>1, <1>3, <2>5 DEF Idle, NoSignal
    <3>9. Work'
      BY <3>3, <3>8 DEF Work
    <3> QED
      BY <2>3, <3>5, <3>6, <3>7, <3>9 DEF SpiIInv
  <2> QED
    BY <1>1, <2>1, <2>4, <2>5, GiveOrCount
<1> QED
  BY <1>4, <1>5

(* kzdev_spi_readwrite *)
LEMMA ReadWriteInv ==
  ASSUME SpiIInv, NEW n \in Transfer, kzdev_spi_readwrite(n)
  PROVE  SpiIInv'
<1> PICK u \in Users : u = caller
  BY Caller DEF kzdev_spi_readwrite
<1>1. /\ pc[u] \in {"open", "done"} /\ UNCHANGED semvars
      /\ pc' = [pc EXCEPT ![u] = "starting"] /\ job' = [job EXCEPT ![u] = n]
      /\ spi' = [spi EXCEPT !.cur = u, !.tx = n[1], !.rx = n[2]]
      /\ dev' = read_RDBR(dev) /\ wire' = << >> /\ rxbuf' = << >>
  BY Caller DEF kzdev_spi_readwrite, spi_goto
<1>2. n \in Nat \X Nat /\ Longer(n) > 0
  BY SpiAssumption DEF Longer
<1>3. SemIInv' /\ k' = k /\ iniflg' = iniflg /\ semcnt' = semcnt
  BY <1>1, SemNextInv DEF SpiIInv, semvars, kvars
<1>4. Holder(u) /\ Idle /\ NoSignal
  BY <1>1, IdleHolder
<1>5. /\ DOMAIN pc = Users /\ job \in [Users -> Nat \X Nat]
      /\ spi \in [cur : Users \cup {NoConfig}, tx : Nat, rx : Nat, ena : BOOLEAN]
      /\ dev \in [on : BOOLEAN, tdbr : Nat, shift : BOOLEAN, full : BOOLEAN]
  BY DEF SpiIInv, SpiTypes
<1>6. /\ spi' \in [cur : Users \cup {NoConfig}, tx : Nat, rx : Nat, ena : BOOLEAN]
      /\ spi'.cur = u /\ spi'.tx = n[1] /\ spi'.rx = n[2]
  <2>1. n[1] \in Nat /\ n[2] \in Nat
    BY <1>2
  <2> QED
    BY <1>1, <1>5, <2>1
<1>7. /\ dev' \in [on : BOOLEAN, tdbr : Nat, shift : BOOLEAN, full : BOOLEAN]
      /\ ~dev'.on /\ ~dev'.shift /\ ~dev'.full
  BY <1>1, <1>4, <1>5 DEF Idle, read_RDBR
<1>8. job' \in [Users -> Nat \X Nat] /\ job'[u] = n
  BY <1>1, <1>2, <1>5
<1>9. Wired(n, 0)' /\ Stored(n, 0)'
  <2>1. Lower(0, n[2]) = 0
    BY <1>2 DEF Lower
  <2>2. wire' = [i \in 1 .. 0 |-> Unit(n, i)] /\ rxbuf' = [i \in 1 .. 0 |-> i]
    BY <1>1
  <2> QED
    BY <2>1, <2>2 DEF Wired, Stored
<1>10. Phase(u)'
  <2>1. Prepared(u, n)'
    BY <1>2, <1>6, <1>7, <1>9 DEF Prepared
  <2>2. pc'[u] = "starting"
    BY <1>1, <1>5
  <2> QED
    BY <1>3, <1>4, <1>8, <2>1, <2>2 DEF Phase, NoSignal
<1>11. u \in SpiUser => ~WAITING(k, u)
  BY TwoSemaphores, Caller, TheHolder, <1>4 DEF kzdev_spi_readwrite
<1> DEFINE l == "starting"
<1>12. /\ pc' = [pc EXCEPT ![u] = l] /\ l \in NullPlaces /\ l \in UserPlaces
       /\ l \notin {"out", "opening"} /\ l # "waiting"
  BY <1>1 DEF NullPlaces, UserPlaces
<1> HIDE DEF l
<1>13. semcnt'[SPI_DEVICE_SEM] = semcnt[SPI_DEVICE_SEM]
  BY <1>3
<1> QED
  BY <1>3, <1>4, <1>6, <1>7, <1>8, <1>10, <1>11, <1>12, <1>13, HolderMoves

(* spi_start *)
LEMMA SpiStartInv ==
  ASSUME SpiIInv, spi_start
  PROVE  SpiIInv'
<1> PICK u \in Users : u = caller
  BY Caller DEF spi_start
<1> DEFINE l == "trigger"
<1>1. /\ pc[u] = "starting" /\ UNCHANGED <<semvars, job, wire, rxbuf>>
      /\ pc' = [pc EXCEPT ![u] = l]
      /\ dev' = snd_dev([dev EXCEPT !.on = TRUE], spi, job[spi.cur][1])
      /\ spi' = snd_spi(spi)
  BY Caller DEF spi_start, spi_goto
<1>2. SemIInv' /\ k' = k /\ iniflg' = iniflg /\ semcnt' = semcnt
  BY <1>1, SemNextInv DEF SpiIInv, semvars, kvars
<1>3. /\ DOMAIN pc = Users /\ job \in [Users -> Nat \X Nat]
      /\ spi \in [cur : Users \cup {NoConfig}, tx : Nat, rx : Nat, ena : BOOLEAN]
      /\ dev \in [on : BOOLEAN, tdbr : Nat, shift : BOOLEAN, full : BOOLEAN]
  BY DEF SpiIInv, SpiTypes
<1> PICK n \in Nat \X Nat : n = job[u]
  BY <1>3
<1>4. Holder(u) /\ Prepared(u, n) /\ NoSignal
  <2>1. Holder(u)
    BY <1>1 DEF Holder
  <2> QED
    BY <1>1, <2>1, TheHolder DEF Phase
<1>5. n[1] \in Nat /\ n[2] \in Nat /\ spi.cur = u /\ spi.tx = n[1] /\ spi.rx = n[2]
  BY <1>3, <1>4 DEF Prepared
<1>6. Max({n[1] - 1, 0}) = Less(n[1], 1) /\ Less(n[1], 1) \in Nat
  <2>1. Max({Less(n[1], 0) - 1, 0}) = Less(n[1], 0 + 1) /\ Less(n[1], 0) = n[1]
    BY <1>5, Countdown
  <2>2. Less(n[1], 1) \in Nat
    BY <1>5 DEF Less
  <2>3. 0 + 1 = 1
    OBVIOUS
  <2> QED
    BY <2>1, <2>2, <2>3
<1> HIDE DEF l
<1>7. /\ spi' \in [cur : Users \cup {NoConfig}, tx : Nat, rx : Nat, ena : BOOLEAN]
      /\ spi'.cur = u /\ spi'.tx = Less(n[1], 1) /\ spi'.rx = n[2]
  <2>1. spi' = [spi EXCEPT !.tx = Less(n[1], 1)]
    <3>1. Max({spi.tx - 1, 0}) = Less(n[1], 1)
      BY <1>5, <1>6
    <3>2. spi' = [spi EXCEPT !.tx = Max({spi.tx - 1, 0})]
      BY <1>1, <1>3 DEF snd_spi
    <3> QED
      BY <3>1, <3>2
  <2> QED
    BY <1>3, <1>5, <1>6, <2>1
<1>8. (IF spi.tx > 0 THEN n[1] - spi.tx + 1 ELSE 0) = Unit(n, 1) /\ Unit(n, 1) \in Nat
  BY <1>5 DEF Unit
<1>9. /\ dev' \in [on : BOOLEAN, tdbr : Nat, shift : BOOLEAN, full : BOOLEAN]
      /\ dev'.on /\ ~dev'.shift /\ ~dev'.full /\ dev'.tdbr = Unit(n, 1)
  <2>1. job[spi.cur][1] = n[1]
    BY <1>5
  <2>2. dev' = [[dev EXCEPT !.on = TRUE] EXCEPT !.tdbr = Unit(n, 1)]
    BY <1>1, <1>3, <1>8, <2>1 DEF snd_dev
  <2> QED
    BY <1>3, <1>4, <1>8, <2>2 DEF Prepared
<1>10. Phase(u)'
  <2>1. Started(u, n)'
    BY <1>1, <1>4, <1>7, <1>9 DEF Started, Prepared, Wired, Stored
  <2>2. pc'[u] = "trigger" /\ job'[u] = n
    BY <1>1, <1>3 DEF l
  <2>3. job'[u] = job[u] /\ NoSignal'
    BY <1>1, <1>2, <1>4 DEF NoSignal
  <2>4. Started(u, job[u])'
    BY <2>1, <2>2
  <2> QED
    BY <2>2, <2>3, <2>4 DEF Phase
<1>11. u \in SpiUser => ~WAITING(k, u)
  BY TwoSemaphores, Caller, TheHolder, <1>4 DEF spi_start
<1>12. /\ l \in NullPlaces /\ l \in UserPlaces
       /\ l \notin {"out", "opening"} /\ l # "waiting"
  BY DEF NullPlaces, UserPlaces, l
<1>13. semcnt'[SPI_DEVICE_SEM] = semcnt[SPI_DEVICE_SEM] /\ job' \in [Users -> Nat \X Nat]
  BY <1>1, <1>2, <1>3
<1> QED
  BY <1>1, <1>2, <1>4, <1>7, <1>9, <1>10, <1>11, <1>12, <1>13, HolderMoves

(* spi_trigger *)
LEMMA TriggerInv ==
  ASSUME SpiIInv, spi_trigger
  PROVE  SpiIInv'
<1> PICK u \in Users : u = caller
  BY Caller DEF spi_trigger
<1> DEFINE l == IF iniflg THEN "enable" ELSE "polling"
<1>1. /\ pc[u] = "trigger" /\ UNCHANGED <<semvars, job, spi, wire, rxbuf>>
      /\ pc' = [pc EXCEPT ![u] = l] /\ dev' = read_RDBR(dev)
  BY Caller DEF spi_trigger, spi_goto
<1>2. SemIInv' /\ k' = k /\ iniflg' = iniflg /\ semcnt' = semcnt
  BY <1>1, SemNextInv DEF SpiIInv, semvars, kvars
<1>3. /\ DOMAIN pc = Users /\ job \in [Users -> Nat \X Nat]
      /\ spi \in [cur : Users \cup {NoConfig}, tx : Nat, rx : Nat, ena : BOOLEAN]
      /\ dev \in [on : BOOLEAN, tdbr : Nat, shift : BOOLEAN, full : BOOLEAN]
  BY DEF SpiIInv, SpiTypes
<1> PICK n \in Nat \X Nat : n = job[u]
  BY <1>3
<1>4. Holder(u) /\ Started(u, n) /\ NoSignal
  <2>1. Holder(u)
    BY <1>1 DEF Holder
  <2> QED
    BY <1>1, <2>1, TheHolder DEF Phase
<1>5. n[1] \in Nat /\ n[2] \in Nat /\ Less(n[2], 0) = n[2] /\ 0 + 1 = 1
  BY <1>3 DEF Less
<1>6. /\ dev' \in [on : BOOLEAN, tdbr : Nat, shift : BOOLEAN, full : BOOLEAN]
      /\ dev'.on /\ dev'.shift /\ ~dev'.full /\ dev'.tdbr = dev.tdbr
  BY <1>1, <1>3, <1>4 DEF Started, read_RDBR
<1>7. Going(u, n, 0)'
  BY <1>1, <1>4, <1>5, <1>6 DEF Going, Started, Wired, Stored
<1>8. GoesOn(u, job[u])'
  <2>1. GoesOn(u, n)'
    BY <1>7 DEF GoesOn
  <2>2. job'[u] = n
    BY <1>1
  <2> QED
    BY <2>1, <2>2 DEF GoesOn
<1>9. Phase(u)'
  <2>1. pc'[u] \in {"polling", "enable", "wait"}
    BY <1>1, <1>3
  <2> QED
    BY <1>2, <1>4, <1>8, <2>1 DEF Phase, NoSignal
<1>10. u \in SpiUser => iniflg /\ ~WAITING(k, u)
  BY TwoSemaphores, Caller, TheHolder, <1>4 DEF spi_trigger
<1>11. /\ u = NULL => l \in NullPlaces
       /\ u \in SpiUser => l \in UserPlaces
       /\ l \notin {"out", "opening"} /\ l # "waiting"
  BY <1>4, <1>10, TwoSemaphores, TheHolder DEF NullPlaces, UserPlaces
<1> HIDE DEF l
<1>12. semcnt'[SPI_DEVICE_SEM] = semcnt[SPI_DEVICE_SEM] /\ job' \in [Users -> Nat \X Nat]
  BY <1>1, <1>2, <1>3
<1>13. spi' \in [cur : Users \cup {NoConfig}, tx : Nat, rx : Nat, ena : BOOLEAN]
  BY <1>1, <1>3
<1> QED
  BY <1>1, <1>2, <1>4, <1>6, <1>9, <1>10, <1>11, <1>12, <1>13, HolderMoves

(* exec_by_polling *)
LEMMA PollingInv ==
  ASSUME SpiIInv, exec_by_polling
  PROVE  SpiIInv'
<1> PICK u \in Users : u = caller
  BY Caller DEF exec_by_polling
<1> DEFINE l == IF transfer_end THEN "done" ELSE "polling"
<1>1. /\ pc[u] = "polling" /\ UNCHANGED <<semvars, job>> /\ rcv_snd /\ dev.full
      /\ pc' = [pc EXCEPT ![u] = l]
  BY Caller DEF exec_by_polling, spi_goto
<1>2. SemIInv' /\ k' = k /\ iniflg' = iniflg /\ semcnt' = semcnt
  BY <1>1, SemNextInv DEF SpiIInv, semvars, kvars
<1>3. DOMAIN pc = Users /\ job \in [Users -> Nat \X Nat] /\ SpiTypes
  BY DEF SpiIInv, SpiTypes
<1>4. Holder(u) /\ GoesOn(u, job[u]) /\ NoSignal
  <2>1. Holder(u)
    BY <1>1 DEF Holder
  <2> QED
    BY <1>1, <2>1, TheHolder DEF Phase
<1> PICK n \in Nat \X Nat : n = job[u]
  BY <1>3
<1> PICK m \in Nat : Going(u, n, m)
  BY <1>4 DEF GoesOn
<1>5. /\ IF transfer_end THEN Finished(n)' ELSE Going(u, n, m + 1)'
      /\ spi' \in [cur : Users \cup {NoConfig}, tx : Nat, rx : Nat, ena : BOOLEAN]
      /\ dev' \in [on : BOOLEAN, tdbr : Nat, shift : BOOLEAN, full : BOOLEAN]
  BY <1>1, <1>3, OneUnit
<1>6. job'[u] = n /\ m + 1 \in Nat
  BY <1>1
<1>7. Phase(u)'
  <2>1. pc'[u] = l
    BY <1>1, <1>3
  <2>2. NoSignal'
    BY <1>2, <1>4 DEF NoSignal
  <2>3. CASE transfer_end
    <3>1. Finished(job[u])'
      BY <1>5, <1>6, <2>3
    <3> QED
      BY <2>1, <2>2, <2>3, <3>1 DEF Phase
  <2>4. CASE ~transfer_end
    <3>1. GoesOn(u, job[u])'
      BY <1>5, <1>6, <2>4 DEF GoesOn
    <3> QED
      BY <2>1, <2>2, <2>4, <3>1 DEF Phase
  <2> QED
    BY <2>3, <2>4
<1>8. u \notin SpiUser
  BY <1>1, <1>3 DEF SpiTypes, UserPlaces
<1>9. /\ u = NULL => l \in NullPlaces
      /\ l \notin {"out", "opening"} /\ l # "waiting"
  BY DEF NullPlaces
<1> HIDE DEF l
<1>10. semcnt'[SPI_DEVICE_SEM] = semcnt[SPI_DEVICE_SEM] /\ job' \in [Users -> Nat \X Nat]
  BY <1>1, <1>2, <1>3
<1> QED
  BY <1>1, <1>2, <1>4, <1>5, <1>7, <1>8, <1>9, <1>10, HolderMoves

(* ena_int *)
LEMMA EnaInv ==
  ASSUME SpiIInv, ena_int
  PROVE  SpiIInv'
<1> PICK u \in Users : u = caller
  BY Caller DEF ena_int
<1> DEFINE l == "wait"
<1>1. /\ pc[u] = "enable" /\ UNCHANGED <<semvars, job, dev, wire, rxbuf>>
      /\ pc' = [pc EXCEPT ![u] = l] /\ spi' = [spi EXCEPT !.ena = TRUE]
  BY Caller DEF ena_int, spi_goto
<1>2. SemIInv' /\ k' = k /\ iniflg' = iniflg /\ semcnt' = semcnt
  BY <1>1, SemNextInv DEF SpiIInv, semvars, kvars
<1>3. /\ DOMAIN pc = Users /\ job \in [Users -> Nat \X Nat]
      /\ spi \in [cur : Users \cup {NoConfig}, tx : Nat, rx : Nat, ena : BOOLEAN]
      /\ dev \in [on : BOOLEAN, tdbr : Nat, shift : BOOLEAN, full : BOOLEAN]
  BY DEF SpiIInv, SpiTypes
<1>4. Holder(u)
  BY <1>1 DEF Holder
<1>5. \/ GoesOn(u, job[u]) /\ NoSignal
      \/ Finished(job[u]) /\ semcnt[SPI_COMPLETE_SIG] = 1
  BY <1>1, <1>4, TheHolder DEF Phase
<1>6. /\ spi' \in [cur : Users \cup {NoConfig}, tx : Nat, rx : Nat, ena : BOOLEAN]
      /\ spi'.cur = spi.cur /\ spi'.tx = spi.tx /\ spi'.rx = spi.rx
  BY <1>1, <1>3
<1>7. /\ GoesOn(u, job[u])' <=> GoesOn(u, job[u])
      /\ Finished(job[u])' <=> Finished(job[u])
  BY <1>1, <1>6 DEF GoesOn, Going, Finished, Wired, Stored, Idle
<1>8. Phase(u)'
  <2>1. pc'[u] = "wait"
    BY <1>1, <1>3
  <2> QED
    BY <1>2, <1>5, <1>7, <2>1 DEF Phase, NoSignal
<1>9. u \in SpiUser => ~WAITING(k, u)
  BY TwoSemaphores, Caller, TheHolder, <1>4 DEF ena_int
<1>10. /\ u # NULL /\ l \in UserPlaces
       /\ l \notin {"out", "opening"} /\ l # "waiting"
  BY <1>1 DEF NullPlaces, UserPlaces, SpiIInv, SpiTypes
<1> HIDE DEF l
<1>11. semcnt'[SPI_DEVICE_SEM] = semcnt[SPI_DEVICE_SEM] /\ job' \in [Users -> Nat \X Nat]
  BY <1>1, <1>2, <1>3
<1>12. dev' \in [on : BOOLEAN, tdbr : Nat, shift : BOOLEAN, full : BOOLEAN]
  BY <1>1, <1>3
<1> QED
  BY <1>1, <1>2, <1>4, <1>6, <1>8, <1>9, <1>10, <1>11, <1>12, HolderMoves

(* exec_by_interrupt *)
LEMMA ExecInv ==
  ASSUME SpiIInv, exec_by_interrupt
  PROVE  SpiIInv'
<1> PICK u \in Users : u = caller
  BY Caller DEF exec_by_interrupt
<1> DEFINE S == SPI_COMPLETE_SIG
           l == IF semcnt[S] >= 1 THEN "done" ELSE "waiting"
<1>1. /\ pc[u] = "wait" /\ UNCHANGED <<job, spi, dev, wire, rxbuf>>
      /\ pc' = [pc EXCEPT ![u] = l] /\ twai_sem(S, "wait_tmout")
      /\ S \in Sem /\ SPI_DEVICE_SEM # S /\ SPI_DEVICE_SEM \in Sem
  BY Caller, TwoSemaphores DEF exec_by_interrupt, spi_goto
<1>2. /\ DOMAIN pc = Users /\ job \in [Users -> Nat \X Nat]
      /\ spi \in [cur : Users \cup {NoConfig}, tx : Nat, rx : Nat, ena : BOOLEAN]
      /\ dev \in [on : BOOLEAN, tdbr : Nat, shift : BOOLEAN, full : BOOLEAN]
      /\ semcnt \in [Sem -> Nat]
  BY DEF SpiIInv, SpiTypes, SemIInv
<1>3. Holder(u) /\ \A v \in Users \ {u} : ~Holder(v)
  BY <1>1, TheHolder DEF Holder
<1>4. \/ GoesOn(u, job[u]) /\ NoSignal
      \/ Finished(job[u]) /\ semcnt[S] = 1
  BY <1>1, <1>3, TheHolder DEF Phase
<1>5. /\ u # NULL /\ u \in SpiUser /\ iniflg /\ u = runtsk /\ u \in Task
      /\ ~WAITING(k, u)
  <2>1. u # NULL
    BY <1>1 DEF SpiIInv, SpiTypes, NullPlaces
  <2> QED
    BY <2>1, Caller DEF exec_by_interrupt
<1>6. iniflg' = iniflg /\ SemIInv'
  BY <1>1, TakeOrWait
<1>7. /\ GoesOn(u, job[u])' <=> GoesOn(u, job[u])
      /\ Finished(job[u])' <=> Finished(job[u])
  BY <1>1 DEF GoesOn, Going, Finished, Wired, Stored, Idle
<1>8. pc'[u] = l
  BY <1>1, <1>2
<1>9. CASE semcnt[S] >= 1 /\ k' = k /\ semcnt' = [semcnt EXCEPT ![S] = semcnt[S] - 1]
  <2>1. Finished(job[u]) /\ semcnt[S] = 1
    BY <1>4, <1>9 DEF NoSignal
  <2>2. l = "done" /\ NoSignal' /\ semcnt'[SPI_DEVICE_SEM] = semcnt[SPI_DEVICE_SEM]
    BY <1>1, <1>2, <1>9, <2>1 DEF NoSignal
  <2>3. Phase(u)'
    BY <1>7, <1>8, <2>1, <2>2 DEF Phase
  <2>4. l \in UserPlaces /\ l \notin {"out", "opening"} /\ l # "waiting"
    BY <2>2 DEF UserPlaces
  <2>5. /\ job' \in [Users -> Nat \X Nat]
        /\ spi' \in [cur : Users \cup {NoConfig}, tx : Nat, rx : Nat, ena : BOOLEAN]
        /\ dev' \in [on : BOOLEAN, tdbr : Nat, shift : BOOLEAN, full : BOOLEAN]
    BY <1>1, <1>2
  <2> HIDE DEF l
  <2> QED
    BY <1>1, <1>3, <1>5, <1>6, <1>9, <2>2, <2>3, <2>4, <2>5, HolderMoves
<1>10. CASE /\ semcnt[S] < 1 /\ semcnt' = semcnt /\ Others(k', k, runtsk)
            /\ WAITING(k', runtsk) /\ k'.tcb[runtsk].wobj = S
  <2>1. GoesOn(u, job[u]) /\ NoSignal /\ l = "waiting"
    BY <1>1, <1>2, <1>4, <1>10
  <2>2. /\ \A v \in Users \ {u} : pc'[v] = pc[v]
        /\ DOMAIN pc' = Users /\ NULL \in Users /\ SpiUser \subseteq Users
    BY <1>1, <1>2 DEF Users
  <2>3. \A v \in Users : Holder(v)' <=> Holder(v)
    BY <1>1, <1>8, <2>1, <2>2 DEF Holder
  <2>4. \A v \in SpiUser : HasBus(v)' <=> HasBus(v)
    <3>1. HasBus(u)' /\ HasBus(u)
      BY <1>3, <2>3 DEF HasBus
    <3>2. \A v \in SpiUser \ {u} : WAITING(k', v) <=> WAITING(k, v)
      BY <1>5, <1>10, TwoSemaphores DEF Others, SameWait
    <3>3. \A v \in SpiUser \ {u} : HasBus(v)' <=> HasBus(v)
      BY <2>2, <2>3, <3>2 DEF HasBus
    <3> QED
      BY <3>1, <3>3
  <2>5. SpiTypes'
    <3>1. pc'[NULL] = pc[NULL]
      BY <1>5, <2>2
    <3>2. \A v \in SpiUser : pc'[v] \in UserPlaces
      BY <1>8, <2>1, <2>2 DEF SpiIInv, SpiTypes, UserPlaces
    <3> QED
      BY <1>1, <1>5, <1>6, <2>2, <3>1, <3>2 DEF SpiIInv, SpiTypes
  <2>6. OneBus'
    BY <1>10, <2>4 DEF SpiIInv, OneBus
  <2>7. ASSUME NEW t \in Task PROVE SpiTask(t)'
    <3>1. CASE t = u
      BY <1>1, <1>5, <1>8, <1>10, <2>1, <3>1 DEF SpiTask
    <3>2. CASE t # u
      <4>1. SameWait(k', k, t) /\ SpiTask(t)
        BY <1>5, <1>10, <3>2 DEF Others, SpiIInv
      <4> QED
        BY <2>2, <3>2, <4>1, SameTask
    <3> QED
      BY <3>1, <3>2
  <2>8. Work'
    <3>1. Phase(u)'
      BY <1>5, <1>7, <1>8, <1>10, <2>1 DEF Phase, NoSignal
    <3> QED
      BY <1>3, <2>3, <3>1 DEF Work
  <2> QED
    BY <1>6, <2>5, <2>6, <2>7, <2>8 DEF SpiIInv
<1> QED
  BY <1>1, <1>9, <1>10, TakeOrWait

(* exec_return: the wait has ended by the signal. *)
LEMMA ExecReturnInv ==
  ASSUME SpiIInv, exec_return
  PROVE  SpiIInv'
<1> PICK u \in Users : u = caller
  BY Caller DEF exec_return
<1> DEFINE l == "done"
<1>1. pc[u] = "waiting" /\ UNCHANGED <<job, spi, dev, wire, rxbuf>> /\ Holder(u)
  BY Caller DEF exec_return, Holder
<1>2. u \in SpiUser /\ u \in Task /\ u = runtsk /\ ~WAITING(k, u)
  <2>1. u # NULL
    BY <1>1 DEF SpiIInv, SpiTypes, NullPlaces
  <2> QED
    BY <2>1, Caller DEF exec_return
<1>3. k.tcb[u].winfo = "E_OK"
  BY <1>1, <1>2 DEF SpiIInv, SpiTask
<1>4. UNCHANGED semvars /\ pc' = [pc EXCEPT ![u] = l]
  BY <1>2, <1>3 DEF exec_return, spi_goto
<1>5. SemIInv' /\ k' = k /\ iniflg' = iniflg /\ semcnt' = semcnt
  BY <1>4, SemNextInv DEF SpiIInv, semvars, kvars
<1>6. /\ DOMAIN pc = Users /\ job \in [Users -> Nat \X Nat]
      /\ spi \in [cur : Users \cup {NoConfig}, tx : Nat, rx : Nat, ena : BOOLEAN]
      /\ dev \in [on : BOOLEAN, tdbr : Nat, shift : BOOLEAN, full : BOOLEAN]
  BY DEF SpiIInv, SpiTypes
<1>7. Finished(job[u]) /\ NoSignal
  BY <1>1, <1>2, TheHolder DEF Phase
<1>8. Phase(u)'
  <2>1. Finished(job[u])' <=> Finished(job[u])
    BY <1>1 DEF Finished, Wired, Stored, Idle
  <2>2. pc'[u] = "done" /\ NoSignal'
    BY <1>4, <1>5, <1>6, <1>7 DEF NoSignal
  <2> QED
    BY <1>7, <2>1, <2>2 DEF Phase
<1>9. u # NULL /\ l \in UserPlaces /\ l \notin {"out", "opening"} /\ l # "waiting"
  BY <1>2, TwoSemaphores DEF UserPlaces
<1>10. /\ semcnt'[SPI_DEVICE_SEM] = semcnt[SPI_DEVICE_SEM] /\ job' \in [Users -> Nat \X Nat]
       /\ spi' \in [cur : Users \cup {NoConfig}, tx : Nat, rx : Nat, ena : BOOLEAN]
       /\ dev' \in [on : BOOLEAN, tdbr : Nat, shift : BOOLEAN, full : BOOLEAN]
  BY <1>1, <1>5, <1>6
<1> HIDE DEF l
<1> QED
  BY <1>1, <1>2, <1>4, <1>5, <1>8, <1>9, <1>10, HolderMoves

(* The end of a shift. *)
LEMMA ShiftInv ==
  ASSUME SpiIInv, shift_end
  PROVE  SpiIInv'
<1>1. /\ UNCHANGED <<semvars, pc, job, spi, rxbuf>> /\ dev.shift
      /\ dev' = [dev EXCEPT !.shift = FALSE, !.full = TRUE] /\ wire' = Append(wire, dev.tdbr)
  BY DEF shift_end
<1>2. SemIInv' /\ k' = k /\ iniflg' = iniflg /\ semcnt' = semcnt
  BY <1>1, SemNextInv DEF SpiIInv, semvars, kvars
<1>3. /\ DOMAIN pc = Users /\ job \in [Users -> Nat \X Nat]
      /\ spi \in [cur : Users \cup {NoConfig}, tx : Nat, rx : Nat, ena : BOOLEAN]
      /\ dev \in [on : BOOLEAN, tdbr : Nat, shift : BOOLEAN, full : BOOLEAN]
      /\ \A v \in SpiUser : pc[v] \in UserPlaces
      /\ pc[NULL] \in NullPlaces
  BY DEF SpiIInv, SpiTypes
<1>4. PICK u \in Users : Holder(u) /\ Phase(u)
  BY <1>1 DEF SpiIInv, Work, Idle
<1>5. pc[u] \in {"polling", "enable", "wait", "waiting"} /\ GoesOn(u, job[u]) /\ NoSignal
      /\ (pc[u] = "waiting" => WAITING(k, u))
  BY <1>1, <1>4 DEF Phase, Idle, Prepared, Started, Finished
<1> PICK n \in Nat \X Nat : n = job[u]
  BY <1>3
<1> PICK m \in Nat : Going(u, n, m)
  BY <1>5 DEF GoesOn
<1>6. /\ dev' \in [on : BOOLEAN, tdbr : Nat, shift : BOOLEAN, full : BOOLEAN]
      /\ dev'.on = dev.on /\ ~dev'.shift /\ dev'.full
  BY <1>1, <1>3
<1>7. Wired(n, m + 1)'
  <2>1. wire = [i \in 1 .. m |-> Unit(n, i)] /\ dev.tdbr = Unit(n, m + 1)
    BY <1>1 DEF Going, Wired
  <2>2. wire' = [i \in 1 .. m + 1 |-> Unit(n, i)]
    BY <1>1, <2>1, OneMore
  <2> QED
    BY <2>2 DEF Wired
<1>8. Going(u, n, m)'
  BY <1>1, <1>6, <1>7 DEF Going, Stored
<1>9. GoesOn(u, job[u])'
  <2>1. job'[u] = n
    BY <1>1
  <2> QED
    BY <1>8, <2>1 DEF GoesOn
<1>10. Phase(u)'
  <2>1. pc' = pc
    BY <1>1
  <2>2. WAITING(k', u) <=> WAITING(k, u)
    BY <1>2
  <2>3. NoSignal'
    BY <1>2, <1>5 DEF NoSignal
  <2> QED
    BY <1>5, <1>9, <2>1, <2>2, <2>3 DEF Phase
<1>11. PICK l : l = pc[u]
  OBVIOUS
<1>12. /\ pc' = pc
       /\ u = NULL => l \in NullPlaces
       /\ u \in SpiUser => l \in UserPlaces
       /\ l \notin {"out", "opening"}
  BY <1>1, <1>3, <1>4, <1>11 DEF Holder
<1>13. semcnt'[SPI_DEVICE_SEM] = semcnt[SPI_DEVICE_SEM] /\ job' \in [Users -> Nat \X Nat]
       /\ spi' \in [cur : Users \cup {NoConfig}, tx : Nat, rx : Nat, ena : BOOLEAN]
  BY <1>1, <1>2, <1>3
<1> QED
  BY <1>2, <1>4, <1>6, <1>10, <1>11, <1>12, <1>13, HolderMoves

(* The interrupt handler. *)
LEMMA IsrInv ==
  ASSUME SpiIInv, KzISRSpi
  PROVE  SpiIInv'
<1> DEFINE S == SPI_COMPLETE_SIG
           D == SPI_DEVICE_SEM
<1>1. /\ INTCTX_UNL /\ dev.full /\ dev.on /\ rcv_snd /\ UNCHANGED <<pc, job>>
      /\ IF transfer_end THEN signal_complete ELSE UNCHANGED semvars
  BY DEF KzISRSpi
<1>2. /\ DOMAIN pc = Users /\ job \in [Users -> Nat \X Nat] /\ SpiTypes
      /\ \A v \in SpiUser : pc[v] \in UserPlaces
      /\ semcnt \in [Sem -> Nat] /\ KernelInvs
  BY DEF SpiIInv, SpiTypes, SemIInv
<1>3. iniflg
  BY <1>1, <1>2, CallContext DEF INTCTX_UNL
<1>4. PICK u \in Users : Holder(u) /\ Phase(u)
  BY <1>1 DEF SpiIInv, Work, Idle
<1>5. u \in SpiUser /\ u \in Task /\ \A v \in Users \ {u} : ~Holder(v)
  BY <1>3, <1>4, TheHolder, TwoSemaphores
<1>6. pc[u] \in {"enable", "wait", "waiting"} /\ GoesOn(u, job[u]) /\ NoSignal
      /\ (pc[u] = "waiting" => WAITING(k, u))
  BY <1>1, <1>2, <1>4, <1>5 DEF Phase, Idle, Prepared, Started, Finished, UserPlaces
<1> PICK n \in Nat \X Nat : n = job[u]
  BY <1>2
<1> PICK m \in Nat : Going(u, n, m)
  BY <1>6 DEF GoesOn
<1>7. /\ IF transfer_end THEN Finished(n)' ELSE Going(u, n, m + 1)'
      /\ spi' \in [cur : Users \cup {NoConfig}, tx : Nat, rx : Nat, ena : BOOLEAN]
      /\ dev' \in [on : BOOLEAN, tdbr : Nat, shift : BOOLEAN, full : BOOLEAN]
      /\ job'[u] = n /\ m + 1 \in Nat /\ job' \in [Users -> Nat \X Nat]
  BY <1>1, <1>2, OneUnit
<1> PICK l : l = pc[u]
  OBVIOUS
<1>8. /\ pc' = pc
      /\ u = NULL => l \in NullPlaces
      /\ u \in SpiUser => l \in UserPlaces
      /\ l \notin {"out", "opening"}
  BY <1>1, <1>2, <1>4, <1>5, TwoSemaphores DEF Holder
<1>9. CASE ~transfer_end
  <2>1. UNCHANGED semvars
    BY <1>1, <1>9
  <2>2. SemIInv' /\ k' = k /\ iniflg' = iniflg /\ semcnt' = semcnt
    BY <2>1, SemNextInv DEF SpiIInv, semvars, kvars
  <2>3. GoesOn(u, job[u])'
    BY <1>7, <1>9 DEF GoesOn
  <2>4. Phase(u)'
    <3>1. pc' = pc /\ (WAITING(k', u) <=> WAITING(k, u)) /\ NoSignal'
      BY <1>1, <1>6, <2>2 DEF NoSignal
    <3> QED
      BY <1>6, <2>3, <3>1 DEF Phase
  <2>5. semcnt'[D] = semcnt[D]
    BY <2>2
  <2> QED
    BY <1>4, <1>7, <1>8, <2>2, <2>4, <2>5, HolderMoves
<1>10. CASE transfer_end
  <2>1. Finished(job[u])'
    BY <1>7, <1>10
  <2>2. S \in Sem /\ D \in Sem /\ S # D /\ S # NULL /\ semcnt[S] = 0
    BY <1>6, TwoSemaphores DEF NoSignal
  <2>3. isig_sem(S)
    <3>1. semcnt[S] # maxsem[S]
      BY <2>2, SemAssumption
    <3> QED
      BY <1>1, <1>10, <3>1 DEF signal_complete
  <2>4. iniflg' = iniflg /\ SemIInv'
    BY <2>2, <2>3, GiveOrCount
  <2>5. CASE /\ k' = k /\ semcnt' = [semcnt EXCEPT ![S] = semcnt[S] + 1]
             /\ \A t \in Task : k.tcb[t].wobj # S
    <3>1. pc[u] # "waiting"
      BY <1>5, <1>6, <2>5 DEF SpiIInv, SpiTask
    <3>2. semcnt'[S] = 1 /\ semcnt'[D] = semcnt[D]
      BY <1>2, <2>2, <2>5
    <3>3. Phase(u)'
      BY <1>1, <1>6, <2>1, <3>1, <3>2 DEF Phase
    <3> QED
      BY <1>4, <1>7, <1>8, <2>4, <2>5, <3>2, <3>3, HolderMoves
  <2>6. ASSUME semcnt' = semcnt, NEW t \in Task, k.tcb[t].wobj = S, WAITING(k, t),
               Others(k', k, t), ~WAITING(k', t), k'.tcb[t].wobj = NULL,
               k'.tcb[t].winfo = "E_OK"
        PROVE  SpiIInv'
    <3>1. t \in SpiUser /\ pc[t] = "waiting"
      BY <2>6 DEF SpiIInv, SpiTask
    <3>2. t = u
      <4>1. t \in Users /\ Holder(t)
        BY <3>1 DEF Users, Holder
      <4> QED
        BY <1>5, <4>1
    <3>3. \A v \in SpiUser \ {u} : WAITING(k', v) <=> WAITING(k, v)
      BY <2>6, <3>2, TwoSemaphores DEF Others, SameWait
    <3>4. pc' = pc
      BY <1>1
    <3>5. \A v \in Users : Holder(v)' <=> Holder(v)
      BY <3>4 DEF Holder
    <3>6. \A v \in SpiUser : HasBus(v)' <=> HasBus(v)
      <4>1. HasBus(u)' /\ HasBus(u)
        BY <1>4, <3>5 DEF HasBus
      <4>2. \A v \in SpiUser \ {u} : HasBus(v)' <=> HasBus(v)
        BY <3>3, <3>4, <3>5 DEF HasBus, Users
      <4> QED
        BY <4>1, <4>2
    <3>7. SpiTypes'
      BY <1>7, <2>4, <3>4 DEF SpiIInv, SpiTypes
    <3>8. OneBus'
      BY <2>6, <3>6 DEF SpiIInv, OneBus
    <3>9. ASSUME NEW s \in Task PROVE SpiTask(s)'
      <4>1. CASE s = t
        BY <2>6, <4>1, TwoSemaphores DEF SpiTask
      <4>2. CASE s # t
        <5>1. SameWait(k', k, s) /\ SpiTask(s)
          BY <2>6, <4>2 DEF Others, SpiIInv
        <5> QED
          BY <3>4, <5>1, SameTask
      <4> QED
        BY <4>1, <4>2
    <3>10. Phase(u)'
      <4>1. pc'[u] = "waiting" /\ ~WAITING(k', u) /\ NoSignal'
        BY <1>6, <2>6, <3>1, <3>2, <3>4 DEF NoSignal
      <4> QED
        BY <2>1, <4>1 DEF Phase
    <3>11. Work'
      BY <1>4, <1>5, <3>5, <3>10 DEF Work
    <3> QED
      BY <2>4, <3>7, <3>8, <3>9, <3>11 DEF SpiIInv
  <2> QED
    BY <2>2, <2>3, <2>5, <2>6, GiveOrCount
<1> QED
  BY <1>9, <1>10

(* The kernel's own steps. *)
LEMMA SpiElsewhereInv ==
  ASSUME ~MayTimeOut, SpiIInv, SpiElsewhere
  PROVE  SpiIInv'
<1>1. KernelInvs /\ UNCHANGED <<semcnt, spivars>>
  BY DEF SpiIInv, SemIInv, SpiElsewhere
<1>2. SemIInv'
  <2>1. Next
    BY DEF SpiElsewhere, Next, IntNext
  <2> QED
    BY <1>1, <2>1, SemNextInv DEF SpiIInv, SemNext
<1>3. CASE task_initialize
  <2>1. ~iniflg /\ iniflg' = iniflg /\ todo # << >>
    BY <1>3 DEF task_initialize
  <2>2. PICK t \in Task : t = Head(todo)
    <3>1. todo \in Seq(Task)
      BY <1>1 DEF KernelInvs, TypeInv, TypeOK
    <3> QED
      BY <2>1, <3>1
  <2>3. Goes(k', k, t)
    BY <1>1, <1>3, <2>2, GoneSteps
  <2>4. \A s \in SpiUser : pc[s] = "out"
    BY <2>1 DEF SpiIInv, SpiTypes
  <2>5. ASSUME NEW s \in Task
        PROVE  SameWait(k', k, s) \/ (k'.tcb[s].wobj = NULL /\ (s \in SpiUser => pc[s] = "out"))
    BY <2>3, <2>4 DEF Goes, Others
  <2> QED
    BY <1>1, <1>2, <2>1, <2>5, KernelMoves
<1>4. CASE (pc[NULL] = "out" /\ kernel_start)
           \/ interrupt_enter \/ interrupt_return \/ wait_for_intr
  <2>1. Calm(k', k)
    BY <1>1, <1>4, CalmSteps
  <2>2. (iniflg' => pc[NULL] = "out") /\ (iniflg => iniflg')
    BY <1>4 DEF kernel_start, interrupt_enter, interrupt_return, wait_for_intr, SpiIInv, SpiTypes
  <2>3. \A s \in Task : SameWait(k', k, s)
    BY <2>1 DEF Calm
  <2> QED
    BY <1>1, <1>2, <2>2, <2>3, KernelMoves
<1> QED
  BY <1>3, <1>4 DEF SpiElsewhere

(* The invariant is inductive while no transfer times out, *)
LEMMA SpiNextInv ==
  ASSUME ~MayTimeOut
  PROVE  SpiIInv /\ [SpiNext]_<<semvars, spivars>> => SpiIInv'
<1> SUFFICES ASSUME SpiIInv, [SpiNext]_<<semvars, spivars>> PROVE SpiIInv'
  OBVIOUS
<1>1. CASE UNCHANGED <<semvars, spivars>>
  <2>1. SemIInv' /\ UNCHANGED <<semcnt, spivars>> /\ iniflg' = iniflg /\ k' = k
    BY <1>1, SemNextInv DEF SpiIInv, semvars, kvars
  <2>2. \A t \in Task : SameWait(k', k, t)
    BY <2>1 DEF SameWait
  <2>3. iniflg' => pc[NULL] = "out"
    BY <2>1 DEF SpiIInv, SpiTypes
  <2> QED
    BY <2>1, <2>2, <2>3, KernelMoves
<1>2. CASE SpiNext
  BY <1>2, ShiftInv, IsrInv, OpenInv, OpenReturnInv, CloseInv, ReadWriteInv, SpiStartInv,
     TriggerInv, PollingInv, EnaInv, ExecInv, ExecReturnInv, SpiElsewhereInv DEF SpiNext
<1> QED
  BY <1>1, <1>2

(* holds at reset, *)
LEMMA SpiInitInv == SpiInit => SpiIInv
<1> SUFFICES ASSUME SpiInit PROVE SpiIInv
  OBVIOUS
<1>1. SemIInv
  BY SemInitInv DEF SpiInit
<1>2. /\ ~iniflg /\ k = InitTables /\ semcnt = isemcnt
      /\ pc = [u \in Users |-> "out"] /\ job = [u \in Users |-> <<0, 0>>]
      /\ spi = [cur |-> "none", tx |-> 0, rx |-> 0, ena |-> FALSE]
      /\ dev = [on |-> FALSE, tdbr |-> 0, shift |-> FALSE, full |-> FALSE]
  BY DEF SpiInit, SemInit, Init
<1>3. SpiTypes
  BY <1>2 DEF SpiTypes, Users, NullPlaces, UserPlaces, NoConfig
<1>4. ASSUME NEW t \in Task PROVE SpiTask(t)
  <2>1. k.tcb[t].wobj = NULL
    BY <1>2 DEF InitTables, dormant_tcb
  <2>2. t \in SpiUser => pc[t] # "waiting"
    BY <1>2 DEF Users
  <2> QED
    BY <2>1, <2>2, TwoSemaphores DEF SpiTask
<1>5. \A u \in Users : ~Holder(u)
  BY <1>2 DEF Holder
<1>6. OneBus
  <2>1. \A u \in SpiUser : ~HasBus(u)
    BY <1>2, <1>5 DEF HasBus, Users
  <2> QED
    BY <1>2, <2>1, SpiAssumption DEF OneBus
<1>7. Idle /\ NoSignal
  BY <1>2, SpiAssumption DEF Idle, NoSignal, NoConfig
<1> QED
  BY <1>1, <1>3, <1>4, <1>5, <1>6, <1>7 DEF SpiIInv, Work

(* and so always. *)
LEMMA SpiAlways ==
  ASSUME ~MayTimeOut
  PROVE  SpiSpec => []SpiIInv
<1>1. SpiIInv /\ [SpiNext]_<<semvars, spivars>> => SpiIInv'
  BY SpiNextInv
<1> QED
  BY <1>1, SpiInitInv, PTL DEF SpiSpec

(* The driver works for one user at a time, and the transfer that is going *)
(* on is that user's, from kzdev_spi_open to kzdev_spi_close.              *)
THEOREM OneTransferAtATime ==
  ASSUME ~MayTimeOut
  PROVE  SpiSpec => []OneTransfer
<1>1. SpiIInv => OneTransfer
  <2> SUFFICES ASSUME SpiIInv PROVE OneTransfer
    OBVIOUS
  <2> DEFINE holders == {u \in Users : pc[u] \notin {"out", "opening"}}
  <2>1. CASE Idle /\ \A u \in Users : ~Holder(u)
    <3>1. holders = {}
      BY <2>1 DEF Holder
    <3>2. Cardinality(holders) = 0
      BY <3>1, FS_EmptySet
    <3> HIDE DEF holders
    <3>3. Cardinality(holders) <= 1
      BY <3>2
    <3> QED
      BY <2>1, <3>1, <3>3 DEF OneTransfer, holders, Idle
  <2>2. ASSUME NEW u \in Users, Holder(u), Phase(u), \A v \in Users \ {u} : ~Holder(v)
        PROVE  OneTransfer
    <3>1. holders = {u}
      BY <2>2 DEF Holder
    <3>2. Cardinality(holders) <= 1
      <4>1. Cardinality({u}) = 1
        BY FS_Singleton
      <4> QED
        BY <3>1, <4>1
    <3>3. /\ spi.cur # NoConfig => spi.cur = u
          /\ pc[u] = "starting" => spi.cur = u
          /\ dev.on => spi.cur # NoConfig
      BY <2>2, TwoSemaphores DEF Phase, Idle, Prepared, Started, GoesOn, Going, Finished
    <3> HIDE DEF holders
    <3>4. /\ spi.cur # NoConfig => spi.cur \in holders
          /\ \A v \in holders : pc[v] = "starting" => spi.cur = v
      BY <3>1, <3>3
    <3> QED
      BY <3>2, <3>3, <3>4 DEF OneTransfer, holders
  <2> QED
    BY <2>1, <2>2 DEF SpiIInv, Work
<1> QED
  BY <1>1, SpiAlways, PTL

(* A transfer that is reported as done has sent all of its units, in their *)
(* order, then fillers, and has stored all of the answers; no unit of an   *)
(* earlier transfer and no interrupt that came early counts for it.        *)
THEOREM TransfersAreDone ==
  ASSUME ~MayTimeOut
  PROVE  SpiSpec => []TransferDone
<1>1. SpiIInv => TransferDone
  <2> SUFFICES ASSUME SpiIInv, NEW u \in Users, pc[u] = "done"
               PROVE  /\ wire = [i \in 1 .. Max({job[u][1], job[u][2]}) |->
                                   IF i <= job[u][1] THEN i ELSE 0]
                      /\ rxbuf = [i \in 1 .. job[u][2] |-> i]
                      /\ ~dev.on /\ spi.cur = NoConfig
    BY DEF TransferDone
  <2>1. Finished(job[u])
    BY TheHolder DEF Holder, Phase
  <2>2. PICK n \in Nat \X Nat : n = job[u]
    BY DEF SpiIInv, SpiTypes
  <2>3. Max({n[1], n[2]}) = Longer(n) /\ Lower(Longer(n), n[2]) = n[2]
    <3>1. n[1] \in Int /\ n[2] \in Int
      OBVIOUS
    <3>2. Max({n[1], n[2]}) = IF n[1] > n[2] THEN n[1] ELSE n[2]
      BY <3>1, MaxOfTwo
    <3> QED
      BY <3>1, <3>2 DEF Longer, Lower
  <2>4. wire = [i \in 1 .. Longer(n) |-> IF i <= n[1] THEN i ELSE 0]
    BY <2>1, <2>2 DEF Finished, Wired, Unit
  <2>5. rxbuf = [i \in 1 .. n[2] |-> i] /\ ~dev.on /\ spi.cur = NoConfig
    BY <2>1, <2>2, <2>3 DEF Finished, Stored, Idle
  <2> QED
    BY <2>2, <2>3, <2>4, <2>5
<1> QED
  BY <1>1, SpiAlways, PTL
=============================================================================
