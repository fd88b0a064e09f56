------------------------------ MODULE Channel ------------------------------
(***************************************************************************)
(* What a data queue with first-come first-served wait queues promises,    *)
(* without ring, TCBs or dispatching.  Every message accepted or offered   *)
(* and not yet received stands in one line: the messages of the blocked    *)
(* senders are its last ones, in their order.  A message is accepted while *)
(* the line is shorter than cap, so senders wait only when it is not, and  *)
(* receivers (takers) only when it is empty.                               *)
(***************************************************************************)
EXTENDS Integers, Sequences, SequencesExt

CONSTANTS Task, Data, Capacity

VARIABLES
  cap,           \* the capacity, which never changes
  line,          \* the messages
  senders,       \* blocked senders
  takers,        \* blocked receivers
  delivered      \* the last delivery, <<receiver, message>>

cvars == <<cap, line, senders, takers, delivered>>

Init ==
  /\ cap \in Capacity
  /\ line = << >> /\ senders = << >> /\ takers = << >> /\ delivered = << >>

(* The message is handed to the longest waiting receiver. *)
Hand(d) ==
  /\ takers # << >>
  /\ delivered' = <<Head(takers), d>>
  /\ takers' = Tail(takers)
  /\ UNCHANGED <<line, senders>>

Accept(d) ==
  /\ takers = << >> /\ Len(line) < cap
  /\ line' = Append(line, d)
  /\ UNCHANGED <<senders, takers, delivered>>

(* Forced: the oldest message makes room; no blocked sender is overtaken   *)
(* by being dropped.                                                       *)
Force(d) ==
  /\ takers = << >> /\ cap > 0 /\ Len(line) >= cap
  /\ line' = Tail(InsertAt(line, cap + 1, d))
  /\ UNCHANGED <<senders, takers, delivered>>

Offer(t, d) ==
  /\ takers = << >> /\ Len(line) >= cap
  /\ line' = Append(line, d)
  /\ senders' = Append(senders, t)
  /\ UNCHANGED <<takers, delivered>>

(* A sender gives up; it takes its own message with it. *)
Withdraw(i) ==
  /\ i \in DOMAIN senders
  /\ line' = RemoveAt(line, cap + i)
  /\ senders' = RemoveAt(senders, i)
  /\ UNCHANGED <<takers, delivered>>

(* The oldest message is received; the first blocked sender is done. *)
Receive(t) ==
  /\ line # << >>
  /\ delivered' = <<t, Head(line)>>
  /\ line' = Tail(line)
  /\ senders' = IF senders = << >> THEN << >> ELSE Tail(senders)
  /\ UNCHANGED takers

Await(t) ==
  /\ line = << >>
  /\ takers' = Append(takers, t)
  /\ UNCHANGED <<line, senders, delivered>>

GiveUp(i) ==
  /\ i \in DOMAIN takers
  /\ takers' = RemoveAt(takers, i)
  /\ UNCHANGED <<line, senders, delivered>>

Next ==
  /\ \/ \E d \in Data : Hand(d) \/ Accept(d) \/ Force(d)
     \/ \E t \in Task : Receive(t) \/ Await(t) \/ \E d \in Data : Offer(t, d)
     \/ \E i \in DOMAIN senders : Withdraw(i)
     \/ \E i \in DOMAIN takers : GiveUp(i)
  /\ UNCHANGED cap

Spec == Init /\ [][Next]_cvars
=============================================================================
