------------------------------- MODULE Timers -------------------------------
(***************************************************************************)
(* What the time events of the kernel promise, without heap, wrap-around   *)
(* or rounding: a set of registered events, each with the time due left    *)
(* until it, counted from the next tick in units of 1/TIC_DENO ms (so at a *)
(* tick the events with due <= 0 have come).  A relative time of r ms is   *)
(* served no earlier than r ms after the next tick, and less than one ms   *)
(* later than that; the events of a tick are called back in time order; a  *)
(* cyclic one comes back a period after the last time it was due, not a    *)
(* period after the call.                                                  *)
(***************************************************************************)
EXTENDS Integers

CONSTANTS
  Event,         \* the events
  Cyc,           \* those that are cyclic
  Reltim,        \* relative times that are asked for
  cyctim,        \* the period of each cyclic event
  cycphs,        \* its phase
  TA_STA,        \* the cyclic events registered from the start
  TIC_NUME,      \* the length of a tick is TIC_NUME / TIC_DENO ms
  TIC_DENO

VARIABLES
  due,           \* function from the registered events to Int
  ticking,       \* a tick is being processed
  called         \* the event the last step called back, if any

tvars == <<due, ticking, called>>

Registered == DOMAIN due

Rounded(r) == r * TIC_DENO .. (r + 1) * TIC_DENO - 1

With(e, d) == [f \in Registered \cup {e} |-> IF f = e THEN d ELSE due[f]]

Init ==
  /\ due = [c \in TA_STA |-> cycphs[c] * TIC_DENO - TIC_NUME]
  /\ ~ticking
  /\ called = {}

Register(e) ==
  /\ ~ticking
  /\ \E r \in IF e \in Cyc THEN {cyctim[e]} ELSE Reltim :
       \E d \in Rounded(r) : due' = With(e, d)
  /\ called' = {}
  /\ UNCHANGED ticking

Cancel(e) ==
  /\ e \in Registered
  /\ ticking => e \notin Cyc
  /\ due' = [f \in Registered \ {e} |-> due[f]]
  /\ called' = {}
  /\ UNCHANGED ticking

TickStart ==
  /\ ~ticking
  /\ ticking' = TRUE
  /\ called' = {}
  /\ UNCHANGED due

CallBack(e) ==
  /\ ticking
  /\ e \in Registered /\ due[e] <= 0
  /\ \A f \in Registered : due[e] <= due[f]
  /\ due' = IF e \in Cyc THEN With(e, due[e] + cyctim[e] * TIC_DENO)
                         ELSE [f \in Registered \ {e} |-> due[f]]
  /\ called' = {e}
  /\ UNCHANGED ticking

TickEnd ==
  /\ ticking
  /\ \A e \in Registered : due[e] > 0
  /\ due' = [e \in Registered |-> due[e] - TIC_NUME]
  /\ ticking' = FALSE
  /\ called' = {}

Next ==
  \/ TickStart \/ TickEnd
  \/ \E e \in Event : Register(e) \/ Cancel(e) \/ CallBack(e)

Spec == Init /\ [][Next]_tvars
=============================================================================
