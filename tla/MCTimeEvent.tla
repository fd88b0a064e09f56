---------------------------- MODULE MCTimeEvent ----------------------------
(***************************************************************************)
(* An instance of TimeEvent for TLC: a tick is 1.5 ms and the clock wraps  *)
(* around at 8 ms, so a time near TMAX_RELTIM = 3 ms crosses the wrap.     *)
(* Six events are the fewest with which removing a node makes the last one *)
(* go up.                                                                  *)
(***************************************************************************)
EXTENDS TimeEvent, TLC

MCcyctim == [c \in Cyc |-> 1]
MCcycphs == [c \in Cyc |-> 0]
TaskEvents == Permutations(Event \ Cyc)
=============================================================================
