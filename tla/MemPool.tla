------------------------------ MODULE MemPool ------------------------------
(***************************************************************************)
(* Fixed-size memory pools, kernel/mempfix.c, on top of the kernel.  The   *)
(* free blocks are those from unused on, which were never handed out, and  *)
(* those linked into freelist.  A block is returned by whoever holds it,   *)
(* once: rel_mpf does not check that.                                      *)
(***************************************************************************)
EXTENDS KernelInv

CONSTANTS
  Mpf,           \* the pools; each is its own wait queue
  limit          \* the number of blocks of each

ASSUME MpfAssumption ==
  /\ Mpf \subseteq WObj
  /\ limit \in [Mpf -> Nat]

VARIABLES
  unused,        \* index of the first block never handed out
  freelist,      \* the blocks returned, last first
  taken          \* the blocks handed out, as <<pool, block>>

mpfvars == <<unused, freelist, taken>>

MpfInit ==
  /\ Init
  /\ unused = [m \in Mpf |-> 0]
  /\ freelist = [m \in Mpf |-> << >>]
  /\ taken = {}

(* Mistake: the limit is passed by one. *)
mempfix_get_block_mut(m) ==
  IF freelist[m] # << >>
  THEN /\ freelist' = [freelist EXCEPT ![m] = Tail(@)]
       /\ taken' = taken \cup {<<m, Head(freelist[m])>>}
       /\ UNCHANGED unused
  ELSE /\ unused[m] <= limit[m]
       /\ unused' = [unused EXCEPT ![m] = @ + 1]
       /\ taken' = taken \cup {<<m, unused[m]>>}
       /\ UNCHANGED freelist

mempfix_get_block(m) ==
  IF freelist[m] # << >>
  THEN /\ freelist' = [freelist EXCEPT ![m] = Tail(@)]
       /\ taken' = taken \cup {<<m, Head(freelist[m])>>}
       /\ UNCHANGED unused
  ELSE /\ unused[m] < limit[m]
       /\ unused' = [unused EXCEPT ![m] = @ + 1]
       /\ taken' = taken \cup {<<m, unused[m]>>}
       /\ UNCHANGED freelist

(* get_mpf, pget_mpf and tget_mpf with a block there *)
pget_mpf(m) == TSKCTX_UNL /\ mempfix_get_block(m) /\ TaskCall(k, FALSE)

(* get_mpf and tget_mpf when they block *)
tget_mpf(m, tm) ==
  /\ CAN_WAIT
  /\ freelist[m] = << >> /\ unused[m] >= limit[m]
  /\ TaskCall(wobj_make_wait_tmout(k, runtsk, m, tm), TRUE)
  /\ UNCHANGED mpfvars

(* Mistake: the block is freed although a waiter gets it. *)
rel_mpf_mut(m, blk) ==
  /\ TSKCTX_UNL
  /\ <<m, blk>> \in taken
  /\ freelist' = [freelist EXCEPT ![m] = <<blk>> \o @]
  /\ UNCHANGED unused
  /\ IF k.wait_queue[m] # << >>
     THEN LET t == Head(k.wait_queue[m])
          IN /\ TaskCall(wait_complete([k EXCEPT !.wait_queue[m] = Tail(@)], t),
                         Disp(make_non_wait_ret(k, t)))
             /\ UNCHANGED taken
     ELSE /\ TaskCall(k, FALSE)
          /\ taken' = taken \ {<<m, blk>>}

(* The block goes to the first waiter, who holds it from now on, even if   *)
(* it runs much later.                                                     *)
rel_mpf(m, blk) ==
  /\ TSKCTX_UNL
  /\ <<m, blk>> \in taken
  /\ UNCHANGED unused
  /\ IF k.wait_queue[m] # << >>
     THEN LET t == Head(k.wait_queue[m])
          IN /\ TaskCall(wait_complete([k EXCEPT !.wait_queue[m] = Tail(@)], t),
                         Disp(make_non_wait_ret(k, t)))
             /\ UNCHANGED <<taken, freelist>>
     ELSE /\ TaskCall(k, FALSE)
          /\ freelist' = [freelist EXCEPT ![m] = <<blk>> \o @]
          /\ taken' = taken \ {<<m, blk>>}

MpfCalls ==
  \E m \in Mpf :
    \/ pget_mpf(m)
    \/ \E tm \in {"none", "wait_tmout"} : tget_mpf(m, tm)
    \/ \E blk \in 0 .. limit[m] : rel_mpf(m, blk)

MpfNext == MpfCalls \/ (Next /\ UNCHANGED mpfvars)

MpfSpec == MpfInit /\ [][MpfNext]_<<kvars, mpfvars>>

-----------------------------------------------------------------------------
(* Every block of a pool is in one place: handed out, in the free list     *)
(* once, or never used; and no task waits while there is a free one.       *)
MpfInv ==
  \A m \in Mpf :
    LET free == Members(freelist[m])
        out == {blk \in 0 .. limit[m] : <<m, blk>> \in taken}
    IN /\ NoRepeat(freelist[m])
       /\ free \cap out = {}
       /\ free \cup out = 0 .. unused[m] - 1
       /\ unused[m] <= limit[m]
       /\ k.wait_queue[m] # << >> => free = {} /\ unused[m] = limit[m]
=============================================================================
