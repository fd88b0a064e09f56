------------------------------- MODULE SysLog -------------------------------
(***************************************************************************)
(* The system log: the ring of kernel/syslog.c, written by tasks and       *)
(* handlers in any state, and its reader, the log task of logtask.c with   *)
(* syslog_output of log_output.c.  vwri_log and vrea_log run CPU-locked    *)
(* and are one action each; the reader prints between them, for as long as *)
(* the serial port takes.  A record is the number it has among the records *)
(* written, and whether its type is one that is printed.                   *)
(***************************************************************************)
EXTENDS Integers

CONSTANTS
  TCNT_SYSLOG_BUFFER,
  Severity,      \* priorities of log records
  MaxLog         \* bound on the number of records written

ASSUME LogAssumption ==
  /\ TCNT_SYSLOG_BUFFER \in Nat \ {0}
  /\ MaxLog \in Nat

VARIABLES
  syslog_buffer,
  syslog_count, syslog_head, syslog_tail,
  syslog_lost,
  syslog_logmask,
  written,       \* number of records written
  logtask,       \* where the log task is,
  lostnum,       \* its lost records not announced yet,
  log,           \* the record it has read,
  told           \* and how many records it has printed, skipped or announced

syslog_ring == <<syslog_buffer, syslog_count, syslog_head, syslog_tail, syslog_lost>>
reader == <<logtask, lostnum, log, told>>
logvars == <<syslog_ring, syslog_logmask, written, reader>>

Record(n, printed) == [no |-> n, printed |-> printed]
NoRecord == Record(0, FALSE)

LogInit ==
  /\ syslog_buffer = [i \in 0 .. TCNT_SYSLOG_BUFFER - 1 |-> NoRecord]
  /\ syslog_count = 0 /\ syslog_head = 0 /\ syslog_tail = 0
  /\ syslog_lost = 0
  /\ syslog_logmask = {}
  /\ written = 0
  /\ logtask = "delay" /\ lostnum = 0 /\ log = NoRecord /\ told = 0

next_log(i) == IF i + 1 >= TCNT_SYSLOG_BUFFER THEN 0 ELSE i + 1

(* Mistake: the head stays where the newest record has overwritten it. *)
vwri_log_mut(prio, printed) ==
  /\ prio \in syslog_logmask
  /\ written < MaxLog
  /\ written' = written + 1
  /\ syslog_buffer' = [syslog_buffer EXCEPT
                         ![syslog_tail] = Record(written', printed)]
  /\ syslog_tail' = next_log(syslog_tail)
  /\ IF syslog_count < TCNT_SYSLOG_BUFFER
     THEN syslog_count' = syslog_count + 1 /\ UNCHANGED syslog_lost
     ELSE syslog_lost' = syslog_lost + 1 /\ UNCHANGED syslog_count
  /\ UNCHANGED <<syslog_head, syslog_logmask, reader>>

(* A full ring drops its oldest record. *)
vwri_log(prio, printed) ==
  /\ prio \in syslog_logmask
  /\ written < MaxLog
  /\ written' = written + 1
  /\ syslog_buffer' = [syslog_buffer EXCEPT
                         ![syslog_tail] = Record(written', printed)]
  /\ syslog_tail' = next_log(syslog_tail)
  /\ IF syslog_count < TCNT_SYSLOG_BUFFER
     THEN /\ syslog_count' = syslog_count + 1
          /\ UNCHANGED <<syslog_head, syslog_lost>>
     ELSE /\ syslog_head' = next_log(syslog_tail)
          /\ syslog_lost' = syslog_lost + 1
          /\ UNCHANGED syslog_count
  /\ UNCHANGED <<syslog_logmask, reader>>

(* Mistake: the count of lost records is not reset. *)
vrea_log_mut ==
  /\ syslog_count > 0
  /\ log' = syslog_buffer[syslog_head]
  /\ syslog_count' = syslog_count - 1
  /\ syslog_head' = next_log(syslog_head)
  /\ lostnum' = lostnum + syslog_lost
  /\ UNCHANGED <<syslog_buffer, syslog_tail, syslog_lost>>

(* The record, and in lostnum the number lost before it. *)
vrea_log ==
  /\ syslog_count > 0
  /\ log' = syslog_buffer[syslog_head]
  /\ syslog_count' = syslog_count - 1
  /\ syslog_head' = next_log(syslog_head)
  /\ lostnum' = lostnum + syslog_lost
  /\ syslog_lost' = 0
  /\ UNCHANGED <<syslog_buffer, syslog_tail>>

vmsk_log(mask) ==
  /\ syslog_logmask' = mask
  /\ UNCHANGED <<syslog_ring, written, reader>>

-----------------------------------------------------------------------------
(* The loop of syslog_output.  A record of a type that is not printed is   *)
(* skipped at once; the records lost before it are announced later.        *)
output_read ==
  /\ logtask \in {"delay", "output"}
  /\ \/ /\ vrea_log
        /\ IF log'.printed
           THEN logtask' = (IF lostnum' > 0 THEN "lostmsg" ELSE "print")
                /\ UNCHANGED told
           ELSE logtask' = "output" /\ told' = told + 1
     \/ /\ syslog_count = 0 /\ logtask = "output"
        /\ logtask' = "delay"
        /\ told' = told + lostnum
        /\ lostnum' = 0
        /\ UNCHANGED <<syslog_ring, log>>
  /\ UNCHANGED <<syslog_logmask, written>>

syslog_lostmsg ==
  /\ logtask = "lostmsg"
  /\ logtask' = "print"
  /\ told' = told + lostnum
  /\ lostnum' = 0
  /\ UNCHANGED <<syslog_ring, log, syslog_logmask, written>>

syslog_print ==
  /\ logtask = "print"
  /\ logtask' = "output"
  /\ told' = told + 1
  /\ UNCHANGED <<syslog_ring, lostnum, log, syslog_logmask, written>>

LogNext ==
  \/ \E prio \in Severity, printed \in BOOLEAN : vwri_log(prio, printed)
  \/ \E mask \in SUBSET Severity : vmsk_log(mask)
  \/ output_read \/ syslog_lostmsg \/ syslog_print

LogSpec == LogInit /\ [][LogNext]_logvars

-----------------------------------------------------------------------------
(* The log is honest: when a record is printed, every earlier one has been *)
(* printed, skipped for its type, or announced as lost; the ring holds the *)
(* newest records in order; and no record is out of the count.             *)
LogInv ==
  /\ logtask = "print" => log.no = told + 1
  /\ syslog_tail = (syslog_head + syslog_count) % TCNT_SYSLOG_BUFFER
  /\ \A i \in 1 .. syslog_count :
       syslog_buffer[(syslog_head + i - 1) % TCNT_SYSLOG_BUFFER].no
         = written - syslog_count + i
  /\ told + lostnum + syslog_lost + syslog_count
       + (IF logtask \in {"lostmsg", "print"} THEN 1 ELSE 0) = written
=============================================================================
