------------------------------ MODULE MCSerial ------------------------------
(***************************************************************************)
(* Instances of Serial for TLC.                                            *)
(***************************************************************************)
EXTENDS Serial, TLC

CONSTANTS t1, t2

Both == {{"FCSND", "FCRCV"}}
Perms == Permutations(Task)

Echo == {{"FCSND", "FCRCV", "ECHO", "CRLF"}, {"FCANY"}}
=============================================================================
