------------------------------ MODULE KzStdio ------------------------------
(***************************************************************************)
(* The files of the SDK: kzstdio.c gives fopen, fread, fwrite, fseek and   *)
(* fclose over ff.c and a pool of KZFILE_MAX_OPEN file objects, and        *)
(* fs_cmd.c calls ff.c for the rest.  Calls of ff.c by different tasks     *)
(* interleave.  Taking an object from the pool and giving one back (with   *)
(* dispatching disabled) commute with what other tasks do, and are part of *)
(* the step of the call of ff.c next to them.  A mode that is none of the  *)
(* six of fopen is not modelled (the code reads past its table); cp is how *)
(* the command of that name opens its target.                              *)
(***************************************************************************)
EXTENDS FatFs

CONSTANT OpenMode      \* the modes that callers use

VARIABLES
  mFileObj,            \* what fopen and fclose have done with each object
  view                 \* what the rest comes to for a caller (see View)

stdiovars == <<fatvars, mFileObj, view>>

conv_mode ==
  LET m(create, flags, append) == [create |-> create, flags |-> flags, append |-> append]
  IN [r  |-> m("no", {"r"}, FALSE),
      w  |-> m("always", {"w"}, FALSE),
      a  |-> m("always", {"w"}, TRUE),
      rp |-> m("no", {"r", "w"}, FALSE),
      wp |-> m("always", {"r", "w"}, FALSE),
      ap |-> m("always", {"r", "w"}, TRUE),
      cp |-> m("new", {"w"}, FALSE)]

ASSUME StdioAssumption == OpenMode \subseteq DOMAIN conv_mode /\ Object \subseteq Nat

(* A function of the other variables, kept in one so that TLC computes it  *)
(* once in a step.                                                         *)
View ==
  LET file == [n \in Name |-> seen(n)]
  IN [file |-> file,
      saved |-> [n \in Name |-> file[n] = on_disk(n)],
      handle |-> [h \in Object |-> handle_of(h)],
      room |-> n_free(fs)]

StdioInit == FatInit /\ mFileObj = [h \in Object |-> "free"] /\ view = View

power_cut == fs'.cuts # fs.cuts

(* The step takes object h to l, unless the power is cut. *)
object_goto(h, l) ==
  mFileObj' = IF power_cut THEN [g \in Object |-> "free"] ELSE [mFileObj EXCEPT ![h] = l]

(* get_file_obj *)
file_obj == {h \in Object : mFileObj[h] = "free" /\ \A g \in 1 .. h - 1 : mFileObj[g] # "free"}

(* When f_open fails, rel_file_obj. *)
Kz_fopen(n, m, f) ==
  \E h \in file_obj :
    /\ open(h, n, conv_mode[m].create, conv_mode[m].flags, f)
    /\ object_goto(h, IF ~fil'[h].open THEN "free"
                      ELSE IF conv_mode[m].append THEN "append" ELSE "open")

Kz_fopen_append(h, f) ==
  /\ mFileObj[h] = "append"
  /\ lseek(h, fil[h].size, f)
  /\ object_goto(h, "open")

Kz_fread(h, n, f) ==
  mFileObj[h] = "open" /\ read(h, n, f) /\ object_goto(h, "open")

Kz_fwrite(h, n, f) ==
  mFileObj[h] = "open" /\ write(h, n, f) /\ object_goto(h, "open")

(* Any offset; SEEK_CUR and SEEK_END only compute it. *)
Kz_fseek(h, ofs, f) ==
  mFileObj[h] = "open" /\ lseek(h, ofs, f) /\ object_goto(h, "open")

(* After an error the object is not given back. *)
Kz_fclose(h, f) ==
  /\ mFileObj[h] = "open"
  /\ close(h, f)
  /\ object_goto(h, IF fil'[h].open THEN "open" ELSE "free")

f_sync_call(h, f) ==
  mFileObj[h] = "open" /\ sync_file(h, f) /\ object_goto(h, "open")

(* The commands *)
fs_cmd(f) ==
  /\ \/ \E n \in Name : unlink(n, f) \/ \E m \in Name \ {n} : rename(n, m, f)
     \/ getfree(f)
  /\ mFileObj' = IF power_cut THEN [g \in Object |-> "free"] ELSE mFileObj

StdioReboot == reboot /\ mFileObj' = [g \in Object |-> "free"]

(* An interrupted renaming has left two names on one chain.  What becomes  *)
(* of the volume when it is used like that is not modelled: it is to be    *)
(* repaired, or the system to be started again.                            *)
two_names(dir) ==
  \E i, j \in 1 .. n_rootdir : i # j /\ dir[i].org = dir[j].org /\ dir[i].org \in Cluster

StdioCall ==
  \E f \in Fault :
    \/ fs_cmd(f)
    \/ \E n \in Name, m \in OpenMode : Kz_fopen(n, m, f)
    \/ \E h \in Object :
         \/ Kz_fopen_append(h, f) \/ Kz_fclose(h, f) \/ f_sync_call(h, f)
         \/ \E n \in Length : Kz_fread(h, n, f) \/ Kz_fwrite(h, n, f)
         \/ \E ofs \in Offset : Kz_fseek(h, ofs, f)

StdioNext ==
  /\ fs.calls < MaxCalls
  /\ StdioReboot \/ (~two_names(fs.dir) /\ StdioCall)
  /\ view' = View'

StdioSpec == StdioInit /\ [][StdioNext]_stdiovars

-----------------------------------------------------------------------------
(* No two files share a cluster, in what the driver works with (where the  *)
(* chain of an open file starts in its object) and on the medium, at any   *)
(* moment: an error or a power cut anywhere leaves no cross-link, but for  *)
(* one, the whole chain under two names, when f_rename has stopped between *)
(* the two sectors of the directory that it writes.  And as long as        *)
(* nothing has failed, every cluster in use belongs to a file, and the     *)
(* count of free clusters is right.                                        *)
NoCrossLink(fat, dir, org) ==
  \A i, j \in 1 .. n_rootdir : i # j =>
    \/ clusters(fat, org[i]) \cap clusters(fat, org[j]) = {}
    \/ org[i] = org[j] /\ {dir[i].name, dir[j].name} \in fs.torn

FatInv ==
  LET org == [i \in 1 .. n_rootdir |->
                IF opener(i) = {} THEN fs.dir[i].org
                ELSE fil[CHOOSE h \in opener(i) : TRUE].org]
      used == UNION {clusters(fs.fat, org[i]) : i \in 1 .. n_rootdir}
  IN /\ NoCrossLink(fs.fat, fs.dir, org)
     /\ NoCrossLink(fs.disk.fat, fs.disk.dir, [i \in 1 .. n_rootdir |-> fs.disk.dir[i].org])
     /\ fs.faults = 0 =>
          /\ fs.torn = {}
          /\ used = {c \in Cluster : fs.fat[c] # 0}
          /\ fs.free \in {UNKNOWN, n_free(fs)}

(* A call touches one file at most, that of entry k: whatever it does, and *)
(* wherever a transfer fails or the power is cut, the others hold what they *)
(* held, and those whose entry and chain are on the medium stay there.     *)
written_back(i) ==
  /\ fs.disk.dir[i] = fs.dir[i]
  /\ \A c \in clusters(fs.fat, fs.dir[i].org) : fs.disk.fat[c] = fs.fat[c]

on_medium(i) == stored(fs.disk.fat, fs.disk.dir[i])

Untouched(i) ==
  /\ fs'.cuts = fs.cuts =>
       /\ fs'.dir[i] = fs.dir[i] /\ opener(i)' = opener(i) /\ file_at(i)' = file_at(i)
       /\ \A h \in opener(i) : fil'[h] = fil[h]
  /\ written_back(i) => written_back(i)' /\ on_medium(i)' = on_medium(i)

OneTouched ==
  \E k \in 0 .. n_rootdir : \A i \in 1 .. n_rootdir \ {k} : fs.dir[i].name \in Name => Untouched(i)

CallsApart == [][OneTouched]_stdiovars

(* The calls keep the promises of module Files: reads return what was      *)
(* written, unit by unit, whatever the layout in sectors and clusters; a   *)
(* call on one file leaves the others alone; a file that was closed, or    *)
(* synchronised and not written since, is on the medium and survives a     *)
(* power cut at any transfer of any later call on another file; emptying   *)
(* and removing a saved file is all or nothing, and renaming it leaves it  *)
(* under one of the names at least.                                        *)
Abstract ==
  INSTANCE Files WITH
    Handle <- Object, Units <- {new_units(u, n) : u \in 1 .. MaxCalls, n \in Length},
    Mode <- {conv_mode[m].flags : m \in OpenMode},
    file <- view.file,
    saved <- view.saved,
    handle <- view.handle,
    room <- view.room,
    faults <- fs.faults

ImplementsFiles == Abstract!FilesSpec

(* A call in which a transfer fails reports it.                            *)
ErrorsReported ==
  [][fs'.faults # fs.faults /\ ~power_cut => got' = NONE]_stdiovars
=============================================================================
