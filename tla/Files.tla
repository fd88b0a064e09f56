------------------------------- MODULE Files -------------------------------
(***************************************************************************)
(* What the file system promises its callers (ff.c, and the notes on it in *)
(* fatfs/doc/en/appnote.html): named sequences of units, read and written  *)
(* through handles, one handle at most to a file, on a medium with room    *)
(* for so many more clusters.  A file is saved when a power cut cannot     *)
(* change it.  A fault is a transfer that fails or a power cut; it may     *)
(* damage the file the call is about, and no other.                        *)
(***************************************************************************)
EXTENDS Integers, Sequences

CONSTANTS Name, Handle, Length, Offset, Units, Mode, NONE, BROKEN

VARIABLES
  file,        \* what each file holds; NONE: there is none, BROKEN: damaged
  saved,       \* is it on the medium
  handle,      \* [name, ptr, flags], or NONE
  got,         \* what the last call read; NONE if it reported an error
  room,        \* free clusters
  faults       \* faults so far

filesvars == <<file, saved, handle, got, room, faults>>

FilesInit ==
  /\ \A n \in Name : file[n] # BROKEN /\ saved[n]
  /\ \A h \in Handle : handle[h] = NONE
  /\ got = << >> /\ faults = 0

-----------------------------------------------------------------------------
Opened(n) == \E h \in Handle : handle[h] # NONE /\ handle[h].name = n

(* Nothing happens to the files other than those of N. *)
Others(N) == \A m \in Name \ N : file'[m] = file[m] /\ (saved[m] => saved'[m])

Quiet == faults' = faults /\ got' = << >>
Faulty == faults' = faults + 1 /\ got' = NONE

Name_of(h) == handle[h].name

Sound(h) ==
  handle[h] # NONE /\ "error" \notin handle[h].flags /\ file[Name_of(h)] # BROKEN

Usable(h, mode) == Sound(h) /\ mode \in handle[h].flags

Lesser(i, j) == IF i < j THEN i ELSE j

Refused == UNCHANGED <<handle, faults>> /\ Others({}) /\ got' = NONE

Open(h, n, flags) ==
  /\ handle[h] = NONE /\ ~Opened(n) /\ file[n] # NONE
  /\ handle' = [handle EXCEPT ![h] = [name |-> n, ptr |-> 0, flags |-> flags]]
  /\ Others({}) /\ Quiet

Create(h, n, flags) ==
  /\ handle[h] = NONE /\ ~Opened(n)
  /\ handle' = [handle EXCEPT ![h] = [name |-> n, ptr |-> 0, flags |-> flags \cup {"written"}]]
  /\ file'[n] = << >> /\ Others({n}) /\ Quiet

Read(h, k) ==
  /\ Usable(h, "r")
  /\ LET p == handle[h].ptr
         q == Lesser(p + k, Len(file[Name_of(h)]))
     IN /\ got' = SubSeq(file[Name_of(h)], p + 1, q)
        /\ handle' = [handle EXCEPT ![h].ptr = q]
  /\ Others({}) /\ UNCHANGED faults

(* The first k of the units u are put after the first p of s. *)
Overwritten(s, p, u, k) ==
  [i \in 1 .. (IF p + k > Len(s) THEN p + k ELSE Len(s)) |->
     IF i \in p + 1 .. p + k THEN u[i - p] ELSE s[i]]

(* Fewer units are written only when the medium is full. *)
Write(h, u) ==
  /\ Usable(h, "w")
  /\ \E j \in 0 .. Len(u) :
       /\ j < Len(u) => room' = 0
       /\ file'[Name_of(h)] = Overwritten(file[Name_of(h)], handle[h].ptr, u, j)
       /\ handle' = [handle EXCEPT ![h].ptr = @ + j, ![h].flags = @ \cup {"written"}]
  /\ Others({Name_of(h)}) /\ Quiet

(* To a place in the file, or to its end. *)
Seek(h, o) ==
  /\ Sound(h)
  /\ handle' = [handle EXCEPT ![h].ptr = Lesser(o, Len(file[Name_of(h)]))]
  /\ Others({}) /\ Quiet

(* Beyond the end of a file open for writing; what lies between is not     *)
(* defined.                                                                *)
Extend(h, o) ==
  /\ Usable(h, "w")
  /\ LET old == file[Name_of(h)]
         new == file'[Name_of(h)]
     IN /\ new \notin {NONE, BROKEN}
        /\ Len(old) < Len(new) /\ Len(new) <= o
        /\ Len(new) < o => room' = 0
        /\ SubSeq(new, 1, Len(old)) = old
        /\ handle' = [handle EXCEPT ![h].ptr = Len(new), ![h].flags = @ \cup {"written"}]
  /\ Others({Name_of(h)}) /\ Quiet

(* Not even one more unit *)
ExtendNone(h, o) ==
  /\ Usable(h, "w") /\ room' = 0
  /\ o > Len(file[Name_of(h)])
  /\ handle' = [handle EXCEPT ![h].ptr = Len(file[Name_of(h)])]
  /\ Others({Name_of(h)}) /\ file' = file /\ Quiet

(* What has been written is saved. *)
Saves(h) ==
  /\ Others({}) /\ Quiet
  /\ "written" \in handle[h].flags /\ "error" \notin handle[h].flags => saved'[Name_of(h)]

Sync(h) ==
  /\ handle[h] # NONE /\ Saves(h)
  /\ handle' = [handle EXCEPT ![h].flags = @ \ {"written"}]

Close(h) ==
  /\ handle[h] # NONE /\ Saves(h)
  /\ handle' = [handle EXCEPT ![h] = NONE]

Remove(n) ==
  /\ file[n] # NONE /\ ~Opened(n)
  /\ file'[n] = NONE /\ saved'[n] /\ Others({n}) /\ UNCHANGED handle /\ Quiet

Rename(n, m) ==
  /\ file[n] # NONE /\ ~Opened(n) /\ file[m] = NONE
  /\ file'[m] = file[n] /\ file'[n] = NONE
  /\ Others({n, m}) /\ UNCHANGED handle /\ Quiet

(* The free clusters are counted right as long as nothing has failed. *)
GetFree ==
  /\ Others({}) /\ UNCHANGED <<handle, room, faults>>
  /\ faults = 0 => got' = <<room>>

-----------------------------------------------------------------------------
(* A call on a damaged file *)
OnBroken(n) ==
  /\ file[n] = BROKEN /\ Others({n}) /\ UNCHANGED faults
  /\ \A h \in Handle :
       handle[h] # NONE /\ handle[h].name # n => handle'[h] = handle[h]

(* A transfer failed: of a call on handle h that does not write, or may    *)
(* (one of these may not even report it); of f_sync or f_close; of a call  *)
(* that makes, empties, removes or renames files.                          *)
FailedRead(h) ==
  /\ handle[h] # NONE /\ Others({}) /\ Faulty
  /\ handle'[h].flags = handle[h].flags \cup {"error"}
  /\ \A g \in Handle \ {h} : handle'[g] = handle[g]

FailedWrite(h) ==
  /\ handle[h] # NONE /\ "w" \in handle[h].flags
  /\ Others({Name_of(h)}) /\ faults' = faults + 1
  /\ handle'[h] # NONE
  /\ got' = NONE => handle'[h].flags = handle[h].flags \cup {"error"}
  /\ \A g \in Handle \ {h} : handle'[g] = handle[g]

FailedSync(h) ==
  /\ handle[h] # NONE /\ Faulty
  /\ Others({})
  /\ handle' \in {handle, [handle EXCEPT ![h].flags = @ \ {"written"}]}

FailedChange(N) ==
  /\ Faulty /\ UNCHANGED handle
  /\ \A n \in N : ~Opened(n)
  /\ Others(N)

(* The power was cut.  Saved files are as they were, unless the call was   *)
(* about one (in N).  No file is broken by it.  Emptying and removing are  *)
(* atomic for saved files; renaming may leave one with both names.         *)
PowerCut(N) ==
  /\ Faulty
  /\ \A h \in Handle : handle'[h] = NONE
  /\ \A n \in Name :
       /\ saved'[n]
       /\ saved[n] /\ n \notin N => file'[n] = file[n]
       /\ (\A m \in Name : file[m] # BROKEN) => file'[n] # BROKEN

CutWriting(h) == handle[h] # NONE /\ PowerCut({Name_of(h)})

CutEmptying(n) == PowerCut({n}) /\ (saved[n] => file'[n] \in {file[n], NONE, << >>})

CutRenaming(n, m) ==
  /\ PowerCut({n, m})
  /\ saved[n] /\ saved[m] =>
       <<file'[n], file'[m]>> \in {<<file[n], file[m]>>, <<file[m], file[n]>>, <<file[n], file[n]>>}

-----------------------------------------------------------------------------
FilesNext ==
  \/ Refused \/ GetFree \/ PowerCut({})
  \/ \E h \in Handle, n \in Name, m \in Mode : Open(h, n, m) \/ Create(h, n, m)
  \/ \E h \in Handle : (\E k \in Length : Read(h, k)) \/ (\E u \in Units : Write(h, u))
  \/ \E h \in Handle, o \in Offset : Seek(h, o) \/ Extend(h, o) \/ ExtendNone(h, o)
  \/ \E h \in Handle : Sync(h) \/ Close(h) \/ FailedSync(h) \/ CutWriting(h)
  \/ \E h \in Handle : FailedRead(h) \/ FailedWrite(h)
  \/ \E n \in Name : Remove(n) \/ OnBroken(n) \/ CutEmptying(n)
  \/ \E n, m \in Name : Rename(n, m) \/ FailedChange({n, m}) \/ CutRenaming(n, m)

FilesSpec == FilesInit /\ [][FilesNext]_filesvars
=============================================================================
