------------------------------ MODULE FileProofs ------------------------------
(***************************************************************************)
(* Proofs that no two files share a cluster (FatInv of KzStdio), save the  *)
(* two names that an interrupted renaming across sectors of the directory  *)
(* leaves, and that a call touches one file at most (CallsApart), for      *)
(* every volume, any number of files and calls, and with errors and power  *)
(* cuts at any transfer.                                                   *)
(*                                                                         *)
(* The argument.  What the routines do to a volume is in FatFsProofs.  The *)
(* files are in order (FilesInv) if every one has a head of its own and    *)
(* each open one is what CallInv asks for.  Each call keeps them so, but   *)
(* for f_rename: when it stops between its two writes the files are in     *)
(* order but for two entries (FilesTorn), and no call follows while the    *)
(* volume has both.                                                        *)
(*                                                                         *)
(* For CallsApart every cluster has an owner (Owned), the entry of the     *)
(* file whose chain it is in.  A call on a file is to keep the clusters of *)
(* all other owners (Realm): none of its steps writes there, in the FAT or *)
(* in the data, as no place that it may go on from leads into them (Away). *)
(* What the window takes to the medium is what the driver has, so a chain  *)
(* that was on the medium stays there.                                     *)
(***************************************************************************)
EXTENDS KzStdio, FatFsProofs

-----------------------------------------------------------------------------
(* All files: the invariant between calls *)

(* The entries of the root directory *)
Entries == 1 .. n_rootdir

(* The objects with which entry i is open (one at most) *)
Opener(files, i) == {h \in Object : files[h].open /\ files[h].slot = i}

(* Where the file of entry i starts for the driver: in its object while it *)
(* is open                                                                 *)
HeadOf(d, files, i) ==
  IF Opener(files, i) = {} THEN d[i].org ELSE files[CHOOSE h \in Opener(files, i) : TRUE].org

(* The heads of all files but that of entry k *)
HeadsBut(d, files, k) == {HeadOf(d, files, i) : i \in Entries \ {k}} \cap Cluster

(* The heads of all files *)
Heads(d, files) == {HeadOf(d, files, i) : i \in Entries} \cap Cluster

(* An object that is not marked has the head that its entry has. *)
Saved(v, p) == "written" \in p.flags \/ v.dir[p.slot].org = p.org

(* An open file and its entry *)
Opened(v, p) ==
  /\ p.slot \in Entries /\ v.dir[p.slot].name \in Name
  /\ v.dir[p.slot].org \in Cluster => p.org = v.dir[p.slot].org

(* An entry has a first cluster, or is empty. *)
Entered(e) == e.org \in Cluster \cup {0} /\ (e.org = 0 => e.size = 0)

(* The invariant of a volume and its file objects, between two calls and   *)
(* in them. What is after `faults = 0` fails after a fault: then clusters  *)
(* may be lost (in use and in no file), and an object may be wrong about   *)
(* its file, but never so that two files have a cluster in common.         *)
FilesInv(v, files) ==
  /\ Holds(v, Heads(v.dir, files))
  /\ DOMAIN files = Object /\ \A h \in Object : FileType(files[h])
  /\ \A h \in Object : files[h].open => Opened(v, files[h])
  /\ \A g, h \in Object : files[g].open /\ files[h].open /\ files[g].slot = files[h].slot => g = h
  /\ \A i, j \in Entries :
       HeadOf(v.dir, files, i) \in Cluster /\ HeadOf(v.dir, files, j) = HeadOf(v.dir, files, i) => i = j
  /\ v.faults = 0 =>
       /\ Tight(v, Heads(v.dir, files))
       /\ \A i \in Entries : Entered(v.dir[i])
       /\ \A h \in Object : files[h].open => Quiet(v, files[h]) /\ Saved(v, files[h])

(* The file of an open object starts where the object says. *)
LEMMA HeadOpen ==
  ASSUME NEW files, \A g, h \in Object : files[g].open /\ files[h].open /\ files[g].slot = files[h].slot => g = h,
         NEW h \in Object, files[h].open, NEW d
  PROVE  HeadOf(d, files, files[h].slot) = files[h].org
<1> DEFINE S == Opener(files, files[h].slot)
<1>1. S = {h}
  BY DEF Opener
<1>2. (CHOOSE g \in S : TRUE) = h
  BY <1>1
<1> QED
  BY <1>1, <1>2 DEF HeadOf

(* The heads are those of the others and that of entry k. *)
LEMMA HeadSplit ==
  ASSUME NEW d, NEW files, NEW k \in Entries
  PROVE  /\ Heads(d, files) = HeadsBut(d, files, k) \cup ({HeadOf(d, files, k)} \cap Cluster)
         /\ HeadsBut(d, files, k) \subseteq Heads(d, files)
         /\ HeadsBut(d, files, k) \subseteq Cluster
  BY DEF Heads, HeadsBut

(* The open files of two sets of file objects agree, but for that of entry *)
(* k                                                                       *)
OtherFiles(files, g, k) ==
  /\ \A h \in Object : files[h].open /\ files[h].slot # k => g[h] = files[h]
  /\ \A h \in Object : g[h].open /\ g[h].slot # k => g[h] = files[h]

(* The other files start where they did. *)
LEMMA HeadOther ==
  ASSUME NEW files, NEW g, NEW k, OtherFiles(files, g, k), NEW i, i # k, NEW d, NEW e, d[i] = e[i]
  PROVE  HeadOf(d, files, i) = HeadOf(e, g, i)
<1>1. Opener(files, i) = Opener(g, i)
  BY DEF Opener, OtherFiles
<1>2. CASE Opener(files, i) = {}
  BY <1>1, <1>2 DEF HeadOf
<1>3. CASE Opener(files, i) # {}
  <2> DEFINE h == CHOOSE h \in Opener(files, i) : TRUE
  <2>1. h \in Opener(files, i)
    BY <1>3
  <2>2. files[h] = g[h]
    BY <2>1 DEF Opener, OtherFiles
  <2> QED
    BY <1>1, <1>3, <2>2 DEF HeadOf
<1> QED
  BY <1>2, <1>3

(* The file objects g and the volume w after the entry k, or the file of   *)
(* it, has changed                                                         *)
Rebuilt(v, files, w, g, k) ==
  LET R == HeadsBut(v.dir, files, k)
      o == HeadOf(w.dir, g, k)
  IN /\ DOMAIN g = Object /\ (\A h \in Object : FileType(g[h])) /\ OtherFiles(files, g, k)
     /\ \A i \in Entries : i # k => w.dir[i] = v.dir[i]
     /\ \A h \in Object : g[h].open /\ g[h].slot = k =>
          /\ Opened(w, g[h])
          /\ \A f \in Object : g[f].open /\ g[f].slot = k => f = h
          /\ w.faults = 0 => Quiet(w, g[h]) /\ Saved(w, g[h])
     /\ o \notin R /\ Holds(w, R \cup ({o} \cap Cluster)) /\ w.csize = v.csize
     /\ w.faults = 0 => /\ v.faults = 0 /\ Tight(w, R \cup ({o} \cap Cluster)) /\ GrowOn(v.fat, w.fat, R)
                        /\ Entered(w.dir[k])

(* The step on which all calls rest: if the file of entry k has changed so *)
(* that its head is not that of another file and the chains of the others  *)
(* are as they were or longer, then the invariant holds again.             *)
LEMMA Rebuild ==
  ASSUME NEW v, NEW files, FilesInv(v, files), NEW w, NEW g, NEW k \in Entries, Rebuilt(v, files, w, g, k)
  PROVE  FilesInv(w, g)
<1> DEFINE R == HeadsBut(v.dir, files, k)
           o == HeadOf(w.dir, g, k)
<1>1. \A i \in Entries : i # k => HeadOf(w.dir, g, i) = HeadOf(v.dir, files, i) /\ w.dir[i] = v.dir[i]
  BY HeadOther DEF Rebuilt
<1>2. HeadsBut(w.dir, g, k) = R
  BY <1>1 DEF HeadsBut
<1>3. Heads(w.dir, g) = R \cup ({o} \cap Cluster)
  BY <1>2, HeadSplit
<1>4. Holds(w, Heads(w.dir, g)) /\ o \notin R /\ DOMAIN g = Object /\ (\A h \in Object : FileType(g[h]))
      /\ OtherFiles(files, g, k) /\ w.csize = v.csize
  BY <1>3 DEF Rebuilt
<1>5. ASSUME NEW h \in Object, g[h].open, g[h].slot # k
      PROVE  g[h] = files[h] /\ g[h].slot \in Entries /\ w.dir[g[h].slot] = v.dir[g[h].slot]
  <2>1. g[h] = files[h]
    BY <1>4, <1>5 DEF OtherFiles
  <2>2. g[h].slot \in Entries
    BY <1>5, <2>1 DEF FilesInv, Opened
  <2> QED
    BY <1>1, <1>5, <2>1, <2>2
<1>6. ASSUME NEW h \in Object, g[h].open
      PROVE  Opened(w, g[h])
  <2>1. CASE g[h].slot = k
    BY <1>6, <2>1 DEF Rebuilt
  <2>2. CASE g[h].slot # k
    BY <1>5, <1>6, <2>2 DEF FilesInv, Opened
  <2> QED
    BY <2>1, <2>2
<1>7. ASSUME NEW f \in Object, NEW h \in Object, g[f].open, g[h].open, g[f].slot = g[h].slot
      PROVE  f = h
  <2>1. CASE g[h].slot = k
    BY <1>7, <2>1 DEF Rebuilt
  <2>2. CASE g[h].slot # k
    BY <1>5, <1>7, <2>2 DEF FilesInv
  <2> QED
    BY <2>1, <2>2
<1>8. ASSUME NEW i \in Entries, NEW j \in Entries, HeadOf(w.dir, g, i) \in Cluster,
             HeadOf(w.dir, g, j) = HeadOf(w.dir, g, i)
      PROVE  i = j
  <2>1. CASE i # k /\ j # k
    BY <1>1, <1>8, <2>1 DEF FilesInv
  <2>2. ASSUME NEW a \in Entries, a # k, HeadOf(w.dir, g, a) = o, o \in Cluster
        PROVE  FALSE
    <3>1. o \in R
      BY <1>1, <2>2 DEF HeadsBut
    <3> QED
      BY <1>4, <3>1
  <2> QED
    BY <1>8, <2>1, <2>2
<1>9. ASSUME w.faults = 0
      PROVE  /\ Tight(w, Heads(w.dir, g))
             /\ \A i \in Entries : Entered(w.dir[i])
             /\ \A h \in Object : g[h].open => Quiet(w, g[h]) /\ Saved(w, g[h])
  <2>1. v.faults = 0 /\ Tight(w, Heads(w.dir, g)) /\ GrowOn(v.fat, w.fat, R) /\ Entered(w.dir[k])
    BY <1>3, <1>9 DEF Rebuilt
  <2>2. \A i \in Entries : Entered(w.dir[i])
    BY <1>1, <2>1 DEF FilesInv
  <2>3. ASSUME NEW h \in Object, g[h].open
        PROVE  Quiet(w, g[h]) /\ Saved(w, g[h])
    <3>1. CASE g[h].slot = k
      BY <1>9, <2>3, <3>1 DEF Rebuilt
    <3>2. CASE g[h].slot # k
      <4> DEFINE p == g[h]
      <4>1. p = files[h] /\ files[h].open /\ p.slot \in Entries /\ w.dir[p.slot] = v.dir[p.slot]
        BY <1>5, <2>3, <3>2
      <4>2. Quiet(v, p) /\ Saved(v, p)
        BY <2>1, <4>1 DEF FilesInv
      <4>3. HeadOf(v.dir, files, p.slot) = p.org
        <5>1. \A a, b \in Object : files[a].open /\ files[b].open /\ files[a].slot = files[b].slot => a = b
          BY DEF FilesInv
        <5>2. HeadOf(v.dir, files, files[h].slot) = files[h].org
          <6> HIDE DEF p
          <6> QED
            BY <4>1, <5>1, HeadOpen
        <5> QED
          BY <4>1, <5>2
      <4>4. p.org \in Cluster => p.org \in R
        BY <3>2, <4>1, <4>3 DEF HeadsBut
      <4>5. clusters(v.fat, p.org) \subseteq clusters(w.fat, p.org)
        <5>1. CASE p.org \in Cluster
          BY <2>1, <4>4, <5>1 DEF GrowOn
        <5>2. CASE p.org \notin Cluster
          BY <5>2, ChainIn
        <5> QED
          BY <5>1, <5>2
      <4> HIDE DEF p
      <4>6. Quiet(w, p) /\ Saved(w, p)
        BY <1>4, <4>1, <4>2, <4>5 DEF Quiet, Saved
      <4> QED
        BY <4>6 DEF p
    <3> QED
      BY <3>1, <3>2
  <2> QED
    BY <2>1, <2>2, <2>3
<1> QED
  BY <1>4, <1>6, <1>7, <1>8, <1>9 DEF FilesInv

(* A call on the file of object h sees the other files as heads that it    *)
(* must keep off,                                                          *)
CallView(v, files, h) ==
  [k |-> files[h].slot, heads |-> HeadsBut(v.dir, files, files[h].slot), dir |-> v.dir,
   fat |-> v.fat, csize |-> v.csize]

(* and begins in this state. *)
CallState(v, p) == [v |-> v, fp |-> p, got |-> << >>, nsect |-> NONE, left |-> 0, c |-> 0]

(* At the start of a call the invariant of files gives that of the call. *)
LEMMA Enter ==
  ASSUME NEW v, NEW files, FilesInv(v, files), NEW h \in Object, files[h].open
  PROVE  LET x == CallView(v, files, h)
             s == CallState(v, files[h])
         IN CallInv(x, s) /\ Others(x) /\ s.v = v /\ s.fp = files[h]
<1> DEFINE x == CallView(v, files, h)
           s == CallState(v, files[h])
           p == files[h]
           R == HeadsBut(v.dir, files, p.slot)
<1>1. s.v = v /\ s.fp = p /\ s.left = 0 /\ s.c = 0 /\ DOMAIN s = CallFields
  BY DEF CallState, CallFields
<1>2. x.k = p.slot /\ x.heads = R /\ x.dir = v.dir /\ x.fat = v.fat /\ x.csize = v.csize
  BY DEF CallView
<1> HIDE DEF x, s
<1>3. Opened(v, p) /\ FileType(p) /\ VolType(v) /\ p.slot \in Entries /\ Holds(v, Heads(v.dir, files))
  BY DEF FilesInv, Opened, Holds
<1>4. CallType(s)
  BY <1>1, <1>3 DEF CallType
<1>5. HeadOf(v.dir, files, p.slot) = p.org
  <2>1. \A a, b \in Object : files[a].open /\ files[b].open /\ files[a].slot = files[b].slot => a = b
    BY DEF FilesInv
  <2> QED
    BY <2>1, HeadOpen
<1>6. Heads(v.dir, files) = R \cup Own(p)
  BY <1>3, <1>5, HeadSplit DEF Own
<1>7. p.org \notin R
  BY <1>3, <1>5 DEF HeadsBut, FilesInv
<1>8. v.faults = 0 => Tight(v, R \cup Own(p)) /\ GrowOn(v.fat, v.fat, R) /\ Quiet(v, p)
  BY <1>6 DEF FilesInv, GrowOn
<1>9. CallInv(x, s)
  BY <1>1, <1>2, <1>3, <1>4, <1>6, <1>7, <1>8 DEF CallInv, Opened
<1>10. Others(x)
  <2> SUFFICES ASSUME NEW i \in Entries, i # p.slot, v.dir[i].org \in Cluster
               PROVE  v.dir[i].org \in R
    BY <1>2, <1>3 DEF Others, Entries, Opened
  <2>1. HeadOf(v.dir, files, i) = v.dir[i].org
    <3>1. CASE Opener(files, i) = {}
      BY <3>1 DEF HeadOf
    <3>2. CASE Opener(files, i) # {}
      <4>1. (CHOOSE g \in Opener(files, i) : TRUE) \in Opener(files, i)
        BY <3>2
      <4> QED
        BY <3>2, <4>1 DEF HeadOf, Opener, FilesInv, Opened
    <3> QED
      BY <3>1, <3>2
  <2> QED
    BY <2>1 DEF HeadsBut
<1> QED
  BY <1>1, <1>9, <1>10 DEF x, s

(* What a call on the file of h may do to the directory *)
Left(v, files, h, t) ==
  LET k == files[h].slot
  IN /\ CallInv(With(CallView(v, files, h), t.v.dir), t)
     /\ \A i \in Entries : i # k => t.v.dir[i] = v.dir[i]
     /\ t.v.dir[k].name = v.dir[k].name
     /\ t.v.faults = 0 => v.faults = 0 /\ Entered(t.v.dir[k])

(* This gives, of the file itself: *)
LeftTo(v, files, h, t) ==
  LET k == files[h].slot
      R == HeadsBut(v.dir, files, k)
  IN /\ k \in Entries /\ R \subseteq Cluster /\ CallType(t) /\ FileType(t.fp) /\ VolType(t.v)
     /\ t.fp.open /\ t.fp.slot = k /\ t.v.csize = v.csize /\ t.fp.org \notin R
     /\ Holds(t.v, R \cup Own(t.fp)) /\ t.v.dir[k].name \in Name
     /\ t.v.dir[k].org \in Cluster => t.v.dir[k].org = t.fp.org
     /\ t.v.faults = 0 => Tight(t.v, R \cup Own(t.fp)) /\ GrowOn(v.fat, t.v.fat, R) /\ Quiet(t.v, t.fp)

(* See LeftTo. *)
LEMMA LeftFacts ==
  ASSUME NEW v, NEW files, FilesInv(v, files), NEW h \in Object, files[h].open, NEW t, Left(v, files, h, t)
  PROVE  LeftTo(v, files, h, t)
<1> DEFINE y == With(CallView(v, files, h), t.v.dir)
<1>1. /\ y.k = files[h].slot /\ y.heads = HeadsBut(v.dir, files, files[h].slot) /\ y.dir = t.v.dir
      /\ y.fat = v.fat /\ y.csize = v.csize
  BY DEF With, CallView
<1>2. CallInv(y, t)
  BY DEF Left
<1> HIDE DEF y
<1>3. files[h].slot \in Entries /\ v.dir[files[h].slot].name \in Name
  BY DEF FilesInv, Opened
<1>4. HeadsBut(v.dir, files, files[h].slot) \subseteq Cluster
  BY DEF HeadsBut
<1> QED
  BY <1>1, <1>2, <1>3, <1>4 DEF CallInv, CallType, Left, LeftTo

(* At the end of a call that leaves the file open, the invariant of the    *)
(* call gives back that of the files,                                      *)
LEMMA LeaveOpen ==
  ASSUME NEW v, NEW files, FilesInv(v, files), NEW h \in Object, files[h].open, NEW t, Left(v, files, h, t),
         t.v.faults = 0 => Saved(t.v, t.fp)
  PROVE  FilesInv(t.v, [files EXCEPT ![h] = t.fp])
<1> DEFINE k == files[h].slot
           R == HeadsBut(v.dir, files, k)
           w == t.v
           p == t.fp
           g == [files EXCEPT ![h] = p]
<1>1. /\ k \in Entries /\ R \subseteq Cluster /\ FileType(p)
      /\ p.open /\ p.slot = k /\ w.csize = v.csize /\ p.org \notin R
      /\ Holds(w, R \cup Own(p)) /\ w.dir[k].name \in Name
      /\ w.dir[k].org \in Cluster => w.dir[k].org = p.org
      /\ w.faults = 0 => Tight(w, R \cup Own(p)) /\ GrowOn(v.fat, w.fat, R) /\ Quiet(w, p)
  <2>1. LeftTo(v, files, h, t)
    <3> HIDE DEF g
    <3> QED
      BY LeftFacts
  <2> QED
    BY <2>1 DEF LeftTo
<1>2. /\ \A i \in Entries : i # k => w.dir[i] = v.dir[i]
      /\ w.faults = 0 => v.faults = 0 /\ Entered(w.dir[k])
  BY DEF Left
<1>3. DOMAIN files = Object /\ (\A f \in Object : FileType(files[f]))
      /\ \A a, b \in Object : files[a].open /\ files[b].open /\ files[a].slot = files[b].slot => a = b
  BY DEF FilesInv
<1>4. DOMAIN g = Object /\ g[h] = p /\ \A f \in Object : f # h => g[f] = files[f]
  BY <1>3
<1> HIDE DEF g, p, w
<1>5. \A a, b \in Object : g[a].open /\ g[b].open /\ g[a].slot = g[b].slot => a = b
  BY <1>1, <1>3, <1>4
<1>6. HeadOf(w.dir, g, k) = p.org
  <2>1. g[h].open /\ g[h].slot = k
    BY <1>1, <1>4
  <2>2. HeadOf(w.dir, g, g[h].slot) = g[h].org
    BY <1>5, <2>1, HeadOpen
  <2> QED
    BY <1>4, <2>1, <2>2
<1>7. OtherFiles(files, g, k)
  BY <1>1, <1>3, <1>4 DEF OtherFiles
<1>8. \A f \in Object : FileType(g[f])
  BY <1>1, <1>3, <1>4
<1>9. ASSUME NEW f \in Object, g[f].open, g[f].slot = k
      PROVE  /\ Opened(w, g[f])
             /\ \A a \in Object : g[a].open /\ g[a].slot = k => a = f
             /\ w.faults = 0 => Quiet(w, g[f]) /\ Saved(w, g[f])
  <2>1. f = h
    BY <1>1, <1>4, <1>5, <1>9
  <2> QED
    BY <1>1, <1>4, <1>5, <2>1 DEF Opened, w, p
<1>10. Rebuilt(v, files, w, g, k)
  BY <1>1, <1>2, <1>4, <1>6, <1>7, <1>8, <1>9 DEF Rebuilt, Own
<1> QED
  BY <1>1, <1>10, Rebuild DEF g, p, w

(* and so it does when the file is closed, if its entry has been written. *)
LEMMA LeaveClosed ==
  ASSUME NEW v, NEW files, FilesInv(v, files), NEW h \in Object, files[h].open, NEW t, Left(v, files, h, t),
         t.v.faults = 0 => t.v.dir[files[h].slot].org = t.fp.org, NEW p, FileType(p), ~p.open
  PROVE  FilesInv(t.v, [files EXCEPT ![h] = p])
<1> DEFINE k == files[h].slot
           R == HeadsBut(v.dir, files, k)
           w == t.v
           o == w.dir[k].org
           Q == R \cup ({o} \cap Cluster)
           g == [files EXCEPT ![h] = p]
<1>1. /\ k \in Entries /\ R \subseteq Cluster
      /\ w.csize = v.csize /\ t.fp.org \notin R
      /\ Holds(w, R \cup Own(t.fp))
      /\ o \in Cluster => o = t.fp.org
      /\ w.faults = 0 => Tight(w, R \cup Own(t.fp)) /\ GrowOn(v.fat, w.fat, R)
  <2>1. LeftTo(v, files, h, t)
    <3> HIDE DEF g
    <3> QED
      BY LeftFacts
  <2> QED
    BY <2>1 DEF LeftTo
<1>2. /\ \A i \in Entries : i # k => w.dir[i] = v.dir[i]
      /\ w.faults = 0 => v.faults = 0 /\ Entered(w.dir[k])
  BY DEF Left
<1>3. DOMAIN files = Object /\ (\A f \in Object : FileType(files[f]))
      /\ \A a, b \in Object : files[a].open /\ files[b].open /\ files[a].slot = files[b].slot => a = b
  BY DEF FilesInv
<1>4. DOMAIN g = Object /\ g[h] = p /\ \A f \in Object : f # h => g[f] = files[f]
  BY <1>3
<1> HIDE DEF g, w
<1>5. \A f \in Object : ~(g[f].open /\ g[f].slot = k)
  BY <1>3, <1>4
<1>6. HeadOf(w.dir, g, k) = o
  <2>1. Opener(g, k) = {}
    BY <1>5 DEF Opener
  <2> QED
    BY <2>1 DEF HeadOf
<1>7. OtherFiles(files, g, k)
  BY <1>3, <1>4 DEF OtherFiles
<1>8. \A f \in Object : FileType(g[f])
  BY <1>3, <1>4
<1>9. o \notin R /\ Q \subseteq R \cup Own(t.fp) /\ (w.faults = 0 => Q = R \cup Own(t.fp))
  BY <1>1 DEF Own, w
<1>10. HeadsIn(w.dir, Q)
  <2>1. HeadsIn(w.dir, R \cup Own(t.fp))
    BY <1>1 DEF Holds
  <2>2. ASSUME NEW i \in Entries, w.dir[i].org \in Cluster
        PROVE  w.dir[i].org \in Q
    <3>1. CASE i = k
      BY <2>2, <3>1
    <3>2. CASE i # k
      <4>1. Others(CallView(v, files, h))
        BY Enter
      <4>2. CallView(v, files, h).k = k /\ CallView(v, files, h).heads = R /\ CallView(v, files, h).dir = v.dir
        BY DEF CallView
      <4>3. v.dir[i].org \in R
        BY <1>2, <2>2, <3>2, <4>1, <4>2 DEF Others, Entries
      <4> QED
        BY <1>2, <3>2, <4>3
    <3> QED
      BY <3>1, <3>2
  <2> HIDE DEF Q
  <2> QED
    BY <2>1, <2>2 DEF HeadsIn, Entries
<1>11. Holds(w, Q)
  BY <1>1, <1>9, <1>10, HoldsLess
<1>12. Rebuilt(v, files, w, g, k)
  BY <1>1, <1>2, <1>4, <1>5, <1>6, <1>7, <1>8, <1>9, <1>11 DEF Rebuilt
<1> QED
  BY <1>1, <1>12, Rebuild DEF g, w

(* So a call that keeps the invariant of calls and marks what it has       *)
(* changed keeps the invariant of files: reading, writing, seeking.        *)
LEMMA FileCall ==
  ASSUME NEW v, NEW files, FilesInv(v, files), NEW h \in Object, files[h].open,
         NEW t, CallInv(CallView(v, files, h), t), Marked(CallState(v, files[h]), t)
  PROVE  FilesInv(t.v, [files EXCEPT ![h] = t.fp])
<1> DEFINE x == CallView(v, files, h)
           s == CallState(v, files[h])
           k == files[h].slot
           p == files[h]
<1>1. s.v = v /\ s.fp = p
  BY DEF CallState
<1>2. x.k = k /\ x.dir = v.dir /\ x.fat = v.fat /\ x.csize = v.csize
      /\ x.heads = HeadsBut(v.dir, files, k)
  BY DEF CallView
<1> HIDE DEF s
<1>3. Opened(v, p) /\ k \in Entries
  BY DEF FilesInv, Opened
<1>4. v.faults = 0 => Entered(v.dir[k]) /\ Saved(v, p)
  BY <1>3 DEF FilesInv
<1>5. t.v.dir = v.dir /\ CallInv(With(x, t.v.dir), t) /\ t.fp.slot = k
  <2> HIDE DEF x
  <2>1. t.v.dir = v.dir /\ t.fp.slot = k
    BY <1>2 DEF CallInv, x
  <2>2. CallInv(x, t)
    BY DEF x
  <2>3. LET y == With(x, t.v.dir)
        IN y.k = x.k /\ y.heads = x.heads /\ y.dir = x.dir /\ y.fat = x.fat /\ y.csize = x.csize
    BY <1>2, <2>1 DEF With
  <2> QED
    BY <2>1, <2>2, <2>3 DEF CallInv
<1>6. t.v.faults = 0 => v.faults = 0 /\ Entered(t.v.dir[k]) /\ Saved(t.v, t.fp)
  BY <1>1, <1>4, <1>5 DEF Marked, Saved, SameFile, s
<1>7. Left(v, files, h, t)
  BY <1>5, <1>6 DEF Left
<1> QED
  BY <1>6, <1>7, LeaveOpen

(* f_sync leaves an entry that agrees with the file object, or an error. *)
LEMMA SyncLeft ==
  ASSUME NEW v, NEW files, FilesInv(v, files), NEW h \in Object, files[h].open,
         NEW t, SyncedTo(CallView(v, files, h), CallState(v, files[h]), t)
  PROVE  /\ Left(v, files, h, t)
         /\ t.v.faults = 0 => Saved(t.v, t.fp)
         /\ t.v.faults = 0 /\ ~t.v.err => t.v.dir[files[h].slot].org = t.fp.org
<1> DEFINE x == CallView(v, files, h)
           s == CallState(v, files[h])
           k == files[h].slot
           p == files[h]
<1>1. s.v = v /\ s.fp = p
  BY DEF CallState
<1>2. x.k = k /\ x.dir = v.dir /\ x.fat = v.fat /\ x.csize = v.csize
      /\ x.heads = HeadsBut(v.dir, files, k)
  BY DEF CallView
<1>3. SyncedTo(x, s, t)
  OBVIOUS
<1>4. Opened(v, p) /\ k \in Entries
  BY DEF FilesInv, Opened
<1>5. v.faults = 0 => Entered(v.dir[k]) /\ Saved(v, p)
  BY <1>4 DEF FilesInv
<1> HIDE DEF s, x
<1>6. t.v.faults = v.faults
  BY <1>1, <1>3 DEF SyncedTo
<1>7. CASE CallInv(x, t) /\ (t.v.faults = 0 => SameFile(s, t)) /\ ("written" \in s.fp.flags => t.v.err)
  <2>1. t.v.dir = v.dir /\ t.fp.slot = k
    BY <1>2, <1>7 DEF CallInv
  <2>2. LET y == With(x, t.v.dir)
        IN y.k = x.k /\ y.heads = x.heads /\ y.dir = x.dir /\ y.fat = x.fat /\ y.csize = x.csize
    BY <1>2, <2>1 DEF With
  <2>3. CallInv(With(x, t.v.dir), t)
    BY <1>7, <2>1, <2>2 DEF CallInv
  <2>4. t.v.faults = 0 => Entered(t.v.dir[k]) /\ Saved(t.v, t.fp)
    BY <1>1, <1>5, <1>6, <1>7, <2>1 DEF Saved, SameFile
  <2>5. t.v.faults = 0 /\ ~t.v.err => t.v.dir[k].org = t.fp.org
    BY <1>1, <1>5, <1>6, <1>7, <2>1 DEF Saved, SameFile
  <2> QED
    BY <1>6, <2>1, <2>3, <2>4, <2>5 DEF Left, x
<1>8. CASE /\ CallInv(With(x, t.v.dir), t) /\ t.v.dir[x.k].org = t.fp.org /\ t.v.dir[x.k].size = t.fp.size
           /\ t.v.dir[x.k].name = x.dir[x.k].name
           /\ \A i \in 1 .. n_rootdir : i # x.k => t.v.dir[i] = x.dir[i]
  <2>1. t.fp.slot = k
    BY <1>2, <1>8 DEF CallInv, With
  <2>2. t.v.faults = 0 => Entered(t.v.dir[k])
    BY <1>2, <1>8 DEF CallInv, Quiet, Entered
  <2>3. Saved(t.v, t.fp) /\ t.v.dir[k].org = t.fp.org
    BY <1>2, <1>8, <2>1 DEF Saved
  <2>4. t.v.dir[k].name = v.dir[k].name /\ \A i \in Entries : i # k => t.v.dir[i] = v.dir[i]
    BY <1>2, <1>8 DEF Entries
  <2> QED
    BY <1>6, <1>8, <2>2, <2>3, <2>4 DEF Left, x
<1> QED
  BY <1>3, <1>7, <1>8 DEF SyncedTo

(* So f_sync keeps the invariant of files, and after it the file can be    *)
(* closed.                                                                 *)
LEMMA SyncCall ==
  ASSUME NEW v, NEW files, FilesInv(v, files), NEW h \in Object, files[h].open, ~v.err,
         NEW t, t = f_sync(CallState(v, files[h]))
  PROVE  /\ FilesInv(t.v, [files EXCEPT ![h] = t.fp]) /\ CallType(t)
         /\ \A p : FileType(p) /\ ~p.open /\ ~t.v.err => FilesInv(t.v, [files EXCEPT ![h] = p])
<1> DEFINE x == CallView(v, files, h)
           s == CallState(v, files[h])
<1>1. CallInv(x, s) /\ Others(x) /\ s.v = v
  BY Enter
<1>2. SyncedTo(x, s, t)
  <2> HIDE DEF x, s
  <2>1. t = f_sync(s)
    BY DEF s
  <2> QED
    BY <1>1, <2>1, SyncFile
<1> HIDE DEF x, s
<1>3. /\ Left(v, files, h, t)
      /\ t.v.faults = 0 => Saved(t.v, t.fp)
      /\ t.v.faults = 0 /\ ~t.v.err => t.v.dir[files[h].slot].org = t.fp.org
  BY <1>2, SyncLeft DEF x, s
<1>4. FilesInv(t.v, [files EXCEPT ![h] = t.fp])
  BY <1>3, LeaveOpen
<1>5. ASSUME NEW p, FileType(p), ~p.open, ~t.v.err
      PROVE  FilesInv(t.v, [files EXCEPT ![h] = p])
  BY <1>3, <1>5, LeaveClosed
<1>6. CallType(t)
  BY <1>3 DEF Left, CallInv
<1> QED
  BY <1>4, <1>5, <1>6

(* The invariant of files speaks of the FAT, the directory, the medium and *)
(* the count of free clusters only.                                        *)
LEMMA FilesSame ==
  ASSUME NEW v, NEW files, FilesInv(v, files), NEW w, VolType(w), w.fat = v.fat, w.dir = v.dir,
         w.csize = v.csize, SoundDisk(w.disk, w.torn),
         w.faults = 0 => v.faults = 0 /\ w.free \in {v.free, UNKNOWN, n_free(w)}
  PROVE  FilesInv(w, files)
<1>1. Holds(w, Heads(w.dir, files))
  BY DEF FilesInv, Holds
<1>2. \A h \in Object : files[h].open => Opened(w, files[h])
  BY DEF FilesInv, Opened
<1>3. ASSUME w.faults = 0
      PROVE  /\ Tight(w, Heads(w.dir, files))
             /\ \A h \in Object : files[h].open => Quiet(w, files[h]) /\ Saved(w, files[h])
  <2>1. Tight(w, Heads(w.dir, files))
    BY <1>3 DEF FilesInv, Tight, n_free
  <2> QED
    BY <1>3, <2>1 DEF FilesInv, Quiet, Saved
<1> QED
  BY <1>1, <1>2, <1>3 DEF FilesInv

(* Transfers keep it. *)
LEMMA FilesMove ==
  ASSUME NEW v, NEW files, FilesInv(v, files), NEW w, Moves(v, w)
  PROVE  FilesInv(w, files)
<1>1. SoundDisk(w.disk, w.torn)
  <2>1. Holds(w, Heads(v.dir, files))
    BY HoldsMoves DEF FilesInv
  <2> QED
    BY <2>1 DEF Holds
<1> QED
  BY <1>1, FilesSame DEF Moves

(* A renaming that was interrupted has left two names with one chain: what *)
(* FilesInv says, but for these.                                           *)
FilesTorn(v, files) ==
  /\ VolType(v) /\ SoundDisk(v.disk, v.torn) /\ v.faults # 0
  /\ InOrder(v.fat, Heads(v.dir, files)) /\ HeadsShared(v.dir, Heads(v.dir, files), v.torn)
  /\ DOMAIN files = Object /\ \A h \in Object : FileType(files[h])
  /\ \A h \in Object : files[h].open => Opened(v, files[h])
  /\ \A g, h \in Object : files[g].open /\ files[h].open /\ files[g].slot = files[h].slot => g = h
  /\ \A i, j \in Entries :
       i # j /\ HeadOf(v.dir, files, i) \in Cluster /\ HeadOf(v.dir, files, j) = HeadOf(v.dir, files, i) =>
         /\ v.dir[i].org = HeadOf(v.dir, files, i) /\ v.dir[j].org = HeadOf(v.dir, files, j)
         /\ {v.dir[i].name, v.dir[j].name} \in v.torn

(* It is FilesInv again if there are no two such names. *)
LEMMA Untorn ==
  ASSUME NEW v, NEW files, FilesTorn(v, files), ~two_names(v.dir)
  PROVE  FilesInv(v, files)
<1> DEFINE H == Heads(v.dir, files)
<1>1. \A i, j \in Entries : i # j /\ v.dir[i].org = v.dir[j].org => v.dir[i].org \notin Cluster
  BY DEF two_names, Entries
<1>2. HeadsIn(v.dir, H)
  BY <1>1 DEF FilesTorn, HeadsShared, HeadsIn, Entries
<1>3. \A i, j \in Entries :
        HeadOf(v.dir, files, i) \in Cluster /\ HeadOf(v.dir, files, j) = HeadOf(v.dir, files, i) => i = j
  BY <1>1 DEF FilesTorn
<1>4. Holds(v, H)
  BY <1>2 DEF FilesTorn, Holds, Heads
<1> QED
  BY <1>3, <1>4 DEF FilesTorn, FilesInv

(* Both, whatever the medium has of what the driver has *)
Sound(v, files) == FilesInv(v, files) \/ FilesTorn(v, files)

(* Two volumes with the same FAT and directory, of which the second has a  *)
(* sound medium too *)
LEMMA TornSame ==
  ASSUME NEW v, NEW files, FilesTorn(v, files), NEW w, VolType(w), w.fat = v.fat, w.dir = v.dir,
         w.torn = v.torn, w.faults # 0, SoundDisk(w.disk, w.torn)
  PROVE  FilesTorn(w, files)
  BY DEF FilesTorn, Opened

(* What the driver has can be on the medium. *)
LEMMA TornDisk ==
  ASSUME NEW v, NEW files, FilesTorn(v, files)
  PROVE  SoundDisk([fat |-> v.fat, dir |-> v.dir], v.torn)
<1> DEFINE H == Heads(v.dir, files)
<1>1. H \in SUBSET Cluster /\ InOrder(v.fat, H) /\ HeadsShared(v.dir, H, v.torn)
  BY DEF FilesTorn, Heads
<1> HIDE DEF H
<1> QED
  BY <1>1 DEF FilesTorn, SoundDisk, VolType

(* Transfers keep it, with or without two such names. *)
LEMMA SoundMove ==
  ASSUME NEW v, NEW files, Sound(v, files), NEW w, Moves(v, w)
  PROVE  Sound(w, files)
<1>1. CASE FilesInv(v, files)
  BY <1>1, FilesMove DEF Sound
<1>2. CASE FilesTorn(v, files)
  <2>1. SoundDisk(w.disk, w.torn)
    BY <1>2, TornDisk DEF Moves, FilesTorn
  <2>2. w.faults # 0
    BY <1>2 DEF Moves, FilesTorn
  <2> QED
    BY <1>2, <2>1, <2>2, TornSame DEF Moves, Sound
<1> QED
  BY <1>1, <1>2 DEF Sound

(* What the two have in common *)
LEMMA SoundFacts ==
  ASSUME NEW v, NEW files, Sound(v, files)
  PROVE  /\ VolType(v) /\ SoundDisk(v.disk, v.torn) /\ InOrder(v.fat, Heads(v.dir, files))
         /\ \A i, j \in Entries :
              i # j /\ HeadOf(v.dir, files, i) \in Cluster /\ HeadOf(v.dir, files, j) = HeadOf(v.dir, files, i) =>
                {v.dir[i].name, v.dir[j].name} \in v.torn
  BY DEF Sound, FilesInv, Holds, FilesTorn

(* After a power cut the volume is what was on the medium, and no file is  *)
(* open: the medium may have two such names.                               *)
LEMMA Remounted ==
  ASSUME NEW w, VolType(w), SoundDisk(w.disk, w.torn), w.fat = w.disk.fat, w.dir = w.disk.dir, w.faults # 0,
         NEW files, DOMAIN files = Object, \A h \in Object : FileType(files[h]) /\ ~files[h].open
  PROVE  FilesTorn(w, files)
<1>1. \A i \in Entries : HeadOf(w.dir, files, i) = w.dir[i].org
  <2>1. \A i \in Entries : Opener(files, i) = {}
    BY DEF Opener
  <2> QED
    BY <2>1 DEF HeadOf
<1> DEFINE Q == Heads(w.dir, files)
<1>2. PICK R \in SUBSET Cluster : InOrder(w.fat, R) /\ HeadsShared(w.dir, R, w.torn)
  BY DEF SoundDisk
<1>3. Q \subseteq R
  BY <1>1, <1>2 DEF Heads, HeadsShared, Entries
<1>4. InOrder(w.fat, Q)
  BY <1>2, <1>3, OrderLess
<1>5. HeadsShared(w.dir, Q, w.torn)
  BY <1>1, <1>2 DEF Heads, HeadsShared, Entries
<1>6. \A i, j \in Entries :
        i # j /\ HeadOf(w.dir, files, i) \in Cluster /\ HeadOf(w.dir, files, j) = HeadOf(w.dir, files, i) =>
          /\ w.dir[i].org = HeadOf(w.dir, files, i) /\ w.dir[j].org = HeadOf(w.dir, files, j)
          /\ {w.dir[i].name, w.dir[j].name} \in w.torn
  BY <1>1, <1>2 DEF HeadsShared, Entries
<1> QED
  BY <1>4, <1>5, <1>6 DEF FilesTorn

-----------------------------------------------------------------------------
(* The begin and the end of a call *)

(* The inductive invariant: FilesInv or FilesTorn, and no error or         *)
(* transfer that is to fail is left from the last call.                    *)
SoundInv == Sound(fs, fil) /\ ~fs.err /\ fs.fail = 0

(* With what a call begins: no two names have one chain. *)
FileInv == FilesInv(fs, fil) /\ ~fs.err /\ fs.fail = 0

(* What free clusters hold matters to no routine. *)
LEMMA Tidy ==
  ASSUME NEW v, VolType(v)
  PROVE  Moves(v, tidy(v)) /\ tidy(v).err = v.err /\ tidy(v).fail = v.fail
<1> DEFINE x == [sect \in DOMAIN v.data |-> IF v.fat[sect[1]] = 0 THEN [i \in 1 .. v.ss |-> 0] ELSE v.data[sect]]
<1>1. tidy(v) = [v EXCEPT !.data = x]
  BY DEF tidy
<1> HIDE DEF x
<1>2. Moves(v, [v EXCEPT !.data = x])
  BY Updates
<1>3. [v EXCEPT !.data = x].err = v.err /\ [v EXCEPT !.data = x].fail = v.fail
  BY DEF VolType, VolFields
<1> QED
  BY <1>1, <1>2, <1>3

(* A closed file object *)
LEMMA NoFile ==
  ASSUME NEW v
  PROVE  FileType(no_file(v)) /\ ~no_file(v).open
  BY DEF no_file, FileType, FileFields

(* The type of a volume, field by field *)
LEMMA Volume0 ==
  ASSUME NEW v, VolType(v), NEW w, DOMAIN w = VolFields, w.ss = v.ss, w.csize = v.csize,
         w.fat \in FAT, w.dir \in DIR, w.last \in Nat, w.free \in Int, w.faults \in Nat, w.fail \in Int,
         w.cut \in BOOLEAN, w.err \in BOOLEAN, w.wflag \in BOOLEAN, w.faults = 0 => w.fail = 0 /\ w.torn = {}
  PROVE  VolType(w)
  BY DEF VolType

(* Mounting the volume that is on the medium *)
LEMMA Mount ==
  ASSUME NEW v, VolType(v), NEW d, d.fat \in FAT, d.dir \in DIR
  PROVE  LET w == mount(v, d)
         IN /\ VolType(w) /\ w.fat = d.fat /\ w.dir = d.dir /\ w.disk = d /\ w.faults = v.faults
            /\ ~w.err /\ w.fail = 0 /\ w.free = UNKNOWN /\ w.torn = v.torn
<1> DEFINE w == mount(v, d)
<1>1. /\ DOMAIN w = VolFields /\ w.fat = d.fat /\ w.dir = d.dir /\ w.disk = d /\ w.winsect = NO_SECT
      /\ w.wflag = FALSE /\ w.last = 0 /\ w.free = UNKNOWN /\ w.fail = 0 /\ w.cut = FALSE /\ w.err = FALSE
      /\ w.ss = v.ss /\ w.csize = v.csize /\ w.faults = v.faults /\ w.torn = v.torn
  BY DEF mount, VolType, VolFields
<1> HIDE DEF w
<1>2. UNKNOWN \in Int
  BY FatAssumption DEF UNKNOWN
<1>3. 0 \in Nat /\ 0 \in Int /\ FALSE \in BOOLEAN /\ v.faults \in Nat /\ (v.faults = 0 => v.torn = {})
  BY DEF VolType
<1>4. VolType(w)
  BY <1>1, <1>2, <1>3, Volume0
<1> QED
  BY <1>1, <1>4 DEF w

(* The count of power cuts matters to no routine. *)
LEMMA SetCuts ==
  ASSUME NEW v, VolType(v), NEW n
  PROVE  LET w == [v EXCEPT !.cuts = n]
         IN /\ VolType(w) /\ w.fat = v.fat /\ w.dir = v.dir /\ w.disk = v.disk /\ w.torn = v.torn /\ w.faults = v.faults
            /\ w.err = v.err /\ w.fail = v.fail
<1> DEFINE w == [v EXCEPT !.cuts = n]
<1>1. DOMAIN w = VolFields /\ \A f \in VolFields \ {"cuts"} : w[f] = v[f]
  BY DEF VolType, VolFields
<1> HIDE DEF w
<1>2. /\ w.ss = v.ss /\ w.csize = v.csize /\ w.fat = v.fat /\ w.dir = v.dir /\ w.disk = v.disk /\ w.torn = v.torn
      /\ w.last = v.last /\ w.free = v.free /\ w.faults = v.faults /\ w.err = v.err /\ w.fail = v.fail
      /\ w.cut = v.cut /\ w.wflag = v.wflag
  BY <1>1 DEF VolFields
<1> QED
  BY <1>1, <1>2 DEF VolType, w

(* A call returns or the power is cut: SoundInv holds again if the files   *)
(* were sound, or the medium is.                                           *)
LEMMA Return ==
  ASSUME NEW v, VolType(v), SoundDisk(v.disk, v.torn), NEW files, NEW units, return(v, files, units),
         v.fail = 0 => Sound(v, files)
  PROVE  SoundInv'
<1>1. CASE v.fail = 0 /\ fs' = tidy([v EXCEPT !.cut = FALSE, !.err = FALSE]) /\ fil' = files
  <2> DEFINE w == [v EXCEPT !.cut = FALSE, !.err = FALSE]
  <2>1. DOMAIN w = VolFields /\ w.cut = FALSE /\ w.err = FALSE /\ \A f \in VolFields \ {"cut", "err"} : w[f] = v[f]
    BY DEF VolType, VolFields
  <2> HIDE DEF w
  <2>2. /\ w.ss = v.ss /\ w.csize = v.csize /\ w.fat = v.fat /\ w.dir = v.dir /\ w.disk = v.disk /\ w.torn = v.torn
        /\ w.last = v.last /\ w.free = v.free /\ w.faults = v.faults /\ w.fail = v.fail /\ w.wflag = v.wflag
    BY <2>1 DEF VolFields
  <2>3. VolType(w)
    BY <2>1, <2>2 DEF VolType
  <2>4. Sound(w, files)
    <3>1. CASE FilesInv(v, files)
      BY <2>2, <2>3, <3>1, FilesSame DEF Sound
    <3>2. CASE FilesTorn(v, files)
      BY <2>2, <2>3, <3>2, TornSame DEF Sound, FilesTorn
    <3> QED
      BY <1>1, <3>1, <3>2 DEF Sound
  <2>5. Moves(w, tidy(w)) /\ tidy(w).err = w.err /\ tidy(w).fail = w.fail
    BY <2>3, Tidy
  <2>6. fs' = tidy(w)
    BY <1>1 DEF w
  <2>7. Sound(fs', fil')
    BY <1>1, <2>4, <2>5, <2>6, SoundMove
  <2> QED
    BY <1>1, <2>1, <2>2, <2>5, <2>6, <2>7 DEF SoundInv
<1>2. CASE v.fail < 0 /\ fs' = tidy([mount(v, v.disk) EXCEPT !.cuts = @ + 1]) /\ fil' = [h \in Object |-> no_file(v)]
  <2> DEFINE m == mount(v, v.disk)
             n == m.cuts + 1
             w == [m EXCEPT !.cuts = n]
             files0 == [h \in Object |-> no_file(v)]
  <2>1. /\ VolType(m) /\ m.fat = v.disk.fat /\ m.dir = v.disk.dir /\ m.disk = v.disk /\ m.torn = v.torn /\ m.faults = v.faults
        /\ ~m.err /\ m.fail = 0
    BY Mount DEF SoundDisk
  <2>2. fs' = tidy(w)
    BY <1>2
  <2> HIDE DEF m, n
  <2>3. /\ VolType(w) /\ w.fat = m.fat /\ w.dir = m.dir /\ w.disk = m.disk /\ w.torn = m.torn /\ w.faults = m.faults
        /\ w.err = m.err /\ w.fail = m.fail
    BY <2>1, SetCuts
  <2> HIDE DEF w
  <2>4. v.faults # 0
    BY <1>2 DEF VolType
  <2>5. DOMAIN files0 = Object /\ \A h \in Object : FileType(files0[h]) /\ ~files0[h].open
    BY NoFile
  <2>6. Sound(w, files0)
    <3> HIDE DEF files0
    <3> QED
      BY <2>1, <2>3, <2>4, <2>5, Remounted DEF Sound
  <2>7. Moves(w, tidy(w)) /\ tidy(w).err = w.err /\ tidy(w).fail = w.fail
    BY <2>3, Tidy
  <2>8. fil' = files0
    BY <1>2
  <2> HIDE DEF files0
  <2>9. Sound(fs', fil')
    BY <2>2, <2>6, <2>7, <2>8, SoundMove
  <2> QED
    BY <2>1, <2>2, <2>3, <2>7, <2>9 DEF SoundInv
<1> QED
  BY <1>1, <1>2 DEF return

(* How a call begins *)
LEMMA CallBegun ==
  ASSUME VolType(fs), NEW f
  PROVE  LET v == call(f)
         IN /\ DOMAIN v = VolFields /\ v.fail = f[1] /\ v.cut = f[2]
            /\ v.faults = (IF f[1] = 0 THEN fs.faults ELSE fs.faults + 1)
            /\ \A g \in VolFields \ {"fail", "cut", "calls", "faults"} : v[g] = fs[g]
  BY DEF call, VolType, VolFields

(* The power is cut between two calls. *)
LEMMA Reboot ==
  ASSUME SoundInv, reboot
  PROVE  SoundInv'
<1> DEFINE v == [call(<<1, TRUE>>) EXCEPT !.fail = -1]
<1>1. VolType(fs) /\ SoundDisk(fs.disk, fs.torn)
  BY SoundFacts DEF SoundInv
<1>2. /\ DOMAIN v = VolFields /\ v.fail = -1 /\ v.cut = TRUE /\ v.faults = fs.faults + 1
      /\ \A f \in VolFields \ {"fail", "cut", "calls", "faults"} : v[f] = fs[f]
  <2> DEFINE c == call(<<1, TRUE>>)
  <2>1. /\ DOMAIN c = VolFields /\ c.cut = TRUE /\ c.faults = fs.faults + 1
        /\ \A f \in VolFields \ {"fail", "cut", "calls", "faults"} : c[f] = fs[f]
    <3> DEFINE f == <<1, TRUE>>
    <3>1. f[1] = 1 /\ f[2] = TRUE
      OBVIOUS
    <3> HIDE DEF f
    <3>2. c = call(f)
      BY DEF f
    <3> HIDE DEF c
    <3> QED
      BY <1>1, <3>1, <3>2, CallBegun
  <2> HIDE DEF c
  <2>2. DOMAIN v = DOMAIN c /\ v.fail = -1 /\ \A f \in VolFields \ {"fail"} : v[f] = c[f]
    BY <2>1 DEF VolFields, c
  <2> QED
    BY <2>1, <2>2 DEF VolFields
<1>3. return(v, fil, << >>)
  BY DEF reboot
<1> HIDE DEF v
<1>4. /\ v.ss = fs.ss /\ v.csize = fs.csize /\ v.fat = fs.fat /\ v.dir = fs.dir /\ v.disk = fs.disk /\ v.torn = fs.torn
      /\ v.last = fs.last /\ v.free = fs.free /\ v.wflag = fs.wflag /\ v.err = fs.err
  BY <1>2 DEF VolFields
<1>5. VolType(v)
  <2>1. v.faults \in Nat /\ v.faults # 0 /\ v.fail \in Int /\ TRUE \in BOOLEAN
    BY <1>1, <1>2 DEF VolType
  <2>2. v.last \in Nat /\ v.free \in Int /\ v.wflag \in BOOLEAN /\ v.err \in BOOLEAN /\ v.fat \in FAT /\ v.dir \in DIR
    BY <1>1, <1>4 DEF VolType
  <2> QED
    BY <1>1, <1>2, <1>4, <2>1, <2>2, Volume0
<1>6. v.fail # 0
  BY <1>2
<1> QED
  BY <1>1, <1>3, <1>4, <1>5, <1>6, Return

(* A call begins with FilesInv, with a fault to come or not. *)
LEMMA Call ==
  ASSUME FileInv, NEW f \in Fault
  PROVE  FilesInv(call(f), fil) /\ ~call(f).err /\ call(f).dir = fs.dir
<1> DEFINE v == call(f)
<1>1. VolType(fs) /\ SoundDisk(fs.disk, fs.torn) /\ fs.faults \in Nat /\ FilesInv(fs, fil) /\ ~fs.err
  BY DEF FileInv, FilesInv, Holds, VolType
<1>2. f[1] \in Nat /\ f[2] \in BOOLEAN
  <2>1. f = <<0, FALSE>> \/ f \in (1 .. MaxTransfer) \X Cuts
    BY DEF Fault
  <2> QED
    <3>1. CASE f = <<0, FALSE>>
      BY <3>1
    <3>2. ASSUME NEW a \in 1 .. MaxTransfer, NEW b \in Cuts, f = <<a, b>>
          PROVE  f[1] \in Nat /\ f[2] \in BOOLEAN
      BY <3>2, FatAssumption
    <3>3. f \in (1 .. MaxTransfer) \X Cuts => \E a \in 1 .. MaxTransfer, b \in Cuts : f = <<a, b>>
      OBVIOUS
    <3>4. CASE f \in (1 .. MaxTransfer) \X Cuts
      <4>1. PICK a \in 1 .. MaxTransfer, b \in Cuts : f = <<a, b>>
        BY <3>3, <3>4
      <4> QED
        BY <3>2, <4>1
    <3> QED
      BY <2>1, <3>1, <3>4
<1>3. /\ DOMAIN v = VolFields /\ v.fail = f[1] /\ v.cut = f[2]
      /\ v.faults = (IF f[1] = 0 THEN fs.faults ELSE fs.faults + 1)
      /\ \A g \in VolFields \ {"fail", "cut", "calls", "faults"} : v[g] = fs[g]
  BY <1>1, CallBegun
<1> HIDE DEF v
<1>4. /\ v.ss = fs.ss /\ v.csize = fs.csize /\ v.fat = fs.fat /\ v.dir = fs.dir /\ v.disk = fs.disk /\ v.torn = fs.torn
      /\ v.last = fs.last /\ v.free = fs.free /\ v.wflag = fs.wflag /\ v.err = fs.err
  BY <1>3 DEF VolFields
<1>5. v.faults \in Nat /\ (v.faults = 0 => fs.faults = 0 /\ v.fail = 0) /\ v.fail \in Int
  BY <1>1, <1>2, <1>3
<1>6. VolType(v)
  BY <1>1, <1>2, <1>3, <1>4, <1>5 DEF VolType
<1>7. FilesInv(v, fil)
  BY <1>1, <1>4, <1>5, <1>6, FilesSame
<1> QED
  BY <1>1, <1>4, <1>7 DEF v

(* FileInv holds at first, by VolumeAssumption. *)
LEMMA Initially ==
  ASSUME FatInit
  PROVE  FileInv
<1>1. PICK d \in Volume :
       fs = mount([ss |-> d.ss, csize |-> d.csize, data |-> d.data, faults |-> 0, torn |-> {},
                   cuts |-> 0, calls |-> 0, fat |-> 0, dir |-> 0, disk |-> 0, winsect |-> 0,
                   wflag |-> FALSE, last |-> 0, free |-> 0, fail |-> 0, cut |-> FALSE,
                   err |-> FALSE], [fat |-> d.fat, dir |-> d.dir])
  BY DEF FatInit
<1> DEFINE H == {d.dir[i].org : i \in 1 .. n_rootdir} \cap Cluster
<1>2. /\ d.ss \in Nat \ {0} /\ d.csize \in 1 .. 128
      /\ d.fat \in FAT /\ d.dir \in DIR
      /\ InOrder(d.fat, H) /\ Covered(d.fat, H)
      /\ \A i \in 1 .. n_rootdir :
           IF d.dir[i].org = 0 THEN d.dir[i].size = 0
           ELSE /\ d.dir[i].org \in Cluster
                /\ \A j \in 1 .. n_rootdir : d.dir[j].org = d.dir[i].org => j = i
  BY VolumeAssumption
<1>3. /\ DOMAIN fs = VolFields /\ fs.ss = d.ss /\ fs.csize = d.csize /\ fs.faults = 0 /\ fs.fat = d.fat
      /\ fs.dir = d.dir /\ fs.disk = [fat |-> d.fat, dir |-> d.dir] /\ fs.wflag = FALSE /\ fs.last = 0
      /\ fs.free = UNKNOWN /\ fs.fail = 0 /\ fs.cut = FALSE /\ fs.err = FALSE /\ fs.torn = {}
  BY <1>1 DEF mount, VolFields
<1>4. VolType(fs)
  <2>1. UNKNOWN \in Int
    BY FatAssumption DEF UNKNOWN
  <2>2. 0 \in Nat /\ 0 \in Int /\ FALSE \in BOOLEAN
    OBVIOUS
  <2>3. /\ fs.ss \in Nat \ {0} /\ fs.csize \in 1 .. 128 /\ fs.fat \in FAT /\ fs.dir \in DIR
        /\ fs.last \in Nat /\ fs.free \in Int /\ fs.faults \in Nat /\ fs.fail = 0 /\ fs.fail \in Int /\ fs.torn = {}
        /\ fs.cut \in BOOLEAN /\ fs.err \in BOOLEAN /\ fs.wflag \in BOOLEAN
    BY <1>2, <1>3, <2>1, <2>2
  <2> QED
    BY <1>3, <2>3 DEF VolType
<1>5. DOMAIN fil = Object /\ \A h \in Object : FileType(fil[h]) /\ ~fil[h].open
  BY NoFile DEF FatInit
<1>6. \A i \in Entries : HeadOf(fs.dir, fil, i) = d.dir[i].org
  <2>1. \A i \in Entries : Opener(fil, i) = {}
    BY <1>5 DEF Opener
  <2> QED
    BY <1>3, <2>1 DEF HeadOf
<1>7. Heads(fs.dir, fil) = H
  BY <1>6 DEF Heads, Entries
<1>8. HeadsIn(d.dir, H)
  <2> SUFFICES ASSUME NEW i \in 1 .. n_rootdir, d.dir[i].org \in Cluster
               PROVE  d.dir[i].org \in H /\ \A j \in 1 .. n_rootdir : d.dir[j].org = d.dir[i].org => j = i
    BY DEF HeadsIn
  <2>1. d.dir[i].org # 0
    BY Codes
  <2> QED
    BY <1>2, <2>1
<1> HIDE DEF H
<1>9. H \subseteq Cluster
  BY DEF H
<1>10. SoundDisk(fs.disk, fs.torn)
  BY <1>2, <1>3, <1>8, <1>9, SoundHeads
<1>11. Holds(fs, H)
  BY <1>2, <1>3, <1>4, <1>8, <1>9, <1>10 DEF Holds
<1>12. \A i, j \in Entries :
         HeadOf(fs.dir, fil, i) \in Cluster /\ HeadOf(fs.dir, fil, j) = HeadOf(fs.dir, fil, i) => i = j
  BY <1>6, <1>8 DEF HeadsIn, Entries
<1>13. Tight(fs, H) /\ \A i \in Entries : Entered(fs.dir[i])
  BY <1>2, <1>3 DEF Tight, Entered, Entries
<1>14. FilesInv(fs, fil)
  BY <1>5, <1>7, <1>11, <1>12, <1>13 DEF FilesInv
<1> QED
  BY <1>3, <1>14 DEF FileInv

-----------------------------------------------------------------------------
(* Calls that need no file object: f_getfree, f_unlink *)

(* A turn of the loop in f_getfree *)
ScanNext(p) == [v |-> move_window(p.v, p.i), i |-> p.i + 1]

(* The loop only moves the window. *)
LEMMA ScanLoop ==
  ASSUME NEW v, VolType(v)
  PROVE  Moves(v, scan(v))
<1> DEFINE n == ((max_clust - 1) \div per_fat) + 1
           s == [v |-> v, i |-> 0]
<1>1. n \in Nat
  <2>1. max_clust - 1 \in Nat /\ per_fat \in Nat \ {0}
    BY FatAssumption
  <2> QED
    BY <2>1
<1>2. \A p : StepOf(<<"scan">>, p) = ScanNext(p)
  BY DEF StepOf, ScanNext
<1>3. scan(v) = TurnAt(<<"scan">>, n, s).v
  BY <1>2 DEF repeat, TurnAt, scan, ScanNext
<1> HIDE DEF n
<1>4. PICK f : /\ f[n] = TurnAt(<<"scan">>, n, s) /\ f[0] = s
               /\ \A k \in 0 .. n : k # n => f[k + 1] = StepOf(<<"scan">>, f[k])
  BY <1>1, LoopTurns
<1> DEFINE S == {k \in Nat : k <= n => Moves(v, f[k].v)}
<1>5. 0 \in S
  BY <1>4, MovesRefl
<1>6. ASSUME NEW k \in Nat, k \in S
      PROVE  k + 1 \in S
  <2>1. CASE k + 1 <= n
    <3>1. k \in 0 .. n /\ k # n /\ k <= n
      BY <1>1, <2>1
    <3>2. Moves(v, f[k].v) /\ VolType(f[k].v)
      BY <1>6, <3>1 DEF Moves
    <3>3. f[k + 1].v = move_window(f[k].v, f[k].i)
      <4>1. f[k + 1] = StepOf(<<"scan">>, f[k])
        BY <1>4, <3>1
      <4>2. f[k + 1] = ScanNext(f[k])
        BY <1>2, <4>1
      <4> QED
        BY <4>2 DEF ScanNext
    <3>4. Moves(v, f[k + 1].v)
      BY <3>2, <3>3, MoveWindow, MovesTrans
    <3> QED
      BY <3>4
  <2> QED
    BY <2>1
<1>7. Nat \subseteq S
  <2> HIDE DEF S
  <2> QED
    BY <1>5, <1>6, CountUp
<1> QED
  BY <1>1, <1>3, <1>4, <1>7

(* f_getfree keeps the invariant of files, and counts the free clusters    *)
(* right.                                                                  *)
LEMMA GetFree ==
  ASSUME NEW v, NEW files, FilesInv(v, files)
  PROVE  FilesInv(f_getfree(v), files)
<1> DEFINE w == scan(v)
           m == n_free(w)
           t == [w EXCEPT !.free = m]
<1>1. f_getfree(v) = v \/ f_getfree(v) = w \/ f_getfree(v) = t
  BY DEF f_getfree, then
<1>2. VolType(v)
  BY DEF FilesInv, Holds
<1>3. Moves(v, w) /\ VolType(w)
  BY <1>2, ScanLoop DEF Moves
<1>4. FilesInv(w, files)
  BY <1>3, FilesMove
<1>5. m \in Int
  <2>1. w.fat \in FAT
    BY <1>3 DEF VolType
  <2>2. 2 \in Cluster
    BY FatAssumption DEF Cluster
  <2>3. Cardinality(FreeSet(w.fat)) \in Nat
    BY <2>1, <2>2, FreeCount
  <2> QED
    BY <2>3 DEF n_free, FreeSet
<1> HIDE DEF w, m
<1>6. /\ DOMAIN t = VolFields /\ t.free = m /\ \A f \in VolFields \ {"free"} : t[f] = w[f]
  BY <1>3 DEF VolType, VolFields
<1> HIDE DEF t
<1>7. /\ t.ss = w.ss /\ t.csize = w.csize /\ t.fat = w.fat /\ t.dir = w.dir /\ t.disk = w.disk /\ t.torn = w.torn
      /\ t.last = w.last /\ t.faults = w.faults /\ t.err = w.err /\ t.fail = w.fail
      /\ t.cut = w.cut /\ t.wflag = w.wflag
  BY <1>6 DEF VolFields
<1>8. VolType(t)
  BY <1>3, <1>5, <1>6, <1>7 DEF VolType
<1>9. t.free = n_free(t)
  BY <1>6, <1>7 DEF n_free, m
<1>10. SoundDisk(t.disk, t.torn)
  BY <1>4, <1>7 DEF FilesInv, Holds
<1>11. FilesInv(t, files)
  BY <1>4, <1>7, <1>8, <1>9, <1>10, FilesSame
<1> QED
  BY <1>1, <1>4, <1>11

(* The search through the directory, as a row of turns *)
LEMMA SearchLoop ==
  ASSUME NEW v, NEW N
  PROVE  \E f : /\ f[n_rootdir] = dir_search(v, N) /\ f[0] = [v |-> v, i |-> 0, ended |-> FALSE]
               /\ \A k \in 0 .. n_rootdir : k # n_rootdir => f[k + 1] = dir_next(f[k], N)
<1> DEFINE s == [v |-> v, i |-> 0, ended |-> FALSE]
<1>1. \A p : StepOf(<<"search", N>>, p) = dir_next(p, N)
  BY DEF StepOf
<1>2. dir_search(v, N) = TurnAt(<<"search", N>>, n_rootdir, s)
  BY <1>1 DEF repeat, TurnAt, dir_search
<1> HIDE DEF s
<1>3. n_rootdir \in Nat
  BY FatAssumption
<1>4. \E f : /\ f[n_rootdir] = TurnAt(<<"search", N>>, n_rootdir, s) /\ f[0] = s
            /\ \A k \in 0 .. n_rootdir : k # n_rootdir => f[k + 1] = StepOf(<<"search", N>>, f[k])
  BY <1>3, LoopTurns
<1> QED
  BY <1>1, <1>2, <1>4 DEF s

(* The search for a name of N, after k turns at most: it has moved the     *)
(* window, and what it has found is in it.                                 *)
Searched(v, N, k, p) ==
  /\ DOMAIN p = {"v", "i", "ended"}
  /\ Moves(v, p.v) /\ Same(v, p.v) /\ p.i \in 0 .. k /\ p.ended \in BOOLEAN
  /\ p.ended => /\ p.i \in Entries /\ p.v.dir[p.i].name \in N
                /\ ~p.v.err /\ p.v.winsect = DirSect(p.i)

(* A turn of the search keeps this. *)
LEMMA DirNext ==
  ASSUME NEW v, NEW N, NEW k \in Nat, k + 1 <= n_rootdir, NEW p, Searched(v, N, k, p)
  PROVE  Searched(v, N, k + 1, dir_next(p, N))
<1> DEFINE i == p.i + 1
           w == move_window(p.v, DirSect(i))
           q == [v |-> w, i |-> i, ended |-> ~w.err /\ w.dir[i].name \in N]
<1>1. p.i \in 0 .. k + 1 /\ i \in 0 .. k + 1 /\ i \in Entries
  BY FatAssumption DEF Searched, Entries
<1>2. VolType(p.v) /\ Moves(v, p.v) /\ Same(v, p.v)
  BY DEF Searched, Moves
<1>3. Moves(v, w) /\ Same(v, w)
  BY <1>2, MoveWindow, DataMoveWindow, MovesTrans DEF Same
<1>4. ~w.err => w.winsect = DirSect(i)
  BY <1>2, WindowAt
<1>5. dir_next(p, N) = IF p.ended \/ p.v.err THEN p ELSE q
  BY DEF dir_next
<1>6. Searched(v, N, k + 1, p)
  BY <1>1 DEF Searched
<1> HIDE DEF w, i
<1>7. Searched(v, N, k + 1, q)
  BY <1>1, <1>3, <1>4 DEF Searched
<1> QED
  BY <1>5, <1>6, <1>7

(* So the search ends like that. *)
LEMMA DirSearch ==
  ASSUME NEW v, VolType(v), NEW N
  PROVE  Searched(v, N, n_rootdir, dir_search(v, N))
<1>1. PICK f : /\ f[n_rootdir] = dir_search(v, N) /\ f[0] = [v |-> v, i |-> 0, ended |-> FALSE]
               /\ \A k \in 0 .. n_rootdir : k # n_rootdir => f[k + 1] = dir_next(f[k], N)
  BY SearchLoop
<1> DEFINE S == {k \in Nat : k <= n_rootdir => Searched(v, N, k, f[k])}
<1>2. 0 \in S
  <2>1. Moves(v, v) /\ Same(v, v)
    BY MovesRefl DEF Same
  <2>2. Searched(v, N, 0, [v |-> v, i |-> 0, ended |-> FALSE])
    BY <2>1 DEF Searched
  <2> QED
    BY <1>1, <2>2
<1>3. ASSUME NEW k \in Nat, k \in S
      PROVE  k + 1 \in S
  <2>1. CASE k + 1 <= n_rootdir
    <3>1. k \in 0 .. n_rootdir /\ k # n_rootdir /\ k <= n_rootdir
      BY <2>1, FatAssumption
    <3>2. Searched(v, N, k, f[k])
      BY <1>3, <3>1
    <3>3. Searched(v, N, k + 1, dir_next(f[k], N))
      BY <2>1, <3>2, DirNext
    <3>4. f[k + 1] = dir_next(f[k], N)
      BY <1>1, <3>1
    <3> QED
      BY <3>3, <3>4
  <2> QED
    BY <2>1
<1>4. Nat \subseteq S
  <2> HIDE DEF S
  <2> QED
    BY <1>2, <1>3, CountUp
<1> QED
  BY <1>1, <1>4, FatAssumption

(* dir_find moves the window and finds an entry of that name, or none. *)
LEMMA DirFind ==
  ASSUME NEW v, VolType(v), NEW n, NEW r, r = dir_find(v, n)
  PROVE  /\ Moves(v, r[1]) /\ Same(v, r[1])
         /\ r[2] = 0 \/ (r[2] \in Entries /\ r[1].dir[r[2]].name = n /\ ~r[1].err)
<1> DEFINE p == dir_search(v, {n, END})
<1>1. Searched(v, {n, END}, n_rootdir, p)
  BY DirSearch
<1>2. r = <<p.v, IF p.ended /\ p.v.dir[p.i].name = n THEN p.i ELSE 0>>
  BY DEF dir_find
<1> HIDE DEF p
<1> QED
  BY <1>1, <1>2 DEF Searched

(* A new entry is put where there is none, and the window is there. *)
LEMMA BlankEntry ==
  ASSUME NEW v, VolType(v), NEW r, r = blank_entry(v)
  PROVE  /\ Moves(v, r[1]) /\ Same(v, r[1])
         /\ r[2] = 0 \/ /\ r[2] \in Entries /\ r[1].dir[r[2]].name \in {NONE, END}
                        /\ ~r[1].err /\ r[1].winsect = DirSect(r[2])
<1> DEFINE p == dir_search(v, {NONE, END})
<1>1. Searched(v, {NONE, END}, n_rootdir, p)
  BY DirSearch
<1>2. r = <<p.v, IF p.ended THEN p.i ELSE 0>>
  BY DEF blank_entry
<1> HIDE DEF p
<1>3. CASE p.ended
  BY <1>1, <1>2, <1>3 DEF Searched
<1>4. CASE ~p.ended
  BY <1>1, <1>2, <1>4 DEF Searched
<1> QED
  BY <1>3, <1>4

(* The entry of a file is that of its first cluster, or has none *)
LEMMA HeadDir ==
  ASSUME NEW v, NEW files, FilesInv(v, files), NEW i \in Entries
  PROVE  /\ v.dir[i].org \in Cluster => HeadOf(v.dir, files, i) = v.dir[i].org
         /\ Opener(files, i) = {} => HeadOf(v.dir, files, i) = v.dir[i].org
<1>1. CASE Opener(files, i) = {}
  BY <1>1 DEF HeadOf
<1>2. CASE Opener(files, i) # {}
  <2>1. (CHOOSE g \in Opener(files, i) : TRUE) \in Opener(files, i)
    BY <1>2
  <2> QED
    BY <1>2, <2>1 DEF HeadOf, Opener, FilesInv, Opened
<1> QED
  BY <1>1, <1>2

(* Setting err changes nothing else. *)
LEMMA Failed ==
  ASSUME NEW v, VolType(v)
  PROVE  LET w == fail(v) IN
         /\ VolType(w) /\ w.err /\ w.ss = v.ss /\ w.csize = v.csize /\ w.fat = v.fat /\ w.dir = v.dir
         /\ w.disk = v.disk /\ w.torn = v.torn /\ w.free = v.free /\ w.faults = v.faults
<1> DEFINE w == fail(v)
<1>1. DOMAIN w = VolFields /\ w.err = TRUE /\ \A f \in VolFields \ {"err"} : w[f] = v[f]
  BY DEF fail, VolType, VolFields
<1> HIDE DEF w
<1>2. /\ w.ss = v.ss /\ w.csize = v.csize /\ w.fat = v.fat /\ w.dir = v.dir /\ w.disk = v.disk /\ w.torn = v.torn
      /\ w.last = v.last /\ w.faults = v.faults /\ w.free = v.free /\ w.fail = v.fail
      /\ w.cut = v.cut /\ w.wflag = v.wflag
  BY <1>1 DEF VolFields
<1>3. VolType(w)
  BY <1>1, <1>2 DEF VolType
<1> QED
  BY <1>1, <1>2, <1>3 DEF w

(* So it keeps the invariant of files. *)
LEMMA FilesFail ==
  ASSUME NEW v, NEW files, FilesInv(v, files)
  PROVE  FilesInv(fail(v), files)
<1> DEFINE w == fail(v)
<1>1. VolType(v) /\ SoundDisk(v.disk, v.torn)
  BY DEF FilesInv, Holds
<1>2. VolType(w) /\ w.csize = v.csize /\ w.fat = v.fat /\ w.dir = v.dir
      /\ w.disk = v.disk /\ w.torn = v.torn /\ w.free = v.free /\ w.faults = v.faults
  BY <1>1, Failed
<1> HIDE DEF w
<1>3. FilesInv(w, files)
  BY <1>1, <1>2, FilesSame
<1> QED
  BY <1>3 DEF w

(* The cluster that the search starts at matters to no invariant. *)
LEMMA SetLast ==
  ASSUME NEW v, NEW files, FilesInv(v, files), NEW m \in Nat
  PROVE  LET w == [v EXCEPT !.last = m] IN FilesInv(w, files) /\ VolType(w) /\ w.dir = v.dir
<1> DEFINE w == [v EXCEPT !.last = m]
<1>1. VolType(v) /\ SoundDisk(v.disk, v.torn)
  BY DEF FilesInv, Holds
<1>2. DOMAIN w = VolFields /\ w.last = m /\ \A f \in VolFields \ {"last"} : w[f] = v[f]
  BY <1>1 DEF VolType, VolFields
<1> HIDE DEF w
<1>3. /\ w.ss = v.ss /\ w.csize = v.csize /\ w.fat = v.fat /\ w.dir = v.dir /\ w.disk = v.disk /\ w.torn = v.torn
      /\ w.err = v.err /\ w.faults = v.faults /\ w.free = v.free /\ w.fail = v.fail
      /\ w.cut = v.cut /\ w.wflag = v.wflag
  BY <1>2 DEF VolFields
<1>4. VolType(w)
  BY <1>1, <1>2, <1>3 DEF VolType
<1>5. FilesInv(w, files)
  BY <1>1, <1>3, <1>4, FilesSame
<1> QED
  BY <1>3, <1>4, <1>5 DEF w

(* The entry i of a file that is not open is emptied, and its chain        *)
(* released                                                                *)
Emptying(v, i, e) ==
  IF v.dir[i].org = 0 THEN set_dir(v, i, e) ELSE release_chain(set_dir(v, i, e), v.dir[i].org)

(* Emptying the entry of a closed file and then releasing its chain keeps  *)
(* the invariant of files, wherever it stops: at no moment does an entry   *)
(* have a freed chain.                                                     *)
LEMMA Emptied ==
  ASSUME NEW v, NEW files, FilesInv(v, files), ~v.err, NEW i \in Entries, Opener(files, i) = {},
         NEW e \in Entry, e.org = 0, e.size = 0
  PROVE  LET w == Emptying(v, i, e)
         IN FilesInv(w, files) /\ VolType(w) /\ w.dir = [v.dir EXCEPT ![i] = e]
<1> DEFINE R == HeadsBut(v.dir, files, i)
           c == v.dir[i].org
           v1 == set_dir(v, i, e)
           w == Emptying(v, i, e)
           d == [v.dir EXCEPT ![i] = e]
<1>1. Holds(v, Heads(v.dir, files)) /\ VolType(v) /\ v.dir \in DIR /\ v.fat \in FAT
  BY DEF FilesInv, Holds, VolType
<1>2. HeadOf(v.dir, files, i) = c
  BY HeadDir
<1>3. R \subseteq Cluster /\ Heads(v.dir, files) = R \cup ({c} \cap Cluster) /\ R \subseteq Heads(v.dir, files)
  BY <1>2, HeadSplit
<1>4. c \notin R
  BY <1>2 DEF HeadsBut, FilesInv
<1>5. d[i] = e /\ \A j \in Entries : j # i => d[j] = v.dir[j]
  BY <1>1 DEF DIR, Entries
<1>6. SameBut(v, v1) /\ v1.dir = d
  BY <1>1, SetDir DEF Entries
<1> HIDE DEF d
<1>7. HeadsIn(d, R)
  <2> SUFFICES ASSUME NEW j \in Entries, d[j].org \in Cluster
               PROVE  d[j].org \in R /\ \A k \in Entries : d[k].org = d[j].org => k = j
    BY DEF HeadsIn, Entries
  <2>1. j # i /\ d[j] = v.dir[j]
    BY <1>5, Codes
  <2>2. HeadOf(v.dir, files, j) = d[j].org
    BY <2>1, HeadDir
  <2>3. d[j].org \in R
    BY <2>1, <2>2 DEF HeadsBut
  <2>4. ASSUME NEW k \in Entries, d[k].org = d[j].org
        PROVE  k = j
    <3>1. k # i /\ d[k] = v.dir[k]
      BY <1>5, <2>4, Codes
    <3> QED
      BY <1>1, <2>1, <2>4, <3>1 DEF Holds, HeadsIn, Entries
  <2> QED
    BY <2>3, <2>4
<1>8. Holds(v1, R)
  BY <1>1, <1>3, <1>6, <1>7, HoldsDir
<1>9. ASSUME NEW u, Holds(u, R), u.dir = d, u.csize = v.csize,
             u.faults = 0 => v.faults = 0 /\ Tight(u, R) /\ GrowOn(v.fat, u.fat, R)
      PROVE  FilesInv(u, files) /\ VolType(u) /\ u.dir = d
  <2>1. HeadOf(u.dir, files, i) = 0
    BY <1>5, <1>9 DEF HeadOf
  <2>2. 0 \notin R /\ R \cup ({0} \cap Cluster) = R
    BY <1>3, Codes
  <2>3. OtherFiles(files, files, i) /\ \A h \in Object : ~(files[h].open /\ files[h].slot = i)
    BY DEF OtherFiles, Opener
  <2>4. DOMAIN files = Object /\ \A h \in Object : FileType(files[h])
    BY DEF FilesInv
  <2>5. Entered(u.dir[i])
    BY <1>5, <1>9 DEF Entered
  <2>6. Rebuilt(v, files, u, files, i)
    BY <1>5, <1>9, <2>1, <2>2, <2>3, <2>4, <2>5 DEF Rebuilt
  <2> QED
    BY <1>9, <2>6, Rebuild DEF Holds
<1>10. CASE c = 0
  <2>1. w = v1
    BY <1>10 DEF Emptying
  <2>2. Heads(v.dir, files) = R
    BY <1>3, <1>10, Codes
  <2>3. v1.faults = 0 => v.faults = 0 /\ Tight(v1, R) /\ GrowOn(v.fat, v1.fat, R)
    BY <1>6, <2>2 DEF FilesInv, SameBut, Tight, n_free, GrowOn
  <2>4. v1.csize = v.csize
    BY <1>6 DEF SameBut
  <2> HIDE DEF v1
  <2> QED
    BY <1>6, <1>8, <1>9, <2>1, <2>3, <2>4 DEF w, d
<1>11. CASE c # 0 /\ c \in Cluster
  <2>1. w = release_chain(v1, c)
    BY <1>11 DEF Emptying
  <2> HIDE DEF w, c, v1
  <2>2. Heads(v.dir, files) = R \cup {c}
    BY <1>3, <1>11
  <2>3. InOrder(v1.fat, R \cup {c})
    BY <1>1, <1>6, <2>2 DEF Holds, SameBut
  <2>4. /\ Kept(v1, w) /\ Holds(w, R)
        /\ v1.faults = 0 /\ ~v1.err /\ Tight(v1, R \cup {c}) =>
             ~w.err /\ Tight(w, R) /\ GrowOn(v1.fat, w.fat, R)
    BY <1>4, <1>8, <1>11, <2>1, <2>3, ReleaseChain
  <2>5. v.faults = 0 => Tight(v1, R \cup {c})
    BY <1>6, <2>2 DEF FilesInv, SameBut, Tight, n_free
  <2>6. w.faults = 0 => v.faults = 0 /\ Tight(w, R) /\ GrowOn(v.fat, w.fat, R)
    BY <1>6, <2>4, <2>5 DEF SameBut, Kept
  <2>7. w.csize = v.csize /\ w.dir = d
    BY <1>6, <2>4 DEF SameBut, Kept
  <2> QED
    BY <1>9, <2>4, <2>6, <2>7 DEF w, d
<1>12. CASE c # 0 /\ c \notin Cluster
  <2>1. w = fail(v1)
    BY <1>12 DEF Emptying, release_chain
  <2>2. v.faults # 0
    BY <1>12 DEF FilesInv, Entered
  <2>3. /\ VolType(w) /\ w.csize = v1.csize /\ w.fat = v1.fat /\ w.dir = v1.dir
        /\ w.disk = v1.disk /\ w.torn = v1.torn /\ w.faults = v1.faults
    <3>1. VolType(v1)
      BY <1>6 DEF SameBut
    <3> HIDE DEF v1, w
    <3> QED
      BY <2>1, <3>1, Failed
  <2> HIDE DEF w, v1
  <2>4. Holds(w, R)
    BY <1>8, <2>3, HoldsSame
  <2>5. w.csize = v.csize /\ w.dir = d /\ w.faults # 0
    BY <1>6, <2>2, <2>3 DEF SameBut
  <2> QED
    BY <1>9, <2>4, <2>5 DEF w, d
<1> QED
  BY <1>10, <1>11, <1>12

(* A file of that name is open. *)
InUse(v, files, n) == \E h \in Object : files[h].open /\ v.dir[files[h].slot].name = n

(* No object has the entry of a file that is not in use. *)
LEMMA NotOpen ==
  ASSUME NEW v, NEW files, FilesInv(v, files), NEW i \in Entries,
         v.dir[i].name \notin Name \/ ~InUse(v, files, v.dir[i].name)
  PROVE  Opener(files, i) = {}
  BY DEF Opener, InUse, FilesInv, Opened

(* f_unlink finds the entry, empties it, and has the window written. *)
LEMMA UnlinkBegins ==
  ASSUME NEW v, VolType(v), NEW n
  PROVE  \E w : /\ Moves(v, w) /\ Same(v, w)
               /\ \/ f_unlink(v, n) = fail(w)
                  \/ \E i \in Entries :
                       LET t == Emptying(w, i, BLANK)
                       IN /\ ~w.err /\ w.dir[i].name = n
                          /\ f_unlink(v, n) = IF t.err THEN t ELSE sync(t)
<1> DEFINE r == dir_find(v, n)
           w == r[1]
           i == r[2]
           t == Emptying(w, i, BLANK)
<1>1. Moves(v, w) /\ Same(v, w) /\ (i = 0 \/ (i \in Entries /\ w.dir[i].name = n /\ ~w.err))
  BY DirFind
<1>2. f_unlink(v, n) = IF w.err \/ i = 0 THEN fail(w) ELSE IF t.err THEN t ELSE sync(t)
  BY DEF f_unlink, then, Emptying
<1> HIDE DEF r
<1>3. CASE w.err \/ i = 0
  BY <1>1, <1>2, <1>3
<1>4. CASE ~(w.err \/ i = 0)
  <2>1. f_unlink(v, n) = IF t.err THEN t ELSE sync(t)
    BY <1>2, <1>4
  <2> HIDE DEF w, i
  <2> QED
    BY <1>1, <1>4, <2>1
<1> QED
  BY <1>3, <1>4

(* f_unlink keeps the invariant of files. *)
LEMMA Unlink ==
  ASSUME NEW v, NEW files, FilesInv(v, files), ~v.err, NEW n \in Name, ~InUse(v, files, n)
  PROVE  FilesInv(f_unlink(v, n), files)
<1>1. VolType(v)
  BY DEF FilesInv, Holds
<1>2. PICK w : /\ Moves(v, w)
               /\ \/ f_unlink(v, n) = fail(w)
                  \/ \E i \in Entries :
                       LET t == Emptying(w, i, BLANK)
                       IN /\ ~w.err /\ w.dir[i].name = n
                          /\ f_unlink(v, n) = IF t.err THEN t ELSE sync(t)
  BY <1>1, UnlinkBegins
<1>3. FilesInv(w, files) /\ w.dir = v.dir
  BY <1>2, FilesMove DEF Moves
<1>4. FilesInv(fail(w), files)
  BY <1>3, FilesFail
<1>5. ASSUME NEW i \in Entries, ~w.err, w.dir[i].name = n
      PROVE  LET t == Emptying(w, i, BLANK) IN FilesInv(t, files) /\ FilesInv(sync(t), files)
  <2> DEFINE t == Emptying(w, i, BLANK)
  <2>1. Opener(files, i) = {}
    BY <1>3, <1>5, NotOpen DEF InUse
  <2>2. FilesInv(t, files) /\ VolType(t)
    BY <1>3, <1>5, <2>1, EntryOf, Emptied
  <2> HIDE DEF t
  <2>3. Moves(t, sync(t))
    BY <2>2, Sync
  <2>4. FilesInv(t, files) /\ FilesInv(sync(t), files)
    BY <2>2, <2>3, FilesMove
  <2> QED
    BY <2>4 DEF t
<1> QED
  BY <1>2, <1>4, <1>5

-----------------------------------------------------------------------------
(* f_open *)

(* An object that is closed can be any other closed one. *)
LEMMA SetClosed ==
  ASSUME NEW v, NEW files, FilesInv(v, files), NEW h \in Object, ~files[h].open, NEW p, FileType(p), ~p.open
  PROVE  FilesInv(v, [files EXCEPT ![h] = p])
<1> DEFINE g == [files EXCEPT ![h] = p]
<1>1. DOMAIN files = Object /\ \A f \in Object : FileType(files[f])
  BY DEF FilesInv
<1>2. DOMAIN g = Object /\ g[h] = p /\ \A f \in Object : f # h => g[f] = files[f]
  BY <1>1
<1> HIDE DEF g
<1>3. \A f \in Object : g[f].open => files[f].open /\ g[f] = files[f]
  BY <1>2
<1>4. \A i \in Entries : HeadOf(v.dir, g, i) = HeadOf(v.dir, files, i)
  <2> SUFFICES ASSUME NEW i \in Entries
               PROVE  HeadOf(v.dir, g, i) = HeadOf(v.dir, files, i)
    OBVIOUS
  <2>1. OtherFiles(files, g, 0)
    BY <1>2, <1>3 DEF OtherFiles
  <2>2. i # 0
    BY DEF Entries
  <2> QED
    BY <2>1, <2>2, HeadOther
<1>5. Heads(v.dir, g) = Heads(v.dir, files)
  BY <1>4 DEF Heads
<1>6. \A f \in Object : FileType(g[f])
  BY <1>1, <1>2
<1>7. FilesInv(v, g)
  BY <1>2, <1>3, <1>4, <1>5, <1>6 DEF FilesInv
<1> QED
  BY <1>7 DEF g

(* An object can be opened for an entry that no other one has, at the      *)
(* start of the file.                                                      *)
LEMMA SetOpen ==
  ASSUME NEW v, NEW files, FilesInv(v, files), NEW h \in Object, ~files[h].open, NEW i \in Entries,
         Opener(files, i) = {}, v.dir[i].name \in Name,
         NEW p, FileType(p), p.open, p.slot = i, p.org = v.dir[i].org, p.size = v.dir[i].size, p.ptr = 0,
         p.csect = 255
  PROVE  FilesInv(v, [files EXCEPT ![h] = p])
<1> DEFINE g == [files EXCEPT ![h] = p]
           R == HeadsBut(v.dir, files, i)
<1>1. /\ DOMAIN files = Object /\ (\A f \in Object : FileType(files[f]))
      /\ \A a, b \in Object : files[a].open /\ files[b].open /\ files[a].slot = files[b].slot => a = b
  BY DEF FilesInv
<1>2. DOMAIN g = Object /\ g[h] = p /\ \A f \in Object : f # h => g[f] = files[f]
  BY <1>1
<1> HIDE DEF g
<1>3. \A f \in Object : g[f].open /\ g[f].slot = i <=> f = h
  BY <1>2 DEF Opener
<1>4. \A a, b \in Object : g[a].open /\ g[b].open /\ g[a].slot = g[b].slot => a = b
  BY <1>1, <1>2, <1>3
<1>5. HeadOf(v.dir, files, i) = p.org
  BY HeadDir
<1>6. HeadOf(v.dir, g, i) = p.org
  <2> DEFINE S == Opener(g, i)
  <2>1. S = {h}
    BY <1>3 DEF Opener
  <2>2. (CHOOSE f \in S : TRUE) = h
    BY <2>1
  <2> QED
    BY <1>2, <2>1, <2>2 DEF HeadOf
<1>7. OtherFiles(files, g, i)
  BY <1>2 DEF OtherFiles
<1>8. \A f \in Object : FileType(g[f])
  BY <1>1, <1>2
<1>9. Holds(v, R \cup ({p.org} \cap Cluster)) /\ Heads(v.dir, files) = R \cup ({p.org} \cap Cluster)
  BY <1>5, HeadSplit DEF FilesInv
<1>10. p.org \notin R
  BY <1>5 DEF HeadsBut, FilesInv
<1>11. Opened(v, p)
  BY DEF Opened
<1>12. v.faults = 0 => Quiet(v, p) /\ Saved(v, p)
  <2>1. ~(p.csect < v.csize)
    BY <1>9 DEF Holds, VolType
  <2> QED
    BY <2>1 DEF FilesInv, Entered, Quiet, Saved
<1>13. v.faults = 0 => Tight(v, R \cup ({p.org} \cap Cluster)) /\ GrowOn(v.fat, v.fat, R) /\ Entered(v.dir[i])
  BY <1>9 DEF FilesInv, GrowOn
<1>14. \A f \in Object : g[f].open /\ g[f].slot = i =>
         /\ Opened(v, g[f])
         /\ \A a \in Object : g[a].open /\ g[a].slot = i => a = f
         /\ v.faults = 0 => Quiet(v, g[f]) /\ Saved(v, g[f])
  BY <1>2, <1>3, <1>11, <1>12
<1>15. Rebuilt(v, files, v, g, i)
  BY <1>2, <1>6, <1>7, <1>8, <1>9, <1>10, <1>13, <1>14 DEF Rebuilt
<1> QED
  BY <1>15, Rebuild DEF g

(* The object that f_open makes *)
LEMMA FileObject ==
  ASSUME NEW v, VolType(v), NEW i \in Entries, NEW flags
  PROVE  LET p == file_object(v, i, flags)
         IN /\ FileType(p) /\ p.open /\ p.slot = i /\ p.org = v.dir[i].org /\ p.size = v.dir[i].size
            /\ p.ptr = 0 /\ p.csect = 255
<1>1. v.dir[i].org \in Nat /\ v.dir[i].size \in Nat
  BY DirEntry DEF VolType, Entries
<1> QED
  BY <1>1 DEF file_object, no_file, FileType, FileFields

(* An entry that is emptied *)
NoChain(e) == entry(e.name, 0, 0)

(* Overwriting keeps the invariant of files, and empties the entry. *)
LEMMA Overwrite ==
  ASSUME NEW v, NEW files, FilesInv(v, files), ~v.err, NEW i \in Entries, Opener(files, i) = {},
         v.dir[i].name \in Name
  PROVE  LET w == overwrite(v, i)
         IN FilesInv(w, files) /\ VolType(w) /\ w.dir = [v.dir EXCEPT ![i] = NoChain(v.dir[i])]
<1> DEFINE e == NoChain(v.dir[i])
           c == v.dir[i].org
           t == Emptying(v, i, e)
           u == [t EXCEPT !.last = c - 1]
           w == move_window(u, DirSect(i))
           d == [v.dir EXCEPT ![i] = e]
<1>1. c \in Nat
  BY DirEntry DEF FilesInv, Holds, VolType, Entries
<1>2. e \in Entry /\ e.org = 0 /\ e.size = 0
  BY EntryOf DEF NoChain
<1>3. overwrite(v, i) = IF c = 0 THEN t ELSE IF t.err THEN t ELSE w
  BY DEF overwrite, Emptying, then, NoChain
<1> HIDE DEF e
<1>4. FilesInv(t, files) /\ VolType(t) /\ t.dir = d
  BY <1>2, Emptied
<1> HIDE DEF t
<1>5. ASSUME c # 0
      PROVE  FilesInv(w, files) /\ VolType(w) /\ w.dir = d
  <2>1. c - 1 \in Nat
    BY <1>1, <1>5
  <2> HIDE DEF c, d
  <2>2. FilesInv(u, files) /\ VolType(u) /\ u.dir = t.dir
    <3> DEFINE m == c - 1
    <3> HIDE DEF m
    <3>1. LET x == [t EXCEPT !.last = m] IN FilesInv(x, files) /\ VolType(x) /\ x.dir = t.dir
      BY <1>4, <2>1, SetLast DEF m
    <3> QED
      BY <3>1 DEF m
  <2> HIDE DEF u
  <2>3. Moves(u, w)
    BY <2>2, MoveWindow
  <2> QED
    BY <1>4, <2>2, <2>3, FilesMove DEF Moves
<1> QED
  BY <1>3, <1>4, <1>5 DEF e

(* f_open fails, *)
OpenNone(w) == [v |-> fail(w), fp |-> no_file(w), got |-> << >>]

(* opens a file that is there, *)
OpenOld(w, i, flags) == [v |-> w, fp |-> file_object(w, i, flags), got |-> << >>]

(* or one that it has made or emptied. *)
OpenNew(w, i, flags) ==
  IF w.err THEN OpenNone(w)
  ELSE [v |-> [w EXCEPT !.wflag = TRUE], fp |-> file_object(w, i, flags \cup {"written"}), got |-> << >>]

(* Each of the three ways in which f_open returns keeps the invariant of   *)
(* files: an error,                                                        *)
LEMMA NoneOpened ==
  ASSUME NEW v, NEW files, FilesInv(v, files), NEW h \in Object, ~files[h].open
  PROVE  LET t == OpenNone(v) IN FilesInv(t.v, [files EXCEPT ![h] = t.fp])
<1>1. OpenNone(v).v = fail(v) /\ OpenNone(v).fp = no_file(v)
  BY DEF OpenNone
<1> DEFINE w == fail(v)
           p == no_file(v)
<1>2. FilesInv(w, files)
  BY FilesFail
<1>3. FileType(p) /\ ~p.open
  BY NoFile
<1> HIDE DEF w, p
<1>4. FilesInv(w, [files EXCEPT ![h] = p])
  BY <1>2, <1>3, SetClosed
<1> QED
  BY <1>1, <1>4 DEF w, p

(* an old file, *)
LEMMA OldOpened ==
  ASSUME NEW v, NEW files, FilesInv(v, files), NEW h \in Object, ~files[h].open, NEW i \in Entries,
         Opener(files, i) = {}, v.dir[i].name \in Name, NEW flags
  PROVE  LET t == OpenOld(v, i, flags) IN FilesInv(t.v, [files EXCEPT ![h] = t.fp])
<1>1. OpenOld(v, i, flags).v = v /\ OpenOld(v, i, flags).fp = file_object(v, i, flags)
  BY DEF OpenOld
<1> DEFINE p == file_object(v, i, flags)
<1>2. /\ FileType(p) /\ p.open /\ p.slot = i /\ p.org = v.dir[i].org /\ p.size = v.dir[i].size
      /\ p.ptr = 0 /\ p.csect = 255
  BY FileObject DEF FilesInv, Holds
<1> HIDE DEF p
<1>3. FilesInv(v, [files EXCEPT ![h] = p])
  BY <1>2, SetOpen
<1> QED
  BY <1>1, <1>3 DEF p

(* and a new one. *)
LEMMA NewOpened ==
  ASSUME NEW v, NEW files, FilesInv(v, files), NEW h \in Object, ~files[h].open, NEW i \in Entries,
         Opener(files, i) = {}, v.dir[i].name \in Name, NEW flags
  PROVE  LET t == OpenNew(v, i, flags) IN FilesInv(t.v, [files EXCEPT ![h] = t.fp])
<1>1. CASE v.err
  BY <1>1, NoneOpened DEF OpenNew
<1>2. CASE ~v.err
  <2> DEFINE w == [v EXCEPT !.wflag = TRUE]
             p == file_object(v, i, flags \cup {"written"})
             g == [files EXCEPT ![h] = p]
  <2>1. OpenNew(v, i, flags).v = w /\ OpenNew(v, i, flags).fp = p
    BY <1>2 DEF OpenNew
  <2>2. VolType(v)
    BY DEF FilesInv, Holds
  <2>3. FilesInv(v, g)
    <3> DEFINE f == flags \cup {"written"}
    <3> HIDE DEF f
    <3>1. LET t == OpenOld(v, i, f) IN FilesInv(t.v, [files EXCEPT ![h] = t.fp])
      BY OldOpened
    <3>2. OpenOld(v, i, f).v = v /\ OpenOld(v, i, f).fp = p
      BY DEF OpenOld, f
    <3> QED
      BY <3>1, <3>2
  <2>4. Moves(v, w)
    BY <2>2, Updates
  <2> HIDE DEF w, g
  <2>5. FilesInv(w, g)
    BY <2>3, <2>4, FilesMove
  <2> QED
    BY <2>1, <2>5 DEF g
<1> QED
  BY <1>1, <1>2

(* The ways in which f_open goes on when it has found the entry of the     *)
(* file, or a place for one, or an error *)
OpenEnds(w, n, flags, t) ==
  \/ t = OpenNone(w)
  \/ \E i \in Entries :
       /\ ~w.err /\ w.dir[i].name = n
       /\ t = OpenOld(w, i, flags) \/ t = OpenNew(overwrite(w, i), i, flags)
  \/ \E j \in Entries :
       /\ ~w.err /\ w.dir[j].name \in {NONE, END}
       /\ t = OpenNew(set_dir(w, j, entry(n, 0, 0)), j, flags)

(* Before that it only moves the window. *)
LEMMA OpenBegins ==
  ASSUME NEW v, VolType(v), NEW n, NEW create \in {"no", "new", "always"}, NEW flags
  PROVE  \E w : Moves(v, w) /\ Same(v, w) /\ OpenEnds(w, n, flags, f_open(v, n, create, flags))
<1> DEFINE r == dir_find(v, n)
           w == r[1]
           i == r[2]
           q == blank_entry(w)
           x == q[1]
           j == q[2]
           t == f_open(v, n, create, flags)
           y == set_dir(x, j, entry(n, 0, 0))
<1>1. Moves(v, w) /\ Same(v, w) /\ (i = 0 \/ (i \in Entries /\ w.dir[i].name = n /\ ~w.err)) /\ VolType(w)
  BY DirFind DEF Moves
<1>2. t = IF w.err \/ (i = 0 /\ create = "no") THEN OpenNone(w)
          ELSE IF i = 0 THEN IF x.err \/ j = 0 THEN OpenNone(x) ELSE OpenNew(y, j, flags)
          ELSE IF create = "no" THEN OpenOld(w, i, flags)
          ELSE IF create = "new" THEN OpenNone(w)
          ELSE OpenNew(overwrite(w, i), i, flags)
  BY DEF f_open, OpenNone, OpenOld, OpenNew
<1> HIDE DEF r
<1>3. Moves(w, x) /\ Same(w, x) /\ (j = 0 \/ (j \in Entries /\ x.dir[j].name \in {NONE, END} /\ ~x.err))
  <2> HIDE DEF w
  <2> QED
    BY <1>1, BlankEntry
<1> HIDE DEF w, i, q, t
<1>4. Moves(v, x) /\ Same(v, x)
  BY <1>1, <1>3, MovesTrans DEF Same
<1> HIDE DEF x, j, y
<1>5. CASE w.err \/ (i = 0 /\ create = "no") \/ (i # 0 /\ create = "new")
  <2>1. t = OpenNone(w)
    BY <1>2, <1>5
  <2> QED
    BY <1>1, <2>1 DEF OpenEnds, t
<1>6. CASE ~w.err /\ i = 0 /\ create # "no" /\ (x.err \/ j = 0)
  <2>1. t = OpenNone(x)
    BY <1>2, <1>6
  <2> QED
    BY <1>4, <2>1 DEF OpenEnds, t
<1>7. CASE ~w.err /\ i = 0 /\ create # "no" /\ ~(x.err \/ j = 0)
  <2>1. t = OpenNew(y, j, flags)
    BY <1>2, <1>7
  <2> QED
    BY <1>3, <1>4, <1>7, <2>1 DEF OpenEnds, t, y
<1>8. CASE ~w.err /\ i # 0 /\ create # "new"
  <2>1. t = OpenOld(w, i, flags) \/ t = OpenNew(overwrite(w, i), i, flags)
    BY <1>2, <1>8
  <2> QED
    BY <1>1, <1>8, <2>1 DEF OpenEnds, t
<1> QED
  BY <1>5, <1>6, <1>7, <1>8

(* f_open keeps the invariant, of any file that is not in use, in any mode. *)
LEMMA Open ==
  ASSUME NEW v, NEW files, FilesInv(v, files), ~v.err, NEW h \in Object, ~files[h].open,
         NEW n \in Name, ~InUse(v, files, n), NEW create \in {"no", "new", "always"}, NEW flags
  PROVE  LET t == f_open(v, n, create, flags) IN FilesInv(t.v, [files EXCEPT ![h] = t.fp])
<1> DEFINE t == f_open(v, n, create, flags)
           Done(x) == FilesInv(x.v, [files EXCEPT ![h] = x.fp])
<1>1. VolType(v)
  BY DEF FilesInv, Holds
<1>2. PICK w : Moves(v, w) /\ OpenEnds(w, n, flags, t)
  BY <1>1, OpenBegins
<1> HIDE DEF t
<1>3. FilesInv(w, files) /\ w.dir = v.dir /\ w.dir \in DIR
  BY <1>2, FilesMove DEF Moves, VolType
<1>4. Done(OpenNone(w))
  BY <1>3, NoneOpened
<1>5. ASSUME NEW i \in Entries, ~w.err, w.dir[i].name = n
      PROVE  Done(OpenOld(w, i, flags)) /\ Done(OpenNew(overwrite(w, i), i, flags))
  <2> DEFINE y == overwrite(w, i)
  <2>1. Opener(files, i) = {}
    BY <1>3, <1>5, NotOpen DEF InUse
  <2>2. FilesInv(y, files) /\ y.dir = [w.dir EXCEPT ![i] = NoChain(w.dir[i])]
    BY <1>3, <1>5, <2>1, Overwrite
  <2>3. y.dir[i].name = n
    BY <1>3, <1>5, <2>2 DEF DIR, Entries, NoChain, entry
  <2> HIDE DEF y
  <2>4. Done(OpenNew(y, i, flags))
    BY <2>1, <2>2, <2>3, NewOpened
  <2>5. Done(OpenOld(w, i, flags))
    BY <1>3, <1>5, <2>1, OldOpened
  <2> QED
    BY <2>4, <2>5 DEF y
<1>6. ASSUME NEW j \in Entries, ~w.err, w.dir[j].name \in {NONE, END}
      PROVE  Done(OpenNew(set_dir(w, j, entry(n, 0, 0)), j, flags))
  <2> DEFINE e == entry(n, 0, 0)
             y == set_dir(w, j, e)
  <2>1. w.dir[j].name \notin Name
    BY <1>6, FatAssumption
  <2>2. Opener(files, j) = {} /\ w.dir[j].org = 0
    BY <1>3, <2>1, NotOpen, DirEntry DEF Entries
  <2>3. e \in Entry /\ e.org = 0 /\ e.size = 0 /\ e.name = n
    BY EntryOf
  <2> HIDE DEF e
  <2>4. y = Emptying(w, j, e)
    BY <2>2 DEF Emptying
  <2> HIDE DEF y
  <2>5. FilesInv(y, files) /\ y.dir = [w.dir EXCEPT ![j] = e]
    BY <1>3, <1>6, <2>2, <2>3, <2>4, Emptied
  <2>6. y.dir[j].name = n
    BY <1>3, <2>3, <2>5 DEF DIR, Entries
  <2>7. Done(OpenNew(y, j, flags))
    BY <2>2, <2>5, <2>6, NewOpened
  <2> QED
    BY <2>7 DEF y, e
<1>7. Done(t)
  <2> HIDE DEF Done
  <2> QED
    BY <1>2, <1>4, <1>5, <1>6 DEF OpenEnds
<1> QED
  BY <1>7 DEF t

-----------------------------------------------------------------------------
(* f_rename *)

(* The entry i becomes entry j, which was blank *)
Swap(i, j, k) == IF k = j THEN i ELSE IF k = i THEN j ELSE k

(* The directory d is that of v, but the entry of a closed file has moved  *)
(* from i to j, where there was none.                                      *)
Moved(v, files, i, j, e, d) ==
  /\ i \in Entries /\ j \in Entries /\ i # j /\ Opener(files, i) = {} /\ Opener(files, j) = {}
  /\ v.dir[j].org = 0 /\ v.dir[j].size = 0
  /\ e \in Entry /\ e.org = v.dir[i].org /\ e.size = v.dir[i].size
  /\ d = [[v.dir EXCEPT ![j] = e] EXCEPT ![i] = BLANK]

(* It has the same files. *)
LEMMA MovedHeads ==
  ASSUME NEW v, NEW files, FilesInv(v, files), NEW i, NEW j, NEW e, NEW d, Moved(v, files, i, j, e, d)
  PROVE  /\ d \in DIR /\ Heads(d, files) = Heads(v.dir, files) /\ HeadsIn(d, Heads(v.dir, files))
         /\ \A k \in Entries : k # i /\ k # j => d[k] = v.dir[k]
         /\ \A k \in Entries : /\ HeadOf(d, files, k) = HeadOf(v.dir, files, Swap(i, j, k))
                              /\ d[k].org = v.dir[Swap(i, j, k)].org /\ d[k].size = v.dir[Swap(i, j, k)].size
<1> DEFINE H == Heads(v.dir, files)
           m(k) == Swap(i, j, k)
<1>1. v.dir \in DIR /\ Holds(v, H) /\ BLANK \in Entry /\ BLANK.org = 0 /\ BLANK.size = 0
  BY EntryOf DEF FilesInv, Holds, VolType, Heads
<1>2. d \in DIR
  BY <1>1, DirSet DEF Moved, Entries
<1>3. d[i] = BLANK /\ d[j] = e /\ \A k \in Entries : k # i /\ k # j => d[k] = v.dir[k]
  BY <1>1 DEF DIR, Entries, Moved
<1>4. \A k \in Entries : m(k) \in Entries /\ d[k].org = v.dir[m(k)].org /\ d[k].size = v.dir[m(k)].size
  BY <1>1, <1>3 DEF Swap, Moved
<1>5. \A k, l \in Entries : (m(k) = m(l) => k = l) /\ m(m(k)) = k
  BY DEF Swap, Moved
<1>6. \A k \in Entries : HeadOf(d, files, k) = HeadOf(v.dir, files, m(k))
  <2> SUFFICES ASSUME NEW k \in Entries
               PROVE  HeadOf(d, files, k) = HeadOf(v.dir, files, m(k))
    OBVIOUS
  <2>1. CASE k = i \/ k = j
    <3>1. Opener(files, k) = {} /\ Opener(files, m(k)) = {}
      BY <2>1 DEF Swap, Moved
    <3> QED
      BY <1>4, <3>1 DEF HeadOf
  <2>2. CASE k # i /\ k # j
    <3>1. d[k] = v.dir[k] /\ m(k) = k
      BY <1>3, <2>2 DEF Swap
    <3> QED
      BY <3>1 DEF HeadOf
  <2> QED
    BY <2>1, <2>2
<1> HIDE DEF m
<1>7. Heads(d, files) = H
  BY <1>4, <1>5, <1>6 DEF Heads
<1>8. HeadsIn(d, H)
  BY <1>1, <1>4, <1>5 DEF Holds, HeadsIn, Entries
<1> QED
  BY <1>2, <1>3, <1>4, <1>6, <1>7, <1>8 DEF m

(* So a volume keeps the invariant of files if its medium is sound. *)
LEMMA Renamed ==
  ASSUME NEW v, NEW files, FilesInv(v, files), NEW i, NEW j, NEW e, NEW w, Moved(v, files, i, j, e, w.dir),
         VolType(w), w.fat = v.fat, w.csize = v.csize, w.free = v.free, w.faults = v.faults,
         SoundDisk(w.disk, w.torn)
  PROVE  FilesInv(w, files)
<1> DEFINE H == Heads(v.dir, files)
           m(k) == Swap(i, j, k)
<1>0. H \subseteq Cluster
  BY DEF Heads
<1>1. Heads(w.dir, files) = H /\ HeadsIn(w.dir, H)
  BY MovedHeads
<1>2. \A k \in Entries : k # i /\ k # j => w.dir[k] = v.dir[k]
  BY MovedHeads
<1>3. \A k \in Entries : /\ HeadOf(w.dir, files, k) = HeadOf(v.dir, files, m(k))
                       /\ w.dir[k].org = v.dir[m(k)].org /\ w.dir[k].size = v.dir[m(k)].size
  BY MovedHeads
<1>4. /\ \A k, l \in Entries : m(k) = m(l) => k = l
      /\ \A k \in Entries : m(k) \in Entries
  BY DEF Swap, Moved
<1> HIDE DEF m, H
<1>5. Holds(w, H)
  BY <1>0, <1>1 DEF FilesInv, Holds, H
<1>6. \A h \in Object : files[h].open =>
         files[h].slot \in Entries /\ w.dir[files[h].slot] = v.dir[files[h].slot] /\ Opened(w, files[h])
  <2> SUFFICES ASSUME NEW h \in Object, files[h].open
               PROVE  files[h].slot \in Entries /\ w.dir[files[h].slot] = v.dir[files[h].slot] /\ Opened(w, files[h])
    OBVIOUS
  <2>1. files[h].slot # i /\ files[h].slot # j
    BY DEF Opener, Moved
  <2>2. Opened(v, files[h])
    BY DEF FilesInv
  <2> QED
    BY <1>2, <2>1, <2>2 DEF Opened
<1>7. \A k, l \in Entries :
        HeadOf(w.dir, files, k) \in Cluster /\ HeadOf(w.dir, files, l) = HeadOf(w.dir, files, k) => k = l
  BY <1>3, <1>4 DEF FilesInv
<1>8. ASSUME w.faults = 0
      PROVE  /\ Tight(w, H)
             /\ \A k \in Entries : Entered(w.dir[k])
             /\ \A h \in Object : files[h].open => Quiet(w, files[h]) /\ Saved(w, files[h])
  <2>1. Tight(w, H)
    BY <1>8 DEF FilesInv, Tight, n_free, H
  <2>2. \A k \in Entries : Entered(w.dir[k])
    BY <1>3, <1>4, <1>8 DEF FilesInv, Entered
  <2>3. \A h \in Object : files[h].open => Quiet(w, files[h]) /\ Saved(w, files[h])
    BY <1>6, <1>8 DEF FilesInv, Quiet, Saved
  <2> QED
    BY <2>1, <2>2, <2>3
<1>9. DOMAIN files = Object /\ (\A h \in Object : FileType(files[h]))
      /\ \A g, h \in Object : files[g].open /\ files[h].open /\ files[g].slot = files[h].slot => g = h
  BY DEF FilesInv
<1> QED
  BY <1>1, <1>5, <1>6, <1>7, <1>8, <1>9 DEF FilesInv

(* b is the directory between the two writes of a renaming. *)
Twice(v, files, b, T) ==
  /\ b \in DIR /\ Heads(b, files) = Heads(v.dir, files) /\ HeadsShared(b, Heads(v.dir, files), T)
  /\ \A h \in Object : files[h].open => b[files[h].slot] = v.dir[files[h].slot]
  /\ \A k, l \in Entries :
       k # l /\ HeadOf(b, files, k) \in Cluster /\ HeadOf(b, files, l) = HeadOf(b, files, k) =>
         b[k].org = HeadOf(b, files, k) /\ b[l].org = HeadOf(b, files, l) /\ {b[k].name, b[l].name} \in T

(* Then both entries have the chain, and the files are sound but for the   *)
(* two names.                                                              *)
LEMMA BothHeads ==
  ASSUME NEW v, NEW files, FilesInv(v, files), NEW i, NEW j, NEW e, NEW d, Moved(v, files, i, j, e, d),
         v.dir[i].name \in Name, NEW b, b = [v.dir EXCEPT ![j] = e],
         NEW T, {v.dir[i].name, e.name} \in T
  PROVE  Twice(v, files, b, T)
<1> DEFINE H == Heads(v.dir, files)
           o == v.dir[i].org
<1>1. v.dir \in DIR /\ HeadsIn(v.dir, H) /\ b \in DIR /\ i \in Entries /\ j \in Entries /\ i # j
  BY DirSet DEF FilesInv, Holds, VolType, Moved, Entries
<1>2. b[j] = e /\ b[j].org = o /\ \A k \in Entries : k # j => b[k] = v.dir[k]
  BY <1>1 DEF DIR, Moved, Entries
<1>3. HeadOf(v.dir, files, i) = o /\ HeadOf(b, files, i) = o /\ HeadOf(b, files, j) = o
  BY <1>1, <1>2 DEF HeadOf, Moved
<1>4. \A k \in Entries : k # j => HeadOf(b, files, k) = HeadOf(v.dir, files, k)
  BY <1>2 DEF HeadOf
<1>5. HeadOf(v.dir, files, j) = 0
  BY DEF HeadOf, Moved
<1> HIDE DEF o
<1>6. Heads(b, files) = H
  <2>1. ASSUME NEW c \in Heads(b, files) PROVE c \in H
    BY <1>1, <1>3, <1>4 DEF Heads
  <2>2. ASSUME NEW c \in H PROVE c \in Heads(b, files)
    <3>1. PICK k \in Entries : c = HeadOf(v.dir, files, k) /\ c \in Cluster
      BY DEF Heads
    <3>2. k # j
      BY <1>5, <3>1, Codes
    <3> QED
      BY <1>4, <3>1, <3>2 DEF Heads
  <2> QED
    BY <2>1, <2>2
<1> HIDE DEF H
<1>7. {b[i].name, b[j].name} \in T /\ {b[j].name, b[i].name} \in T
  <2>1. b[i].name = v.dir[i].name /\ b[j].name = e.name
    BY <1>1, <1>2
  <2>2. {b[j].name, b[i].name} = {v.dir[i].name, e.name}
    BY <2>1
  <2> QED
    BY <2>1, <2>2
<1>8. HeadsShared(b, H, T)
  <2> SUFFICES ASSUME NEW k \in Entries, b[k].org \in Cluster
               PROVE  /\ b[k].org \in H
                      /\ \A l \in Entries : b[l].org = b[k].org => l = k \/ {b[k].name, b[l].name} \in T
    BY DEF HeadsShared, Entries
  <2> DEFINE a == IF k = j THEN i ELSE k
  <2>1. a \in Entries /\ b[k].org = v.dir[a].org
    BY <1>1, <1>2 DEF o
  <2>2. b[k].org \in H
    BY <1>1, <2>1 DEF HeadsIn, Entries
  <2>3. ASSUME NEW l \in Entries, b[l].org = b[k].org, l # k
        PROVE  {b[k].name, b[l].name} \in T
    <3> DEFINE c == IF l = j THEN i ELSE l
    <3>1. c \in Entries /\ b[l].org = v.dir[c].org
      BY <1>1, <1>2 DEF o
    <3>2. a = c
      BY <1>1, <2>1, <2>3, <3>1 DEF HeadsIn, Entries
    <3>3. (k = i /\ l = j) \/ (k = j /\ l = i)
      BY <2>3, <3>2
    <3> QED
      BY <1>7, <3>3
  <2> QED
    BY <2>2, <2>3
<1>9. \A h \in Object : files[h].open => b[files[h].slot] = v.dir[files[h].slot]
  BY <1>2 DEF FilesInv, Opened, Moved, Opener
<1>10. ASSUME NEW k \in Entries, NEW l \in Entries, k # l, HeadOf(b, files, k) \in Cluster,
              HeadOf(b, files, l) = HeadOf(b, files, k)
       PROVE  b[k].org = HeadOf(b, files, k) /\ b[l].org = HeadOf(b, files, l) /\ {b[k].name, b[l].name} \in T
  <2> DEFINE a == IF k = j THEN i ELSE k
             c == IF l = j THEN i ELSE l
  <2>1. /\ a \in Entries /\ HeadOf(b, files, k) = HeadOf(v.dir, files, a)
        /\ c \in Entries /\ HeadOf(b, files, l) = HeadOf(v.dir, files, c)
    BY <1>1, <1>3, <1>4
  <2>2. a = c
    BY <1>10, <2>1 DEF FilesInv
  <2>3. (k = i /\ l = j) \/ (k = j /\ l = i)
    BY <1>10, <2>2
  <2>4. b[i].org = o
    BY <1>1, <1>2 DEF o
  <2> QED
    BY <1>2, <1>3, <1>7, <2>3, <2>4
<1> QED
  BY <1>1, <1>6, <1>8, <1>9, <1>10 DEF H, Twice

(* A sound medium stays so when another two names are let off. *)
LEMMA SoundMore ==
  ASSUME NEW k, NEW T, SoundDisk(k, T), NEW S, T \subseteq S
  PROVE  SoundDisk(k, S)
  BY DEF SoundDisk, HeadsShared

(* f_rename from there on, step by step, but for what torn has of it       *)
Renaming(v, i, j, e) ==
  LET x == move_window(set_dir(v, j, e), DirSect(i)) IN IF x.err THEN x ELSE sync(set_dir(x, i, BLANK))

(* It is that, with the two names in torn if it has failed between them.   *)
LEMMA RenameIs ==
  ASSUME NEW v, VolType(v), NEW i, NEW j, i \in Entries, NEW m
  PROVE  LET w == Renaming(v, i, j, entry(m, v.dir[i].org, v.dir[i].size))
         IN rename_entry(v, i, j, m) =
              IF w.err /\ DirSect(i) # DirSect(j) THEN [w EXCEPT !.torn = w.torn \cup {{v.dir[i].name, m}}] ELSE w
<1> DEFINE e == entry(m, v.dir[i].org, v.dir[i].size)
           b == set_dir(v, j, e)
           x == move_window(b, DirSect(i))
           y == set_dir(x, i, BLANK)
           z == sync(y)
           w == IF x.err THEN x ELSE z
<1>1. [v.dir[i] EXCEPT !.name = m] = e
  <2>1. v.dir[i] = entry(v.dir[i].name, v.dir[i].org, v.dir[i].size)
    BY DirEntry DEF VolType, Entries
  <2> QED
    BY <2>1 DEF entry
<1>2. w = then(then(x, LAMBDA q : set_dir(q, i, BLANK)), sync)
  <2>1. ~x.err => ~y.err
    BY DEF set_dir
  <2> HIDE DEF x
  <2>2. then(x, LAMBDA q : set_dir(q, i, BLANK)) = IF x.err THEN x ELSE y
    BY DEF then
  <2> HIDE DEF y, z
  <2> QED
    BY <2>1, <2>2 DEF then, z
<1>3. b = set_dir(v, j, [v.dir[i] EXCEPT !.name = m])
  BY <1>1
<1>4. w = Renaming(v, i, j, e)
  BY DEF Renaming
<1> HIDE DEF w, b
<1> QED
  BY <1>2, <1>3, <1>4 DEF rename_entry, x, b

(* What f_rename does when it has found both entries, the new one being in *)
(* the window: the file is moved, unless it stops between two writes.      *)
LEMMA RenameEntry ==
  ASSUME NEW v, NEW files, FilesInv(v, files), ~v.err, NEW i \in Entries, NEW j \in Entries, NEW m \in Name,
         v.dir[i].name \in Name, Opener(files, i) = {}, v.dir[j].name \in {NONE, END}, v.winsect = DirSect(j)
  PROVE  Sound(rename_entry(v, i, j, m), files)
<1> DEFINE e == entry(m, v.dir[i].org, v.dir[i].size)
           b == set_dir(v, j, e)
           x == move_window(b, DirSect(i))
           y == set_dir(x, i, BLANK)
           z == sync(y)
           T == v.torn \cup {{v.dir[i].name, m}}
           d1 == [v.dir EXCEPT ![j] = e]
           d2 == [d1 EXCEPT ![i] = BLANK]
           w == IF x.err THEN x ELSE z
           u == rename_entry(v, i, j, m)
           apart == DirSect(i) # DirSect(j)
<1>1. VolType(v) /\ SoundDisk(v.disk, v.torn) /\ v.dir \in DIR
  BY DEF FilesInv, Holds, VolType
<1>2. v.dir[j].name \notin Name
  BY FatAssumption
<1>3. Opener(files, j) = {} /\ v.dir[j].org = 0 /\ v.dir[j].size = 0
  BY <1>1, <1>2, NotOpen, DirEntry DEF Entries
<1>4. v.dir[i].org \in Nat /\ v.dir[i].size \in Nat /\ [v.dir[i] EXCEPT !.name = m] = e
  <2>1. v.dir[i] = entry(v.dir[i].name, v.dir[i].org, v.dir[i].size) /\ v.dir[i].org \in Nat /\ v.dir[i].size \in Nat
    BY <1>1, DirEntry DEF Entries
  <2> QED
    BY <2>1 DEF entry
<1>5. e \in Entry /\ e.name = m /\ e.org = v.dir[i].org /\ e.size = v.dir[i].size
  BY <1>4, EntryOf
<1>6. u = IF w.err /\ apart THEN [w EXCEPT !.torn = w.torn \cup {{v.dir[i].name, m}}] ELSE w
  BY <1>1, RenameIs DEF Renaming, Entries
<1> HIDE DEF e, apart
<1>7. Moved(v, files, i, j, e, d2)
  BY <1>2, <1>3, <1>5 DEF Moved
<1>8. SameBut(v, b) /\ b.dir = d1 /\ b.winsect = v.winsect /\ b.err = v.err
  <2>1. b.winsect = v.winsect
    BY <1>1 DEF set_dir, VolType, VolFields
  <2> QED
    BY <1>1, <1>5, <2>1, SetDir DEF Entries, SameBut
<1>9. Twice(v, files, d1, T)
  <2>1. {v.dir[i].name, e.name} \in T
    BY <1>5
  <2>2. v.dir[i].name \in Name /\ d1 = [v.dir EXCEPT ![j] = e] /\ Moved(v, files, i, j, e, d2)
    BY <1>7
  <2> HIDE DEF T, d1, d2
  <2> QED
    BY <2>1, <2>2, BothHeads
<1>10. d2 \in DIR /\ HeadsIn(d2, Heads(v.dir, files))
  BY <1>7, MovedHeads
<1> HIDE DEF b, d1, d2
<1>11. Moves(b, x) /\ VolType(x) /\ (~apart => x = b)
  <2>1. ~apart => x = b
    BY <1>8 DEF apart, move_window
  <2> QED
    BY <1>8, <2>1, MoveWindow DEF SameBut, Moves
<1> HIDE DEF x
<1>12. SameBut(x, y) /\ y.dir = d2 /\ y.wflag
  <2>1. y.wflag
    BY <1>11 DEF set_dir, VolType, VolFields
  <2> QED
    BY <1>8, <1>11, <2>1, EntryOf, SetDir DEF Entries, SameBut, Moves, d2
<1> HIDE DEF y
<1>13. Moves(y, z) /\ VolType(z)
  BY <1>12, Sync DEF SameBut, Moves
<1>14. ~x.err /\ ~z.err => z.disk = [fat |-> v.fat, dir |-> d2]
  <2>1. ~x.err /\ ~z.err => z.disk = [fat |-> y.fat, dir |-> y.dir]
    BY <1>12, SyncDone DEF SameBut
  <2> QED
    BY <1>8, <1>11, <1>12, <2>1 DEF SameBut, Moves
<1> HIDE DEF z
<1>15. SoundDisk(v.disk, T) /\ v.torn \subseteq T
  BY <1>1, SoundMore
<1> DEFINE D1 == [fat |-> v.fat, dir |-> d1]
           D2 == [fat |-> v.fat, dir |-> d2]
<1>16. Heads(v.dir, files) \in SUBSET Cluster /\ InOrder(v.fat, Heads(v.dir, files)) /\ v.fat \in FAT
  BY DEF FilesInv, Holds, VolType
<1>17. SoundDisk(D1, T) /\ \A S : SoundDisk(D2, S)
  <2> DEFINE H == Heads(v.dir, files)
  <2>1. H \in SUBSET Cluster /\ InOrder(v.fat, H) /\ HeadsShared(d1, H, T) /\ HeadsIn(d2, H) /\ d1 \in DIR
    BY <1>9, <1>10, <1>16 DEF Twice
  <2> HIDE DEF H, T
  <2>2. SoundDisk(D1, T)
    BY <1>16, <2>1 DEF SoundDisk
  <2>3. \A S : SoundDisk(D2, S)
    BY <1>10, <1>16, <2>1, SoundHeads
  <2> QED
    BY <2>2, <2>3
<1>18. /\ VolType(w) /\ w.fat = v.fat /\ w.csize = v.csize /\ w.free = v.free /\ w.faults = v.faults
       /\ w.torn = v.torn
       /\ w.dir = IF x.err THEN d1 ELSE d2
       /\ w.disk \in {v.disk, D1, D2} /\ (w.disk = D1 => (w.err /\ apart) \/ D1 = v.disk \/ D1 = D2)
       /\ w.err /\ apart => w.faults # 0
       /\ x.err => w.err /\ apart
  <2>1. CASE x.err
    <3>1. x.disk \in {v.disk, D1} /\ x.dir = d1 /\ x.faults # 0 /\ apart
      BY <1>8, <1>11, <2>1 DEF SameBut, Moves
    <3> QED
      BY <1>8, <1>11, <2>1, <3>1 DEF SameBut, Moves
  <2>2. CASE ~x.err
    <3>1. z.disk \in {v.disk, D1, D2} /\ z.dir = d2
      BY <1>8, <1>11, <1>12, <1>13 DEF SameBut, Moves
    <3>2. ~apart => z.disk \in {v.disk, D2}
      BY <1>8, <1>11, <1>12, <1>13 DEF SameBut, Moves
    <3>3. z.err => z.faults # 0
      BY <1>12, <1>13, <2>2 DEF SameBut, Moves
    <3>4. ~z.err => z.disk = D2
      BY <1>14, <2>2
    <3> QED
      BY <1>8, <1>11, <1>12, <1>13, <2>2, <3>1, <3>2, <3>3, <3>4 DEF SameBut, Moves
  <2> QED
    BY <2>1, <2>2
<1> HIDE DEF w, D1, D2, u, T
<1>19. CASE ~(w.err /\ apart)
  <2>1. u = w /\ w.dir = d2
    BY <1>6, <1>18, <1>19
  <2>2. SoundDisk(w.disk, w.torn)
    BY <1>1, <1>17, <1>18, <1>19
  <2>3. FilesInv(w, files)
    BY <1>7, <1>18, <2>1, <2>2, Renamed
  <2> QED
    BY <2>1, <2>3 DEF Sound, u
<1>20. CASE w.err /\ apart
  <2> DEFINE q == [w EXCEPT !.torn = T]
  <2>1. u = q
    BY <1>6, <1>18, <1>20 DEF T
  <2>2. /\ DOMAIN q = VolFields /\ q.torn = T /\ \A f \in VolFields \ {"torn"} : q[f] = w[f]
    BY <1>18 DEF VolType, VolFields
  <2> HIDE DEF q
  <2>3. /\ q.ss = w.ss /\ q.csize = w.csize /\ q.fat = w.fat /\ q.dir = w.dir /\ q.disk = w.disk
        /\ q.last = w.last /\ q.free = w.free /\ q.faults = w.faults /\ q.fail = w.fail /\ q.cut = w.cut
        /\ q.err = w.err /\ q.wflag = w.wflag
    BY <2>2 DEF VolFields
  <2>4. VolType(q) /\ q.faults # 0
    BY <1>18, <1>20, <2>2, <2>3 DEF VolType
  <2>5. SoundDisk(q.disk, q.torn)
    BY <1>15, <1>17, <1>18, <2>2, <2>3
  <2>6. CASE x.err
    <3>1. FilesTorn(q, files)
      <4>1. q.dir = d1 /\ q.fat = v.fat
        BY <1>18, <2>3, <2>6
      <4>2. \A h \in Object : files[h].open => Opened(q, files[h])
        BY <1>9, <4>1 DEF FilesInv, Opened, Twice
      <4>3. DOMAIN files = Object /\ (\A h \in Object : FileType(files[h]))
            /\ \A g, h \in Object : files[g].open /\ files[h].open /\ files[g].slot = files[h].slot => g = h
        BY DEF FilesInv
      <4>4. InOrder(q.fat, Heads(q.dir, files)) /\ HeadsShared(q.dir, Heads(q.dir, files), q.torn)
        BY <1>9, <1>16, <2>2, <4>1 DEF Twice
      <4> QED
        BY <1>9, <2>2, <2>4, <2>5, <4>1, <4>2, <4>3, <4>4 DEF FilesTorn, Twice
    <3> QED
      BY <2>1, <3>1 DEF Sound, u
  <2>7. CASE ~x.err
    <3>1. FilesInv(q, files)
      BY <1>7, <1>18, <2>3, <2>4, <2>5, <2>7, Renamed
    <3> QED
      BY <2>1, <3>1 DEF Sound, u
  <2> QED
    BY <2>6, <2>7
<1> QED
  BY <1>19, <1>20

(* f_rename only moves the window before that. *)
LEMMA RenameBegins ==
  ASSUME NEW v, VolType(v), NEW n, NEW m
  PROVE  \E w : /\ Moves(v, w) /\ Same(v, w)
               /\ \/ f_rename(v, n, m) = fail(w)
                  \/ \E i, j \in Entries :
                       /\ ~w.err /\ w.dir[i].name = n /\ w.dir[j].name \in {NONE, END} /\ w.winsect = DirSect(j)
                       /\ f_rename(v, n, m) = rename_entry(w, i, j, m)
<1> DEFINE r == dir_find(v, n)
           x == r[1]
           i == r[2]
           q == dir_find(x, m)
           y == q[1]
           k == q[2]
           p == blank_entry(y)
           w == p[1]
           j == p[2]
           t == f_rename(v, n, m)
<1>1. Moves(v, x) /\ Same(v, x) /\ (i = 0 \/ (i \in Entries /\ x.dir[i].name = n /\ ~x.err)) /\ VolType(x)
  BY DirFind DEF Moves
<1>2. t = IF x.err \/ i = 0 THEN fail(x)
          ELSE IF y.err \/ k # 0 THEN fail(y)
          ELSE IF w.err \/ j = 0 THEN fail(w)
          ELSE rename_entry(w, i, j, m)
  BY DEF f_rename
<1> HIDE DEF t, r
<1>3. Moves(x, y) /\ Same(x, y) /\ VolType(y)
  <2> HIDE DEF x
  <2> QED
    BY <1>1, DirFind DEF Moves
<1> HIDE DEF x, i, q
<1>4. /\ Moves(y, w) /\ Same(y, w)
      /\ j = 0 \/ (j \in Entries /\ w.dir[j].name \in {NONE, END} /\ ~w.err /\ w.winsect = DirSect(j))
  <2> HIDE DEF y
  <2> QED
    BY <1>3, BlankEntry
<1> HIDE DEF y, k, p
<1>5. Moves(v, y) /\ Same(v, y)
  BY <1>1, <1>3, MovesTrans DEF Same
<1> HIDE DEF w, j
<1>6. Moves(v, w) /\ Same(v, w)
  BY <1>4, <1>5, MovesTrans DEF Same
<1>7. CASE t = fail(x) \/ t = fail(y) \/ t = fail(w)
  BY <1>1, <1>5, <1>6, <1>7 DEF t
<1>8. CASE ~(x.err \/ i = 0) /\ ~(w.err \/ j = 0) /\ t = rename_entry(w, i, j, m)
  <2>1. w.dir[i].name = n /\ i \in Entries
    BY <1>1, <1>3, <1>4, <1>8 DEF Moves
  <2> QED
    BY <1>4, <1>6, <1>8, <2>1 DEF t
<1> QED
  BY <1>2, <1>7, <1>8

(* f_rename leaves the files sound. *)
LEMMA Rename ==
  ASSUME NEW v, NEW files, FilesInv(v, files), NEW n \in Name, NEW m \in Name, ~InUse(v, files, n)
  PROVE  Sound(f_rename(v, n, m), files)
<1>1. VolType(v)
  BY DEF FilesInv, Holds
<1>2. PICK w :
        /\ Moves(v, w)
        /\ \/ f_rename(v, n, m) = fail(w)
           \/ \E i, j \in Entries :
                /\ ~w.err /\ w.dir[i].name = n /\ w.dir[j].name \in {NONE, END} /\ w.winsect = DirSect(j)
                /\ f_rename(v, n, m) = rename_entry(w, i, j, m)
  BY <1>1, RenameBegins
<1>3. FilesInv(w, files) /\ w.dir = v.dir
  BY <1>2, FilesMove DEF Moves
<1>4. FilesInv(fail(w), files)
  BY <1>3, FilesFail
<1>5. ASSUME NEW i \in Entries, NEW j \in Entries, ~w.err, w.dir[i].name = n, w.dir[j].name \in {NONE, END},
             w.winsect = DirSect(j)
      PROVE  Sound(rename_entry(w, i, j, m), files)
  <2>1. Opener(files, i) = {}
    BY <1>3, <1>5, NotOpen DEF InUse
  <2> QED
    BY <1>3, <1>5, <2>1, RenameEntry
<1> QED
  BY <1>2, <1>4, <1>5 DEF Sound

-----------------------------------------------------------------------------
(* The steps of KzStdio *)

(* A call that leaves the files sound ends in SoundInv, *)
LEMMA Returned ==
  ASSUME NEW v, NEW files, Sound(v, files), NEW units, return(v, files, units)
  PROVE  SoundInv'
  BY SoundFacts, Return

(* also one on a file. *)
LEMMA ReturnedOn ==
  ASSUME NEW h \in Object, NEW t, FilesInv(t.v, [fil EXCEPT ![h] = t.fp]), return_on(h, t)
  PROVE  SoundInv'
<1> DEFINE g == [fil EXCEPT ![h] = t.fp]
<1>1. return(t.v, g, t.got) /\ Sound(t.v, g)
  BY DEF return_on, Sound
<1> HIDE DEF g
<1> QED
  BY <1>1, Returned

(* What a call on a file begins with *)
LEMMA CallOn ==
  ASSUME FileInv, NEW f \in Fault, NEW h \in Object, fil[h].open
  PROVE  LET v == call(f)
             s == call_on(h, f)
         IN /\ FilesInv(v, fil) /\ ~v.err /\ s = CallState(v, fil[h])
            /\ CallInv(CallView(v, fil, h), s) /\ ~s.v.err
<1> DEFINE v == call(f)
           s == call_on(h, f)
<1>1. FilesInv(v, fil) /\ ~v.err
  BY Call
<1>2. s = CallState(v, fil[h])
  BY DEF call_on, CallState
<1> HIDE DEF v, s
<1>3. CallInv(CallView(v, fil, h), s) /\ s.v = v
  BY <1>1, <1>2, Enter
<1> QED
  BY <1>1, <1>2, <1>3 DEF v, s

(* A call that keeps the invariant of calls ends with one of files *)
LEMMA CallEnds ==
  ASSUME FileInv, NEW f \in Fault, NEW h \in Object, fil[h].open,
         NEW t, CallInv(CallView(call(f), fil, h), t), Marked(call_on(h, f), t), return_on(h, t)
  PROVE  SoundInv'
<1> DEFINE v == call(f)
<1>1. FilesInv(v, fil) /\ Marked(CallState(v, fil[h]), t) /\ CallInv(CallView(v, fil, h), t)
  BY CallOn
<1> HIDE DEF v
<1>2. FilesInv(t.v, [fil EXCEPT ![h] = t.fp])
  BY <1>1, FileCall
<1> QED
  BY <1>2, ReturnedOn

(* Calls of f_read, *)
LEMMA ReadStep ==
  ASSUME FileInv, NEW f \in Fault, NEW h \in Object, NEW n \in Nat, read(h, n, f)
  PROVE  SoundInv'
<1> DEFINE x == CallView(call(f), fil, h)
           s == call_on(h, f)
           t == f_read(s, n)
<1>1. fil[h].open /\ return_on(h, t)
  BY DEF read
<1>2. CallInv(x, s)
  BY <1>1, CallOn
<1>3. CallInv(x, t) /\ SameFile(s, t)
  <2> HIDE DEF x, s
  <2> QED
    BY <1>2, Read
<1>4. Marked(s, t)
  BY <1>3 DEF Marked, SameFile
<1> HIDE DEF t
<1> QED
  BY <1>1, <1>3, <1>4, CallEnds

(* There are as many units to write as the caller says. *)
LEMMA UnitsLen ==
  ASSUME NEW m, NEW n \in Nat
  PROVE  Len(new_units(m, n)) \in Nat
<1> DEFINE e(i) == m * MaxFile + i
<1>1. Len([i \in 1 .. n |-> e(i)]) = n
  <2> HIDE DEF e
  <2> QED
    OBVIOUS
<1> QED
  BY <1>1 DEF new_units

(* f_write, *)
LEMMA WriteStep ==
  ASSUME FileInv, NEW f \in Fault, NEW h \in Object, NEW n \in Nat, write(h, n, f)
  PROVE  SoundInv'
<1> DEFINE x == CallView(call(f), fil, h)
           s == call_on(h, f)
           u == new_units(fs.calls + 1, n)
           t == f_write(s, u)
<1>1. fil[h].open /\ return_on(h, t)
  BY DEF write
<1> HIDE DEF u
<1>5. Len(u) \in Nat
  BY UnitsLen DEF u
<1>2. CallInv(x, s) /\ ~s.v.err
  BY <1>1, CallOn
<1>3. CallInv(x, t) /\ Marked(s, t)
  <2> HIDE DEF x, s
  <2> QED
    BY <1>2, <1>5, Write
<1> HIDE DEF t
<1> QED
  BY <1>1, <1>3, CallEnds

(* f_lseek (any offset that is not negative), *)
LEMMA LseekStep ==
  ASSUME FileInv, NEW f \in Fault, NEW h \in Object, NEW n \in Nat, lseek(h, n, f)
  PROVE  SoundInv'
<1> DEFINE x == CallView(call(f), fil, h)
           s == call_on(h, f)
           t == f_lseek(s, n)
<1>1. fil[h].open /\ return_on(h, t)
  BY DEF lseek
<1>2. CallInv(x, s) /\ ~s.v.err
  BY <1>1, CallOn
<1>3. CallInv(x, t) /\ Marked(s, t)
  <2> HIDE DEF x, s
  <2> QED
    BY <1>2, Lseek
<1> HIDE DEF t
<1> QED
  BY <1>1, <1>3, CallEnds

(* What f_sync has come to in such a call *)
LEMMA SyncEnds ==
  ASSUME FileInv, NEW f \in Fault, NEW h \in Object, fil[h].open, NEW t, t = f_sync(call_on(h, f))
  PROVE  /\ FilesInv(t.v, [fil EXCEPT ![h] = t.fp]) /\ CallType(t)
         /\ \A p : FileType(p) /\ ~p.open /\ ~t.v.err => FilesInv(t.v, [fil EXCEPT ![h] = p])
<1> DEFINE v == call(f)
<1>1. FilesInv(v, fil) /\ ~v.err /\ t = f_sync(CallState(v, fil[h]))
  BY CallOn
<1> HIDE DEF v
<1> QED
  BY <1>1, SyncCall

(* f_sync *)
LEMMA SyncStep ==
  ASSUME FileInv, NEW f \in Fault, NEW h \in Object, sync_file(h, f)
  PROVE  SoundInv'
<1> DEFINE t == f_sync(call_on(h, f))
<1>1. fil[h].open /\ return_on(h, t)
  BY DEF sync_file
<1>2. FilesInv(t.v, [fil EXCEPT ![h] = t.fp])
  BY <1>1, SyncEnds
<1> HIDE DEF t
<1> QED
  BY <1>1, <1>2, ReturnedOn

(* and f_close keep SoundInv. *)
LEMMA CloseStep ==
  ASSUME FileInv, NEW f \in Fault, NEW h \in Object, close(h, f)
  PROVE  SoundInv'
<1> DEFINE s == f_sync(call_on(h, f))
           p == no_file(s.v)
           t == IF s.v.err THEN s ELSE [s EXCEPT !.fp = p]
<1>1. fil[h].open /\ return_on(h, t)
  BY DEF close, and_then
<1>2. /\ FilesInv(s.v, [fil EXCEPT ![h] = s.fp]) /\ CallType(s)
      /\ \A q : FileType(q) /\ ~q.open /\ ~s.v.err => FilesInv(s.v, [fil EXCEPT ![h] = q])
  BY <1>1, SyncEnds
<1>3. FileType(p) /\ ~p.open
  BY NoFile
<1> HIDE DEF s, p
<1>4. ~s.v.err => t.v = s.v /\ t.fp = p
  BY <1>2 DEF CallType, CallFields
<1>5. FilesInv(t.v, [fil EXCEPT ![h] = t.fp])
  <2>1. CASE s.v.err
    BY <1>2, <2>1
  <2>2. CASE ~s.v.err
    BY <1>2, <1>3, <1>4, <2>2
  <2> QED
    BY <2>1, <2>2
<1> HIDE DEF t
<1> QED
  BY <1>1, <1>5, ReturnedOn

(* A file that callers do not use is not in use when the call begins. *)
LEMMA Uses ==
  ASSUME FileInv, NEW f \in Fault, NEW n, ~in_use(n)
  PROVE  ~InUse(call(f), fil, n)
<1>1. call(f).dir = fs.dir
  BY Call
<1> QED
  BY <1>1 DEF in_use, InUse

(* Calls of f_open, *)
LEMMA OpenStep ==
  ASSUME FileInv, NEW f \in Fault, NEW h \in Object, NEW n \in Name, NEW create \in {"no", "new", "always"},
         NEW flags, open(h, n, create, flags, f)
  PROVE  SoundInv'
<1> DEFINE v == call(f)
           t == f_open(v, n, create, flags)
<1>1. ~fil[h].open /\ ~in_use(n) /\ return_on(h, t)
  BY DEF open
<1>2. FilesInv(v, fil) /\ ~v.err /\ ~InUse(v, fil, n)
  BY <1>1, Call, Uses
<1>3. FilesInv(t.v, [fil EXCEPT ![h] = t.fp])
  <2> HIDE DEF v
  <2> QED
    BY <1>1, <1>2, Open
<1> HIDE DEF t
<1> QED
  BY <1>1, <1>3, ReturnedOn

(* f_unlink and f_rename, *)
LEMMA DirSteps ==
  ASSUME FileInv, NEW f \in Fault, NEW n \in Name, NEW m \in Name, unlink(n, f) \/ rename(n, m, f)
  PROVE  SoundInv'
<1> DEFINE v == call(f)
<1>1. FilesInv(v, fil) /\ ~v.err
  BY Call
<1>2. CASE unlink(n, f)
  <2> DEFINE t == f_unlink(v, n)
  <2>1. ~in_use(n) /\ return(t, fil, << >>)
    BY <1>2 DEF unlink
  <2>2. ~InUse(v, fil, n)
    BY <2>1, Uses
  <2> HIDE DEF v
  <2>3. Sound(t, fil)
    BY <1>1, <2>2, Unlink DEF Sound
  <2> HIDE DEF t
  <2> QED
    BY <2>1, <2>3, Returned
<1>3. CASE rename(n, m, f)
  <2> DEFINE t == f_rename(v, n, m)
  <2>1. ~in_use(n) /\ return(t, fil, << >>)
    BY <1>3 DEF rename
  <2>2. ~InUse(v, fil, n)
    BY <2>1, Uses
  <2> HIDE DEF v
  <2>3. Sound(t, fil)
    BY <1>1, <2>2, Rename
  <2> HIDE DEF t
  <2> QED
    BY <2>1, <2>3, Returned
<1> QED
  BY <1>2, <1>3

(* and f_getfree keep SoundInv. *)
LEMMA GetFreeStep ==
  ASSUME FileInv, NEW f \in Fault, getfree(f)
  PROVE  SoundInv'
<1> DEFINE v == call(f)
           t == f_getfree(v)
<1>1. FilesInv(v, fil) /\ return(t, fil, <<t.free>>)
  BY Call DEF getfree
<1> HIDE DEF v
<1>2. Sound(t, fil)
  BY <1>1, GetFree DEF Sound
<1> HIDE DEF t
<1> QED
  BY <1>1, <1>2, Returned

(* Every step of the SDK's files keeps SoundInv, *)
LEMMA StdioStep ==
  ASSUME SoundInv, StdioNext
  PROVE  SoundInv'
<1>1. StdioReboot \/ (FileInv /\ StdioCall)
  BY Untorn DEF StdioNext, SoundInv, FileInv, Sound
<1>2. CASE StdioReboot
  BY <1>2, Reboot DEF StdioReboot
<1> SUFFICES ASSUME FileInv, StdioCall
             PROVE  SoundInv'
  BY <1>1, <1>2
<1>3. ASSUME NEW f \in Fault, fs_cmd(f)
      PROVE  SoundInv'
  <2>1. \/ \E n \in Name, m \in Name : unlink(n, f) \/ rename(n, m, f)
        \/ getfree(f)
    BY <1>3 DEF fs_cmd
  <2> QED
    BY <2>1, DirSteps, GetFreeStep
<1>4. ASSUME NEW f \in Fault, NEW n \in Name, NEW m \in OpenMode, Kz_fopen(n, m, f)
      PROVE  SoundInv'
  <2> DEFINE c == conv_mode[m].create
             w == conv_mode[m].flags
  <2>1. \E h \in file_obj : open(h, n, c, w, f)
    BY <1>4, Zenon DEF Kz_fopen
  <2>2. file_obj \subseteq Object
    BY DEF file_obj
  <2>3. c \in {"no", "new", "always"}
    BY StdioAssumption DEF conv_mode
  <2> HIDE DEF c, w
  <2> QED
    BY <2>1, <2>2, <2>3, OpenStep
<1>5. ASSUME NEW f \in Fault, NEW h \in Object, Kz_fopen_append(h, f)
      PROVE  SoundInv'
  <2>1. lseek(h, fil[h].size, f)
    BY <1>5 DEF Kz_fopen_append
  <2>2. fil[h].size \in Nat
    BY DEF FileInv, FilesInv, FileType
  <2> QED
    BY <2>1, <2>2, LseekStep
<1>6. ASSUME NEW f \in Fault, NEW h \in Object, Kz_fclose(h, f)
      PROVE  SoundInv'
  BY <1>6, CloseStep DEF Kz_fclose
<1>7. ASSUME NEW f \in Fault, NEW h \in Object, f_sync_call(h, f)
      PROVE  SoundInv'
  BY <1>7, SyncStep DEF f_sync_call
<1>8. ASSUME NEW f \in Fault, NEW h \in Object, NEW n \in Length, Kz_fread(h, n, f) \/ Kz_fwrite(h, n, f)
      PROVE  SoundInv'
  <2>1. n \in Nat /\ (read(h, n, f) \/ write(h, n, f))
    BY <1>8, FatAssumption DEF Kz_fread, Kz_fwrite
  <2> QED
    BY <2>1, ReadStep, WriteStep
<1>9. ASSUME NEW f \in Fault, NEW h \in Object, NEW ofs \in Offset, Kz_fseek(h, ofs, f)
      PROVE  SoundInv'
  <2>1. ofs \in Nat /\ lseek(h, ofs, f)
    BY <1>9, FatAssumption DEF Kz_fseek
  <2> QED
    BY <2>1, LseekStep
<1> QED
  BY <1>3, <1>4, <1>5, <1>6, <1>7, <1>8, <1>9 DEF StdioCall

(* and so does a step of something else. *)
LEMMA StdioStutter ==
  ASSUME SoundInv, UNCHANGED stdiovars
  PROVE  SoundInv'
<1>1. fs' = fs /\ fil' = fil
  BY DEF stdiovars, fatvars
<1>2. fs'.fail = fs.fail /\ fs'.err = fs.err /\ Sound(fs', fil')
  BY <1>1 DEF SoundInv
<1> QED
  BY <1>2 DEF SoundInv

(* Entries with different heads in an orderly FAT have no cluster in       *)
(* common.                                                                 *)
LEMMA CrossFree ==
  ASSUME NEW fat, NEW R \in SUBSET Cluster, InOrder(fat, R), NEW dir, NEW org,
         \A i \in Entries : org[i] \in Cluster => org[i] \in R,
         \A i, j \in Entries :
           i # j /\ org[i] \in Cluster /\ org[j] = org[i] => {dir[i].name, dir[j].name} \in fs.torn
  PROVE  NoCrossLink(fat, dir, org)
<1> SUFFICES ASSUME NEW i \in Entries, NEW j \in Entries, i # j
             PROVE  \/ clusters(fat, org[i]) \cap clusters(fat, org[j]) = {}
                    \/ org[i] = org[j] /\ {dir[i].name, dir[j].name} \in fs.torn
  BY DEF NoCrossLink, Entries
<1>1. CASE org[i] \notin Cluster \/ org[j] \notin Cluster
  BY <1>1, ChainIn
<1>2. CASE org[i] \in Cluster /\ org[j] \in Cluster /\ org[i] # org[j]
  BY <1>2, ChainsApart
<1>3. CASE org[i] \in Cluster /\ org[i] = org[j]
  BY <1>3
<1> QED
  BY <1>1, <1>2, <1>3

(* SoundInv says all that FatInv does. *)
LEMMA FileInvFat ==
  ASSUME SoundInv
  PROVE  FatInv
<1> DEFINE org == [i \in 1 .. n_rootdir |->
                     IF opener(i) = {} THEN fs.dir[i].org
                     ELSE fil[CHOOSE h \in opener(i) : TRUE].org]
           H == Heads(fs.dir, fil)
           used == UNION {clusters(fs.fat, org[i]) : i \in 1 .. n_rootdir}
           own == [i \in 1 .. n_rootdir |-> fs.disk.dir[i].org]
<1>1. VolType(fs) /\ SoundDisk(fs.disk, fs.torn) /\ InOrder(fs.fat, H) /\ H \subseteq Cluster
  BY SoundFacts DEF SoundInv, Heads
<1>2. \A i \in Entries : org[i] = HeadOf(fs.dir, fil, i)
  BY DEF HeadOf, opener, Opener, Entries
<1> HIDE DEF org
<1>3. \A i \in Entries : org[i] \in Cluster => org[i] \in H
  BY <1>2 DEF Heads
<1>4. NoCrossLink(fs.fat, fs.dir, org)
  <2>1. \A i, j \in Entries :
          i # j /\ org[i] \in Cluster /\ org[j] = org[i] => {fs.dir[i].name, fs.dir[j].name} \in fs.torn
    BY <1>2, SoundFacts DEF SoundInv
  <2> HIDE DEF H
  <2> QED
    BY <1>1, <1>3, <2>1, CrossFree
<1>5. NoCrossLink(fs.disk.fat, fs.disk.dir, own)
  <2>1. PICK R \in SUBSET Cluster : InOrder(fs.disk.fat, R) /\ HeadsShared(fs.disk.dir, R, fs.torn)
    BY <1>1 DEF SoundDisk
  <2>2. \A i \in Entries : own[i] = fs.disk.dir[i].org
    BY DEF Entries
  <2> HIDE DEF own
  <2>3. /\ \A i \in Entries : own[i] \in Cluster => own[i] \in R
        /\ \A i, j \in Entries :
             i # j /\ own[i] \in Cluster /\ own[j] = own[i] =>
               {fs.disk.dir[i].name, fs.disk.dir[j].name} \in fs.torn
    BY <2>1, <2>2 DEF HeadsShared, Entries
  <2> QED
    BY <2>1, <2>3, CrossFree
<1>6. ASSUME fs.faults = 0
      PROVE  /\ fs.torn = {}
             /\ used = {c \in Cluster : fs.fat[c] # 0} /\ fs.free \in {UNKNOWN, n_free(fs)}
  <2>1. fs.torn = {} /\ Covered(fs.fat, H) /\ fs.free \in {UNKNOWN, n_free(fs)}
    BY <1>1, <1>6 DEF VolType, SoundInv, Sound, FilesTorn, FilesInv, Tight
  <2>2. ASSUME NEW c \in Cluster, fs.fat[c] # 0
        PROVE  c \in used
    <3>1. PICK r \in H : c \in clusters(fs.fat, r)
      BY <2>1, <2>2 DEF Covered
    <3>2. PICK i \in Entries : r = org[i]
      BY <1>2, <3>1 DEF Heads
    <3> QED
      BY <3>1, <3>2 DEF Entries
  <2>3. ASSUME NEW c \in used
        PROVE  c \in Cluster /\ fs.fat[c] # 0
    <3>1. PICK i \in Entries : c \in clusters(fs.fat, org[i])
      BY <2>3 DEF Entries
    <3>2. org[i] \in H
      BY <1>3, <3>1, ChainIn
    <3> HIDE DEF H
    <3> QED
      BY <1>1, <3>1, <3>2, ChainIn, ChainInUse
  <2> HIDE DEF used
  <2> QED
    BY <2>1, <2>2, <2>3
<1> QED
  BY <1>4, <1>5, <1>6 DEF FatInv, org

(* SoundInv is an invariant of the files of the SDK: for every size of the *)
(* volume, of its sectors and clusters and of its directory, every volume  *)
(* in order to start with, any number of file objects and calls, and       *)
(* errors and power cuts at any transfer.  That is: the chains of the FAT  *)
(* never meet, and every file has a chain of its own, but for the two      *)
(* names of a renaming that stopped between two sectors of the directory.  *)
THEOREM FilesInOrder == StdioSpec => []SoundInv
<1>1. StdioInit => SoundInv
  BY Initially DEF StdioInit, FileInv, SoundInv, Sound
<1>2. SoundInv /\ [StdioNext]_stdiovars => SoundInv'
  BY StdioStep, StdioStutter
<1> QED
  BY <1>1, <1>2, PTL DEF StdioSpec

(* No two files share a cluster, in the driver or on the medium, unless    *)
(* they are the two names of one file that f_rename has left when it       *)
(* stopped between two sectors of the directory; and while nothing has     *)
(* failed there are no such names, every cluster in use belongs to a file  *)
(* and the count of free clusters is right (FatInv).                       *)
THEOREM FilesNeverCross == StdioSpec => []FatInv
<1>1. SoundInv => FatInv
  BY FileInvFat
<1> QED
  BY <1>1, FilesInOrder, PTL

-----------------------------------------------------------------------------
(* Calls keep apart: what a call leaves alone *)

(* The sectors of data that a volume has *)
Sectors(v) == Cluster \X (0 .. v.csize - 1)

(* From the volume y.vol to v, the clusters y.keep, which are in use, and  *)
(* all entries of the directory but y.slots are as they were: in the FAT,  *)
(* in the data, and on the medium if they were there. No other cluster     *)
(* leads to one of them.                                                   *)
Spares(y, v) ==
  /\ y.keep \subseteq Cluster /\ \A c \in y.keep : y.vol.fat[c] # 0
  /\ \A c \in y.keep : /\ v.fat[c] = y.vol.fat[c]
                       /\ y.vol.disk.fat[c] = y.vol.fat[c] => v.disk.fat[c] = y.vol.fat[c]
  /\ \A c \in Cluster \ y.keep : v.fat[c] \notin y.keep
  /\ v.ss = y.vol.ss /\ v.csize = y.vol.csize /\ v.cuts = y.vol.cuts
  /\ DOMAIN v.data = Sectors(y.vol)
  /\ \A c \in y.keep, j \in 0 .. y.vol.csize - 1 : v.data[<<c, j>>] = y.vol.data[<<c, j>>]
  /\ \A i \in 1 .. n_rootdir : i \notin y.slots =>
       /\ v.dir[i] = y.vol.dir[i]
       /\ y.vol.disk.dir[i] = y.vol.dir[i] => v.disk.dir[i] = y.vol.dir[i]

(* c is a cluster that the call may change, and in use, or none. *)
Ours(y, v, c) == c \in Cluster => c \notin y.keep /\ v.fat[c] # 0

(* No cluster is freed. *)
StillUsed(v, w) == \A c \in Cluster : v.fat[c] # 0 => w.fat[c] # 0

(* Such a step spares what the one before has spared: what the window      *)
(* writes is what the driver has.                                          *)
LEMMA SparesMoves ==
  ASSUME NEW y, NEW v, NEW w, Spares(y, v), Moves(v, w), Same(v, w)
  PROVE  Spares(y, w) /\ StillUsed(v, w)
<1>1. /\ \A c \in y.keep : w.disk.fat[c] = v.disk.fat[c] \/ w.disk.fat[c] = v.fat[c]
      /\ \A i \in 1 .. n_rootdir : w.disk.dir[i] = v.disk.dir[i] \/ w.disk.dir[i] = v.dir[i]
  BY DEF Moves
<1> QED
  BY <1>1 DEF Spares, Moves, StillUsed, Same

(* The assignments to the volume by themselves spare all. *)
LEMMA SparesSame ==
  ASSUME NEW y, NEW v, NEW w, Spares(y, v), Same(v, w), w.fat = v.fat, w.dir = v.dir, w.disk = v.disk
  PROVE  Spares(y, w) /\ StillUsed(v, w)
  BY DEF Spares, StillUsed, Same

(* An entry of ours is written in the directory. *)
LEMMA SparesDir ==
  ASSUME NEW y, NEW v, VolType(v), Spares(y, v), NEW i \in y.slots, NEW e
  PROVE  LET w == set_dir(v, i, e) IN Spares(y, w) /\ StillUsed(v, w)
<1> DEFINE w == set_dir(v, i, e)
<1>1. /\ Same(v, w) /\ w.fat = v.fat /\ w.disk = v.disk /\ w.torn = v.torn
      /\ \A j \in 1 .. n_rootdir : j # i => w.dir[j] = v.dir[j]
  BY DEF set_dir, VolType, VolFields, DIR, Same
<1> HIDE DEF w
<1> QED
  BY <1>1 DEF Spares, StillUsed, Same, w

(* put_fat leaves the data alone *)
LEMMA DataPutFat ==
  ASSUME NEW v, VolType(v), NEW c \in Cluster, NEW x
  PROVE  Same(v, put_fat(v, c, x))
<1> DEFINE w == move_window(v, FatSect(c))
<1>1. VolType(w) /\ Same(v, w)
  BY DataMoveWindow, MoveWindow DEF Moves
<1> HIDE DEF w
<1>2. \A g : Same(w, [w EXCEPT !.fat = g, !.wflag = TRUE])
  BY <1>1 DEF VolType, VolFields, Same
<1>3. \E g : put_fat(v, c, x) = [w EXCEPT !.fat = g, !.wflag = TRUE]
  BY DEF put_fat, w
<1> QED
  BY <1>1, <1>2, <1>3 DEF Same

(* and spares a cluster that it neither writes nor links to. *)
LEMMA SparesPutFat ==
  ASSUME NEW y, NEW v, VolType(v), Spares(y, v), NEW c \in Cluster, c \notin y.keep,
         NEW x \in Cluster \cup {0, EOC}, x \notin y.keep
  PROVE  LET w == put_fat(v, c, x)
         IN Spares(y, w) /\ VolType(w) /\ (x # 0 => StillUsed(v, w)) /\ (x # 0 /\ ~w.err => w.fat[c] # 0)
<1> DEFINE w == put_fat(v, c, x)
<1>1. Same(v, w)
  BY DataPutFat
<1>2. CASE w.err /\ Moves(v, w)
  BY <1>1, <1>2, SparesMoves DEF Moves
<1>3. CASE Put(v, w, [v.fat EXCEPT ![c] = x])
  <2>1. /\ \A a \in y.keep : w.disk.fat[a] = v.disk.fat[a] \/ w.disk.fat[a] = v.fat[a]
        /\ \A i \in 1 .. n_rootdir : w.disk.dir[i] = v.disk.dir[i] \/ w.disk.dir[i] = v.dir[i]
    BY <1>3 DEF Put
  <2>2. \A a \in Cluster : w.fat[a] = IF a = c THEN x ELSE v.fat[a]
    BY <1>3 DEF Put, VolType, FAT
  <2>3. VolType(w) /\ w.dir = v.dir
    BY <1>3 DEF Put
  <2> HIDE DEF w
  <2>4. Spares(y, w)
    BY <1>1, <2>1, <2>2, <2>3 DEF Spares, Same
  <2> QED
    BY <2>2, <2>3, <2>4 DEF StillUsed, w
<1> QED
  BY <1>2, <1>3, PutFat

(* The search for a free cluster leaves the data alone, *)
LEMMA DataFindNext ==
  ASSUME NEW v, NEW p, Searching(v, p), NEW scl
  PROVE  Same(p.v, find_next(p, scl).v)
<1> DEFINE wraps == p.ncl + 1 >= max_clust
           n == IF wraps THEN 2 ELSE p.ncl + 1
           w == read_fat(p.v, n)
           cs == get_fat(w, n)
<1>1. VolType(p.v) /\ VolType(w) /\ Same(p.v, w)
  BY DataReadFat, ReadFat DEF Searching, Moves
<1>2. Same(w, fail(w))
  BY <1>1 DEF fail, VolType, VolFields, Same
<1> HIDE DEF w, n, cs
<1>3. find_next(p, scl) \in {p, [p EXCEPT !.v = p.v, !.result = 0, !.ended = TRUE],
         [p EXCEPT !.v = w, !.result = n, !.ended = TRUE], [p EXCEPT !.v = fail(w), !.result = cs, !.ended = TRUE],
         [p EXCEPT !.v = w, !.result = 0, !.ended = TRUE], [p EXCEPT !.v = w, !.ncl = n]}
  BY DEF find_next, n, w, cs
<1>4. find_next(p, scl).v \in {p.v, w, fail(w)}
  BY <1>3 DEF Searching
<1> QED
  BY <1>1, <1>2, <1>4 DEF Same

(* through all of its turns. *)
LEMMA DataFindFree ==
  ASSUME NEW v, VolType(v), v.faults = 0 => ~v.err, NEW ncl \in Nat \ {0}, NEW scl
  PROVE  Same(v, find_free(v, ncl, scl).v)
<1>1. PICK f : /\ f[max_clust] = find_free(v, ncl, scl)
               /\ f[0] = [v |-> v, ncl |-> ncl, result |-> 0, ended |-> FALSE]
               /\ \A k \in 0 .. max_clust : k # max_clust => f[k + 1] = find_next(f[k], scl)
  BY FindLoop
<1> DEFINE S == {k \in Nat : k <= max_clust => Searching(v, f[k]) /\ Same(v, f[k].v)}
<1>2. 0 \in S
  <2>1. Moves(v, v)
    BY MovesRefl
  <2>2. Searching(v, [v |-> v, ncl |-> ncl, result |-> 0, ended |-> FALSE])
    BY <2>1, Codes DEF Searching
  <2> QED
    BY <1>1, <2>2 DEF Same
<1>3. ASSUME NEW k \in Nat, k \in S
      PROVE  k + 1 \in S
  <2>1. CASE k + 1 <= max_clust
    <3>1. k \in 0 .. max_clust /\ k # max_clust /\ k <= max_clust
      BY <2>1, FatAssumption
    <3>2. Searching(v, f[k]) /\ Same(v, f[k].v)
      BY <1>3, <3>1
    <3>3. Searching(v, find_next(f[k], scl)) /\ Same(v, find_next(f[k], scl).v)
      BY <3>2, FindNext, DataFindNext DEF Same
    <3>4. f[k + 1] = find_next(f[k], scl)
      BY <1>1, <3>1
    <3> QED
      BY <3>3, <3>4
  <2> QED
    BY <2>1
<1>4. Nat \subseteq S
  <2> HIDE DEF S
  <2> QED
    BY <1>2, <1>3, CountUp
<1> QED
  BY <1>1, <1>4, FatAssumption

(* A cluster that is free is not one to keep. *)
LEMMA FreeIsOurs ==
  ASSUME NEW y, NEW v, Spares(y, v), NEW n \in Cluster, v.fat[n] = 0
  PROVE  n \notin y.keep
  BY DEF Spares

(* Linking a free cluster to one of ours *)
LEMMA SparesLink ==
  ASSUME NEW y, NEW v, VolType(v), Spares(y, v), NEW n \in Cluster, v.fat[n] = 0,
         NEW c \in Cluster \cup {0}, c \notin y.keep, NEW w, w = link(v, c, n)
  PROVE  Spares(y, w) /\ VolType(w) /\ StillUsed(v, w) /\ (~w.err => w.fat[n] # 0)
<1> DEFINE x == put_fat(v, n, EOC)
           z == put_fat(x, c, n)
<1>1. n \notin y.keep /\ EOC \notin y.keep /\ EOC # 0 /\ n # 0
  BY FreeIsOurs, Codes DEF Spares
<1>2. Spares(y, x) /\ VolType(x) /\ StillUsed(v, x) /\ (~x.err => x.fat[n] # 0)
  BY <1>1, SparesPutFat
<1>3. w = IF x.err THEN x ELSE IF c = 0 THEN x ELSE z
  BY DEF link, then
<1>4. CASE ~x.err /\ c # 0
  <2>1. Spares(y, z) /\ VolType(z) /\ StillUsed(x, z)
    BY <1>1, <1>2, <1>4, SparesPutFat
  <2> HIDE DEF x, z
  <2> QED
    BY <1>2, <1>3, <1>4, <2>1 DEF StillUsed
<1> QED
  BY <1>2, <1>3, <1>4

(* and the second half of create_chain spare what is to keep. *)
LEMMA SparesLinkFound ==
  ASSUME NEW y, NEW v, VolType(v), Spares(y, v), NEW c \in Cluster \cup {0}, c \notin y.keep,
         NEW p, Searching(v, p), Same(v, p.v), NEW r, r = link_found(c, p)
  PROVE  Spares(y, r[1]) /\ StillUsed(v, r[1]) /\ Ours(y, r[1], r[2])
<1> DEFINE n == p.result
           w == link(p.v, c, n)
           q == count_free([w EXCEPT !.last = n], -1)
<1>1. Moves(v, p.v) /\ VolType(p.v)
  BY DEF Searching, Moves
<1>2. Spares(y, p.v) /\ StillUsed(v, p.v)
  BY <1>1, SparesMoves
<1>3. r = IF n \notin Cluster THEN <<p.v, n>> ELSE IF w.err THEN <<w, DISK_ERR>> ELSE <<q, n>>
  BY DEF link_found
<1>4. CASE n \notin Cluster
  <2>1. r[1] = p.v /\ r[2] = n
    BY <1>3, <1>4
  <2> QED
    BY <2>1, <1>2, <1>4 DEF Ours
<1>5. CASE n \in Cluster
  <2>1. p.v.fat[n] = 0
    BY <1>5 DEF Searching
  <2>2. Spares(y, w) /\ VolType(w) /\ StillUsed(p.v, w) /\ (~w.err => w.fat[n] # 0)
    BY <1>1, <1>2, <1>5, <2>1, SparesLink
  <2>3. n \notin y.keep
    BY <1>2, <1>5, <2>1, FreeIsOurs
  <2>4. StillUsed(v, w)
    BY <1>2, <2>2 DEF StillUsed
  <2> HIDE DEF w
  <2>5. Same(w, q) /\ q.fat = w.fat /\ q.dir = w.dir /\ q.disk = w.disk /\ q.torn = w.torn
    BY <2>2 DEF count_free, VolType, VolFields, Same
  <2>6. Spares(y, q) /\ StillUsed(w, q)
    BY <2>2, <2>5, SparesSame
  <2> HIDE DEF q
  <2>7. StillUsed(v, q)
    BY <2>4, <2>6 DEF StillUsed
  <2>8. CASE w.err
    <3>1. r[1] = w /\ r[2] = DISK_ERR
      BY <1>3, <1>5, <2>8
    <3> QED
      BY <3>1, <2>2, <2>4, Codes DEF Ours
  <2>9. CASE ~w.err
    <3>1. r[1] = q /\ r[2] = n
      BY <1>3, <1>5, <2>9
    <3> QED
      BY <3>1, <2>2, <2>3, <2>5, <2>6, <2>7, <2>9 DEF Ours
  <2> QED
    BY <2>8, <2>9
<1> QED
  BY <1>4, <1>5

(* create_chain takes a cluster that is free, or goes on to one that comes *)
(* after one of ours: the clusters to keep are spared.                     *)
LEMMA SparesCreate ==
  ASSUME NEW y, NEW v, NEW R, Holds(v, R), v.faults = 0 => ~v.err, Spares(y, v), NEW c \in Nat, Ours(y, v, c),
         NEW r, r = create_chain(v, c)
  PROVE  Spares(y, r[1]) /\ StillUsed(v, r[1]) /\ Ours(y, r[1], r[2])
<1> DEFINE hint == IF v.last = 0 \/ v.last >= max_clust THEN 1 ELSE v.last
           p0 == find_free(v, hint, hint)
           w == read_fat(v, c)
           cs == get_fat(w, c)
           w0 == [w EXCEPT !.err = FALSE]
           p == find_free(w0, c, c)
<1>1. VolType(v) /\ Moves(v, w) /\ VolType(w) /\ Same(v, w)
  BY ReadFat, DataReadFat DEF Holds, Moves
<1>2. Spares(y, w) /\ StillUsed(v, w)
  BY <1>1, SparesMoves
<1>3. r = IF c = 0 THEN link_found(0, p0)
          ELSE IF cs < 2 THEN <<fail(w), 1>> ELSE IF cs < max_clust THEN <<w, cs>> ELSE link_found(c, p)
  BY DEF create_chain
<1>4. c = 0 \/ c \in Cluster \/ cs = 1
  BY DEF get_fat
<1>5. c \in Cluster => cs = DISK_ERR \/ cs = w.fat[c]
  BY DEF get_fat
<1>6. CASE c = 0
  <2>1. hint \in Nat \ {0}
    BY <1>1 DEF VolType
  <2>2. Searching(v, p0) /\ Same(v, p0.v)
    BY <1>1, <2>1, FindFree, DataFindFree
  <2>3. r = link_found(0, p0) /\ 0 \notin y.keep
    BY <1>3, <1>6, Codes DEF Spares
  <2> HIDE DEF p0
  <2> QED
    BY <2>2, <2>3, <1>1, SparesLinkFound
<1>7. CASE c # 0 /\ cs < 2
  <2>1. r[1] = fail(w) /\ r[2] = 1
    BY <1>3, <1>7
  <2>2. Same(w, fail(w)) /\ fail(w).fat = w.fat /\ fail(w).dir = w.dir /\ fail(w).disk = w.disk
    BY <1>1 DEF fail, VolType, VolFields, Same
  <2>3. Spares(y, fail(w)) /\ StillUsed(w, fail(w))
    BY <1>2, <2>2, SparesSame
  <2> QED
    BY <2>1, <2>3, <1>2, Codes DEF StillUsed, Ours
<1>8. CASE c # 0 /\ ~(cs < 2) /\ cs < max_clust
  <2>1. r[1] = w /\ r[2] = cs
    BY <1>3, <1>8
  <2> HIDE DEF cs, w
  <2>2. c \in Cluster /\ cs = w.fat[c]
    <3>1. DISK_ERR >= max_clust /\ DISK_ERR \in Nat /\ max_clust \in Nat
      BY Codes, FatAssumption
    <3> QED
      BY <1>4, <1>5, <1>8, <3>1
  <2>3. c \notin y.keep /\ w.fat = v.fat
    BY <2>2, <1>1 DEF Ours, Moves
  <2>4. cs \in Cluster => cs \notin y.keep /\ w.fat[cs] # 0
    BY <1>2, <2>2, <2>3 DEF Spares, Holds, InOrder
  <2> QED
    BY <2>1, <2>4, <1>2 DEF Ours
<1>9. CASE c # 0 /\ ~(cs < 2) /\ ~(cs < max_clust)
  <2>1. r = link_found(c, p) /\ c \in Cluster
    BY <1>3, <1>4, <1>9
  <2>2. VolType(w0) /\ ~w0.err /\ w0.fat = w.fat /\ w0.dir = w.dir /\ w0.disk = w.disk /\ w0.torn = w.torn /\ Same(w, w0)
    BY <1>1 DEF VolType, VolFields, Same
  <2>3. Spares(y, w0) /\ StillUsed(w, w0)
    BY <1>2, <2>2, SparesSame
  <2>4. Searching(w0, p) /\ Same(w0, p.v)
    <3>1. c \in Nat \ {0}
      BY <1>9
    <3> HIDE DEF w0
    <3> QED
      BY <2>2, <3>1, FindFree, DataFindFree
  <2>5. c \notin y.keep
    BY <2>1 DEF Ours
  <2> HIDE DEF p, w0, w
  <2>6. Spares(y, r[1]) /\ StillUsed(w0, r[1]) /\ Ours(y, r[1], r[2])
    BY <2>1, <2>2, <2>3, <2>4, <2>5, SparesLinkFound
  <2> QED
    BY <2>3, <2>6, <1>2 DEF StillUsed
<1>10. cs \in Int
  <2>1. c \in Cluster => w.fat[c] \in Cluster \cup {0, EOC}
    BY <1>1 DEF VolType, FAT
  <2>2. cs \in {1, DISK_ERR} \/ (c \in Cluster /\ cs = w.fat[c])
    BY DEF get_fat
  <2>3. DISK_ERR \in Nat /\ EOC \in Nat /\ \A x \in Cluster : x \in Nat
    BY Codes
  <2> HIDE DEF w, cs
  <2> QED
    BY <2>1, <2>2, <2>3
<1> QED
  BY <1>6, <1>7, <1>8, <1>9, <1>10

(* A turn of remove_chain frees one of ours and goes on to the next. *)
LEMMA SparesRemoveNext ==
  ASSUME NEW y, NEW p, DOMAIN p = {"v", "c"}, VolType(p.v), Spares(y, p.v), p.c \notin y.keep
  PROVE  LET q == remove_next(p)
         IN DOMAIN q = {"v", "c"} /\ VolType(q.v) /\ Spares(y, q.v) /\ q.c \notin y.keep
<1> DEFINE w == read_fat(p.v, p.c)
           nxt == get_fat(w, p.c)
           x == put_fat(w, p.c, 0)
           z == count_free(x, 1)
           q == remove_next(p)
           Good(a) == DOMAIN a = {"v", "c"} /\ VolType(a.v) /\ Spares(y, a.v) /\ a.c \notin y.keep
<1>1. VolType(w) /\ Spares(y, w)
  <2>1. Moves(p.v, w) /\ Same(p.v, w)
    BY ReadFat, DataReadFat
  <2> HIDE DEF w
  <2> QED
    BY <2>1, SparesMoves DEF Moves
<1>2. VolType(fail(w)) /\ Spares(y, fail(w))
  <2>1. /\ VolType(fail(w)) /\ Same(w, fail(w)) /\ fail(w).fat = w.fat
        /\ fail(w).dir = w.dir /\ fail(w).disk = w.disk
    BY <1>1, Failed DEF fail, VolType, VolFields, Same
  <2> QED
    BY <2>1, <1>1, SparesSame
<1>3. EOC \notin y.keep /\ 0 \notin y.keep
  BY Codes DEF Spares
<1>4. CASE p.c \notin Cluster
  <2>1. nxt = 1
    BY <1>4 DEF get_fat
  <2>2. q \in {p, [p EXCEPT !.v = w], [p EXCEPT !.v = fail(w)]}
    BY <2>1 DEF remove_next
  <2> HIDE DEF q, w
  <2> QED
    BY <2>2, <1>1, <1>2 DEF q
<1>5. CASE p.c \in Cluster
  <2>1. VolType(x) /\ Spares(y, x)
    BY <1>1, <1>3, <1>5, SparesPutFat
  <2>2. nxt \notin y.keep
    BY <1>1, <1>5, Codes DEF get_fat, Spares
  <2> HIDE DEF x
  <2>3. VolType(z) /\ Same(x, z) /\ z.fat = x.fat /\ z.dir = x.dir /\ z.disk = x.disk /\ z.torn = x.torn
    <3>1. x.free \in Int
      BY <2>1 DEF VolType
    <3>2. ASSUME NEW a \in Int
          PROVE  LET r == [x EXCEPT !.free = a]
                 IN VolType(r) /\ Same(x, r) /\ r.fat = x.fat /\ r.dir = x.dir /\ r.disk = x.disk /\ r.torn = x.torn
      BY <2>1 DEF VolType, VolFields, Same
    <3>3. z = [x EXCEPT !.free = IF x.free = UNKNOWN THEN x.free ELSE x.free + 1]
      BY DEF count_free
    <3> HIDE DEF z
    <3> QED
      BY <3>1, <3>2, <3>3
  <2>4. Spares(y, z)
    BY <2>1, <2>3, SparesSame
  <2>5. q \in {p, [p EXCEPT !.v = w], [v |-> w, c |-> EOC], [p EXCEPT !.v = fail(w)], [p EXCEPT !.v = x],
               [v |-> z, c |-> nxt]}
    BY DEF remove_next, x
  <2> HIDE DEF q, w, z, nxt
  <2> QED
    BY <2>1, <2>2, <2>3, <2>4, <2>5, <1>1, <1>2, <1>3 DEF q
<1> QED
  BY <1>4, <1>5

(* Releasing a chain that is ours *)
LEMMA SparesRelease ==
  ASSUME NEW y, NEW v, VolType(v), Spares(y, v), NEW c \in Cluster, c \notin y.keep
  PROVE  Spares(y, release_chain(v, c))
<1> DEFINE Good(a) == DOMAIN a = {"v", "c"} /\ VolType(a.v) /\ Spares(y, a.v) /\ a.c \notin y.keep
<1>1. PICK f : /\ remove_chain(v, c) = f[max_clust].v /\ f[0] = [v |-> v, c |-> c]
               /\ \A k \in 0 .. max_clust : k # max_clust => f[k + 1] = remove_next(f[k])
  BY RemoveLoop
<1> DEFINE S == {k \in Nat : k <= max_clust => Good(f[k])}
<1>2. 0 \in S
  BY <1>1
<1>3. ASSUME NEW k \in Nat, k \in S
      PROVE  k + 1 \in S
  <2>1. CASE k + 1 <= max_clust
    <3>1. k \in 0 .. max_clust /\ k # max_clust /\ k <= max_clust
      BY <2>1, FatAssumption
    <3>2. Good(f[k])
      BY <1>3, <3>1
    <3>3. Good(remove_next(f[k]))
      BY <3>2, SparesRemoveNext
    <3>4. f[k + 1] = remove_next(f[k])
      BY <1>1, <3>1
    <3> QED
      BY <3>3, <3>4
  <2> QED
    BY <2>1
<1>4. Nat \subseteq S
  <2> HIDE DEF S
  <2> QED
    BY <1>2, <1>3, CountUp
<1>5. Good(f[max_clust])
  BY <1>4, FatAssumption
<1> QED
  BY <1>1, <1>5 DEF release_chain

-----------------------------------------------------------------------------
(* Calls on an open file keep off the clusters of others *)

(* Sector d is not one of a cluster to keep, nor of a free one. *)
SectOurs(y, v, d) == \A c \in Cluster, j \in Nat : d = <<c, j>> => Ours(y, v, c)

(* The call keeps off these clusters wherever it may go on from. *)
Away(y, s) ==
  /\ Spares(y, s.v)
  /\ Ours(y, s.v, s.fp.org) /\ Ours(y, s.v, s.fp.curr) /\ Ours(y, s.v, s.c)
  /\ SectOurs(y, s.v, s.fp.dsect) /\ SectOurs(y, s.v, s.nsect)

(* These places are the same. *)
Stays(s, t) ==
  /\ t.fp.org = s.fp.org /\ t.fp.curr = s.fp.curr /\ t.c = s.c
  /\ t.fp.dsect = s.fp.dsect /\ t.nsect = s.nsect

(* A step that frees no cluster and goes to places that are ours *)
LEMMA AwayStep ==
  ASSUME NEW y, NEW s, NEW t, Away(y, s), Spares(y, t.v), StillUsed(s.v, t.v),
         t.fp.org = s.fp.org \/ Ours(y, t.v, t.fp.org), t.fp.curr = s.fp.curr \/ Ours(y, t.v, t.fp.curr),
         t.c = s.c \/ Ours(y, t.v, t.c), t.fp.dsect = s.fp.dsect \/ SectOurs(y, t.v, t.fp.dsect),
         t.nsect = s.nsect \/ SectOurs(y, t.v, t.nsect)
  PROVE  Away(y, t)
  BY DEF Away, Ours, SectOurs, StillUsed

(* Such a step of the volume alone *)
LEMMA AwayVol ==
  ASSUME NEW y, NEW s, NEW t, Away(y, s), Stays(s, t), Spares(y, t.v), StillUsed(s.v, t.v)
  PROVE  Away(y, t)
  BY AwayStep DEF Stays

(* A step that leaves the volume alone *)
LEMMA AwaySame ==
  ASSUME NEW y, NEW s, NEW t, Away(y, s), Stays(s, t), t.v = s.v
  PROVE  Away(y, t)
  BY AwayVol DEF Away, StillUsed

(* What else a call assigns to moves none of these places. *)
LEMMA CallStays ==
  ASSUME NEW s, CallType(s), NEW x
  PROVE  /\ Stays(s, [s EXCEPT !.v = x]) /\ [s EXCEPT !.v = x].v = x
         /\ LET t == [s EXCEPT !.left = x] IN Stays(s, t) /\ t.v = s.v
         /\ LET t == [s EXCEPT !.got = x] IN Stays(s, t) /\ t.v = s.v
         /\ LET t == [s EXCEPT !.fp.buf = x] IN Stays(s, t) /\ t.v = s.v
         /\ LET t == [s EXCEPT !.fp.csect = x] IN Stays(s, t) /\ t.v = s.v
         /\ LET t == [s EXCEPT !.fp.ptr = x] IN Stays(s, t) /\ t.v = s.v
         /\ LET t == [s EXCEPT !.fp.size = x] IN Stays(s, t) /\ t.v = s.v
         /\ LET t == [s EXCEPT !.fp.flags = x] IN Stays(s, t) /\ t.v = s.v
  BY DEF Stays, CallType, FileType, CallFields, FileFields

(* Going to a sector, or a cluster, that is ours *)
LEMMA CallGoes ==
  ASSUME NEW s, CallType(s), NEW y, Away(y, s), NEW x
  PROVE  /\ SectOurs(y, s.v, x) => Away(y, [s EXCEPT !.fp.dsect = x]) /\ Away(y, [s EXCEPT !.nsect = x])
         /\ Ours(y, s.v, x) => Away(y, [s EXCEPT !.fp.curr = x]) /\ Away(y, [s EXCEPT !.fp.org = x])
                                /\ Away(y, [s EXCEPT !.c = x])
<1>1. LET t == [s EXCEPT !.fp.dsect = x]
      IN /\ t.v = s.v /\ t.fp.org = s.fp.org /\ t.fp.curr = s.fp.curr /\ t.c = s.c /\ t.nsect = s.nsect
         /\ t.fp.dsect = x
  BY DEF CallType, FileType, CallFields, FileFields
<1>2. LET t == [s EXCEPT !.nsect = x]
      IN t.v = s.v /\ t.fp = s.fp /\ t.c = s.c /\ t.nsect = x
  BY DEF CallType, FileType, CallFields, FileFields
<1>3. LET t == [s EXCEPT !.fp.curr = x]
      IN /\ t.v = s.v /\ t.fp.org = s.fp.org /\ t.fp.curr = x /\ t.c = s.c /\ t.nsect = s.nsect
         /\ t.fp.dsect = s.fp.dsect
  BY DEF CallType, FileType, CallFields, FileFields
<1>4. LET t == [s EXCEPT !.fp.org = x]
      IN /\ t.v = s.v /\ t.fp.org = x /\ t.fp.curr = s.fp.curr /\ t.c = s.c /\ t.nsect = s.nsect
         /\ t.fp.dsect = s.fp.dsect
  BY DEF CallType, FileType, CallFields, FileFields
<1>5. LET t == [s EXCEPT !.c = x]
      IN t.v = s.v /\ t.fp = s.fp /\ t.c = x /\ t.nsect = s.nsect
  BY DEF CallType, FileType, CallFields, FileFields
<1> QED
  BY <1>1, <1>2, <1>3, <1>4, <1>5 DEF Away

(* Transfers of the volume in a call *)
LEMMA AwayMoves ==
  ASSUME NEW y, NEW s, CallType(s), Away(y, s), NEW w, Moves(s.v, w), Same(s.v, w)
  PROVE  Away(y, [s EXCEPT !.v = w])
<1>1. Spares(y, w) /\ StillUsed(s.v, w)
  BY SparesMoves DEF Away
<1>2. Stays(s, [s EXCEPT !.v = w]) /\ [s EXCEPT !.v = w].v = w
  BY CallStays
<1> QED
  BY <1>1, <1>2, AwayVol

(* ABORT *)
LEMMA AwayAbort ==
  ASSUME NEW y, NEW s, CallType(s), Away(y, s)
  PROVE  Away(y, abort(s))
<1>1. Stays(s, abort(s))
  BY DEF abort, Stays, CallType, FileType, CallFields, FileFields
<1>2. LET w == abort(s).v IN Same(s.v, w) /\ w.fat = s.v.fat /\ w.dir = s.v.dir /\ w.disk = s.v.disk /\ w.torn = s.v.torn
  BY DEF abort, CallType, VolType, VolFields, CallFields, Same
<1>3. Spares(y, abort(s).v) /\ StillUsed(s.v, abort(s).v)
  BY <1>2, SparesSame DEF Away
<1> QED
  BY <1>1, <1>3, AwayVol

(* Reading a sector to the buffer *)
LEMMA AwayReadSector ==
  ASSUME NEW y, NEW s, CallType(s), Away(y, s), NEW sect
  PROVE  Away(y, read_sector(s, sect))
<1> DEFINE v1 == disk_op(s.v)
           t == [s EXCEPT !.v = v1]
           x == s.v.data[sect]
<1>1. Moves(s.v, v1) /\ Same(s.v, v1)
  BY DiskOp, DataDiskOp DEF CallType
<1>2. CallType(t) /\ Away(y, t)
  BY <1>1, SetVolume, AwayMoves
<1>3. read_sector(s, sect) = t \/ read_sector(s, sect) = [t EXCEPT !.fp.buf = x]
  BY DEF read_sector, CallType, CallFields
<1> HIDE DEF t, x
<1>4. Stays(t, [t EXCEPT !.fp.buf = x]) /\ [t EXCEPT !.fp.buf = x].v = t.v
  BY <1>2, CallStays
<1>5. Away(y, [t EXCEPT !.fp.buf = x])
  BY <1>2, <1>4, AwaySame
<1> QED
  BY <1>2, <1>3, <1>5

(* Writing data to a sector that is ours spares the others. *)
LEMMA SparesData ==
  ASSUME NEW y, NEW v, VolType(v), Spares(y, v), NEW sect, SectOurs(y, v, sect), NEW units
  PROVE  LET w == [v EXCEPT !.data[sect] = units] IN Spares(y, w) /\ StillUsed(v, w)
<1> DEFINE w == [v EXCEPT !.data[sect] = units]
<1>1. /\ w.data = [v.data EXCEPT ![sect] = units] /\ w.ss = v.ss /\ w.csize = v.csize /\ w.cuts = v.cuts
      /\ w.fat = v.fat /\ w.dir = v.dir /\ w.disk = v.disk /\ w.torn = v.torn
  BY DEF VolType, VolFields
<1> HIDE DEF w
<1>2. DOMAIN w.data = DOMAIN v.data
  BY <1>1
<1>3. ASSUME NEW c \in y.keep, NEW j \in 0 .. y.vol.csize - 1
      PROVE  w.data[<<c, j>>] = v.data[<<c, j>>]
  <2>1. c \in Cluster /\ <<c, j>> # sect
    BY DEF Spares, SectOurs, Ours
  <2>2. <<c, j>> \in DOMAIN v.data
    BY <2>1 DEF Spares, Sectors
  <2> QED
    BY <2>1, <2>2, <1>1
<1>4. /\ \A c \in y.keep : y.vol.fat[c] # 0 /\ v.fat[c] = y.vol.fat[c]
      /\ y.keep \subseteq Cluster
  BY DEF Spares
<1>5. Spares(y, w)
  BY <1>1, <1>2, <1>3 DEF Spares
<1> QED
  BY <1>1, <1>5 DEF StillUsed, w

(* Writing it in a call *)
LEMMA AwayWriteSector ==
  ASSUME NEW y, NEW s, CallType(s), Away(y, s), NEW sect, SectOurs(y, s.v, sect), NEW units
  PROVE  Away(y, write_sector(s, sect, units))
<1> DEFINE v1 == disk_op(s.v)
           w == [v1 EXCEPT !.data[sect] = units]
<1>1. Moves(s.v, v1) /\ Same(s.v, v1) /\ VolType(v1)
  BY DiskOp, DataDiskOp DEF CallType, Moves
<1>2. Spares(y, v1) /\ StillUsed(s.v, v1)
  BY <1>1, SparesMoves DEF Away
<1>3. SectOurs(y, v1, sect)
  BY <1>1 DEF SectOurs, Ours, Moves
<1> HIDE DEF v1
<1>4. Spares(y, w) /\ StillUsed(v1, w)
  BY <1>1, <1>2, <1>3, SparesData
<1>5. write_sector(s, sect, units) = [s EXCEPT !.v = v1] \/ write_sector(s, sect, units) = [s EXCEPT !.v = w]
  BY DEF write_sector, v1
<1> HIDE DEF w
<1>6. StillUsed(s.v, w)
  BY <1>2, <1>4 DEF StillUsed
<1>7. ASSUME NEW z, Spares(y, z), StillUsed(s.v, z)
      PROVE  Away(y, [s EXCEPT !.v = z])
  <2>1. Stays(s, [s EXCEPT !.v = z]) /\ [s EXCEPT !.v = z].v = z
    BY CallStays
  <2> QED
    BY <1>7, <2>1, AwayVol
<1> QED
  BY <1>2, <1>4, <1>5, <1>6, <1>7

(* Writing the buffer back *)
LEMMA AwayFlush ==
  ASSUME NEW y, NEW s, CallType(s), Away(y, s)
  PROVE  Away(y, flush(s))
<1> DEFINE t == write_sector(s, s.fp.dsect, s.fp.buf)
           x == t.fp.flags \ {"dirty"}
<1>1. CallType(t) /\ Away(y, t)
  BY WriteSector, TransfersType, AwayWriteSector DEF Away
<1> HIDE DEF t, x
<1>2. Away(y, [t EXCEPT !.fp.flags = x])
  BY <1>1, CallStays, AwaySame
<1>3. flush(s) \in {s, t, [t EXCEPT !.fp.flags = x]}
  BY DEF flush, and_then, t, x
<1> QED
  BY <1>1, <1>2, <1>3

(* Taking it for a sector that is ours *)
LEMMA AwayAtSector ==
  ASSUME NEW y, NEW s, CallType(s), Away(y, s), NEW sect, SectOurs(y, s.v, sect)
  PROVE  Away(y, at_sector(s, sect))
<1> DEFINE t == [s EXCEPT !.fp.dsect = sect]
           x == t.fp.csect + 1
<1>1. CallType(t) /\ Away(y, t)
  BY CallUpdates, TransfersType, CallGoes
<1>2. at_sector(s, sect) = [t EXCEPT !.fp.csect = x]
  BY DEF at_sector, CallType, CallFields, FileType, FileFields
<1> HIDE DEF t, x
<1>3. Away(y, [t EXCEPT !.fp.csect = x])
  BY <1>1, CallStays, AwaySame
<1> QED
  BY <1>2, <1>3

(* The sectors of a cluster that is ours are ours. *)
LEMMA ClustSect ==
  ASSUME NEW y, NEW v, NEW c, Ours(y, v, c), NEW k
  PROVE  SectOurs(y, v, clust2sect(c, k))
  BY DEF SectOurs, clust2sect

(* Moving the file pointer in a sector *)
LEMMA AwayAdvance ==
  ASSUME NEW y, NEW s, CallType(s), Away(y, s), NEW k
  PROVE  Away(y, advance(s, k))
<1>1. Stays(s, advance(s, k)) /\ advance(s, k).v = s.v
  BY DEF advance, Stays, CallType, CallFields, FileType, FileFields
<1> QED
  BY <1>1, AwaySame

(* Copying from the buffer *)
LEMMA AwayCopyOut ==
  ASSUME NEW y, NEW s, CallType(s), Away(y, s)
  PROVE  Away(y, copy_out(s))
<1> DEFINE x == s.got \o SubSeq(s.fp.buf, (s.fp.ptr % s.v.ss) + 1, (s.fp.ptr % s.v.ss) + chunk(s))
           t == [s EXCEPT !.got = x]
<1>1. copy_out(s) = advance(t, chunk(s))
  BY DEF copy_out
<1> HIDE DEF x
<1>2. CallType(t) /\ Away(y, t)
  BY CallUpdates, TransfersType, CallStays, AwaySame
<1> QED
  BY <1>1, <1>2, AwayAdvance

(* Reading whole sectors past it *)
LEMMA AwayReadDirect ==
  ASSUME NEW y, NEW s, CallType(s), Away(y, s), NEW sect
  PROVE  Away(y, read_direct(s, sect))
<1> DEFINE v1 == disk_op(s.v)
           t1 == [s EXCEPT !.v = v1]
           x == s.got \o (IF "dirty" \in s.fp.flags /\ s.fp.dsect = sect THEN s.fp.buf ELSE s.v.data[sect])
           t2 == [t1 EXCEPT !.got = x]
           z == t2.fp.csect + 1
           t3 == [t2 EXCEPT !.fp.csect = z]
<1>1. Moves(s.v, v1) /\ Same(s.v, v1)
  BY DiskOp, DataDiskOp DEF CallType
<1>2. CallType(t1) /\ Away(y, t1)
  BY <1>1, SetVolume, AwayMoves
<1>3. t3 = [s EXCEPT !.v = v1, !.got = x, !.fp.csect = @ + 1]
  BY DEF CallType, CallFields, FileType, FileFields
<1>4. read_direct(s, sect) = IF v1.err THEN abort(t1) ELSE advance(t3, s.v.ss)
  BY <1>3 DEF read_direct
<1> HIDE DEF t1, x
<1>5. CallType(t2) /\ Away(y, t2)
  BY <1>2, CallUpdates, TransfersType, CallStays, AwaySame
<1> HIDE DEF t2
<1>6. CallType(t3) /\ Away(y, t3)
  <2>1. z \in Int
    BY <1>5 DEF CallType, FileType
  <2> QED
    BY <1>5, <2>1, CallUpdates, TransfersType, CallStays, AwaySame
<1> QED
  BY <1>2, <1>4, <1>6, AwayAbort, AwayAdvance

(* The buffer, or its error, and then the sector *)
LEMMA AwayThenSector ==
  ASSUME NEW y, NEW s, CallType(s), Away(y, s), NEW sect, SectOurs(y, s.v, sect)
  PROVE  Away(y, IF s.v.err THEN abort(s) ELSE at_sector(s, sect))
  BY AwayAbort, AwayAtSector

(* A sector that is ours stays so. *)
LEMMA SectStays ==
  ASSUME NEW y, NEW v, NEW w, StillUsed(v, w), NEW d, SectOurs(y, v, d)
  PROVE  SectOurs(y, w, d)
  BY DEF SectOurs, Ours, StillUsed

(* Transfers free no cluster. *)
LEMMA TransfersUsed ==
  ASSUME NEW s, NEW t, Transfers(s, t)
  PROVE  StillUsed(s.v, t.v)
  BY DEF Transfers, Moves, StillUsed

(* Reading a sector through the buffer *)
LEMMA AwayReadBuffered ==
  ASSUME NEW y, NEW s, CallType(s), Away(y, s), NEW sect, SectOurs(y, s.v, sect)
  PROVE  Away(y, read_buffered(s, sect))
<1> DEFINE t == flush(s)
           u == IF t.v.err \/ t.fp.dsect = sect THEN t ELSE read_sector(t, sect)
<1>1. Transfers(s, t) /\ CallType(t) /\ Away(y, t)
  BY Flush, TransfersType, AwayFlush
<1> HIDE DEF t
<1>2. Transfers(s, u) /\ CallType(u) /\ Away(y, u)
  BY <1>1, ReadSector, TransfersTrans, TransfersType, AwayReadSector
<1>3. read_buffered(s, sect) = IF u.v.err THEN abort(u) ELSE at_sector(u, sect)
  BY DEF read_buffered, and_then, or_abort, t
<1> HIDE DEF u
<1>4. SectOurs(y, u.v, sect)
  BY <1>2, TransfersUsed, SectStays
<1> QED
  BY <1>2, <1>3, <1>4, AwayThenSector

(* Copying to the buffer *)
LEMMA AwayCopyIn ==
  ASSUME NEW y, NEW s, CallType(s), Away(y, s), NEW u
  PROVE  Away(y, copy_in(s, u))
<1> DEFINE o == s.fp.ptr % s.v.ss
           x == [i \in 1 .. s.v.ss |-> IF i \in o + 1 .. o + chunk(s) THEN unit_left(s, u, i - o) ELSE s.fp.buf[i]]
           t1 == [s EXCEPT !.fp.buf = x]
           z == t1.fp.flags \cup {"dirty"}
           t2 == [t1 EXCEPT !.fp.flags = z]
<1> HIDE DEF x
<1>1. CallType(t1) /\ Away(y, t1)
  BY CallUpdates, TransfersType, CallStays, AwaySame
<1>2. t2 = [s EXCEPT !.fp.buf = x, !.fp.flags = @ \cup {"dirty"}]
  BY DEF CallType, CallFields, FileType, FileFields
<1>3. copy_in(s, u) = advance(t2, chunk(s))
  BY <1>2 DEF copy_in, x
<1> HIDE DEF t1
<1>4. Transfers(t1, t2)
  BY <1>1, CallUpdates
<1>5. CallType(t2) /\ Away(y, t2)
  BY <1>1, <1>4, TransfersType, CallStays, AwaySame
<1> QED
  BY <1>3, <1>5, AwayAdvance

(* Writing whole sectors past it *)
LEMMA AwayWriteDirect ==
  ASSUME NEW y, NEW s, CallType(s), Away(y, s), NEW sect, SectOurs(y, s.v, sect), NEW u
  PROVE  Away(y, write_direct(s, sect, u))
<1> DEFINE units == [i \in 1 .. s.v.ss |-> unit_left(s, u, i)]
           t == write_sector(s, sect, units)
           r == IF t.fp.dsect # sect THEN t ELSE [t EXCEPT !.fp.buf = units, !.fp.flags = @ \ {"dirty"}]
           q == [r EXCEPT !.fp.csect = @ + 1]
<1>1. CallType(t) /\ Away(y, t)
  BY WriteSector, TransfersType, AwayWriteSector
<1>2. write_direct(s, sect, u) = IF t.v.err THEN abort(t) ELSE advance(q, s.v.ss)
  BY DEF write_direct, or_abort
<1> HIDE DEF t, units
<1>3. CallType(r) /\ Stays(t, r) /\ r.v = t.v
  BY <1>1 DEF Stays, CallType, CallFields, FileType, FileFields
<1> HIDE DEF r
<1>4. CallType(q) /\ Stays(r, q) /\ q.v = r.v
  BY <1>3 DEF Stays, CallType, CallFields, FileType, FileFields
<1> HIDE DEF q
<1>5. Away(y, r)
  BY <1>1, <1>3, AwaySame
<1>6. Away(y, q)
  BY <1>4, <1>5, AwaySame
<1> QED
  BY <1>1, <1>2, <1>4, <1>6, AwayAbort, AwayAdvance

(* Writing a sector through it *)
LEMMA AwayWriteBuffered ==
  ASSUME NEW y, NEW s, CallType(s), Away(y, s), NEW sect, SectOurs(y, s.v, sect)
  PROVE  Away(y, write_buffered(s, sect))
<1> DEFINE u == IF s.fp.dsect # sect /\ s.fp.ptr < s.fp.size THEN read_sector(s, sect) ELSE s
<1>1. Transfers(s, u) /\ CallType(u) /\ Away(y, u)
  BY ReadSector, TransfersRefl, TransfersType, AwayReadSector
<1>2. write_buffered(s, sect) = IF u.v.err THEN abort(u) ELSE at_sector(u, sect)
  BY DEF write_buffered, or_abort
<1> HIDE DEF u
<1>3. SectOurs(y, u.v, sect)
  BY <1>1, TransfersUsed, SectStays
<1> QED
  BY <1>1, <1>2, <1>3, AwayThenSector

(* Going on to a cluster that is ours *)
LEMMA AwayAtCluster ==
  ASSUME NEW y, NEW s, CallType(s), Away(y, s), NEW c, Ours(y, s.v, c)
  PROVE  Away(y, at_cluster(s, c))
<1> DEFINE t == [s EXCEPT !.fp.curr = c, !.fp.csect = 0]
<1>1. /\ t.v = s.v /\ t.fp.org = s.fp.org /\ t.fp.curr = c /\ t.c = s.c /\ t.nsect = s.nsect
      /\ t.fp.dsect = s.fp.dsect
  BY DEF CallType, FileType, CallFields, FileFields
<1>2. at_cluster(s, c) = t \/ at_cluster(s, c) = abort(s)
  BY DEF at_cluster
<1> HIDE DEF t
<1>3. Away(y, t)
  BY <1>1 DEF Away
<1> QED
  BY <1>2, <1>3, AwayAbort

(* The cluster after one of ours is ours. *)
LEMMA NextOurs ==
  ASSUME NEW y, NEW v, NEW R, Holds(v, R), Spares(y, v), NEW c, Ours(y, v, c)
  PROVE  LET w == read_fat(v, c) IN Ours(y, w, get_fat(w, c))
<1> DEFINE w == read_fat(v, c)
           n == get_fat(w, c)
<1>1. w.fat = v.fat /\ InOrder(v.fat, R)
  BY ReadFat DEF Holds, Moves
<1>2. n \in {1, DISK_ERR} \/ (c \in Cluster /\ n = v.fat[c])
  BY <1>1 DEF get_fat
<1> HIDE DEF w, n
<1>3. ASSUME n \in Cluster
      PROVE  n \notin y.keep /\ w.fat[n] # 0
  <2>1. c \in Cluster /\ n = v.fat[c] /\ c \notin y.keep
    BY <1>2, <1>3, Codes DEF Ours
  <2> QED
    BY <1>1, <1>3, <2>1 DEF Spares, InOrder
<1> QED
  BY <1>3 DEF Ours, w, n

(* f_read goes on to the next cluster of its own. *)
LEMMA AwayReadCluster ==
  ASSUME NEW y, NEW x, NEW s, CallInv(x, s), Away(y, s)
  PROVE  Away(y, read_cluster(s))
<1> DEFINE w == read_fat(s.v, s.fp.curr)
           t == [s EXCEPT !.v = w]
           c == get_fat(w, s.fp.curr)
<1>1. CallType(s) /\ Holds(s.v, x.heads \cup Own(s.fp))
  BY DEF CallInv
<1>2. Moves(s.v, w) /\ Same(s.v, w)
  BY <1>1, ReadFat, DataReadFat DEF CallType
<1>3. CallType(t) /\ Away(y, t) /\ t.v = w /\ t.fp = s.fp
  <2>1. t.fp = s.fp
    BY <1>1 DEF CallType, CallFields
  <2> QED
    BY <1>1, <1>2, <2>1, SetVolume, AwayMoves
<1>4. Ours(y, w, c)
  BY <1>1, NextOurs DEF Away
<1>5. read_cluster(s) = IF s.fp.csect < s.v.csize THEN s
                        ELSE IF s.fp.ptr = 0 THEN at_cluster(s, s.fp.org) ELSE at_cluster(t, c)
  BY <1>3 DEF read_cluster
<1> HIDE DEF t, w, c
<1>6. Away(y, at_cluster(t, c))
  BY <1>3, <1>4, AwayAtCluster
<1>7. Away(y, at_cluster(s, s.fp.org))
  BY <1>1, AwayAtCluster DEF Away
<1> QED
  BY <1>5, <1>6, <1>7

(* A turn of the loop of f_read *)
LEMMA AwayReadNext ==
  ASSUME NEW y, NEW x, NEW s, CallInv(x, s), Away(y, s)
  PROVE  Away(y, read_next(s))
<1> DEFINE r == read_cluster(s)
           sect == clust2sect(r.fp.curr, r.fp.csect)
           q == read_buffered(r, sect)
<1>1. CallType(s) /\ CallType(r) /\ Away(y, r)
  BY ReadCluster, AwayReadCluster DEF CallInv
<1>2. read_next(s) \in {s, copy_out(s), r, read_direct(r, sect), q, copy_out(q)}
  BY DEF read_next, and_then
<1> HIDE DEF r
<1>3. SectOurs(y, r.v, sect)
  BY <1>1, ClustSect DEF Away
<1> HIDE DEF sect
<1>4. CallType(q) /\ Away(y, q)
  BY <1>1, <1>3, ReadBuffered, TransfersType, AwayReadBuffered
<1> HIDE DEF q
<1> QED
  BY <1>1, <1>2, <1>4, AwayCopyOut, AwayReadDirect

(* A call that is refused *)
LEMMA AwayFail ==
  ASSUME NEW y, NEW s, CallType(s), Away(y, s)
  PROVE  Away(y, [s EXCEPT !.v = [s.v EXCEPT !.err = TRUE]])
<1> DEFINE w == [s.v EXCEPT !.err = TRUE]
<1>1. VolType(s.v)
  BY DEF CallType
<1>2. Same(s.v, w) /\ w.fat = s.v.fat /\ w.dir = s.v.dir /\ w.disk = s.v.disk /\ w.torn = s.v.torn
  BY <1>1 DEF VolType, VolFields, Same
<1> HIDE DEF w
<1>3. Spares(y, w) /\ StillUsed(s.v, w)
  BY <1>2, SparesSame DEF Away
<1>4. Stays(s, [s EXCEPT !.v = w]) /\ [s EXCEPT !.v = w].v = w
  BY CallStays
<1>5. Away(y, [s EXCEPT !.v = w])
  BY <1>3, <1>4, AwayVol
<1> QED
  BY <1>5 DEF w

(* So all of f_read keeps off the other files. *)
LEMMA AwayRead ==
  ASSUME NEW y, NEW x, NEW s, CallInv(x, s), Away(y, s), NEW n \in Nat
  PROVE  Away(y, f_read(s, n))
<1> DEFINE remain == s.fp.size - s.fp.ptr
           m == IF n > remain THEN remain ELSE n
           s0 == [s EXCEPT !.left = m]
<1>1. CallType(s) /\ m \in Int
  BY DEF CallInv, CallType, FileType
<1>2. CASE "error" \in s.fp.flags \/ "r" \notin s.fp.flags
  <2>1. f_read(s, n) = [s EXCEPT !.v = [s.v EXCEPT !.err = TRUE]]
    BY <1>2, <1>1 DEF f_read, CallType, CallFields
  <2> QED
    BY <1>1, <2>1, AwayFail
<1>3. CASE ~("error" \in s.fp.flags \/ "r" \notin s.fp.flags)
  <2>1. f_read(s, n) = ReadAll(n, s0)
    BY <1>3 DEF f_read, ReadAll
  <2> HIDE DEF m
  <2>2. CallInv(x, s0) /\ Away(y, s0)
    <3>1. CallType(s0) /\ s0.v = s.v /\ s0.fp = s.fp
      BY <1>1, SetFields
    <3>3. CallInv(x, s0)
      BY <3>1, CallSame
    <3>2. Stays(s, s0) /\ s0.v = s.v
      BY <1>1, CallStays
    <3> QED
      BY <3>2, <3>3, AwaySame
  <2> HIDE DEF s0
  <2>3. PICK f : /\ f[n] = ReadAll(n, s0) /\ f[0] = s0
                 /\ \A k \in 0 .. n : k # n => f[k + 1] = read_next(f[k])
    BY ReadLoop
  <2> DEFINE S == {k \in Nat : k <= n => CallInv(x, f[k]) /\ Away(y, f[k])}
  <2>4. 0 \in S
    BY <2>2, <2>3
  <2>5. ASSUME NEW k \in Nat, k \in S
        PROVE  k + 1 \in S
    <3>1. CASE k + 1 <= n
      <4>1. k \in 0 .. n /\ k # n /\ k <= n
        BY <3>1
      <4>2. CallInv(x, f[k]) /\ Away(y, f[k])
        BY <2>5, <4>1
      <4>3. f[k + 1] = read_next(f[k])
        BY <2>3, <4>1
      <4>4. CallInv(x, f[k + 1]) /\ Away(y, f[k + 1])
        BY <4>2, <4>3, ReadNext, AwayReadNext
      <4> QED
        BY <4>4
    <3> QED
      BY <3>1
  <2>6. Nat \subseteq S
    <3> HIDE DEF S
    <3> QED
      BY <2>4, <2>5, CountUp
  <2> QED
    BY <2>1, <2>3, <2>6
<1> QED
  BY <1>2, <1>3

(* f_write goes on to the next cluster of its own, or to a new one. *)
LEMMA AwayWriteCluster ==
  ASSUME NEW y, NEW x, NEW s, CallInv(x, s), ~s.v.err, Away(y, s)
  PROVE  Away(y, write_cluster(s))
<1> DEFINE first == s.fp.ptr = 0
           c == IF first THEN 0 ELSE s.fp.curr
           r == create_chain(s.v, c)
           w == r[1]
           o == r[2]
           p == IF first THEN o ELSE s.fp.org
           t == [s EXCEPT !.v = w, !.fp.org = p]
<1>1. CallType(s) /\ s.fp.org \in Nat /\ Holds(s.v, x.heads \cup Own(s.fp)) /\ c \in Nat /\ Ours(y, s.v, c)
  BY Codes DEF CallInv, CallType, FileType, Away, Ours
<1>2. Spares(y, w) /\ StillUsed(s.v, w) /\ Ours(y, w, o)
  <2> HIDE DEF c
  <2> QED
    BY <1>1, SparesCreate DEF Away
<1>3. VolType(w) /\ o \in Nat
  <2> HIDE DEF c
  <2>1. Grown(s.v, x.heads \cup Own(s.fp), c, r)
    BY <1>1, CreateChain
  <2> QED
    BY <2>1 DEF Grown, Kept
<1>4. write_cluster(s) \in {s, at_cluster(s, s.fp.org), t, at_cluster(t, o)}
  BY DEF write_cluster
<1> HIDE DEF w, o, c
<1>5. /\ CallType(t) /\ t.v = w /\ t.fp.org = p /\ t.fp.curr = s.fp.curr /\ t.c = s.c
      /\ t.fp.dsect = s.fp.dsect /\ t.nsect = s.nsect
  <2>1. p \in Nat
    BY <1>1, <1>3
  <2> HIDE DEF p
  <2> QED
    BY <1>1, <1>3, <2>1 DEF CallType, CallFields, FileType, FileFields
<1> HIDE DEF t
<1>6. Away(y, t)
  BY <1>2, <1>5, AwayStep
<1>7. Away(y, at_cluster(t, o))
  BY <1>2, <1>5, <1>6, AwayAtCluster
<1>8. Away(y, at_cluster(s, s.fp.org))
  BY <1>1, AwayAtCluster DEF Away
<1> QED
  BY <1>4, <1>6, <1>7, <1>8

(* A turn of the loop of f_write *)
LEMMA AwayWriteNext ==
  ASSUME NEW y, NEW x, NEW s, CallInv(x, s), Away(y, s), NEW u
  PROVE  Away(y, write_next(s, u))
<1>1. CallType(s)
  BY DEF CallInv
<1>2. CASE s.left = 0 \/ s.v.err
  BY <1>2 DEF write_next
<1>3. CASE ~(s.left = 0 \/ s.v.err) /\ s.fp.ptr % s.v.ss # 0
  BY <1>1, <1>3, AwayCopyIn DEF write_next
<1>4. CASE ~(s.left = 0 \/ s.v.err) /\ s.fp.ptr % s.v.ss = 0
  <2> DEFINE r == write_cluster(s)
             z == [r EXCEPT !.left = 0]
             f == flush(r)
             sect == clust2sect(f.fp.curr, f.fp.csect)
             q == write_buffered(f, sect)
  <2>1. CallType(r) /\ Away(y, r)
    BY <1>4, WriteCluster, AwayWriteCluster DEF CallInv
  <2>2. write_next(s, u) \in {r, z, abort(f), write_direct(f, sect, u), q, copy_in(q, u)}
    BY <1>4 DEF write_next, and_then, or_abort
  <2> HIDE DEF r
  <2>3. Away(y, z)
    <3>1. Stays(r, z) /\ z.v = r.v
      BY <2>1, CallStays
    <3> QED
      BY <2>1, <3>1, AwaySame
  <2>4. CallType(f) /\ Away(y, f)
    BY <2>1, Flush, TransfersType, AwayFlush
  <2> HIDE DEF f, z
  <2>5. SectOurs(y, f.v, sect)
    BY <2>4, ClustSect DEF Away
  <2> HIDE DEF sect
  <2>6. CallType(q) /\ Away(y, q)
    BY <2>4, <2>5, WriteBuffered, TransfersType, AwayWriteBuffered
  <2> HIDE DEF q
  <2> QED
    BY <2>1, <2>2, <2>3, <2>4, <2>5, <2>6, AwayAbort, AwayWriteDirect, AwayCopyIn
<1> QED
  BY <1>2, <1>3, <1>4

(* The loop *)
LEMMA AwayWriteLoop ==
  ASSUME NEW y, NEW x, NEW s, CallInv(x, s), Away(y, s), NEW n \in Nat, NEW u
  PROVE  Away(y, WriteAll(n, s, u))
<1>1. PICK f : /\ f[n] = WriteAll(n, s, u) /\ f[0] = s
               /\ \A k \in 0 .. n : k # n => f[k + 1] = write_next(f[k], u)
  BY WriteTurns
<1> DEFINE S == {k \in Nat : k <= n => CallInv(x, f[k]) /\ Away(y, f[k])}
<1>2. 0 \in S
  BY <1>1
<1>3. ASSUME NEW k \in Nat, k \in S
      PROVE  k + 1 \in S
  <2>1. CASE k + 1 <= n
    <3>1. k \in 0 .. n /\ k # n /\ k <= n
      BY <2>1
    <3>2. CallInv(x, f[k]) /\ Away(y, f[k])
      BY <1>3, <3>1
    <3>3. f[k + 1] = write_next(f[k], u)
      BY <1>1, <3>1
    <3>4. CallInv(x, f[k + 1]) /\ Away(y, f[k + 1])
      BY <3>2, <3>3, WriteNext, AwayWriteNext
    <3> QED
      BY <3>4
  <2> QED
    BY <2>1
<1>4. Nat \subseteq S
  <2> HIDE DEF S
  <2> QED
    BY <1>2, <1>3, CountUp
<1> QED
  BY <1>1, <1>4

(* The size of the file, and what marks its object *)
LEMMA AwayExtend ==
  ASSUME NEW y, NEW s, CallType(s), Away(y, s)
  PROVE  Away(y, extend(s)) /\ \A z : Away(y, [s EXCEPT !.fp.flags = z])
<1>1. ASSUME NEW z PROVE Away(y, [s EXCEPT !.fp.flags = z])
  <2>1. LET t == [s EXCEPT !.fp.flags = z] IN Stays(s, t) /\ t.v = s.v
    BY CallStays
  <2> QED
    BY <2>1, AwaySame
<1>2. Stays(s, extend(s)) /\ extend(s).v = s.v
  BY DEF extend, Stays, CallType, FileType, CallFields, FileFields
<1> QED
  BY <1>1, <1>2, AwaySame

(* So all of f_write keeps off the other files. *)
LEMMA AwayWrite ==
  ASSUME NEW y, NEW x, NEW s, CallInv(x, s), Away(y, s), NEW u, Len(u) \in Nat
  PROVE  Away(y, f_write(s, u))
<1> DEFINE n == Len(u)
           s0 == [s EXCEPT !.left = n]
           r == WriteAll(n, s0, u)
           z == r.fp.flags \cup {"written"}
           q == [r EXCEPT !.fp.flags = z]
<1>1. CallType(s) /\ n \in Int
  BY DEF CallInv
<1>2. CASE "error" \in s.fp.flags \/ "w" \notin s.fp.flags
  <2>1. f_write(s, u) = [s EXCEPT !.v = [s.v EXCEPT !.err = TRUE]]
    BY <1>2, <1>1 DEF f_write, CallType, CallFields
  <2> QED
    BY <1>1, <2>1, AwayFail
<1>3. CASE ~("error" \in s.fp.flags \/ "w" \notin s.fp.flags)
  <2>1. f_write(s, u) = IF r.v.err THEN r ELSE extend(q)
    BY <1>3 DEF f_write, and_then, WriteAll
  <2>2. CallInv(x, s0) /\ Away(y, s0)
    <3>1. CallType(s0) /\ s0.v = s.v /\ s0.fp = s.fp
      BY <1>1, SetFields
    <3>2. CallInv(x, s0)
      BY <3>1, CallSame
    <3>3. Stays(s, s0) /\ s0.v = s.v
      BY <1>1, CallStays
    <3> QED
      BY <3>2, <3>3, AwaySame
  <2> HIDE DEF s0
  <2>3. CallInv(x, r) /\ Away(y, r)
    BY <2>2, WriteLoop, AwayWriteLoop
  <2> HIDE DEF r, z
  <2>4. CallType(q) /\ Away(y, q)
    <3>1. q = [r EXCEPT !.fp.flags = z]
      BY DEF q
    <3>2. Away(y, q)
      BY <2>3, AwayExtend DEF CallInv
    <3> HIDE DEF q
    <3>3. CallInv(x, q)
      BY <2>3, <3>1, CallMark
    <3> QED
      BY <3>2, <3>3 DEF CallInv
  <2> HIDE DEF q
  <2> QED
    BY <2>1, <2>3, <2>4, AwayExtend
<1> QED
  BY <1>2, <1>3

(* A turn of the cluster following loop *)
LEMMA AwayFollowNext ==
  ASSUME NEW y, NEW x, NEW s, CallInv(x, s), Away(y, s)
  PROVE  Away(y, follow_next(s))
<1> DEFINE bcs == s.v.ss * s.v.csize
           g == create_chain(s.v, s.c)
           v1 == read_fat(s.v, s.c)
           r == IF "w" \in s.fp.flags THEN g ELSE <<v1, get_fat(v1, s.c)>>
           s1 == [s EXCEPT !.v = r[1]]
           o == r[2]
           full1 == [s1 EXCEPT !.c = 0, !.left = bcs]
           on == [s1 EXCEPT !.fp.curr = o, !.fp.ptr = @ + bcs, !.c = o, !.left = @ - bcs]
<1>1. follow_next(s) = IF s.v.err \/ s.left <= bcs THEN s
                       ELSE IF "w" \in s.fp.flags /\ o = 0 THEN full1
                       ELSE IF o \notin Cluster THEN abort(s1) ELSE on
  BY DEF follow_next
<1>2. CASE s.v.err \/ s.left <= bcs
  BY <1>1, <1>2
<1>3. CASE ~(s.v.err \/ s.left <= bcs)
  <2>1. CallType(s) /\ Holds(s.v, x.heads \cup Own(s.fp)) /\ s.c \in Nat /\ Spares(y, s.v) /\ Ours(y, s.v, s.c)
    BY DEF CallInv, CallType, Away
  <2>2. VolType(g[1]) /\ Spares(y, g[1]) /\ StillUsed(s.v, g[1]) /\ Ours(y, g[1], g[2])
    <3>1. Spares(y, g[1]) /\ StillUsed(s.v, g[1]) /\ Ours(y, g[1], g[2])
      BY <1>3, <2>1, SparesCreate
    <3>2. Grown(s.v, x.heads \cup Own(s.fp), s.c, g)
      BY <1>3, <2>1, CreateChain
    <3> QED
      BY <3>1, <3>2 DEF Grown, Kept
  <2>3. VolType(v1) /\ Spares(y, v1) /\ StillUsed(s.v, v1) /\ Ours(y, v1, get_fat(v1, s.c))
    <3>1. Moves(s.v, v1) /\ Same(s.v, v1)
      BY <2>1, ReadFat, DataReadFat DEF Holds
    <3>2. Ours(y, v1, get_fat(v1, s.c))
      BY <2>1, NextOurs
    <3> HIDE DEF v1
    <3> QED
      BY <2>1, <3>1, <3>2, SparesMoves DEF Moves
  <2> HIDE DEF g, v1
  <2>4. VolType(r[1]) /\ Spares(y, r[1]) /\ StillUsed(s.v, r[1]) /\ Ours(y, r[1], o)
    BY <2>2, <2>3
  <2> HIDE DEF r, o
  <2>5. CallType(s1) /\ s1.v = r[1] /\ Stays(s, s1)
    BY <2>1, <2>4 DEF CallType, CallFields, Stays
  <2>6. Away(y, s1)
    BY <2>4, <2>5, AwayVol
  <2> HIDE DEF s1
  <2>7. Away(y, full1)
    <3>1. /\ full1.v = s1.v /\ full1.fp = s1.fp /\ full1.c = 0 /\ full1.nsect = s1.nsect
      BY <2>5 DEF CallType, CallFields
    <3> HIDE DEF full1
    <3> QED
      BY <2>6, <3>1, Codes DEF Away, Ours
  <2>8. Away(y, on)
    <3>1. /\ on.v = s1.v /\ on.fp.org = s1.fp.org /\ on.fp.curr = o /\ on.c = o /\ on.nsect = s1.nsect
          /\ on.fp.dsect = s1.fp.dsect
      BY <2>5 DEF CallType, CallFields, FileType, FileFields
    <3> HIDE DEF on
    <3> QED
      BY <2>4, <2>5, <2>6, <3>1 DEF Away
  <2>9. Away(y, abort(s1))
    BY <2>5, <2>6, AwayAbort
  <2> HIDE DEF full1, on
  <2> QED
    BY <1>1, <1>3, <2>7, <2>8, <2>9
<1> QED
  BY <1>2, <1>3

(* The loop *)
LEMMA AwayFollowLoop ==
  ASSUME NEW y, NEW x, NEW a, NEW s, Following(x, a, s), Away(y, s), NEW n \in Nat
  PROVE  Away(y, FollowAll(n, s))
<1>1. PICK f : /\ f[n] = FollowAll(n, s) /\ f[0] = s
               /\ \A k \in 0 .. n : k # n => f[k + 1] = follow_next(f[k])
  BY FollowTurns
<1> DEFINE S == {k \in Nat : k <= n => Following(x, a, f[k]) /\ Away(y, f[k])}
<1>2. 0 \in S
  BY <1>1
<1>3. ASSUME NEW k \in Nat, k \in S
      PROVE  k + 1 \in S
  <2>1. CASE k + 1 <= n
    <3>1. k \in 0 .. n /\ k # n /\ k <= n
      BY <2>1
    <3>2. Following(x, a, f[k]) /\ Away(y, f[k]) /\ CallInv(x, f[k])
      BY <1>3, <3>1 DEF Following
    <3>3. f[k + 1] = follow_next(f[k])
      BY <1>1, <3>1
    <3>4. Following(x, a, f[k + 1]) /\ Away(y, f[k + 1])
      BY <3>2, <3>3, FollowNext, AwayFollowNext
    <3> QED
      BY <3>4
  <2> QED
    BY <2>1
<1>4. Nat \subseteq S
  <2> HIDE DEF S
  <2> QED
    BY <1>2, <1>3, CountUp
<1> QED
  BY <1>1, <1>4

(* Following the chain, to the sector where the offset is *)
LEMMA AwayFollow ==
  ASSUME NEW y, NEW x, NEW s, CallInv(x, s), InChain(s), Away(y, s), NEW c \in Nat, Ours(y, s.v, c),
         NEW n \in Nat, s.v.faults = 0 => ~s.v.err /\ c \in clusters(s.v.fat, s.fp.org)
  PROVE  Away(y, follow(s, c, n))
<1> DEFINE s1 == [s EXCEPT !.c = c, !.left = n]
           r == FollowAll(n, s1)
           at == PtrTo(r, r.fp.ptr + r.left, r.left \div r.v.ss)
           z == clust2sect(r.c, at.fp.csect)
           at2 == SectTo(at, z, at.fp.csect + 1)
<1>1. CallType(s1) /\ s1.v = s.v /\ s1.fp = s.fp /\ s1.left = n /\ s1.c = c /\ s1.nsect = s.nsect
  <2>1. CallType(s) /\ n \in Int
    BY DEF CallInv
  <2> QED
    BY <2>1 DEF CallType, CallFields
<1>2. follow(s, c, n) = IF r.v.err THEN r ELSE IF r.left % r.v.ss = 0 THEN at ELSE at2
  BY DEF follow, and_then, FollowAll, PtrTo, SectTo
<1> HIDE DEF s1
<1>3. CallInv(x, s1) /\ SameFile(s, s1) /\ InChain(s1)
  BY <1>1, CallSame
<1>4. Following(x, s1, s1)
  BY <1>1, <1>3 DEF Following, SameFile
<1>5. Away(y, s1)
  BY <1>1 DEF Away
<1>6. Away(y, r) /\ CallType(r)
  <2>1. Following(x, s1, r)
    BY <1>4, FollowLoop
  <2> QED
    BY <1>4, <1>5, <2>1, AwayFollowLoop DEF Following, CallInv
<1> HIDE DEF r
<1>7. Stays(r, at) /\ at.v = r.v /\ DOMAIN at = CallFields /\ DOMAIN at.fp = FileFields
  BY <1>6 DEF PtrTo, Stays, CallType, CallFields, FileType, FileFields
<1>8. Away(y, at)
  BY <1>6, <1>7, AwaySame
<1> HIDE DEF at
<1>9. SectOurs(y, at.v, z)
  BY <1>6, <1>7, ClustSect DEF Away
<1> HIDE DEF z
<1>10. /\ at2.v = at.v /\ at2.fp.org = at.fp.org /\ at2.fp.curr = at.fp.curr /\ at2.c = at.c /\ at2.nsect = z
       /\ at2.fp.dsect = at.fp.dsect
  BY <1>7 DEF SectTo, CallFields, FileFields
<1>11. Away(y, at2)
  BY <1>8, <1>9, <1>10 DEF Away
<1> QED
  BY <1>2, <1>6, <1>8, <1>11

(* From a first cluster that is ours *)
LEMMA AwayFrom ==
  ASSUME NEW y, NEW s, CallType(s), Away(y, s), NEW w, VolType(w), Spares(y, w), StillUsed(s.v, w),
         NEW o \in Nat, Ours(y, w, o)
  PROVE  Away(y, FromTo(s, w, o)) /\ Away(y, [s EXCEPT !.v = w])
<1> DEFINE t == FromTo(s, w, o)
           u == [s EXCEPT !.v = w]
<1>1. /\ t.v = w /\ t.fp.org = o /\ t.fp.curr = o /\ t.c = s.c /\ t.nsect = s.nsect
      /\ t.fp.dsect = s.fp.dsect
  <2> DEFINE q == [s.fp EXCEPT !.org = o, !.curr = o]
  <2>1. q.org = o /\ q.curr = o /\ q.dsect = s.fp.dsect
    BY DEF CallType, FileType, FileFields
  <2>2. t.fp = q /\ t.v = w /\ t.c = s.c /\ t.nsect = s.nsect
    BY DEF FromTo, CallType, CallFields
  <2> QED
    BY <2>1, <2>2
<1>2. Stays(s, u) /\ u.v = w
  BY CallStays
<1> HIDE DEF t, u
<1>3. Spares(y, t.v) /\ StillUsed(s.v, t.v) /\ Ours(y, t.v, t.fp.org) /\ Ours(y, t.v, t.fp.curr)
  BY <1>1
<1>4. Away(y, t)
  BY <1>1, <1>3, AwayStep
<1>5. Away(y, u)
  BY <1>2, AwayVol
<1> QED
  BY <1>4, <1>5 DEF t, u

(* From the first cluster that there is *)
LEMMA AwaySeekFirst ==
  ASSUME NEW y, NEW x, NEW s, CallInv(x, s), ~s.v.err, s.fp.ptr = 0, ~(s.fp.csect < s.v.csize),
         s.fp.org # 0, Away(y, s), NEW n \in Nat
  PROVE  Away(y, SeekFrom(s, <<s.v, s.fp.org>>, n))
<1> DEFINE o == s.fp.org
           s1 == FromTo(s, s.v, o)
           t == follow(s1, o, n)
<1>1. CallType(s) /\ VolType(s.v) /\ o \in Nat /\ Spares(y, s.v) /\ Ours(y, s.v, o) /\ StillUsed(s.v, s.v)
  BY DEF CallInv, CallType, FileType, Away, StillUsed
<1>2. SeekFrom(s, <<s.v, o>>, n) = t
  BY DEF SeekFrom
<1>3. Seeks(s, s1) /\ s1.fp.curr = o /\ s1.v = s.v /\ Away(y, s1)
  <2>1. Away(y, FromTo(s, s.v, o))
    BY <1>1, AwayFrom
  <2>2. Seeks(s, FromTo(s, s.v, o)) /\ FromTo(s, s.v, o).fp.curr = o /\ FromTo(s, s.v, o).v = s.v
    BY <1>1, FromMoves DEF Seeks
  <2> QED
    BY <2>1, <2>2
<1> HIDE DEF s1
<1>4. InChain(s1) /\ (s1.v.faults = 0 => ~s1.v.err /\ o \in clusters(s1.v.fat, s1.fp.org))
  <2>1. s.v.faults = 0 => o \in Cluster
    BY DEF CallInv, Quiet
  <2>2. s.v.faults = 0 => o \in clusters(s.v.fat, o)
    BY <2>1, ChainClosed DEF Closed
  <2> QED
    BY <1>3, <2>2 DEF InChain, Seeks
<1>5. CallInv(x, s1)
  BY <1>3, <1>4, CallSeeks
<1> HIDE DEF o
<1>6. Away(y, t)
  BY <1>1, <1>3, <1>4, <1>5, AwayFollow
<1> QED
  BY <1>2, <1>6 DEF o

(* From a first cluster taken for it *)
LEMMA AwaySeekNew ==
  ASSUME NEW y, NEW x, NEW s, CallInv(x, s), ~s.v.err, s.fp.ptr = 0, ~(s.fp.csect < s.v.csize),
         s.fp.org = 0, Away(y, s), NEW n \in Nat
  PROVE  Away(y, SeekFrom(s, create_chain(s.v, 0), n))
<1> DEFINE r == create_chain(s.v, 0)
           w == r[1]
           o == r[2]
           sa == [s EXCEPT !.v = w]
           s1 == FromTo(s, w, o)
           t == follow(s1, o, n)
<1>1. CallType(s) /\ Holds(s.v, x.heads \cup Own(s.fp)) /\ Ours(y, s.v, 0)
  BY Codes DEF CallInv, Ours
<1>2. VolType(w) /\ o \in Nat
  <2>1. Grown(s.v, x.heads \cup Own(s.fp), 0, r)
    BY <1>1, CreateChain
  <2> QED
    BY <2>1 DEF Grown, Kept
<1>3. Spares(y, w) /\ StillUsed(s.v, w) /\ Ours(y, w, o)
  BY <1>1, SparesCreate DEF Away
<1>4. SeekFrom(s, r, n) = IF w.err THEN abort(sa) ELSE IF o = 0 THEN s1 ELSE t
  BY DEF SeekFrom
<1> HIDE DEF w, o
<1>5. /\ CallType(s1) /\ s1.v = w /\ s1.fp.org = o /\ s1.fp.curr = o /\ s1.fp.open = s.fp.open
      /\ s1.fp.slot = s.fp.slot /\ s1.fp.size = s.fp.size /\ s1.fp.ptr = s.fp.ptr
      /\ s1.fp.csect = s.fp.csect /\ s1.fp.flags = s.fp.flags
  BY <1>1, <1>2, FromMoves
<1>6. Away(y, s1) /\ Away(y, sa)
  BY <1>1, <1>2, <1>3, AwayFrom
<1>7. CallType(sa)
  BY <1>1, <1>2 DEF CallType, CallFields
<1> HIDE DEF s1, sa, r
<1>8. /\ CallInv(x, s1) /\ (o \in Cluster => o \in clusters(s1.v.fat, s1.fp.org))
      /\ s1.v.faults = 0 => o \in Cluster \cup {0} /\ ~w.err
  BY <1>5, GrowFirst DEF r, w, o
<1>9. CASE ~w.err /\ o # 0
  <2>1. InChain(s1) /\ (s1.v.faults = 0 => ~s1.v.err /\ o \in clusters(s1.v.fat, s1.fp.org))
    BY <1>5, <1>8, <1>9 DEF InChain
  <2>2. Away(y, t)
    BY <1>2, <1>3, <1>5, <1>6, <1>8, <2>1, AwayFollow
  <2> QED
    BY <1>4, <1>9, <2>2 DEF r
<1> QED
  BY <1>4, <1>6, <1>7, <1>9, AwayAbort DEF r

(* So the seek starts from a cluster that is ours. *)
LEMMA AwaySeekStart ==
  ASSUME NEW y, NEW x, NEW s, CallInv(x, s), ~s.v.err, s.fp.ptr = 0, ~(s.fp.csect < s.v.csize), Away(y, s),
         NEW m \in Int, m # 0 => InChain(s), NEW n \in Nat, n >= 1
  PROVE  Away(y, seek_start(s, m, n))
<1> DEFINE bcs == s.v.ss * s.v.csize
           onward == m > 0 /\ (n - 1) \div bcs >= (m - 1) \div bcs
           base == ((m - 1) \div bcs) * bcs
           s1 == [s EXCEPT !.fp.ptr = base]
           c == s.fp.curr
           k == n - base
           t == follow(s1, c, k)
<1>1. CallType(s) /\ c \in Nat /\ Ours(y, s.v, c)
  BY DEF CallInv, CallType, FileType, Away
<1>2. seek_start(s, m, n) = IF onward THEN t
                            ELSE SeekFrom(s, IF s.fp.org = 0 THEN create_chain(s.v, 0) ELSE <<s.v, s.fp.org>>, n)
  BY DEF seek_start, SeekFrom, FromTo
<1>3. bcs \in Nat \ {0}
  <2>1. s.v.ss \in Nat /\ s.v.ss >= 1 /\ s.v.csize \in Nat /\ s.v.csize >= 1
    BY <1>1 DEF CallType, VolType
  <2> QED
    BY <2>1
<1>4. CASE onward
  <2>1. base <= n - 1 /\ base \in Nat
    <3> HIDE DEF bcs
    <3>1. n - 1 \in Nat /\ m - 1 \in Nat
      BY <1>4
    <3> QED
      BY <1>3, <1>4, <3>1, DivBase
  <2>2. k \in Nat /\ base \in Int
    BY <2>1
  <2>3. InChain(s)
    BY <1>4
  <2>4. seek_start(s, m, n) = t
    BY <1>2, <1>4
  <2> HIDE DEF base, k, onward, bcs
  <2>5. Seeks(s, s1) /\ s1.fp.curr = c
    BY <1>1, <2>2 DEF Seeks, CallType, CallFields, FileType, FileFields
  <2>6. Stays(s, s1) /\ s1.v = s.v
    BY <1>1, CallStays
  <2> HIDE DEF s1
  <2>7. InChain(s1) /\ Away(y, s1)
    BY <2>3, <2>5, <2>6, AwaySame DEF InChain, Seeks
  <2>8. CallInv(x, s1) /\ SameFile(s, s1)
    BY <2>5, <2>7, CallSeeks
  <2>9. s1.v.faults = 0 => ~s1.v.err /\ c \in clusters(s1.v.fat, s1.fp.org)
    BY <2>5, <2>7 DEF InChain, Seeks
  <2> HIDE DEF c
  <2>10. Away(y, t)
    BY <1>1, <2>2, <2>6, <2>7, <2>8, <2>9, AwayFollow
  <2> QED
    BY <2>4, <2>10
<1>5. CASE ~onward
  <2> HIDE DEF onward
  <2>1. CASE s.fp.org = 0
    <3>1. seek_start(s, m, n) = SeekFrom(s, create_chain(s.v, 0), n)
      BY <1>2, <1>5, <2>1
    <3> QED
      BY <2>1, <3>1, AwaySeekNew
  <2>2. CASE s.fp.org # 0
    <3>1. seek_start(s, m, n) = SeekFrom(s, <<s.v, s.fp.org>>, n)
      BY <1>2, <1>5, <2>2
    <3> QED
      BY <2>2, <3>1, AwaySeekFirst
  <2> QED
    BY <2>1, <2>2
<1> QED
  BY <1>4, <1>5

(* No sector is NONE. *)
LEMMA NoneOurs == ASSUME NEW y, NEW v PROVE SectOurs(y, v, NONE)
  BY FatAssumption DEF SectOurs, Cluster

(* The buffer for the sector where a seek ends *)
LEMMA AwaySeekFill ==
  ASSUME NEW y, NEW s, CallType(s), Away(y, s)
  PROVE  Away(y, seek_fill(s))
<1> DEFINE f == flush(s)
           r == read_sector(f, f.nsect)
           q == IF f.v.err THEN f ELSE r
           t == IF q.v.err THEN abort(q) ELSE SectorTo(q, q.nsect)
<1>1. seek_fill(s) = s \/ seek_fill(s) = t
  BY DEF seek_fill, or_abort, and_then, SectorTo
<1>2. CallType(f) /\ Away(y, f)
  BY Flush, TransfersType, AwayFlush
<1> HIDE DEF f
<1>3. CallType(r) /\ Away(y, r)
  BY <1>2, ReadSector, TransfersType, AwayReadSector
<1> HIDE DEF r
<1>4. CallType(q) /\ Away(y, q)
  BY <1>2, <1>3
<1> HIDE DEF q
<1>5. Away(y, abort(q))
  BY <1>4, AwayAbort
<1>6. SectOurs(y, q.v, q.nsect)
  BY <1>4 DEF Away
<1>7. Away(y, SectorTo(q, q.nsect))
  BY <1>4, <1>6, CallGoes DEF SectorTo
<1> QED
  BY <1>1, <1>5, <1>7

(* What f_lseek sets first *)
LEMMA AwaySeekInit ==
  ASSUME NEW y, NEW s, CallType(s), Away(y, s)
  PROVE  Away(y, SeekInit(s))
<1> DEFINE q == [s.fp EXCEPT !.ptr = 0, !.csect = 255]
           t == SeekInit(s)
<1>1. q.org = s.fp.org /\ q.curr = s.fp.curr /\ q.dsect = s.fp.dsect
  BY DEF CallType, FileType, FileFields
<1>2. t.fp = q /\ t.v = s.v /\ t.c = s.c /\ t.nsect = NONE
  BY DEF SeekInit, CallType, CallFields
<1> HIDE DEF q, t
<1>3. Spares(y, t.v) /\ StillUsed(s.v, t.v) /\ SectOurs(y, t.v, t.nsect)
  BY <1>2, NoneOurs DEF Away, StillUsed
<1> QED
  BY <1>1, <1>2, <1>3, AwayStep DEF t

(* The end of f_lseek *)
LEMMA AwaySeekGrown ==
  ASSUME NEW y, NEW x, NEW s, CallInv(x, s), Away(y, s)
  PROVE  Away(y, SeekGrown(s))
<1> DEFINE z == s.fp.flags \cup {"written"}
           q == [s EXCEPT !.fp.flags = z]
<1>1. SeekGrown(s) = s \/ SeekGrown(s) = extend(q)
  BY DEF SeekGrown
<1> HIDE DEF z
<1>2. CallInv(x, q) /\ Away(y, q)
  BY CallMark, AwayExtend DEF CallInv
<1> HIDE DEF q
<1>3. Away(y, extend(q))
  BY <1>2, AwayExtend DEF CallInv
<1> QED
  BY <1>1, <1>3

(* So all of f_lseek keeps off the other files. *)
LEMMA AwayLseek ==
  ASSUME NEW y, NEW x, NEW s, CallInv(x, s), ~s.v.err, Away(y, s), NEW n \in Nat
  PROVE  Away(y, f_lseek(s, n))
<1> DEFINE o == IF n > s.fp.size /\ "w" \notin s.fp.flags THEN s.fp.size ELSE n
           s0 == SeekInit(s)
           r == IF o = 0 THEN s0 ELSE seek_start(s0, s.fp.ptr, o)
           q == IF r.v.err THEN r ELSE seek_fill(r)
           t == IF q.v.err THEN q ELSE SeekGrown(q)
<1>1. CallType(s) /\ o \in Nat /\ s.fp.size \in Nat /\ s.fp.ptr \in Int
  BY DEF CallInv, CallType, FileType
<1>2. CASE "error" \in s.fp.flags
  <2> DEFINE w == [s.v EXCEPT !.err = TRUE]
  <2>1. f_lseek(s, n) = [s EXCEPT !.v = w]
    BY <1>2, <1>1 DEF f_lseek, CallType, CallFields
  <2> QED
    BY <1>1, <2>1, AwayFail
<1>3. CASE "error" \notin s.fp.flags
  <2>1. f_lseek(s, n) = t
    BY <1>3 DEF f_lseek, and_then, SeekInit, SeekGrown
  <2>2. s.v.faults = 0 /\ s.fp.org = 0 /\ o # 0 => "w" \in s.fp.flags
    <3> SUFFICES ASSUME s.v.faults = 0, s.fp.org = 0, "w" \notin s.fp.flags PROVE o = 0
      OBVIOUS
    <3>1. s.fp.size = 0
      BY DEF CallInv, Quiet
    <3> QED
      BY <3>1
  <2> HIDE DEF o, s0
  <2>3. /\ CallInv(x, s0) /\ s0.v = s.v /\ s0.fp.ptr = 0 /\ ~(s0.fp.csect < s0.v.csize)
        /\ s0.fp.flags = s.fp.flags /\ s0.fp.org = s.fp.org /\ (InChain(s) => InChain(s0))
    BY SeekInitMoves DEF s0
  <2>4. Away(y, s0)
    BY <1>1, AwaySeekInit DEF s0
  <2>5. CallInv(x, r) /\ Away(y, r)
    <3>1. CASE o = 0
      BY <2>3, <2>4, <3>1
    <3>2. CASE o # 0
      <4>1. s.fp.ptr # 0 => InChain(s0)
        BY <2>3 DEF CallInv, Quiet, InChain
      <4>2. o >= 1 /\ r = seek_start(s0, s.fp.ptr, o)
        BY <1>1, <3>2
      <4>3. CallInv(x, r)
        BY <1>1, <2>2, <2>3, <3>2, <4>1, <4>2, SeekStart
      <4>4. Away(y, seek_start(s0, s.fp.ptr, o))
        BY <1>1, <2>3, <2>4, <4>1, <4>2, AwaySeekStart
      <4> QED
        BY <4>2, <4>3, <4>4
    <3> QED
      BY <3>1, <3>2
  <2> HIDE DEF r
  <2>6. CallInv(x, seek_fill(r)) /\ Away(y, seek_fill(r))
    BY <2>5, SeekFill, AwaySeekFill DEF CallInv
  <2>7. CallInv(x, q) /\ Away(y, q)
    BY <2>5, <2>6
  <2> HIDE DEF q
  <2>8. Away(y, SeekGrown(q))
    BY <2>7, AwaySeekGrown
  <2>9. Away(y, t)
    BY <2>7, <2>8
  <2> QED
    BY <2>1, <2>9
<1> QED
  BY <1>2, <1>3

(* f_sync writes the entry of its own file, and frees nothing. *)
LEMMA AwaySync ==
  ASSUME NEW y, NEW x, Others(x), NEW s, CallInv(x, s), Away(y, s), x.k \in y.slots
  PROVE  Away(y, f_sync(s))
<1> DEFINE r == flush(s)
           w == move_window(r.v, DirSect(s.fp.slot))
           q == [r EXCEPT !.v = w]
           p == s.fp
           e == entry(q.v.dir[p.slot].name, p.org, p.size)
           d == set_dir(q.v, p.slot, e)
           g == q.fp.flags \ {"written"}
           t == [q EXCEPT !.v = sync(d), !.fp.flags = g]
<1>1. f_sync(s) = IF "written" \notin s.fp.flags THEN s
                  ELSE IF r.v.err THEN r
                  ELSE IF q.v.err THEN q ELSE t
  BY DEF f_sync, and_then
<1>2. CallInv(x, r) /\ Away(y, r) /\ CallType(r) /\ VolType(r.v)
  BY CallFlush, AwayFlush DEF CallInv, CallType
<1>3. p.slot \in Entries /\ p.slot \in y.slots /\ p.slot = x.k /\ p.org \in Nat /\ p.size \in Nat
  BY DEF CallInv, CallType, FileType, Others, Entries
<1> HIDE DEF r, p
<1>4. Moves(r.v, w) /\ Same(r.v, w)
  BY <1>2, MoveWindow, DataMoveWindow
<1> HIDE DEF w
<1>5. CallInv(x, q) /\ Away(y, q)
  BY <1>2, <1>4, CallMoves, AwayMoves
<1> HIDE DEF q
<1>6. VolType(q.v) /\ CallType(q) /\ Spares(y, q.v)
  BY <1>5 DEF CallInv, CallType, Away
<1>7. e \in Entry
  <2>1. q.v.dir[p.slot].name \in Name
    BY <1>3, <1>5 DEF CallInv, Others
  <2> QED
    BY <1>3, <2>1, EntryOf
<1> HIDE DEF e
<1>8. VolType(d) /\ Spares(y, d) /\ StillUsed(q.v, d)
  BY <1>3, <1>6, <1>7, SetDir, SparesDir DEF SameBut, Entries
<1> HIDE DEF d
<1>9. Moves(d, sync(d)) /\ Same(d, sync(d))
  BY <1>8, Sync, DataSync
<1>10. Spares(y, sync(d)) /\ StillUsed(q.v, sync(d))
  BY <1>8, <1>9, SparesMoves DEF StillUsed
<1>11. Stays(q, t) /\ t.v = sync(d)
  <2> HIDE DEF g
  <2> DEFINE m == sync(d)
  <2> HIDE DEF m
  <2> DEFINE b == [q EXCEPT !.v = m]
  <2>1. Stays(q, b) /\ b.v = m /\ CallType([b EXCEPT !.v = q.v]) /\ b.fp = q.fp /\ b.c = q.c /\ b.nsect = q.nsect
    BY <1>6, CallStays DEF CallType, CallFields
  <2>2. [q EXCEPT !.v = m, !.fp.flags = g].v = m
    BY <1>6 DEF CallType, CallFields
  <2>3. Stays(q, [q EXCEPT !.v = m, !.fp.flags = g])
    BY <1>6 DEF CallType, CallFields, Stays, FileType, FileFields
  <2> QED
    BY <2>2, <2>3 DEF m
<1> HIDE DEF t
<1>12. Away(y, t)
  BY <1>5, <1>10, <1>11, AwayVol
<1> QED
  BY <1>1, <1>2, <1>5, <1>12 DEF r, p

-----------------------------------------------------------------------------
(* Owners of clusters *)

(* What a call on the files of slots is to keep, from volume v with the    *)
(* owners w of its clusters                                                *)
Realm(v, w, slots) ==
  [keep |-> {c \in Cluster : w[c] \notin slots /\ v.fat[c] # 0}, slots |-> slots, vol |-> v]

(* Every cluster has an owner, one for all of a chain: entry i owns the    *)
(* chain of its file, with the cluster and the sector where its object is. *)
Owned(v, files, w) ==
  /\ \A c \in Cluster : v.fat[c] \in Cluster => w[v.fat[c]] = w[c]
  /\ \A i \in Entries : HeadOf(v.dir, files, i) \in Cluster => w[HeadOf(v.dir, files, i)] = i
  /\ \A h \in Object : files[h].open =>
       /\ files[h].curr \in Cluster => w[files[h].curr] = files[h].slot /\ v.fat[files[h].curr] # 0
       /\ \A c \in Cluster, j \in Nat : files[h].dsect = <<c, j>> =>
            w[c] = files[h].slot /\ v.fat[c] # 0

(* A call spares what it is to keep from the start, *)
LEMMA RealmSpares ==
  ASSUME NEW v, NEW files, FilesInv(v, files), NEW w, Owned(v, files, w), NEW slots,
         DOMAIN v.data = Sectors(v)
  PROVE  Spares(Realm(v, w, slots), v)
<1> DEFINE y == Realm(v, w, slots)
<1>1. /\ y.keep \subseteq Cluster /\ y.vol = v /\ y.slots = slots
      /\ \A c \in Cluster : c \in y.keep <=> w[c] \notin slots /\ v.fat[c] # 0
  BY DEF Realm
<1> HIDE DEF y
<1>2. ASSUME NEW c \in Cluster \ y.keep
      PROVE  v.fat[c] \notin y.keep
  <2> SUFFICES ASSUME v.fat[c] \in y.keep PROVE FALSE
    OBVIOUS
  <2>1. v.fat[c] \in Cluster /\ v.fat[c] # 0 /\ w[v.fat[c]] \notin slots
    BY <1>1, Codes
  <2>2. w[v.fat[c]] = w[c]
    BY <2>1 DEF Owned
  <2> QED
    BY <1>1, <2>1, <2>2
<1> QED
  BY <1>1, <1>2 DEF Spares, Sectors, y

(* and what it starts from is its own. *)
LEMMA RealmOurs ==
  ASSUME NEW v, NEW files, FilesInv(v, files), NEW w, Owned(v, files, w), NEW slots
  PROVE  LET y == Realm(v, w, slots)
         IN /\ \A i \in Entries : i \in slots => Ours(y, v, HeadOf(v.dir, files, i)) /\ Ours(y, v, v.dir[i].org)
            /\ \A h \in Object : files[h].open /\ files[h].slot \in slots =>
                 Ours(y, v, files[h].curr) /\ SectOurs(y, v, files[h].dsect)
<1> DEFINE y == Realm(v, w, slots)
<1>1. \A c \in Cluster : c \in y.keep <=> w[c] \notin slots /\ v.fat[c] # 0
  BY DEF Realm
<1> HIDE DEF y
<1>2. ASSUME NEW i \in Entries, i \in slots
      PROVE  Ours(y, v, HeadOf(v.dir, files, i)) /\ Ours(y, v, v.dir[i].org)
  <2> DEFINE o == HeadOf(v.dir, files, i)
  <2>1. o \in Cluster => w[o] = i
    BY DEF Owned
  <2>2. o \in Cluster => o \in Heads(v.dir, files)
    BY DEF Heads
  <2> HIDE DEF o
  <2>3. o \in Cluster => v.fat[o] # 0
    BY <2>2 DEF FilesInv, Holds, InOrder
  <2>4. Ours(y, v, o)
    BY <1>1, <1>2, <2>1, <2>3 DEF Ours
  <2>5. v.dir[i].org \in Cluster => v.dir[i].org = o
    BY HeadDir DEF o
  <2> QED
    BY <2>4, <2>5 DEF o, Ours
<1>3. ASSUME NEW h \in Object, files[h].open, files[h].slot \in slots
      PROVE  Ours(y, v, files[h].curr) /\ SectOurs(y, v, files[h].dsect)
  BY <1>1, <1>3 DEF Owned, Ours, SectOurs
<1> QED
  BY <1>2, <1>3 DEF y

(* What a call comes to, with volume u and file objects g: the objects of  *)
(* the other files are the same, and those of own keep to what is theirs.  *)
Apart(y, own, files, u, g) ==
  /\ Spares(y, u)
  /\ \A h \in Object : files[h].open /\ files[h].slot \notin y.slots => g[h] = files[h]
  /\ \A h \in Object : g[h].open /\ g[h].slot \notin y.slots => g[h] = files[h]
  /\ \A h \in Object : g[h].open /\ g[h].slot \in y.slots =>
       /\ Ours(y, u, g[h].org) /\ Ours(y, u, g[h].curr) /\ SectOurs(y, u, g[h].dsect)
       /\ g[h].slot = own
  /\ \A i \in Entries : i \in y.slots /\ Opener(g, i) = {} =>
       Ours(y, u, u.dir[i].org) /\ (u.dir[i].org \in Cluster /\ ~two_names(u.dir) => i = own)

(* The owners of clusters after it *)
NewOwner(y, own, w) == [c \in Cluster |-> IF c \in y.keep THEN w[c] ELSE own]

(* are owners as before. *)
LEMMA OwnedAfter ==
  ASSUME NEW v, NEW files, FilesInv(v, files), NEW w, Owned(v, files, w), NEW slots, NEW own,
         NEW u, NEW g, ~two_names(u.dir), Apart(Realm(v, w, slots), own, files, u, g)
  PROVE  Owned(u, g, NewOwner(Realm(v, w, slots), own, w))
<1> DEFINE y == Realm(v, w, slots)
           n == NewOwner(y, own, w)
<1>1. /\ y.keep \subseteq Cluster /\ y.vol = v /\ y.slots = slots
      /\ \A c \in Cluster : c \in y.keep <=> w[c] \notin slots /\ v.fat[c] # 0
  BY DEF Realm
<1> HIDE DEF y
<1>2. \A c \in Cluster : n[c] = IF c \in y.keep THEN w[c] ELSE own
  BY DEF NewOwner
<1> HIDE DEF n
<1>3. Apart(y, own, files, u, g) /\ Spares(y, u)
  BY DEF y, Apart
<1>4. \A c \in y.keep : u.fat[c] = v.fat[c]
  BY <1>1, <1>3 DEF Spares
<1>5. ASSUME NEW c \in Cluster, u.fat[c] \in Cluster
      PROVE  n[u.fat[c]] = n[c]
  <2>1. CASE c \in y.keep
    <3>1. u.fat[c] = v.fat[c] /\ w[v.fat[c]] = w[c]
      BY <1>4, <1>5, <2>1 DEF Owned
    <3>2. v.fat[v.fat[c]] # 0
      BY <1>5, <3>1 DEF FilesInv, Holds, InOrder
    <3>3. u.fat[c] \in y.keep
      BY <1>1, <1>5, <2>1, <3>1, <3>2
    <3> QED
      BY <1>2, <1>5, <2>1, <3>1, <3>3
  <2>2. CASE c \notin y.keep
    BY <1>2, <1>3, <1>5, <2>2 DEF Spares
  <2> QED
    BY <2>1, <2>2
<1>6. ASSUME NEW i \in Entries, HeadOf(u.dir, g, i) \in Cluster
      PROVE  n[HeadOf(u.dir, g, i)] = i
  <2> DEFINE o == HeadOf(u.dir, g, i)
  <2>1. CASE i \notin slots
    <3>1. Opener(g, i) = Opener(files, i) /\ \A h \in Opener(g, i) : g[h] = files[h]
      BY <1>1, <1>3, <2>1 DEF Apart, Opener
    <3>2. u.dir[i] = v.dir[i]
      BY <1>1, <1>3, <2>1 DEF Spares, Entries
    <3>3. o = HeadOf(v.dir, files, i)
      BY <3>1, <3>2 DEF HeadOf
    <3>4. w[o] = i /\ o \in Heads(v.dir, files)
      BY <1>6, <3>3 DEF Owned, Heads
    <3> HIDE DEF o
    <3>5. v.fat[o] # 0 /\ o \in Cluster
      BY <1>6, <3>4 DEF FilesInv, Holds, InOrder, Heads
    <3>6. o \in y.keep
      BY <1>1, <2>1, <3>4, <3>5
    <3>7. n[o] = i
      BY <1>2, <3>4, <3>5, <3>6
    <3> QED
      BY <3>7 DEF o
  <2>2. CASE i \in slots
    <3>1. Ours(y, u, o) /\ i = own
      <4>1. CASE Opener(g, i) = {}
        <5>1. o = u.dir[i].org
          BY <4>1 DEF HeadOf
        <5> QED
          BY <1>1, <1>3, <1>6, <2>2, <4>1, <5>1 DEF Apart
      <4>2. CASE Opener(g, i) # {}
        <5>1. PICK h \in Opener(g, i) : o = g[h].org
          BY <4>2 DEF HeadOf
        <5>2. h \in Object /\ g[h].open /\ g[h].slot = i
          BY <5>1 DEF Opener
        <5> QED
          BY <1>1, <1>3, <2>2, <5>1, <5>2 DEF Apart
      <4> QED
        BY <4>1, <4>2
    <3>2. o \in Cluster /\ o \notin y.keep
      BY <1>6, <3>1 DEF Ours
    <3> HIDE DEF o
    <3>3. n[o] = i
      BY <1>2, <3>1, <3>2
    <3> QED
      BY <3>3 DEF o
  <2> QED
    BY <2>1, <2>2
<1>7. ASSUME NEW h \in Object, g[h].open, NEW c \in Cluster,
             c = g[h].curr \/ \E j \in Nat : g[h].dsect = <<c, j>>
      PROVE  n[c] = g[h].slot /\ u.fat[c] # 0
  <2>1. CASE g[h].slot \notin slots
    <3>1. g[h] = files[h]
      BY <1>1, <1>3, <1>7, <2>1 DEF Apart
    <3>2. w[c] = g[h].slot /\ v.fat[c] # 0
      BY <1>7, <3>1 DEF Owned
    <3>3. c \in y.keep
      BY <1>1, <2>1, <3>2
    <3> QED
      BY <1>2, <1>4, <3>2, <3>3
  <2>2. CASE g[h].slot \in slots
    <3>1. Ours(y, u, g[h].curr) /\ SectOurs(y, u, g[h].dsect) /\ g[h].slot = own
      BY <1>1, <1>3, <1>7, <2>2 DEF Apart
    <3>2. c \notin y.keep /\ u.fat[c] # 0
      BY <1>7, <3>1 DEF Ours, SectOurs
    <3> QED
      BY <1>2, <3>1, <3>2
  <2> QED
    BY <2>1, <2>2
<1>8. Owned(u, g, n)
  BY <1>5, <1>6, <1>7 DEF Owned
<1> QED
  BY <1>8 DEF n, y

(* A call on an open file starts from what is its own *)
LEMMA AwayEnter ==
  ASSUME NEW v, NEW files, FilesInv(v, files), NEW w, Owned(v, files, w), DOMAIN v.data = Sectors(v),
         NEW h \in Object, files[h].open
  PROVE  Away(Realm(v, w, {files[h].slot}), CallState(v, files[h]))
<1> DEFINE k == files[h].slot
           y == Realm(v, w, {k})
           s == CallState(v, files[h])
<1>1. k \in Entries /\ HeadOf(v.dir, files, k) = files[h].org
  <2>1. \A g, e \in Object : files[g].open /\ files[e].open /\ files[g].slot = files[e].slot => g = e
    BY DEF FilesInv
  <2>2. Opened(v, files[h])
    BY DEF FilesInv
  <2>3. \A d : HeadOf(d, files, files[h].slot) = files[h].org
    BY <2>1, HeadOpen
  <2> QED
    BY <2>2, <2>3 DEF Opened
<1>2. s.v = v /\ s.fp = files[h] /\ s.c = 0 /\ s.nsect = NONE
  BY DEF CallState
<1>3. Spares(y, v)
  BY RealmSpares
<1>4. Ours(y, v, files[h].org) /\ Ours(y, v, files[h].curr) /\ SectOurs(y, v, files[h].dsect)
  BY <1>1, RealmOurs
<1> HIDE DEF y, s, k
<1>5. Ours(y, v, 0) /\ SectOurs(y, v, NONE)
  BY Codes, NoneOurs DEF Ours
<1> QED
  BY <1>2, <1>3, <1>4, <1>5 DEF Away, y, s, k

(* and ends with it. *)
LEMMA ApartCall ==
  ASSUME NEW files, NEW h \in Object, files[h].open, DOMAIN files = Object,
         \A g \in Object : files[g].open /\ files[g].slot = files[h].slot => g = h,
         NEW y, y.slots = {files[h].slot}, NEW t, Away(y, t),
         t.v.dir[files[h].slot].org \in Cluster => t.v.dir[files[h].slot].org = t.fp.org,
         NEW p, ~p.open \/ (p = t.fp /\ p.slot = files[h].slot)
  PROVE  Apart(y, files[h].slot, files, t.v, [files EXCEPT ![h] = p])
<1> DEFINE k == files[h].slot
           g == [files EXCEPT ![h] = p]
<1>1. g[h] = p /\ \A e \in Object : e # h => g[e] = files[e]
  OBVIOUS
<1> HIDE DEF g
<1>2. Ours(y, t.v, t.v.dir[k].org)
  BY DEF Away, Ours
<1>3. ASSUME NEW e \in Object, files[e].open \/ g[e].open, e # h
      PROVE  g[e] = files[e] /\ g[e].slot # k
  BY <1>1, <1>3
<1>4. g[h].open => g[h] = t.fp /\ g[h].slot = k
  BY <1>1
<1>5. Apart(y, k, files, t.v, g)
  <2>1. Spares(y, t.v)
    BY DEF Away
  <2>2. \A e \in Object : files[e].open /\ files[e].slot \notin y.slots => g[e] = files[e]
    BY <1>3
  <2>3. \A e \in Object : g[e].open /\ g[e].slot \notin y.slots => g[e] = files[e]
    BY <1>3, <1>4
  <2>4. \A e \in Object : g[e].open /\ g[e].slot \in y.slots =>
          /\ Ours(y, t.v, g[e].org) /\ Ours(y, t.v, g[e].curr) /\ SectOurs(y, t.v, g[e].dsect)
          /\ g[e].slot = k
    BY <1>3, <1>4 DEF Away
  <2> QED
    BY <1>2, <2>1, <2>2, <2>3, <2>4 DEF Apart
<1> QED
  BY <1>5 DEF g

(* What one call from volume v, with owners w, comes to: at most one file, *)
(* that of entry k, is concerned.                                          *)
Result(v, w, files, u, g) ==
  /\ Sound(u, g)
  /\ \E slots, own :
       /\ Apart(Realm(v, w, slots), own, files, u, g)
       /\ \E k \in 0 .. n_rootdir : \A i \in Entries : i \in slots /\ v.dir[i].name \in Name => i = k

(* The result of a call on an open file *)
LEMMA FileResult ==
  ASSUME NEW v, NEW files, FilesInv(v, files), NEW w, NEW h \in Object, files[h].open,
         NEW t, Away(Realm(v, w, {files[h].slot}), t), NEW x, CallInv(x, t), x.k = files[h].slot,
         NEW p, p = t.fp \/ ~p.open, FilesInv(t.v, [files EXCEPT ![h] = p])
  PROVE  Result(v, w, files, t.v, [files EXCEPT ![h] = p])
<1> DEFINE k == files[h].slot
           y == Realm(v, w, {k})
<1>1. DOMAIN files = Object /\ k \in Entries
  BY DEF FilesInv, Opened
<1>2. \A g \in Object : files[g].open /\ files[g].slot = files[h].slot => g = h
  BY DEF FilesInv
<1>3. y.slots = {k}
  BY DEF Realm
<1>4. t.v.dir[k].org \in Cluster => t.v.dir[k].org = t.fp.org
  BY DEF CallInv
<1>5. ~p.open \/ (p = t.fp /\ p.slot = files[h].slot)
  BY DEF CallInv
<1>6. Away(y, t)
  OBVIOUS
<1> HIDE DEF y
<1>7. Apart(y, files[h].slot, files, t.v, [files EXCEPT ![h] = p])
  BY <1>1, <1>2, <1>3, <1>4, <1>5, <1>6, ApartCall
<1>8. k \in 0 .. n_rootdir /\ \A i \in Entries : i \in {k} => i = k
  BY <1>1 DEF Entries
<1> QED
  BY <1>7, <1>8 DEF Result, Sound, y

(* A cluster that is ours stays so as long as it is in use. *)
LEMMA OursStays ==
  ASSUME NEW y, NEW v, NEW w, StillUsed(v, w), NEW c, Ours(y, v, c)
  PROVE  Ours(y, w, c)
  BY DEF StillUsed, Ours

(* Emptying an entry of ours, and releasing its chain *)
LEMMA SparesEmptying ==
  ASSUME NEW y, NEW v, VolType(v), Spares(y, v), NEW i \in Entries, i \in y.slots,
         v.dir[i].org \notin y.keep, NEW e \in Entry
  PROVE  Spares(y, Emptying(v, i, e))
<1> DEFINE u == set_dir(v, i, e)
           c == v.dir[i].org
<1>1. VolType(u) /\ Spares(y, u)
  BY SetDir, SparesDir DEF SameBut, Entries
<1> HIDE DEF u
<1>2. c \in Cluster => Spares(y, release_chain(u, c))
  BY <1>1, SparesRelease
<1>3. c \notin Cluster => Spares(y, release_chain(u, c))
  <2>1. Same(u, fail(u)) /\ fail(u).fat = u.fat /\ fail(u).dir = u.dir /\ fail(u).disk = u.disk
    BY <1>1 DEF fail, VolType, VolFields, Same
  <2>2. Spares(y, fail(u))
    BY <1>1, <2>1, SparesSame
  <2> QED
    BY <2>2 DEF release_chain
<1>4. Emptying(v, i, e) = IF c = 0 THEN u ELSE release_chain(u, c)
  BY DEF Emptying, u
<1> HIDE DEF c
<1> QED
  BY <1>1, <1>2, <1>3, <1>4

(* An error that is returned *)
LEMMA SparesFail ==
  ASSUME NEW y, NEW v, VolType(v), Spares(y, v)
  PROVE  Spares(y, fail(v)) /\ StillUsed(v, fail(v)) /\ fail(v).dir = v.dir
<1>1. Same(v, fail(v)) /\ fail(v).fat = v.fat /\ fail(v).dir = v.dir /\ fail(v).disk = v.disk
  BY DEF fail, VolType, VolFields, Same
<1> QED
  BY <1>1, SparesSame

(* The result of a call on the directory *)
LEMMA DirResult ==
  ASSUME NEW v, NEW files, FilesInv(v, files), NEW w, NEW slots, NEW u, Sound(u, files),
         Spares(Realm(v, w, slots), u), NEW own,
         \A i \in Entries : i \in slots =>
           /\ Opener(files, i) = {} /\ Ours(Realm(v, w, slots), u, u.dir[i].org)
           /\ u.dir[i].org \in Cluster /\ ~two_names(u.dir) => i = own,
         NEW k \in 0 .. n_rootdir, \A i \in Entries : i \in slots /\ v.dir[i].name \in Name => i = k
  PROVE  Result(v, w, files, u, files)
<1> DEFINE y == Realm(v, w, slots)
<1>1. y.slots = slots
  BY DEF Realm
<1>2. Spares(y, u) /\ \A i \in Entries : i \in slots => Ours(y, u, u.dir[i].org)
  OBVIOUS
<1> HIDE DEF y
<1>3. \A h \in Object : files[h].open => files[h].slot \notin slots
  BY DEF FilesInv, Opened, Opener
<1>4. Apart(y, own, files, u, files)
  BY <1>1, <1>2, <1>3 DEF Apart
<1> QED
  BY <1>4 DEF Result, y

(* What the moves of the window leave with which a call begins *)
LEMMA DirBegins ==
  ASSUME NEW v, NEW files, FilesInv(v, files), NEW w, Owned(v, files, w), NEW slots,
         DOMAIN v.data = Sectors(v), NEW q, Moves(v, q), Same(v, q)
  PROVE  LET y == Realm(v, w, slots)
         IN /\ FilesInv(q, files) /\ q.dir = v.dir /\ q.dir \in DIR /\ Spares(y, q) /\ VolType(q)
            /\ \A i \in Entries : i \in slots => Ours(y, q, v.dir[i].org)
<1> DEFINE y == Realm(v, w, slots)
<1>1. Spares(y, v) /\ \A i \in Entries : i \in slots => Ours(y, v, v.dir[i].org)
  BY RealmSpares, RealmOurs
<1> HIDE DEF y
<1>2. Spares(y, q) /\ StillUsed(v, q)
  BY <1>1, SparesMoves
<1>3. \A i \in Entries : i \in slots => Ours(y, q, v.dir[i].org)
  BY <1>1, <1>2, OursStays
<1>4. FilesInv(q, files) /\ q.dir = v.dir /\ q.dir \in DIR /\ VolType(q)
  BY FilesMove DEF Moves, VolType
<1> QED
  BY <1>2, <1>3, <1>4 DEF y

(* A call that only fails after them *)
LEMMA FailResult ==
  ASSUME NEW v, NEW files, FilesInv(v, files), NEW w, Owned(v, files, w),
         DOMAIN v.data = Sectors(v), NEW q, Moves(v, q), Same(v, q)
  PROVE  Result(v, w, files, fail(q), files)
<1> DEFINE y == Realm(v, w, {})
           u == fail(q)
<1>1. FilesInv(q, files) /\ VolType(q) /\ Spares(y, q)
  BY DirBegins
<1> HIDE DEF y
<1>2. Sound(u, files) /\ Spares(y, u)
  BY <1>1, FilesFail, SparesFail DEF Sound
<1>3. 0 \in 0 .. n_rootdir
  BY FatAssumption
<1> HIDE DEF u
<1>4. Result(v, w, files, u, files)
  BY <1>2, <1>3, DirResult DEF y
<1> QED
  BY <1>4 DEF u

(* f_unlink *)
LEMMA UnlinkResult ==
  ASSUME NEW v, NEW files, FilesInv(v, files), ~v.err, NEW n \in Name, ~InUse(v, files, n),
         NEW w, Owned(v, files, w), DOMAIN v.data = Sectors(v)
  PROVE  Result(v, w, files, f_unlink(v, n), files)
<1> DEFINE u == f_unlink(v, n)
<1>1. VolType(v) /\ FilesInv(u, files)
  BY Unlink DEF FilesInv, Holds
<1>2. PICK q : /\ Moves(v, q) /\ Same(v, q)
               /\ \/ u = fail(q)
                  \/ \E i \in Entries :
                       LET t == Emptying(q, i, BLANK)
                       IN /\ ~q.err /\ q.dir[i].name = n
                          /\ u = IF t.err THEN t ELSE sync(t)
  BY <1>1, UnlinkBegins
<1> HIDE DEF u
<1>3. ASSUME NEW i \in Entries, ~q.err, q.dir[i].name = n,
             u = Emptying(q, i, BLANK) \/ u = sync(Emptying(q, i, BLANK))
      PROVE  Result(v, w, files, u, files)
  <2> DEFINE t == Emptying(q, i, BLANK)
             z == sync(t)
             y == Realm(v, w, {i})
  <2>1. /\ FilesInv(q, files) /\ q.dir = v.dir /\ q.dir \in DIR /\ Spares(y, q) /\ VolType(q)
        /\ Ours(y, q, v.dir[i].org)
    BY <1>2, DirBegins
  <2>2. y.slots = {i} /\ u \in {t, z}
    BY <1>3 DEF Realm
  <2> HIDE DEF y, t
  <2>3. Opener(files, i) = {}
    BY <1>3, <2>1, NotOpen DEF InUse
  <2>4. q.dir[i].org \notin y.keep
    BY <2>1 DEF Ours, Spares
  <2>5. Spares(y, t)
    BY <2>1, <2>2, <2>4, EntryOf, SparesEmptying DEF t
  <2>6. VolType(t) /\ t.dir = [q.dir EXCEPT ![i] = BLANK]
    BY <1>3, <2>1, <2>3, EntryOf, Emptied DEF t
  <2>7. Moves(t, z) /\ Same(t, z)
    BY <2>6, Sync, DataSync
  <2>8. Spares(y, z) /\ z.dir = t.dir
    BY <2>5, <2>7, SparesMoves DEF Moves
  <2>9. t.dir[i].org = 0
    BY <2>1, <2>6, EntryOf DEF DIR, Entries
  <2> HIDE DEF z
  <2>10. Spares(y, u) /\ u.dir[i].org = 0 /\ Ours(y, u, u.dir[i].org) /\ u.dir[i].org \notin Cluster
    BY <2>2, <2>5, <2>8, <2>9, Codes DEF Ours
  <2>11. i \in 0 .. n_rootdir
    BY FatAssumption DEF Entries
  <2> QED
    BY <1>1, <2>3, <2>10, <2>11, DirResult DEF y, Sound, u
<1>4. CASE u = fail(q)
  BY <1>2, <1>4, FailResult DEF u
<1> QED
  BY <1>2, <1>3, <1>4 DEF u

(* f_rename moves the entry of a file to another one, in two writes. *)
LEMMA SparesRename ==
  ASSUME NEW v, VolType(v), NEW i \in Entries, NEW j \in Entries, i # j, NEW m \in Name,
         NEW y, Spares(y, v), i \in y.slots, j \in y.slots
  PROVE  LET u == rename_entry(v, i, j, m)
             o == v.dir[i].org
         IN Spares(y, u) /\ StillUsed(v, u) /\ u.dir[j].org = o /\ u.dir[i].org \in {0, o}
<1> DEFINE o == v.dir[i].org
           e == entry(m, o, v.dir[i].size)
           b == set_dir(v, j, e)
           x == move_window(b, DirSect(i))
           t == set_dir(x, i, BLANK)
           z == sync(t)
           a == Renaming(v, i, j, e)
           T == a.torn \cup {{v.dir[i].name, m}}
           p == [a EXCEPT !.torn = T]
           u == rename_entry(v, i, j, m)
           Good(q) == VolType(q) /\ Spares(y, q) /\ StillUsed(v, q) /\ q.dir[j].org = o
<1>1. e \in Entry /\ e.org = o /\ v.dir \in DIR
  BY DirEntry, EntryOf DEF VolType, Entries
<1>2. u = a \/ u = p
  BY RenameIs DEF Entries
<1>3. a = IF x.err THEN x ELSE z
  BY DEF Renaming
<1> HIDE DEF o, e, u, a, T
<1>4. Good(b) /\ b.dir[i].org = o
  <2>1. SameBut(v, b) /\ b.dir = [v.dir EXCEPT ![j] = e] /\ VolType(b)
    BY <1>1, SetDir DEF SameBut, Entries
  <2>2. Spares(y, b) /\ StillUsed(v, b)
    BY SparesDir
  <2> QED
    BY <1>1, <2>1, <2>2 DEF DIR, Entries, o
<1> HIDE DEF b
<1>5. Good(x) /\ x.dir[i].org = o
  <2>1. Moves(b, x) /\ Same(b, x)
    BY <1>4, MoveWindow, DataMoveWindow
  <2>2. Spares(y, x) /\ StillUsed(b, x)
    BY <1>4, <2>1, SparesMoves
  <2> QED
    BY <1>4, <2>1, <2>2 DEF Moves, StillUsed
<1> HIDE DEF x
<1>6. Good(t) /\ t.dir[i].org = 0
  <2>1. SameBut(x, t) /\ t.dir = [x.dir EXCEPT ![i] = BLANK] /\ VolType(t)
    BY <1>5, EntryOf, SetDir DEF SameBut, Entries
  <2>2. Spares(y, t) /\ StillUsed(x, t)
    BY <1>5, SparesDir
  <2>3. x.dir \in DIR
    BY <1>5 DEF VolType
  <2> QED
    BY <1>5, <2>1, <2>2, <2>3, EntryOf DEF DIR, Entries, StillUsed
<1> HIDE DEF t
<1>7. Good(z) /\ z.dir[i].org = 0
  <2>1. Moves(t, z) /\ Same(t, z)
    BY <1>6, Sync, DataSync
  <2>2. Spares(y, z) /\ StillUsed(t, z)
    BY <1>6, <2>1, SparesMoves
  <2> QED
    BY <1>6, <2>1, <2>2 DEF Moves, StillUsed
<1> HIDE DEF z
<1>8. Good(a) /\ a.dir[i].org \in {0, o}
  BY <1>3, <1>5, <1>7
<1>9. Spares(y, p) /\ StillUsed(v, p) /\ p.dir = a.dir
  <2>1. Same(a, p) /\ p.fat = a.fat /\ p.dir = a.dir /\ p.disk = a.disk
    BY <1>8 DEF VolType, VolFields, Same
  <2> HIDE DEF p
  <2> QED
    BY <1>8, <2>1 DEF Spares, StillUsed, Same
<1> HIDE DEF p
<1>10. Spares(y, u) /\ StillUsed(v, u) /\ u.dir[j].org = o /\ u.dir[i].org \in {0, o}
  BY <1>2, <1>8, <1>9
<1> QED
  BY <1>10 DEF o, u

(* f_rename *)
LEMMA RenameResult ==
  ASSUME NEW v, NEW files, FilesInv(v, files), NEW n \in Name, NEW n1 \in Name, ~InUse(v, files, n),
         NEW w, Owned(v, files, w), DOMAIN v.data = Sectors(v)
  PROVE  Result(v, w, files, f_rename(v, n, n1), files)
<1> DEFINE u == f_rename(v, n, n1)
<1>1. VolType(v) /\ Sound(u, files)
  BY Rename DEF FilesInv, Holds
<1>2. PICK q : /\ Moves(v, q) /\ Same(v, q)
               /\ \/ u = fail(q)
                  \/ \E i, j \in Entries :
                       /\ ~q.err /\ q.dir[i].name = n /\ q.dir[j].name \in {NONE, END} /\ q.winsect = DirSect(j)
                       /\ u = rename_entry(q, i, j, n1)
  BY <1>1, RenameBegins
<1> HIDE DEF u
<1>3. ASSUME NEW i \in Entries, NEW j \in Entries, q.dir[i].name = n, q.dir[j].name \in {NONE, END},
             u = rename_entry(q, i, j, n1)
      PROVE  Result(v, w, files, u, files)
  <2> DEFINE y == Realm(v, w, {i, j})
             o == q.dir[i].org
  <2>1. /\ FilesInv(q, files) /\ q.dir = v.dir /\ q.dir \in DIR /\ Spares(y, q) /\ VolType(q)
        /\ Ours(y, q, o)
    BY <1>2, DirBegins
  <2>2. y.slots = {i, j}
    BY DEF Realm
  <2> HIDE DEF y, o
  <2>3. q.dir[j].name \notin Name /\ i # j
    BY <1>3, FatAssumption
  <2>4. Opener(files, i) = {} /\ Opener(files, j) = {}
    BY <1>3, <2>1, <2>3, NotOpen DEF InUse
  <2>5. Spares(y, u) /\ StillUsed(q, u) /\ u.dir[j].org = o /\ u.dir[i].org \in {0, o}
    BY <1>3, <2>1, <2>2, <2>3, SparesRename DEF o
  <2>6. Ours(y, u, o) /\ Ours(y, u, 0)
    BY <2>1, <2>5, OursStays, Codes DEF Ours
  <2>7. u.dir[i].org \in Cluster => two_names(u.dir)
    <3>1. u.dir[i].org \in Cluster => u.dir[i].org = o
      BY <2>5, Codes
    <3> QED
      BY <2>3, <2>5, <3>1 DEF two_names, Entries
  <2>8. \A k \in Entries : k \in {i, j} =>
          /\ Opener(files, k) = {} /\ Ours(y, u, u.dir[k].org)
          /\ u.dir[k].org \in Cluster /\ ~two_names(u.dir) => k = j
    BY <2>4, <2>5, <2>6, <2>7
  <2>9. i \in 0 .. n_rootdir /\ \A k \in Entries : k \in {i, j} /\ v.dir[k].name \in Name => k = i
    BY <2>1, <2>3, FatAssumption DEF Entries
  <2> QED
    BY <1>1, <2>5, <2>8, <2>9, DirResult DEF y, u
<1>4. CASE u = fail(q)
  BY <1>2, <1>4, FailResult DEF u
<1> QED
  BY <1>2, <1>3, <1>4 DEF u

(* Overwriting a file spares the others, and ends with an empty entry. *)
LEMMA SparesOverwrite ==
  ASSUME NEW v, NEW files, FilesInv(v, files), ~v.err, NEW i \in Entries, Opener(files, i) = {}, v.dir[i].name \in Name,
         NEW y, Spares(y, v), i \in y.slots, v.dir[i].org \notin y.keep
  PROVE  LET q == overwrite(v, i) IN Spares(y, q) /\ VolType(q) /\ q.dir[i].org = 0
<1> DEFINE e == NoChain(v.dir[i])
           c == v.dir[i].org
           t == Emptying(v, i, e)
           m == c - 1
           u == [t EXCEPT !.last = m]
           q == move_window(u, DirSect(i))
           z == overwrite(v, i)
<1>1. VolType(v) /\ v.dir \in DIR /\ c \in Nat
  BY DirEntry DEF FilesInv, Holds, VolType, Entries
<1>2. e \in Entry /\ e.org = 0 /\ e.size = 0
  BY EntryOf DEF NoChain
<1>3. z = IF c = 0 THEN t ELSE IF t.err THEN t ELSE q
  BY DEF overwrite, Emptying, then, NoChain
<1>4. VolType(z) /\ z.dir = [v.dir EXCEPT ![i] = e]
  BY Overwrite
<1> HIDE DEF e, z
<1>5. Spares(y, t) /\ VolType(t)
  BY <1>1, <1>2, SparesEmptying, Emptied
<1> HIDE DEF t
<1>6. c # 0 => m \in Nat
  BY <1>1
<1>7. Same(t, u) /\ u.fat = t.fat /\ u.dir = t.dir /\ u.disk = t.disk /\ u.torn = t.torn
  BY <1>5 DEF VolType, VolFields, Same
<1>8. DOMAIN u = VolFields /\ u.last = m /\ \A f \in VolFields \ {"last"} : u[f] = t[f]
  BY <1>5 DEF VolType, VolFields
<1> HIDE DEF u, m
<1>9. m \in Nat => VolType(u)
  <2>1. /\ u.ss = t.ss /\ u.csize = t.csize /\ u.free = t.free /\ u.faults = t.faults /\ u.fail = t.fail
        /\ u.cut = t.cut /\ u.err = t.err /\ u.wflag = t.wflag
    BY <1>8 DEF VolFields
  <2> QED
    BY <1>5, <1>7, <1>8, <2>1 DEF VolType
<1>10. Spares(y, u)
  BY <1>5, <1>7, SparesSame
<1>11. c # 0 => Spares(y, q)
  <2>1. c # 0 => Moves(u, q) /\ Same(u, q)
    BY <1>6, <1>9, MoveWindow, DataMoveWindow
  <2> HIDE DEF q
  <2> QED
    BY <1>10, <2>1, SparesMoves
<1>12. Spares(y, z)
  BY <1>3, <1>5, <1>11
<1>13. z.dir[i].org = 0
  BY <1>1, <1>2, <1>4 DEF DIR, Entries
<1> QED
  BY <1>4, <1>12, <1>13 DEF z

(* The result of f_open: volume u and, for an entry j of ours, object p *)
LEMMA OpenApart ==
  ASSUME NEW v, NEW files, FilesInv(v, files), NEW h \in Object, ~files[h].open,
         NEW j, j \in Entries => Opener(files, j) = {}, NEW y, y.slots = {j},
         NEW u, Spares(y, u), j \in Entries => Ours(y, u, u.dir[j].org), NEW p,
         p.open => j \in Entries /\ p.slot = j /\ p.org = u.dir[j].org /\ p.curr = 0 /\ p.dsect = NONE
  PROVE  Apart(y, j, files, u, [files EXCEPT ![h] = p])
<1> DEFINE g == [files EXCEPT ![h] = p]
<1>1. g[h] = p /\ \A e \in Object : e # h => g[e] = files[e]
  BY DEF FilesInv
<1> HIDE DEF g
<1>2. ASSUME NEW e \in Object, files[e].open
      PROVE  e # h /\ g[e] = files[e] /\ files[e].slot # j
  <2>1. files[e].slot \in Entries
    BY <1>2 DEF FilesInv, Opened
  <2>2. files[e].slot # j
    BY <1>2, <2>1 DEF Opener
  <2> QED
    BY <1>1, <1>2, <2>2
<1>3. \A e \in Object : files[e].open /\ files[e].slot \notin y.slots => g[e] = files[e]
  BY <1>2
<1>4. \A e \in Object : g[e].open /\ g[e].slot \notin y.slots => g[e] = files[e]
  BY <1>1
<1>5. ASSUME NEW e \in Object, g[e].open, g[e].slot \in y.slots
      PROVE  /\ Ours(y, u, g[e].org) /\ Ours(y, u, g[e].curr) /\ SectOurs(y, u, g[e].dsect)
             /\ g[e].slot = j
  <2>1. e = h /\ g[e] = p
    BY <1>1, <1>2, <1>5
  <2>2. Ours(y, u, p.org) /\ Ours(y, u, p.curr) /\ SectOurs(y, u, p.dsect)
    BY <1>5, <2>1, Codes, NoneOurs DEF Ours
  <2> QED
    BY <1>5, <2>1, <2>2
<1>6. Apart(y, j, files, u, g)
  BY <1>3, <1>4, <1>5 DEF Apart
<1> QED
  BY <1>6 DEF g

(* A new file object *)
LEMMA ObjectStarts ==
  ASSUME NEW v, NEW i, NEW flags
  PROVE  LET p == file_object(v, i, flags)
         IN p.open /\ p.slot = i /\ p.org = v.dir[i].org /\ p.curr = 0 /\ p.dsect = NONE
  BY DEF file_object, no_file

(* f_open *)
LEMMA OpenResult ==
  ASSUME NEW v, NEW files, FilesInv(v, files), ~v.err, NEW h \in Object, ~files[h].open,
         NEW n \in Name, ~InUse(v, files, n), NEW create \in {"no", "new", "always"}, NEW flags,
         NEW w, Owned(v, files, w), DOMAIN v.data = Sectors(v)
  PROVE  LET t == f_open(v, n, create, flags) IN Result(v, w, files, t.v, [files EXCEPT ![h] = t.fp])
<1> DEFINE t == f_open(v, n, create, flags)
           Fits(y, j, r) ==
             /\ Spares(y, r.v) /\ (j \in Entries => Ours(y, r.v, r.v.dir[j].org))
             /\ r.fp.open => /\ j \in Entries /\ r.fp.slot = j /\ r.fp.org = r.v.dir[j].org
                             /\ r.fp.curr = 0 /\ r.fp.dsect = NONE
<1>1. VolType(v) /\ FilesInv(t.v, [files EXCEPT ![h] = t.fp])
  <2>1. VolType(v)
    BY DEF FilesInv, Holds
  <2> QED
    BY <2>1, Open
<1>2. PICK q : Moves(v, q) /\ Same(v, q) /\ OpenEnds(q, n, flags, t)
  BY <1>1, OpenBegins
<1> HIDE DEF t
<1>3. ASSUME NEW j \in 0 .. n_rootdir, j \in Entries => Opener(files, j) = {}, Fits(Realm(v, w, {j}), j, t)
      PROVE  Result(v, w, files, t.v, [files EXCEPT ![h] = t.fp])
  <2> DEFINE y == Realm(v, w, {j})
  <2>1. y.slots = {j}
    BY DEF Realm
  <2> HIDE DEF y
  <2>2. Apart(y, j, files, t.v, [files EXCEPT ![h] = t.fp])
    BY <1>3, <2>1, OpenApart DEF y
  <2>3. \A k \in Entries : k \in {j} => k = j
    OBVIOUS
  <2> QED
    BY <1>1, <2>2, <2>3 DEF Result, Sound, y
<1>4. ASSUME NEW y, NEW j, NEW x, VolType(x), Spares(y, x), j \in Entries => Ours(y, x, x.dir[j].org)
      PROVE  Fits(y, j, OpenNone(x))
  <2>1. Spares(y, fail(x)) /\ StillUsed(x, fail(x)) /\ fail(x).dir = x.dir
    BY <1>4, SparesFail
  <2>2. OpenNone(x).v = fail(x) /\ OpenNone(x).fp = no_file(x)
    BY DEF OpenNone
  <2>3. ~OpenNone(x).fp.open
    BY <2>2, NoFile
  <2>4. j \in Entries => Ours(y, fail(x), x.dir[j].org)
    BY <1>4, <2>1, OursStays
  <2> QED
    BY <2>1, <2>2, <2>3, <2>4
<1>5. ASSUME NEW y, NEW j \in Entries, NEW z, Spares(y, z), VolType(z), z.dir[j].org = 0
      PROVE  Fits(y, j, OpenNew(z, j, flags))
  <2> DEFINE x == [z EXCEPT !.wflag = TRUE]
  <2>1. Ours(y, z, 0) /\ Ours(y, x, 0)
    BY Codes DEF Ours
  <2>2. CASE z.err
    <3>1. OpenNew(z, j, flags) = OpenNone(z)
      BY <2>2 DEF OpenNew
    <3> QED
      BY <1>4, <1>5, <2>1, <3>1
  <2>3. CASE ~z.err
    <3>1. Same(z, x) /\ x.fat = z.fat /\ x.dir = z.dir /\ x.disk = z.disk
      BY <1>5 DEF VolType, VolFields, Same
    <3>2. OpenNew(z, j, flags).v = x /\ OpenNew(z, j, flags).fp = file_object(z, j, flags \cup {"written"})
      BY <2>3 DEF OpenNew
    <3> HIDE DEF x
    <3>3. Spares(y, x)
      BY <1>5, <3>1, SparesSame
    <3> QED
      BY <1>5, <2>1, <3>1, <3>2, <3>3, ObjectStarts
  <2> QED
    BY <2>2, <2>3
<1> HIDE DEF Fits
<1>6. CASE t = OpenNone(q)
  <2>1. Spares(Realm(v, w, {0}), q) /\ VolType(q)
    BY <1>2, DirBegins
  <2>2. 0 \in 0 .. n_rootdir /\ 0 \notin Entries
    BY FatAssumption DEF Entries
  <2>3. Fits(Realm(v, w, {0}), 0, t)
    BY <1>4, <1>6, <2>1, <2>2
  <2> QED
    BY <1>3, <2>2, <2>3 DEF t
<1>7. ASSUME NEW j \in Entries, ~q.err,
             \/ q.dir[j].name = n /\ (t = OpenOld(q, j, flags) \/ t = OpenNew(overwrite(q, j), j, flags))
             \/ q.dir[j].name \in {NONE, END} /\ t = OpenNew(set_dir(q, j, entry(n, 0, 0)), j, flags)
      PROVE  Result(v, w, files, t.v, [files EXCEPT ![h] = t.fp])
  <2> DEFINE y == Realm(v, w, {j})
  <2>1. /\ FilesInv(q, files) /\ q.dir = v.dir /\ q.dir \in DIR /\ Spares(y, q) /\ VolType(q)
        /\ Ours(y, q, q.dir[j].org)
    BY <1>2, DirBegins
  <2>2. y.slots = {j}
    BY DEF Realm
  <2> HIDE DEF y
  <2>3. j \in 0 .. n_rootdir
    BY FatAssumption DEF Entries
  <2>4. Opener(files, j) = {}
    <3>1. q.dir[j].name \notin Name \/ ~InUse(q, files, q.dir[j].name)
      BY <1>7, <2>1, FatAssumption DEF InUse
    <3> QED
      BY <2>1, <3>1, NotOpen
  <2>5. ASSUME t = OpenOld(q, j, flags) PROVE Fits(y, j, t)
    <3>1. OpenOld(q, j, flags).v = q /\ OpenOld(q, j, flags).fp = file_object(q, j, flags)
      BY DEF OpenOld
    <3> QED
      BY <2>1, <2>5, <3>1, ObjectStarts DEF Fits
  <2>6. ASSUME q.dir[j].name = n, t = OpenNew(overwrite(q, j), j, flags) PROVE Fits(y, j, t)
    <3> DEFINE z == overwrite(q, j)
    <3>1. q.dir[j].org \notin y.keep
      BY <2>1 DEF Ours, Spares
    <3>2. Spares(y, z) /\ VolType(z) /\ z.dir[j].org = 0
      BY <1>7, <2>1, <2>2, <2>4, <2>6, <3>1, SparesOverwrite
    <3> HIDE DEF z
    <3>3. Fits(y, j, OpenNew(z, j, flags))
      BY <1>5, <3>2
    <3> QED
      BY <2>6, <3>3 DEF z
  <2>7. ASSUME t = OpenNew(set_dir(q, j, entry(n, 0, 0)), j, flags) PROVE Fits(y, j, t)
    <3> DEFINE e == entry(n, 0, 0)
               z == set_dir(q, j, e)
    <3>1. e \in Entry /\ e.org = 0
      BY EntryOf
    <3> HIDE DEF e
    <3>2. VolType(z) /\ z.dir = [q.dir EXCEPT ![j] = e]
      BY <2>1, <3>1, SetDir DEF SameBut, Entries
    <3>3. Spares(y, z)
      BY <2>1, <2>2, SparesDir
    <3>4. z.dir[j].org = 0
      BY <2>1, <3>1, <3>2 DEF DIR, Entries
    <3> HIDE DEF z
    <3>5. Fits(y, j, OpenNew(z, j, flags))
      BY <1>5, <3>2, <3>3, <3>4
    <3> QED
      BY <2>7, <3>5 DEF z, e
  <2>8. Fits(y, j, t)
    BY <1>7, <2>5, <2>6, <2>7
  <2> QED
    BY <1>3, <2>3, <2>4, <2>8 DEF y
<1> QED
  BY <1>2, <1>6, <1>7 DEF OpenEnds, t

(* Reading all of the FAT leaves the data alone. *)
LEMMA DataScan ==
  ASSUME NEW v, VolType(v)
  PROVE  Same(v, scan(v))
<1> DEFINE n == ((max_clust - 1) \div per_fat) + 1
           s == [v |-> v, i |-> 0]
<1>1. n \in Nat
  <2>1. max_clust - 1 \in Nat /\ per_fat \in Nat \ {0}
    BY FatAssumption
  <2> QED
    BY <2>1
<1>2. \A p : StepOf(<<"scan">>, p) = ScanNext(p)
  BY DEF StepOf, ScanNext
<1>3. scan(v) = TurnAt(<<"scan">>, n, s).v
  BY <1>2 DEF repeat, TurnAt, scan, ScanNext
<1> HIDE DEF n
<1>4. PICK f : /\ f[n] = TurnAt(<<"scan">>, n, s) /\ f[0] = s
               /\ \A k \in 0 .. n : k # n => f[k + 1] = StepOf(<<"scan">>, f[k])
  BY <1>1, LoopTurns
<1> DEFINE S == {k \in Nat : k <= n => VolType(f[k].v) /\ Same(v, f[k].v)}
<1>5. 0 \in S
  BY <1>4 DEF Same
<1>6. ASSUME NEW k \in Nat, k \in S
      PROVE  k + 1 \in S
  <2>1. CASE k + 1 <= n
    <3>1. k \in 0 .. n /\ k # n /\ k <= n
      BY <1>1, <2>1
    <3>2. Same(v, f[k].v) /\ VolType(f[k].v)
      BY <1>6, <3>1
    <3>3. f[k + 1].v = move_window(f[k].v, f[k].i)
      <4>1. f[k + 1] = StepOf(<<"scan">>, f[k])
        BY <1>4, <3>1
      <4>2. f[k + 1] = ScanNext(f[k])
        BY <1>2, <4>1
      <4> QED
        BY <4>2 DEF ScanNext
    <3>4. Same(f[k].v, f[k + 1].v) /\ VolType(f[k + 1].v)
      <4>1. Moves(f[k].v, move_window(f[k].v, f[k].i))
        BY <3>2, MoveWindow
      <4>2. Same(f[k].v, move_window(f[k].v, f[k].i))
        BY <3>2, DataMoveWindow
      <4>3. VolType(move_window(f[k].v, f[k].i))
        BY <4>1 DEF Moves
      <4> QED
        BY <3>3, <4>2, <4>3
    <3> QED
      BY <3>2, <3>4 DEF Same
  <2> QED
    BY <2>1
<1>7. Nat \subseteq S
  <2> HIDE DEF S
  <2> QED
    BY <1>5, <1>6, CountUp
<1> QED
  BY <1>1, <1>3, <1>4, <1>7

(* f_getfree *)
LEMMA GetFreeResult ==
  ASSUME NEW v, NEW files, FilesInv(v, files), NEW w, Owned(v, files, w), DOMAIN v.data = Sectors(v)
  PROVE  Result(v, w, files, f_getfree(v), files)
<1> DEFINE q == scan(v)
           m == n_free(q)
           t == [q EXCEPT !.free = m]
           u == f_getfree(v)
           y == Realm(v, w, {})
<1>1. u = v \/ u = q \/ u = t
  BY DEF f_getfree, then
<1>2. VolType(v) /\ Spares(y, v)
  BY RealmSpares DEF FilesInv, Holds
<1>3. FilesInv(u, files)
  BY GetFree
<1> HIDE DEF y, u
<1>4. Moves(v, q) /\ Same(v, q) /\ VolType(q)
  BY <1>2, ScanLoop, DataScan DEF Moves
<1> HIDE DEF q
<1>5. Spares(y, q)
  BY <1>2, <1>4, SparesMoves
<1> HIDE DEF m
<1>6. Same(q, t) /\ t.fat = q.fat /\ t.dir = q.dir /\ t.disk = q.disk /\ t.torn = q.torn
  BY <1>4 DEF VolType, VolFields, Same
<1> HIDE DEF t
<1>7. Spares(y, t)
  BY <1>5, <1>6, SparesSame
<1>8. Spares(y, u)
  BY <1>1, <1>2, <1>5, <1>7
<1>9. 0 \in 0 .. n_rootdir
  BY FatAssumption
<1>10. Result(v, w, files, u, files)
  BY <1>3, <1>8, <1>9, DirResult DEF y, Sound
<1> QED
  BY <1>10 DEF u

-----------------------------------------------------------------------------
(* What a file holds *)

(* An agreement of two FATs on a chain makes it the same chain. *)
LEMMA ChainSame ==
  ASSUME NEW f, NEW g, NEW c, \A x \in clusters(f, c) : g[x] = f[x]
  PROVE  clusters(g, c) = clusters(f, c)
<1>1. CASE c \notin Cluster
  BY <1>1, ChainIn
<1>2. CASE c \in Cluster
  <2> DEFINE C == clusters(f, c)
             D == clusters(g, c)
  <2>1. Closed(f, C, c) /\ Closed(g, D, c) /\ \A x \in C : g[x] = f[x]
    BY <1>2, ChainClosed
  <2> HIDE DEF C, D
  <2>2. Closed(g, C, c)
    BY <2>1 DEF Closed
  <2>3. D \subseteq C
    BY <2>2, ChainLeast DEF D
  <2>4. Closed(f, D, c)
    BY <2>1, <2>3 DEF Closed
  <2>5. C \subseteq D
    BY <2>4, ChainLeast DEF C
  <2> QED
    BY <2>3, <2>5 DEF C, D
<1> QED
  BY <1>1, <1>2

(* The clusters of a chain are followed one after the other. *)
LEMMA WalkTurns ==
  ASSUME NEW fat, NEW c, NEW k \in Nat
  PROVE  \E f : /\ f[k] = nth_cluster(fat, c, k) /\ f[0] = c
               /\ \A m \in 0 .. k : m # k => f[m + 1] = fat[f[m]]
<1> DEFINE loop == <<"walk", fat>>
<1>1. \A p : StepOf(loop, p) = fat[p]
  BY DEF StepOf
<1>2. nth_cluster(fat, c, k) = TurnAt(loop, k, c)
  BY <1>1 DEF nth_cluster, repeat, TurnAt
<1> HIDE DEF loop
<1>3. PICK f : /\ f[k] = TurnAt(loop, k, c) /\ f[0] = c
               /\ \A m \in 0 .. k : m # k => f[m + 1] = StepOf(loop, f[m])
  BY LoopTurns
<1> QED
  BY <1>1, <1>2, <1>3

(* As many steps as there are clusters in the chain but one stay in it:    *)
(* if it ended before, the chain would have fewer.                         *)
LEMMA WalkIn ==
  ASSUME NEW fat, NEW c \in Cluster, NEW k \in Nat, k < Cardinality(clusters(fat, c)), NEW f, f[0] = c,
         \A m \in 0 .. k : m # k => f[m + 1] = fat[f[m]]
  PROVE  \A m \in 0 .. k : f[m] \in clusters(fat, c)
<1> DEFINE C == clusters(fat, c)
           S == {m \in Nat : m <= k => \A j \in 0 .. m : f[j] \in C}
<1>1. Closed(fat, C, c)
  BY ChainClosed
<1>2. C \subseteq Cluster /\ c \in C
  BY <1>1 DEF Closed
<1>3. IsFiniteSet(C) /\ Cardinality(C) \in Nat
  <2>1. IsFiniteSet(Cluster)
    BY FatAssumption, FS_Interval DEF Cluster
  <2> HIDE DEF C
  <2> QED
    BY <1>2, <2>1, FS_Subset, FS_CardinalityType
<1>4. k < Cardinality(C)
  OBVIOUS
<1> HIDE DEF C
<1>5. 0 \in S
  BY <1>2
<1>6. ASSUME NEW m \in Nat, m \in S
      PROVE  m + 1 \in S
  <2> SUFFICES ASSUME m + 1 <= k PROVE \A j \in 0 .. m + 1 : f[j] \in C
    OBVIOUS
  <2>1. \A j \in 0 .. m : f[j] \in C
    BY <1>6
  <2>2. f[m + 1] = fat[f[m]]
    OBVIOUS
  <2>3. fat[f[m]] \in Cluster
    <3> SUFFICES ASSUME fat[f[m]] \notin Cluster PROVE FALSE
      OBVIOUS
    <3> DEFINE g == [j \in 1 .. m + 1 |-> f[j - 1]]
               T == {g[j] : j \in 1 .. m + 1}
    <3>1. \A j \in 0 .. m : j + 1 \in 1 .. m + 1 /\ g[j + 1] = f[j]
      OBVIOUS
    <3>2. \A j \in 1 .. m + 1 : j - 1 \in 0 .. m /\ g[j] = f[j - 1]
      OBVIOUS
    <3> HIDE DEF g
    <3>3. T \subseteq C
      BY <2>1, <3>2
    <3>4. c \in T
      <4>1. 0 \in 0 .. m
        OBVIOUS
      <4> QED
        BY <3>1, <4>1
    <3>5. \A x \in T : fat[x] \in Cluster => fat[x] \in T
      <4> SUFFICES ASSUME NEW j \in 1 .. m + 1, fat[g[j]] \in Cluster
                   PROVE  fat[g[j]] \in T
        OBVIOUS
      <4>1. j - 1 \in 0 .. m /\ g[j] = f[j - 1]
        BY <3>2
      <4>2. j # m + 1
        BY <4>1
      <4>3. j \in 0 .. m /\ j - 1 \in 0 .. k /\ j - 1 # k
        BY <4>2
      <4>4. f[(j - 1) + 1] = fat[f[j - 1]]
        BY <4>3
      <4>5. fat[g[j]] = f[j]
        BY <4>1, <4>4
      <4> QED
        BY <3>1, <4>3, <4>5
    <3>6. Closed(fat, T, c)
      BY <1>2, <3>3, <3>4, <3>5 DEF Closed
    <3>7. C \subseteq T
      BY <3>6, ChainLeast DEF C
    <3>8. g \in Surjection(1 .. m + 1, C)
      <4>1. g \in [1 .. m + 1 -> C]
        BY <3>3 DEF g
      <4>2. \A x \in C : \E j \in 1 .. m + 1 : g[j] = x
        BY <3>7
      <4> QED
        BY <4>1, <4>2 DEF Surjection
    <3>9. ExistsSurjection(1 .. m + 1, C)
      BY <3>8 DEF ExistsSurjection
    <3>10. Cardinality(C) <= m + 1
      BY <3>9, FS_SurjCardinalityBound
    <3> QED
      BY <1>3, <1>4, <3>10
  <2>4. f[m + 1] \in C
    <3>1. f[m] \in C
      BY <2>1
    <3> QED
      BY <1>1, <2>2, <2>3, <3>1 DEF Closed
  <2> QED
    BY <2>1, <2>4
<1>7. Nat \subseteq S
  <2> HIDE DEF S
  <2> QED
    BY <1>5, <1>6, CountUp
<1>8. \A j \in 0 .. k : f[j] \in C
  BY <1>7
<1> QED
  BY <1>8 DEF C

(* So two FATs that agree on the chain are followed alike. *)
LEMMA WalkSame ==
  ASSUME NEW fat, NEW gat, NEW c \in Cluster, NEW k \in Nat, k < Cardinality(clusters(fat, c)),
         \A x \in clusters(fat, c) : gat[x] = fat[x]
  PROVE  nth_cluster(gat, c, k) = nth_cluster(fat, c, k) /\ nth_cluster(fat, c, k) \in clusters(fat, c)
<1>1. PICK f : /\ f[k] = nth_cluster(fat, c, k) /\ f[0] = c
               /\ \A m \in 0 .. k : m # k => f[m + 1] = fat[f[m]]
  BY WalkTurns
<1>2. PICK g : /\ g[k] = nth_cluster(gat, c, k) /\ g[0] = c
               /\ \A m \in 0 .. k : m # k => g[m + 1] = gat[g[m]]
  BY WalkTurns
<1>3. \A m \in 0 .. k : f[m] \in clusters(fat, c)
  BY <1>1, WalkIn
<1> DEFINE S == {m \in Nat : m <= k => g[m] = f[m]}
<1>4. 0 \in S
  BY <1>1, <1>2
<1>5. ASSUME NEW m \in Nat, m \in S
      PROVE  m + 1 \in S
  <2> SUFFICES ASSUME m + 1 <= k PROVE g[m + 1] = f[m + 1]
    OBVIOUS
  <2>1. m \in 0 .. k /\ m # k /\ g[m] = f[m]
    BY <1>5
  <2> QED
    BY <1>1, <1>2, <1>3, <2>1
<1>6. Nat \subseteq S
  <2> HIDE DEF S
  <2> QED
    BY <1>4, <1>5, CountUp
<1>7. k \in 0 .. k /\ g[k] = f[k]
  BY <1>6
<1> QED
  BY <1>1, <1>2, <1>3, <1>7

(* The units of a file, with the buffer of object p in the place of its    *)
(* sector                                                                  *)
UnitOf(v, p, sect, n) == IF "dirty" \in p.flags /\ p.dsect = sect THEN p.buf[n] ELSE v.data[sect][n]

TextOf(v, fat, org, size, p) ==
  LET bcs == v.ss * v.csize
      at(o) == clust2sect(nth_cluster(fat, org, o \div bcs), (o \div v.ss) % v.csize)
  IN IF org \notin Cluster \cup {0} \/ size > Cardinality(clusters(fat, org)) * bcs THEN BROKEN
     ELSE [i \in 1 .. size |-> UnitOf(v, p, at(i - 1), ((i - 1) % v.ss) + 1)]

(* No buffer *)
Unbuffered == [flags |-> {}]

(* The file of entry i, with the objects files and on the medium *)
FileText(v, files, i) ==
  IF Opener(files, i) = {} THEN TextOf(v, v.fat, v.dir[i].org, v.dir[i].size, Unbuffered)
  ELSE LET p == files[CHOOSE h \in Opener(files, i) : TRUE] IN TextOf(v, v.fat, p.org, p.size, p)

MediumText(v, i) == TextOf(v, v.disk.fat, v.disk.dir[i].org, v.disk.dir[i].size, Unbuffered)

(* They are what the model says a file holds. *)
LEMMA StoredText ==
  ASSUME NEW fat, NEW e
  PROVE  /\ stored(fat, e) = TextOf(fs, fat, e.org, e.size, Unbuffered)
         /\ stored(fat, e)' = TextOf(fs', fat, e.org, e.size, Unbuffered)
<1>1. ASSUME NEW v
      PROVE  TextOf(v, fat, e.org, e.size, Unbuffered) =
               LET bcs == v.ss * v.csize
                   at(o) == clust2sect(nth_cluster(fat, e.org, o \div bcs), (o \div v.ss) % v.csize)
               IN IF e.org \notin Cluster \cup {0} \/ e.size > Cardinality(clusters(fat, e.org)) * bcs THEN BROKEN
                  ELSE [i \in 1 .. e.size |-> v.data[at(i - 1)][((i - 1) % v.ss) + 1]]
  <2> DEFINE bcs == v.ss * v.csize
             at(o) == clust2sect(nth_cluster(fat, e.org, o \div bcs), (o \div v.ss) % v.csize)
             f == [i \in 1 .. e.size |-> UnitOf(v, Unbuffered, at(i - 1), ((i - 1) % v.ss) + 1)]
             g == [i \in 1 .. e.size |-> v.data[at(i - 1)][((i - 1) % v.ss) + 1]]
  <2>1. \A sect, n : UnitOf(v, Unbuffered, sect, n) = v.data[sect][n]
    BY DEF UnitOf, Unbuffered
  <2>2. f = g
    <3> HIDE DEF at
    <3> QED
      BY <2>1
  <2> QED
    BY <2>2 DEF TextOf
<1>2. stored(fat, e) = TextOf(fs, fat, e.org, e.size, Unbuffered)
  BY <1>1 DEF stored, contents
<1>3. stored(fat, e)' = TextOf(fs', fat, e.org, e.size, Unbuffered)
  BY <1>1 DEF stored, contents
<1> QED
  BY <1>2, <1>3

(* with the buffer of an object too *)
LEMMA BufferedText ==
  ASSUME NEW p
  PROVE  /\ buffered(p) = TextOf(fs, fs.fat, p.org, p.size, p)
         /\ buffered(p)' = TextOf(fs', fs'.fat, p.org, p.size, p)
<1>1. buffered(p) = TextOf(fs, fs.fat, p.org, p.size, p)
  BY DEF buffered, contents, TextOf, UnitOf
<1>2. buffered(p)' = TextOf(fs', fs'.fat, p.org, p.size, p)
  BY DEF buffered, contents, TextOf, UnitOf
<1> QED
  BY <1>1, <1>2

(* Where a position in a file is, in clusters and in sectors *)
LEMMA PlaceIn ==
  ASSUME NEW a \in Nat, NEW b \in Nat \ {0}, NEW n \in Nat, a < n * b
  PROVE  a \div b \in Nat /\ a \div b < n
<1> DEFINE q == a \div b
<1>1. q \in Nat /\ q * b <= a
  OBVIOUS
<1> HIDE DEF q
<1>2. \A m, k, l \in Nat : m >= k => k * l <= m * l
  OBVIOUS
<1>3. q >= n => n * b <= q * b
  BY <1>1, <1>2
<1>4. q < n
  BY <1>1, <1>3
<1> QED
  BY <1>1, <1>4 DEF q

(* A file is the same in two volumes that agree on the chain and on the    *)
(* data of its clusters.                                                   *)
LEMMA TextSame ==
  ASSUME NEW v, NEW z, v.ss \in Nat \ {0}, v.csize \in 1 .. 128, z.ss = v.ss, z.csize = v.csize,
         NEW fat, NEW gat, NEW org, NEW size \in Nat, NEW p,
         \A x \in clusters(fat, org) : gat[x] = fat[x],
         \A x \in clusters(fat, org), j \in 0 .. v.csize - 1 : z.data[<<x, j>>] = v.data[<<x, j>>]
  PROVE  TextOf(z, gat, org, size, p) = TextOf(v, fat, org, size, p)
<1> DEFINE n == Cardinality(clusters(fat, org))
           bcs == v.ss * v.csize
           at(f, o) == clust2sect(nth_cluster(f, org, o \div bcs), (o \div v.ss) % v.csize)
           text(y, f) == [i \in 1 .. size |-> UnitOf(y, p, at(f, i - 1), ((i - 1) % v.ss) + 1)]
<1>1. clusters(gat, org) = clusters(fat, org)
  BY ChainSame
<1>2. TextOf(v, fat, org, size, p) = IF org \notin Cluster \cup {0} \/ size > n * bcs THEN BROKEN ELSE text(v, fat)
  BY DEF TextOf
<1>3. TextOf(z, gat, org, size, p) = IF org \notin Cluster \cup {0} \/ size > n * bcs THEN BROKEN ELSE text(z, gat)
  BY <1>1 DEF TextOf
<1>4. bcs \in Nat \ {0}
  <2>1. \A a, b \in Nat \ {0} : a * b \in Nat \ {0}
    OBVIOUS
  <2>2. v.csize \in Nat \ {0}
    OBVIOUS
  <2> QED
    BY <2>1, <2>2
<1>5. n \in Nat /\ (org \notin Cluster => n = 0)
  <2>1. clusters(fat, org) \subseteq Cluster /\ (org \notin Cluster => clusters(fat, org) = {})
    BY ChainIn
  <2>2. IsFiniteSet(Cluster)
    BY FatAssumption, FS_Interval DEF Cluster
  <2> QED
    BY <2>1, <2>2, FS_Subset, FS_CardinalityType, FS_EmptySet
<1>6. ASSUME NEW i \in 1 .. size, ~(org \notin Cluster \cup {0} \/ size > n * bcs)
      PROVE  UnitOf(z, p, at(gat, i - 1), ((i - 1) % v.ss) + 1) = UnitOf(v, p, at(fat, i - 1), ((i - 1) % v.ss) + 1)
  <2> DEFINE o == i - 1
             k == o \div bcs
             j == (o \div v.ss) % v.csize
  <2>1. o \in Nat /\ n * bcs \in Nat /\ o < n * bcs
    <3> HIDE DEF n, bcs
    <3>1. n * bcs \in Nat
      BY <1>4, <1>5
    <3> QED
      BY <1>6, <3>1
  <2>2. k \in Nat /\ k < n
    <3> HIDE DEF n, bcs, o
    <3> QED
      BY <1>4, <1>5, <2>1, PlaceIn
  <2>3. j \in 0 .. v.csize - 1
    <3> HIDE DEF o
    <3> QED
      BY <2>1
  <2>4. org \in Cluster
    BY <1>5, <2>2
  <2> HIDE DEF k, j, o
  <2>5. nth_cluster(gat, org, k) = nth_cluster(fat, org, k) /\ nth_cluster(fat, org, k) \in clusters(fat, org)
    BY <2>2, <2>4, WalkSame
  <2>6. at(gat, o) = at(fat, o) /\ z.data[at(fat, o)] = v.data[at(fat, o)]
    BY <2>3, <2>5 DEF clust2sect, k, j
  <2>7. UnitOf(z, p, at(gat, o), (o % v.ss) + 1) = UnitOf(v, p, at(fat, o), (o % v.ss) + 1)
    <3> HIDE DEF at
    <3> QED
      BY <2>6 DEF UnitOf
  <2> QED
    BY <2>7 DEF o
<1>7. ~(org \notin Cluster \cup {0} \/ size > n * bcs) => text(z, gat) = text(v, fat)
  <2> HIDE DEF at, n, bcs
  <2> QED
    BY <1>6
<1> QED
  BY <1>2, <1>3, <1>7

(* A file as the model has it, before and after a step *)
LEMMA FileAt ==
  ASSUME NEW i
  PROVE  /\ file_at(i) = FileText(fs, fil, i) /\ file_at(i)' = FileText(fs', fil', i)
         /\ on_medium(i) = MediumText(fs, i) /\ on_medium(i)' = MediumText(fs', i)
         /\ opener(i) = Opener(fil, i) /\ opener(i)' = Opener(fil', i)
<1>1. opener(i) = Opener(fil, i) /\ opener(i)' = Opener(fil', i)
  BY DEF opener, Opener
<1>2. file_at(i) = FileText(fs, fil, i)
  BY <1>1, StoredText, BufferedText DEF file_at, FileText
<1>3. file_at(i)' = FileText(fs', fil', i)
  BY <1>1, StoredText, BufferedText DEF file_at, FileText
<1>4. on_medium(i) = MediumText(fs, i)
  BY StoredText DEF on_medium, MediumText
<1>5. on_medium(i)' = MediumText(fs', i)
  BY StoredText DEF on_medium, MediumText
<1> QED
  BY <1>1, <1>2, <1>3, <1>4, <1>5

-----------------------------------------------------------------------------
(* The end of a call *)

(* A file that a call is to keep has its chain in the clusters that it is  *)
(* to keep.                                                                *)
LEMMA KeptChain ==
  ASSUME NEW v, NEW files, FilesInv(v, files), NEW w, Owned(v, files, w), NEW slots,
         NEW i \in Entries, i \notin slots
  PROVE  /\ clusters(v.fat, HeadOf(v.dir, files, i)) \subseteq Realm(v, w, slots).keep
         /\ clusters(v.fat, v.dir[i].org) \subseteq Realm(v, w, slots).keep
<1> DEFINE S == {c \in Cluster : w[c] = i /\ v.fat[c] # 0}
           o == HeadOf(v.dir, files, i)
<1>1. S \subseteq Realm(v, w, slots).keep
  BY DEF Realm
<1>2. ASSUME o \in Cluster
      PROVE  Closed(v.fat, S, o)
  <2>1. w[o] = i /\ o \in Heads(v.dir, files)
    BY <1>2 DEF Owned, Heads
  <2> HIDE DEF o
  <2>2. v.fat[o] # 0
    BY <2>1 DEF FilesInv, Holds, InOrder
  <2>3. ASSUME NEW x \in S, v.fat[x] \in Cluster
        PROVE  v.fat[x] \in S
    <3>1. w[v.fat[x]] = w[x]
      BY <2>3 DEF Owned
    <3>2. v.fat[v.fat[x]] # 0
      BY <2>3 DEF FilesInv, Holds, InOrder
    <3> QED
      BY <2>3, <3>1, <3>2
  <2> QED
    BY <1>2, <2>1, <2>2, <2>3 DEF Closed
<1>3. clusters(v.fat, o) \subseteq S
  <2> HIDE DEF S, o
  <2> QED
    BY <1>2, ChainIn, ChainLeast
<1>4. clusters(v.fat, v.dir[i].org) \subseteq S
  <2>1. v.dir[i].org \in Cluster => v.dir[i].org = o
    BY HeadDir
  <2> HIDE DEF S, o
  <2> QED
    BY <1>3, <2>1, ChainIn
<1> QED
  BY <1>1, <1>3, <1>4

(* How a call with volume u and file objects g ends: with them, or with    *)
(* what is on the medium when the power was cut.                           *)
Ends(u, g, z, e) ==
  /\ z.ss = u.ss /\ z.csize = u.csize /\ z.disk = u.disk /\ z.torn = u.torn /\ DOMAIN z.data = DOMAIN u.data
  /\ \A c \in Cluster, j \in 0 .. u.csize - 1 :
       z.fat[c] # 0 /\ <<c, j>> \in DOMAIN u.data => z.data[<<c, j>>] = u.data[<<c, j>>]
  /\ \/ z.cuts = u.cuts /\ z.fat = u.fat /\ z.dir = u.dir /\ e = g
     \/ /\ z.cuts = u.cuts + 1 /\ z.fat = u.disk.fat /\ z.dir = u.disk.dir
        /\ \A h \in Object : ~e[h].open

(* The entry and the chain of file i are on the medium. *)
BackUp(v, i) ==
  /\ v.disk.dir[i] = v.dir[i]
  /\ \A c \in clusters(v.fat, v.dir[i].org) : v.disk.fat[c] = v.fat[c]

(* File i after such an end *)
LeftAlone(v, files, z, e, i) ==
  /\ z.cuts = v.cuts =>
       /\ z.dir[i] = v.dir[i] /\ Opener(e, i) = Opener(files, i) /\ FileText(z, e, i) = FileText(v, files, i)
       /\ \A h \in Opener(files, i) : e[h] = files[h]
  /\ BackUp(v, i) => BackUp(z, i) /\ MediumText(z, i) = MediumText(v, i)

(* A file that is not the call's is left alone: for the caller, if the     *)
(* power was not cut, *)
LEMMA FileKept ==
  ASSUME NEW v, NEW files, FilesInv(v, files), NEW w, Owned(v, files, w), NEW slots, NEW own, NEW u, NEW g,
         Apart(Realm(v, w, slots), own, files, u, g), NEW z, z.ss = v.ss, z.csize = v.csize,
         z.fat = u.fat, z.dir = u.dir,
         \A c \in Realm(v, w, slots).keep, j \in 0 .. v.csize - 1 : z.data[<<c, j>>] = v.data[<<c, j>>],
         NEW i \in Entries, i \notin slots
  PROVE  /\ z.dir[i] = v.dir[i] /\ Opener(g, i) = Opener(files, i) /\ FileText(z, g, i) = FileText(v, files, i)
         /\ \A h \in Opener(files, i) : g[h] = files[h]
<1> DEFINE y == Realm(v, w, slots)
           o == HeadOf(v.dir, files, i)
<1>1. y.vol = v /\ y.slots = slots
  BY DEF Realm
<1>2. clusters(v.fat, o) \subseteq y.keep
  BY KeptChain
<1>3. Apart(y, own, files, u, g) /\ \A c \in y.keep, j \in 0 .. v.csize - 1 : z.data[<<c, j>>] = v.data[<<c, j>>]
  OBVIOUS
<1> HIDE DEF y
<1>4. v.ss \in Nat \ {0} /\ v.csize \in 1 .. 128 /\ v.dir \in DIR
  BY DEF FilesInv, Holds, VolType
<1>5. \A c \in y.keep : z.fat[c] = v.fat[c]
  BY <1>1, <1>3 DEF Apart, Spares
<1>6. z.dir[i] = v.dir[i]
  BY <1>1, <1>3 DEF Apart, Spares, Entries
<1>7. Opener(g, i) = Opener(files, i) /\ \A h \in Opener(files, i) : g[h] = files[h]
  BY <1>1, <1>3 DEF Apart, Opener
<1>8. ASSUME NEW size \in Nat, NEW p
      PROVE  TextOf(z, z.fat, o, size, p) = TextOf(v, v.fat, o, size, p)
  <2> HIDE DEF o
  <2>1. \A x \in clusters(v.fat, o) : z.fat[x] = v.fat[x]
    BY <1>2, <1>5
  <2>2. \A x \in clusters(v.fat, o), j \in 0 .. v.csize - 1 : z.data[<<x, j>>] = v.data[<<x, j>>]
    BY <1>2, <1>3
  <2> QED
    BY <1>4, <2>1, <2>2, TextSame
<1>9. FileText(z, g, i) = FileText(v, files, i)
  <2>1. CASE Opener(files, i) = {}
    <3>1. o = v.dir[i].org /\ v.dir[i].size \in Nat
      BY <1>4, <2>1, DirEntry DEF HeadOf, Entries
    <3>2. TextOf(z, z.fat, v.dir[i].org, v.dir[i].size, Unbuffered) = TextOf(v, v.fat, v.dir[i].org, v.dir[i].size, Unbuffered)
      <4> HIDE DEF o
      <4> QED
        BY <1>8, <3>1
    <3> QED
      BY <1>6, <1>7, <2>1, <3>2 DEF FileText
  <2>2. CASE Opener(files, i) # {}
    <3> DEFINE h == CHOOSE h \in Opener(files, i) : TRUE
               p == files[h]
    <3>1. h \in Opener(files, i) /\ o = p.org
      BY <2>2 DEF HeadOf
    <3>2. h \in Object /\ g[h] = p
      BY <1>7, <3>1 DEF Opener
    <3>3. p.size \in Nat
      BY <3>2 DEF FilesInv, FileType
    <3>4. FileText(v, files, i) = TextOf(v, v.fat, p.org, p.size, p)
      BY <2>2 DEF FileText
    <3>5. FileText(z, g, i) = TextOf(z, z.fat, p.org, p.size, p)
      BY <1>7, <2>2, <3>2 DEF FileText
    <3> HIDE DEF h, p, o
    <3> QED
      BY <1>8, <3>1, <3>3, <3>4, <3>5
  <2> QED
    BY <2>1, <2>2
<1> QED
  BY <1>6, <1>7, <1>9

(* and on the medium, if it was there. *)
LEMMA MediumKept ==
  ASSUME NEW v, NEW files, FilesInv(v, files), NEW w, Owned(v, files, w), NEW slots, NEW u,
         Spares(Realm(v, w, slots), u), NEW z, z.ss = v.ss, z.csize = v.csize, z.disk = u.disk,
         (z.fat = u.fat /\ z.dir = u.dir) \/ (z.fat = u.disk.fat /\ z.dir = u.disk.dir),
         \A c \in Realm(v, w, slots).keep, j \in 0 .. v.csize - 1 :
           z.fat[c] # 0 => z.data[<<c, j>>] = v.data[<<c, j>>],
         NEW i \in Entries, i \notin slots, BackUp(v, i)
  PROVE  BackUp(z, i) /\ MediumText(z, i) = MediumText(v, i)
<1> DEFINE y == Realm(v, w, slots)
           d == v.dir[i]
           C == clusters(v.fat, d.org)
<1>1. y.vol = v /\ y.slots = slots /\ \A c \in y.keep : v.fat[c] # 0
  BY DEF Realm
<1>2. C \subseteq y.keep
  BY KeptChain
<1>3. Spares(y, u) /\ \A c \in y.keep, j \in 0 .. v.csize - 1 : z.fat[c] # 0 => z.data[<<c, j>>] = v.data[<<c, j>>]
  OBVIOUS
<1> HIDE DEF y
<1>4. v.ss \in Nat \ {0} /\ v.csize \in 1 .. 128 /\ d.size \in Nat
  BY DirEntry DEF FilesInv, Holds, VolType, Entries
<1>5. v.disk.dir[i] = d /\ \A c \in C : v.disk.fat[c] = v.fat[c]
  BY DEF BackUp
<1>6. u.dir[i] = d /\ u.disk.dir[i] = d
  BY <1>1, <1>3, <1>5 DEF Spares, Entries
<1>7. \A c \in C : u.fat[c] = v.fat[c] /\ u.disk.fat[c] = v.fat[c] /\ v.fat[c] # 0
  BY <1>1, <1>2, <1>3, <1>5 DEF Spares
<1>8. z.dir[i] = d /\ z.disk.dir[i] = d /\ \A c \in C : z.fat[c] = v.fat[c] /\ z.disk.fat[c] = v.fat[c] /\ z.fat[c] # 0
  BY <1>6, <1>7
<1>9. clusters(z.fat, d.org) = C
  BY <1>8, ChainSame
<1>10. clusters(v.disk.fat, d.org) = C
  BY <1>5, ChainSame
<1>11. BackUp(z, i)
  BY <1>8, <1>9 DEF BackUp
<1>12. \A c \in C : z.disk.fat[c] = v.disk.fat[c]
  BY <1>5, <1>8
<1>13. \A c \in C, j \in 0 .. v.csize - 1 : z.data[<<c, j>>] = v.data[<<c, j>>]
  BY <1>2, <1>3, <1>8
<1>14. MediumText(v, i) = TextOf(v, v.disk.fat, d.org, d.size, Unbuffered)
  BY <1>5 DEF MediumText
<1>15. MediumText(z, i) = TextOf(z, z.disk.fat, d.org, d.size, Unbuffered)
  BY <1>8 DEF MediumText
<1> HIDE DEF C, d
<1>16. TextOf(z, z.disk.fat, d.org, d.size, Unbuffered) = TextOf(v, v.disk.fat, d.org, d.size, Unbuffered)
  BY <1>4, <1>10, <1>12, <1>13, TextSame
<1> QED
  BY <1>11, <1>14, <1>15, <1>16

(* So a call and its end leave all files alone but one at most. *)
LEMMA OthersLeftAlone ==
  ASSUME NEW v, NEW files, FilesInv(v, files), NEW w, Owned(v, files, w), v.cuts \in Nat,
         NEW u, NEW g, Result(v, w, files, u, g), NEW z, NEW e, Ends(u, g, z, e)
  PROVE  \E k \in 0 .. n_rootdir : \A i \in Entries \ {k} : v.dir[i].name \in Name => LeftAlone(v, files, z, e, i)
<1>1. PICK slots, own : /\ Apart(Realm(v, w, slots), own, files, u, g)
                        /\ \E k \in 0 .. n_rootdir : \A i \in Entries : i \in slots /\ v.dir[i].name \in Name => i = k
  BY DEF Result
<1>2. PICK k \in 0 .. n_rootdir : \A i \in Entries : i \in slots /\ v.dir[i].name \in Name => i = k
  BY <1>1
<1> DEFINE y == Realm(v, w, slots)
<1>3. y.vol = v /\ y.keep \subseteq Cluster
  BY DEF Realm
<1>4. Spares(y, u) /\ Apart(y, own, files, u, g)
  BY <1>1 DEF Apart
<1>5. z.ss = v.ss /\ z.csize = v.csize /\ u.csize = v.csize /\ u.cuts = v.cuts /\ DOMAIN u.data = Sectors(v)
      /\ \A c \in y.keep, j \in 0 .. v.csize - 1 : u.data[<<c, j>>] = v.data[<<c, j>>]
  <2> HIDE DEF y
  <2> QED
    BY <1>3, <1>4 DEF Spares, Ends
<1>6. ASSUME NEW c \in y.keep, NEW j \in 0 .. v.csize - 1, z.fat[c] # 0
      PROVE  z.data[<<c, j>>] = v.data[<<c, j>>]
  <2> HIDE DEF y
  <2>1. c \in Cluster /\ <<c, j>> \in Sectors(v)
    BY <1>3 DEF Sectors
  <2> QED
    BY <1>5, <1>6, <2>1 DEF Ends
<1>7. ASSUME NEW i \in Entries, i # k, v.dir[i].name \in Name
      PROVE  LeftAlone(v, files, z, e, i)
  <2>1. i \notin slots
    BY <1>2, <1>7
  <2>2. ASSUME z.cuts = v.cuts
        PROVE  /\ z.dir[i] = v.dir[i] /\ Opener(e, i) = Opener(files, i) /\ FileText(z, e, i) = FileText(v, files, i)
               /\ \A h \in Opener(files, i) : e[h] = files[h]
    <3>1. z.fat = u.fat /\ z.dir = u.dir /\ e = g
      BY <1>5, <2>2 DEF Ends
    <3>2. \A c \in y.keep : z.fat[c] # 0
      <4> HIDE DEF y
      <4> QED
        BY <1>3, <1>4, <3>1 DEF Spares
    <3>3. \A c \in y.keep, j \in 0 .. v.csize - 1 : z.data[<<c, j>>] = v.data[<<c, j>>]
      BY <1>6, <3>2
    <3> QED
      BY <1>1, <1>5, <2>1, <3>1, <3>3, FileKept
  <2>3. ASSUME BackUp(v, i)
        PROVE  BackUp(z, i) /\ MediumText(z, i) = MediumText(v, i)
    <3>1. z.disk = u.disk /\ ((z.fat = u.fat /\ z.dir = u.dir) \/ (z.fat = u.disk.fat /\ z.dir = u.disk.dir))
      BY DEF Ends
    <3> QED
      BY <1>4, <1>5, <1>6, <2>1, <2>3, <3>1, MediumKept
  <2> QED
    BY <2>2, <2>3 DEF LeftAlone
<1> QED
  BY <1>7

(* What a free cluster holds is all that tidy changes, *)
LEMMA TidyData ==
  ASSUME NEW v, VolType(v)
  PROVE  LET z == tidy(v)
         IN /\ z.ss = v.ss /\ z.csize = v.csize /\ z.disk = v.disk /\ z.torn = v.torn /\ DOMAIN z.data = DOMAIN v.data
            /\ z.cuts = v.cuts /\ z.fat = v.fat /\ z.dir = v.dir
            /\ \A c \in Cluster, j \in Nat :
                 v.fat[c] # 0 /\ <<c, j>> \in DOMAIN v.data => z.data[<<c, j>>] = v.data[<<c, j>>]
<1> DEFINE x == [sect \in DOMAIN v.data |-> IF v.fat[sect[1]] = 0 THEN [i \in 1 .. v.ss |-> 0] ELSE v.data[sect]]
<1>1. tidy(v) = [v EXCEPT !.data = x]
  BY DEF tidy
<1>2. DOMAIN x = DOMAIN v.data
  OBVIOUS
<1>3. ASSUME NEW c \in Cluster, NEW j \in Nat, v.fat[c] # 0, <<c, j>> \in DOMAIN v.data
      PROVE  x[<<c, j>>] = v.data[<<c, j>>]
  <2>1. <<c, j>>[1] = c
    OBVIOUS
  <2> QED
    BY <1>3, <2>1
<1> HIDE DEF x
<1>4. /\ [v EXCEPT !.data = x].data = x /\ [v EXCEPT !.data = x].ss = v.ss
      /\ [v EXCEPT !.data = x].csize = v.csize /\ [v EXCEPT !.data = x].disk = v.disk
      /\ [v EXCEPT !.data = x].cuts = v.cuts /\ [v EXCEPT !.data = x].fat = v.fat
      /\ [v EXCEPT !.data = x].dir = v.dir /\ [v EXCEPT !.data = x].torn = v.torn
  BY DEF VolType, VolFields
<1> QED
  BY <1>1, <1>2, <1>3, <1>4

(* and a call ends as said. *)
LEMMA ReturnEnds ==
  ASSUME NEW v, VolType(v), SoundDisk(v.disk, v.torn), NEW files, NEW units, return(v, files, units)
  PROVE  Ends(v, files, fs', fil')
<1>1. CASE v.fail = 0 /\ fs' = tidy([v EXCEPT !.cut = FALSE, !.err = FALSE]) /\ fil' = files
  <2> DEFINE w == [v EXCEPT !.cut = FALSE, !.err = FALSE]
  <2>1. DOMAIN w = VolFields /\ w.cut = FALSE /\ w.err = FALSE /\ \A f \in VolFields \ {"cut", "err"} : w[f] = v[f]
    BY DEF VolType, VolFields
  <2> HIDE DEF w
  <2>2. /\ w.ss = v.ss /\ w.csize = v.csize /\ w.fat = v.fat /\ w.dir = v.dir /\ w.disk = v.disk /\ w.torn = v.torn
        /\ w.last = v.last /\ w.free = v.free /\ w.faults = v.faults /\ w.fail = v.fail /\ w.wflag = v.wflag
        /\ w.data = v.data /\ w.cuts = v.cuts
    BY <2>1 DEF VolFields
  <2>3. VolType(w)
    BY <2>1, <2>2 DEF VolType
  <2>4. fs' = tidy(w)
    BY <1>1 DEF w
  <2> QED
    BY <1>1, <2>2, <2>3, <2>4, TidyData DEF Ends
<1>2. CASE v.fail < 0 /\ fs' = tidy([mount(v, v.disk) EXCEPT !.cuts = @ + 1]) /\ fil' = [h \in Object |-> no_file(v)]
  <2> DEFINE m == mount(v, v.disk)
             n == m.cuts + 1
             w == [m EXCEPT !.cuts = n]
  <2>1. VolType(m) /\ m.fat = v.disk.fat /\ m.dir = v.disk.dir /\ m.disk = v.disk /\ m.torn = v.torn
    BY Mount DEF SoundDisk
  <2>2. m.ss = v.ss /\ m.csize = v.csize /\ m.data = v.data /\ m.cuts = v.cuts
    BY DEF mount, VolType, VolFields
  <2>3. fs' = tidy(w)
    BY <1>2
  <2> HIDE DEF m
  <2>4. n = v.cuts + 1
    BY <2>2
  <2> HIDE DEF n
  <2>5. VolType(w) /\ w.fat = m.fat /\ w.dir = m.dir /\ w.disk = m.disk /\ w.torn = m.torn
    BY <2>1, SetCuts
  <2>6. w.ss = m.ss /\ w.csize = m.csize /\ w.data = m.data /\ w.cuts = n
    BY <2>1 DEF VolType, VolFields
  <2> HIDE DEF w
  <2>7. \A h \in Object : ~fil'[h].open
    BY <1>2, NoFile
  <2> QED
    BY <2>1, <2>2, <2>3, <2>4, <2>5, <2>6, <2>7, TidyData DEF Ends
<1> QED
  BY <1>1, <1>2 DEF return

(* On a sound medium every cluster of a file has its entry as an owner,    *)
(* unless two entries have one chain.                                      *)
LEMMA OwnersFound ==
  ASSUME NEW v, SoundDisk([fat |-> v.fat, dir |-> v.dir], v.torn), ~two_names(v.dir), NEW files, \A h \in Object : ~files[h].open
  PROVE  \E w : Owned(v, files, w)
<1>1. PICK R \in SUBSET Cluster : InOrder(v.fat, R) /\ HeadsIn(v.dir, R)
  <2>1. PICK R \in SUBSET Cluster : InOrder(v.fat, R) /\ HeadsShared(v.dir, R, v.torn)
    BY DEF SoundDisk
  <2>2. HeadsIn(v.dir, R)
    BY <2>1 DEF HeadsShared, HeadsIn, two_names
  <2> QED
    BY <2>1, <2>2
<1> DEFINE In(c, i) == v.dir[i].org \in Cluster /\ c \in clusters(v.fat, v.dir[i].org)
           w == [c \in Cluster |-> IF \E i \in Entries : In(c, i) THEN CHOOSE i \in Entries : In(c, i) ELSE 0]
<1>2. ASSUME NEW c, NEW i \in Entries, In(c, i), NEW j \in Entries, In(c, j)
      PROVE  i = j
  <2>1. v.dir[i].org \in R /\ v.dir[j].org \in R
    BY <1>1, <1>2 DEF HeadsIn, Entries
  <2>2. v.dir[i].org = v.dir[j].org
    BY <1>1, <1>2, <2>1, ChainsApart
  <2> QED
    BY <1>1, <1>2, <2>2 DEF HeadsIn, Entries
<1>3. ASSUME NEW c \in Cluster, v.fat[c] \in Cluster, NEW i \in Entries
      PROVE  In(c, i) <=> In(v.fat[c], i)
  <2>1. ASSUME In(c, i) PROVE In(v.fat[c], i)
    BY <1>3, <2>1, ChainClosed DEF Closed
  <2>2. ASSUME In(v.fat[c], i) PROVE In(c, i)
    <3>1. v.dir[i].org \in R
      BY <1>1, <2>2 DEF HeadsIn, Entries
    <3>2. v.fat[c] # v.dir[i].org
      BY <1>1, <1>3, <3>1 DEF InOrder
    <3>3. PICK x \in clusters(v.fat, v.dir[i].org) : v.fat[x] = v.fat[c]
      BY <2>2, <3>2, ChainFrom
    <3>4. x \in Cluster
      BY <3>3, ChainIn
    <3>5. x = c
      BY <1>1, <1>3, <3>3, <3>4 DEF InOrder
    <3> QED
      BY <2>2, <3>3, <3>5
  <2> QED
    BY <2>1, <2>2
<1>4. ASSUME NEW i \in Entries, v.dir[i].org \in Cluster
      PROVE  In(v.dir[i].org, i)
  BY <1>4, ChainClosed DEF Closed
<1> HIDE DEF In
<1>5. ASSUME NEW c \in Cluster, NEW i \in Entries, In(c, i)
      PROVE  w[c] = i
  BY <1>2, <1>5
<1>6. ASSUME NEW c \in Cluster, \A i \in Entries : ~In(c, i)
      PROVE  w[c] = 0
  BY <1>6
<1> HIDE DEF w
<1>7. ASSUME NEW c \in Cluster, v.fat[c] \in Cluster
      PROVE  w[v.fat[c]] = w[c]
  <2>1. CASE \E i \in Entries : In(c, i)
    BY <1>3, <1>5, <1>7, <2>1
  <2>2. CASE \A i \in Entries : ~In(c, i)
    BY <1>3, <1>6, <1>7, <2>2
  <2> QED
    BY <2>1, <2>2
<1>8. \A i \in Entries : HeadOf(v.dir, files, i) = v.dir[i].org
  BY DEF HeadOf, Opener
<1>9. \A i \in Entries : HeadOf(v.dir, files, i) \in Cluster => w[HeadOf(v.dir, files, i)] = i
  BY <1>4, <1>5, <1>8
<1> QED
  BY <1>7, <1>9 DEF Owned

(* So there are owners after a call and its end. *)
LEMMA OwnersEnd ==
  ASSUME NEW v, NEW files, FilesInv(v, files), NEW w, Owned(v, files, w),
         NEW u, NEW g, Result(v, w, files, u, g), SoundDisk(u.disk, u.torn), NEW z, NEW e, Ends(u, g, z, e)
  PROVE  ~two_names(z.dir) => \E n : Owned(z, e, n)
<1> SUFFICES ASSUME ~two_names(z.dir) PROVE \E n : Owned(z, e, n)
  OBVIOUS
<1>1. CASE z.fat = u.fat /\ z.dir = u.dir /\ e = g
  <2>1. PICK slots, own : Apart(Realm(v, w, slots), own, files, u, g)
    BY DEF Result
  <2> DEFINE n == NewOwner(Realm(v, w, slots), own, w)
  <2>2. Owned(u, g, n)
    BY <1>1, <2>1, OwnedAfter
  <2> HIDE DEF n
  <2>3. Owned(z, e, n)
    BY <1>1, <2>2 DEF Owned
  <2> QED
    BY <2>3
<1>2. CASE z.fat = u.disk.fat /\ z.dir = u.disk.dir /\ \A h \in Object : ~e[h].open
  <2>1. SoundDisk([fat |-> z.fat, dir |-> z.dir], z.torn)
    BY <1>2 DEF SoundDisk, Ends
  <2> QED
    BY <1>2, <2>1, OwnersFound
<1> QED
  BY <1>1, <1>2 DEF Ends

-----------------------------------------------------------------------------
(* Every step touches one file at most *)

(* The inductive invariant: SoundInv, every cluster has its sectors, and   *)
(* every cluster has an owner, unless two entries have one chain.          *)
TerritoryInv ==
  /\ SoundInv /\ DOMAIN fs.data = Sectors(fs) /\ fs.cuts \in Nat
  /\ ~two_names(fs.dir) => \E w : Owned(fs, fil, w)

(* With what a call begins: no two entries have one chain. *)
Ready == TerritoryInv /\ ~two_names(fs.dir)

(* Then there is an owner of every cluster, and FileInv holds. *)
LEMMA ReadyFiles ==
  ASSUME Ready
  PROVE  /\ FileInv /\ FilesInv(fs, fil) /\ VolType(fs) /\ SoundDisk(fs.disk, fs.torn)
         /\ DOMAIN fs.data = Sectors(fs) /\ fs.cuts \in Nat /\ \E w : Owned(fs, fil, w)
<1>1. FileInv
  BY Untorn DEF Ready, TerritoryInv, SoundInv, FileInv, Sound
<1> QED
  BY <1>1 DEF Ready, TerritoryInv, FileInv, FilesInv, Holds

(* What a call begins with *)
Begins(v) ==
  /\ FilesInv(v, fil)
  /\ v.ss = fs.ss /\ v.csize = fs.csize /\ v.data = fs.data /\ v.cuts = fs.cuts
  /\ v.fat = fs.fat /\ v.dir = fs.dir /\ v.disk = fs.disk /\ v.torn = fs.torn

(* The files are as between calls then. *)
LEMMA BeginText ==
  ASSUME NEW v, Begins(v), NEW i \in Entries
  PROVE  /\ FileText(v, fil, i) = FileText(fs, fil, i) /\ MediumText(v, i) = MediumText(fs, i)
         /\ BackUp(v, i) <=> BackUp(fs, i)
<1>1. /\ v.ss = fs.ss /\ v.csize = fs.csize /\ v.data = fs.data
      /\ v.fat = fs.fat /\ v.dir = fs.dir /\ v.disk = fs.disk /\ v.torn = fs.torn /\ FilesInv(v, fil)
  BY DEF Begins
<1>2. fs.ss \in Nat \ {0} /\ fs.csize \in 1 .. 128 /\ v.dir[i].size \in Nat /\ v.disk.dir[i].size \in Nat
  <2>1. v.dir \in DIR /\ v.disk.dir \in DIR
    BY <1>1 DEF FilesInv, Holds, VolType, SoundDisk
  <2>2. v.dir[i].size \in Nat /\ v.disk.dir[i].size \in Nat
    BY <2>1, DirEntry DEF Entries
  <2> QED
    BY <1>1, <2>2 DEF FilesInv, Holds, VolType
<1>3. ASSUME NEW fat, NEW org, NEW size \in Nat, NEW p
      PROVE  TextOf(v, fat, org, size, p) = TextOf(fs, fat, org, size, p)
  BY <1>1, <1>2, TextSame
<1>4. MediumText(v, i) = MediumText(fs, i)
  BY <1>1, <1>2, <1>3 DEF MediumText
<1>5. FileText(v, fil, i) = FileText(fs, fil, i)
  <2>1. CASE Opener(fil, i) = {}
    BY <1>1, <1>2, <1>3, <2>1 DEF FileText
  <2>2. CASE Opener(fil, i) # {}
    <3> DEFINE h == CHOOSE h \in Opener(fil, i) : TRUE
               p == fil[h]
    <3>1. h \in Opener(fil, i)
      BY <2>2
    <3>2. p.size \in Nat
      BY <1>1, <3>1 DEF FilesInv, FileType, Opener
    <3>3. FileText(v, fil, i) = TextOf(v, v.fat, p.org, p.size, p)
      BY <2>2 DEF FileText
    <3>4. FileText(fs, fil, i) = TextOf(fs, fs.fat, p.org, p.size, p)
      BY <2>2 DEF FileText
    <3> HIDE DEF p
    <3> QED
      BY <1>1, <1>3, <3>2, <3>3, <3>4
  <2> QED
    BY <2>1, <2>2
<1>6. BackUp(v, i) <=> BackUp(fs, i)
  BY <1>1 DEF BackUp
<1> QED
  BY <1>4, <1>5, <1>6

(* A call of which Result holds touches one file at most, and there are    *)
(* owners after it.                                                        *)
LEMMA CallTouches ==
  ASSUME Ready, NEW v, Begins(v), NEW u, NEW g, NEW units, return(u, g, units),
         \A w : Owned(v, fil, w) => Result(v, w, fil, u, g)
  PROVE  TerritoryInv' /\ OneTouched
<1>1. /\ v.ss = fs.ss /\ v.csize = fs.csize /\ v.data = fs.data /\ v.cuts = fs.cuts
      /\ v.fat = fs.fat /\ v.dir = fs.dir /\ v.disk = fs.disk /\ v.torn = fs.torn /\ FilesInv(v, fil)
  BY DEF Begins
<1>2. PICK w : Owned(fs, fil, w)
  BY ReadyFiles
<1>3. Owned(v, fil, w)
  BY <1>1, <1>2 DEF Owned
<1>4. Result(v, w, fil, u, g)
  BY <1>3
<1>5. Sound(u, g) /\ VolType(u) /\ SoundDisk(u.disk, u.torn)
  BY <1>4, SoundFacts DEF Result
<1>6. Ends(u, g, fs', fil')
  BY <1>5, ReturnEnds
<1>7. SoundInv'
  BY <1>5, Returned
<1>8. ~two_names(fs'.dir) => \E n : Owned(fs', fil', n)
  BY <1>1, <1>3, <1>4, <1>5, <1>6, OwnersEnd
<1>9. fs.cuts \in Nat /\ DOMAIN fs.data = Sectors(fs)
  BY ReadyFiles
<1>10. PICK slots, own : Apart(Realm(v, w, slots), own, fil, u, g)
  BY <1>4 DEF Result
<1>11. u.csize = fs.csize /\ u.cuts = fs.cuts /\ DOMAIN u.data = Sectors(fs)
  <2> DEFINE y == Realm(v, w, slots)
  <2>1. y.vol = v
    BY DEF Realm
  <2>2. Spares(y, u)
    BY <1>10 DEF Apart
  <2> HIDE DEF y
  <2> QED
    BY <1>1, <2>1, <2>2 DEF Spares, Sectors
<1>12. TerritoryInv'
  <2>1. fs'.csize = fs.csize /\ fs'.cuts \in Nat /\ DOMAIN fs'.data = Sectors(fs)
    BY <1>6, <1>9, <1>11 DEF Ends
  <2>2. DOMAIN fs'.data = Sectors(fs')
    BY <2>1 DEF Sectors
  <2> QED
    BY <1>7, <1>8, <2>1, <2>2 DEF TerritoryInv
<1>13. PICK k \in 0 .. n_rootdir :
         \A i \in Entries \ {k} : v.dir[i].name \in Name => LeftAlone(v, fil, fs', fil', i)
  BY <1>1, <1>3, <1>4, <1>6, <1>9, OthersLeftAlone
<1>14. ASSUME NEW i \in Entries, i # k, fs.dir[i].name \in Name
       PROVE  Untouched(i)
  <2>1. LeftAlone(v, fil, fs', fil', i)
    BY <1>1, <1>13, <1>14
  <2>2. FileText(v, fil, i) = FileText(fs, fil, i) /\ MediumText(v, i) = MediumText(fs, i)
        /\ (BackUp(v, i) <=> BackUp(fs, i))
    BY BeginText
  <2>3. ASSUME fs'.cuts = fs.cuts
        PROVE  /\ fs'.dir[i] = fs.dir[i] /\ opener(i)' = opener(i) /\ file_at(i)' = file_at(i)
               /\ \A h \in opener(i) : fil'[h] = fil[h]
    <3>1. /\ fs'.dir[i] = v.dir[i] /\ Opener(fil', i) = Opener(fil, i)
          /\ FileText(fs', fil', i) = FileText(v, fil, i)
          /\ \A h \in Opener(fil, i) : fil'[h] = fil[h]
      BY <1>1, <2>1, <2>3 DEF LeftAlone
    <3>2. /\ file_at(i) = FileText(fs, fil, i) /\ file_at(i)' = FileText(fs', fil', i)
          /\ opener(i) = Opener(fil, i) /\ opener(i)' = Opener(fil', i)
      BY FileAt
    <3> QED
      BY <1>1, <2>2, <3>1, <3>2
  <2>4. ASSUME written_back(i)
        PROVE  written_back(i)' /\ on_medium(i)' = on_medium(i)
    <3>1. BackUp(v, i)
      BY <2>2, <2>4 DEF written_back, BackUp
    <3>2. BackUp(fs', i) /\ MediumText(fs', i) = MediumText(v, i)
      BY <2>1, <3>1 DEF LeftAlone
    <3>3. on_medium(i) = MediumText(fs, i) /\ on_medium(i)' = MediumText(fs', i)
      BY FileAt
    <3>4. written_back(i)'
      BY <3>2 DEF written_back, BackUp
    <3> QED
      BY <2>2, <3>2, <3>3, <3>4
  <2> QED
    BY <2>3, <2>4 DEF Untouched
<1>15. OneTouched
  BY <1>14 DEF OneTouched, Entries
<1> QED
  BY <1>12, <1>15

(* A call begins so. *)
LEMMA CallBeginsSo ==
  ASSUME Ready, NEW f \in Fault
  PROVE  LET v == call(f) IN Begins(v) /\ ~v.err /\ DOMAIN v.data = Sectors(v)
<1> DEFINE v == call(f)
<1>1. VolType(fs) /\ FileInv /\ DOMAIN fs.data = Sectors(fs)
  BY ReadyFiles
<1>2. FilesInv(v, fil) /\ ~v.err
  BY <1>1, Call
<1>3. \A g \in VolFields \ {"fail", "cut", "calls", "faults"} : v[g] = fs[g]
  BY <1>1, CallBegun
<1> HIDE DEF v
<1>4. /\ v.ss = fs.ss /\ v.csize = fs.csize /\ v.data = fs.data /\ v.cuts = fs.cuts
      /\ v.fat = fs.fat /\ v.dir = fs.dir /\ v.disk = fs.disk /\ v.torn = fs.torn
  BY <1>3 DEF VolFields
<1> QED
  BY <1>1, <1>2, <1>4 DEF Begins, Sectors, v

(* A call on an open file, when it keeps away from the others *)
LEMMA FileTouches ==
  ASSUME Ready, NEW f \in Fault, NEW h \in Object, fil[h].open, NEW t,
         \A w : Owned(call(f), fil, w) => Away(Realm(call(f), w, {fil[h].slot}), t),
         NEW x, CallInv(x, t), x.k = fil[h].slot, NEW p, p = t.fp \/ ~p.open,
         FilesInv(t.v, [fil EXCEPT ![h] = p]), NEW units, return(t.v, [fil EXCEPT ![h] = p], units)
  PROVE  TerritoryInv' /\ OneTouched
<1> DEFINE v == call(f)
           g == [fil EXCEPT ![h] = p]
<1>1. Begins(v) /\ FilesInv(v, fil)
  BY CallBeginsSo DEF Begins
<1>2. \A w : Owned(v, fil, w) => Away(Realm(v, w, {fil[h].slot}), t)
  OBVIOUS
<1> HIDE DEF v
<1>3. \A w : Owned(v, fil, w) => Result(v, w, fil, t.v, g)
  BY <1>1, <1>2, FileResult
<1>4. return(t.v, g, units)
  OBVIOUS
<1> HIDE DEF g
<1> QED
  BY <1>1, <1>3, <1>4, CallTouches

(* What such a call starts with *)
LEMMA AwayOn ==
  ASSUME Ready, NEW f \in Fault, NEW h \in Object, fil[h].open
  PROVE  LET v == call(f)
             s == call_on(h, f)
             x == CallView(v, fil, h)
         IN /\ CallInv(x, s) /\ Others(x) /\ x.k = fil[h].slot /\ ~s.v.err
            /\ \A w : Owned(v, fil, w) => Away(Realm(v, w, {fil[h].slot}), s)
<1> DEFINE v == call(f)
           s == call_on(h, f)
           x == CallView(v, fil, h)
<1>1. Begins(v) /\ FilesInv(v, fil) /\ DOMAIN v.data = Sectors(v)
  BY CallBeginsSo DEF Begins
<1>2. s = CallState(v, fil[h]) /\ CallInv(x, s) /\ ~s.v.err
  BY CallOn, ReadyFiles
<1> HIDE DEF v, s
<1>3. Others(x) /\ x.k = fil[h].slot
  BY <1>1, Enter DEF CallView
<1> HIDE DEF x
<1>4. \A w : Owned(v, fil, w) => Away(Realm(v, w, {fil[h].slot}), s)
  BY <1>1, <1>2, AwayEnter
<1> QED
  BY <1>2, <1>3, <1>4 DEF v, s, x

(* Calls of f_read, f_write, f_lseek, *)
LEMMA TransferTouches ==
  ASSUME Ready, NEW f \in Fault, NEW h \in Object, NEW n \in Nat,
         read(h, n, f) \/ write(h, n, f) \/ lseek(h, n, f)
  PROVE  TerritoryInv' /\ OneTouched
<1> DEFINE v == call(f)
           s == call_on(h, f)
           x == CallView(v, fil, h)
           u == new_units(fs.calls + 1, n)
<1>1. fil[h].open /\ FileInv
  BY ReadyFiles DEF read, write, lseek
<1>2. /\ CallInv(x, s) /\ Others(x) /\ x.k = fil[h].slot /\ ~s.v.err
      /\ \A w : Owned(v, fil, w) => Away(Realm(v, w, {fil[h].slot}), s)
  BY <1>1, AwayOn
<1>3. FilesInv(v, fil) /\ s = CallState(v, fil[h])
  BY <1>1, CallOn
<1> HIDE DEF u
<1>6. Len(u) \in Nat
  BY UnitsLen DEF u
<1>4. ASSUME NEW t, t = f_read(s, n) \/ t = f_write(s, u) \/ t = f_lseek(s, n), return_on(h, t)
      PROVE  TerritoryInv' /\ OneTouched
  <2>1. \A y : Away(y, s) => Away(y, t)
    <3> HIDE DEF s, x
    <3> QED
      BY <1>2, <1>4, <1>6, AwayRead, AwayWrite, AwayLseek
  <2>2. CallInv(x, t) /\ Marked(s, t)
    <3> HIDE DEF s, x
    <3>1. CASE t = f_read(s, n)
      BY <1>2, <3>1, Read DEF Marked, SameFile
    <3>2. CASE t = f_write(s, u)
      BY <1>2, <1>6, <3>2, Write
    <3>3. CASE t = f_lseek(s, n)
      BY <1>2, <3>3, Lseek
    <3> QED
      BY <1>4, <3>1, <3>2, <3>3
  <2>3. return(t.v, [fil EXCEPT ![h] = t.fp], t.got)
    BY <1>4 DEF return_on
  <2>4. \A w : Owned(v, fil, w) => Away(Realm(v, w, {fil[h].slot}), t)
    BY <1>2, <2>1
  <2>5. FilesInv(t.v, [fil EXCEPT ![h] = t.fp])
    <3> HIDE DEF v
    <3> QED
      BY <1>1, <1>3, <2>2, FileCall DEF x
  <2> HIDE DEF x, v, s
  <2> DEFINE p == t.fp
  <2> HIDE DEF p
  <2>6. p = t.fp /\ return(t.v, [fil EXCEPT ![h] = p], t.got) /\ FilesInv(t.v, [fil EXCEPT ![h] = p])
    BY <2>3, <2>5 DEF p
  <2> QED
    BY <1>1, <1>2, <2>2, <2>4, <2>6, FileTouches DEF v
<1>5. \E t : (t = f_read(s, n) \/ t = f_write(s, u) \/ t = f_lseek(s, n)) /\ return_on(h, t)
  <2>1. CASE read(h, n, f)
    BY <2>1 DEF read
  <2>2. CASE write(h, n, f)
    BY <2>2 DEF write, u
  <2>3. CASE lseek(h, n, f)
    BY <2>3 DEF lseek
  <2> QED
    BY <2>1, <2>2, <2>3
<1> QED
  BY <1>4, <1>5

(* f_sync and f_close touch only the file of their object. *)
LEMMA SyncTouches ==
  ASSUME Ready, NEW f \in Fault, NEW h \in Object, sync_file(h, f) \/ close(h, f)
  PROVE  TerritoryInv' /\ OneTouched
<1> DEFINE v == call(f)
           s == call_on(h, f)
           x == CallView(v, fil, h)
           t == f_sync(s)
           p0 == no_file(t.v)
           q == IF t.v.err THEN t ELSE [t EXCEPT !.fp = p0]
<1>1. fil[h].open /\ FileInv
  BY ReadyFiles DEF sync_file, close
<1>2. /\ CallInv(x, s) /\ Others(x) /\ x.k = fil[h].slot /\ ~s.v.err
      /\ \A w : Owned(v, fil, w) => Away(Realm(v, w, {fil[h].slot}), s)
  BY <1>1, AwayOn
<1>3. /\ FilesInv(t.v, [fil EXCEPT ![h] = t.fp]) /\ CallType(t)
      /\ \A p : FileType(p) /\ ~p.open /\ ~t.v.err => FilesInv(t.v, [fil EXCEPT ![h] = p])
  BY <1>1, SyncEnds
<1>4. PICK z : CallInv(z, t) /\ z.k = fil[h].slot
  <2>1. SyncedTo(x, s, t)
    <3> HIDE DEF s, x
    <3> QED
      BY <1>2, SyncFile
  <2> HIDE DEF s, x, t
  <2>2. With(x, t.v.dir).k = x.k
    BY DEF With
  <2> QED
    BY <1>2, <2>1, <2>2 DEF SyncedTo
<1>5. ASSUME NEW w, Owned(v, fil, w)
      PROVE  Away(Realm(v, w, {fil[h].slot}), t)
  <2> DEFINE y == Realm(v, w, {fil[h].slot})
  <2>1. Away(y, s) /\ x.k \in y.slots
    BY <1>2, <1>5 DEF Realm
  <2> HIDE DEF y, s, x
  <2>2. Away(y, t)
    BY <1>2, <2>1, AwaySync
  <2> QED
    BY <2>2 DEF y
<1>6. \E p, units : /\ p = t.fp \/ ~p.open
                    /\ FilesInv(t.v, [fil EXCEPT ![h] = p]) /\ return(t.v, [fil EXCEPT ![h] = p], units)
  <2>1. CASE sync_file(h, f)
    <3>1. return(t.v, [fil EXCEPT ![h] = t.fp], t.got)
      BY <2>1 DEF sync_file, return_on
    <3> QED
      BY <1>3, <3>1
  <2>2. CASE close(h, f)
    <3>1. return(q.v, [fil EXCEPT ![h] = q.fp], q.got)
      BY <2>2 DEF close, return_on, and_then
    <3>2. FileType(p0) /\ ~p0.open
      BY NoFile
    <3> HIDE DEF t, p0
    <3>3. CASE t.v.err
      BY <1>3, <3>1, <3>3
    <3>4. CASE ~t.v.err
      <4>1. q.v = t.v /\ q.fp = p0
        BY <1>3, <3>4 DEF CallType, CallFields
      <4> HIDE DEF q
      <4>2. FilesInv(t.v, [fil EXCEPT ![h] = p0]) /\ return(t.v, [fil EXCEPT ![h] = p0], q.got)
        BY <1>3, <3>1, <3>2, <3>4, <4>1
      <4> QED
        BY <3>2, <4>2
    <3> QED
      BY <3>3, <3>4
  <2> QED
    BY <2>1, <2>2
<1> HIDE DEF v, s, x, t
<1> QED
  BY <1>1, <1>4, <1>5, <1>6, FileTouches DEF v

(* So do calls of f_open, *)
LEMMA OpenTouches ==
  ASSUME Ready, NEW f \in Fault, NEW h \in Object, NEW n \in Name, NEW create \in {"no", "new", "always"}, NEW flags,
         open(h, n, create, flags, f)
  PROVE  TerritoryInv' /\ OneTouched
<1> DEFINE v == call(f)
           t == f_open(v, n, create, flags)
           g == [fil EXCEPT ![h] = t.fp]
<1>1. ~fil[h].open /\ ~in_use(n) /\ return(t.v, g, t.got) /\ FileInv
  BY ReadyFiles DEF open, return_on
<1>2. Begins(v) /\ FilesInv(v, fil) /\ ~v.err /\ DOMAIN v.data = Sectors(v)
  BY CallBeginsSo DEF Begins
<1>3. ~InUse(v, fil, n)
  BY <1>1, Uses
<1>4. \A w : Owned(v, fil, w) => Result(v, w, fil, t.v, g)
  <2> HIDE DEF v
  <2> QED
    BY <1>1, <1>2, <1>3, OpenResult
<1> HIDE DEF v, t, g
<1> QED
  BY <1>1, <1>2, <1>4, CallTouches

(* f_unlink and f_rename, *)
LEMMA DirTouches ==
  ASSUME Ready, NEW f \in Fault, NEW n \in Name, NEW m \in Name,
         unlink(n, f) \/ rename(n, m, f)
  PROVE  TerritoryInv' /\ OneTouched
<1> DEFINE v == call(f)
<1>1. Begins(v) /\ FilesInv(v, fil) /\ ~v.err /\ DOMAIN v.data = Sectors(v)
  BY CallBeginsSo DEF Begins
<1>2. FileInv
  BY ReadyFiles
<1>3. CASE unlink(n, f)
  <2> DEFINE t == f_unlink(v, n)
  <2>1. ~in_use(n) /\ return(t, fil, << >>)
    BY <1>3 DEF unlink
  <2>2. ~InUse(v, fil, n)
    BY <1>2, <2>1, Uses
  <2> HIDE DEF v
  <2>3. \A w : Owned(v, fil, w) => Result(v, w, fil, t, fil)
    BY <1>1, <2>2, UnlinkResult
  <2> HIDE DEF t
  <2> QED
    BY <1>1, <2>1, <2>3, CallTouches
<1>4. CASE rename(n, m, f)
  <2> DEFINE t == f_rename(v, n, m)
  <2>1. ~in_use(n) /\ return(t, fil, << >>)
    BY <1>4 DEF rename
  <2>2. ~InUse(v, fil, n)
    BY <1>2, <2>1, Uses
  <2> HIDE DEF v
  <2>3. \A w : Owned(v, fil, w) => Result(v, w, fil, t, fil)
    BY <1>1, <2>2, RenameResult
  <2> HIDE DEF t
  <2> QED
    BY <1>1, <2>1, <2>3, CallTouches
<1> QED
  BY <1>3, <1>4

(* and of f_getfree; *)
LEMMA GetFreeTouches ==
  ASSUME Ready, NEW f \in Fault, getfree(f)
  PROVE  TerritoryInv' /\ OneTouched
<1> DEFINE v == call(f)
           t == f_getfree(v)
<1>1. Begins(v) /\ FilesInv(v, fil) /\ DOMAIN v.data = Sectors(v)
  BY CallBeginsSo DEF Begins
<1>2. return(t, fil, <<t.free>>)
  BY DEF getfree
<1> HIDE DEF v
<1>3. \A w : Owned(v, fil, w) => Result(v, w, fil, t, fil)
  BY <1>1, GetFreeResult
<1> HIDE DEF t
<1> QED
  BY <1>1, <1>2, <1>3, CallTouches

(* and a power cut between two calls touches none. *)
LEMMA RebootTouches ==
  ASSUME TerritoryInv, reboot
  PROVE  TerritoryInv' /\ OneTouched
<1> DEFINE began == call(<<1, TRUE>>)
           v == [began EXCEPT !.fail = -1]
<1>1. /\ SoundInv /\ VolType(fs) /\ SoundDisk(fs.disk, fs.torn)
      /\ DOMAIN fs.data = Sectors(fs) /\ fs.cuts \in Nat
  BY SoundFacts DEF TerritoryInv, SoundInv
<1>2. /\ DOMAIN v = VolFields /\ v.fail = -1 /\ v.cut = TRUE /\ v.faults = fs.faults + 1
      /\ \A f \in VolFields \ {"fail", "cut", "calls", "faults"} : v[f] = fs[f]
  <2>1. /\ DOMAIN began = VolFields /\ began.cut = TRUE /\ began.faults = fs.faults + 1
        /\ \A f \in VolFields \ {"fail", "cut", "calls", "faults"} : began[f] = fs[f]
    <3> DEFINE f == <<1, TRUE>>
    <3>1. f[1] = 1 /\ f[2] = TRUE
      OBVIOUS
    <3> HIDE DEF f
    <3>2. began = call(f)
      BY DEF f
    <3> HIDE DEF began
    <3> QED
      BY <1>1, <3>1, <3>2, CallBegun
  <2> HIDE DEF began
  <2>2. DOMAIN v = DOMAIN began /\ v.fail = -1 /\ \A f \in VolFields \ {"fail"} : v[f] = began[f]
    BY <2>1 DEF VolFields
  <2> QED
    BY <2>1, <2>2 DEF VolFields
<1>3. return(v, fil, << >>)
  BY DEF reboot
<1> HIDE DEF v
<1>4. /\ v.ss = fs.ss /\ v.csize = fs.csize /\ v.data = fs.data /\ v.cuts = fs.cuts
      /\ v.fat = fs.fat /\ v.dir = fs.dir /\ v.disk = fs.disk /\ v.torn = fs.torn
      /\ v.last = fs.last /\ v.free = fs.free /\ v.wflag = fs.wflag /\ v.err = fs.err
  BY <1>2 DEF VolFields
<1>5. v.faults \in Nat /\ v.faults # 0
  BY <1>1, <1>2 DEF VolType
<1>6. VolType(v)
  <2>1. v.fail \in Int /\ TRUE \in BOOLEAN
    BY <1>2
  <2>2. v.last \in Nat /\ v.free \in Int /\ v.wflag \in BOOLEAN /\ v.err \in BOOLEAN /\ v.fat \in FAT /\ v.dir \in DIR
    BY <1>1, <1>4 DEF VolType
  <2> QED
    BY <1>1, <1>2, <1>4, <1>5, <2>1, <2>2, Volume0
<1>7. Ends(v, fil, fs', fil')
  BY <1>1, <1>3, <1>4, <1>6, ReturnEnds
<1>8. /\ fs'.fat = fs.disk.fat /\ fs'.dir = fs.disk.dir /\ fs'.disk = fs.disk /\ fs'.torn = fs.torn
      /\ fs'.cuts = fs.cuts + 1 /\ \A h \in Object : ~fil'[h].open
  <2> DEFINE m == mount(v, v.disk)
             n == m.cuts + 1
             x == [m EXCEPT !.cuts = n]
  <2>1. fs' = tidy(x) /\ fil' = [h \in Object |-> no_file(v)]
    BY <1>2, <1>3 DEF return
  <2>2. VolType(m) /\ m.fat = v.disk.fat /\ m.dir = v.disk.dir /\ m.disk = v.disk /\ m.torn = v.torn
    BY <1>1, <1>4, <1>6, Mount DEF SoundDisk
  <2>3. m.cuts = v.cuts
    BY <1>6 DEF mount, VolType, VolFields
  <2> HIDE DEF m
  <2>4. n = fs.cuts + 1
    BY <1>4, <2>3
  <2> HIDE DEF n
  <2>5. VolType(x) /\ x.fat = m.fat /\ x.dir = m.dir /\ x.disk = m.disk /\ x.torn = m.torn
    BY <2>2, SetCuts
  <2>6. x.cuts = n
    BY <2>2 DEF VolType, VolFields
  <2> HIDE DEF x
  <2> QED
    BY <1>4, <2>1, <2>2, <2>4, <2>5, <2>6, TidyData, NoFile
<1>9. SoundInv'
  BY <1>1, Reboot
<1>10. fs'.ss = fs.ss /\ fs'.csize = fs.csize /\ DOMAIN fs'.data = Sectors(fs) /\ DOMAIN fs'.data = Sectors(fs')
  BY <1>1, <1>4, <1>7 DEF Ends, Sectors
<1>11. ~two_names(fs'.dir) => \E w : Owned(fs', fil', w)
  <2>1. SoundDisk([fat |-> fs'.fat, dir |-> fs'.dir], fs'.torn)
    BY <1>1, <1>8 DEF SoundDisk
  <2> QED
    BY <1>8, <2>1, OwnersFound
<1>12. TerritoryInv'
  BY <1>1, <1>8, <1>9, <1>10, <1>11 DEF TerritoryInv
<1>13. ASSUME NEW i \in Entries
       PROVE  Untouched(i)
  <2> DEFINE e == fs.disk.dir[i]
             C == clusters(fs.disk.fat, e.org)
  <2>1. PICK R \in SUBSET Cluster : InOrder(fs.disk.fat, R) /\ HeadsShared(fs.disk.dir, R, fs.torn)
    BY <1>1 DEF SoundDisk
  <2>2. \A c \in C : c \in Cluster /\ fs.disk.fat[c] # 0
    <3>1. CASE e.org \in Cluster
      <4>1. e.org \in R
        BY <2>1, <3>1 DEF HeadsShared, Entries
      <4> QED
        BY <2>1, <4>1, ChainInUse, ChainIn
    <3>2. CASE e.org \notin Cluster
      BY <3>2, ChainIn
    <3> QED
      BY <3>1, <3>2
  <2>3. e.size \in Nat
    BY <1>1, DirEntry DEF SoundDisk, Entries
  <2>4. fs.ss \in Nat \ {0} /\ fs.csize \in 1 .. 128
    BY <1>1 DEF VolType
  <2>5. ASSUME NEW c \in C, NEW j \in 0 .. fs.csize - 1
        PROVE  fs'.data[<<c, j>>] = fs.data[<<c, j>>]
    <3>1. c \in Cluster /\ fs'.fat[c] # 0
      BY <1>8, <2>2
    <3>2. <<c, j>> \in DOMAIN v.data
      BY <1>1, <1>4, <3>1 DEF Sectors
    <3> QED
      BY <1>4, <1>7, <3>1, <3>2 DEF Ends
  <2>6. MediumText(fs', i) = MediumText(fs, i)
    <3>1. fs'.disk.fat = fs.disk.fat /\ fs'.disk.dir[i] = e
      BY <1>8
    <3> DEFINE o == e.org
               n == e.size
               f == fs.disk.fat
               g == fs'.disk.fat
    <3>2. \A x \in clusters(f, o) : g[x] = f[x]
      BY <1>8
    <3>3. \A x \in clusters(f, o), j \in 0 .. fs.csize - 1 : fs'.data[<<x, j>>] = fs.data[<<x, j>>]
      BY <2>5, Zenon
    <3>4. fs'.ss = fs.ss /\ fs'.csize = fs.csize /\ n \in Nat
      BY <1>10, <2>3
    <3>5. MediumText(fs, i) = TextOf(fs, f, o, n, Unbuffered) /\ MediumText(fs', i) = TextOf(fs', g, o, n, Unbuffered)
      BY <3>1 DEF MediumText
    <3> HIDE DEF o, n, f, g
    <3>6. TextOf(fs', g, o, n, Unbuffered) = TextOf(fs, f, o, n, Unbuffered)
      BY <2>4, <3>2, <3>3, <3>4, TextSame
    <3> QED
      BY <3>5, <3>6
  <2>7. on_medium(i) = MediumText(fs, i) /\ on_medium(i)' = MediumText(fs', i)
    BY FileAt
  <2>8. written_back(i)'
    BY <1>8 DEF written_back
  <2>9. fs'.cuts # fs.cuts
    BY <1>1, <1>8
  <2> QED
    BY <2>6, <2>7, <2>8, <2>9 DEF Untouched
<1>14. 0 \in 0 .. n_rootdir
  BY FatAssumption
<1> QED
  BY <1>12, <1>13, <1>14 DEF OneTouched, Entries

(* Every step of the SDK's files touches one file at most. *)
LEMMA StdioTouches ==
  ASSUME TerritoryInv, StdioNext
  PROVE  TerritoryInv' /\ OneTouched
<1>1. StdioReboot \/ (Ready /\ StdioCall)
  BY DEF StdioNext, Ready
<1>2. CASE StdioReboot
  BY <1>2, RebootTouches DEF StdioReboot
<1> SUFFICES ASSUME Ready, StdioCall
             PROVE  TerritoryInv' /\ OneTouched
  BY <1>1, <1>2
<1>3. ASSUME NEW f \in Fault, fs_cmd(f)
      PROVE  TerritoryInv' /\ OneTouched
  <2>1. \/ \E n \in Name, m \in Name : unlink(n, f) \/ rename(n, m, f)
        \/ getfree(f)
    BY <1>3 DEF fs_cmd
  <2> QED
    BY <2>1, DirTouches, GetFreeTouches
<1>4. ASSUME NEW f \in Fault, NEW n \in Name, NEW m \in OpenMode, Kz_fopen(n, m, f)
      PROVE  TerritoryInv' /\ OneTouched
  <2> DEFINE c == conv_mode[m].create
             w == conv_mode[m].flags
  <2>1. \E h \in file_obj : open(h, n, c, w, f)
    BY <1>4, Zenon DEF Kz_fopen
  <2>2. file_obj \subseteq Object
    BY DEF file_obj
  <2>3. c \in {"no", "new", "always"}
    BY StdioAssumption DEF conv_mode
  <2> HIDE DEF c, w
  <2> QED
    BY <2>1, <2>2, <2>3, OpenTouches
<1>5. ASSUME NEW f \in Fault, NEW h \in Object, Kz_fopen_append(h, f)
      PROVE  TerritoryInv' /\ OneTouched
  <2>1. lseek(h, fil[h].size, f)
    BY <1>5 DEF Kz_fopen_append
  <2>2. fil[h].size \in Nat
    BY ReadyFiles DEF FilesInv, FileType
  <2> QED
    BY <2>1, <2>2, TransferTouches
<1>6. ASSUME NEW f \in Fault, NEW h \in Object, Kz_fclose(h, f) \/ f_sync_call(h, f)
      PROVE  TerritoryInv' /\ OneTouched
  BY <1>6, SyncTouches DEF Kz_fclose, f_sync_call
<1>7. ASSUME NEW f \in Fault, NEW h \in Object, NEW n \in Length, Kz_fread(h, n, f) \/ Kz_fwrite(h, n, f)
      PROVE  TerritoryInv' /\ OneTouched
  <2>1. n \in Nat /\ (read(h, n, f) \/ write(h, n, f))
    BY <1>7, FatAssumption DEF Kz_fread, Kz_fwrite
  <2> QED
    BY <2>1, TransferTouches
<1>8. ASSUME NEW f \in Fault, NEW h \in Object, NEW ofs \in Offset, Kz_fseek(h, ofs, f)
      PROVE  TerritoryInv' /\ OneTouched
  <2>1. ofs \in Nat /\ lseek(h, ofs, f)
    BY <1>8, FatAssumption DEF Kz_fseek
  <2> QED
    BY <2>1, TransferTouches
<1> QED
  BY <1>3, <1>4, <1>5, <1>6, <1>7, <1>8 DEF StdioCall

(* TerritoryInv holds at first: the entries own the clusters of their      *)
(* chains.                                                                 *)
LEMMA TerritoryInitially ==
  ASSUME FatInit
  PROVE  TerritoryInv
<1>1. PICK d \in Volume :
       fs = mount([ss |-> d.ss, csize |-> d.csize, data |-> d.data, faults |-> 0, torn |-> {},
                   cuts |-> 0, calls |-> 0, fat |-> 0, dir |-> 0, disk |-> 0, winsect |-> 0,
                   wflag |-> FALSE, last |-> 0, free |-> 0, fail |-> 0, cut |-> FALSE,
                   err |-> FALSE], [fat |-> d.fat, dir |-> d.dir])
  BY DEF FatInit
<1>2. /\ fs.csize = d.csize /\ fs.data = d.data /\ fs.cuts = 0 /\ fs.fat = d.fat /\ fs.dir = d.dir
      /\ fs.disk = [fat |-> d.fat, dir |-> d.dir]
  BY <1>1 DEF mount
<1>3. FileInv
  BY Initially
<1>4. DOMAIN fs.data = Sectors(fs)
  BY <1>2, VolumeAssumption DEF Sectors
<1>5. SoundDisk([fat |-> fs.fat, dir |-> fs.dir], fs.torn)
  <2>1. SoundDisk(fs.disk, fs.torn)
    BY <1>3 DEF FileInv, FilesInv, Holds
  <2> QED
    BY <1>2, <2>1
<1>6. \A h \in Object : ~fil[h].open
  BY NoFile DEF FatInit
<1>7. ~two_names(fs.dir) => \E w : Owned(fs, fil, w)
  BY <1>5, <1>6, OwnersFound
<1>8. SoundInv
  BY <1>3 DEF FileInv, SoundInv, Sound
<1> QED
  BY <1>2, <1>4, <1>7, <1>8 DEF TerritoryInv

(* A step of something else keeps it. *)
LEMMA TerritoryStutter ==
  ASSUME TerritoryInv, UNCHANGED stdiovars
  PROVE  TerritoryInv'
<1>1. fs' = fs /\ fil' = fil
  BY DEF stdiovars, fatvars
<1>2. SoundInv'
  BY StdioStutter DEF TerritoryInv
<1>4. ~two_names(fs'.dir) => \E w : Owned(fs', fil', w)
  BY <1>1 DEF TerritoryInv
<1>5. DOMAIN fs'.data = Sectors(fs') /\ fs'.cuts \in Nat
  BY <1>1 DEF TerritoryInv
<1> QED
  BY <1>2, <1>4, <1>5 DEF TerritoryInv

(* A call touches one file at most (CallsApart): whatever it does, and     *)
(* wherever a transfer fails or the power is cut, all the others hold what *)
(* they held, their objects are as they were, and those whose entry and    *)
(* chain are on the medium stay there.                                     *)
THEOREM FilesKeepApart == StdioSpec => CallsApart
<1>1. StdioInit => TerritoryInv
  BY TerritoryInitially DEF StdioInit
<1>2. TerritoryInv /\ [StdioNext]_stdiovars => TerritoryInv'
  BY StdioTouches, TerritoryStutter
<1>3. TerritoryInv /\ [StdioNext]_stdiovars => [OneTouched]_stdiovars
  BY StdioTouches
<1> QED
  BY <1>1, <1>2, <1>3, PTL DEF StdioSpec, CallsApart
=============================================================================
