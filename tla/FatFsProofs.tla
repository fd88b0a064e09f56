------------------------------ MODULE FatFsProofs ------------------------------
(***************************************************************************)
(* What the routines of FatFs do to a volume and to the file object of a   *)
(* call: the lemmas of FileProofs about one volume and one file, for every *)
(* volume and with errors and power cuts at any transfer.                  *)
(*                                                                         *)
(* A FAT is in order for a set of heads (InOrder) if no chain comes to a   *)
(* head or to a free cluster and no two come to one; then chains with      *)
(* different heads are apart (ChainsApart).  Every write to the FAT keeps  *)
(* it in order: a free cluster is marked as an end first and linked        *)
(* afterwards, a chain is freed from its head on, and only after its entry *)
(* is gone.  As this holds between any two writes, it holds of whatever    *)
(* the window takes to the medium, and so after a power cut.  A renaming   *)
(* across two sectors of the directory is the exception: between its two   *)
(* writes two entries have one chain (HeadsShared).                        *)
(*                                                                         *)
(* A call on a file sees the others as heads that it must keep off         *)
(* (CallInv).  It relies on what the call before it has left: the current  *)
(* cluster of an open file is in the chain of this file (Quiet), unless    *)
(* there has been a fault; then a cluster may be lost, but a file gets     *)
(* only clusters that are free.                                            *)
(*                                                                         *)
(* Loops are rows of states (LoopTurns), and a property of all of them     *)
(* follows by counting (CountUp).                                          *)
(***************************************************************************)
EXTENDS FatFs, FiniteSetTheorems, TLAPS

-----------------------------------------------------------------------------
(* Volumes and the window *)

(* The fields of a volume *)
VolFields == {"ss", "csize", "data", "faults", "cuts", "calls", "fat", "dir", "disk",
              "torn", "winsect", "wflag", "last", "free", "fail", "cut", "err"}

(* The directory d has the first clusters of its files in R, and each one  *)
(* once.                                                                   *)
HeadsIn(d, R) ==
  \A i \in 1 .. n_rootdir : d[i].org \in Cluster =>
    d[i].org \in R /\ \A j \in 1 .. n_rootdir : d[j].org = d[i].org => j = i

(* So has d, but for two entries whose names are in T. *)
HeadsShared(d, R, T) ==
  \A i \in 1 .. n_rootdir : d[i].org \in Cluster =>
    /\ d[i].org \in R
    /\ \A j \in 1 .. n_rootdir : d[j].org = d[i].org => j = i \/ {d[i].name, d[j].name} \in T

(* What the medium holds, at any moment: chains in order, and the files at *)
(* the head of some of them, T being the names of those that may have one  *)
(* in common. It says nothing of clusters that belong to no file.          *)
SoundDisk(k, T) ==
  /\ k.fat \in FAT /\ k.dir \in DIR
  /\ \E R \in SUBSET Cluster : InOrder(k.fat, R) /\ HeadsShared(k.dir, R, T)

(* The medium of a volume whose own directory has every chain once *)
LEMMA SoundHeads ==
  ASSUME NEW f \in FAT, NEW d \in DIR, NEW R \in SUBSET Cluster, InOrder(f, R), HeadsIn(d, R), NEW T
  PROVE  SoundDisk([fat |-> f, dir |-> d], T)
  BY DEF SoundDisk, HeadsIn, HeadsShared

(* What an entry of the directory may be *)
Entry == [name : Name, org : Nat, size : Nat] \cup {BLANK, UNUSED}

(* An entry has the name of a file, or is one of the two that have none. *)
LEMMA DirEntry ==
  ASSUME NEW d \in DIR, NEW i \in 1 .. n_rootdir
  PROVE  /\ d[i] \in Entry /\ d[i].org \in Nat /\ d[i].size \in Nat
         /\ d[i] = entry(d[i].name, d[i].org, d[i].size)
         /\ d[i].name \in Name \/ (d[i].name \in {NONE, END} /\ d[i].org = 0 /\ d[i].size = 0)
<1>1. d[i] \in Entry
  BY DEF DIR, Entry
<1>2. CASE d[i] \in [name : Name, org : Nat, size : Nat]
  BY <1>1, <1>2 DEF entry
<1>3. CASE d[i] = BLANK
  BY <1>1, <1>3 DEF BLANK, entry
<1>4. CASE d[i] = UNUSED
  BY <1>1, <1>4 DEF UNUSED, entry
<1> QED
  BY <1>1, <1>2, <1>3, <1>4 DEF Entry

(* A directory may have any entry anywhere. *)
LEMMA DirSet ==
  ASSUME NEW d \in DIR, NEW i \in 1 .. n_rootdir, NEW e \in Entry
  PROVE  [d EXCEPT ![i] = e] \in DIR
  BY DEF DIR, Entry

(* The entries that are not of a file, and the entry of a file *)
LEMMA EntryOf ==
  /\ BLANK \in Entry /\ BLANK.org = 0 /\ BLANK.size = 0 /\ BLANK.name = NONE
  /\ \A n \in Name, o \in Nat, z \in Nat :
       entry(n, o, z) \in Entry /\ entry(n, o, z).name = n /\ entry(n, o, z).org = o /\ entry(n, o, z).size = z
  BY DEF Entry, BLANK, entry

(* The type of a volume; a transfer fails, and a renaming is interrupted,  *)
(* only when there has been a fault.                                       *)
VolType(v) ==
  /\ DOMAIN v = VolFields
  /\ v.ss \in Nat \ {0} /\ v.csize \in 1 .. 128
  /\ v.fat \in FAT /\ v.dir \in DIR
  /\ v.last \in Nat /\ v.free \in Int /\ v.faults \in Nat
  /\ v.fail \in Int /\ v.cut \in BOOLEAN /\ v.err \in BOOLEAN /\ v.wflag \in BOOLEAN
  /\ v.faults = 0 => v.fail = 0 /\ v.torn = {}

(* What transfers leave alone, from v to w: the FAT and the directory that *)
(* the driver sees; the medium is as it was, or is brought up to them.     *)
Moves(v, w) ==
  /\ VolType(w)
  /\ w.ss = v.ss /\ w.csize = v.csize /\ w.fat = v.fat /\ w.dir = v.dir
  /\ w.torn = v.torn
  /\ w.disk = v.disk \/ w.disk = [fat |-> v.fat, dir |-> v.dir]
  /\ w.last = v.last /\ w.free = v.free /\ w.faults = v.faults
  /\ v.faults = 0 => w.err = v.err

(* Doing nothing is such a step. *)
LEMMA MovesRefl == ASSUME NEW v, VolType(v) PROVE Moves(v, v)
  BY DEF Moves

(* Two of them are one. *)
LEMMA MovesTrans == ASSUME NEW u, NEW v, NEW w, Moves(u, v), Moves(v, w) PROVE Moves(u, w)
  BY DEF Moves

(* One transfer, whether it succeeds, fails or cuts the power (disk_op) *)
LEMMA DiskOp == ASSUME NEW v, VolType(v) PROVE Moves(v, disk_op(v))
<1>1. CASE v.fail > 1
  <2>1. disk_op(v) = [v EXCEPT !.fail = @ - 1]
    BY <1>1 DEF disk_op, VolType
  <2>2. Moves(v, [v EXCEPT !.fail = @ - 1])
    BY <1>1 DEF VolType, VolFields, Moves
  <2> QED
    BY <2>1, <2>2
<1>2. CASE v.fail = 1
  <2>0. v.fail # 0 /\ 0 \in Int /\ -1 \in Int
    BY <1>2
  <2>1. disk_op(v) = [v EXCEPT !.fail = IF v.cut THEN -1 ELSE 0, !.err = TRUE]
    BY <1>2 DEF disk_op, VolType
  <2>2. Moves(v, [v EXCEPT !.fail = IF v.cut THEN -1 ELSE 0, !.err = TRUE])
    BY <2>0 DEF VolType, VolFields, Moves
  <2> QED
    BY <2>1, <2>2
<1>3. CASE v.fail = 0
  <2>1. disk_op(v) = v
    BY <1>3 DEF disk_op, VolType
  <2> QED
    BY <2>1, MovesRefl
<1>4. CASE v.fail < 0
  <2>0. v.fail # 0
    BY <1>4
  <2>1. disk_op(v) = [v EXCEPT !.err = TRUE]
    BY <1>4 DEF disk_op, VolType
  <2>2. Moves(v, [v EXCEPT !.err = TRUE])
    BY <2>0 DEF VolType, VolFields, Moves
  <2> QED
    BY <2>1, <2>2
<1> QED
  BY <1>1, <1>2, <1>3, <1>4 DEF VolType

(* The assignments to the window and the data that the routines make by    *)
(* themselves                                                              *)
LEMMA Updates ==
  ASSUME NEW v, VolType(v), NEW x
  PROVE /\ Moves(v, [v EXCEPT !.winsect = x])
        /\ x \in BOOLEAN => Moves(v, [v EXCEPT !.wflag = x])
        /\ Moves(v, [v EXCEPT !.wflag = FALSE, !.disk = [fat |-> v.fat, dir |-> v.dir]])
        /\ Moves(v, [v EXCEPT !.data = x])
  BY DEF VolType, VolFields, Moves

(* Writing the window back brings the medium up to what the driver sees,   *)
(* or leaves it.                                                           *)
LEMMA WriteBack == ASSUME NEW v, VolType(v) PROVE Moves(v, write_back(v))
<1> DEFINE w == disk_op(v)
           x == [w EXCEPT !.wflag = FALSE, !.disk = [fat |-> v.fat, dir |-> v.dir]]
<1>1. Moves(v, w)
  BY DiskOp
<1>2. VolType(w) /\ w.fat = v.fat /\ w.dir = v.dir
  BY <1>1 DEF Moves
<1>3. Moves(v, x)
  BY <1>1, <1>2, Updates, MovesTrans
<1>4. write_back(v) \in {v, w, x}
  BY DEF write_back, then
<1> QED
  BY <1>1, <1>3, <1>4, MovesRefl

(* Moving the window (move_window) changes nothing but it and the medium. *)
LEMMA MoveWindow == ASSUME NEW v, VolType(v), NEW s PROVE Moves(v, move_window(v, s))
<1> DEFINE w == write_back(v)
           x == disk_op(w)
           y == [x EXCEPT !.winsect = s]
<1>1. Moves(v, w) /\ VolType(w)
  BY WriteBack DEF Moves
<1>2. Moves(v, x) /\ VolType(x)
  BY <1>1, DiskOp, MovesTrans DEF Moves
<1>3. Moves(v, y)
  BY <1>2, Updates, MovesTrans
<1>4. move_window(v, s) \in {v, w, x, y}
  BY DEF move_window, then
<1> QED
  BY <1>1, <1>2, <1>3, <1>4, MovesRefl

(* So does sync. *)
LEMMA Sync == ASSUME NEW v, VolType(v) PROVE Moves(v, sync(v))
<1>1. Moves(v, write_back(v)) /\ VolType(write_back(v))
  BY WriteBack DEF Moves
<1>2. Moves(v, disk_op(write_back(v)))
  BY <1>1, DiskOp, MovesTrans
<1> QED
  BY <1>1, <1>2 DEF sync, then

(* So does reading an entry of the FAT (get_fat). *)
LEMMA ReadFat == ASSUME NEW v, VolType(v), NEW c PROVE Moves(v, read_fat(v, c))
  BY MoveWindow, MovesRefl DEF read_fat

(* When the window has been moved without an error it holds the sector. *)
LEMMA WindowAt ==
  ASSUME NEW v, VolType(v), NEW s, ~move_window(v, s).err
  PROVE  move_window(v, s).winsect = s
<1> DEFINE w == write_back(v)
           z == then(w, disk_op)
<1>1. VolType(w) /\ VolType(disk_op(w))
  BY WriteBack, DiskOp DEF Moves
<1> HIDE DEF w
<1>2. VolType(z)
  BY <1>1 DEF then
<1>3. move_window(v, s) = IF v.err \/ v.winsect = s THEN v ELSE IF z.err THEN z ELSE [z EXCEPT !.winsect = s]
  BY DEF move_window, then, z, w
<1> HIDE DEF z
<1>4. [z EXCEPT !.winsect = s].winsect = s
  BY <1>2 DEF VolType, VolFields
<1> QED
  BY <1>3, <1>4

(* When a dirty window has been written without an error the medium is     *)
(* what the driver has.                                                    *)
LEMMA SyncDone ==
  ASSUME NEW v, VolType(v), v.wflag, ~v.err, ~sync(v).err
  PROVE  sync(v).disk = [fat |-> v.fat, dir |-> v.dir]
<1> DEFINE x == disk_op(v)
           w == [x EXCEPT !.wflag = FALSE, !.disk = [fat |-> v.fat, dir |-> v.dir]]
<1>1. VolType(x) /\ x.fat = v.fat /\ x.dir = v.dir
  BY DiskOp DEF Moves
<1>2. write_back(v) = IF x.err THEN x ELSE w
  BY DEF write_back, then
<1> HIDE DEF x
<1>3. VolType(w) /\ w.disk = [fat |-> v.fat, dir |-> v.dir] /\ w.fat = v.fat /\ w.dir = v.dir
  BY <1>1 DEF VolType, VolFields
<1> HIDE DEF w
<1>4. ~write_back(v).err
  BY DEF sync, then
<1>5. sync(v) = disk_op(w)
  BY <1>2, <1>4 DEF sync, then
<1>6. Moves(w, disk_op(w))
  BY <1>3, DiskOp
<1> QED
  BY <1>3, <1>5, <1>6 DEF Moves

(* The data, the layout and the count of power cuts stay. *)
Same(v, w) == w.data = v.data /\ w.ss = v.ss /\ w.csize = v.csize /\ w.cuts = v.cuts

(* Transfers of the window leave the data alone. *)
LEMMA DataDiskOp == ASSUME NEW v, VolType(v) PROVE Same(v, disk_op(v))
  BY DEF disk_op, VolType, VolFields, Same

(* So do writing the window back, *)
LEMMA DataWriteBack == ASSUME NEW v, VolType(v) PROVE Same(v, write_back(v))
<1> DEFINE w == disk_op(v)
<1>1. VolType(w) /\ Same(v, w)
  BY DataDiskOp, DiskOp DEF Moves
<1> HIDE DEF w
<1>2. Same(w, [w EXCEPT !.wflag = FALSE, !.disk = [fat |-> v.fat, dir |-> v.dir]])
  BY <1>1 DEF VolType, VolFields, Same
<1> QED
  BY <1>1, <1>2 DEF write_back, then, w, Same

(* moving it, *)
LEMMA DataMoveWindow == ASSUME NEW v, VolType(v), NEW s PROVE Same(v, move_window(v, s))
<1> DEFINE w == write_back(v)
           z == then(w, disk_op)
<1>1. VolType(w) /\ Same(v, w)
  BY DataWriteBack, WriteBack DEF Moves
<1>2. VolType(disk_op(w)) /\ Same(w, disk_op(w))
  BY <1>1, DataDiskOp, DiskOp DEF Moves, Same
<1> HIDE DEF w
<1>3. VolType(z) /\ Same(v, z)
  BY <1>1, <1>2 DEF then, Same
<1> HIDE DEF z
<1>4. Same(z, [z EXCEPT !.winsect = s])
  BY <1>3 DEF VolType, VolFields, Same
<1>5. move_window(v, s) = IF v.err \/ v.winsect = s THEN v ELSE IF z.err THEN z ELSE [z EXCEPT !.winsect = s]
  BY DEF move_window, then, z, w
<1> QED
  BY <1>3, <1>4, <1>5 DEF Same

(* sync *)
LEMMA DataSync == ASSUME NEW v, VolType(v) PROVE Same(v, sync(v))
<1> DEFINE w == write_back(v)
<1>1. VolType(w) /\ Same(v, w)
  BY DataWriteBack, WriteBack DEF Moves
<1> QED
  BY <1>1, DataDiskOp DEF sync, then, w, Same

(* and reading an entry of the FAT. *)
LEMMA DataReadFat == ASSUME NEW v, VolType(v), NEW c PROVE Same(v, read_fat(v, c))
  BY DataMoveWindow DEF read_fat, Same

(* The invariant of a volume: R are the heads of its chains, those of the  *)
(* files in its directory among them, and the medium is sound.             *)
Holds(v, R) ==
  /\ VolType(v)
  /\ InOrder(v.fat, R) /\ HeadsIn(v.dir, R) /\ R \subseteq Cluster
  /\ SoundDisk(v.disk, v.torn)

(* Transfers keep it: what the window writes is a FAT and a directory for  *)
(* which it holds. This is why the medium stays sound.                     *)
LEMMA HoldsMoves == ASSUME NEW v, NEW w, NEW R, Holds(v, R), Moves(v, w) PROVE Holds(w, R)
<1>1. SoundDisk([fat |-> v.fat, dir |-> v.dir], v.torn)
  BY SoundHeads DEF Holds, VolType
<1> QED
  BY <1>1 DEF Holds, Moves

-----------------------------------------------------------------------------
(* Chains *)

(* S has c, and with a cluster the next one. *)
Closed(fat, S, c) == S \subseteq Cluster /\ c \in S /\ \A x \in S : fat[x] \in Cluster => fat[x] \in S

(* The chain from c is such a set, *)
LEMMA ChainClosed ==
  ASSUME NEW f, NEW c \in Cluster
  PROVE  Closed(f, clusters(f, c), c)
  BY DEF Closed, clusters

(* and is in every other one. *)
LEMMA ChainLeast ==
  ASSUME NEW f, NEW c, NEW S, Closed(f, S, c)
  PROVE  clusters(f, c) \subseteq S
  BY DEF Closed, clusters

(* A chain is made of clusters, and a number that is none has an empty     *)
(* chain.                                                                  *)
LEMMA ChainIn == ASSUME NEW f, NEW c PROVE clusters(f, c) \subseteq Cluster /\ (c \notin Cluster => clusters(f, c) = {})
  BY DEF clusters

(* Every cluster of a chain is in use. *)
LEMMA ChainInUse ==
  ASSUME NEW f, NEW R \in SUBSET Cluster, InOrder(f, R), NEW r \in R, NEW x \in clusters(f, r)
  PROVE  f[x] # 0
<1> DEFINE S == {y \in Cluster : f[y] # 0}
<1>1. Closed(f, S, r)
  BY DEF Closed, InOrder
<1> QED
  BY <1>1, ChainLeast

(* Every cluster of a chain but the first is the next one of another. *)
LEMMA ChainFrom ==
  ASSUME NEW f, NEW c \in Cluster, NEW y \in clusters(f, c), y # c
  PROVE  \E z \in clusters(f, c) : f[z] = y
<1> DEFINE S == {c} \cup {x \in clusters(f, c) : \E z \in clusters(f, c) : f[z] = x}
<1>1. Closed(f, S, c)
  BY ChainClosed, ChainIn DEF Closed
<1> QED
  BY <1>1, ChainLeast

(* Chains with different heads have no cluster in common. *)
LEMMA ChainsApart ==
  ASSUME NEW f, NEW R \in SUBSET Cluster, InOrder(f, R), NEW q \in R, NEW r \in R, q # r
  PROVE  clusters(f, r) \cap clusters(f, q) = {}
<1> DEFINE S == clusters(f, r) \ clusters(f, q)
<1>1. r \notin clusters(f, q)
  <2>1. Closed(f, clusters(f, q) \ {r}, q)
    BY ChainClosed, ChainIn DEF Closed, InOrder
  <2> QED
    BY <2>1, ChainLeast
<1>2. ASSUME NEW x \in S, f[x] \in Cluster, f[x] \in clusters(f, q)
      PROVE  FALSE
  <2>1. x \in Cluster /\ f[x] # q
    BY <1>2, ChainIn DEF InOrder
  <2>2. PICK z \in clusters(f, q) : f[z] = f[x]
    BY <2>1, <1>2, ChainFrom
  <2>3. z \in Cluster /\ z = x
    BY <2>1, <2>2, <1>2, ChainIn DEF InOrder
  <2> QED
    BY <2>3
<1>3. Closed(f, S, r)
  BY <1>1, <1>2, ChainClosed, ChainIn DEF Closed
<1> QED
  BY <1>3, ChainLeast

(* The chains of R lose no cluster from the FAT f to g. *)
GrowOn(f, g, R) == \A r \in R : clusters(f, r) \subseteq clusters(g, r)

(* A FAT in order for some heads is in order for fewer. *)
LEMMA OrderLess ==
  ASSUME NEW f, NEW R, NEW Q \in SUBSET R, InOrder(f, R)
  PROVE  InOrder(f, Q)
  BY DEF InOrder

(* Marking a free cluster as the end of a chain makes it the head of a new *)
(* one, and loses none of the others.                                      *)
LEMMA OrderMark ==
  ASSUME NEW f \in FAT, NEW R \in SUBSET Cluster, InOrder(f, R), NEW n \in Cluster, f[n] = 0
  PROVE  LET g == [f EXCEPT ![n] = EOC]
         IN /\ n \notin R /\ g \in FAT /\ InOrder(g, R \cup {n})
            /\ Covered(f, R) => Covered(g, R \cup {n})
            /\ \A S : GrowOn(f, g, S)
<1> DEFINE g == [f EXCEPT ![n] = EOC]
<1>1. EOC \notin Cluster /\ 0 \notin Cluster /\ EOC # 0
  BY FatAssumption DEF EOC, Cluster
<1>2. g \in FAT /\ (\A x \in Cluster : g[x] = IF x = n THEN EOC ELSE f[x])
  BY DEF FAT
<1>3. n \notin R /\ InOrder(g, R \cup {n})
  BY <1>1, <1>2 DEF InOrder
<1>4. ASSUME NEW r PROVE clusters(f, r) \subseteq clusters(g, r)
  <2>1. CASE r \in Cluster
    <3>1. Closed(f, clusters(g, r), r)
      BY <2>1, <1>1, <1>2, ChainClosed, ChainIn DEF Closed
    <3> QED
      BY <3>1, ChainLeast
  <2> QED
    BY <2>1, ChainIn
<1>5. ASSUME Covered(f, R) PROVE Covered(g, R \cup {n})
  BY <1>2, <1>4, <1>5, ChainClosed DEF Covered, Closed
<1> QED
  BY <1>2, <1>3, <1>4, <1>5 DEF GrowOn

(* Linking c to a head n leaves the FAT in order, without that head. *)
LEMMA OrderLink ==
  ASSUME NEW f \in FAT, NEW R \in SUBSET Cluster, NEW n \in Cluster, NEW c \in Cluster,
         InOrder(f, R \cup {n})
  PROVE  LET g == [f EXCEPT ![c] = n] IN g \in FAT /\ (n \notin R => InOrder(g, R))
<1> DEFINE g == [f EXCEPT ![c] = n]
<1>1. g \in FAT /\ (\A x \in Cluster : g[x] = IF x = c THEN n ELSE f[x])
  BY DEF FAT
<1>2. 0 \notin Cluster
  BY DEF Cluster
<1> QED
  BY <1>1, <1>2 DEF InOrder

(* When c was the last cluster of the chain of r, the chain of r has taken *)
(* in that of n, and the clusters in use are covered as before.            *)
LEMMA LinkCovers ==
  ASSUME NEW f \in FAT, NEW R \in SUBSET Cluster, NEW n \in Cluster, NEW r \in R, NEW c \in clusters(f, r),
         InOrder(f, R \cup {n}), n \notin R, Covered(f, R \cup {n}), f[c] \notin Cluster, f[n] = EOC
  PROVE  LET g == [f EXCEPT ![c] = n]
         IN Covered(g, R) /\ n \in clusters(g, r) /\ \A S : GrowOn(f, g, S)
<1> DEFINE g == [f EXCEPT ![c] = n]
<1>1. c \in Cluster /\ r \in Cluster /\ EOC \notin Cluster
  BY ChainIn, FatAssumption DEF EOC, Cluster
<1>2. g \in FAT /\ (\A x \in Cluster : g[x] = IF x = c THEN n ELSE f[x])
  BY <1>1 DEF FAT
<1>4. ASSUME NEW q PROVE clusters(f, q) \subseteq clusters(g, q)
  <2>1. CASE q \in Cluster
    <3>1. Closed(f, clusters(g, q), q)
      BY <2>1, <1>1, <1>2, ChainClosed, ChainIn DEF Closed
    <3> QED
      BY <3>1, ChainLeast
  <2> QED
    BY <2>1, ChainIn
<1>5. n \in clusters(g, r)
  BY <1>1, <1>2, <1>4, ChainClosed DEF Closed
<1>6. clusters(f, n) = {n}
  <2>1. Closed(f, {n}, n)
    BY <1>1 DEF Closed
  <2> QED
    BY <2>1, ChainLeast, ChainClosed DEF Closed
<1>7. f[c] # 0
  <2>1. r \in R \cup {n} /\ R \cup {n} \in SUBSET Cluster
    OBVIOUS
  <2> QED
    BY <2>1, ChainInUse
<1>8. ASSUME NEW y \in Cluster, g[y] # 0
      PROVE  \E q \in R : y \in clusters(g, q)
  <2>1. f[y] # 0
    BY <1>2, <1>7, <1>8
  <2>2. PICK q \in R \cup {n} : y \in clusters(f, q)
    BY <2>1 DEF Covered
  <2> QED
    BY <2>2, <1>4, <1>5, <1>6
<1> QED
  BY <1>4, <1>5, <1>8 DEF Covered, GrowOn

(* Freeing the head c of a chain makes the next cluster a head; the other  *)
(* chains keep all they have.                                              *)
LEMMA OrderFree ==
  ASSUME NEW f \in FAT, NEW R \in SUBSET Cluster, NEW c \in Cluster, c \notin R,
         InOrder(f, R \cup {c})
  PROVE  LET g == [f EXCEPT ![c] = 0]
             Q == R \cup ({f[c]} \cap Cluster)
         IN /\ g \in FAT /\ InOrder(g, Q) /\ f[c] \notin R /\ f[c] # 0
            /\ Covered(f, R \cup {c}) => Covered(g, Q)
            /\ GrowOn(f, g, R)
<1> DEFINE g == [f EXCEPT ![c] = 0]
           Q == R \cup ({f[c]} \cap Cluster)
<1>1. 0 \notin Cluster
  BY DEF Cluster
<1>2. g \in FAT /\ (\A x \in Cluster : g[x] = IF x = c THEN 0 ELSE f[x])
  BY DEF FAT
<1>3. f[c] # 0 /\ f[c] # c /\ f[c] \notin R
  BY DEF InOrder
<1>4. InOrder(g, Q)
  BY <1>1, <1>2, <1>3 DEF InOrder
<1>5. ASSUME NEW r \in R PROVE clusters(f, r) \subseteq clusters(g, r)
  <2> DEFINE S == clusters(f, r) \cap clusters(g, r)
  <2>1. c \notin clusters(f, r)
    <3>1. c \in clusters(f, c)
      BY ChainClosed DEF Closed
    <3>2. R \cup {c} \in SUBSET Cluster /\ r \in R \cup {c} /\ c \in R \cup {c} /\ r # c
      OBVIOUS
    <3>3. clusters(f, r) \cap clusters(f, c) = {}
      BY <3>2, ChainsApart
    <3> QED
      BY <3>1, <3>3
  <2>2. Closed(f, S, r)
    BY <2>1, <1>2, ChainClosed, ChainIn DEF Closed
  <2> QED
    BY <2>2, ChainLeast
<1>6. ASSUME NEW y \in clusters(f, c), y # c
      PROVE  f[c] \in Cluster /\ y \in clusters(g, f[c])
  <2> DEFINE S == {c} \cup (IF f[c] \in Cluster THEN clusters(f, c) \cap clusters(g, f[c]) ELSE {})
  <2>1. Closed(f, S, c)
    BY <1>2, <1>3, ChainClosed, ChainIn DEF Closed
  <2>2. y \in S
    BY <2>1, ChainLeast
  <2> QED
    BY <2>2, <1>6
<1>7. ASSUME Covered(f, R \cup {c}), NEW y \in Cluster, g[y] # 0
      PROVE  \E q \in Q : y \in clusters(g, q)
  <2>1. f[y] # 0 /\ y # c
    BY <1>2, <1>7
  <2>2. PICK q \in R \cup {c} : y \in clusters(f, q)
    BY <2>1, <1>7 DEF Covered
  <2> QED
    BY <2>1, <2>2, <1>5, <1>6
<1> QED
  BY <1>2, <1>3, <1>4, <1>5, <1>7 DEF Covered, GrowOn

(* Chains that lose nothing in two steps lose nothing. *)
LEMMA GrowTrans == ASSUME NEW f, NEW g, NEW h, NEW R, GrowOn(f, g, R), GrowOn(g, h, R) PROVE GrowOn(f, h, R)
  BY DEF GrowOn

-----------------------------------------------------------------------------
(* Loops *)

(* The bodies of the loops, told apart by a name, so that a loop is a      *)
(* function of its turns and one lemma serves them all                     *)
StepOf(loop, p) ==
  CASE loop[1] = "remove" -> remove_next(p)
    [] loop[1] = "find" -> find_next(p, loop[2])
    [] loop[1] = "read" -> read_next(p)
    [] loop[1] = "write" -> write_next(p, loop[2])
    [] loop[1] = "follow" -> follow_next(p)
    [] loop[1] = "scan" -> [v |-> move_window(p.v, p.i), i |-> p.i + 1]
    [] loop[1] = "search" -> dir_next(p, loop[2])
    [] loop[1] = "walk" -> loop[2][p]

(* A set of naturals that is not empty has a least element. *)
LEMMA LeastNatural ==
  ASSUME NEW S, S \subseteq Nat, S # {}
  PROVE  \E m \in S : \A n \in S : m <= n
<1> DEFINE T == {1 .. n : n \in S}
           R == StrictSubsetOrdering(Nat)
<1>1. T \subseteq FiniteSubsetsOf(Nat)
  BY FS_Interval DEF FiniteSubsetsOf
<1>2. T # {}
  OBVIOUS
<1>3. \E x \in T : \A y \in T : ~(<<y, x>> \in R)
  BY <1>1, <1>2, FS_StrictSubsetOrderingWellFounded, WFMin
<1>4. PICK m \in S : \A n \in S : ~(<<1 .. n, 1 .. m>> \in R)
  BY <1>3
<1>5. ASSUME NEW n \in S, n < m
      PROVE  <<1 .. n, 1 .. m>> \in R
  <2>1. n \in Nat /\ m \in Nat
    OBVIOUS
  <2>2. 1 .. n \subseteq 1 .. m /\ m \in 1 .. m /\ ~(m \in 1 .. n)
    BY <2>1, <1>5
  <2>3. 1 .. n \in SUBSET Nat /\ 1 .. m \in SUBSET Nat
    BY <2>1
  <2> QED
    BY <2>2, <2>3 DEF StrictSubsetOrdering
<1>6. ASSUME NEW n \in S
      PROVE  m <= n
  <2>1. ~(n < m)
    BY <1>4, <1>5
  <2> QED
    BY <2>1
<1> QED
  BY <1>6

(* Counting: a set that has 0, and with k also k + 1, has every natural. *)
LEMMA CountUp ==
  ASSUME NEW S, 0 \in S, \A k \in Nat : k \in S => k + 1 \in S
  PROVE  Nat \subseteq S
<1> DEFINE T == {k \in Nat : k \notin S}
<1> SUFFICES ASSUME T # {} PROVE FALSE
  OBVIOUS
<1>1. PICK m \in T : \A n \in T : m <= n
  BY LeastNatural
<1>2. m # 0 /\ m - 1 \in Nat
  BY <1>1
<1>3. m - 1 \notin T
  BY <1>1, <1>2
<1> QED
  BY <1>2, <1>3

(* What repeat computes with such a body *)
TurnAt(loop, n, s) ==
  (CHOOSE f : f = [k \in 0 .. n |-> IF k = 0 THEN s ELSE StepOf(loop, f[k - 1])])[n]

(* f are the states of the loop after each of its turns. *)
Turns(f, loop, n, s) == f = [k \in 0 .. n |-> IF k = 0 THEN s ELSE StepOf(loop, f[k - 1])]

(* There is such a function, for every number of turns. *)
LEMMA TurnsExist ==
  ASSUME NEW loop, NEW n \in Nat, NEW s
  PROVE  \E f : Turns(f, loop, n, s)
<1> DEFINE S == {k \in Nat : \E f : Turns(f, loop, k, s)}
<1>1. 0 \in S
  <2> DEFINE g == [k \in 0 .. 0 |-> s]
  <2>1. g = [k \in 0 .. 0 |-> IF k = 0 THEN s ELSE StepOf(loop, g[k - 1])]
    OBVIOUS
  <2> QED
    BY <2>1 DEF Turns
<1>2. ASSUME NEW m \in Nat, m \in S
      PROVE  m + 1 \in S
  <2>1. PICK f : Turns(f, loop, m, s)
    BY <1>2
  <2> DEFINE g == [k \in 0 .. m + 1 |-> IF k = m + 1 THEN StepOf(loop, f[m]) ELSE f[k]]
  <2>2. \A k \in 0 .. m : f[k] = IF k = 0 THEN s ELSE StepOf(loop, f[k - 1])
    BY <2>1 DEF Turns
  <2>3. \A k \in 0 .. m + 1 : g[k] = IF k = 0 THEN s ELSE StepOf(loop, g[k - 1])
    BY <2>2
  <2>4. g = [k \in 0 .. m + 1 |-> IF k = 0 THEN s ELSE StepOf(loop, g[k - 1])]
    BY <2>3
  <2>5. Turns(g, loop, m + 1, s)
    BY <2>4 DEF Turns
  <2> QED
    BY <2>5
<1>3. Nat \subseteq S
  BY <1>1, <1>2, CountUp
<1> QED
  BY <1>3

(* So a loop has ended in the last of a row of states, of which each is a  *)
(* turn of the body after the one before.                                  *)
LEMMA LoopTurns ==
  ASSUME NEW loop, NEW n \in Nat, NEW s
  PROVE  \E f : /\ f[n] = TurnAt(loop, n, s) /\ f[0] = s
               /\ \A k \in 0 .. n : k # n => f[k + 1] = StepOf(loop, f[k])
<1> DEFINE f == CHOOSE f : Turns(f, loop, n, s)
<1>1. Turns(f, loop, n, s)
  BY TurnsExist
<1>2. TurnAt(loop, n, s) = f[n]
  BY DEF Turns, TurnAt
<1>3. \A k \in 0 .. n : f[k] = IF k = 0 THEN s ELSE StepOf(loop, f[k - 1])
  BY <1>1 DEF Turns
<1>4. \A k \in 0 .. n : k # n => k + 1 \in 0 .. n /\ k + 1 # 0 /\ (k + 1) - 1 = k
  OBVIOUS
<1>5. f[0] = s /\ \A k \in 0 .. n : k # n => f[k + 1] = StepOf(loop, f[k])
  BY <1>3, <1>4
<1> QED
  BY <1>2, <1>5

-----------------------------------------------------------------------------
(* Writing the FAT *)

(* The codes that are not clusters are none, and are not each other. *)
LEMMA Codes ==
  /\ 0 \notin Cluster /\ 1 \notin Cluster /\ EOC \notin Cluster /\ DISK_ERR \notin Cluster
  /\ Cluster \subseteq Nat /\ EOC \in Nat /\ DISK_ERR \in Nat /\ EOC # 0 /\ EOC # 1
  /\ EOC # DISK_ERR /\ EOC >= max_clust /\ DISK_ERR >= max_clust
  BY FatAssumption DEF Cluster, EOC, DISK_ERR

(* A volume v in which the FAT has become g, at most after a transfer *)
Put(v, w, g) ==
  /\ VolType(w) /\ ~w.err
  /\ w.ss = v.ss /\ w.csize = v.csize /\ w.fat = g /\ w.dir = v.dir
  /\ w.torn = v.torn
  /\ w.disk = v.disk \/ w.disk = [fat |-> v.fat, dir |-> v.dir]
  /\ w.last = v.last /\ w.free = v.free /\ w.faults = v.faults

(* put_fat writes the entry, or has failed and left the FAT as it was. *)
LEMMA PutFat ==
  ASSUME NEW v, VolType(v), NEW c \in Cluster, NEW x \in Cluster \cup {0, EOC}
  PROVE  LET w == put_fat(v, c, x)
         IN \/ w.err /\ Moves(v, w)
            \/ Put(v, w, [v.fat EXCEPT ![c] = x])
<1> DEFINE p == move_window(v, FatSect(c))
           w == [p EXCEPT !.fat[c] = x, !.wflag = TRUE]
           g == [v.fat EXCEPT ![c] = x]
<1>1. Moves(v, p) /\ VolType(p)
  BY MoveWindow DEF Moves
<1>2. put_fat(v, c, x) = [p EXCEPT !.fat[c] = IF p.err THEN @ ELSE x, !.wflag = TRUE]
  BY DEF put_fat
<1> HIDE DEF p
<1>3. CASE p.err
  <2> DEFINE u == [p EXCEPT !.wflag = TRUE]
  <2>1. [p.fat EXCEPT ![c] = p.fat[c]] = p.fat
    BY <1>1 DEF VolType, FAT
  <2>2. put_fat(v, c, x) = u
    BY <1>1, <1>2, <1>3, <2>1 DEF VolType, VolFields
  <2>3. Moves(p, u)
    BY <1>1, Updates
  <2>4. u.err
    BY <1>1, <1>3 DEF VolType, VolFields
  <2> QED
    BY <1>1, <2>2, <2>3, <2>4, MovesTrans
<1>4. CASE ~p.err
  <2>1. g \in FAT
    BY DEF FAT, VolType
  <2>2. w = [p EXCEPT !.fat = g, !.wflag = TRUE]
    BY <1>1 DEF Moves
  <2>3. Put(v, [p EXCEPT !.fat = g, !.wflag = TRUE], g)
    BY <1>1, <1>4, <2>1 DEF Put, Moves, VolType, VolFields
  <2> QED
    BY <1>2, <1>4, <2>2, <2>3
<1> QED
  BY <1>3, <1>4

(* A volume keeps its invariant if the new FAT is in order for the new     *)
(* heads; the medium may have the FAT before the change, and the           *)
(* directory.                                                              *)
LEMMA HoldsPut ==
  ASSUME NEW v, NEW w, NEW R, NEW Q \in SUBSET Cluster, Holds(v, R),
         Put(v, w, w.fat), InOrder(w.fat, Q), HeadsIn(v.dir, Q)
  PROVE  Holds(w, Q)
<1>1. SoundDisk([fat |-> v.fat, dir |-> v.dir], v.torn)
  BY SoundHeads DEF Holds, VolType
<1> QED
  BY <1>1 DEF Holds, Put

(* The invariant of a volume speaks of the FAT, the directory and the      *)
(* medium only.                                                            *)
LEMMA HoldsSame ==
  ASSUME NEW v, NEW w, NEW R, Holds(v, R), VolType(w), w.fat = v.fat, w.dir = v.dir, w.disk = v.disk /\ w.torn = v.torn
  PROVE  Holds(w, R)
  BY DEF Holds

(* It holds with fewer heads, if the directory needs no other. *)
LEMMA HoldsLess ==
  ASSUME NEW v, NEW R, NEW Q \in SUBSET R, Holds(v, R), HeadsIn(v.dir, Q)
  PROVE  Holds(v, Q)
  BY OrderLess DEF Holds

(* The free clusters *)
FreeSet(f) == {c \in Cluster : f[c] = 0}

(* How an entry of the FAT counts: writing one makes the free clusters     *)
(* fewer by one, more by one, or as many.                                  *)
LEMMA FreeCount ==
  ASSUME NEW f \in FAT, NEW c \in Cluster, NEW x \in Cluster \cup {0, EOC}
  PROVE  LET g == [f EXCEPT ![c] = x]
         IN /\ IsFiniteSet(FreeSet(f)) /\ Cardinality(FreeSet(f)) \in Nat
            /\ x # 0 => FreeSet(g) = FreeSet(f) \ {c}
            /\ f[c] = 0 => Cardinality(FreeSet(f) \ {c}) = Cardinality(FreeSet(f)) - 1
            /\ f[c] # 0 /\ x = 0 => Cardinality(FreeSet(g)) = Cardinality(FreeSet(f)) + 1
<1> DEFINE g == [f EXCEPT ![c] = x]
<1>1. \A y \in Cluster : g[y] = IF y = c THEN x ELSE f[y]
  BY DEF FAT
<1>2. IsFiniteSet(FreeSet(f))
  <2>1. IsFiniteSet(Cluster)
    BY FatAssumption, FS_Interval DEF Cluster
  <2> QED
    BY <2>1, FS_Subset DEF FreeSet
<1>3. Cardinality(FreeSet(f)) \in Nat
  BY <1>2, FS_CardinalityType
<1>4. ASSUME x # 0 PROVE FreeSet(g) = FreeSet(f) \ {c}
  BY <1>1, <1>4 DEF FreeSet
<1>5. ASSUME f[c] = 0 PROVE Cardinality(FreeSet(f) \ {c}) = Cardinality(FreeSet(f)) - 1
  BY <1>2, <1>5, FS_RemoveElement DEF FreeSet
<1>6. ASSUME f[c] # 0, x = 0 PROVE Cardinality(FreeSet(g)) = Cardinality(FreeSet(f)) + 1
  <2>1. FreeSet(g) = FreeSet(f) \cup {c} /\ c \notin FreeSet(f)
    BY <1>1, <1>6 DEF FreeSet
  <2> QED
    BY <1>2, <2>1, FS_AddElement
<1> QED
  BY <1>2, <1>3, <1>4, <1>5, <1>6

(* What no routine that works on the FAT changes *)
Kept(v, w) ==
  /\ VolType(w) /\ w.ss = v.ss /\ w.csize = v.csize /\ w.dir = v.dir /\ w.faults = v.faults

(* One cluster has been taken, and no chain is shorter. *)
Takes(v, w, n) ==
  FreeSet(w.fat) = FreeSet(v.fat) \ {n} /\ \A S : GrowOn(v.fat, w.fat, S)

(* link, wherever it fails: the heads stay the heads of chains in order (a *)
(* cluster marked and not linked is lost, never in two files). If nothing  *)
(* fails, the new cluster is at the end of the chain that it was linked    *)
(* to.                                                                     *)
LEMMA Linked ==
  ASSUME NEW v, NEW R, Holds(v, R), NEW n \in Cluster, v.fat[n] = 0, NEW c \in Nat,
         NEW w, w = link(v, c, n)
  PROVE  /\ Holds(w, R) /\ Kept(v, w) /\ w.last = v.last /\ w.free = v.free /\ n \notin R
         /\ c = 0 /\ ~w.err => Holds(w, R \cup {n})
         /\ v.faults = 0 /\ ~v.err /\ Covered(v.fat, R) =>
              /\ c = 0 => ~w.err /\ Covered(w.fat, R \cup {n}) /\ Takes(v, w, n)
              /\ \A r \in R : c \in clusters(v.fat, r) /\ v.fat[c] \notin Cluster =>
                   ~w.err /\ Covered(w.fat, R) /\ Takes(v, w, n) /\ n \in clusters(w.fat, r)
<1> DEFINE p == put_fat(v, n, EOC)
           f == [v.fat EXCEPT ![n] = EOC]
           g == [f EXCEPT ![c] = n]
<1>1. VolType(v) /\ v.fat \in FAT /\ InOrder(v.fat, R) /\ HeadsIn(v.dir, R) /\ R \in SUBSET Cluster
  BY DEF Holds, VolType
<1>2. /\ n \notin R /\ f \in FAT /\ InOrder(f, R \cup {n})
      /\ Covered(v.fat, R) => Covered(f, R \cup {n})
      /\ \A S : GrowOn(v.fat, f, S)
  BY <1>1, OrderMark
<1>3. HeadsIn(v.dir, R \cup {n})
  BY <1>1 DEF HeadsIn
<1>4. CASE p.err
  <2>1. Moves(v, p)
    BY <1>1, <1>4, PutFat DEF Put
  <2>2. w = p
    BY <1>4 DEF link, then
  <2>3. Holds(w, R) /\ (v.faults = 0 => v.err)
    BY <2>1, <2>2, <1>4, HoldsMoves DEF Moves
  <2> QED
    BY <1>2, <1>4, <2>1, <2>2, <2>3 DEF Moves, Kept
<1>5. CASE ~p.err
  <2>1. Put(v, p, f)
    BY <1>1, <1>5, PutFat
  <2>2. Put(v, p, p.fat) /\ p.fat = f /\ R \cup {n} \in SUBSET Cluster
    BY <1>1, <2>1 DEF Put
  <2>3. Holds(p, R \cup {n})
    BY <1>2, <1>3, <2>2, HoldsPut
  <2>4. Holds(p, R)
    BY <2>3, <1>1, <2>2, HoldsLess DEF Put
  <2>5. Kept(v, p) /\ p.last = v.last /\ p.free = v.free /\ VolType(p) /\ ~p.err /\ p.dir = v.dir
    BY <2>1 DEF Put, Kept
  <2>6. FreeSet(f) = FreeSet(v.fat) \ {n}
    BY <1>1, FreeCount, Codes
  <2>7. w = IF c = 0 THEN p ELSE put_fat(p, c, n)
    BY <1>5 DEF link, then
  <2>8. CASE c = 0
    <3>1. \A r \in R : c \notin clusters(v.fat, r)
      BY <2>8, ChainIn, Codes
    <3> QED
      BY <3>1, <2>2, <2>3, <2>4, <2>5, <2>6, <2>7, <2>8, <1>2, <1>5 DEF Takes
  <2>9. CASE c \notin Cluster /\ c # 0
    <3>1. w = [p EXCEPT !.err = TRUE]
      BY <2>7, <2>9 DEF put_fat, fail
    <3>2. /\ VolType([p EXCEPT !.err = TRUE])
          /\ [p EXCEPT !.err = TRUE].fat = p.fat
          /\ [p EXCEPT !.err = TRUE].dir = p.dir
          /\ [p EXCEPT !.err = TRUE].disk = p.disk /\ [p EXCEPT !.err = TRUE].torn = p.torn
          /\ [p EXCEPT !.err = TRUE].err
          /\ Kept(p, [p EXCEPT !.err = TRUE])
          /\ [p EXCEPT !.err = TRUE].last = p.last /\ [p EXCEPT !.err = TRUE].free = p.free
      BY <2>5 DEF VolType, VolFields, Kept
    <3>3. Holds(w, R) /\ Kept(v, w) /\ w.err /\ w.last = v.last /\ w.free = v.free
      BY <3>1, <3>2, <2>4, <2>5, HoldsSame DEF Kept
    <3>4. \A r \in R : c \notin clusters(v.fat, r)
      BY <2>9, ChainIn
    <3> QED
      BY <3>3, <3>4, <2>9, <1>2
  <2>10. CASE c \in Cluster
    <3> HIDE DEF p
    <3>1. w = put_fat(p, c, n) /\ c # 0
      BY <2>7, <2>10, Codes
    <3>4. (w.err /\ Moves(p, w)) \/ Put(p, w, [p.fat EXCEPT ![c] = n])
      BY <2>5, <2>10, <3>1, PutFat
    <3>2. CASE w.err
      <4>1. Moves(p, w)
        BY <3>2, <3>4 DEF Put
      <4>2. Holds(w, R)
        BY <4>1, <2>4, HoldsMoves
      <4>3. Kept(v, w) /\ w.last = v.last /\ w.free = v.free
        BY <4>1, <2>5 DEF Moves, Kept
      <4>4. v.faults # 0
        BY <4>1, <2>5, <3>2 DEF Moves, Kept
      <4> QED
        BY <4>2, <4>3, <4>4, <3>1, <3>2, <1>2
    <3>3. CASE ~w.err
      <4>1. Put(p, w, [p.fat EXCEPT ![c] = n])
        BY <3>3, <3>4
      <4>2. w.fat = g /\ Put(p, w, w.fat)
        BY <4>1, <2>2 DEF Put
      <4>3. InOrder(g, R)
        BY <1>1, <1>2, <2>10, OrderLink
      <4>4. Holds(w, R)
        BY <4>2, <4>3, <2>3, <2>5, <1>1, HoldsPut
      <4>5. Kept(v, w) /\ w.last = v.last /\ w.free = v.free
        BY <4>1, <2>5 DEF Put, Kept
      <4>6. ASSUME Covered(v.fat, R), NEW r \in R, c \in clusters(v.fat, r), v.fat[c] \notin Cluster
            PROVE  Covered(w.fat, R) /\ n \in clusters(w.fat, r) /\ Takes(v, w, n)
        <5>1. c \in clusters(f, r)
          BY <4>6, <1>2 DEF GrowOn
        <5>2. f[c] \notin Cluster /\ f[n] = EOC
          BY <4>6, <1>1, Codes DEF FAT
        <5>3. Covered(g, R) /\ n \in clusters(g, r) /\ \A S : GrowOn(f, g, S)
          BY <5>1, <5>2, <4>6, <1>1, <1>2, LinkCovers
        <5>4. v.fat[c] # 0 /\ c # n
          BY <4>6, <1>1, ChainInUse
        <5>5. c \notin FreeSet(f)
          BY <5>4, <1>1, <2>10 DEF FreeSet, FAT
        <5>6. FreeSet(g) = FreeSet(f) \ {c}
          BY <1>2, <2>10, FreeCount, Codes
        <5>7. FreeSet(w.fat) = FreeSet(v.fat) \ {n}
          BY <5>5, <5>6, <2>6, <4>2
        <5>8. \A S : GrowOn(v.fat, w.fat, S)
          BY <5>3, <1>2, <4>2, GrowTrans
        <5> QED
          BY <5>3, <5>7, <5>8, <4>2 DEF Takes
      <4> QED
        BY <4>4, <4>5, <4>6, <3>1, <3>3, <1>2
    <3> QED
      BY <3>2, <3>3
  <2> QED
    BY <2>8, <2>9, <2>10
<1> QED
  BY <1>4, <1>5

-----------------------------------------------------------------------------
(* The search for a free cluster *)

(* The search of create_chain, as a row of turns *)
LEMMA FindLoop ==
  ASSUME NEW v, NEW ncl, NEW scl
  PROVE  \E f : /\ f[max_clust] = find_free(v, ncl, scl)
               /\ f[0] = [v |-> v, ncl |-> ncl, result |-> 0, ended |-> FALSE]
               /\ \A k \in 0 .. max_clust : k # max_clust => f[k + 1] = find_next(f[k], scl)
<1> DEFINE s == [v |-> v, ncl |-> ncl, result |-> 0, ended |-> FALSE]
<1>1. \A p : StepOf(<<"find", scl>>, p) = find_next(p, scl)
  BY DEF StepOf
<1>2. find_free(v, ncl, scl) = TurnAt(<<"find", scl>>, max_clust, s)
  BY <1>1 DEF repeat, TurnAt, find_free
<1> HIDE DEF s
<1>3. max_clust \in Nat
  BY FatAssumption
<1>4. \E f : /\ f[max_clust] = TurnAt(<<"find", scl>>, max_clust, s) /\ f[0] = s
            /\ \A k \in 0 .. max_clust : k # max_clust => f[k + 1] = StepOf(<<"find", scl>>, f[k])
  BY <1>3, LoopTurns
<1> QED
  BY <1>1, <1>2, <1>4 DEF s

(* The search after some of its turns: what it has found is free. *)
Searching(v, p) ==
  /\ DOMAIN p = {"v", "ncl", "result", "ended"}
  /\ Moves(v, p.v) /\ p.ncl \in Nat \ {0} /\ p.result \in Nat /\ p.ended \in BOOLEAN
  /\ ~p.ended => p.result = 0
  /\ p.result \in Cluster => ~p.v.err /\ p.v.fat[p.result] = 0
  /\ v.faults = 0 => p.result \in Cluster \cup {0}

(* A turn of the search keeps this. *)
LEMMA FindNext ==
  ASSUME NEW v, VolType(v), v.faults = 0 => ~v.err, NEW p, Searching(v, p), NEW scl
  PROVE  Searching(v, find_next(p, scl))
<1> DEFINE wraps == p.ncl + 1 >= max_clust
           n == IF wraps THEN 2 ELSE p.ncl + 1
           w == read_fat(p.v, n)
           cs == get_fat(w, n)
<1>1. n \in Cluster
  BY FatAssumption DEF Cluster, Searching
<1>2. VolType(p.v) /\ Moves(v, p.v)
  BY DEF Searching, Moves
<1>3. Moves(v, w)
  BY <1>2, ReadFat, MovesTrans
<1>4. cs = IF w.err THEN DISK_ERR ELSE w.fat[n]
  BY <1>1 DEF get_fat
<1>5. w.fat[n] \in Cluster \cup {0, EOC}
  BY <1>1, <1>3 DEF Moves, VolType, FAT
<1> HIDE DEF w, cs, n
<1>6. CASE p.ended
  BY <1>6 DEF find_next
<1>7. CASE ~p.ended /\ wraps /\ n > scl
  <2>1. find_next(p, scl) = [p EXCEPT !.v = p.v, !.result = 0, !.ended = TRUE]
    BY <1>7 DEF find_next, n
  <2>2. Searching(v, [p EXCEPT !.v = p.v, !.result = 0, !.ended = TRUE])
    BY Codes DEF Searching
  <2> QED
    BY <2>1, <2>2
<1>8. CASE ~p.ended /\ ~(wraps /\ n > scl) /\ cs = 0
  <2>1. find_next(p, scl) = [p EXCEPT !.v = w, !.result = n, !.ended = TRUE]
    BY <1>8 DEF find_next, n, w, cs
  <2>2. ~w.err /\ w.fat[n] = 0
    BY <1>4, <1>8, Codes, FatAssumption DEF DISK_ERR
  <2>3. Searching(v, [p EXCEPT !.v = w, !.result = n, !.ended = TRUE])
    BY <2>2, <1>1, <1>3, Codes DEF Searching
  <2> QED
    BY <2>1, <2>3
<1>9. CASE ~p.ended /\ ~(wraps /\ n > scl) /\ cs # 0 /\ cs \in {DISK_ERR, 1}
  <2>1. find_next(p, scl) = [p EXCEPT !.v = fail(w), !.result = cs, !.ended = TRUE]
    BY <1>9 DEF find_next, n, w, cs
  <2>2. w.err
    BY <1>4, <1>5, <1>9, Codes
  <2>3. v.faults # 0
    BY <1>3, <2>2 DEF Moves
  <2>4. Moves(v, fail(w))
    <3>1. Moves(v, [w EXCEPT !.err = TRUE])
      BY <1>3, <2>3 DEF VolType, VolFields, Moves
    <3> QED
      BY <3>1 DEF fail
  <2>5. cs \in Nat /\ cs \notin Cluster
    BY <1>9, Codes
  <2>6. Searching(v, [p EXCEPT !.v = fail(w), !.result = cs, !.ended = TRUE])
    BY <2>3, <2>4, <2>5 DEF Searching
  <2> QED
    BY <2>1, <2>6
<1>10. CASE ~p.ended /\ ~(wraps /\ n > scl) /\ cs # 0 /\ cs \notin {DISK_ERR, 1} /\ n = scl
  <2>1. find_next(p, scl) = [p EXCEPT !.v = w, !.result = 0, !.ended = TRUE]
    BY <1>10 DEF find_next, n, w, cs
  <2>2. Searching(v, [p EXCEPT !.v = w, !.result = 0, !.ended = TRUE])
    BY <1>3, Codes DEF Searching
  <2> QED
    BY <2>1, <2>2
<1>11. CASE ~p.ended /\ ~(wraps /\ n > scl) /\ cs # 0 /\ cs \notin {DISK_ERR, 1} /\ n # scl
  <2>1. find_next(p, scl) = [p EXCEPT !.v = w, !.ncl = n]
    BY <1>11 DEF find_next, n, w, cs
  <2>2. n \in Nat \ {0}
    BY <1>1, Codes
  <2>3. Searching(v, [p EXCEPT !.v = w, !.ncl = n])
    BY <1>3, <2>2, <1>11, Codes DEF Searching
  <2> QED
    BY <2>1, <2>3
<1> QED
  BY <1>6, <1>7, <1>8, <1>9, <1>10, <1>11

(* So the search ends with a free cluster, with none, or with an error. *)
LEMMA FindFree ==
  ASSUME NEW v, VolType(v), v.faults = 0 => ~v.err, NEW ncl \in Nat \ {0}, NEW scl
  PROVE  Searching(v, find_free(v, ncl, scl))
<1>1. PICK f : /\ f[max_clust] = find_free(v, ncl, scl)
               /\ f[0] = [v |-> v, ncl |-> ncl, result |-> 0, ended |-> FALSE]
               /\ \A k \in 0 .. max_clust : k # max_clust => f[k + 1] = find_next(f[k], scl)
  BY FindLoop
<1> DEFINE S == {k \in Nat : k <= max_clust => Searching(v, f[k])}
<1>2. 0 \in S
  <2>1. Moves(v, v)
    BY MovesRefl
  <2>2. Searching(v, [v |-> v, ncl |-> ncl, result |-> 0, ended |-> FALSE])
    BY <2>1, Codes DEF Searching
  <2> QED
    BY <1>1, <2>2
<1>3. ASSUME NEW k \in Nat, k \in S
      PROVE  k + 1 \in S
  <2>1. CASE k + 1 <= max_clust
    <3>1. k \in 0 .. max_clust /\ k # max_clust /\ k <= max_clust
      BY <2>1, FatAssumption
    <3>2. Searching(v, f[k])
      BY <1>3, <3>1
    <3>3. Searching(v, find_next(f[k], scl))
      BY <3>2, FindNext
    <3>4. f[k + 1] = find_next(f[k], scl)
      BY <1>1, <3>1
    <3> QED
      BY <3>3, <3>4
  <2> QED
    BY <2>1
<1>4. Nat \subseteq S
  <2> HIDE DEF S
  <2> QED
    BY <1>2, <1>3, CountUp
<1> QED
  BY <1>1, <1>4, FatAssumption

(* Every cluster in use is in a chain, and the count of the free ones, if  *)
(* known, is right.                                                        *)
Tight(v, R) == Covered(v.fat, R) /\ v.free \in {UNKNOWN, n_free(v)}

(* What create_chain(v, c) has come to: r[1] is the volume, and r[2] a     *)
(* cluster that is the head of a new chain (c = 0) or in that of c, or no  *)
(* cluster.                                                                *)
Grown(v, R, c, r) ==
  /\ Holds(r[1], R) /\ Kept(v, r[1]) /\ r[2] \in Nat
  /\ r[2] \in Cluster /\ c = 0 => ~r[1].err /\ r[2] \notin R /\ Holds(r[1], R \cup {r[2]})
  /\ v.faults = 0 /\ Tight(v, R) /\ c = 0 =>
       /\ ~r[1].err /\ r[2] \in Cluster \cup {0}
       /\ Tight(r[1], R \cup ({r[2]} \cap Cluster))
       /\ \A S : GrowOn(v.fat, r[1].fat, S)
  /\ \A q \in R : v.faults = 0 /\ Tight(v, R) /\ c \in clusters(v.fat, q) =>
       /\ ~r[1].err /\ r[2] \in Cluster \cup {0} /\ Tight(r[1], R)
       /\ \A S : GrowOn(v.fat, r[1].fat, S)
       /\ r[2] \in Cluster => r[2] \in clusters(r[1].fat, q)

(* The second half of create_chain, for all that the search may have ended *)
(* with                                                                    *)
LEMMA LinkFound ==
  ASSUME NEW v, NEW R, Holds(v, R), v.faults = 0 => ~v.err,
         NEW c \in Nat, NEW p, Searching(v, p), NEW r, r = link_found(c, p),
         c # 0 /\ v.faults = 0 => v.fat[c] \notin Cluster
  PROVE  Grown(v, R, c, r)
<1> DEFINE n == p.result
           w == link(p.v, c, n)
           x == count_free([w EXCEPT !.last = n], -1)
<1>1. /\ Moves(v, p.v) /\ VolType(p.v) /\ Holds(p.v, R) /\ n \in Nat
      /\ p.v.fat = v.fat /\ p.v.faults = v.faults /\ p.v.free = v.free
  BY HoldsMoves DEF Searching, Moves
<1>2. \A S : GrowOn(v.fat, v.fat, S)
  BY DEF GrowOn
<1>3. CASE n \notin Cluster
  <2>1. r = <<p.v, n>>
    BY <1>3 DEF link_found
  <2>2. v.faults = 0 => n = 0 /\ ~p.v.err
    BY <1>1, <1>3 DEF Searching, Moves
  <2>3. Kept(v, p.v)
    BY <1>1 DEF Kept, Moves
  <2>4. Tight(v, R) => Tight(p.v, R)
    BY <1>1 DEF Tight, n_free
  <2>5. R \cup ({n} \cap Cluster) = R
    BY <1>3
  <2>6. \A q \in R : c = 0 => c \notin clusters(v.fat, q)
    BY ChainIn, Codes
  <2> QED
    BY <2>1, <2>2, <2>3, <2>4, <2>5, <2>6, <1>1, <1>2, <1>3 DEF Grown
<1>4. CASE n \in Cluster
  <2>1. p.v.fat[n] = 0 /\ ~p.v.err
    BY <1>4 DEF Searching
  <2>2. /\ Holds(w, R) /\ Kept(p.v, w) /\ w.last = p.v.last /\ w.free = p.v.free /\ n \notin R
        /\ c = 0 /\ ~w.err => Holds(w, R \cup {n})
        /\ p.v.faults = 0 /\ ~p.v.err /\ Covered(p.v.fat, R) =>
              /\ c = 0 => ~w.err /\ Covered(w.fat, R \cup {n}) /\ Takes(p.v, w, n)
              /\ \A q \in R : c \in clusters(p.v.fat, q) /\ p.v.fat[c] \notin Cluster =>
                   ~w.err /\ Covered(w.fat, R) /\ Takes(p.v, w, n) /\ n \in clusters(w.fat, q)
    BY <1>1, <1>4, <2>1, Linked
  <2>3. r = IF w.err THEN <<w, DISK_ERR>> ELSE <<x, n>>
    BY <1>4 DEF link_found
  <2>4. Kept(v, w) /\ VolType(w)
    BY <1>1, <2>2 DEF Kept, Moves
  <2>5. CASE w.err
    BY <2>2, <2>3, <2>4, <2>5, <2>1, <1>1, Codes DEF Tight, Grown
  <2>6. CASE ~w.err
    <3> HIDE DEF w
    <3>1. /\ VolType(x) /\ ~x.err /\ x.fat = w.fat /\ x.dir = w.dir /\ x.disk = w.disk /\ x.torn = w.torn /\ Kept(w, x)
          /\ x.free = IF w.free = UNKNOWN THEN UNKNOWN ELSE w.free - 1
      <4> DEFINE y == [w EXCEPT !.last = n]
      <4>1. VolType(y) /\ y.free = w.free /\ ~y.err /\ y.fat = w.fat /\ y.dir = w.dir /\ y.disk = w.disk /\ y.torn = w.torn /\ Kept(w, y)
        BY <2>4, <2>6, <1>1 DEF VolType, VolFields, Kept
      <4>2. x = [y EXCEPT !.free = IF w.free = UNKNOWN THEN w.free ELSE w.free - 1]
        BY <4>1 DEF count_free
      <4> HIDE DEF y
      <4>3. w.free \in Int
        BY <2>4 DEF VolType
      <4>4. ASSUME NEW z \in Int
            PROVE  LET u == [y EXCEPT !.free = z]
                   IN /\ VolType(u) /\ ~u.err /\ u.fat = w.fat /\ u.dir = w.dir
                      /\ u.disk = w.disk /\ u.torn = w.torn /\ Kept(w, u) /\ u.free = z
        BY <4>1 DEF VolType, VolFields, Kept
      <4> HIDE DEF x
      <4> QED
        BY <4>2, <4>3, <4>4
    <3>2. r = <<x, n>>
      BY <2>3, <2>6
    <3> HIDE DEF x, n
    <3>3. Holds(x, R) /\ Kept(v, x) /\ (c = 0 => Holds(x, R \cup {n}))
      BY <3>1, <2>2, <2>4, <2>6, HoldsSame DEF Kept
    <3>4. ASSUME Takes(p.v, w, n), v.free \in {UNKNOWN, n_free(v)}
          PROVE  x.free \in {UNKNOWN, n_free(x)} /\ \A S : GrowOn(v.fat, x.fat, S)
      <4>1. n_free(v) = Cardinality(FreeSet(v.fat)) /\ n_free(x) = Cardinality(FreeSet(x.fat))
        BY DEF n_free, FreeSet
      <4>2. v.fat \in FAT /\ v.fat[n] = 0
        BY <1>1, <2>1 DEF Holds, VolType
      <4>3. Cardinality(FreeSet(v.fat) \ {n}) = Cardinality(FreeSet(v.fat)) - 1
        BY <4>2, <1>4, FreeCount, Codes
      <4>4. FreeSet(x.fat) = FreeSet(v.fat) \ {n} /\ \A S : GrowOn(v.fat, x.fat, S)
        BY <3>1, <3>4, <1>1 DEF Takes
      <4>5. w.free = v.free
        BY <2>2, <1>1
      <4> QED
        BY <4>1, <4>3, <4>4, <4>5, <3>1, <3>4
    <3>5. {n} \cap Cluster = {n}
      BY <1>4
    <3>6. ASSUME v.faults = 0, Tight(v, R), c = 0
          PROVE  Tight(x, R \cup {n}) /\ \A S : GrowOn(v.fat, x.fat, S)
      <4>1. Covered(x.fat, R \cup {n}) /\ Takes(p.v, w, n)
        BY <3>6, <3>1, <2>1, <2>2, <1>1 DEF Tight
      <4> QED
        BY <4>1, <3>4, <3>6 DEF Tight
    <3>7. ASSUME v.faults = 0, Tight(v, R), NEW q \in R, c \in clusters(v.fat, q)
          PROVE  Tight(x, R) /\ n \in clusters(x.fat, q) /\ \A S : GrowOn(v.fat, x.fat, S)
      <4>1. Covered(x.fat, R) /\ Takes(p.v, w, n) /\ n \in clusters(x.fat, q)
        BY <3>7, <3>1, <2>1, <2>2, <1>1, ChainIn, Codes DEF Tight
      <4> QED
        BY <4>1, <3>4, <3>7 DEF Tight
    <3>8. r[1] = x /\ r[2] = n
      BY <3>2
    <3> QED
      BY <3>1, <3>3, <3>5, <3>6, <3>7, <3>8, <2>2, <1>1, <1>4 DEF Grown
  <2> QED
    BY <2>5, <2>6
<1> QED
  BY <1>3, <1>4

-----------------------------------------------------------------------------
(* Taking and releasing chains *)

(* create_chain, whatever cluster it starts from and whichever of its      *)
(* transfers fails                                                         *)
LEMMA CreateChain ==
  ASSUME NEW v, NEW R, Holds(v, R), v.faults = 0 => ~v.err, NEW c \in Nat,
         NEW r, r = create_chain(v, c)
  PROVE  Grown(v, R, c, r)
<1> DEFINE hint == IF v.last = 0 \/ v.last >= max_clust THEN 1 ELSE v.last
           p0 == find_free(v, hint, hint)
           w == read_fat(v, c)
           cs == get_fat(w, c)
           w0 == [w EXCEPT !.err = FALSE]
           p == find_free(w0, c, c)
<1>1. VolType(v) /\ Moves(v, w) /\ VolType(w)
  BY ReadFat DEF Holds, Moves
<1>2. Holds(w, R) /\ Kept(v, w)
  BY <1>1, HoldsMoves DEF Kept, Moves
<1>3. \A S : GrowOn(v.fat, w.fat, S)
  BY <1>1 DEF GrowOn, Moves
<1>4. Tight(v, R) => Tight(w, R)
  BY <1>1 DEF Tight, n_free, Moves
<1>5. r = IF c = 0 THEN link_found(0, p0)
          ELSE IF cs < 2 THEN <<fail(w), 1>> ELSE IF cs < max_clust THEN <<w, cs>> ELSE link_found(c, p)
  BY DEF create_chain
<1>6. CASE c = 0
  <2>1. hint \in Nat \ {0}
    BY <1>1 DEF VolType
  <2>2. Searching(v, p0)
    BY <1>1, <2>1, FindFree
  <2>3. r = link_found(c, p0)
    BY <1>5, <1>6
  <2> HIDE DEF p0
  <2> QED
    BY <2>2, <2>3, <1>6, LinkFound
<1>7. \A q : c = 0 => c \notin clusters(v.fat, q)
  BY ChainIn, Codes
<1>8. ASSUME NEW q \in R, c \in clusters(v.fat, q), v.faults = 0
      PROVE  /\ c \in Cluster /\ ~w.err /\ cs = v.fat[c] /\ cs \in Cluster \cup {EOC}
             /\ cs \in Cluster => cs \in clusters(w.fat, q)
  <2>1. c \in Cluster /\ q \in Cluster
    BY <1>8, ChainIn
  <2>2. ~w.err /\ cs = w.fat[c] /\ w.fat = v.fat
    BY <2>1, <1>1, <1>8 DEF get_fat, Moves
  <2>3. v.fat[c] # 0 /\ v.fat[c] \in Cluster \cup {0, EOC}
    BY <2>1, <1>8, ChainInUse DEF Holds, VolType, FAT
  <2>4. Closed(v.fat, clusters(v.fat, q), q)
    BY <2>1, ChainClosed
  <2>5. v.fat[c] \in Cluster => v.fat[c] \in clusters(v.fat, q)
    BY <2>4, <1>8 DEF Closed
  <2> QED
    BY <2>1, <2>2, <2>3, <2>5
<1>9. cs \in Nat
  <2>1. c \in Cluster => w.fat[c] \in Cluster \cup {0, EOC}
    BY <1>1 DEF VolType, FAT
  <2>2. cs \in {1, DISK_ERR} \/ (c \in Cluster /\ cs = w.fat[c])
    BY DEF get_fat
  <2>3. DISK_ERR \in Nat /\ EOC \in Nat /\ \A x \in Cluster : x \in Nat
    BY Codes
  <2> HIDE DEF w, cs
  <2> QED
    BY <2>1, <2>2, <2>3
<1>10. CASE c # 0 /\ cs < 2
  <2>1. r[1] = [w EXCEPT !.err = TRUE] /\ r[2] = 1
    BY <1>5, <1>10 DEF fail
  <2>2. /\ VolType([w EXCEPT !.err = TRUE]) /\ Kept(v, [w EXCEPT !.err = TRUE])
        /\ [w EXCEPT !.err = TRUE].fat = w.fat
        /\ [w EXCEPT !.err = TRUE].dir = w.dir
        /\ [w EXCEPT !.err = TRUE].disk = w.disk /\ [w EXCEPT !.err = TRUE].torn = w.torn
    BY <1>1, <1>2 DEF VolType, VolFields, Kept
  <2>3. Holds(r[1], R) /\ Kept(v, r[1])
    BY <2>1, <2>2, <1>2, HoldsSame
  <2>4. \A q \in R : ~(v.faults = 0 /\ c \in clusters(v.fat, q))
    BY <1>8, <1>10, FatAssumption DEF Cluster, EOC
  <2> QED
    BY <2>1, <2>3, <2>4, <1>10 DEF Grown
<1>11. CASE c # 0 /\ ~(cs < 2) /\ cs < max_clust
  <2>1. r[1] = w /\ r[2] = cs
    BY <1>5, <1>11
  <2>2. cs \in Cluster
    BY <1>9, <1>11, FatAssumption DEF Cluster
  <2> QED
    BY <2>1, <2>2, <1>2, <1>3, <1>4, <1>8, <1>9, <1>11 DEF Grown
<1>12. CASE c # 0 /\ ~(cs < 2) /\ ~(cs < max_clust)
  <2>1. r = link_found(c, p)
    BY <1>5, <1>12
  <2>2. VolType(w0) /\ ~w0.err /\ w0.fat = w.fat /\ w0.dir = w.dir /\ w0.disk = w.disk /\ w0.torn = w.torn
        /\ w0.free = w.free /\ Kept(w, w0)
    BY <1>1 DEF VolType, VolFields, Kept
  <2>3. Holds(w0, R) /\ (Tight(w, R) => Tight(w0, R))
    BY <2>2, <1>2, HoldsSame DEF Tight, n_free
  <2>4. Searching(w0, p)
    BY <2>2, <1>12, FindFree
  <2>5. v.fat = w0.fat /\ w0.faults = v.faults /\ Kept(v, w0)
    BY <1>1, <2>2 DEF Moves, Kept
  <2>6. cs \notin Cluster /\ (c \in Cluster /\ ~w.err => cs = w.fat[c]) /\ c \in Cluster
    BY <1>12, <1>9, FatAssumption DEF Cluster, get_fat
  <2>7. v.faults = 0 => w0.fat[c] \notin Cluster
    BY <2>2, <2>6, <1>1 DEF Moves
  <2> HIDE DEF p, w0, w, cs
  <2>8. Grown(w0, R, c, r)
    BY <2>1, <2>2, <2>3, <2>4, <2>5, <2>7, LinkFound
  <2>9. Kept(v, r[1])
    BY <2>5, <2>8 DEF Kept, Grown
  <2> QED
    BY <2>3, <2>5, <2>8, <2>9, <1>4, <1>12 DEF Grown
<1> QED
  BY <1>6, <1>9, <1>10, <1>11, <1>12

-----------------------------------------------------------------------------
(* Releasing a chain *)

(* The clusters in use, counted *)
UsedCount(f) == Cardinality({c \in Cluster : f[c] # 0})

(* There are fewer than max_clust of them, and freeing one makes them      *)
(* fewer by one.                                                           *)
LEMMA UsedLess ==
  ASSUME NEW f \in FAT
  PROVE  /\ UsedCount(f) \in Nat /\ UsedCount(f) < max_clust
         /\ \A c \in Cluster : f[c] # 0 => UsedCount([f EXCEPT ![c] = 0]) = UsedCount(f) - 1
<1> DEFINE U(g) == {c \in Cluster : g[c] # 0}
<1>1. IsFiniteSet(Cluster) /\ Cardinality(Cluster) = max_clust - 2
  BY FatAssumption, FS_Interval DEF Cluster
<1>2. IsFiniteSet(U(f)) /\ Cardinality(U(f)) <= Cardinality(Cluster) /\ Cardinality(U(f)) \in Nat
  BY <1>1, FS_Subset, FS_CardinalityType
<1>3. ASSUME NEW c \in Cluster, f[c] # 0
      PROVE  Cardinality(U([f EXCEPT ![c] = 0])) = Cardinality(U(f)) - 1
  <2>1. U([f EXCEPT ![c] = 0]) = U(f) \ {c} /\ c \in U(f)
    BY <1>3 DEF FAT
  <2> QED
    BY <2>1, <1>2, FS_RemoveElement
<1> QED
  BY <1>1, <1>2, <1>3, FatAssumption DEF UsedCount

(* The release of a chain of volume u after k turns: R are the heads that  *)
(* stay, and T says that nothing has gone wrong before. What is left of    *)
(* the chain is a chain; its length bounds the turns to come.              *)
Releasing(u, R, T, k, p) ==
  /\ DOMAIN p = {"v", "c"} /\ p.c \in Nat /\ p.c \notin R
  /\ Kept(u, p.v) /\ Holds(p.v, R) /\ InOrder(p.v.fat, R \cup ({p.c} \cap Cluster))
  /\ T => /\ ~p.v.err /\ p.c \in Cluster \cup {EOC}
          /\ Tight(p.v, R \cup ({p.c} \cap Cluster)) /\ GrowOn(u.fat, p.v.fat, R)
          /\ p.c \in Cluster => UsedCount(p.v.fat) + k <= max_clust

(* A turn of the loop in remove_chain keeps this. *)
LEMMA RemoveNext ==
  ASSUME NEW u, NEW R, NEW T, T => u.faults = 0, NEW k \in Nat, NEW p, Releasing(u, R, T, k, p)
  PROVE  Releasing(u, R, T, k + 1, remove_next(p))
<1> DEFINE w == read_fat(p.v, p.c)
           nxt == get_fat(w, p.c)
           x == put_fat(w, p.c, 0)
           y == count_free(x, 1)
           q == remove_next(p)
<1>1. /\ VolType(p.v) /\ Moves(p.v, w) /\ VolType(w) /\ Kept(u, p.v) /\ Holds(p.v, R)
      /\ p.c \in Nat /\ p.c \notin R /\ R \subseteq Cluster
  BY ReadFat DEF Releasing, Holds, Moves
<1>2. w.fat = p.v.fat /\ w.free = p.v.free /\ Kept(u, w) /\ Holds(w, R) /\ (T => ~w.err)
  BY <1>1, HoldsMoves DEF Releasing, Moves, Kept
<1>3. Releasing(u, R, T, k + 1, [p EXCEPT !.v = w]) \/ p.c \in Cluster
  BY <1>1, <1>2 DEF Releasing, Tight, n_free
<1>4. CASE p.v.err \/ p.c >= max_clust
  <2>1. q = p
    BY <1>4 DEF remove_next
  <2>2. T => p.c \notin Cluster
    <3>1. T => ~p.v.err
      BY DEF Releasing
    <3>2. p.c >= max_clust => p.c \notin Cluster
      BY <1>1, FatAssumption DEF Cluster
    <3> QED
      BY <3>1, <3>2, <1>4
  <2> QED
    BY <2>1, <2>2 DEF Releasing
<1>5. CASE ~(p.v.err \/ p.c >= max_clust) /\ w.err
  <2>1. q = [p EXCEPT !.v = w]
    BY <1>5 DEF remove_next
  <2>2. ~T
    BY <1>2, <1>5
  <2>3. Releasing(u, R, T, k + 1, [p EXCEPT !.v = w])
    BY <1>1, <1>2, <2>2 DEF Releasing
  <2> QED
    BY <2>1, <2>3
<1>6. CASE ~(p.v.err \/ p.c >= max_clust) /\ ~w.err /\ p.c \notin Cluster
  <2>1. nxt = 1
    BY <1>6 DEF get_fat
  <2>2. q = [p EXCEPT !.v = fail(w)]
    BY <1>6, <2>1 DEF remove_next
  <2>3. ~T
    BY <1>6, FatAssumption DEF Releasing, EOC
  <2>4. /\ VolType(fail(w)) /\ Kept(u, fail(w)) /\ fail(w).fat = w.fat
        /\ fail(w).dir = w.dir /\ fail(w).disk = w.disk /\ fail(w).torn = w.torn
    <3>1. LET z == [w EXCEPT !.err = TRUE]
          IN VolType(z) /\ Kept(u, z) /\ z.fat = w.fat /\ z.dir = w.dir /\ z.disk = w.disk /\ z.torn = w.torn
      BY <1>1, <1>2 DEF VolType, VolFields, Kept
    <3> QED
      BY <3>1 DEF fail
  <2>5. Holds(fail(w), R)
    BY <2>4, <1>2, HoldsSame
  <2>6. Releasing(u, R, T, k + 1, [p EXCEPT !.v = fail(w)])
    BY <1>1, <1>2, <2>3, <2>4, <2>5 DEF Releasing
  <2> QED
    BY <2>2, <2>6
<1>7. CASE ~(p.v.err \/ p.c >= max_clust) /\ ~w.err /\ p.c \in Cluster
  <2> DEFINE g == [p.v.fat EXCEPT ![p.c] = 0]
             Q == R \cup ({nxt} \cap Cluster)
  <2>1. nxt = p.v.fat[p.c] /\ p.v.fat \in FAT /\ nxt \in Cluster \cup {0, EOC}
    BY <1>1, <1>2, <1>7 DEF get_fat, VolType, FAT
  <2>2. InOrder(p.v.fat, R \cup {p.c})
    <3>1. {p.c} \cap Cluster = {p.c}
      BY <1>7
    <3> QED
      BY <3>1 DEF Releasing
  <2>3. /\ g \in FAT /\ InOrder(g, Q) /\ nxt \notin R /\ nxt # 0
        /\ Covered(p.v.fat, R \cup {p.c}) => Covered(g, Q)
        /\ GrowOn(p.v.fat, g, R)
    BY <1>1, <1>7, <2>1, <2>2, OrderFree
  <2>4. (x.err /\ Moves(w, x)) \/ Put(w, x, [w.fat EXCEPT ![p.c] = 0])
    BY <1>1, <1>7, PutFat
  <2>5. q = IF x.err THEN [p EXCEPT !.v = x] ELSE [v |-> y, c |-> nxt]
    BY <1>7, <2>1, <2>3, Codes DEF remove_next
  <2> HIDE DEF x, w, nxt, g
  <2>6. CASE x.err
    <3>1. Moves(w, x)
      BY <2>4, <2>6 DEF Put
    <3>2. Kept(u, x) /\ Holds(x, R) /\ x.fat = p.v.fat
      BY <3>1, <1>2, HoldsMoves DEF Kept, Moves
    <3>3. ~T
      BY <3>1, <1>2, <1>7, <2>6 DEF Moves, Kept
    <3>4. Releasing(u, R, T, k + 1, [p EXCEPT !.v = x])
      BY <3>2, <3>3, <1>1 DEF Releasing
    <3> QED
      BY <2>5, <2>6, <3>4
  <2>7. CASE ~x.err
    <3>1. Put(w, x, x.fat) /\ x.fat = g /\ VolType(x) /\ x.free = w.free
      BY <2>4, <2>7, <1>2 DEF Put, g
    <3>2. InOrder(g, R) /\ HeadsIn(w.dir, R)
      BY <2>3, <1>2, OrderLess DEF Holds
    <3>3. Holds(x, R) /\ Kept(u, x)
      BY <3>1, <3>2, <1>1, <1>2, HoldsPut DEF Put, Kept
    <3>4. /\ VolType(y) /\ ~y.err /\ y.fat = x.fat /\ y.dir = x.dir /\ y.disk = x.disk /\ y.torn = x.torn /\ Kept(x, y)
          /\ y.free = IF x.free = UNKNOWN THEN UNKNOWN ELSE x.free + 1
      <4>1. x.free \in Int
        BY <3>1 DEF VolType
      <4>2. ASSUME NEW z \in Int
            PROVE  LET r == [x EXCEPT !.free = z]
                   IN /\ VolType(r) /\ ~r.err /\ r.fat = x.fat /\ r.dir = x.dir
                      /\ r.disk = x.disk /\ r.torn = x.torn /\ Kept(x, r) /\ r.free = z
        BY <3>1, <2>7 DEF VolType, VolFields, Kept
      <4>3. y = [x EXCEPT !.free = IF x.free = UNKNOWN THEN x.free ELSE x.free + 1]
        BY DEF count_free
      <4> HIDE DEF y
      <4> QED
        BY <4>1, <4>2, <4>3
    <3> HIDE DEF y
    <3>5. Kept(u, y) /\ Holds(y, R)
      BY <3>3, <3>4, HoldsSame DEF Kept
    <3>6. ASSUME T
          PROVE  /\ Tight(y, Q) /\ GrowOn(u.fat, y.fat, R)
                 /\ UsedCount(y.fat) + (k + 1) <= max_clust
      <4>1. Tight(p.v, R \cup {p.c}) /\ GrowOn(u.fat, p.v.fat, R) /\ UsedCount(p.v.fat) + k <= max_clust
        <5>1. {p.c} \cap Cluster = {p.c}
          BY <1>7
        <5> QED
          BY <5>1, <3>6, <1>7 DEF Releasing
      <4>2. p.v.fat[p.c] # 0
        BY <2>1, <2>3
      <4>3. UsedCount(g) = UsedCount(p.v.fat) - 1 /\ UsedCount(p.v.fat) \in Nat
        BY <4>2, <2>1, <1>7, UsedLess DEF g
      <4>4. n_free(y) = n_free(p.v) + 1 /\ n_free(p.v) \in Nat
        <5>1. n_free(y) = Cardinality(FreeSet(g)) /\ n_free(p.v) = Cardinality(FreeSet(p.v.fat))
          BY <3>1, <3>4 DEF n_free, FreeSet
        <5>2. Cardinality(FreeSet(g)) = Cardinality(FreeSet(p.v.fat)) + 1
          BY <4>2, <2>1, <1>7, FreeCount DEF g
        <5>3. Cardinality(FreeSet(p.v.fat)) \in Nat
          BY <2>1, <1>7, FreeCount
        <5> QED
          BY <5>1, <5>2, <5>3
      <4>5. y.free \in {UNKNOWN, n_free(y)}
        BY <4>1, <4>4, <3>1, <3>4, <1>2 DEF Tight
      <4>6. Covered(y.fat, Q) /\ GrowOn(u.fat, y.fat, R)
        BY <4>1, <2>3, <3>1, <3>4, GrowTrans DEF Tight
      <4>7. UsedCount(y.fat) + (k + 1) <= max_clust
        BY <4>1, <4>3, <3>1, <3>4, FatAssumption
      <4> QED
        BY <4>5, <4>6, <4>7 DEF Tight
    <3>7. nxt \in Nat /\ nxt \in Cluster \cup {EOC} /\ InOrder(y.fat, Q)
      BY <2>1, <2>3, <3>1, <3>4, Codes
    <3>8. Releasing(u, R, T, k + 1, [v |-> y, c |-> nxt])
      BY <3>4, <3>5, <3>6, <3>7, <2>3 DEF Releasing
    <3> QED
      BY <2>5, <2>7, <3>8
  <2> QED
    BY <2>6, <2>7
<1> QED
  BY <1>4, <1>5, <1>6, <1>7

(* remove_chain, as a row of turns *)
LEMMA RemoveLoop ==
  ASSUME NEW v, NEW c
  PROVE  \E f : /\ remove_chain(v, c) = f[max_clust].v /\ f[0] = [v |-> v, c |-> c]
               /\ \A k \in 0 .. max_clust : k # max_clust => f[k + 1] = remove_next(f[k])
<1> DEFINE s == [v |-> v, c |-> c]
<1>1. \A p : StepOf(<<"remove">>, p) = remove_next(p)
  BY DEF StepOf
<1>2. remove_chain(v, c) = TurnAt(<<"remove">>, max_clust, s).v
  BY <1>1 DEF repeat, TurnAt, remove_chain
<1> HIDE DEF s
<1>3. max_clust \in Nat
  BY FatAssumption
<1>4. \E f : /\ f[max_clust] = TurnAt(<<"remove">>, max_clust, s) /\ f[0] = s
            /\ \A k \in 0 .. max_clust : k # max_clust => f[k + 1] = StepOf(<<"remove">>, f[k])
  BY <1>3, LoopTurns
<1> QED
  BY <1>1, <1>2, <1>4 DEF s

(* Releasing a chain, wherever it stops, leaves the other chains in order; *)
(* if nothing fails all of it is free and counted.                         *)
LEMMA ReleaseChain ==
  ASSUME NEW u, NEW R, Holds(u, R), NEW c \in Cluster, c \notin R, InOrder(u.fat, R \cup {c}),
         NEW w, w = release_chain(u, c)
  PROVE  /\ Kept(u, w) /\ Holds(w, R)
         /\ u.faults = 0 /\ ~u.err /\ Tight(u, R \cup {c}) =>
              ~w.err /\ Tight(w, R) /\ GrowOn(u.fat, w.fat, R)
<1> DEFINE T == u.faults = 0 /\ ~u.err /\ Tight(u, R \cup {c})
           s == [v |-> u, c |-> c]
<1>1. max_clust \in Nat
  BY FatAssumption
<1>2. PICK f : /\ remove_chain(u, c) = f[max_clust].v /\ f[0] = s
               /\ \A k \in 0 .. max_clust : k # max_clust => f[k + 1] = remove_next(f[k])
  BY RemoveLoop
<1>3. w = f[max_clust].v
  BY <1>2 DEF release_chain
<1> DEFINE S == {k \in Nat : k <= max_clust => Releasing(u, R, T, k, f[k])}
<1>4. 0 \in S
  <2>1. {c} \cap Cluster = {c} /\ Kept(u, u) /\ GrowOn(u.fat, u.fat, R) /\ c \in Nat
    BY Codes DEF Kept, Holds, GrowOn
  <2>2. UsedCount(u.fat) + 0 <= max_clust
    BY UsedLess, FatAssumption DEF Holds, VolType
  <2>3. Releasing(u, R, T, 0, s)
    BY <2>1, <2>2 DEF Releasing
  <2> QED
    BY <2>3, <1>2
<1> HIDE DEF T, s
<1>5. ASSUME NEW k \in Nat, k \in S
      PROVE  k + 1 \in S
  <2>1. CASE k + 1 <= max_clust
    <3>1. k \in 0 .. max_clust /\ k # max_clust /\ k <= max_clust
      BY <2>1, <1>1
    <3>2. Releasing(u, R, T, k, f[k])
      BY <1>5, <3>1
    <3>3. Releasing(u, R, T, k + 1, remove_next(f[k]))
      BY <3>2, RemoveNext DEF T
    <3>4. f[k + 1] = remove_next(f[k])
      BY <1>2, <3>1
    <3> QED
      BY <3>3, <3>4
  <2> QED
    BY <2>1
<1>6. Nat \subseteq S
  <2> HIDE DEF S
  <2> QED
    BY <1>4, <1>5, CountUp
<1>7. Releasing(u, R, T, max_clust, f[max_clust])
  BY <1>1, <1>6
<1>8. ASSUME T PROVE f[max_clust].c \notin Cluster
  <2> DEFINE d == f[max_clust].c
             h == w.fat
  <2> SUFFICES ASSUME d \in Cluster PROVE FALSE
    OBVIOUS
  <2>1. UsedCount(h) + max_clust <= max_clust /\ h \in FAT /\ h[d] # 0
    <3>1. {d} \cap Cluster = {d}
      OBVIOUS
    <3> QED
      BY <3>1, <1>3, <1>7, <1>8 DEF Releasing, Holds, VolType, InOrder
  <2>2. [h EXCEPT ![d] = 0] \in FAT
    BY <2>1 DEF FAT
  <2>3. UsedCount([h EXCEPT ![d] = 0]) = UsedCount(h) - 1 /\ UsedCount(h) \in Nat
    BY <2>1, UsedLess
  <2>4. UsedCount([h EXCEPT ![d] = 0]) \in Nat
    BY <2>2, UsedLess
  <2> QED
    BY <2>1, <2>3, <2>4, <1>1
<1>9. T => R \cup ({f[max_clust].c} \cap Cluster) = R
  BY <1>8
<1> QED
  BY <1>3, <1>7, <1>9 DEF Releasing, T

-----------------------------------------------------------------------------
(* Transfers of data in a call on a file *)

(* The fields of a file object *)
FileFields == {"open", "slot", "flags", "org", "size", "ptr", "csect", "curr", "dsect", "buf"}

(* The type of a file object *)
FileType(p) ==
  /\ DOMAIN p = FileFields
  /\ p.open \in BOOLEAN /\ p.org \in Nat /\ p.size \in Nat /\ p.ptr \in Int /\ p.curr \in Nat /\ p.csect \in Int

(* The fields of the state of a call *)
CallFields == {"v", "fp", "got", "nsect", "left", "c"}

(* The type of the state of a call *)
CallType(s) ==
  /\ DOMAIN s = CallFields /\ VolType(s.v) /\ FileType(s.fp) /\ s.left \in Int /\ s.c \in Nat

(* What transfers of data, and moving the file pointer in a cluster, leave *)
(* alone                                                                   *)
Transfers(s, t) ==
  /\ CallType(t) /\ Moves(s.v, t.v)
  /\ t.fp.open = s.fp.open /\ t.fp.slot = s.fp.slot /\ t.fp.org = s.fp.org
  /\ t.fp.size = s.fp.size /\ t.fp.curr = s.fp.curr
  /\ "written" \in t.fp.flags <=> "written" \in s.fp.flags

(* Doing nothing is such a step. *)
LEMMA TransfersRefl == ASSUME NEW s, CallType(s) PROVE Transfers(s, s)
  BY MovesRefl DEF Transfers, CallType

(* Two of them are one. *)
LEMMA TransfersTrans ==
  ASSUME NEW s, NEW t, NEW u, Transfers(s, t), Transfers(t, u)
  PROVE  Transfers(s, u)
  BY MovesTrans DEF Transfers

(* The assignments that are such steps by themselves *)
LEMMA CallUpdates ==
  ASSUME NEW s, CallType(s), NEW x
  PROVE  /\ VolType(x) /\ Moves(s.v, x) => Transfers(s, [s EXCEPT !.v = x])
         /\ x \in Int => Transfers(s, [s EXCEPT !.left = x])
         /\ x \in Nat => Transfers(s, [s EXCEPT !.c = x])
         /\ Transfers(s, [s EXCEPT !.got = x])
         /\ Transfers(s, [s EXCEPT !.nsect = x])
         /\ Transfers(s, [s EXCEPT !.fp.buf = x])
         /\ Transfers(s, [s EXCEPT !.fp.dsect = x])
         /\ x \in Int => Transfers(s, [s EXCEPT !.fp.csect = x])
         /\ x \in Int => Transfers(s, [s EXCEPT !.fp.ptr = x])
         /\ ("written" \in x <=> "written" \in s.fp.flags) => Transfers(s, [s EXCEPT !.fp.flags = x])
<1>1. VolType(s.v) /\ Moves(s.v, s.v)
  BY MovesRefl DEF CallType
<1> QED
  BY <1>1 DEF Transfers, CallType, FileType, CallFields, FileFields

(* They keep the type of the call. *)
LEMMA TransfersType == ASSUME NEW s, NEW t, Transfers(s, t) PROVE CallType(t)
  BY DEF Transfers

(* So do transfers of the volume in a call. *)
LEMMA SetVolume ==
  ASSUME NEW s, CallType(s), NEW x, Moves(s.v, x)
  PROVE  Transfers(s, [s EXCEPT !.v = x]) /\ CallType([s EXCEPT !.v = x]) /\ [s EXCEPT !.v = x].v = x
<1>1. VolType(x)
  BY DEF Moves
<1>2. [s EXCEPT !.v = x].v = x
  BY DEF CallType, CallFields
<1> QED
  BY <1>1, <1>2, CallUpdates, TransfersType

(* ABORT after an error changes nothing that matters. *)
LEMMA AbortTransfers ==
  ASSUME NEW s, CallType(s), s.v.err
  PROVE  Transfers(s, abort(s))
<1> DEFINE x == [s.v EXCEPT !.err = TRUE]
           t == [s EXCEPT !.v = x]
           y == s.fp.flags \cup {"error"}
<1>1. Moves(s.v, x) /\ VolType(x)
  BY DEF CallType, VolType, VolFields, Moves
<1>2. Transfers(s, t)
  BY <1>1, CallUpdates
<1>3. CallType(t) /\ t.fp = s.fp
  BY <1>2 DEF Transfers, CallType, CallFields
<1>4. Transfers(t, [t EXCEPT !.fp.flags = y])
  BY <1>3, CallUpdates
<1>5. abort(s) = [t EXCEPT !.fp.flags = y]
  BY <1>3 DEF abort, CallType, CallFields
<1> QED
  BY <1>2, <1>4, <1>5, TransfersTrans

(* Filling the buffer of the file object *)
LEMMA ReadSector ==
  ASSUME NEW s, CallType(s), NEW sect
  PROVE  Transfers(s, read_sector(s, sect))
<1> DEFINE v1 == disk_op(s.v)
           t == [s EXCEPT !.v = v1]
           x == s.v.data[sect]
<1>1. Moves(s.v, v1) /\ VolType(v1)
  BY DiskOp DEF CallType, Moves
<1>2. Transfers(s, t) /\ CallType(t)
  BY <1>1, SetVolume
<1>3. Transfers(t, [t EXCEPT !.fp.buf = x])
  BY <1>2, CallUpdates
<1>4. read_sector(s, sect) = t \/ read_sector(s, sect) = [t EXCEPT !.fp.buf = x]
  BY DEF read_sector, CallType, CallFields
<1> QED
  BY <1>2, <1>3, <1>4, TransfersTrans

(* Writing it *)
LEMMA WriteSector ==
  ASSUME NEW s, CallType(s), NEW sect, NEW units
  PROVE  Transfers(s, write_sector(s, sect, units))
<1> DEFINE v1 == disk_op(s.v)
           w == [v1 EXCEPT !.data[sect] = units]
<1>1. Moves(s.v, v1) /\ VolType(v1)
  BY DiskOp DEF CallType, Moves
<1>2. Moves(v1, w)
  BY <1>1, Updates
<1>3. Moves(s.v, w) /\ VolType(w)
  BY <1>1, <1>2, MovesTrans DEF Moves
<1>4. write_sector(s, sect, units) = [s EXCEPT !.v = v1] \/ write_sector(s, sect, units) = [s EXCEPT !.v = w]
  BY DEF write_sector
<1> HIDE DEF v1, w
<1> QED
  BY <1>1, <1>3, <1>4, SetVolume

(* Writing it back if it is dirty *)
LEMMA Flush ==
  ASSUME NEW s, CallType(s)
  PROVE  Transfers(s, flush(s))
<1> DEFINE t == write_sector(s, s.fp.dsect, s.fp.buf)
           x == t.fp.flags \ {"dirty"}
<1>1. Transfers(s, t) /\ CallType(t)
  BY WriteSector, TransfersType
<1> HIDE DEF t
<1>2. Transfers(t, [t EXCEPT !.fp.flags = x])
  BY <1>1, CallUpdates
<1>3. Transfers(s, [t EXCEPT !.fp.flags = x])
  BY <1>1, <1>2, TransfersTrans
<1>4. flush(s) \in {s, t, [t EXCEPT !.fp.flags = x]}
  BY DEF flush, and_then, t
<1> QED
  BY <1>1, <1>3, <1>4, TransfersRefl

(* Taking it for the next sector *)
LEMMA AtSector ==
  ASSUME NEW s, CallType(s), NEW sect
  PROVE  Transfers(s, at_sector(s, sect))
<1> DEFINE t == [s EXCEPT !.fp.dsect = sect]
           x == t.fp.csect + 1
<1>1. Transfers(s, t) /\ CallType(t)
  BY CallUpdates, TransfersType
<1>2. Transfers(t, [t EXCEPT !.fp.csect = x])
  <2>1. x \in Int
    BY <1>1 DEF CallType, FileType
  <2> QED
    BY <1>1, <2>1, CallUpdates
<1>3. at_sector(s, sect) = [t EXCEPT !.fp.csect = x]
  BY DEF at_sector, CallType, CallFields, FileType, FileFields
<1> QED
  BY <1>1, <1>2, <1>3, TransfersTrans

(* What is transferred in one go is a number. *)
LEMMA ChunkType == ASSUME NEW s, CallType(s) PROVE chunk(s) \in Int
<1>1. s.v.ss \in Nat \ {0} /\ s.fp.ptr \in Int /\ s.left \in Int
  BY DEF CallType, VolType, FileType
<1>2. s.fp.ptr % s.v.ss \in Int
  BY <1>1
<1> QED
  BY <1>1, <1>2 DEF chunk

(* Moving the file pointer in a cluster *)
LEMMA Advance ==
  ASSUME NEW s, CallType(s), NEW k \in Int
  PROVE  Transfers(s, advance(s, k))
<1> DEFINE x == s.fp.ptr + k
           t == [s EXCEPT !.fp.ptr = x]
           y == s.left - k
<1>1. x \in Int /\ y \in Int
  BY DEF CallType, FileType
<1>2. Transfers(s, t) /\ CallType(t)
  BY <1>1, CallUpdates, TransfersType
<1>3. Transfers(t, [t EXCEPT !.left = y])
  BY <1>1, <1>2, CallUpdates
<1>4. advance(s, k) = [t EXCEPT !.left = y]
  BY DEF advance, CallType, CallFields, FileType, FileFields
<1> QED
  BY <1>2, <1>3, <1>4, TransfersTrans

(* Copying from the buffer *)
LEMMA CopyOut ==
  ASSUME NEW s, CallType(s)
  PROVE  Transfers(s, copy_out(s))
<1> DEFINE x == s.got \o SubSeq(s.fp.buf, (s.fp.ptr % s.v.ss) + 1, (s.fp.ptr % s.v.ss) + chunk(s))
           t == [s EXCEPT !.got = x]
<1>1. Transfers(s, t) /\ CallType(t)
  BY CallUpdates, TransfersType
<1>2. Transfers(t, advance(t, chunk(s)))
  BY <1>1, Advance, ChunkType
<1>3. copy_out(s) = advance(t, chunk(s))
  BY DEF copy_out
<1> QED
  BY <1>1, <1>2, <1>3, TransfersTrans

(* Reading whole sectors past it *)
LEMMA ReadDirect ==
  ASSUME NEW s, CallType(s), NEW sect
  PROVE  Transfers(s, read_direct(s, sect))
<1> DEFINE v1 == disk_op(s.v)
           t1 == [s EXCEPT !.v = v1]
           x == s.got \o (IF "dirty" \in s.fp.flags /\ s.fp.dsect = sect THEN s.fp.buf ELSE s.v.data[sect])
           t2 == [t1 EXCEPT !.got = x]
           y == t2.fp.csect + 1
           t3 == [t2 EXCEPT !.fp.csect = y]
<1>1. Moves(s.v, v1) /\ VolType(v1)
  BY DiskOp DEF CallType, Moves
<1>2. Transfers(s, t1) /\ CallType(t1) /\ t1.v = v1
  BY <1>1, SetVolume
<1>3. Transfers(s, t2) /\ CallType(t2)
  BY <1>2, CallUpdates, TransfersType, TransfersTrans
<1>4. Transfers(s, t3) /\ CallType(t3)
  <2>1. y \in Int
    BY <1>3 DEF CallType, FileType
  <2>2. Transfers(t2, t3)
    BY <1>3, <2>1, CallUpdates
  <2> QED
    BY <1>3, <2>2, TransfersType, TransfersTrans
<1>5. s.v.ss \in Int
  BY DEF CallType, VolType
<1>6. Transfers(s, advance(t3, s.v.ss))
  BY <1>4, <1>5, Advance, TransfersTrans
<1>7. v1.err => Transfers(s, abort(t1))
  BY <1>2, AbortTransfers, TransfersTrans
<1>8. t3 = [s EXCEPT !.v = v1, !.got = x, !.fp.csect = @ + 1]
  BY DEF CallType, CallFields, FileType, FileFields
<1>9. read_direct(s, sect) = IF v1.err THEN abort(t1) ELSE advance(t3, s.v.ss)
  BY <1>8 DEF read_direct
<1> QED
  BY <1>6, <1>7, <1>9

(* Reading a sector through it *)
LEMMA ReadBuffered ==
  ASSUME NEW s, CallType(s), NEW sect
  PROVE  Transfers(s, read_buffered(s, sect))
<1> DEFINE t == flush(s)
           u == IF t.v.err \/ t.fp.dsect = sect THEN t ELSE read_sector(t, sect)
<1>1. Transfers(s, t) /\ CallType(t)
  BY Flush, TransfersType
<1> HIDE DEF t
<1>2. Transfers(s, u) /\ CallType(u)
  BY <1>1, ReadSector, TransfersTrans, TransfersType
<1>3. read_buffered(s, sect) = IF u.v.err THEN abort(u) ELSE at_sector(u, sect)
  BY DEF read_buffered, and_then, or_abort, t
<1> HIDE DEF u
<1>4. u.v.err => Transfers(u, abort(u))
  BY <1>2, AbortTransfers
<1>5. Transfers(u, at_sector(u, sect))
  BY <1>2, AtSector
<1> QED
  BY <1>2, <1>3, <1>4, <1>5, TransfersTrans

(* Copying to the buffer *)
LEMMA CopyIn ==
  ASSUME NEW s, CallType(s), NEW u
  PROVE  Transfers(s, copy_in(s, u))
<1> DEFINE o == s.fp.ptr % s.v.ss
           x == [i \in 1 .. s.v.ss |-> IF i \in o + 1 .. o + chunk(s) THEN unit_left(s, u, i - o) ELSE s.fp.buf[i]]
           t1 == [s EXCEPT !.fp.buf = x]
           y == t1.fp.flags \cup {"dirty"}
           t2 == [t1 EXCEPT !.fp.flags = y]
<1>1. Transfers(s, t1) /\ CallType(t1)
  BY CallUpdates, TransfersType
<1> HIDE DEF x
<1>2. t2 = [s EXCEPT !.fp.buf = x, !.fp.flags = @ \cup {"dirty"}]
  BY DEF CallType, CallFields, FileType, FileFields
<1>3. copy_in(s, u) = advance(t2, chunk(s))
  BY <1>2 DEF copy_in, x
<1> HIDE DEF t1
<1>4. Transfers(t1, t2)
  BY <1>1, CallUpdates
<1>5. Transfers(s, t2) /\ CallType(t2)
  BY <1>1, <1>4, TransfersTrans, TransfersType
<1>6. Transfers(t2, advance(t2, chunk(s)))
  BY <1>5, Advance, ChunkType
<1> QED
  BY <1>3, <1>5, <1>6, TransfersTrans

(* Writing whole sectors past it *)
LEMMA WriteDirect ==
  ASSUME NEW s, CallType(s), NEW sect, NEW u
  PROVE  Transfers(s, write_direct(s, sect, u))
<1> DEFINE units == [i \in 1 .. s.v.ss |-> unit_left(s, u, i)]
           t == write_sector(s, sect, units)
           r1 == [t EXCEPT !.fp.buf = units]
           y == r1.fp.flags \ {"dirty"}
           r2 == [r1 EXCEPT !.fp.flags = y]
           r == IF t.fp.dsect # sect THEN t ELSE r2
           z == r.fp.csect + 1
           q == [r EXCEPT !.fp.csect = z]
<1>1. Transfers(s, t) /\ CallType(t)
  BY WriteSector, TransfersType
<1>2. write_direct(s, sect, u)
        = IF t.v.err THEN abort(t)
          ELSE advance([IF t.fp.dsect # sect THEN t ELSE [t EXCEPT !.fp.buf = units, !.fp.flags = @ \ {"dirty"}]
                        EXCEPT !.fp.csect = @ + 1], s.v.ss)
  BY DEF write_direct, or_abort
<1> HIDE DEF t, units
<1>3. Transfers(t, r1) /\ CallType(r1)
  BY <1>1, CallUpdates, TransfersType
<1>4. r2 = [t EXCEPT !.fp.buf = units, !.fp.flags = @ \ {"dirty"}]
  BY <1>1 DEF CallType, CallFields, FileType, FileFields
<1>5. write_direct(s, sect, u) = IF t.v.err THEN abort(t) ELSE advance(q, s.v.ss)
  BY <1>2, <1>4
<1> HIDE DEF r1
<1>6. Transfers(r1, r2)
  BY <1>3, CallUpdates
<1>7. Transfers(t, r) /\ CallType(r)
  BY <1>1, <1>3, <1>6, TransfersTrans, TransfersType, TransfersRefl
<1> HIDE DEF r
<1>8. Transfers(r, q) /\ CallType(q)
  <2>1. z \in Int
    BY <1>7 DEF CallType, FileType
  <2> QED
    BY <1>7, <2>1, CallUpdates, TransfersType
<1> HIDE DEF q
<1>9. Transfers(q, advance(q, s.v.ss))
  BY <1>8, Advance DEF CallType, VolType
<1>10. t.v.err => Transfers(t, abort(t))
  BY <1>1, AbortTransfers
<1> QED
  BY <1>1, <1>5, <1>7, <1>8, <1>9, <1>10, TransfersTrans

(* Writing a sector through it *)
LEMMA WriteBuffered ==
  ASSUME NEW s, CallType(s), NEW sect
  PROVE  Transfers(s, write_buffered(s, sect))
<1> DEFINE u == IF s.fp.dsect # sect /\ s.fp.ptr < s.fp.size THEN read_sector(s, sect) ELSE s
<1>1. Transfers(s, u) /\ CallType(u)
  BY ReadSector, TransfersRefl, TransfersType
<1>2. write_buffered(s, sect) = IF u.v.err THEN abort(u) ELSE at_sector(u, sect)
  BY DEF write_buffered, or_abort
<1> HIDE DEF u
<1>3. u.v.err => Transfers(u, abort(u))
  BY <1>1, AbortTransfers
<1>4. Transfers(u, at_sector(u, sect))
  BY <1>1, AtSector
<1> QED
  BY <1>1, <1>2, <1>3, <1>4, TransfersTrans

-----------------------------------------------------------------------------
(* The invariant of a call on a file, and f_read *)

(* The head of the chain of a file, if it has one *)
Own(p) == {p.org} \cap Cluster

(* A file object between two calls: its file pointer is at the start, or   *)
(* in a cluster of the chain. read_cluster and write_cluster rely on this  *)
(* when they go on from curr.                                              *)
Quiet(v, p) ==
  /\ p.org \in Cluster \cup {0} /\ (p.org = 0 => p.size = 0)
  /\ p.ptr # 0 \/ p.csect < v.csize => p.curr \in clusters(v.fat, p.org)

(* What holds during a call on the file of entry x.k, of a volume whose    *)
(* FAT was x.fat and directory x.dir: x.heads are the first clusters of    *)
(* the other files, of which the call must keep off.                       *)
CallInv(x, s) ==
  /\ CallType(s) /\ s.fp.open /\ s.fp.slot = x.k /\ s.v.dir = x.dir /\ s.v.csize = x.csize
  /\ s.fp.org \notin x.heads
  /\ Holds(s.v, x.heads \cup Own(s.fp))
  /\ x.dir[x.k].org \in Cluster => x.dir[x.k].org = s.fp.org
  /\ s.v.faults = 0 =>
       /\ Tight(s.v, x.heads \cup Own(s.fp)) /\ GrowOn(x.fat, s.v.fat, x.heads)
       /\ Quiet(s.v, s.fp)

(* The current cluster is in the chain of the file. *)
InChain(s) == s.v.faults = 0 => s.fp.curr \in clusters(s.v.fat, s.fp.org)

(* The entry of the file needs no change. *)
SameFile(s, t) ==
  /\ t.fp.org = s.fp.org /\ t.fp.size = s.fp.size
  /\ "written" \in t.fp.flags <=> "written" \in s.fp.flags
  /\ t.v.faults = s.v.faults

(* Transfers of data keep the invariant of a call. *)
LEMMA CallTransfers ==
  ASSUME NEW x, NEW s, NEW t, CallInv(x, s), Transfers(s, t), InChain(s)
  PROVE  CallInv(x, t) /\ InChain(t) /\ SameFile(s, t)
<1>1. Holds(t.v, x.heads \cup Own(t.fp))
  BY HoldsMoves DEF CallInv, Transfers, Own
<1>2. SameFile(s, t) /\ InChain(t)
  BY DEF SameFile, InChain, Transfers, Moves
<1>3. t.v.faults = 0 => Tight(t.v, x.heads \cup Own(t.fp)) /\ GrowOn(x.fat, t.v.fat, x.heads)
  BY DEF CallInv, Transfers, Moves, Tight, n_free, Own
<1>4. t.v.faults = 0 => Quiet(t.v, t.fp)
  BY <1>2 DEF CallInv, Transfers, Moves, Quiet, InChain
<1> QED
  BY <1>1, <1>2, <1>3, <1>4 DEF CallInv, Transfers, Moves

(* A step that changes only the volume, outside transfers of data *)
LEMMA CallMoves ==
  ASSUME NEW x, NEW s, CallInv(x, s), NEW w, Moves(s.v, w)
  PROVE  LET t == [s EXCEPT !.v = w]
         IN CallInv(x, t) /\ SameFile(s, t) /\ (InChain(s) => InChain(t)) /\ t.v = w /\ t.fp = s.fp
<1> DEFINE t == [s EXCEPT !.v = w]
<1>1. Transfers(s, t) /\ CallType(t) /\ t.v = w
  BY SetVolume DEF CallInv
<1>2. t.fp = s.fp
  BY DEF CallInv, CallType, CallFields
<1>3. Holds(t.v, x.heads \cup Own(t.fp))
  BY <1>1, <1>2, HoldsMoves DEF CallInv
<1>4. SameFile(s, t) /\ (InChain(s) => InChain(t))
  BY <1>1, <1>2 DEF SameFile, InChain, Moves
<1>5. t.v.faults = 0 => /\ Tight(t.v, x.heads \cup Own(t.fp)) /\ GrowOn(x.fat, t.v.fat, x.heads)
                        /\ Quiet(t.v, t.fp)
  BY <1>1, <1>2 DEF CallInv, Moves, Tight, n_free, Quiet
<1> QED
  BY <1>1, <1>2, <1>3, <1>4, <1>5 DEF CallInv, Moves

(* Setting err keeps it too, *)
LEMMA CallFail ==
  ASSUME NEW x, NEW s, CallInv(x, s)
  PROVE  LET t == [s EXCEPT !.v = [s.v EXCEPT !.err = TRUE]]
         IN /\ CallInv(x, t) /\ SameFile(s, t) /\ t.v.err /\ t.v.fat = s.v.fat /\ t.fp = s.fp
<1> DEFINE w == [s.v EXCEPT !.err = TRUE]
           t == [s EXCEPT !.v = w]
<1>1. VolType(s.v) /\ CallType(s)
  BY DEF CallInv, CallType
<1>2. /\ VolType(w) /\ w.err /\ w.fat = s.v.fat /\ w.dir = s.v.dir /\ w.disk = s.v.disk /\ w.torn = s.v.torn /\ w.free = s.v.free
      /\ w.csize = s.v.csize /\ w.faults = s.v.faults
  BY <1>1 DEF VolType, VolFields
<1> HIDE DEF w
<1>3. t.v = w /\ t.fp = s.fp /\ CallType(t)
  BY <1>1, <1>2 DEF CallType, CallFields
<1> HIDE DEF t
<1>4. Holds(w, x.heads \cup Own(t.fp))
  BY <1>2, <1>3, HoldsSame DEF CallInv
<1>5. SameFile(s, t)
  BY <1>2, <1>3 DEF SameFile
<1>6. w.faults = 0 => /\ Tight(w, x.heads \cup Own(t.fp)) /\ GrowOn(x.fat, w.fat, x.heads)
                      /\ Quiet(w, t.fp)
  BY <1>2, <1>3 DEF CallInv, Tight, n_free, Quiet
<1>7. CallInv(x, t)
  BY <1>2, <1>3, <1>4, <1>6 DEF CallInv
<1> QED
  BY <1>2, <1>3, <1>5, <1>7 DEF t, w

(* as do changes of the flags, *)
LEMMA CallMark ==
  ASSUME NEW x, NEW s, CallInv(x, s), NEW y, NEW t, t = [s EXCEPT !.fp.flags = y]
  PROVE  /\ CallInv(x, t) /\ t.v = s.v /\ t.fp.flags = y /\ t.fp.org = s.fp.org
         /\ t.fp.size = s.fp.size /\ t.fp.ptr = s.fp.ptr
<1>1. /\ CallType(t) /\ t.v = s.v /\ t.fp.open = s.fp.open /\ t.fp.slot = s.fp.slot /\ t.fp.org = s.fp.org
      /\ t.fp.size = s.fp.size /\ t.fp.ptr = s.fp.ptr /\ t.fp.curr = s.fp.curr /\ t.fp.flags = y
      /\ t.fp.csect = s.fp.csect
  BY DEF CallInv, CallType, CallFields, FileType, FileFields
<1>2. CallInv(x, t)
  BY <1>1 DEF CallInv, Quiet, Own
<1> QED
  BY <1>1, <1>2

(* and the mark of f_write, *)
LEMMA CallMarked ==
  ASSUME NEW x, NEW s, CallInv(x, s)
  PROVE  LET y == s.fp.flags \cup {"written"}
             t == [s EXCEPT !.fp.flags = y]
         IN CallInv(x, t) /\ t.v = s.v /\ t.fp.flags = y
<1> DEFINE y == s.fp.flags \cup {"written"}
<1> HIDE DEF y
<1> QED
  BY CallMark DEF y

(* and ABORT. *)
LEMMA CallAbort ==
  ASSUME NEW x, NEW s, CallInv(x, s)
  PROVE  LET t == abort(s)
         IN CallInv(x, t) /\ SameFile(s, t) /\ t.v.err /\ t.v.fat = s.v.fat
<1> DEFINE t1 == [s EXCEPT !.v = [s.v EXCEPT !.err = TRUE]]
           y == t1.fp.flags \cup {"error"}
           t == [t1 EXCEPT !.fp.flags = y]
<1>1. CallInv(x, t1) /\ SameFile(s, t1) /\ t1.v.err /\ t1.v.fat = s.v.fat /\ t1.fp = s.fp
  BY CallFail
<1>2. abort(s) = t
  BY DEF abort, CallInv, CallType, CallFields
<1> HIDE DEF t1, y
<1>3. CallInv(x, t) /\ t.v = t1.v /\ t.fp.flags = y /\ t.fp.org = t1.fp.org /\ t.fp.size = t1.fp.size
  <2>1. CallInv(x, t1) /\ t = [t1 EXCEPT !.fp.flags = y]
    BY <1>1
  <2> HIDE DEF t
  <2> QED
    BY <2>1, CallMark
<1> HIDE DEF t
<1>4. SameFile(s, t)
  BY <1>1, <1>3 DEF SameFile, y
<1> QED
  BY <1>1, <1>2, <1>3, <1>4

(* Going to a cluster of the chain; a number that is no cluster is an      *)
(* error.                                                                  *)
LEMMA AtCluster ==
  ASSUME NEW x, NEW s, CallInv(x, s), NEW c \in Nat,
         s.v.faults = 0 /\ c \in Cluster => c \in clusters(s.v.fat, s.fp.org)
  PROVE  LET t == at_cluster(s, c)
         IN /\ CallInv(x, t) /\ SameFile(s, t)
            /\ c \in Cluster => t.v = s.v /\ InChain(t) /\ t.fp.ptr = s.fp.ptr
            /\ c \notin Cluster => t.v.err
<1> DEFINE t == [s EXCEPT !.fp.curr = c, !.fp.csect = 0]
<1>1. c \in Cluster => at_cluster(s, c) = t
  BY DEF at_cluster
<1>2. c \notin Cluster => at_cluster(s, c) = abort(s)
  BY DEF at_cluster
<1>3. /\ CallType(t) /\ t.v = s.v /\ t.fp.open = s.fp.open /\ t.fp.slot = s.fp.slot /\ t.fp.org = s.fp.org
      /\ t.fp.size = s.fp.size /\ t.fp.ptr = s.fp.ptr /\ t.fp.curr = c /\ t.fp.flags = s.fp.flags
  <2> DEFINE q == [s.fp EXCEPT !.curr = c, !.csect = 0]
  <2>1. CallType(s) /\ FileType(s.fp)
    BY DEF CallInv, CallType
  <2>2. DOMAIN q = FileFields /\ q.curr = c /\ q.csect = 0
        /\ \A f \in FileFields \ {"curr", "csect"} : q[f] = s.fp[f]
    BY <2>1 DEF FileType, FileFields
  <2>3. t.fp = q /\ t.v = s.v /\ t.left = s.left /\ t.c = s.c /\ DOMAIN t = CallFields
    BY <2>1 DEF CallType, CallFields
  <2> HIDE DEF q, t
  <2>4. FileType(q)
    <3>1. 0 \in Int /\ c \in Nat
      OBVIOUS
    <3>2. q.open = s.fp.open /\ q.org = s.fp.org /\ q.size = s.fp.size /\ q.ptr = s.fp.ptr
      BY <2>2 DEF FileFields
    <3> QED
      BY <2>1, <2>2, <3>1, <3>2 DEF FileType
  <2> QED
    BY <2>1, <2>2, <2>3, <2>4 DEF CallType, FileFields
<1> HIDE DEF t
<1>4. ASSUME c \in Cluster
      PROVE  CallInv(x, t) /\ SameFile(s, t) /\ InChain(t)
  BY <1>3, <1>4 DEF CallInv, SameFile, InChain, Quiet, Own
<1> QED
  BY <1>1, <1>2, <1>3, <1>4, CallAbort

(* Entries of the FAT are numbers. *)
LEMMA FatNat == ASSUME NEW f \in FAT, NEW c \in Cluster PROVE f[c] \in Nat
<1>1. f[c] \in Cluster \cup {0, EOC}
  BY DEF FAT
<1>2. EOC \in Nat /\ \A d \in Cluster : d \in Nat
  BY Codes
<1> QED
  BY <1>1, <1>2

(* f_read goes on to the next cluster of the chain of its own file. *)
LEMMA ReadCluster ==
  ASSUME NEW x, NEW s, CallInv(x, s)
  PROVE  LET t == read_cluster(s)
         IN CallInv(x, t) /\ SameFile(s, t) /\ (~t.v.err => InChain(t))
<1>1. s.fp.org \in Nat /\ s.fp.curr \in Nat /\ VolType(s.v) /\ s.v.fat \in FAT
  BY DEF CallInv, CallType, FileType, VolType
<1>2. CASE s.fp.csect < s.v.csize
  <2>1. read_cluster(s) = s
    BY <1>2 DEF read_cluster
  <2>2. SameFile(s, s) /\ InChain(s)
    BY <1>2 DEF SameFile, CallInv, Quiet, InChain
  <2> QED
    BY <2>1, <2>2
<1>3. CASE ~(s.fp.csect < s.v.csize) /\ s.fp.ptr = 0
  <2>1. read_cluster(s) = at_cluster(s, s.fp.org)
    BY <1>3 DEF read_cluster
  <2>2. s.fp.org \in Cluster => s.fp.org \in clusters(s.v.fat, s.fp.org)
    BY ChainClosed DEF Closed
  <2> QED
    BY <1>1, <2>1, <2>2, AtCluster
<1>4. CASE ~(s.fp.csect < s.v.csize) /\ s.fp.ptr # 0
  <2> DEFINE w == read_fat(s.v, s.fp.curr)
             t == [s EXCEPT !.v = w]
             c == get_fat(w, s.fp.curr)
  <2>1. Moves(s.v, w) /\ w.fat = s.v.fat
    BY <1>1, ReadFat DEF Moves
  <2>2. CallInv(x, t) /\ SameFile(s, t) /\ t.v = w /\ t.fp = s.fp
    BY <2>1, CallMoves
  <2>3. read_cluster(s) = at_cluster(t, c)
    BY <1>4, <2>2 DEF read_cluster
  <2>4. c \in {1, DISK_ERR} \/ (s.fp.curr \in Cluster /\ c = s.v.fat[s.fp.curr])
    BY <2>1 DEF get_fat
  <2>5. c \in Nat
    <3>1. s.fp.curr \in Cluster => s.v.fat[s.fp.curr] \in Nat
      BY <1>1, FatNat
    <3> HIDE DEF c
    <3> QED
      BY <2>4, <3>1, Codes
  <2>6. ASSUME s.v.faults = 0, c \in Cluster
        PROVE  c \in clusters(s.v.fat, s.fp.org)
    <3>1. s.fp.curr \in clusters(s.v.fat, s.fp.org) /\ s.fp.org \in Cluster
      BY <1>4, <2>6, ChainIn DEF CallInv, Quiet
    <3>2. c = s.v.fat[s.fp.curr]
      BY <2>4, <2>6, Codes
    <3> QED
      BY <3>1, <3>2, <2>6, ChainClosed DEF Closed
  <2> HIDE DEF t, c, w
  <2>7. /\ CallInv(x, at_cluster(t, c)) /\ SameFile(t, at_cluster(t, c))
        /\ (~at_cluster(t, c).v.err => InChain(at_cluster(t, c)))
    BY <2>1, <2>2, <2>5, <2>6, AtCluster DEF SameFile
  <2>8. SameFile(s, at_cluster(t, c))
    BY <2>2, <2>7 DEF SameFile
  <2> QED
    BY <2>3, <2>7, <2>8
<1> QED
  BY <1>2, <1>3, <1>4

(* The invariant of a call speaks of the volume and the file object only. *)
LEMMA CallSame ==
  ASSUME NEW x, NEW s, CallInv(x, s), NEW t, CallType(t), t.v = s.v, t.fp = s.fp
  PROVE  CallInv(x, t) /\ SameFile(s, t) /\ (InChain(s) => InChain(t))
  BY DEF CallInv, SameFile, InChain

(* What a call counts in its other fields does not touch these. *)
LEMMA SetFields ==
  ASSUME NEW s, CallType(s), NEW y
  PROVE  /\ y \in Int => LET t == [s EXCEPT !.left = y] IN CallType(t) /\ t.v = s.v /\ t.fp = s.fp /\ t.left = y
         /\ LET t == [s EXCEPT !.nsect = y] IN CallType(t) /\ t.v = s.v /\ t.fp = s.fp /\ t.left = s.left
         /\ y \in Nat => LET t == [s EXCEPT !.c = y]
                        IN CallType(t) /\ t.v = s.v /\ t.fp = s.fp /\ t.c = y /\ t.left = s.left
  BY DEF CallType, CallFields

(* If the entry needs no change after two steps, it needs none. *)
LEMMA SameFileTrans ==
  ASSUME NEW s, NEW t, NEW u, SameFile(s, t), SameFile(t, u) PROVE SameFile(s, u)
  BY DEF SameFile

(* A turn of the loop of f_read *)
LEMMA ReadNext ==
  ASSUME NEW x, NEW s, CallInv(x, s)
  PROVE  LET t == read_next(s) IN CallInv(x, t) /\ SameFile(s, t)
<1>1. CallType(s)
  BY DEF CallInv
<1>2. CASE s.left = 0 \/ s.v.err
  BY <1>2 DEF read_next, SameFile
<1>3. CASE ~(s.left = 0 \/ s.v.err) /\ s.fp.ptr % s.v.ss # 0
  <2>1. read_next(s) = copy_out(s)
    BY <1>3 DEF read_next
  <2>2. InChain(s)
    <3>1. s.v.ss \in Nat \ {0}
      BY <1>1 DEF CallType, VolType
    <3>2. s.fp.ptr # 0
      BY <1>3, <3>1
    <3> QED
      BY <3>2 DEF InChain, CallInv, Quiet
  <2> QED
    BY <1>1, <2>1, <2>2, CopyOut, CallTransfers
<1>4. CASE ~(s.left = 0 \/ s.v.err) /\ s.fp.ptr % s.v.ss = 0
  <2> DEFINE r == read_cluster(s)
             sect == clust2sect(r.fp.curr, r.fp.csect)
             q == read_buffered(r, sect)
  <2>1. CallInv(x, r) /\ SameFile(s, r) /\ (~r.v.err => InChain(r)) /\ CallType(r)
    BY ReadCluster DEF CallInv
  <2>2. read_next(s) = IF r.v.err THEN r
                       ELSE IF r.left >= r.v.ss THEN read_direct(r, sect)
                       ELSE IF q.v.err THEN q ELSE copy_out(q)
    BY <1>4 DEF read_next, and_then
  <2> HIDE DEF r, sect
  <2>3. Transfers(r, read_direct(r, sect))
    BY <2>1, ReadDirect
  <2>4. Transfers(r, q) /\ CallType(q)
    BY <2>1, ReadBuffered, TransfersType
  <2> HIDE DEF q
  <2>5. Transfers(r, copy_out(q))
    BY <2>4, CopyOut, TransfersTrans
  <2>6. r.v.err \/ Transfers(r, read_next(s))
    BY <2>2, <2>3, <2>4, <2>5
  <2> QED
    BY <2>1, <2>2, <2>6, CallTransfers, SameFileTrans
<1> QED
  BY <1>2, <1>3, <1>4

(* The loop *)
ReadAll(n, s) == repeat(n, s, read_next)

(* It is a row of turns, *)
LEMMA ReadLoop ==
  ASSUME NEW n \in Nat, NEW s
  PROVE  \E f : /\ f[n] = ReadAll(n, s) /\ f[0] = s
               /\ \A k \in 0 .. n : k # n => f[k + 1] = read_next(f[k])
<1>1. \A p : StepOf(<<"read">>, p) = read_next(p)
  BY DEF StepOf
<1>2. ReadAll(n, s) = TurnAt(<<"read">>, n, s)
  BY <1>1 DEF repeat, TurnAt, ReadAll
<1>3. \E f : /\ f[n] = TurnAt(<<"read">>, n, s) /\ f[0] = s
            /\ \A k \in 0 .. n : k # n => f[k + 1] = StepOf(<<"read">>, f[k])
  BY LoopTurns
<1> QED
  BY <1>1, <1>2, <1>3

(* so f_read keeps the invariant of a call, and the entry of the file. *)
LEMMA Read ==
  ASSUME NEW x, NEW s, CallInv(x, s), NEW n \in Nat
  PROVE  LET t == f_read(s, n) IN CallInv(x, t) /\ SameFile(s, t)
<1> DEFINE remain == s.fp.size - s.fp.ptr
           m == IF n > remain THEN remain ELSE n
           s0 == [s EXCEPT !.left = m]
<1>1. CallType(s) /\ m \in Int
  BY DEF CallInv, CallType, FileType
<1>2. CASE "error" \in s.fp.flags \/ "r" \notin s.fp.flags
  <2> DEFINE w == [s.v EXCEPT !.err = TRUE]
  <2>1. f_read(s, n) = [s EXCEPT !.v = w]
    BY <1>2, <1>1 DEF f_read, CallType, CallFields
  <2> QED
    BY <2>1, CallFail
<1>3. CASE ~("error" \in s.fp.flags \/ "r" \notin s.fp.flags)
  <2>1. f_read(s, n) = ReadAll(n, s0)
    BY <1>3 DEF f_read, ReadAll
  <2> HIDE DEF m
  <2>2. CallInv(x, s0) /\ SameFile(s, s0)
    BY <1>1, SetFields, CallSame
  <2> HIDE DEF s0
  <2>3. PICK f : /\ f[n] = ReadAll(n, s0) /\ f[0] = s0
                 /\ \A k \in 0 .. n : k # n => f[k + 1] = read_next(f[k])
    BY ReadLoop
  <2> DEFINE S == {k \in Nat : k <= n => CallInv(x, f[k]) /\ SameFile(s, f[k])}
  <2>4. 0 \in S
    BY <2>2, <2>3
  <2>5. ASSUME NEW k \in Nat, k \in S
        PROVE  k + 1 \in S
    <3>1. CASE k + 1 <= n
      <4>1. k \in 0 .. n /\ k # n /\ k <= n
        BY <3>1
      <4>2. CallInv(x, f[k]) /\ SameFile(s, f[k])
        BY <2>5, <4>1
      <4>3. f[k + 1] = read_next(f[k])
        BY <2>3, <4>1
      <4>4. CallInv(x, f[k + 1]) /\ SameFile(s, f[k + 1])
        BY <4>2, <4>3, ReadNext, SameFileTrans
      <4> QED
        BY <4>4
    <3> QED
      BY <3>1
  <2>6. Nat \subseteq S
    <3> HIDE DEF S
    <3> QED
      BY <2>4, <2>5, CountUp
  <2> QED
    BY <2>1, <2>3, <2>6
<1> QED
  BY <1>2, <1>3

-----------------------------------------------------------------------------
(* f_write *)

(* A step that takes clusters keeps the invariant of a call if the FAT     *)
(* stays in order for the heads of all files, and the other chains do not  *)
(* shrink.                                                                 *)
LEMMA CallGrow ==
  ASSUME NEW x, NEW s, CallInv(x, s), NEW t, CallType(t), Kept(s.v, t.v),
         t.fp.open, t.fp.slot = x.k, t.fp.org \notin x.heads, Holds(t.v, x.heads \cup Own(t.fp)),
         x.dir[x.k].org \in Cluster => x.dir[x.k].org = t.fp.org,
         t.v.faults = 0 => /\ Tight(t.v, x.heads \cup Own(t.fp))
                           /\ GrowOn(s.v.fat, t.v.fat, x.heads) /\ Quiet(t.v, t.fp)
  PROVE  CallInv(x, t)
  BY GrowTrans DEF CallInv, Kept

(* What a step of f_write keeps *)
Writes(s, t) ==
  /\ t.fp.size = s.fp.size /\ t.v.faults = s.v.faults
  /\ s.v.faults = 0 /\ ~s.v.err => ~t.v.err

(* Two such steps are one. *)
LEMMA WritesTrans == ASSUME NEW s, NEW t, NEW u, Writes(s, t), Writes(t, u) PROVE Writes(s, u)
  BY DEF Writes

(* Transfers of data are such steps. *)
LEMMA WritesTransfers == ASSUME NEW s, NEW t, Transfers(s, t) PROVE Writes(s, t)
  BY DEF Writes, Transfers, Moves

(* A first cluster for a file without one becomes the head of its chain. *)
LEMMA GrowFirst ==
  ASSUME NEW x, NEW s, CallInv(x, s), s.v.faults = 0 => ~s.v.err, s.fp.org = 0, s.fp.ptr = 0,
         ~(s.fp.csect < s.v.csize), NEW r, r = create_chain(s.v, 0),
         NEW t, CallType(t), t.v = r[1], t.fp.org = r[2], t.fp.open = s.fp.open, t.fp.slot = s.fp.slot,
         t.fp.size = s.fp.size, t.fp.ptr = s.fp.ptr, t.fp.csect = s.fp.csect
  PROVE  /\ CallInv(x, t) /\ Writes(s, t) /\ r[2] \in Nat
         /\ r[2] \in Cluster => r[2] \in clusters(t.v.fat, t.fp.org)
         /\ t.v.faults = 0 => r[2] \in Cluster \cup {0} /\ ~r[1].err
<1> DEFINE R == x.heads \cup Own(s.fp)
<1>1. R = x.heads /\ x.heads \subseteq Cluster /\ Holds(s.v, x.heads)
  BY Codes DEF Own, CallInv, Holds
<1>2. Grown(s.v, x.heads, 0, r)
  BY <1>1, CreateChain
<1>3. Kept(s.v, t.v) /\ r[2] \in Nat /\ r[2] \notin x.heads /\ Own(t.fp) = {r[2]} \cap Cluster
  BY <1>1, <1>2 DEF Grown, Own
<1>4. Holds(t.v, x.heads \cup Own(t.fp))
  <2>1. CASE r[2] \in Cluster
    BY <2>1, <1>2, <1>3 DEF Grown
  <2>2. CASE r[2] \notin Cluster
    <3>1. x.heads \cup Own(t.fp) = x.heads
      BY <1>3, <2>2
    <3> QED
      BY <3>1, <1>2 DEF Grown
  <2> QED
    BY <2>1, <2>2
<1>5. x.dir[x.k].org \notin Cluster
  BY Codes DEF CallInv
<1>6. ASSUME t.v.faults = 0
      PROVE  /\ Tight(t.v, x.heads \cup Own(t.fp)) /\ GrowOn(s.v.fat, t.v.fat, x.heads)
             /\ Quiet(t.v, t.fp) /\ ~r[1].err /\ r[2] \in Cluster \cup {0}
  <2>1. s.v.faults = 0
    BY <1>3, <1>6 DEF Kept
  <2>2. Tight(s.v, x.heads) /\ s.fp.size = 0
    BY <2>1, <1>1 DEF CallInv, Quiet
  <2>3. /\ ~r[1].err /\ r[2] \in Cluster \cup {0}
        /\ Tight(r[1], x.heads \cup ({r[2]} \cap Cluster))
        /\ \A S : GrowOn(s.v.fat, r[1].fat, S)
    BY <2>1, <2>2, <1>2 DEF Grown
  <2>4. Quiet(t.v, t.fp)
    BY <2>2, <2>3, <1>3 DEF Quiet, Kept
  <2> QED
    BY <2>3, <2>4, <1>3
<1>7. CallInv(x, t)
  BY <1>3, <1>4, <1>5, <1>6, CallGrow DEF CallInv
<1>8. r[2] \in Cluster => r[2] \in clusters(t.v.fat, t.fp.org)
  BY ChainClosed DEF Closed
<1> QED
  BY <1>3, <1>6, <1>7, <1>8 DEF Writes, Kept

(* Calls that differ only in the volume and in what they count *)
SameState(s, t) ==
  /\ t.fp.open = s.fp.open /\ t.fp.slot = s.fp.slot /\ t.fp.org = s.fp.org /\ t.fp.size = s.fp.size
  /\ t.fp.ptr = s.fp.ptr /\ t.fp.csect = s.fp.csect /\ t.fp.curr = s.fp.curr /\ t.fp.flags = s.fp.flags

(* A cluster after c, which is in the chain of the file, is in that chain. *)
LEMMA GrowOnward ==
  ASSUME NEW x, NEW s, CallInv(x, s), s.v.faults = 0 => ~s.v.err, NEW c \in Nat,
         s.v.faults = 0 => c \in clusters(s.v.fat, s.fp.org), NEW r, r = create_chain(s.v, c),
         NEW t, CallType(t), t.v = r[1], SameState(s, t)
  PROVE  /\ CallInv(x, t) /\ Writes(s, t) /\ r[2] \in Nat /\ SameFile(s, t)
         /\ t.v.faults = 0 => /\ r[2] \in Cluster \cup {0} /\ ~r[1].err
                              /\ r[2] \in Cluster => r[2] \in clusters(t.v.fat, t.fp.org)
                              /\ InChain(s) => InChain(t)
<1> DEFINE R == x.heads \cup Own(s.fp)
<1>1. Grown(s.v, R, c, r)
  BY CreateChain DEF CallInv
<1>2. Kept(s.v, t.v) /\ Holds(t.v, R) /\ r[2] \in Nat /\ Own(t.fp) = Own(s.fp)
  BY <1>1 DEF Grown, Own, SameState
<1>3. ASSUME t.v.faults = 0
      PROVE  /\ Tight(t.v, R) /\ \A S : GrowOn(s.v.fat, t.v.fat, S)
             /\ Quiet(t.v, t.fp) /\ ~r[1].err /\ r[2] \in Cluster \cup {0}
             /\ r[2] \in Cluster => r[2] \in clusters(t.v.fat, t.fp.org)
             /\ InChain(s) => InChain(t)
  <2>1. s.v.faults = 0
    BY <1>2, <1>3 DEF Kept
  <2>2. s.fp.org \in R /\ Tight(s.v, R) /\ c \in clusters(s.v.fat, s.fp.org)
    BY <2>1, ChainIn DEF CallInv, Own
  <2>3. /\ ~r[1].err /\ r[2] \in Cluster \cup {0} /\ Tight(r[1], R)
        /\ \A S : GrowOn(s.v.fat, r[1].fat, S)
        /\ r[2] \in Cluster => r[2] \in clusters(r[1].fat, s.fp.org)
    BY <2>1, <2>2, <1>1 DEF Grown
  <2>4. clusters(s.v.fat, s.fp.org) \subseteq clusters(t.v.fat, s.fp.org)
    BY <2>2, <2>3 DEF GrowOn
  <2>5. Quiet(t.v, t.fp)
    BY <2>1, <2>4, <1>2 DEF CallInv, Quiet, Kept, SameState
  <2>6. InChain(s) => InChain(t)
    BY <2>1, <2>4 DEF InChain, SameState
  <2> QED
    BY <2>3, <2>5, <2>6 DEF SameState
<1>4. CallInv(x, t)
  BY <1>2, <1>3, CallGrow DEF CallInv, SameState
<1> QED
  BY <1>2, <1>3, <1>4 DEF Writes, Kept, SameFile, SameState

(* f_write goes on to the next cluster, which may be new, or finds the     *)
(* disk full.                                                              *)
LEMMA WriteCluster ==
  ASSUME NEW x, NEW s, CallInv(x, s), ~s.v.err, s.fp.ptr % s.v.ss = 0
  PROVE  LET t == write_cluster(s)
         IN CallInv(x, t) /\ Writes(s, t) /\ (t.v.err \/ full(t) \/ InChain(t))
<1>1. CallType(s) /\ s.fp.org \in Nat /\ s.fp.curr \in Nat
  BY DEF CallInv, CallType, FileType
<1>2. CASE s.fp.csect < s.v.csize
  <2>1. write_cluster(s) = s
    BY <1>2 DEF write_cluster
  <2>2. Writes(s, s) /\ InChain(s)
    BY <1>2 DEF Writes, CallInv, Quiet, InChain
  <2> QED
    BY <2>1, <2>2
<1>3. CASE ~(s.fp.csect < s.v.csize) /\ s.fp.ptr = 0 /\ s.fp.org # 0
  <2>1. write_cluster(s) = at_cluster(s, s.fp.org)
    BY <1>3 DEF write_cluster
  <2>2. s.fp.org \in Cluster => s.fp.org \in clusters(s.v.fat, s.fp.org)
    BY ChainClosed DEF Closed
  <2>3. s.v.faults = 0 => s.fp.org \in Cluster
    BY <1>3 DEF CallInv, Quiet
  <2> DEFINE t == at_cluster(s, s.fp.org)
  <2>4. /\ CallInv(x, t) /\ SameFile(s, t)
        /\ s.fp.org \in Cluster => t.v = s.v /\ InChain(t)
        /\ s.fp.org \notin Cluster => t.v.err
    BY <1>1, <2>2, AtCluster
  <2> HIDE DEF t
  <2>5. Writes(s, t)
    BY <2>3, <2>4 DEF Writes, SameFile
  <2> QED
    BY <2>1, <2>4, <2>5 DEF t
<1>4. CASE ~(s.fp.csect < s.v.csize) /\ s.fp.ptr = 0 /\ s.fp.org = 0
  <2> DEFINE r == create_chain(s.v, 0)
             w == r[1]
             o == r[2]
             t == [s EXCEPT !.v = w, !.fp.org = o]
  <2>1. write_cluster(s) = IF o = 0 THEN t ELSE at_cluster(t, o)
    BY <1>4 DEF write_cluster
  <2>2. Holds(s.v, x.heads \cup Own(s.fp))
    BY DEF CallInv
  <2>3. VolType(w) /\ o \in Nat /\ Kept(s.v, w)
    <3>1. Grown(s.v, x.heads \cup Own(s.fp), 0, r)
      BY <2>2, CreateChain
    <3> QED
      BY <3>1 DEF Grown, Kept
  <2> HIDE DEF w, o
  <2>4. /\ CallType(t) /\ t.v = w /\ t.fp.org = o /\ t.fp.open = s.fp.open /\ t.fp.slot = s.fp.slot
        /\ t.fp.size = s.fp.size /\ t.fp.ptr = s.fp.ptr /\ t.fp.csect = s.fp.csect
    BY <1>1, <2>3 DEF CallType, CallFields, FileType, FileFields
  <2> HIDE DEF t, r
  <2>5. /\ CallInv(x, t) /\ Writes(s, t)
        /\ o \in Cluster => o \in clusters(t.v.fat, t.fp.org)
        /\ t.v.faults = 0 => o \in Cluster \cup {0} /\ ~w.err
    BY <2>4, <1>4, GrowFirst DEF r, w, o
  <2>6. CASE o = 0
    <3>1. t.v.csize = s.v.csize /\ t.v.ss = s.v.ss
      BY <2>3, <2>4 DEF Kept
    <3>2. full(t)
      BY <3>1, <2>4, <1>4, <1>1 DEF full, CallType, VolType, FileType
    <3> QED
      BY <2>1, <2>5, <2>6, <3>2
  <2>7. CASE o # 0
    <3> DEFINE u == at_cluster(t, o)
    <3>1. /\ CallInv(x, u) /\ SameFile(t, u)
          /\ o \in Cluster => u.v = t.v /\ InChain(u)
          /\ o \notin Cluster => u.v.err
      BY <2>3, <2>5, AtCluster
    <3> HIDE DEF u
    <3>2. Writes(t, u)
      BY <2>5, <2>7, <3>1 DEF Writes, SameFile
    <3>3. Writes(s, u)
      BY <2>5, <3>2, WritesTrans
    <3> QED
      BY <2>1, <2>7, <3>1, <3>3 DEF u
  <2> QED
    BY <2>6, <2>7
<1>5. CASE ~(s.fp.csect < s.v.csize) /\ s.fp.ptr # 0
  <2> DEFINE c == s.fp.curr
             r == create_chain(s.v, c)
             w == r[1]
             o == r[2]
             t == [s EXCEPT !.v = w, !.fp.org = s.fp.org]
  <2>1. write_cluster(s) = IF o = 0 THEN t ELSE at_cluster(t, o)
    BY <1>5 DEF write_cluster
  <2>2. Holds(s.v, x.heads \cup Own(s.fp))
    BY DEF CallInv
  <2>3. VolType(w) /\ o \in Nat /\ c \in Nat /\ Kept(s.v, w)
    <3>1. Grown(s.v, x.heads \cup Own(s.fp), c, r)
      BY <1>1, <2>2, CreateChain
    <3> QED
      BY <1>1, <3>1 DEF Grown, Kept
  <2>4. s.v.faults = 0 => c \in clusters(s.v.fat, s.fp.org)
    BY <1>5 DEF CallInv, Quiet
  <2> HIDE DEF w, o
  <2>5. CallType(t) /\ t.v = w /\ SameState(s, t)
    BY <1>1, <2>3 DEF CallType, CallFields, FileType, FileFields, SameState
  <2> HIDE DEF t, r, c
  <2>6. /\ CallInv(x, t) /\ Writes(s, t)
        /\ t.v.faults = 0 => /\ o \in Cluster \cup {0} /\ ~w.err
                             /\ o \in Cluster => o \in clusters(t.v.fat, t.fp.org)
    BY <2>3, <2>4, <2>5, GrowOnward DEF r, w, o
  <2>7. CASE o = 0
    <3>1. t.v.csize = s.v.csize /\ t.v.ss = s.v.ss
      BY <2>3, <2>5 DEF Kept
    <3>2. full(t)
      BY <3>1, <2>5, <1>5, <1>1 DEF full, SameState, CallType, VolType, FileType
    <3> QED
      BY <2>1, <2>6, <2>7, <3>2
  <2>8. CASE o # 0
    <3> DEFINE u == at_cluster(t, o)
    <3>1. /\ CallInv(x, u) /\ SameFile(t, u)
          /\ o \in Cluster => u.v = t.v /\ InChain(u)
          /\ o \notin Cluster => u.v.err
      BY <2>3, <2>6, AtCluster
    <3> HIDE DEF u
    <3>2. Writes(t, u)
      BY <2>5, <2>6, <2>8, <3>1 DEF Writes, SameFile
    <3>3. Writes(s, u)
      BY <2>6, <3>2, WritesTrans
    <3> QED
      BY <2>1, <2>8, <3>1, <3>3 DEF u
  <2> QED
    BY <2>7, <2>8
<1> QED
  BY <1>1, <1>2, <1>3, <1>4, <1>5

(* A turn of the loop of f_write *)
LEMMA WriteNext ==
  ASSUME NEW x, NEW s, CallInv(x, s), NEW u
  PROVE  LET t == write_next(s, u) IN CallInv(x, t) /\ Writes(s, t)
<1>1. CallType(s)
  BY DEF CallInv
<1>2. CASE s.left = 0 \/ s.v.err
  BY <1>2 DEF write_next, Writes
<1>3. CASE ~(s.left = 0 \/ s.v.err) /\ s.fp.ptr % s.v.ss # 0
  <2>1. write_next(s, u) = copy_in(s, u)
    BY <1>3 DEF write_next
  <2>2. InChain(s)
    <3>1. s.v.ss \in Nat \ {0}
      BY <1>1 DEF CallType, VolType
    <3>2. s.fp.ptr # 0
      BY <1>3, <3>1
    <3> QED
      BY <3>2 DEF InChain, CallInv, Quiet
  <2> QED
    BY <1>1, <2>1, <2>2, CopyIn, CallTransfers, WritesTransfers
<1>4. CASE ~(s.left = 0 \/ s.v.err) /\ s.fp.ptr % s.v.ss = 0
  <2> DEFINE r == write_cluster(s)
             z == [r EXCEPT !.left = 0]
             f == flush(r)
             sect == clust2sect(f.fp.curr, f.fp.csect)
             q == write_buffered(f, sect)
  <2>1. CallInv(x, r) /\ Writes(s, r) /\ (r.v.err \/ full(r) \/ InChain(r)) /\ CallType(r)
    BY <1>4, WriteCluster DEF CallInv
  <2>2. write_next(s, u) = IF r.v.err THEN r
                           ELSE IF full(r) THEN z
                           ELSE IF f.v.err THEN abort(f)
                           ELSE IF f.left >= f.v.ss THEN write_direct(f, sect, u)
                           ELSE IF q.v.err THEN q ELSE copy_in(q, u)
    BY <1>4 DEF write_next, and_then, or_abort
  <2>3. CallInv(x, z) /\ Writes(r, z)
    <3> HIDE DEF r
    <3>1. CallType(z) /\ z.v = r.v /\ z.fp = r.fp
      <4>1. 0 \in Int
        OBVIOUS
      <4> QED
        BY <2>1, <4>1, SetFields
    <3> HIDE DEF z
    <3> QED
      BY <3>1, <2>1, CallSame DEF Writes
  <2>4. Transfers(r, f) /\ CallType(f)
    BY <2>1, Flush, TransfersType
  <2> HIDE DEF r, z, f, sect
  <2>5. f.v.err => Transfers(r, abort(f))
    BY <2>4, AbortTransfers, TransfersTrans
  <2>6. Transfers(r, write_direct(f, sect, u))
    BY <2>4, WriteDirect, TransfersTrans
  <2>7. Transfers(r, q) /\ CallType(q)
    BY <2>4, WriteBuffered, TransfersTrans, TransfersType
  <2> HIDE DEF q
  <2>8. Transfers(r, copy_in(q, u))
    BY <2>7, CopyIn, TransfersTrans
  <2>9. r.v.err \/ full(r) \/ Transfers(r, write_next(s, u))
    BY <2>2, <2>5, <2>6, <2>7, <2>8
  <2>10. CASE r.v.err \/ full(r)
    BY <2>1, <2>2, <2>3, <2>10, WritesTrans
  <2>11. CASE ~(r.v.err \/ full(r))
    BY <2>1, <2>9, <2>11, CallTransfers, WritesTransfers, WritesTrans
  <2> QED
    BY <2>10, <2>11
<1> QED
  BY <1>2, <1>3, <1>4

(* The loop *)
WriteAll(n, s, u) == repeat(n, s, LAMBDA r : write_next(r, u))

(* It is a row of turns, *)
LEMMA WriteTurns ==
  ASSUME NEW n \in Nat, NEW s, NEW u
  PROVE  \E f : /\ f[n] = WriteAll(n, s, u) /\ f[0] = s
               /\ \A k \in 0 .. n : k # n => f[k + 1] = write_next(f[k], u)
<1>1. \A p : StepOf(<<"write", u>>, p) = write_next(p, u)
  BY DEF StepOf
<1>2. WriteAll(n, s, u) = TurnAt(<<"write", u>>, n, s)
  BY <1>1 DEF repeat, TurnAt, WriteAll
<1>3. \E f : /\ f[n] = TurnAt(<<"write", u>>, n, s) /\ f[0] = s
            /\ \A k \in 0 .. n : k # n => f[k + 1] = StepOf(<<"write", u>>, f[k])
  BY LoopTurns
<1> QED
  BY <1>1, <1>2, <1>3

(* so all of it keeps the invariant of a call. *)
LEMMA WriteLoop ==
  ASSUME NEW x, NEW s, CallInv(x, s), NEW n \in Nat, NEW u
  PROVE  CallInv(x, WriteAll(n, s, u)) /\ Writes(s, WriteAll(n, s, u))
<1>1. PICK f : /\ f[n] = WriteAll(n, s, u) /\ f[0] = s
               /\ \A k \in 0 .. n : k # n => f[k + 1] = write_next(f[k], u)
  BY WriteTurns
<1> DEFINE S == {k \in Nat : k <= n => CallInv(x, f[k]) /\ Writes(s, f[k])}
<1>2. 0 \in S
  BY <1>1 DEF Writes
<1>3. ASSUME NEW k \in Nat, k \in S
      PROVE  k + 1 \in S
  <2>1. CASE k + 1 <= n
    <3>1. k \in 0 .. n /\ k # n /\ k <= n
      BY <2>1
    <3>2. CallInv(x, f[k]) /\ Writes(s, f[k])
      BY <1>3, <3>1
    <3>3. f[k + 1] = write_next(f[k], u)
      BY <1>1, <3>1
    <3>4. CallInv(x, f[k + 1]) /\ Writes(s, f[k + 1])
      BY <3>2, <3>3, WriteNext, WritesTrans
    <3> QED
      BY <3>4
  <2> QED
    BY <2>1
<1>4. Nat \subseteq S
  <2> HIDE DEF S
  <2> QED
    BY <1>2, <1>3, CountUp
<1> QED
  BY <1>1, <1>4

(* A new size touches nothing else: with units in it the file has a chain. *)
LEMMA Extend ==
  ASSUME NEW x, NEW s, CallInv(x, s)
  PROVE  LET t == extend(s) IN CallInv(x, t) /\ t.v = s.v /\ t.fp.org = s.fp.org /\ t.fp.flags = s.fp.flags
<1> DEFINE m == IF s.fp.ptr > s.fp.size THEN s.fp.ptr ELSE s.fp.size
           t == [s EXCEPT !.fp.size = m]
<1>1. CallType(s) /\ FileType(s.fp)
  BY DEF CallInv, CallType
<1>2. m \in Nat /\ extend(s) = t
  BY <1>1 DEF FileType, extend
<1>3. s.v.faults = 0 /\ s.fp.org = 0 => m = 0
  <2> SUFFICES ASSUME s.v.faults = 0, s.fp.org = 0 PROVE m = 0
    OBVIOUS
  <2>1. s.fp.size = 0 /\ s.fp.ptr = 0
    BY Codes, ChainIn DEF CallInv, Quiet
  <2> QED
    BY <2>1
<1> HIDE DEF m
<1>4. /\ CallType(t) /\ t.v = s.v /\ t.fp.open = s.fp.open /\ t.fp.slot = s.fp.slot /\ t.fp.org = s.fp.org
      /\ t.fp.size = m /\ t.fp.ptr = s.fp.ptr /\ t.fp.curr = s.fp.curr /\ t.fp.flags = s.fp.flags
      /\ t.fp.csect = s.fp.csect
  BY <1>1, <1>2 DEF CallType, CallFields, FileType, FileFields
<1> HIDE DEF t
<1>5. CallInv(x, t)
  BY <1>3, <1>4 DEF CallInv, Quiet, Own
<1> QED
  BY <1>2, <1>4, <1>5

(* What a call on a file leaves of it when nothing fails: its entry will   *)
(* be written, or needs not be                                             *)
Marked(s, t) ==
  /\ t.v.faults = s.v.faults
  /\ s.v.faults = 0 => "written" \in t.fp.flags \/ SameFile(s, t)

(* f_write keeps the invariant of a call, and marks the file object if its *)
(* entry needs to be written.                                              *)
LEMMA Write ==
  ASSUME NEW x, NEW s, CallInv(x, s), s.v.faults = 0 => ~s.v.err, NEW u, Len(u) \in Nat
  PROVE  LET t == f_write(s, u) IN CallInv(x, t) /\ Marked(s, t)
<1> DEFINE n == Len(u)
           s0 == [s EXCEPT !.left = n]
           r == WriteAll(n, s0, u)
           y == r.fp.flags \cup {"written"}
           q == [r EXCEPT !.fp.flags = y]
<1>1. CallType(s)
  BY DEF CallInv
<1>2. CASE "error" \in s.fp.flags \/ "w" \notin s.fp.flags
  <2> DEFINE w == [s.v EXCEPT !.err = TRUE]
  <2>1. f_write(s, u) = [s EXCEPT !.v = w]
    BY <1>2, <1>1 DEF f_write, CallType, CallFields
  <2>2. CallInv(x, [s EXCEPT !.v = w]) /\ SameFile(s, [s EXCEPT !.v = w])
    BY CallFail
  <2> QED
    BY <2>1, <2>2 DEF Marked, SameFile
<1>3. CASE ~("error" \in s.fp.flags \/ "w" \notin s.fp.flags)
  <2>1. f_write(s, u) = IF r.v.err THEN r ELSE extend(q)
    BY <1>3 DEF f_write, WriteAll, and_then
  <2> HIDE DEF r, q, y
  <2>2. CallInv(x, s0) /\ SameFile(s, s0) /\ s0.v = s.v /\ s0.fp = s.fp
    <3>1. n \in Int
      OBVIOUS
    <3>2. CallType(s0) /\ s0.v = s.v /\ s0.fp = s.fp
      BY <1>1, <3>1, SetFields
    <3> HIDE DEF s0
    <3> QED
      BY <3>2, CallSame
  <2> HIDE DEF s0
  <2>3. CallInv(x, r) /\ Writes(s0, r)
    BY <2>2, WriteLoop DEF r
  <2>4. CallInv(x, q) /\ q.v = r.v /\ q.fp.flags = y
    <3>1. q = [r EXCEPT !.fp.flags = r.fp.flags \cup {"written"}] /\ y = r.fp.flags \cup {"written"}
      BY DEF q, y
    <3> QED
      BY <2>3, <3>1, CallMarked
  <2>5. "written" \in y
    BY DEF y
  <2>6. CallInv(x, extend(q)) /\ extend(q).v = r.v /\ extend(q).fp.flags = y
    BY <2>4, Extend
  <2> QED
    BY <2>1, <2>2, <2>3, <2>5, <2>6 DEF Marked, Writes
<1> QED
  BY <1>2, <1>3

-----------------------------------------------------------------------------
(* f_lseek *)

(* A step that moves the file pointer *)
Seeks(s, t) ==
  /\ CallType(t) /\ t.v = s.v
  /\ t.fp.open = s.fp.open /\ t.fp.slot = s.fp.slot /\ t.fp.org = s.fp.org
  /\ t.fp.size = s.fp.size /\ t.fp.flags = s.fp.flags

(* Moving the file pointer to a cluster of the chain, or to the start,     *)
(* keeps the invariant of a call.                                          *)
LEMMA CallSeeks ==
  ASSUME NEW x, NEW s, CallInv(x, s), NEW t, Seeks(s, t), InChain(t) \/ (t.fp.ptr = 0 /\ ~(t.fp.csect < t.v.csize))
  PROVE  CallInv(x, t) /\ SameFile(s, t)
<1>1. CallType(t) /\ t.fp.open /\ t.fp.slot = x.k /\ t.v.dir = x.dir /\ t.fp.org \notin x.heads
      /\ Holds(t.v, x.heads \cup Own(t.fp)) /\ (x.dir[x.k].org \in Cluster => x.dir[x.k].org = t.fp.org)
  BY DEF CallInv, Seeks, Own
<1>2. ASSUME t.v.faults = 0
      PROVE  Tight(t.v, x.heads \cup Own(t.fp)) /\ GrowOn(x.fat, t.v.fat, x.heads) /\ Quiet(t.v, t.fp)
  BY <1>2 DEF CallInv, Seeks, Own, Quiet, InChain
<1> QED
  BY <1>1, <1>2 DEF Seeks, CallInv, SameFile

(* The state of the cluster following loop of a seek from a *)
Following(x, a, t) ==
  /\ CallInv(x, t) /\ SameFile(a, t) /\ InChain(t)
  /\ a.left >= 1 /\ a.fp.ptr >= 0 => t.left >= 1 /\ t.fp.ptr >= 0
  /\ t.v.faults = 0 => \/ t.c \in clusters(t.v.fat, t.fp.org)
                       \/ t.c = 0 /\ t.left <= t.v.ss * t.v.csize
                       \/ t.v.err
  /\ t.v.faults = 0 /\ "w" \in a.fp.flags => ~t.v.err /\ "w" \in t.fp.flags

(* What is in the way of a turn: the cluster after s.c *)
Onward(x, s, t, o) ==
  /\ CallInv(x, t) /\ SameFile(s, t) /\ InChain(t)
  /\ t.v.faults = 0 /\ o \in Cluster => o \in clusters(t.v.fat, t.fp.org)
  /\ t.v.faults = 0 /\ "w" \in s.fp.flags => ~t.v.err /\ o \in Cluster \cup {0}

(* Following the chain to a cluster that may be new, if the file is open   *)
(* for writing                                                             *)
LEMMA FollowGrow ==
  ASSUME NEW x, NEW s, CallInv(x, s), InChain(s), ~s.v.err,
         s.v.faults = 0 => s.c \in clusters(s.v.fat, s.fp.org),
         NEW r, r = create_chain(s.v, s.c)
  PROVE  /\ VolType(r[1]) /\ r[1].ss = s.v.ss /\ r[1].csize = s.v.csize /\ r[2] \in Nat
         /\ \A t : CallType(t) /\ t.v = r[1] /\ SameState(s, t) => Onward(x, s, t, r[2])
<1>1. CallType(s) /\ s.c \in Nat /\ Holds(s.v, x.heads \cup Own(s.fp))
  BY DEF CallInv, CallType
<1>2. Grown(s.v, x.heads \cup Own(s.fp), s.c, r)
  BY <1>1, CreateChain
<1>3. VolType(r[1]) /\ r[1].ss = s.v.ss /\ r[1].csize = s.v.csize /\ r[2] \in Nat
  BY <1>2 DEF Grown, Kept
<1>4. ASSUME NEW t, CallType(t), t.v = r[1], SameState(s, t)
      PROVE  Onward(x, s, t, r[2])
  <2>1. /\ CallInv(x, t) /\ SameFile(s, t)
        /\ t.v.faults = 0 => /\ r[2] \in Cluster \cup {0} /\ ~r[1].err
                             /\ r[2] \in Cluster => r[2] \in clusters(t.v.fat, t.fp.org)
                             /\ InChain(s) => InChain(t)
    BY <1>1, <1>4, GrowOnward
  <2> QED
    BY <1>4, <2>1 DEF Onward, InChain
<1> QED
  BY <1>3, <1>4

(* Following the chain as far as it goes *)
LEMMA FollowRead ==
  ASSUME NEW x, NEW s, CallInv(x, s), InChain(s),
         s.v.faults = 0 => s.c \in clusters(s.v.fat, s.fp.org), "w" \notin s.fp.flags,
         NEW w, w = read_fat(s.v, s.c), NEW c, c = get_fat(w, s.c)
  PROVE  /\ VolType(w) /\ w.ss = s.v.ss /\ w.csize = s.v.csize /\ c \in Nat
         /\ \A t : CallType(t) /\ t.v = w /\ SameState(s, t) => Onward(x, s, t, c)
<1>1. VolType(s.v) /\ s.v.fat \in FAT
  BY DEF CallInv, CallType, VolType
<1>2. Moves(s.v, w) /\ w.fat = s.v.fat /\ w.ss = s.v.ss /\ w.csize = s.v.csize /\ VolType(w) /\ w.faults = s.v.faults
  BY <1>1, ReadFat DEF Moves
<1>3. c \in {1, DISK_ERR} \/ (s.c \in Cluster /\ c = s.v.fat[s.c])
  BY <1>2 DEF get_fat
<1>4. c \in Nat
  <2>1. s.c \in Cluster => s.v.fat[s.c] \in Nat
    BY <1>1, FatNat
  <2>2. 1 \in Nat /\ DISK_ERR \in Nat
    BY Codes
  <2> QED
    BY <1>3, <2>1, <2>2
<1>5. ASSUME s.v.faults = 0, c \in Cluster
      PROVE  c \in clusters(s.v.fat, s.fp.org)
  <2>1. s.c \in clusters(s.v.fat, s.fp.org) /\ s.fp.org \in Cluster
    BY <1>5, ChainIn
  <2>2. c = s.v.fat[s.c]
    BY <1>3, <1>5, Codes
  <2> QED
    BY <2>1, <2>2, <1>5, ChainClosed DEF Closed
<1>6. ASSUME NEW t, CallType(t), t.v = w, SameState(s, t)
      PROVE  Onward(x, s, t, c)
  <2>1. Transfers(s, t)
    BY <1>2, <1>6 DEF Transfers, SameState
  <2>2. CallInv(x, t) /\ InChain(t) /\ SameFile(s, t)
    BY <2>1, CallTransfers
  <2>3. t.v.faults = 0 /\ c \in Cluster => c \in clusters(t.v.fat, t.fp.org)
    BY <1>2, <1>5, <1>6 DEF SameState
  <2> QED
    BY <2>2, <2>3 DEF Onward
<1> QED
  BY <1>2, <1>4, <1>6

(* The file pointer goes on by m units to cluster c. *)
OnTo(s, c, m) == [s EXCEPT !.fp.curr = c, !.fp.ptr = @ + m, !.c = c, !.left = @ - m]

(* This moves the file pointer only. *)
LEMMA FollowOn ==
  ASSUME NEW s, CallType(s), NEW c \in Nat, NEW m \in Int
  PROVE  LET t == OnTo(s, c, m) IN
         /\ Seeks(s, t) /\ t.fp.curr = c /\ t.fp.ptr = s.fp.ptr + m /\ t.c = c /\ t.left = s.left - m
<1> DEFINE q == [s.fp EXCEPT !.curr = c, !.ptr = @ + m]
           t == OnTo(s, c, m)
<1>1. FileType(s.fp) /\ s.left \in Int /\ s.fp.ptr \in Int /\ s.left - m \in Int /\ s.fp.ptr + m \in Int
  BY DEF CallType, FileType
<1>2. /\ DOMAIN q = FileFields /\ q.curr = c /\ q.ptr = s.fp.ptr + m
      /\ \A f \in FileFields \ {"curr", "ptr"} : q[f] = s.fp[f]
  BY <1>1 DEF FileType, FileFields
<1>3. t.fp = q /\ t.v = s.v /\ t.left = s.left - m /\ t.c = c /\ DOMAIN t = CallFields
  BY DEF OnTo, CallType, CallFields
<1> HIDE DEF q, t
<1>4. q.open = s.fp.open /\ q.slot = s.fp.slot /\ q.org = s.fp.org /\ q.size = s.fp.size /\ q.flags = s.fp.flags
      /\ q.csect = s.fp.csect
  BY <1>2 DEF FileFields
<1>5. FileType(q)
  BY <1>1, <1>2, <1>4 DEF FileType
<1> QED
  BY <1>1, <1>2, <1>3, <1>4, <1>5 DEF Seeks, CallType, t

(* A turn of the cluster following loop keeps to the chain of the file. *)
LEMMA FollowNext ==
  ASSUME NEW x, NEW a, NEW s, Following(x, a, s)
  PROVE  Following(x, a, follow_next(s))
<1> DEFINE bcs == s.v.ss * s.v.csize
           r == IF "w" \in s.fp.flags THEN create_chain(s.v, s.c)
                ELSE <<read_fat(s.v, s.c), get_fat(read_fat(s.v, s.c), s.c)>>
           s1 == [s EXCEPT !.v = r[1]]
           o == r[2]
           full1 == [s1 EXCEPT !.c = 0, !.left = bcs]
           on == [s1 EXCEPT !.fp.curr = o, !.fp.ptr = @ + bcs, !.c = o, !.left = @ - bcs]
<1>1. follow_next(s) = IF s.v.err \/ s.left <= bcs THEN s
                       ELSE IF "w" \in s.fp.flags /\ o = 0 THEN full1
                       ELSE IF o \notin Cluster THEN abort(s1) ELSE on
  BY DEF follow_next
<1>2. CASE s.v.err \/ s.left <= bcs
  BY <1>1, <1>2
<1>3. CASE ~(s.v.err \/ s.left <= bcs)
  <2>1. CallInv(x, s) /\ SameFile(a, s) /\ InChain(s) /\ CallType(s) /\ s.left \in Int
    BY DEF Following, CallInv, CallType
  <2>2. bcs \in Nat /\ bcs >= 1
    <3>1. s.v.ss \in Nat /\ s.v.ss >= 1 /\ s.v.csize \in Nat /\ s.v.csize >= 1
      BY <2>1 DEF CallType, VolType
    <3> QED
      BY <3>1
  <2>3. s.left > bcs
    BY <1>3, <2>1, <2>2
  <2>4. s.v.faults = 0 => s.c \in clusters(s.v.fat, s.fp.org)
    BY <1>3 DEF Following
  <2>5. /\ VolType(r[1]) /\ r[1].ss = s.v.ss /\ r[1].csize = s.v.csize /\ o \in Nat
        /\ \A t : CallType(t) /\ t.v = r[1] /\ SameState(s, t) => Onward(x, s, t, o)
    <3>1. CASE "w" \in s.fp.flags
      <4>1. r = create_chain(s.v, s.c)
        BY <3>1
      <4> HIDE DEF r
      <4> QED
        BY <1>3, <2>1, <2>4, <4>1, FollowGrow
    <3>2. CASE "w" \notin s.fp.flags
      <4> DEFINE w == read_fat(s.v, s.c)
                 c == get_fat(w, s.c)
      <4>1. r[1] = w /\ o = c
        BY <3>2
      <4> HIDE DEF r, o
      <4>2. /\ VolType(w) /\ w.ss = s.v.ss /\ w.csize = s.v.csize /\ c \in Nat
            /\ \A t : CallType(t) /\ t.v = w /\ SameState(s, t) => Onward(x, s, t, c)
        <5> HIDE DEF w, c
        <5>1. w = read_fat(s.v, s.c) /\ c = get_fat(w, s.c)
          BY DEF w, c
        <5> QED
          BY <2>1, <2>4, <3>2, <5>1, FollowRead
      <4> HIDE DEF w, c
      <4> QED
        BY <4>1, <4>2
    <3> QED
      BY <3>1, <3>2
  <2> HIDE DEF r, o
  <2>6. /\ CallType(s1) /\ SameState(s, s1) /\ s1.left = s.left /\ s1.c = s.c /\ s1.v = r[1]
    BY <2>1, <2>5 DEF CallType, CallFields, SameState
  <2> HIDE DEF s1
  <2>7. /\ CallInv(x, s1) /\ SameFile(s, s1) /\ SameState(s, s1) /\ InChain(s1)
        /\ s1.left = s.left /\ s1.c = s.c /\ o \in Nat
        /\ s1.v.ss = s.v.ss /\ s1.v.csize = s.v.csize
        /\ s1.v.faults = 0 /\ o \in Cluster => o \in clusters(s1.v.fat, s1.fp.org)
        /\ s1.v.faults = 0 /\ "w" \in s.fp.flags => ~s1.v.err /\ o \in Cluster \cup {0}
    BY <2>5, <2>6 DEF Onward
  <2>8. CallType(s1) /\ SameFile(a, s1)
    BY <2>1, <2>7, SameFileTrans DEF CallInv
  <2>9. s1.v.faults = 0 /\ "w" \in a.fp.flags => ~s1.v.err /\ "w" \in s.fp.flags /\ "w" \in s1.fp.flags
                                                 /\ o \in Cluster \cup {0}
    BY <2>7 DEF Following, SameFile, SameState
  <2>10. CASE "w" \in s.fp.flags /\ o = 0
    <3>1. CallType(full1) /\ full1.v = s1.v /\ full1.fp = s1.fp /\ full1.left = bcs /\ full1.c = 0
      BY <2>2, <2>8 DEF CallType, CallFields
    <3>2. follow_next(s) = full1
      BY <1>1, <1>3, <2>10
    <3> HIDE DEF full1
    <3>3. CallInv(x, full1) /\ SameFile(s1, full1) /\ InChain(full1)
      BY <2>7, <3>1, CallSame
    <3>4. SameFile(a, full1)
      BY <2>8, <3>3, SameFileTrans
    <3>5. a.left >= 1 /\ a.fp.ptr >= 0 => full1.left >= 1 /\ full1.fp.ptr >= 0
      BY <2>2, <2>7, <3>1 DEF Following, SameState
    <3>6. full1.left <= full1.v.ss * full1.v.csize
      BY <2>2, <2>7, <3>1
    <3> QED
      BY <2>9, <3>1, <3>2, <3>3, <3>4, <3>5, <3>6 DEF Following
  <2>11. CASE ~("w" \in s.fp.flags /\ o = 0) /\ o \notin Cluster
    <3> DEFINE t == abort(s1)
    <3>1. follow_next(s) = t
      BY <1>1, <1>3, <2>11
    <3>2. CallInv(x, t) /\ SameFile(s1, t) /\ t.v.err /\ t.v.fat = s1.v.fat
      BY <2>7, CallAbort
    <3>3. t.fp.curr = s1.fp.curr /\ t.fp.ptr = s1.fp.ptr /\ t.left = s1.left
      BY <2>8 DEF abort, CallType, CallFields, FileType, FileFields
    <3> HIDE DEF t
    <3>4. InChain(t)
      BY <2>7, <3>2, <3>3 DEF InChain, SameFile
    <3>5. a.left >= 1 /\ a.fp.ptr >= 0 => t.left >= 1 /\ t.fp.ptr >= 0
      BY <2>7, <3>3 DEF Following, SameState
    <3>6. ~(t.v.faults = 0 /\ "w" \in a.fp.flags)
      BY <2>9, <2>11, <3>2 DEF SameFile
    <3> QED
      BY <2>8, <3>1, <3>2, <3>4, <3>5, <3>6, SameFileTrans DEF Following
  <2>12. CASE o \in Cluster
    <3>1. follow_next(s) = on
      BY <1>1, <1>3, <2>12, Codes
    <3>2. /\ Seeks(s1, on) /\ on.fp.curr = o /\ on.fp.ptr = s1.fp.ptr + bcs /\ on.c = o
          /\ on.left = s1.left - bcs
      <4>1. bcs \in Int
        BY <2>2
      <4> HIDE DEF bcs
      <4>2. on = OnTo(s1, o, bcs)
        BY DEF OnTo
      <4> HIDE DEF on
      <4> QED
        BY <2>7, <2>8, <4>1, <4>2, FollowOn
    <3> HIDE DEF on, bcs
    <3>3. InChain(on) /\ (on.v.faults = 0 => on.c \in clusters(on.v.fat, on.fp.org))
      BY <2>7, <2>12, <3>2 DEF InChain, Seeks
    <3>4. CallInv(x, on) /\ SameFile(s1, on)
      BY <2>7, <3>2, <3>3, CallSeeks
    <3>5. a.left >= 1 /\ a.fp.ptr >= 0 => on.left >= 1 /\ on.fp.ptr >= 0
      <4>1. s.fp.ptr \in Int /\ s1.fp.ptr = s.fp.ptr
        BY <2>1, <2>7 DEF CallType, FileType, SameState
      <4>2. a.left >= 1 /\ a.fp.ptr >= 0 => s.fp.ptr >= 0
        BY DEF Following
      <4> QED
        BY <2>1, <2>2, <2>3, <2>7, <3>2, <4>1, <4>2
    <3>6. on.v.faults = 0 /\ "w" \in a.fp.flags => ~on.v.err /\ "w" \in on.fp.flags
      BY <2>9, <3>2 DEF Seeks
    <3>7. SameFile(a, on)
      BY <2>8, <3>4, SameFileTrans
    <3> QED
      BY <3>1, <3>3, <3>4, <3>5, <3>6, <3>7 DEF Following
  <2> QED
    BY <2>10, <2>11, <2>12
<1> QED
  BY <1>2, <1>3

(* The start of the cluster of b is not after a, if a is in this cluster   *)
(* or a later one.                                                         *)
LEMMA DivBase ==
  ASSUME NEW a \in Nat, NEW b \in Nat, NEW k \in Nat \ {0}, a \div k >= b \div k
  PROVE  (b \div k) * k <= a /\ (b \div k) * k \in Nat
<1>1. a \div k \in Nat /\ b \div k \in Nat
  OBVIOUS
<1>2. (a \div k) * k <= a
  OBVIOUS
<1> DEFINE p == a \div k
           q == b \div k
<1> HIDE DEF p, q
<1>3. \A m, n, l \in Nat : m >= n => n * l <= m * l
  OBVIOUS
<1>4. q * k <= p * k /\ q * k \in Nat
  BY <1>1, <1>3 DEF p, q
<1> QED
  BY <1>1, <1>2, <1>4 DEF p, q

(* The loop *)
FollowAll(n, s) == repeat(n, s, follow_next)

(* It is a row of turns, *)
LEMMA FollowTurns ==
  ASSUME NEW n \in Nat, NEW s
  PROVE  \E f : /\ f[n] = FollowAll(n, s) /\ f[0] = s
               /\ \A k \in 0 .. n : k # n => f[k + 1] = follow_next(f[k])
<1>1. \A p : StepOf(<<"follow">>, p) = follow_next(p)
  BY DEF StepOf
<1>2. FollowAll(n, s) = TurnAt(<<"follow">>, n, s)
  BY <1>1 DEF repeat, TurnAt, FollowAll
<1>3. \E f : /\ f[n] = TurnAt(<<"follow">>, n, s) /\ f[0] = s
            /\ \A k \in 0 .. n : k # n => f[k + 1] = StepOf(<<"follow">>, f[k])
  BY LoopTurns
<1> QED
  BY <1>1, <1>2, <1>3

(* so all of it keeps to the chain. *)
LEMMA FollowLoop ==
  ASSUME NEW x, NEW a, NEW s, Following(x, a, s), NEW n \in Nat
  PROVE  Following(x, a, FollowAll(n, s))
<1>1. PICK f : /\ f[n] = FollowAll(n, s) /\ f[0] = s
               /\ \A k \in 0 .. n : k # n => f[k + 1] = follow_next(f[k])
  BY FollowTurns
<1> DEFINE S == {k \in Nat : k <= n => Following(x, a, f[k])}
<1>2. 0 \in S
  BY <1>1
<1>3. ASSUME NEW k \in Nat, k \in S
      PROVE  k + 1 \in S
  <2>1. CASE k + 1 <= n
    <3>1. k \in 0 .. n /\ k # n /\ k <= n
      BY <2>1
    <3>2. Following(x, a, f[k])
      BY <1>3, <3>1
    <3>3. f[k + 1] = follow_next(f[k])
      BY <1>1, <3>1
    <3>4. Following(x, a, f[k + 1])
      BY <3>2, <3>3, FollowNext
    <3> QED
      BY <3>4
  <2> QED
    BY <2>1
<1>4. Nat \subseteq S
  <2> HIDE DEF S
  <2> QED
    BY <1>2, <1>3, CountUp
<1> QED
  BY <1>1, <1>4

(* The file pointer is set to p, in sector k of its cluster. *)
PtrTo(s, p, k) == [s EXCEPT !.fp.ptr = p, !.fp.csect = k]

(* The sector to fill the buffer from is z. *)
SectTo(s, z, k) == [s EXCEPT !.nsect = z, !.fp.csect = k]

(* The one and the other *)
LEMMA PtrMoves ==
  ASSUME NEW s, CallType(s), NEW p \in Int, NEW k \in Int
  PROVE  LET t == PtrTo(s, p, k)
         IN Seeks(s, t) /\ t.fp.ptr = p /\ t.fp.csect = k /\ t.fp.curr = s.fp.curr /\ t.left = s.left
            /\ t.nsect = s.nsect
<1> DEFINE q == [s.fp EXCEPT !.ptr = p, !.csect = k]
           t == PtrTo(s, p, k)
<1>1. FileType(s.fp) /\ s.left \in Int
  BY DEF CallType
<1>2. /\ DOMAIN q = FileFields /\ q.ptr = p /\ q.csect = k
      /\ \A f \in FileFields \ {"ptr", "csect"} : q[f] = s.fp[f]
  BY <1>1 DEF FileType, FileFields
<1>3. t.fp = q /\ t.v = s.v /\ t.left = s.left /\ t.c = s.c /\ DOMAIN t = CallFields /\ t.nsect = s.nsect
  BY DEF PtrTo, CallType, CallFields
<1> HIDE DEF q, t
<1>4. q.open = s.fp.open /\ q.slot = s.fp.slot /\ q.org = s.fp.org /\ q.size = s.fp.size /\ q.flags = s.fp.flags
      /\ q.curr = s.fp.curr
  BY <1>2 DEF FileFields
<1>5. FileType(q)
  BY <1>1, <1>2, <1>4 DEF FileType
<1> QED
  BY <1>1, <1>2, <1>3, <1>4, <1>5 DEF Seeks, CallType, t

(* move the file pointer only. *)
LEMMA SectMoves ==
  ASSUME NEW s, CallType(s), NEW z, NEW k \in Int
  PROVE  LET t == SectTo(s, z, k)
         IN Seeks(s, t) /\ t.fp.ptr = s.fp.ptr /\ t.fp.csect = k /\ t.fp.curr = s.fp.curr /\ t.left = s.left
<1> DEFINE q == [s.fp EXCEPT !.csect = k]
           t == SectTo(s, z, k)
<1>1. FileType(s.fp) /\ s.left \in Int
  BY DEF CallType
<1>2. /\ DOMAIN q = FileFields /\ q.csect = k
      /\ \A f \in FileFields \ {"csect"} : q[f] = s.fp[f]
  BY <1>1 DEF FileType, FileFields
<1>3. t.fp = q /\ t.v = s.v /\ t.left = s.left /\ t.c = s.c /\ DOMAIN t = CallFields
  BY DEF SectTo, CallType, CallFields
<1> HIDE DEF q, t
<1>4. q.open = s.fp.open /\ q.slot = s.fp.slot /\ q.org = s.fp.org /\ q.size = s.fp.size /\ q.flags = s.fp.flags
      /\ q.curr = s.fp.curr /\ q.ptr = s.fp.ptr
  BY <1>2 DEF FileFields
<1>5. FileType(q)
  BY <1>1, <1>2, <1>4 DEF FileType
<1> QED
  BY <1>1, <1>2, <1>3, <1>4, <1>5 DEF Seeks, CallType, t

(* Two moves of the file pointer are one. *)
LEMMA SeeksTrans == ASSUME NEW s, NEW t, NEW u, Seeks(s, t), Seeks(t, u) PROVE Seeks(s, u)
  BY DEF Seeks

(* Following the chain from cluster c by n units, to the sector where they *)
(* end                                                                     *)
LEMMA Follow ==
  ASSUME NEW x, NEW s, CallInv(x, s), InChain(s), NEW c \in Nat, NEW n \in Nat,
         s.v.faults = 0 => ~s.v.err /\ c \in clusters(s.v.fat, s.fp.org)
  PROVE  LET t == follow(s, c, n)
         IN /\ CallInv(x, t) /\ SameFile(s, t) /\ InChain(t)
            /\ t.v.faults = 0 /\ "w" \in s.fp.flags => ~t.v.err
            /\ n >= 1 /\ s.fp.ptr >= 0 /\ ~t.v.err => t.fp.ptr >= 1
<1> DEFINE s1 == [s EXCEPT !.c = c, !.left = n]
           r == FollowAll(n, s1)
           at == PtrTo(r, r.fp.ptr + r.left, r.left \div r.v.ss)
           z == clust2sect(r.c, at.fp.csect)
           at2 == SectTo(at, z, at.fp.csect + 1)
<1>1. CallType(s1) /\ s1.v = s.v /\ s1.fp = s.fp /\ s1.left = n /\ s1.c = c
  <2>1. CallType(s) /\ n \in Int
    BY DEF CallInv
  <2> QED
    BY <2>1 DEF CallType, CallFields
<1>2. follow(s, c, n) = IF r.v.err THEN r ELSE IF r.left % r.v.ss = 0 THEN at ELSE at2
  BY DEF follow, and_then, FollowAll, PtrTo, SectTo
<1> HIDE DEF s1
<1>3. CallInv(x, s1) /\ SameFile(s, s1) /\ InChain(s1)
  BY <1>1, CallSame
<1>4. Following(x, s1, s1)
  BY <1>1, <1>3 DEF Following, SameFile
<1>5. Following(x, s1, r)
  BY <1>4, FollowLoop
<1> HIDE DEF r
<1>6. /\ CallInv(x, r) /\ SameFile(s, r) /\ InChain(r)
      /\ r.v.faults = 0 /\ "w" \in s.fp.flags => ~r.v.err
      /\ n >= 1 /\ s.fp.ptr >= 0 => r.left >= 1 /\ r.fp.ptr >= 0
  BY <1>1, <1>3, <1>5, SameFileTrans DEF Following
<1>7. CallType(r) /\ r.left \in Int /\ r.fp.ptr \in Int /\ r.fp.ptr + r.left \in Int /\ r.left \div r.v.ss \in Int
  <2>1. CallType(r)
    BY <1>6 DEF CallInv
  <2>2. r.v.ss \in Nat \ {0} /\ r.left \in Int /\ r.fp.ptr \in Int
    BY <2>1 DEF CallType, VolType, FileType
  <2> QED
    BY <2>1, <2>2
<1>8. Seeks(r, at) /\ at.fp.ptr = r.fp.ptr + r.left /\ at.fp.csect \in Int /\ at.fp.curr = r.fp.curr /\ CallType(at)
  <2> DEFINE p == r.fp.ptr + r.left
             k == r.left \div r.v.ss
  <2>1. p \in Int /\ k \in Int
    BY <1>7
  <2>2. at = PtrTo(r, p, k)
    OBVIOUS
  <2> HIDE DEF at, p, k
  <2>3. Seeks(r, at) /\ at.fp.ptr = p /\ at.fp.csect = k /\ at.fp.curr = r.fp.curr
    BY <1>7, <2>1, <2>2, PtrMoves
  <2> QED
    BY <2>1, <2>3 DEF Seeks, p
<1> HIDE DEF at
<1>9. Seeks(at, at2) /\ at2.fp.ptr = at.fp.ptr /\ at2.fp.curr = at.fp.curr
  <2>1. at.fp.csect + 1 \in Int
    BY <1>8
  <2> HIDE DEF z
  <2> QED
    BY <1>8, <2>1, SectMoves
<1> HIDE DEF at2
<1>10. ASSUME NEW t, Seeks(r, t), t.fp.ptr = r.fp.ptr + r.left, t.fp.curr = r.fp.curr
       PROVE  /\ CallInv(x, t) /\ SameFile(s, t) /\ InChain(t)
              /\ t.v.faults = 0 /\ "w" \in s.fp.flags => ~t.v.err
              /\ n >= 1 /\ s.fp.ptr >= 0 /\ ~t.v.err => t.fp.ptr >= 1
  <2>1. InChain(t)
    BY <1>6, <1>10 DEF InChain, Seeks
  <2>2. CallInv(x, t) /\ SameFile(r, t)
    BY <1>6, <1>10, <2>1, CallSeeks
  <2>3. n >= 1 /\ s.fp.ptr >= 0 => t.fp.ptr >= 1
    BY <1>6, <1>7, <1>10
  <2>4. SameFile(s, t)
    BY <1>6, <2>2, SameFileTrans
  <2> QED
    BY <1>6, <1>10, <2>1, <2>2, <2>3, <2>4 DEF Seeks
<1>11. Seeks(r, at2) /\ at2.fp.ptr = r.fp.ptr + r.left /\ at2.fp.curr = r.fp.curr
  BY <1>8, <1>9, SeeksTrans
<1>12. CASE r.v.err
  <2>1. follow(s, c, n) = r
    BY <1>2, <1>12
  <2> QED
    BY <1>6, <1>12, <2>1
<1>13. CASE ~r.v.err /\ r.left % r.v.ss = 0
  <2>1. follow(s, c, n) = at
    BY <1>2, <1>13
  <2> QED
    BY <1>8, <1>10, <2>1
<1>14. CASE ~r.v.err /\ r.left % r.v.ss # 0
  <2>1. follow(s, c, n) = at2
    BY <1>2, <1>14
  <2> QED
    BY <1>10, <1>11, <2>1
<1> QED
  BY <1>12, <1>13, <1>14

(* What seek_start and seek_fill come to, when nothing fails: the entry of *)
(* the file is as it was, or its first cluster is new                      *)
Started(s, t) ==
  /\ t.v.faults = s.v.faults
  /\ t.v.faults = 0 =>
       \/ SameFile(s, t)
       \/ t.fp.size = 0 /\ t.fp.ptr >= 1 /\ ~t.v.err

(* A seek goes on with volume w from the first cluster o. *)
FromTo(s, w, o) == [s EXCEPT !.v = w, !.fp.org = o, !.fp.curr = o]

(* This changes the first and the current cluster only. *)
LEMMA FromMoves ==
  ASSUME NEW s, CallType(s), NEW w, VolType(w), NEW o \in Nat
  PROVE  LET t == FromTo(s, w, o)
         IN /\ CallType(t) /\ t.v = w /\ t.fp.org = o /\ t.fp.curr = o /\ t.fp.open = s.fp.open
            /\ t.fp.slot = s.fp.slot /\ t.fp.size = s.fp.size /\ t.fp.ptr = s.fp.ptr
            /\ t.fp.csect = s.fp.csect /\ t.fp.flags = s.fp.flags
<1> DEFINE q == [s.fp EXCEPT !.org = o, !.curr = o]
           t == FromTo(s, w, o)
<1>1. FileType(s.fp)
  BY DEF CallType
<1>2. /\ DOMAIN q = FileFields /\ q.org = o /\ q.curr = o
      /\ \A f \in FileFields \ {"org", "curr"} : q[f] = s.fp[f]
  BY <1>1 DEF FileType, FileFields
<1>3. t.fp = q /\ t.v = w /\ t.left = s.left /\ t.c = s.c /\ DOMAIN t = CallFields
  BY DEF FromTo, CallType, CallFields
<1> HIDE DEF q, t
<1>4. q.open = s.fp.open /\ q.slot = s.fp.slot /\ q.ptr = s.fp.ptr /\ q.size = s.fp.size /\ q.flags = s.fp.flags
      /\ q.csect = s.fp.csect
  BY <1>2 DEF FileFields
<1>5. FileType(q)
  BY <1>1, <1>2, <1>4 DEF FileType
<1> QED
  BY <1>1, <1>2, <1>3, <1>4, <1>5 DEF CallType, t

(* The seek from a first cluster r[2], which create_chain may have found *)
SeekFrom(s, r, n) ==
  IF r[1].err THEN abort([s EXCEPT !.v = r[1]])
  ELSE IF r[2] = 0 THEN FromTo(s, r[1], r[2]) ELSE follow(FromTo(s, r[1], r[2]), r[2], n)

(* From the first cluster that there is *)
LEMMA SeekFirst ==
  ASSUME NEW x, NEW s, CallInv(x, s), ~s.v.err, s.fp.ptr = 0, ~(s.fp.csect < s.v.csize),
         s.fp.org # 0, NEW n \in Nat
  PROVE  LET t == SeekFrom(s, <<s.v, s.fp.org>>, n) IN CallInv(x, t) /\ Started(s, t)
<1> DEFINE o == s.fp.org
           s1 == FromTo(s, s.v, o)
           t == follow(s1, o, n)
<1>1. CallType(s) /\ VolType(s.v) /\ o \in Nat
  BY DEF CallInv, CallType, FileType
<1>2. SeekFrom(s, <<s.v, o>>, n) = t
  BY DEF SeekFrom
<1>3. Seeks(s, s1) /\ s1.fp.curr = o
  BY <1>1, FromMoves DEF Seeks
<1> HIDE DEF s1
<1>4. InChain(s1) /\ (s1.v.faults = 0 => ~s1.v.err /\ o \in clusters(s1.v.fat, s1.fp.org))
  <2>1. s.v.faults = 0 => o \in Cluster
    BY DEF CallInv, Quiet
  <2>2. s.v.faults = 0 => o \in clusters(s.v.fat, o)
    BY <2>1, ChainClosed DEF Closed
  <2> QED
    BY <1>3, <2>2 DEF InChain, Seeks
<1>5. CallInv(x, s1) /\ SameFile(s, s1)
  BY <1>3, <1>4, CallSeeks
<1> HIDE DEF o
<1>6. CallInv(x, t) /\ SameFile(s1, t)
  BY <1>1, <1>4, <1>5, Follow
<1>7. SameFile(s, t)
  BY <1>5, <1>6, SameFileTrans
<1> HIDE DEF t
<1> QED
  BY <1>2, <1>6, <1>7 DEF Started, o, SameFile

(* From a first cluster taken for it *)
LEMMA SeekNew ==
  ASSUME NEW x, NEW s, CallInv(x, s), ~s.v.err, s.fp.ptr = 0, ~(s.fp.csect < s.v.csize),
         s.fp.org = 0, s.v.faults = 0 => "w" \in s.fp.flags, NEW n \in Nat, n >= 1
  PROVE  LET t == SeekFrom(s, create_chain(s.v, 0), n) IN CallInv(x, t) /\ Started(s, t)
<1> DEFINE r == create_chain(s.v, 0)
           w == r[1]
           o == r[2]
           sa == [s EXCEPT !.v = w]
           s1 == FromTo(s, w, o)
           t == follow(s1, o, n)
<1>1. CallType(s) /\ Holds(s.v, x.heads \cup Own(s.fp)) /\ Own(s.fp) = {}
  BY Codes DEF CallInv, Own
<1>2. Grown(s.v, x.heads \cup Own(s.fp), 0, r)
  BY <1>1, CreateChain
<1>3. VolType(w) /\ Kept(s.v, w) /\ o \in Nat /\ Holds(w, x.heads \cup Own(s.fp))
  BY <1>2 DEF Grown, Kept
<1>4. SeekFrom(s, r, n) = IF w.err THEN abort(sa) ELSE IF o = 0 THEN s1 ELSE t
  BY DEF SeekFrom
<1> HIDE DEF w, o
<1>5. /\ CallType(s1) /\ s1.v = w /\ s1.fp.org = o /\ s1.fp.curr = o /\ s1.fp.open = s.fp.open
      /\ s1.fp.slot = s.fp.slot /\ s1.fp.size = s.fp.size /\ s1.fp.ptr = s.fp.ptr
      /\ s1.fp.csect = s.fp.csect /\ s1.fp.flags = s.fp.flags
  BY <1>1, <1>3, FromMoves
<1> HIDE DEF s1, r
<1>6. /\ CallInv(x, s1) /\ Writes(s, s1)
      /\ o \in Cluster => o \in clusters(s1.v.fat, s1.fp.org)
      /\ s1.v.faults = 0 => o \in Cluster \cup {0} /\ ~w.err
  BY <1>5, GrowFirst DEF r, w, o
<1>7. CASE w.err
  <2>1. CallType(sa) /\ sa.v = w /\ SameState(s, sa)
    BY <1>1, <1>3 DEF CallType, CallFields, SameState
  <2> HIDE DEF sa
  <2>2. w.faults # 0 /\ w.dir = s.v.dir /\ w.csize = s.v.csize
    BY <1>3, <1>5, <1>6, <1>7 DEF Kept
  <2>3. CallInv(x, sa)
    BY <1>3, <2>1, <2>2 DEF CallInv, SameState, Own
  <2>4. CallInv(x, abort(sa)) /\ SameFile(sa, abort(sa))
    BY <2>3, CallAbort
  <2>5. Started(s, abort(sa))
    BY <1>3, <2>1, <2>2, <2>4 DEF Started, SameFile, Kept
  <2>6. SeekFrom(s, r, n) = abort(sa)
    BY <1>4, <1>7
  <2> QED
    BY <2>4, <2>5, <2>6 DEF r
<1>8. CASE ~w.err /\ o = 0
  <2>1. SeekFrom(s, r, n) = s1
    BY <1>4, <1>8
  <2>2. SameFile(s, s1)
    BY <1>5, <1>6, <1>8 DEF SameFile, Writes
  <2> QED
    BY <1>6, <2>1, <2>2 DEF Started, r, SameFile
<1>9. CASE ~w.err /\ o # 0
  <2>1. SeekFrom(s, r, n) = t
    BY <1>4, <1>9
  <2>2. InChain(s1) /\ (s1.v.faults = 0 => ~s1.v.err /\ o \in clusters(s1.v.fat, s1.fp.org))
    BY <1>5, <1>6, <1>9 DEF InChain
  <2>3. /\ CallInv(x, t) /\ SameFile(s1, t)
        /\ t.v.faults = 0 /\ "w" \in s1.fp.flags => ~t.v.err
        /\ n >= 1 /\ s1.fp.ptr >= 0 /\ ~t.v.err => t.fp.ptr >= 1
    BY <1>3, <1>6, <2>2, Follow
  <2> HIDE DEF t
  <2>4. t.v.faults = 0 => t.fp.size = 0 /\ t.fp.ptr >= 1 /\ ~t.v.err
    <3> SUFFICES ASSUME t.v.faults = 0 PROVE t.fp.size = 0 /\ t.fp.ptr >= 1 /\ ~t.v.err
      OBVIOUS
    <3>1. s.v.faults = 0
      BY <1>6, <2>3 DEF SameFile, Writes
    <3>2. s.fp.size = 0
      BY <3>1 DEF CallInv, Quiet
    <3> QED
      BY <1>5, <2>3, <3>1, <3>2 DEF SameFile
  <2> QED
    BY <1>6, <2>1, <2>3, <2>4 DEF Started, r, SameFile, Writes
<1> QED
  BY <1>7, <1>8, <1>9 DEF r

(* So the seek starts in the chain of the file: from the current cluster,  *)
(* the first one, or a new one.                                            *)
LEMMA SeekStart ==
  ASSUME NEW x, NEW s, CallInv(x, s), ~s.v.err, s.fp.ptr = 0, ~(s.fp.csect < s.v.csize),
         NEW m \in Int, m # 0 => InChain(s),
         s.v.faults = 0 /\ s.fp.org = 0 => "w" \in s.fp.flags, NEW n \in Nat, n >= 1
  PROVE  LET t == seek_start(s, m, n) IN CallInv(x, t) /\ Started(s, t)
<1> DEFINE bcs == s.v.ss * s.v.csize
           onward == m > 0 /\ (n - 1) \div bcs >= (m - 1) \div bcs
           base == ((m - 1) \div bcs) * bcs
           s1 == [s EXCEPT !.fp.ptr = base]
           c == s.fp.curr
           k == n - base
           t == follow(s1, c, k)
<1>1. CallType(s) /\ c \in Nat
  BY DEF CallInv, CallType, FileType
<1>2. seek_start(s, m, n) = IF onward THEN t
                            ELSE SeekFrom(s, IF s.fp.org = 0 THEN create_chain(s.v, 0) ELSE <<s.v, s.fp.org>>, n)
  BY DEF seek_start, SeekFrom, FromTo
<1>3. bcs \in Nat \ {0}
  <2>1. s.v.ss \in Nat /\ s.v.ss >= 1 /\ s.v.csize \in Nat /\ s.v.csize >= 1
    BY <1>1 DEF CallType, VolType
  <2> QED
    BY <2>1
<1>4. CASE onward
  <2>1. base <= n - 1 /\ base \in Nat
    <3> HIDE DEF bcs
    <3>1. n - 1 \in Nat /\ m - 1 \in Nat
      BY <1>4
    <3> QED
      BY <1>3, <1>4, <3>1, DivBase
  <2>2. k \in Nat /\ base \in Int
    BY <2>1
  <2>3. InChain(s)
    BY <1>4
  <2>4. seek_start(s, m, n) = t
    BY <1>2, <1>4
  <2> HIDE DEF base, k, onward, bcs
  <2>5. Seeks(s, s1) /\ s1.fp.curr = c
    BY <1>1, <2>2 DEF Seeks, CallType, CallFields, FileType, FileFields
  <2> HIDE DEF s1
  <2>6. InChain(s1)
    BY <2>3, <2>5 DEF InChain, Seeks
  <2>7. CallInv(x, s1) /\ SameFile(s, s1)
    BY <2>5, <2>6, CallSeeks
  <2>8. s1.v.faults = 0 => ~s1.v.err /\ c \in clusters(s1.v.fat, s1.fp.org)
    BY <2>5, <2>6 DEF InChain, Seeks
  <2> HIDE DEF c
  <2>9. CallInv(x, t) /\ SameFile(s1, t)
    BY <1>1, <2>2, <2>6, <2>7, <2>8, Follow
  <2>10. SameFile(s, t)
    BY <2>7, <2>9, SameFileTrans
  <2> HIDE DEF t
  <2> QED
    BY <2>4, <2>9, <2>10 DEF Started, SameFile
<1>5. CASE ~onward
  <2> HIDE DEF onward
  <2>1. CASE s.fp.org = 0
    <3>1. seek_start(s, m, n) = SeekFrom(s, create_chain(s.v, 0), n)
      BY <1>2, <1>5, <2>1
    <3> QED
      BY <2>1, <3>1, SeekNew
  <2>2. CASE s.fp.org # 0
    <3>1. seek_start(s, m, n) = SeekFrom(s, <<s.v, s.fp.org>>, n)
      BY <1>2, <1>5, <2>2
    <3> QED
      BY <2>2, <3>1, SeekFirst
  <2> QED
    BY <2>1, <2>2
<1> QED
  BY <1>4, <1>5

(* The buffer has sector z. *)
SectorTo(s, z) == [s EXCEPT !.fp.dsect = z]

(* This is a transfer. *)
LEMMA SectorMoves ==
  ASSUME NEW s, CallType(s), NEW z
  PROVE  LET t == SectorTo(s, z) IN Transfers(s, t) /\ t.fp.ptr = s.fp.ptr
<1>1. Transfers(s, [s EXCEPT !.fp.dsect = z])
  BY CallUpdates
<1>2. [s EXCEPT !.fp.dsect = z].fp.ptr = s.fp.ptr
  BY DEF CallType, CallFields, FileType, FileFields
<1> QED
  BY <1>1, <1>2 DEF SectorTo

(* None of these moves the file pointer *)
LEMMA FlushPtr ==
  ASSUME NEW s, CallType(s)
  PROVE  flush(s).fp.ptr = s.fp.ptr
<1> DEFINE t == write_sector(s, s.fp.dsect, s.fp.buf)
<1>1. CallType(t)
  BY WriteSector, TransfersType
<1>2. t.fp = s.fp
  BY DEF write_sector, CallType, CallFields
<1> HIDE DEF t
<1>3. [t EXCEPT !.fp.flags = @ \ {"dirty"}].fp.ptr = t.fp.ptr
  BY <1>1 DEF CallType, CallFields, FileType, FileFields
<1>4. flush(s) = s \/ flush(s) = t \/ flush(s) = [t EXCEPT !.fp.flags = @ \ {"dirty"}]
  BY DEF flush, and_then, t
<1> QED
  BY <1>2, <1>3, <1>4

(* None of these moves the file pointer, either. *)
LEMMA SectorPtr ==
  ASSUME NEW s, CallType(s), NEW sect
  PROVE  read_sector(s, sect).fp.ptr = s.fp.ptr /\ abort(s).fp.ptr = s.fp.ptr
<1>1. abort(s).fp.ptr = s.fp.ptr
  BY DEF abort, CallType, CallFields, FileType, FileFields
<1>2. read_sector(s, sect).fp.ptr = s.fp.ptr
  <2> DEFINE v1 == disk_op(s.v)
  <2>1. [s EXCEPT !.v = v1].fp.ptr = s.fp.ptr
    BY DEF CallType, CallFields
  <2>2. [s EXCEPT !.v = v1, !.fp.buf = s.v.data[sect]].fp.ptr = s.fp.ptr
    BY DEF CallType, CallFields, FileType, FileFields
  <2> HIDE DEF v1
  <2>3. \/ read_sector(s, sect) = [s EXCEPT !.v = v1]
        \/ read_sector(s, sect) = [s EXCEPT !.v = v1, !.fp.buf = s.v.data[sect]]
    BY DEF read_sector, v1
  <2> QED
    BY <2>1, <2>2, <2>3
<1> QED
  BY <1>1, <1>2

(* Filling the buffer for a file pointer inside a sector *)
LEMMA SeekFill ==
  ASSUME NEW x, NEW s, CallInv(x, s)
  PROVE  LET t == seek_fill(s)
         IN CallInv(x, t) /\ SameFile(s, t) /\ t.fp.ptr = s.fp.ptr /\ (s.v.faults = 0 => t.v.err = s.v.err)
<1> DEFINE f == flush(s)
           r == read_sector(f, f.nsect)
           q == IF f.v.err THEN f ELSE r
           t == IF q.v.err THEN abort(q) ELSE SectorTo(q, q.nsect)
<1>1. CallType(s)
  BY DEF CallInv
<1>2. CASE s.fp.ptr % s.v.ss = 0 \/ s.nsect = s.fp.dsect
  <2>1. seek_fill(s) = s
    BY <1>2 DEF seek_fill
  <2> QED
    BY <2>1 DEF SameFile
<1>3. CASE ~(s.fp.ptr % s.v.ss = 0 \/ s.nsect = s.fp.dsect)
  <2>1. seek_fill(s) = t
    BY <1>3 DEF seek_fill, or_abort, and_then, SectorTo
  <2>2. InChain(s)
    <3>1. s.v.ss \in Nat \ {0}
      BY <1>1 DEF CallType, VolType
    <3>2. s.fp.ptr # 0
      BY <1>3, <3>1
    <3> QED
      BY <3>2 DEF InChain, CallInv, Quiet
  <2>3. Transfers(s, f) /\ CallType(f) /\ f.fp.ptr = s.fp.ptr
    BY <1>1, Flush, FlushPtr, TransfersType
  <2> HIDE DEF f
  <2>4. Transfers(s, r) /\ r.fp.ptr = s.fp.ptr
    BY <2>3, ReadSector, SectorPtr, TransfersTrans
  <2> HIDE DEF r
  <2>5. Transfers(s, q) /\ CallType(q) /\ q.fp.ptr = s.fp.ptr
    BY <2>3, <2>4, TransfersType
  <2> HIDE DEF q
  <2>6. q.v.err => Transfers(s, abort(q)) /\ abort(q).fp.ptr = s.fp.ptr
    BY <2>5, AbortTransfers, SectorPtr, TransfersTrans
  <2>7. Transfers(s, SectorTo(q, q.nsect)) /\ SectorTo(q, q.nsect).fp.ptr = s.fp.ptr
    BY <2>5, SectorMoves, TransfersTrans
  <2>8. Transfers(s, t) /\ t.fp.ptr = s.fp.ptr
    BY <2>6, <2>7
  <2> HIDE DEF t
  <2>9. CallInv(x, t) /\ SameFile(s, t)
    BY <2>2, <2>8, CallTransfers
  <2>10. s.v.faults = 0 => t.v.err = s.v.err
    BY <2>8 DEF Transfers, Moves
  <2> QED
    BY <2>1, <2>8, <2>9, <2>10
<1> QED
  BY <1>2, <1>3

(* It leaves what the start of the seek has come to. *)
LEMMA FillStarted ==
  ASSUME NEW s, NEW r, NEW t, Started(s, r), SameFile(r, t), t.fp.ptr = r.fp.ptr,
         r.v.faults = 0 => t.v.err = r.v.err
  PROVE  Started(s, t)
  BY DEF Started, SameFile

(* A seek past the end makes the file longer. *)
SeekGrown(r) ==
  IF r.fp.ptr <= r.fp.size THEN r ELSE extend([r EXCEPT !.fp.flags = @ \cup {"written"}])

(* Then its object is marked. *)
LEMMA Grows ==
  ASSUME NEW x, NEW s, NEW r, CallInv(x, r), Started(s, r)
  PROVE  LET t == SeekGrown(r) IN CallInv(x, t) /\ Marked(s, t)
<1> DEFINE y == r.fp.flags \cup {"written"}
           q == [r EXCEPT !.fp.flags = y]
<1>1. CASE r.fp.ptr <= r.fp.size
  <2>1. SeekGrown(r) = r
    BY <1>1 DEF SeekGrown
  <2>2. r.v.faults = 0 => ~(r.fp.size = 0 /\ r.fp.ptr >= 1)
    BY <1>1 DEF CallInv, CallType, FileType
  <2> QED
    BY <2>1, <2>2 DEF Marked, Started
<1>2. CASE ~(r.fp.ptr <= r.fp.size)
  <2>1. SeekGrown(r) = extend(q)
    BY <1>2 DEF SeekGrown
  <2>2. "written" \in y
    OBVIOUS
  <2> HIDE DEF y
  <2>3. q = [r EXCEPT !.fp.flags = y]
    OBVIOUS
  <2> HIDE DEF q
  <2>4. CallInv(x, q) /\ q.v = r.v /\ q.fp.flags = y
    BY <2>3, CallMark
  <2>5. CallInv(x, extend(q)) /\ extend(q).v = r.v /\ extend(q).fp.flags = y
    BY <2>4, Extend
  <2> QED
    BY <2>1, <2>2, <2>5 DEF Marked, Started
<1> QED
  BY <1>1, <1>2

(* A seek begins by going to the start. *)
SeekInit(s) == [s EXCEPT !.fp.ptr = 0, !.fp.csect = 255, !.nsect = NONE]

(* There any file object is quiet. *)
LEMMA SeekInitMoves ==
  ASSUME NEW x, NEW s, CallInv(x, s)
  PROVE  LET t == SeekInit(s)
         IN /\ CallInv(x, t) /\ SameFile(s, t) /\ t.v = s.v /\ t.fp.ptr = 0 /\ ~(t.fp.csect < t.v.csize)
            /\ t.fp.flags = s.fp.flags /\ t.fp.org = s.fp.org /\ (InChain(s) => InChain(t))
<1> DEFINE q == [s.fp EXCEPT !.ptr = 0, !.csect = 255]
           t == SeekInit(s)
<1>1. FileType(s.fp) /\ s.left \in Int /\ CallType(s) /\ s.v.csize \in 1 .. 128
  BY DEF CallType, CallInv, VolType
<1>2. /\ DOMAIN q = FileFields /\ q.ptr = 0 /\ q.csect = 255
      /\ \A f \in FileFields \ {"ptr", "csect"} : q[f] = s.fp[f]
  BY <1>1 DEF FileType, FileFields
<1>3. t.fp = q /\ t.v = s.v /\ t.left = s.left /\ t.c = s.c /\ DOMAIN t = CallFields
  BY <1>1 DEF SeekInit, CallType, CallFields
<1> HIDE DEF q, t
<1>4. q.open = s.fp.open /\ q.slot = s.fp.slot /\ q.org = s.fp.org /\ q.size = s.fp.size /\ q.flags = s.fp.flags
      /\ q.curr = s.fp.curr
  BY <1>2 DEF FileFields
<1>5. 0 \in Int /\ 255 \in Int
  OBVIOUS
<1>6. FileType(q)
  BY <1>1, <1>2, <1>4, <1>5 DEF FileType
<1>7. Seeks(s, t)
  BY <1>1, <1>3, <1>4, <1>6 DEF Seeks, CallType
<1>8. t.fp.ptr = 0 /\ ~(t.fp.csect < t.v.csize)
  BY <1>1, <1>2, <1>3
<1>9. CallInv(x, t) /\ SameFile(s, t)
  BY <1>7, <1>8, CallSeeks
<1>10. InChain(s) => InChain(t)
  BY <1>3, <1>4 DEF InChain
<1> QED
  BY <1>3, <1>4, <1>8, <1>9, <1>10 DEF t

(* f_lseek keeps the invariant of a call, to any offset, and marks the     *)
(* file object if its entry needs to be written.                           *)
LEMMA Lseek ==
  ASSUME NEW x, NEW s, CallInv(x, s), ~s.v.err, NEW n \in Nat
  PROVE  LET t == f_lseek(s, n) IN CallInv(x, t) /\ Marked(s, t)
<1> DEFINE o == IF n > s.fp.size /\ "w" \notin s.fp.flags THEN s.fp.size ELSE n
           s0 == SeekInit(s)
           r == IF o = 0 THEN s0 ELSE seek_start(s0, s.fp.ptr, o)
           q == IF r.v.err THEN r ELSE seek_fill(r)
           t == IF q.v.err THEN q ELSE SeekGrown(q)
<1>1. CallType(s) /\ o \in Nat /\ s.fp.size \in Nat /\ s.fp.ptr \in Int
  BY DEF CallInv, CallType, FileType
<1>2. CASE "error" \in s.fp.flags
  <2> DEFINE w == [s.v EXCEPT !.err = TRUE]
  <2>1. f_lseek(s, n) = [s EXCEPT !.v = w]
    BY <1>2, <1>1 DEF f_lseek, CallType, CallFields
  <2>2. CallInv(x, [s EXCEPT !.v = w]) /\ SameFile(s, [s EXCEPT !.v = w])
    BY CallFail
  <2> QED
    BY <2>1, <2>2 DEF Marked, SameFile
<1>3. CASE "error" \notin s.fp.flags
  <2>1. f_lseek(s, n) = t
    BY <1>3 DEF f_lseek, and_then, SeekInit, SeekGrown
  <2>2. s.v.faults = 0 /\ s.fp.org = 0 /\ o # 0 => "w" \in s.fp.flags
    <3> SUFFICES ASSUME s.v.faults = 0, s.fp.org = 0, "w" \notin s.fp.flags PROVE o = 0
      OBVIOUS
    <3>1. s.fp.size = 0
      BY DEF CallInv, Quiet
    <3> QED
      BY <3>1
  <2> HIDE DEF o, s0
  <2>3. /\ CallInv(x, s0) /\ SameFile(s, s0) /\ s0.v = s.v /\ s0.fp.ptr = 0 /\ ~(s0.fp.csect < s0.v.csize)
        /\ s0.fp.flags = s.fp.flags /\ s0.fp.org = s.fp.org /\ (InChain(s) => InChain(s0))
    BY SeekInitMoves DEF s0
  <2>4. CallInv(x, r) /\ Started(s0, r)
    <3>1. CASE o = 0
      BY <2>3, <3>1 DEF Started, SameFile
    <3>2. CASE o # 0
      <4>1. s.fp.ptr # 0 => InChain(s0)
        BY <2>3 DEF CallInv, Quiet, InChain
      <4>2. o >= 1 /\ r = seek_start(s0, s.fp.ptr, o)
        BY <1>1, <3>2
      <4> QED
        BY <1>1, <2>2, <2>3, <3>2, <4>1, <4>2, SeekStart
    <3> QED
      BY <3>1, <3>2
  <2> HIDE DEF r
  <2>5. /\ CallInv(x, seek_fill(r)) /\ SameFile(r, seek_fill(r)) /\ seek_fill(r).fp.ptr = r.fp.ptr
        /\ r.v.faults = 0 => seek_fill(r).v.err = r.v.err
    BY <2>4, SeekFill
  <2>6. CallInv(x, q) /\ Started(s0, q)
    BY <2>4, <2>5, FillStarted
  <2> HIDE DEF q
  <2>7. CallInv(x, t) /\ Marked(s0, t)
    <3>1. CASE q.v.err
      <4>1. Marked(s0, q)
        BY <2>6, <3>1 DEF Marked, Started
      <4> QED
        BY <2>6, <3>1, <4>1
    <3>2. CASE ~q.v.err
      BY <2>6, <3>2, Grows
    <3> QED
      BY <3>1, <3>2
  <2> HIDE DEF t
  <2>8. Marked(s, t)
    BY <2>3, <2>7 DEF Marked, SameFile
  <2> QED
    BY <2>1, <2>7, <2>8
<1> QED
  BY <1>2, <1>3

-----------------------------------------------------------------------------
(* f_sync *)

(* Two volumes that differ only in the directory (and in the windows) *)
SameBut(v, w) ==
  /\ VolType(w) /\ w.ss = v.ss /\ w.csize = v.csize /\ w.fat = v.fat /\ w.disk = v.disk /\ w.torn = v.torn
  /\ w.last = v.last /\ w.free = v.free /\ w.faults = v.faults /\ w.err = v.err /\ w.fail = v.fail

(* A new entry changes the directory and dirties the window, no more. *)
LEMMA SetDir ==
  ASSUME NEW v, VolType(v), NEW i \in 1 .. n_rootdir, NEW e \in Entry
  PROVE  LET w == set_dir(v, i, e) IN SameBut(v, w) /\ w.dir = [v.dir EXCEPT ![i] = e]
<1> DEFINE w == set_dir(v, i, e)
           d == [v.dir EXCEPT ![i] = e]
<1>1. d \in DIR
  BY DirSet DEF VolType
<1>2. w = [v EXCEPT !.dir = d, !.wflag = TRUE]
  BY DEF set_dir, VolType, VolFields
<1> HIDE DEF d, w
<1>3. /\ DOMAIN w = VolFields /\ w.dir = d /\ w.wflag = TRUE
      /\ \A f \in VolFields \ {"dir", "wflag"} : w[f] = v[f]
  BY <1>2 DEF VolType, VolFields
<1>4. /\ w.ss = v.ss /\ w.csize = v.csize /\ w.fat = v.fat /\ w.disk = v.disk /\ w.torn = v.torn
      /\ w.last = v.last /\ w.free = v.free /\ w.faults = v.faults /\ w.err = v.err /\ w.fail = v.fail /\ w.cut = v.cut
  BY <1>3 DEF VolFields
<1> QED
  BY <1>1, <1>3, <1>4 DEF SameBut, VolType, w, d

(* The volume keeps its invariant if the new directory has its files in    *)
(* heads of chains.                                                        *)
LEMMA HoldsDir ==
  ASSUME NEW v, NEW R, Holds(v, R), NEW w, SameBut(v, w), NEW Q \in SUBSET R, HeadsIn(w.dir, Q)
  PROVE  Holds(w, Q)
<1>1. InOrder(v.fat, Q)
  BY OrderLess DEF Holds
<1> QED
  BY <1>1 DEF Holds, SameBut

(* Flush, which leaves the file pointer and its cluster *)
LEMMA FlushSect ==
  ASSUME NEW s, CallType(s)
  PROVE  flush(s).fp.csect = s.fp.csect
<1> DEFINE t == write_sector(s, s.fp.dsect, s.fp.buf)
<1>1. CallType(t)
  BY WriteSector, TransfersType
<1>2. t.fp = s.fp
  BY DEF write_sector, CallType, CallFields
<1> HIDE DEF t
<1>3. [t EXCEPT !.fp.flags = @ \ {"dirty"}].fp.csect = t.fp.csect
  BY <1>1 DEF CallType, CallFields, FileType, FileFields
<1>4. flush(s) = s \/ flush(s) = t \/ flush(s) = [t EXCEPT !.fp.flags = @ \ {"dirty"}]
  BY DEF flush, and_then, t
<1> QED
  BY <1>2, <1>3, <1>4

(* Writing the buffer back in f_sync keeps the invariant of a call,        *)
(* wherever the file pointer is.                                           *)
LEMMA CallFlush ==
  ASSUME NEW x, NEW s, CallInv(x, s)
  PROVE  LET t == flush(s)
         IN CallInv(x, t) /\ SameFile(s, t) /\ (s.v.faults = 0 => t.v.err = s.v.err) /\ t.fp.slot = s.fp.slot
<1> DEFINE t == flush(s)
<1>1. Transfers(s, t) /\ CallType(t) /\ t.fp.ptr = s.fp.ptr /\ t.fp.csect = s.fp.csect
  BY Flush, FlushPtr, FlushSect, TransfersType DEF CallInv
<1> HIDE DEF t
<1>2. Holds(t.v, x.heads \cup Own(t.fp))
  BY <1>1, HoldsMoves DEF CallInv, Transfers, Own
<1>3. SameFile(s, t) /\ (s.v.faults = 0 => t.v.err = s.v.err)
  BY <1>1 DEF SameFile, Transfers, Moves
<1>4. t.v.faults = 0 => Tight(t.v, x.heads \cup Own(t.fp)) /\ GrowOn(x.fat, t.v.fat, x.heads)
  BY <1>1 DEF CallInv, Transfers, Moves, Tight, n_free, Own
<1>5. t.v.faults = 0 => Quiet(t.v, t.fp)
  BY <1>1 DEF CallInv, Transfers, Moves, Quiet
<1> QED
  BY <1>1, <1>2, <1>3, <1>4, <1>5 DEF CallInv, Transfers, Moves, t

(* The call x with another directory *)
With(x, d) == [k |-> x.k, heads |-> x.heads, dir |-> d, fat |-> x.fat, csize |-> x.csize]

(* The call is on a file, and the other entries of the directory start in  *)
(* the other files.                                                        *)
Others(x) ==
  /\ x.k \in 1 .. n_rootdir /\ x.dir[x.k].name \in Name
  /\ \A i \in 1 .. n_rootdir : i # x.k /\ x.dir[i].org \in Cluster => x.dir[i].org \in x.heads

(* What f_sync comes to: the entry of the file may be new *)
SyncedTo(x, s, t) ==
  /\ t.v.faults = s.v.faults
  /\ \/ CallInv(x, t) /\ (t.v.faults = 0 => SameFile(s, t)) /\ ("written" \in s.fp.flags => t.v.err)
     \/ LET d == t.v.dir
        IN /\ CallInv(With(x, d), t) /\ t.fp.org = s.fp.org /\ d[x.k].org = t.fp.org /\ d[x.k].size = t.fp.size
           /\ d[x.k].name = x.dir[x.k].name
           /\ \A i \in 1 .. n_rootdir : i # x.k => d[i] = x.dir[i]

(* f_sync stores the entry and has the window written. *)
SaveEntry(s, p) ==
  LET e == entry(s.v.dir[p.slot].name, p.org, p.size)
  IN [s EXCEPT !.v = sync(set_dir(s.v, p.slot, e)), !.fp.flags = @ \ {"written"}]

(* The entry that f_sync stores has the head of the file's own chain, so   *)
(* no two entries have one head.                                           *)
LEMMA SaveNew ==
  ASSUME NEW x, Others(x), NEW s, CallInv(x, s), NEW p, p.slot = x.k, p.org = s.fp.org, p.size = s.fp.size
  PROVE  LET t == SaveEntry(s, p)
             d == t.v.dir
         IN /\ t.v.faults = s.v.faults /\ t.fp.org = s.fp.org
            /\ CallInv(With(x, d), t) /\ d[x.k].org = t.fp.org /\ d[x.k].size = t.fp.size
            /\ d[x.k].name = x.dir[x.k].name
            /\ \A i \in 1 .. n_rootdir : i # x.k => d[i] = x.dir[i]
<1> DEFINE k == x.k
           e == entry(s.v.dir[k].name, p.org, p.size)
           v1 == set_dir(s.v, k, e)
           w == sync(v1)
           y == s.fp.flags \ {"written"}
           t == [s EXCEPT !.v = w, !.fp.flags = y]
           d == [x.dir EXCEPT ![k] = e]
           R == x.heads \cup Own(s.fp)
<1>1. CallType(s) /\ VolType(s.v) /\ Holds(s.v, R) /\ s.v.dir = x.dir /\ x.dir \in DIR /\ k \in 1 .. n_rootdir
      /\ s.fp.org \in Nat /\ s.fp.size \in Nat
  BY DEF CallInv, CallType, FileType, VolType, Others
<1>2. e \in Entry /\ e.org = s.fp.org /\ e.size = s.fp.size /\ e.name = x.dir[k].name
  <2>1. s.v.dir[k].name \in Name
    BY <1>1 DEF Others
  <2> QED
    BY <1>1, <2>1, EntryOf
<1>3. SaveEntry(s, p) = t
  BY DEF SaveEntry
<1> HIDE DEF e
<1>4. SameBut(s.v, v1) /\ v1.dir = d
  BY <1>1, <1>2, SetDir
<1> HIDE DEF v1
<1>5. d[k] = e /\ \A i \in 1 .. n_rootdir : i # k => d[i] = x.dir[i]
  BY <1>1 DEF DIR
<1>6. HeadsIn(d, R)
  <2> SUFFICES ASSUME NEW i \in 1 .. n_rootdir, d[i].org \in Cluster
               PROVE  d[i].org \in R /\ \A j \in 1 .. n_rootdir : d[j].org = d[i].org => j = i
    BY DEF HeadsIn
  <2>1. s.fp.org \notin x.heads /\ HeadsIn(x.dir, R)
    BY <1>1 DEF CallInv, Holds
  <2>2. CASE i = k
    <3>1. d[i].org = s.fp.org
      BY <1>2, <1>5, <2>2
    <3>2. d[i].org \in R
      BY <3>1 DEF Own
    <3>3. ASSUME NEW j \in 1 .. n_rootdir, d[j].org = d[i].org, j # i
          PROVE  FALSE
      <4>1. x.dir[j].org = s.fp.org /\ s.fp.org \in Cluster
        BY <1>5, <2>2, <3>1, <3>3
      <4> QED
        BY <4>1, <2>1, <2>2, <3>3 DEF Others
    <3> QED
      BY <3>2, <3>3
  <2>3. CASE i # k
    <3>1. d[i].org = x.dir[i].org /\ x.dir[i].org \in x.heads
      BY <1>5, <2>3 DEF Others
    <3>2. ASSUME NEW j \in 1 .. n_rootdir, d[j].org = d[i].org
          PROVE  j = i
      <4>1. j # k
        BY <1>2, <1>5, <2>1, <3>1, <3>2
      <4>2. x.dir[j].org = x.dir[i].org
        BY <1>5, <2>3, <3>2, <4>1
      <4> QED
        BY <2>1, <3>1, <4>2 DEF HeadsIn
    <3> QED
      BY <3>1, <3>2
  <2> QED
    BY <2>2, <2>3
<1>7. Holds(v1, R) /\ VolType(v1)
  BY <1>1, <1>4, <1>6, HoldsDir DEF SameBut
<1>8. Moves(v1, w) /\ VolType(w) /\ w.dir = d
  BY <1>4, <1>7, Sync DEF Moves
<1> HIDE DEF w
<1>9. Holds(w, R)
  BY <1>7, <1>8, HoldsMoves
<1>10. w.fat = s.v.fat /\ w.free = s.v.free /\ w.csize = s.v.csize /\ w.faults = s.v.faults
  BY <1>4, <1>8 DEF SameBut, Moves
<1>11. /\ CallType(t) /\ t.v = w /\ t.fp.open = s.fp.open /\ t.fp.slot = s.fp.slot /\ t.fp.org = s.fp.org
       /\ t.fp.size = s.fp.size /\ t.fp.ptr = s.fp.ptr /\ t.fp.csect = s.fp.csect /\ t.fp.curr = s.fp.curr
  <2> HIDE DEF y
  <2> QED
    BY <1>1, <1>8 DEF CallType, CallFields, FileType, FileFields
<1> HIDE DEF t, d
<1>12. t.v.faults = 0 => /\ Tight(t.v, x.heads \cup Own(t.fp)) /\ GrowOn(x.fat, t.v.fat, x.heads)
                         /\ Quiet(t.v, t.fp)
  BY <1>10, <1>11 DEF CallInv, Tight, n_free, Own, Quiet
<1>13. CallInv(With(x, d), t)
  BY <1>2, <1>5, <1>8, <1>9, <1>10, <1>11, <1>12 DEF CallInv, With, Own
<1> QED
  BY <1>2, <1>3, <1>5, <1>8, <1>10, <1>11, <1>13

(* f_sync, from its test for a new entry to its last transfer *)
LEMMA SyncFile ==
  ASSUME NEW x, Others(x), NEW s, CallInv(x, s), ~s.v.err
  PROVE  SyncedTo(x, s, f_sync(s))
<1> DEFINE r == flush(s)
           w == move_window(r.v, DirSect(s.fp.slot))
           q == [r EXCEPT !.v = w]
           t == SaveEntry(q, s.fp)
<1>1. f_sync(s) = IF "written" \notin s.fp.flags THEN s
                  ELSE IF r.v.err THEN r
                  ELSE IF q.v.err THEN q ELSE t
  BY DEF f_sync, and_then, SaveEntry
<1>2. CallInv(x, r) /\ SameFile(s, r) /\ (s.v.faults = 0 => r.v.err = s.v.err)
  BY CallFlush
<1>3. CASE "written" \notin s.fp.flags
  BY <1>1, <1>3 DEF SyncedTo, SameFile
<1>4. CASE "written" \in s.fp.flags /\ r.v.err
  <2>1. f_sync(s) = r
    BY <1>1, <1>4
  <2> HIDE DEF r
  <2> QED
    BY <1>2, <1>4, <2>1 DEF SyncedTo, SameFile
<1>5. CASE "written" \in s.fp.flags /\ ~r.v.err
  <2>1. f_sync(s) = IF q.v.err THEN q ELSE t
    BY <1>1, <1>5
  <2> HIDE DEF r
  <2>2. Moves(r.v, w)
    BY <1>2, MoveWindow DEF CallInv, CallType
  <2> HIDE DEF w
  <2>3. CallInv(x, q) /\ SameFile(r, q) /\ q.fp = r.fp
    BY <1>2, <2>2, CallMoves
  <2> HIDE DEF q
  <2>4. SameFile(s, q)
    BY <1>2, <2>3, SameFileTrans
  <2>5. CASE q.v.err
    BY <2>1, <2>3, <2>4, <2>5 DEF SyncedTo, SameFile
  <2>6. CASE ~q.v.err
    <3>1. s.fp.slot = x.k /\ s.fp.org = q.fp.org /\ s.fp.size = q.fp.size /\ q.v.faults = s.v.faults
      BY <2>4 DEF CallInv, SameFile
    <3>2. /\ t.v.faults = q.v.faults /\ t.fp.org = q.fp.org
          /\ CallInv(With(x, t.v.dir), t) /\ t.v.dir[x.k].org = t.fp.org /\ t.v.dir[x.k].size = t.fp.size
          /\ t.v.dir[x.k].name = x.dir[x.k].name
          /\ \A i \in 1 .. n_rootdir : i # x.k => t.v.dir[i] = x.dir[i]
      <4> HIDE DEF t
      <4>1. t = SaveEntry(q, s.fp)
        BY DEF t
      <4> QED
        BY <2>3, <3>1, <4>1, SaveNew
    <3> HIDE DEF t
    <3> QED
      BY <2>1, <2>6, <3>1, <3>2 DEF SyncedTo
  <2> QED
    BY <2>5, <2>6
<1> QED
  BY <1>3, <1>4, <1>5
=============================================================================
