------------------------------- MODULE FatFs -------------------------------
(***************************************************************************)
(* The FAT file system, fatfs/src/ff.c, as ffconf.h configures it (one     *)
(* volume, no long names, re-entrant, a sector buffer in every file        *)
(* object), on a FAT16 volume: sectors of FAT, and a root directory of any *)
(* number of sectors.  A volume v has the FAT and the directory as the     *)
(* driver sees them (fat, dir) and as they are on the medium (disk); the   *)
(* two differ in at most the sector in the window, which is written when   *)
(* another one is needed.  A call holds the lock of the volume from        *)
(* ENTER_FF to LEAVE_FF and is one step here; one of its transfers may     *)
(* fail, or be the last before a power cut.                                *)
(*                                                                         *)
(* The routines are functions of the volume v, or of a record s of the     *)
(* volume, a file object and the units read: s.v, s.fp, s.got.  v.err says *)
(* that one has returned an error; those that follow it do nothing.  A     *)
(* unit is the part of a sector that a caller may read or write.  Left     *)
(* out: sub-directories, attributes, times, f_truncate, the second FAT,    *)
(* FA_OPEN_ALWAYS (no caller); a run of whole sectors is transferred       *)
(* sector by sector.                                                       *)
(***************************************************************************)
EXTENDS Integers, Sequences, FiniteSets

CONSTANTS
  max_clust,       \* the clusters are 2 .. max_clust - 1
  per_fat,         \* FAT entries in a sector
  n_rootdir,       \* entries of the root directory
  per_dir,         \* entries in a sector
  Volume,          \* the volumes a behaviour may start with: ss, the units of
                   \* a sector, csize, the sectors of a cluster, fat, dir, data
  Name,
  Object,          \* the file objects
  Length, Offset,  \* what callers transfer, and where they seek
  MaxFile,         \* bound: units of a file
  MaxTransfer,     \* bound: the transfer of a call that may fail
  MaxFaults,       \* bound: faults in a behaviour
  MaxCalls,        \* bound: calls in a behaviour
  Cuts,            \* the kinds of faults: power cuts (TRUE), errors (FALSE)
  NONE, END,       \* no name: of a deleted entry, of one never used
  BROKEN

ASSUME FatAssumption ==
  /\ max_clust \in Nat \ 0 .. 2 /\ per_fat \in Nat \ {0} /\ n_rootdir \in Nat \ {0}
  /\ per_dir \in Nat \ {0} /\ n_rootdir % per_dir = 0
  /\ Cuts \subseteq BOOLEAN /\ Length \subseteq Nat /\ Offset \subseteq Nat
  /\ MaxTransfer \in Nat /\ MaxFaults \in Nat
  /\ NONE \notin Name \cup (2 .. max_clust - 1) \X Nat /\ END \notin Name \cup {NONE}

VARIABLES
  fs,              \* the volume; its field torn is no part of the program: the
                   \* pairs of names of the renamings that stopped half-way
  fil,             \* the file objects
  got              \* what the last call returned: units, or NONE for an error

fatvars == <<fs, fil, got>>

Cluster == 2 .. max_clust - 1
EOC == max_clust + 7         \* 0x0FFFFFFF
DISK_ERR == max_clust + 8    \* 0xFFFFFFFF
UNKNOWN == max_clust + 9     \* no free_clust

(* An entry, a deleted one (0xE5), and those after the last one (0) *)
entry(n, org, size) == [name |-> n, org |-> org, size |-> size]
BLANK == entry(NONE, 0, 0)
UNUSED == entry(END, 0, 0)

FAT == [Cluster -> Cluster \cup {0, EOC}]
DIR == [1 .. n_rootdir -> [name : Name, org : Nat, size : Nat] \cup {BLANK, UNUSED}]

(* The chain from c on *)
clusters(fat, c) ==
  LET closed(S) == c \in S /\ \A x \in S : fat[x] \in Cluster => fat[x] \in S
  IN IF c \notin Cluster THEN {} ELSE {x \in Cluster : \A S \in SUBSET Cluster : closed(S) => x \in S}

(* No chain starts or goes on in a free cluster, and no two come to one.   *)
InOrder(fat, heads) ==
  /\ \A c \in heads : fat[c] # 0
  /\ \A c \in Cluster : fat[c] \in Cluster => fat[c] \notin heads /\ fat[fat[c]] # 0
  /\ \A b, c \in Cluster : fat[b] \in Cluster /\ fat[b] = fat[c] => b = c

(* Every cluster in use is in the chain of one of the heads. *)
Covered(fat, heads) ==
  \A c \in Cluster : fat[c] # 0 => \E r \in heads : c \in clusters(fat, r)

(* Behaviours start with volumes in order: a cluster in use is in the      *)
(* chain of one entry.                                                     *)
ASSUME VolumeAssumption ==
  \A d \in Volume :
    LET heads == {d.dir[i].org : i \in 1 .. n_rootdir} \cap Cluster
    IN /\ d.ss \in Nat \ {0} /\ d.csize \in 1 .. 128
       /\ d.fat \in FAT /\ d.dir \in DIR
       /\ DOMAIN d.data = Cluster \X (0 .. d.csize - 1)
       /\ InOrder(d.fat, heads) /\ Covered(d.fat, heads)
       /\ \A i, j \in 1 .. n_rootdir : d.dir[i] = UNUSED /\ i <= j => d.dir[j] = UNUSED
       /\ \A i \in 1 .. n_rootdir :
            IF d.dir[i].org = 0 THEN d.dir[i].size = 0
            ELSE /\ d.dir[i].org \in Cluster
                 /\ \A j \in 1 .. n_rootdir : d.dir[j].org = d.dir[i].org => j = i

-----------------------------------------------------------------------------
(* The disk and the window *)

(* What the window may hold: nothing, the sector of the directory that has *)
(* entry i, or a sector of FAT.                                            *)
NO_SECT == -1 - n_rootdir
DirSect(i) == -1 - ((i - 1) \div per_dir)
FatSect(c) == c \div per_fat

(* A transfer.  The fail-th one of a call fails, if fail > 0; after a power *)
(* cut (fail < 0) all do.                                                  *)
disk_op(v) ==
  CASE v.fail > 1 -> [v EXCEPT !.fail = @ - 1]
    [] v.fail = 1 -> [v EXCEPT !.fail = IF v.cut THEN -1 ELSE 0, !.err = TRUE]
    [] v.fail = 0 -> v
    [] v.fail < 0 -> [v EXCEPT !.err = TRUE]

(* A routine goes on only if the one before it has not returned an error.  *)
then(v, F(_)) == IF v.err THEN v ELSE F(v)

(* A loop from s with F as its body, which keeps what the loop ends with.  *)
(* n turns are as many as it can make.                                     *)
repeat(n, s, F(_)) ==
  LET turn[k \in 0 .. n] == IF k = 0 THEN s ELSE F(turn[k - 1])
  IN turn[n]

write_back(v) ==
  IF ~v.wflag \/ v.err THEN v
  ELSE then(disk_op(v),
            LAMBDA w : [w EXCEPT !.wflag = FALSE, !.disk = [fat |-> v.fat, dir |-> v.dir]])

(* Mistake: a dirty window is dropped. *)
move_window_mut(v, s) ==
  IF v.err \/ v.winsect = s THEN v
  ELSE then(disk_op(v), LAMBDA w : [w EXCEPT !.winsect = s])

move_window(v, s) ==
  IF v.err \/ v.winsect = s THEN v
  ELSE then(then(write_back(v), disk_op), LAMBDA w : [w EXCEPT !.winsect = s])

sync(v) == then(write_back(v), disk_op)

-----------------------------------------------------------------------------
(* The FAT *)

fail(v) == [v EXCEPT !.err = TRUE]

read_fat(v, c) == IF c \in Cluster THEN move_window(v, FatSect(c)) ELSE v

get_fat(v, c) == IF c \notin Cluster THEN 1 ELSE IF v.err THEN DISK_ERR ELSE v.fat[c]

(* wflag is set in any case. *)
put_fat(v, c, val) ==
  LET w == move_window(v, FatSect(c))
  IN IF c \notin Cluster THEN fail(v)
     ELSE [w EXCEPT !.fat[c] = IF w.err THEN @ ELSE val, !.wflag = TRUE]

count_free(v, n) == [v EXCEPT !.free = IF @ = UNKNOWN THEN @ ELSE @ + n]

(* A turn of the loop in remove_chain; p is the volume and a cluster. *)
remove_next(p) ==
  LET w == read_fat(p.v, p.c)
      nxt == get_fat(w, p.c)
      x == put_fat(w, p.c, 0)
  IN IF p.v.err \/ p.c >= max_clust THEN p
     ELSE IF w.err THEN [p EXCEPT !.v = w]
     ELSE IF nxt = 0 THEN [v |-> w, c |-> EOC]
     ELSE IF nxt = 1 THEN [p EXCEPT !.v = fail(w)]
     ELSE IF x.err THEN [p EXCEPT !.v = x]
     ELSE [v |-> count_free(x, 1), c |-> nxt]

remove_chain(v, c) == repeat(max_clust, [v |-> v, c |-> c], remove_next).v

(* A chain starts in the range of clusters. *)
release_chain(v, c) ==
  IF c \in Cluster THEN remove_chain(v, c) ELSE fail(v)

(* A turn of the search of create_chain, which goes on from the cluster    *)
(* after p.ncl as far as scl.  It ends with p.result: a cluster, 0 for     *)
(* none, or an error.                                                      *)
find_next(p, scl) ==
  LET wraps == p.ncl + 1 >= max_clust
      n == IF wraps THEN 2 ELSE p.ncl + 1
      w == read_fat(p.v, n)
      cs == get_fat(w, n)
      ends(x, result) == [p EXCEPT !.v = x, !.result = result, !.ended = TRUE]
  IN IF p.ended THEN p
     ELSE IF wraps /\ n > scl THEN ends(p.v, 0)
     ELSE IF cs = 0 THEN ends(w, n)
     ELSE IF cs \in {DISK_ERR, 1} THEN ends(fail(w), cs)
     ELSE IF n = scl THEN ends(w, 0)
     ELSE [p EXCEPT !.v = w, !.ncl = n]

find_free(v, ncl, scl) ==
  repeat(max_clust, [v |-> v, ncl |-> ncl, result |-> 0, ended |-> FALSE],
         LAMBDA p : find_next(p, scl))

(* Mistake: the new cluster is not marked as the end of its chain. *)
link_mut(v, c, n) == IF c = 0 THEN v ELSE put_fat(v, c, n)

link(v, c, n) ==
  then(put_fat(v, n, EOC), LAMBDA w : IF c = 0 THEN w ELSE put_fat(w, c, n))

(* The second half of create_chain, with what the search has found *)
link_found(c, p) ==
  LET mark(w) == IF w.err THEN <<w, DISK_ERR>>
                 ELSE <<count_free([w EXCEPT !.last = p.result], -1), p.result>>
  IN IF p.result \notin Cluster THEN <<p.v, p.result>> ELSE mark(link(p.v, c, p.result))

(* create_chain: the volume and the result; after an error err is set.  An *)
(* error in the first get_fat is taken for the end of the chain.           *)
create_chain(v, c) ==
  LET hint == IF v.last = 0 \/ v.last >= max_clust THEN 1 ELSE v.last
      stretch(w) ==
        LET cs == get_fat(w, c)
        IN IF cs < 2 THEN <<fail(w), 1>>
           ELSE IF cs < max_clust THEN <<w, cs>>
           ELSE link_found(c, find_free([w EXCEPT !.err = FALSE], c, c))
  IN IF c = 0 THEN link_found(0, find_free(v, hint, hint)) ELSE stretch(read_fat(v, c))

-----------------------------------------------------------------------------
(* The directory *)

(* A turn of the search for an entry with a name in N: the one after p.i.  *)
(* The window is moved over the directory.                                 *)
dir_next(p, N) ==
  LET i == p.i + 1
      w == move_window(p.v, DirSect(i))
  IN IF p.ended \/ p.v.err THEN p
     ELSE [v |-> w, i |-> i, ended |-> ~w.err /\ w.dir[i].name \in N]

dir_search(v, N) ==
  repeat(n_rootdir, [v |-> v, i |-> 0, ended |-> FALSE], LAMBDA p : dir_next(p, N))

(* The volume and the entry of n; 0 is no entry. *)
dir_find(v, n) ==
  LET p == dir_search(v, {n, END})
  IN <<p.v, IF p.ended /\ p.v.dir[p.i].name = n THEN p.i ELSE 0>>

(* Where dir_register puts a new entry: the first that is not in use *)
blank_entry(v) ==
  LET p == dir_search(v, {NONE, END}) IN <<p.v, IF p.ended THEN p.i ELSE 0>>

set_dir(v, i, e) == [v EXCEPT !.dir[i] = e, !.wflag = TRUE]

-----------------------------------------------------------------------------
(* Data sectors and the buffer of a file object *)

clust2sect(c, k) == <<c, k>>

read_sector(s, sect) ==
  LET v1 == disk_op(s.v)
  IN IF v1.err THEN [s EXCEPT !.v = v1]
     ELSE [s EXCEPT !.v = v1, !.fp.buf = s.v.data[sect]]

write_sector(s, sect, units) ==
  LET v1 == disk_op(s.v)
  IN [s EXCEPT !.v = IF v1.err THEN v1 ELSE [v1 EXCEPT !.data[sect] = units]]

(* ABORT *)
abort(s) == [s EXCEPT !.v.err = TRUE, !.fp.flags = @ \cup {"error"}]

(* As then; or_abort also marks the file object. *)
and_then(s, F(_)) == IF s.v.err THEN s ELSE F(s)
or_abort(s, F(_)) == IF s.v.err THEN abort(s) ELSE F(s)

(* Write-back of a dirty buffer *)
flush(s) ==
  IF "dirty" \notin s.fp.flags THEN s
  ELSE and_then(write_sector(s, s.fp.dsect, s.fp.buf),
                LAMBDA r : [r EXCEPT !.fp.flags = @ \ {"dirty"}])

at_cluster(s, c) ==
  IF c \in Cluster THEN [s EXCEPT !.fp.curr = c, !.fp.csect = 0] ELSE abort(s)

(* The buffer is taken for sector sect, the next one of the cluster. *)
at_sector(s, sect) == [s EXCEPT !.fp.dsect = sect, !.fp.csect = @ + 1]

(* The part of the buffer, and of what is left to transfer, up to the end  *)
(* of the sector.                                                          *)
chunk(s) ==
  LET room == s.v.ss - (s.fp.ptr % s.v.ss) IN IF s.left < room THEN s.left ELSE room

advance(s, k) == [s EXCEPT !.fp.ptr = @ + k, !.left = @ - k]

-----------------------------------------------------------------------------
(* f_read *)

(* The cluster of the file pointer, at the boundary of two. *)
read_cluster(s) ==
  LET next(r) == at_cluster(r, get_fat(r.v, r.fp.curr))
  IN IF s.fp.csect < s.v.csize THEN s
     ELSE IF s.fp.ptr = 0 THEN at_cluster(s, s.fp.org)
     ELSE next([s EXCEPT !.v = read_fat(@, s.fp.curr)])

copy_out(s) ==
  LET k == chunk(s)
      o == s.fp.ptr % s.v.ss
  IN advance([s EXCEPT !.got = @ \o SubSeq(s.fp.buf, o + 1, o + k)], k)

(* A whole sector goes to the caller directly, unless it is in the buffer. *)
read_direct(s, sect) ==
  LET v1 == disk_op(s.v)
      here == "dirty" \in s.fp.flags /\ s.fp.dsect = sect
      units == IF here THEN s.fp.buf ELSE s.v.data[sect]
  IN IF v1.err THEN abort([s EXCEPT !.v = v1])
     ELSE advance([s EXCEPT !.v = v1, !.got = @ \o units, !.fp.csect = @ + 1], s.v.ss)

read_buffered(s, sect) ==
  LET fill(r) == IF r.fp.dsect = sect THEN r ELSE read_sector(r, sect)
  IN or_abort(and_then(flush(s), fill), LAMBDA r : at_sector(r, sect))

(* A turn of the loop: the rest of a sector, or from the next one. *)
read_next(s) ==
  LET sector(r) ==
        LET sect == clust2sect(r.fp.curr, r.fp.csect)
        IN IF r.left >= r.v.ss THEN read_direct(r, sect)
           ELSE and_then(read_buffered(r, sect), copy_out)
  IN IF s.left = 0 \/ s.v.err THEN s
     ELSE IF s.fp.ptr % s.v.ss # 0 THEN copy_out(s)
     ELSE and_then(read_cluster(s), sector)

f_read(s, n) ==
  LET remain == s.fp.size - s.fp.ptr
  IN IF "error" \in s.fp.flags \/ "r" \notin s.fp.flags THEN [s EXCEPT !.v.err = TRUE]
     ELSE repeat(n, [s EXCEPT !.left = IF n > remain THEN remain ELSE n], read_next)

-----------------------------------------------------------------------------
(* f_write of the units of wbuff *)

(* As read_cluster; a chain grows, and curr is 0 when the disk is full. *)
write_cluster(s) ==
  LET first == s.fp.ptr = 0
      grow(r) ==
        LET s1 == [s EXCEPT !.v = r[1], !.fp.org = IF first THEN r[2] ELSE @]
        IN IF r[2] = 0 THEN s1 ELSE at_cluster(s1, r[2])
  IN IF s.fp.csect < s.v.csize THEN s
     ELSE IF first /\ s.fp.org # 0 THEN at_cluster(s, s.fp.org)
     ELSE grow(create_chain(s.v, IF first THEN 0 ELSE s.fp.curr))

full(s) == s.fp.ptr % s.v.ss = 0 /\ s.fp.csect >= s.v.csize

(* The i-th of the units that are left *)
unit_left(s, wbuff, i) == wbuff[Len(wbuff) - s.left + i]

copy_in(s, wbuff) ==
  LET o == s.fp.ptr % s.v.ss
      k == chunk(s)
      new(i) == IF i \in o + 1 .. o + k THEN unit_left(s, wbuff, i - o) ELSE s.fp.buf[i]
  IN advance([s EXCEPT !.fp.buf = [i \in 1 .. s.v.ss |-> new(i)],
                       !.fp.flags = @ \cup {"dirty"}], k)

write_direct(s, sect, wbuff) ==
  LET units == [i \in 1 .. s.v.ss |-> unit_left(s, wbuff, i)]
      renew(r) == IF r.fp.dsect # sect THEN r
                  ELSE [r EXCEPT !.fp.buf = units, !.fp.flags = @ \ {"dirty"}]
  IN or_abort(write_sector(s, sect, units),
              LAMBDA r : advance([renew(r) EXCEPT !.fp.csect = @ + 1], s.v.ss))

(* Mistake: the sector is not read first. *)
write_buffered_mut(s, sect) == at_sector(s, sect)

(* The sector is read only if the file has data there. *)
write_buffered(s, sect) ==
  LET fill == s.fp.dsect # sect /\ s.fp.ptr < s.fp.size
  IN or_abort(IF fill THEN read_sector(s, sect) ELSE s, LAMBDA r : at_sector(r, sect))

(* A turn of the loop, which ends early when the disk is full. *)
write_next(s, wbuff) ==
  LET sector(r) ==
        LET sect == clust2sect(r.fp.curr, r.fp.csect)
        IN IF r.left >= r.v.ss THEN write_direct(r, sect, wbuff)
           ELSE and_then(write_buffered(r, sect), LAMBDA q : copy_in(q, wbuff))
  IN IF s.left = 0 \/ s.v.err THEN s
     ELSE IF s.fp.ptr % s.v.ss # 0 THEN copy_in(s, wbuff)
     ELSE and_then(write_cluster(s),
                   LAMBDA r : IF full(r) THEN [r EXCEPT !.left = 0]
                              ELSE or_abort(flush(r), sector))

(* A larger file pointer is the new size. *)
extend(s) == [s EXCEPT !.fp.size = IF s.fp.ptr > @ THEN s.fp.ptr ELSE @]

f_write(s, wbuff) ==
  LET n == Len(wbuff)
      all == repeat(n, [s EXCEPT !.left = n], LAMBDA r : write_next(r, wbuff))
  IN IF "error" \in s.fp.flags \/ "w" \notin s.fp.flags THEN [s EXCEPT !.v.err = TRUE]
     ELSE and_then(all, LAMBDA r : extend([r EXCEPT !.fp.flags = @ \cup {"written"}]))

-----------------------------------------------------------------------------
(* f_lseek *)

(* A turn of the cluster following loop; s.left units are left from the    *)
(* start of cluster s.c, which is 0 when the disk is full.                 *)
follow_next(s) ==
  LET bcs == s.v.ss * s.v.csize
      w == "w" \in s.fp.flags
      v1 == read_fat(s.v, s.c)
      r == IF w THEN create_chain(s.v, s.c) ELSE <<v1, get_fat(v1, s.c)>>
      s1 == [s EXCEPT !.v = r[1]]
  IN IF s.v.err \/ s.left <= bcs THEN s
     ELSE IF w /\ r[2] = 0 THEN [s1 EXCEPT !.c = 0, !.left = bcs]
     ELSE IF r[2] \notin Cluster THEN abort(s1)
     ELSE [s1 EXCEPT !.fp.curr = r[2], !.fp.ptr = @ + bcs, !.c = r[2], !.left = @ - bcs]

(* The loop, and the sector in the last cluster *)
follow(s, c, ofs) ==
  LET last(r) ==
        LET at == [r EXCEPT !.fp.ptr = @ + r.left, !.fp.csect = r.left \div r.v.ss]
        IN IF r.left % r.v.ss = 0 THEN at
           ELSE [at EXCEPT !.nsect = clust2sect(r.c, at.fp.csect), !.fp.csect = @ + 1]
  IN and_then(repeat(ofs, [s EXCEPT !.c = c, !.left = ofs], follow_next), last)

(* The start: the current cluster, the first one, or a new one. *)
seek_start(s, ifptr, ofs) ==
  LET bcs == s.v.ss * s.v.csize
      onward == ifptr > 0 /\ (ofs - 1) \div bcs >= (ifptr - 1) \div bcs
      base == ((ifptr - 1) \div bcs) * bcs
      from(r) ==
        LET s1 == [s EXCEPT !.v = r[1], !.fp.org = r[2], !.fp.curr = r[2]]
        IN IF r[1].err THEN abort([s EXCEPT !.v = r[1]])
           ELSE IF r[2] = 0 THEN s1 ELSE follow(s1, r[2], ofs)
  IN IF onward THEN follow([s EXCEPT !.fp.ptr = base], s.fp.curr, ofs - base)
     ELSE from(IF s.fp.org = 0 THEN create_chain(s.v, 0) ELSE <<s.v, s.fp.org>>)

(* The buffer for a file pointer inside a sector *)
seek_fill(s) ==
  IF s.fp.ptr % s.v.ss = 0 \/ s.nsect = s.fp.dsect THEN s
  ELSE or_abort(and_then(flush(s), LAMBDA r : read_sector(r, r.nsect)),
                LAMBDA r : [r EXCEPT !.fp.dsect = r.nsect])

f_lseek(s, ofs) ==
  LET o == IF ofs > s.fp.size /\ "w" \notin s.fp.flags THEN s.fp.size ELSE ofs
      s0 == [s EXCEPT !.fp.ptr = 0, !.fp.csect = 255, !.nsect = NONE]
      grown(r) == IF r.fp.ptr <= r.fp.size THEN r
                  ELSE extend([r EXCEPT !.fp.flags = @ \cup {"written"}])
  IN IF "error" \in s.fp.flags THEN [s EXCEPT !.v.err = TRUE]
     ELSE and_then(and_then(IF o = 0 THEN s0 ELSE seek_start(s0, s.fp.ptr, o), seek_fill),
                   grown)

-----------------------------------------------------------------------------
(* f_sync; f_open and the calls that need no file object *)

f_sync(s) ==
  LET new(r) == entry(r.v.dir[s.fp.slot].name, s.fp.org, s.fp.size)
      save(r) == [r EXCEPT !.v = sync(set_dir(@, s.fp.slot, new(r))),
                           !.fp.flags = @ \ {"written"}]
  IN IF "written" \notin s.fp.flags THEN s
     ELSE and_then(flush(s), LAMBDA r :
            and_then([r EXCEPT !.v = move_window(@, DirSect(s.fp.slot))], save))

no_file(v) ==
  [open |-> FALSE, slot |-> 0, flags |-> {}, org |-> 0, size |-> 0, ptr |-> 0,
   csect |-> 255, curr |-> 0, dsect |-> NONE, buf |-> [i \in 1 .. v.ss |-> 0]]

file_object(v, i, flags) ==
  [no_file(v) EXCEPT !.open = TRUE, !.slot = i, !.flags = flags,
                     !.org = v.dir[i].org, !.size = v.dir[i].size]

(* Overwriting: the entry is emptied, and then the chain released. *)
overwrite_mut(v, i) ==
  LET org == v.dir[i].org
  IN then(then(IF org = 0 THEN v ELSE release_chain(v, org),
               LAMBDA w : move_window(w, DirSect(i))),
          LAMBDA w : set_dir(w, i, entry(w.dir[i].name, 0, 0)))

overwrite(v, i) ==
  LET org == v.dir[i].org
      v1 == set_dir(v, i, entry(v.dir[i].name, 0, 0))
  IN IF org = 0 THEN v1
     ELSE then(release_chain(v1, org),
               LAMBDA w : move_window([w EXCEPT !.last = org - 1], DirSect(i)))

(* create: make no file ("no"), or a new one: only where there is none     *)
(* ("new"), or in the place of an old one too ("always").                  *)
f_open(v, n, create, flags) ==
  LET result(w, fp) == [v |-> w, fp |-> fp, got |-> << >>]
      none(w) == result(fail(w), no_file(w))
      created(w, i) == IF w.err THEN none(w)
                       ELSE result([w EXCEPT !.wflag = TRUE],
                                   file_object(w, i, flags \cup {"written"}))
      register(w, j) ==
        IF w.err \/ j = 0 THEN none(w) ELSE created(set_dir(w, j, entry(n, 0, 0)), j)
      new(r) == register(r[1], r[2])
      old(w, i) == CASE create = "no" -> result(w, file_object(w, i, flags))
                     [] create = "new" -> none(w)
                     [] create = "always" -> created(overwrite(w, i), i)
      found(r) == IF r[1].err \/ (r[2] = 0 /\ create = "no") THEN none(r[1])
                  ELSE IF r[2] = 0 THEN new(blank_entry(r[1])) ELSE old(r[1], r[2])
  IN found(dir_find(v, n))

f_unlink(v, n) ==
  LET remove(w, i) ==
        LET blank == set_dir(w, i, BLANK)
            org == w.dir[i].org
        IN IF w.err \/ i = 0 THEN fail(w)
           ELSE then(IF org = 0 THEN blank ELSE release_chain(blank, org), sync)
      found(r) == remove(r[1], r[2])
  IN found(dir_find(v, n))

(* The new entry j is written before the old one i is deleted, when they   *)
(* are in different sectors: a call that ends between the two leaves both  *)
(* names, which torn then has.                                             *)
rename_entry(v, i, j, new) ==
  LET both == set_dir(v, j, [v.dir[i] EXCEPT !.name = new])
      w == then(then(move_window(both, DirSect(i)), LAMBDA x : set_dir(x, i, BLANK)), sync)
  IN IF w.err /\ DirSect(i) # DirSect(j) THEN [w EXCEPT !.torn = @ \cup {{v.dir[i].name, new}}]
     ELSE w

f_rename(v, old, new) ==
  LET register(w, i, j) == IF w.err \/ j = 0 THEN fail(w) ELSE rename_entry(w, i, j, new)
      blank(i, r) == register(r[1], i, r[2])
      check(i, r) == IF r[1].err \/ r[2] # 0 THEN fail(r[1]) ELSE blank(i, blank_entry(r[1]))
      found(r) == IF r[1].err \/ r[2] = 0 THEN fail(r[1]) ELSE check(r[2], dir_find(r[1], new))
  IN found(dir_find(v, old))

(* All sectors of the FAT are read. *)
scan(v) ==
  repeat(((max_clust - 1) \div per_fat) + 1, [v |-> v, i |-> 0],
         LAMBDA p : [v |-> move_window(p.v, p.i), i |-> p.i + 1]).v

n_free(v) == Cardinality({c \in Cluster : v.fat[c] = 0})

f_getfree(v) ==
  IF v.free # UNKNOWN THEN v
  ELSE then(scan(v), LAMBDA w : [w EXCEPT !.free = n_free(w)])

-----------------------------------------------------------------------------
(* The calls *)

(* chk_mounted: the object of a volume found on the medium *)
mount(v, disk) ==
  [v EXCEPT !.fat = disk.fat, !.dir = disk.dir, !.disk = disk, !.winsect = NO_SECT,
            !.wflag = FALSE, !.last = 0, !.free = UNKNOWN,
            !.fail = 0, !.cut = FALSE, !.err = FALSE]

FatInit ==
  /\ \E d \in Volume :
       fs = mount([ss |-> d.ss, csize |-> d.csize, data |-> d.data, faults |-> 0, torn |-> {},
                   cuts |-> 0, calls |-> 0, fat |-> 0, dir |-> 0, disk |-> 0, winsect |-> 0,
                   wflag |-> FALSE, last |-> 0, free |-> 0, fail |-> 0, cut |-> FALSE,
                   err |-> FALSE], [fat |-> d.fat, dir |-> d.dir])
  /\ fil = [h \in Object |-> no_file(fs)]
  /\ got = << >>

Fault ==
  {<<0, FALSE>>} \cup IF fs.faults < MaxFaults THEN (1 .. MaxTransfer) \X Cuts ELSE {}

(* A call begins, with a fault to come or not. *)
call(f) ==
  [fs EXCEPT !.fail = f[1], !.cut = f[2], !.calls = @ + 1,
             !.faults = IF f[1] = 0 THEN @ ELSE @ + 1]

call_on(h, f) == [v |-> call(f), fp |-> fil[h], got |-> << >>, nsect |-> NONE,
   left |-> 0, c |-> 0]

(* What free clusters hold is not told apart. *)
tidy(v) ==
  [v EXCEPT !.data = [sect \in DOMAIN @ |-> IF v.fat[sect[1]] = 0 THEN [i \in 1 .. v.ss |-> 0] ELSE @[sect]]]

(* It ends, and the fault has happened; or the system starts again.        *)
return(v, files, units) ==
  /\ v.fail <= 0
  /\ \/ /\ v.fail = 0
        /\ fs' = tidy([v EXCEPT !.cut = FALSE, !.err = FALSE])
        /\ fil' = files
        /\ got' = IF v.err THEN NONE ELSE units
     \/ /\ v.fail < 0
        /\ fs' = tidy([mount(v, v.disk) EXCEPT !.cuts = @ + 1])
        /\ fil' = [h \in Object |-> no_file(v)]
        /\ got' = NONE

return_on(h, s) == return(s.v, [fil EXCEPT ![h] = s.fp], s.got)

(* Callers open no file twice, and remove or rename no open file. *)
in_use(n) == \E h \in Object : fil[h].open /\ fs.dir[fil[h].slot].name = n

open(h, n, create, flags, f) ==
  /\ ~fil[h].open /\ ~in_use(n)
  /\ return_on(h, f_open(call(f), n, create, flags))

read(h, n, f) == fil[h].open /\ return_on(h, f_read(call_on(h, f), n))

(* Every call writes units of its own, no two alike. *)
new_units(call_no, n) == [i \in 1 .. n |-> call_no * MaxFile + i]

write(h, n, f) ==
  /\ fil[h].open /\ fil[h].ptr + n <= MaxFile
  /\ return_on(h, f_write(call_on(h, f), new_units(fs.calls + 1, n)))

lseek(h, ofs, f) == fil[h].open /\ return_on(h, f_lseek(call_on(h, f), ofs))

sync_file(h, f) == fil[h].open /\ return_on(h, f_sync(call_on(h, f)))

close(h, f) ==
  /\ fil[h].open
  /\ return_on(h, and_then(f_sync(call_on(h, f)), LAMBDA s : [s EXCEPT !.fp = no_file(s.v)]))

unlink(n, f) == ~in_use(n) /\ return(f_unlink(call(f), n), fil, << >>)

rename(n, m, f) == ~in_use(n) /\ return(f_rename(call(f), n, m), fil, << >>)

getfree(f) == LET v == f_getfree(call(f)) IN return(v, fil, <<v.free>>)

(* The power is cut between two calls. *)
reboot ==
  /\ fs.faults < MaxFaults /\ TRUE \in Cuts
  /\ return([call(<<1, TRUE>>) EXCEPT !.fail = -1], fil, << >>)

-----------------------------------------------------------------------------
(* What a file holds, as the callers see it and as it is on the medium *)

(* The cluster k clusters after c *)
nth_cluster(fat, c, k) == repeat(k, c, LAMBDA x : fat[x])

(* size units of the chain from org on, when unit(sect, i) is one of them *)
contents(fat, org, size, unit(_, _)) ==
  LET ss == fs.ss
      bcs == ss * fs.csize
      at(o) == clust2sect(nth_cluster(fat, org, o \div bcs), (o \div ss) % fs.csize)
  IN IF org \notin Cluster \cup {0} \/ size > Cardinality(clusters(fat, org)) * bcs THEN BROKEN
     ELSE [i \in 1 .. size |-> unit(at(i - 1), ((i - 1) % ss) + 1)]

stored(fat, e) == contents(fat, e.org, e.size, LAMBDA sect, i : fs.data[sect][i])

on_disk(n) ==
  IF \A i \in 1 .. n_rootdir : fs.disk.dir[i].name # n THEN NONE
  ELSE stored(fs.disk.fat, CHOOSE e \in {fs.disk.dir[i] : i \in 1 .. n_rootdir} : e.name = n)

opener(i) == {h \in Object : fil[h].open /\ fil[h].slot = i}

buffered(fp) ==
  LET unit(sect, i) == IF "dirty" \in fp.flags /\ fp.dsect = sect
                       THEN fp.buf[i] ELSE fs.data[sect][i]
  IN contents(fs.fat, fp.org, fp.size, unit)

(* The file of entry i *)
file_at(i) ==
  IF opener(i) = {} THEN stored(fs.fat, fs.dir[i])
  ELSE buffered(fil[CHOOSE h \in opener(i) : TRUE])

seen(n) ==
  LET i == {j \in 1 .. n_rootdir : fs.dir[j].name = n}
  IN IF i = {} THEN NONE ELSE file_at(CHOOSE j \in i : TRUE)

handle_of(h) ==
  IF ~fil[h].open THEN NONE
  ELSE [name |-> fs.dir[fil[h].slot].name, ptr |-> fil[h].ptr,
        flags |-> fil[h].flags \ {"dirty"}]
=============================================================================
