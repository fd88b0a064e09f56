------------------------------ MODULE MCFiles ------------------------------
(***************************************************************************)
(* An instance for TLC of the files: two names, three clusters in two      *)
(* sectors of FAT, four entries in two sectors of directory, and a volume  *)
(* that is empty; or full; or has both files, one in each sector, and a    *)
(* free cluster between their chains; or has f1 only, in the second sector *)
(* of the directory with room in the first.  A cluster has two sectors of  *)
(* one unit, or one sector of two units.  No two units are alike.          *)
(***************************************************************************)
EXTENDS KzStdio

CONSTANTS f1, f2

Disk(ss, csize, fat, dir) ==
  [ss |-> ss, csize |-> csize, fat |-> fat, dir |-> dir,
   data |-> [sect \in Cluster \X (0 .. csize - 1) |->
               [i \in 1 .. ss |->
                  IF fat[sect[1]] = 0 THEN 0 ELSE -(10 * sect[1] + 2 * sect[2] + i)]]]

(* FAT, directory, and units of a sector *)
Contents == {
  << <<0, 0, 0>>,     <<UNUSED, UNUSED, UNUSED, UNUSED>>, {1, 2} >>,
  << <<4, EOC, EOC>>, <<entry(f1, 2, 3), BLANK, entry(f2, 3, 1), UNUSED>>, {1} >>,
  << <<4, 0, EOC>>,   <<entry(f1, 2, 3), BLANK, BLANK, entry(f2, 0, 0)>>, {1, 2} >>,
  << <<4, 0, EOC>>,   <<BLANK, BLANK, entry(f1, 2, 3), UNUSED>>, {2} >> }

MCVolume ==
  UNION {{Disk(ss, 3 - ss, [c \in Cluster |-> x[1][c - 1]], x[2]) : ss \in x[3]} : x \in Contents}
=============================================================================
