------------------------------ MODULE Fat32Tree ------------------------------
(***************************************************************************)
(* The directory tree a FAT32 volume holds: which directory each path      *)
(* names, and which entry each cluster belongs to.  The driver keeps no    *)
(* such tables.  That they exist is what its proofs go by, and what a      *)
(* volume must be for its callers to see a tree of names at all.           *)
(*                                                                         *)
(* A table home gives the path of each directory, by its cluster; a table  *)
(* own gives the entry each cluster belongs to.  An entry is a pair of a   *)
(* directory and a slot.                                                   *)
(***************************************************************************)
EXTENDS Fat32

(* The cluster after c in the FAT f.                                         *)
After(f, c) == IF c \in {0, 1} \/ f[c] \in {0, 1, EOC} THEN NONE ELSE f[c]

(* The owners that are not entries.                                          *)
NOBODY  == <<NONE, 0>>
THEROOT == <<Root, 0>>

(* The entries of the clusters t, leaving out "." and "..", and their paths. *)
At(t, e) == t[e[1]][e[2]]
Ids(t, home) == {e \in (DOMAIN home) \X (1..Slots) : At(t, e).name \in Names}
PathOf(t, home, e) == Append(home[e[1]], At(t, e).name)

(* The slots of a directory: what was never used comes last, no name is there*)
(* twice, and all but the root begin with "." and "..".                      *)
OrderedRow(row) ==
  /\ \A i, j \in 1..Slots : i < j /\ row[i] = END => row[j] = END
  /\ \A i, j \in 1..Slots : row[i].name \in Names /\ row[i].name = row[j].name => i = j
Headed(row) == row[1].name = "." /\ row[2].name = ".."

Directories(t, home) ==
  /\ DOMAIN home \subseteq Index \ {NONE} /\ Root \in DOMAIN home /\ home[Root] = <<>>
  /\ \A d \in DOMAIN home : home[d] \in Seq(Names)
  /\ \A c, d \in DOMAIN home : home[c] = home[d] => c = d
  /\ \A d \in DOMAIN home : OrderedRow(t[d]) /\ (d # Root => Headed(t[d]))

(* The tree is closed: an entry of a directory starts at the directory of its*)
(* path, and every directory but the root is the one its entry starts at.    *)
Linked(t, home, own) ==
  /\ \A e \in Ids(t, home) : At(t, e).kind = "dir" =>
       At(t, e).cluster \in DOMAIN home /\ home[At(t, e).cluster] = PathOf(t, home, e)
  /\ \A d \in (DOMAIN home) \ {Root} :
       own[d] \in Ids(t, home) /\ At(t, own[d]).kind = "dir" /\ At(t, own[d]).cluster = d

(* A chain belongs to the entry it starts at, from end to end.               *)
Ownership(f, t, home, own) ==
  /\ own \in [Index -> Index \X (0..Slots)]
  /\ own[0] = NOBODY /\ own[1] = NOBODY /\ own[Root] = THEROOT
  /\ \A c \in Index : own[c] \in Ids(t, home) \union {NOBODY, THEROOT}
  /\ \A c \in Index : own[c] # NOBODY /\ After(f, c) # NONE => own[After(f, c)] = own[c]
  /\ \A e \in Ids(t, home) : At(t, e).cluster # NONE => own[At(t, e).cluster] = e

(* What the FAT says is free belongs to nobody, or to the entry dy that is   *)
(* being removed.                                                            *)
Used(f, own, dy) == \A c \in Index : f[c] = FREE => own[c] \in {NOBODY, dy} /\ c \notin {0, 1}

IsTree(f, t, home, own, dy) ==
  Directories(t, home) /\ Linked(t, home, own) /\ Ownership(f, t, home, own) /\ Used(f, own, dy)

WellFormed(v) == \E home, own : IsTree(v.fat, v.data, home, own, NOBODY)

(* Volumes that hold a tree, on a disk whose writes do what they report,     *)
(* under callers who do as the shell's help says, use no "." or "..", look   *)
(* for names in directories only and, after a removal that power cut, do that*)
(* over again before anything else, with names that are stored as they are.  *)
OrdinaryUse ==
  /\ Disciplined /\ "write" \notin Faults
  /\ \A n \in Names : ShortName[n] = n
  /\ \A p \in Paths : p \in Seq(Names)
  /\ \A v \in Images : WellFormed(v)

(* The path of the directory a path lies in; the callers' paths include it.  *)
Upper(p) == SubSeq(p, 1, Len(p) - 1)
ParentsNamed == \A p \in Paths : Len(p) > 1 => Upper(p) \in Paths

(* The clusters that the links of the FAT f lead to from c, c among them.    *)
Closed(f, T) == \A x \in T : After(f, x) # NONE => After(f, x) \in T
From(f, c) == IF c = NONE THEN {}
              ELSE {x \in Index : \A T \in SUBSET Index : c \in T /\ Closed(f, T) => x \in T}

(* A tree that has all there is: no cluster is marked as used for nothing,   *)
(* and the callers' paths are those of all of its entries.                   *)
Complete(f, t, home) ==
  /\ \A e \in Ids(t, home) : PathOf(t, home, e) \in Paths
  /\ \A c \in Index : c > Root /\ f[c] # FREE =>
       c \in From(f, Root) \/ \E e \in Ids(t, home) : c \in From(f, At(t, e).cluster)
FullVolumes ==
  \A v \in Images : \E home, own :
    IsTree(v.fat, v.data, home, own, NOBODY) /\ Complete(v.fat, v.data, home)

(* Nothing on the volumes is longer than two clusters.                       *)
ShortVolumes == \A v \in Images, c \in Index : After(v.fat, After(v.fat, c)) = NONE
=============================================================================
