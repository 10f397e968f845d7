-------------------------------- MODULE Fat32 --------------------------------
(***************************************************************************)
(* The FAT32 driver, kernel/src/fs/fat32.c: what mkdir, create, remove and *)
(* rmdir do to the volume, one disk write per step, with the disk errors   *)
(* the driver sees or misses and with power lost between any two writes.   *)
(*                                                                         *)
(* The volume is the primary FAT, its mirror, and the clusters.  A cluster *)
(* is what the driver reads when it takes it for a directory: a row of     *)
(* slots.  A cluster keeps what it holds when it is freed, and when it is  *)
(* given to a file, because create writes nothing into it.                 *)
(*                                                                         *)
(* Rewriting a directory cluster is one write: all of its sectors but the  *)
(* one holding the changed slot are written with what they already hold.   *)
(***************************************************************************)
EXTENDS Integers, Sequences, FiniteSets, FiniteSetsExt

CONSTANTS
  LastCluster,   (* FAT entries 0..LastCluster exist; 0 and 1 are reserved     *)
  PerSector,     (* FAT entries in a sector                                    *)
  Slots,         (* directory entries in a cluster                             *)
  Names,         (* the names callers use                                      *)
  ShortName,     (* fat32_format_name: the 8.3 name a name is stored under     *)
  Paths,         (* the paths callers pass, which end in a name                *)
  Calls,         (* the operations callers use                                 *)
  FatCount,      (* BPB fat_count: 1, or 2 with a mirror                       *)
  Images,        (* volumes as mounted: [fat |-> ..., data |-> ...]            *)
  InFat,         (* the FAT entries in the sectors where cluster 0 would be    *)
  FatRows,       (* what those sectors may look like as a directory            *)
  Faults,        (* which of "read", "write" and "crash" happen                *)
  MaxFaults,     (* bound on the number of steps in which the disk errs        *)
  MaxCrashes,    (* bound on the number of power losses                        *)
  Disciplined    (* callers keep to what the shell's help says of rm and rmdir *)
                 (* and to more, of which the help does not speak: see Allowed *)

Root    == 2
Index   == 0..LastCluster
EOC     == LastCluster + 1
FREE    == 0
NONE    == 0
Entries == {"file", "dir"}

(* Directory slots: in use, deleted (0xE5) or never used (0x00).             *)
END     == [kind |-> "end", name |-> "", cluster |-> 0]
DELETED == [kind |-> "deleted", name |-> "", cluster |-> 0]
DISKNAMES == {ShortName[n] : n \in Names} \union {".", ".."}
Slot    == [kind : Entries, name : DISKNAMES, cluster : Index] \union {END, DELETED}
Cluster == [1..Slots -> Slot]

ASSUME Fat32Assumption ==
  /\ LastCluster \in Nat /\ LastCluster >= Root
  /\ PerSector \in Nat \ {0} /\ Slots \in Nat /\ Slots >= 2
  /\ Names \intersect {".", ".."} = {} /\ "" \notin DISKNAMES
  /\ \A p \in Paths : p \in Seq(Names \union {".", ".."}) /\ p # <<>> /\ p[Len(p)] \in Names
  /\ Calls \subseteq {"mkdir", "create", "remove", "rmdir"}
  /\ FatCount \in {1, 2} /\ Disciplined \in BOOLEAN
  /\ Faults \subseteq {"read", "write", "crash"}
  /\ MaxFaults \in Nat /\ MaxCrashes \in Nat
  /\ \A v \in Images : /\ v.fat \in [Index -> Index \union {EOC}]
                       /\ v.data \in [Index -> Cluster]
                       /\ \A c \in {0, 1, Root} : v.fat[c] # FREE
  /\ InFat \subseteq Index \ {0, 1, Root} /\ FatRows \subseteq Cluster

(* A volume may be damaged, but no link of its FAT and no entry other than   *)
(* "." and ".." leads to the root, and no entry to cluster 1.  The entries   *)
(* that may lead to 0 are empty files and, on volumes of other systems, the  *)
(* ".." of the directories in the root.                                      *)
ASSUME RootAssumption ==
  \A v \in Images, c \in Index :
    /\ v.fat[c] # Root
    /\ \A i \in 1..Slots : /\ v.data[c][i].cluster # 1
                           /\ v.data[c][i].cluster = Root => v.data[c][i].name \in {".", ".."}

VARIABLES
  fat, mirror,   (* the two copies of the file allocation table                *)
  data,          (* the clusters                                               *)
  pc,            (* where the running operation is; "idle" between operations  *)
  op,            (* its arguments and local variables                          *)
  ret,           (* what the last operation returned                           *)
  faults,        (* disk errors so far                                         *)
  crashes,       (* power losses so far                                        *)
  torn,          (* auxiliary: the paths whose removal was cut by one          *)
  strayed        (* auxiliary: an operation has worked in cluster 0            *)

disk == <<fat, mirror, data>>
vars == <<disk, pc, op, ret, faults, crashes, torn, strayed>>

NoOp == [call |-> "none", path |-> <<>>, parent |-> NONE, saved |-> [i \in 1..Slots |-> END],
         slot |-> 0, new |-> NONE, cluster |-> NONE, next |-> NONE]

Init ==
  /\ \E v \in Images : fat = v.fat /\ mirror = v.fat /\ data = v.data
  /\ pc = "idle" /\ op = NoOp /\ ret = 0 /\ faults = 0 /\ crashes = 0 /\ torn = {}
  /\ strayed = FALSE

-----------------------------------------------------------------------------
(* Directory scans: they stop at the first slot never used, and look at one  *)
(* cluster of the directory only.                                            *)
Reached(c, i) == \A j \in 1..i : data[c][j] # END
Live(c)       == {i \in 1..Slots : Reached(c, i) /\ data[c][i] # DELETED}
Named(c, i, n) == data[c][i].name = n /\ Reached(c, i)
(* Mutant: the scan for a free slot starts at the end.                       *)
FreeSlotsBackwards(dir) ==
  LET unused == {i \in 1..Slots : dir[i] \in {END, DELETED}}
  IN  {i \in unused : \A j \in unused : j <= i}
FreeSlots(dir) == {i \in 1..Slots : dir[i] \in {END, DELETED}}

(* The slot a name has in the directory at cluster c, or 0.                  *)
SlotOf == [c \in Index |-> [n \in Names \union {".", ".."} |->
  IF \A i \in 1..Slots : ~Named(c, i, n) THEN 0
  ELSE CHOOSE i \in 1..Slots : Named(c, i, n) /\ \A j \in 1..(i - 1) : ~Named(c, j, n)]]

Last(p)  == p[Len(p)]

(* The entry found there, or END.                                            *)
Lookup == [c \in Index |-> [n \in Names \union {".", ".."} |->
  IF c = NONE \/ SlotOf[c][n] = 0 THEN END ELSE data[c][SlotOf[c][n]]]]

(* The walk along a path.  Every component is looked up in whatever the one  *)
(* before it starts at, directory or not.  It ends where a component is not  *)
(* found, and where one is found that starts at cluster 0: then fat32_open   *)
(* returns NULL, and the operations that change the volume stray.            *)
Walk(p) ==
  LET w[k \in 0..Len(p)] ==
        IF k = 0 THEN [kind |-> "dir", name |-> "", cluster |-> Root]
        ELSE Lookup[w[k - 1].cluster][p[k]]
  IN  w
EntryOf(p)       == Walk(p)[Len(p)]
ParentCluster(p) == Walk(p)[Len(p) - 1].cluster

(* On the way to its last component the path meets an entry that starts at   *)
(* cluster 0.  The loop of the walk ends there as if the path did, and the   *)
(* operation goes on in "cluster 0": the sectors as far before the first     *)
(* cluster as cluster 4 is behind it, at the end of the last FAT copy.       *)
Strays(p) == \E k \in 1..(Len(p) - 1) : Walk(p)[k].kind \in Entries /\ Walk(p)[k].cluster = NONE

(* Mutant: the end-of-chain mark is taken for a cluster number.              *)
NextClusterNoEnd(c) == IF c \in {0, 1} \/ fat[c] \in {0, 1} THEN NONE ELSE fat[c]
(* fat32_get_next_cluster on a readable FAT.                                 *)
NextCluster(c) == IF c \in {0, 1} \/ fat[c] \in {0, 1, EOC} THEN NONE ELSE fat[c]

(* A directory as fat32_mkdir lays it out.                                   *)
NewDirectory(self, parent) ==
  [i \in 1..Slots |-> IF i = 1 THEN [kind |-> "dir", name |-> ".", cluster |-> self]
                      ELSE IF i = 2 THEN [kind |-> "dir", name |-> "..", cluster |-> parent]
                      ELSE END]

-----------------------------------------------------------------------------
(* Disk errors.  A read may fail and says so.  A write may be refused, be    *)
(* stored although it is reported failed (the time-out after the data), or   *)
(* be reported done although the drive could not store it (the driver does   *)
(* not look at the error bit after the data).                                *)
May(kind) == kind \in Faults /\ faults < MaxFaults
Perfect == [stored |-> TRUE, ok |-> TRUE]
WriteOutcomes ==
  IF May("write") THEN [stored : BOOLEAN, ok : BOOLEAN] ELSE {Perfect}
(* The same for a sector that is read, changed and written.                  *)
ReadWriteOutcomes ==
  WriteOutcomes \union IF May("read") THEN {[stored |-> FALSE, ok |-> FALSE]} ELSE {}
Count(faulty) == faults' = IF faulty THEN faults + 1 ELSE faults

(* Store v in entry c of a FAT copy, if the write w reached the disk.        *)
Put(copy, c, v, w) == IF w.stored THEN [copy EXCEPT ![c] = v] ELSE copy

Return(v) == pc' = "idle" /\ op' = NoOp /\ ret' = v
Goto(label, frame) == pc' = label /\ op' = frame /\ UNCHANGED ret

-----------------------------------------------------------------------------
(* What a disciplined caller asks for.  It does as the shell's help says,    *)
KindOf(p) == EntryOf(p).kind
AsTheHelpSays(call, p) ==
  /\ (call = "remove" => KindOf(p) # "dir")
  /\ (call = "rmdir" => KindOf(p) # "file")
(* and three things the help does not ask for: it looks for names inside     *)
(* directories only, uses no "." or "..", and does a removal that was cut    *)
(* over again before anything else.                                          *)
Allowed(call, p) ==
  Disciplined => /\ AsTheHelpSays(call, p)
                 /\ \A k \in 1..(Len(p) - 1) : KindOf(SubSeq(p, 1, k)) # "file"
                 /\ \A k \in 1..Len(p) : p[k] \in Names
                 /\ (torn # {} => call \in {"remove", "rmdir"} /\ p \in torn)

(* Mutant: the parent is not put back into the shared buffer.                *)
BeginUnsaved(call, p) == [NoOp EXCEPT !.call = call, !.path = p, !.parent = ParentCluster(p)]
Begin(call, p) == [NoOp EXCEPT !.call = call, !.path = p, !.parent = ParentCluster(p),
                               !.saved = data[ParentCluster(p)]]

(* fat32_mkdir and fat32_create up to the allocation: walk, look for the     *)
(* name, and keep a copy of the parent.                                      *)
StartCreate(call, p) ==
  /\ pc = "idle" /\ Allowed(call, p) /\ ~Strays(p)
  /\ LET parent == ParentCluster(p) IN
     IF parent = NONE \/ SlotOf[parent][Last(p)] # 0
       THEN Return(-1)
       ELSE Goto("allocate", Begin(call, p))
  /\ UNCHANGED <<disk, faults, crashes, torn, strayed>>

(* Mutant: rmdir does not count the entries of the directory.                *)
StartRemoveUncounted(call, p) ==
  /\ pc = "idle" /\ Allowed(call, p) /\ ~Strays(p)
  /\ LET parent == ParentCluster(p)
         slot   == SlotOf[parent][Last(p)]
     IN  IF parent = NONE \/ slot = 0 THEN Return(-1)
         ELSE Goto("free", [Begin(call, p) EXCEPT !.slot = slot,
                                                  !.cluster = data[parent][slot].cluster])
  /\ UNCHANGED <<disk, faults, crashes, torn, strayed>>

(* What rmdir may count in the cluster an entry starts at: in cluster 0,     *)
(* whatever the FAT looks like.                                              *)
EntryCounts(c) == IF c = NONE THEN 0..Slots ELSE {Cardinality(Live(c))}

(* fat32_remove, and fat32_rmdir, which first wants exactly two live entries *)
(* in the cluster the entry starts at; then fat32_remove_entry up to its     *)
(* loop over the chain.                                                      *)
StartRemove(call, p) ==
  /\ pc = "idle" /\ Allowed(call, p) /\ ~Strays(p)
  /\ LET parent == ParentCluster(p)
         slot   == SlotOf[parent][Last(p)]
         first  == data[parent][slot].cluster
     IN  IF parent = NONE \/ slot = 0
           THEN Return(-1)
           ELSE \E count \in EntryCounts(first) :
                  IF call = "rmdir" /\ count # 2
                    THEN Return(-1)
                    ELSE Goto("free", [Begin(call, p) EXCEPT !.slot = slot, !.cluster = first])
  /\ UNCHANGED <<disk, faults, crashes, torn, strayed>>

(* The same operations when the path strays: the entry is looked for in the  *)
(* end of the FAT, whatever that looks like as a directory.                  *)
ReachedIn(row, i) == \A j \in 1..i : row[j] # END
PlacesIn(row, n)  == {i \in 1..Slots : row[i].name = n /\ ReachedIn(row, i)}

StartCreateInFat(call, p) ==
  /\ pc = "idle" /\ Allowed(call, p) /\ Strays(p)
  /\ \E row \in FatRows :
       IF PlacesIn(row, Last(p)) # {}
         THEN Return(-1)
         ELSE Goto("allocate", [NoOp EXCEPT !.call = call, !.path = p, !.saved = row])
  /\ strayed' = TRUE
  /\ UNCHANGED <<disk, faults, crashes, torn>>

StartRemoveInFat(call, p) ==
  /\ pc = "idle" /\ Allowed(call, p) /\ Strays(p)
  /\ \E row \in FatRows :
       IF PlacesIn(row, Last(p)) = {}
         THEN Return(-1)
         ELSE LET slot  == Min(PlacesIn(row, Last(p)))
                  first == row[slot].cluster
              IN  \E count \in EntryCounts(first) :
                    IF call = "rmdir" /\ count # 2
                      THEN Return(-1)
                      ELSE Goto("free", [NoOp EXCEPT !.call = call, !.path = p, !.saved = row,
                                                     !.slot = slot, !.cluster = first])
  /\ strayed' = TRUE
  /\ UNCHANGED <<disk, faults, crashes, torn>>

(* The operation returns -1 before it writes anything: a read of the walk or *)
(* of the scan fails, or, once the parent part of the path has been walked,  *)
(* the byte the walk then reads at address 0 is not zero and what it takes   *)
(* for another component is not found.                                       *)
StartFails ==
  /\ pc = "idle" /\ Return(-1)
  /\ \/ May("read") /\ Count(TRUE)
     \/ (\E p \in Paths : Len(p) > 1) /\ UNCHANGED faults
  /\ UNCHANGED <<disk, crashes, torn, strayed>>

(* Mutant: the cluster is taken but not marked.                              *)
AllocateUnmarked ==
  /\ pc = "allocate"
  /\ LET free == {c \in Index : fat[c] = FREE} IN
     IF free = {} THEN Return(-1) ELSE Goto("mirror_used", [op EXCEPT !.new = Min(free)])
  /\ UNCHANGED <<disk, faults, crashes, torn, strayed>>

(* fat32_allocate_cluster: the first free entry of the primary FAT, leaving  *)
(* out the FAT sectors that cannot be read.                                  *)
Allocate ==
  /\ pc = "allocate"
  /\ \E unread \in IF May("read") THEN SUBSET {c \div PerSector : c \in Index} ELSE {{}},
        w \in WriteOutcomes :
       LET free == {c \in Index : fat[c] = FREE /\ c \div PerSector \notin unread} IN
       IF free = {}
         THEN Return(-1) /\ UNCHANGED fat /\ Count(unread # {})
         ELSE /\ fat' = Put(fat, Min(free), EOC, w)
              /\ IF w.ok THEN Goto("mirror_used", [op EXCEPT !.new = Min(free)]) ELSE Return(-1)
              /\ Count(unread # {} \/ w # Perfect)
  /\ UNCHANGED <<mirror, data, crashes, torn, strayed>>

(* Mutant: the mirror is never written.                                      *)
UpdateMirrorNever(c, v) == UNCHANGED <<mirror, faults>>

(* The mirror's copy of an entry: what becomes of it is not looked at.       *)
UpdateMirror(c, v) ==
  \E w \in ReadWriteOutcomes :
    /\ mirror' = IF FatCount > 1 THEN Put(mirror, c, v, w) ELSE mirror
    /\ Count(FatCount > 1 /\ w # Perfect)

MirrorUsed ==
  /\ pc = "mirror_used"
  /\ UpdateMirror(op.new, EOC)
  /\ Goto(IF op.call = "mkdir" THEN "write_new" ELSE "write_parent", op)
  /\ UNCHANGED <<fat, data, crashes, torn, strayed>>

(* fat32_mkdir only: "." and ".." go into the new cluster.                   *)
WriteNew ==
  /\ pc = "write_new"
  /\ \E w \in WriteOutcomes : /\ data' = Put(data, op.new, NewDirectory(op.new, op.parent), w)
                              /\ Count(w # Perfect)
  /\ Goto("write_parent", op)
  /\ UNCHANGED <<fat, mirror, crashes, torn, strayed>>

(* Mutant: the entry points at the parent instead of the new cluster.        *)
WriteParentWrongCluster ==
  /\ pc = "write_parent" /\ op.parent # NONE
  /\ LET room == FreeSlots(op.saved)
         entry == [kind |-> "dir", name |-> ShortName[Last(op.path)], cluster |-> op.parent]
     IN  IF room = {}
           THEN Goto("roll_back", op) /\ UNCHANGED data
           ELSE Return(0) /\ data' = [data EXCEPT ![op.parent] = [op.saved EXCEPT ![Min(room)] = entry]]
  /\ UNCHANGED <<fat, mirror, faults, crashes, torn, strayed>>

(* Mutant: a full directory does not give the cluster back.                  *)
WriteParentNoRollBack ==
  /\ pc = "write_parent" /\ op.parent # NONE
  /\ LET room == FreeSlots(op.saved)
         entry == [kind |-> IF op.call = "mkdir" THEN "dir" ELSE "file",
                   name |-> ShortName[Last(op.path)], cluster |-> op.new]
     IN  IF room = {}
           THEN Return(-1) /\ UNCHANGED data
           ELSE Return(0) /\ data' = [data EXCEPT ![op.parent] = [op.saved EXCEPT ![Min(room)] = entry]]
  /\ UNCHANGED <<fat, mirror, faults, crashes, torn, strayed>>

(* The entry goes into the first free slot of the saved parent, which is     *)
(* written back; the result of the write is not looked at.  Without a free   *)
(* slot the cluster is given back.                                           *)
WriteParent ==
  /\ pc = "write_parent" /\ op.parent # NONE
  /\ LET room == FreeSlots(op.saved)
         entry == [kind |-> IF op.call = "mkdir" THEN "dir" ELSE "file",
                   name |-> ShortName[Last(op.path)], cluster |-> op.new]
     IN  IF room = {}
           THEN Goto("roll_back", op) /\ UNCHANGED <<data, faults>>
           ELSE \E w \in WriteOutcomes :
                  /\ data' = Put(data, op.parent, [op.saved EXCEPT ![Min(room)] = entry], w)
                  /\ Return(0) /\ Count(w # Perfect)
  /\ UNCHANGED <<fat, mirror, crashes, torn, strayed>>

(* A directory written back to cluster 0: the sectors at the end of the last *)
(* FAT copy now hold directory entries, which the driver reads as links.     *)
Overwritten(copy) ==
  {[c \in Index |-> IF c \in InFat THEN g[c] ELSE copy[c]] : g \in [InFat -> Index \union {EOC}]}

WriteOverFat ==
  /\ \E w \in WriteOutcomes :
       /\ IF FatCount > 1
            THEN UNCHANGED fat /\ mirror' \in (IF w.stored THEN Overwritten(mirror) ELSE {mirror})
            ELSE UNCHANGED mirror /\ fat' \in (IF w.stored THEN Overwritten(fat) ELSE {fat})
       /\ Return(0) /\ Count(w # Perfect)
  /\ UNCHANGED data

WriteParentInFat ==
  /\ pc = "write_parent" /\ op.parent = NONE
  /\ IF FreeSlots(op.saved) = {}
       THEN Goto("roll_back", op) /\ UNCHANGED <<disk, faults>>
       ELSE WriteOverFat
  /\ strayed' = TRUE
  /\ UNCHANGED <<crashes, torn>>

(* fat32_write_fat_entry(c, 0): when its read fails, or its write is reported *)
(* failed, the mirror is left alone.                                         *)
RollBack ==
  /\ pc = "roll_back"
  /\ \E w \in ReadWriteOutcomes :
       /\ fat' = Put(fat, op.new, FREE, w)
       /\ IF w.ok THEN Goto("roll_back_mirror", op) ELSE Return(-1)
       /\ Count(w # Perfect)
  /\ UNCHANGED <<mirror, data, crashes, torn, strayed>>

RollBackMirror ==
  /\ pc = "roll_back_mirror"
  /\ UpdateMirror(op.new, FREE)
  /\ Return(-1)
  /\ UNCHANGED <<fat, data, crashes, torn, strayed>>

(* Mutant: the loop gives up, and the entry stays, when a read fails.        *)
FreeClusterGivesUp ==
  /\ pc = "free" /\ op.cluster # NONE
  /\ fat' = [fat EXCEPT ![op.cluster] = FREE]
  /\ \/ May("read") /\ Return(-1) /\ Count(TRUE)
     \/ Goto("free_mirror", [op EXCEPT !.next = NextCluster(op.cluster)]) /\ UNCHANGED faults
  /\ UNCHANGED <<mirror, data, crashes, torn, strayed>>

(* Mutant: the loop follows the chain and clears nothing.                    *)
FreeClusterUncleared ==
  /\ pc = "free" /\ op.cluster # NONE
  /\ Goto("free_mirror", [op EXCEPT !.next = NextCluster(op.cluster)])
  /\ UNCHANGED <<disk, faults, crashes, torn, strayed>>

(* fat32_remove_entry, the loop: the next cluster is read before this one is *)
(* cleared; when it cannot be read the loop ends with this cluster.          *)
FreeCluster ==
  /\ pc = "free" /\ op.cluster # NONE
  /\ \E unread \in IF May("read") THEN BOOLEAN ELSE {FALSE}, w \in ReadWriteOutcomes :
       LET next == IF unread THEN NONE ELSE NextCluster(op.cluster) IN
       /\ fat' = Put(fat, op.cluster, FREE, w)
       /\ IF w.ok THEN Goto("free_mirror", [op EXCEPT !.next = next])
                  ELSE Goto("free", [op EXCEPT !.cluster = next])
       /\ Count(unread \/ w # Perfect)
  /\ UNCHANGED <<mirror, data, crashes, torn, strayed>>

FreeMirror ==
  /\ pc = "free_mirror"
  /\ UpdateMirror(op.cluster, FREE)
  /\ Goto("free", [op EXCEPT !.cluster = op.next, !.next = NONE])
  /\ UNCHANGED <<fat, data, crashes, torn, strayed>>

(* Mutant: the clusters are freed and the entry stays.                       *)
DeleteEntryForgotten ==
  /\ pc = "free" /\ op.cluster = NONE /\ op.parent # NONE
  /\ Return(0)
  /\ UNCHANGED <<disk, faults, crashes, torn, strayed>>

(* Then the slot of the saved parent is marked deleted and written back.     *)
DeleteEntry ==
  /\ pc = "free" /\ op.cluster = NONE /\ op.parent # NONE
  /\ \E w \in WriteOutcomes :
       /\ data' = Put(data, op.parent, [op.saved EXCEPT ![op.slot] = DELETED], w)
       /\ Count(w # Perfect)
  /\ Return(0)
  /\ torn' = torn \ {op.path}
  /\ UNCHANGED <<fat, mirror, crashes, strayed>>

DeleteEntryInFat ==
  /\ pc = "free" /\ op.cluster = NONE /\ op.parent = NONE
  /\ WriteOverFat
  /\ strayed' = TRUE
  /\ torn' = torn \ {op.path}
  /\ UNCHANGED crashes

(* Power is lost and the volume is mounted again: memory is gone, the disk   *)
(* is as the writes so far left it.                                          *)
Crash ==
  /\ "crash" \in Faults /\ crashes < MaxCrashes /\ pc # "idle"
  /\ crashes' = crashes + 1
  /\ pc' = "idle" /\ op' = NoOp
  /\ torn' = IF pc \in {"free", "free_mirror"} THEN torn \union {op.path} ELSE torn
  /\ UNCHANGED <<disk, ret, faults, strayed>>

Start ==
  \/ \E p \in Paths : \E call \in Calls \intersect {"mkdir", "create"} :
       StartCreate(call, p) \/ StartCreateInFat(call, p)
  \/ \E p \in Paths : \E call \in Calls \intersect {"remove", "rmdir"} :
       StartRemove(call, p) \/ StartRemoveInFat(call, p)
  \/ StartFails

Step ==
  \/ Allocate \/ MirrorUsed \/ WriteNew \/ WriteParent \/ WriteParentInFat
  \/ RollBack \/ RollBackMirror
  \/ FreeCluster \/ FreeMirror \/ DeleteEntry \/ DeleteEntryInFat

Next == Start \/ Step \/ Crash

(* The kernel has one thread: an operation that was started runs on.         *)
Spec == Init /\ [][Next]_vars /\ WF_vars(Step)

-----------------------------------------------------------------------------
Labels == {"idle", "allocate", "mirror_used", "write_new", "write_parent",
           "roll_back", "roll_back_mirror", "free", "free_mirror"}

TypeOK ==
  /\ fat \in [Index -> Index \union {EOC}]
  /\ mirror \in [Index -> Index \union {EOC}]
  /\ data \in [Index -> Cluster]
  /\ pc \in Labels
  /\ op.call \in Calls \union {"none"} /\ op.path \in Paths \union {<<>>}
  /\ op.parent \in Index /\ op.saved \in Cluster /\ op.slot \in 0..Slots
  /\ {op.new, op.cluster, op.next} \subseteq Index
  /\ ret \in {0, -1}
  /\ faults \in 0..MaxFaults /\ crashes \in 0..MaxCrashes /\ torn \subseteq Paths
  /\ strayed \in BOOLEAN

(* What a caller sees: the paths that exist, looked up as fat32_open does,   *)
(* and going down through directories only.                                  *)
Existing(kinds) ==
  {p \in Paths : LET entry == Walk(p) IN
     entry[Len(p)].kind \in kinds /\ \A k \in 1..(Len(p) - 1) : entry[k].kind = "dir"}
Files == Existing({"file"})
Dirs  == Existing({"dir"})
All   == Existing(Entries)

(* The clusters of a file or directory: the chain from its first one.        *)
Chain(c) ==
  LET from[k \in 0..LastCluster] == [d \in Index |->
        IF d = NONE THEN {} ELSE {d} \union IF k = 0 THEN {} ELSE from[k - 1][NextCluster(d)]]
  IN  from[LastCluster][c]
ClustersOf(p) == Chain(EntryOf(p).cluster)

(* An entry remove_entry is working on, or was when power went: its clusters *)
(* go before it does.                                                        *)
Dying(p) == p \in torn \/ (pc \in {"free", "free_mirror"} /\ p = op.path)

(* Nothing that exists shares a cluster with anything else, or with the root,*)
(* and everything that exists is made of clusters the FAT marks as used, so  *)
(* that no allocation can take them (allocate_cluster, remove_entry).  A     *)
(* removal that power cut can be done over again: that frees nothing that    *)
(* has become somebody else's, for callers who make nothing in between.      *)
TreeSound ==
  LET clusters == [p \in All |-> ClustersOf(p)] IN
  \A p \in DOMAIN clusters :
    /\ Root \notin clusters[p]
    /\ ~Dying(p) => \A c \in clusters[p] : fat[c] # FREE
    /\ \A q \in DOMAIN clusters : p # q => clusters[p] \intersect clusters[q] = {}

(* Used clusters that belong to nothing: space that no operation returns.    *)
Leaked == {c \in Index : c > Root /\ fat[c] # FREE}
            \ (Chain(Root) \union UNION {ClustersOf(p) : p \in All})

(* Between operations of disciplined callers every used cluster belongs to   *)
(* something that exists, unless a disk error got in the way: the roll-back  *)
(* of mkdir and create and the chain walk of remove_entry return everything. *)
NoLeak == pc = "idle" /\ faults = 0 /\ crashes = 0 => Leaked = {}

(* The mirror is behind by no more than the entry being written, one per     *)
(* power loss and one per disk error, until an operation writes a directory  *)
(* over the end of the mirror.                                               *)
MirrorFollows ==
  FatCount > 1 /\ ~strayed => Cardinality({c \in Index : mirror[c] # fat[c]})
                    <= faults + crashes + IF pc = "idle" THEN 0 ELSE 1

(* A power loss costs at most one cluster, the one that was being added or,  *)
(* where files have no more than two, the second one of a removed file, for  *)
(* disciplined callers.                                                      *)
CrashLeaksOneCluster ==
  faults = 0 => Cardinality(Leaked) <= crashes + IF pc = "idle" THEN 0 ELSE 1

(* The root directory is never given away or shared, whatever the disk, the  *)
(* power and the callers do, as long as no caller asks for "." or ".." to be *)
(* made or removed, and none gives a path that strays into cluster 0.        *)
RootSafe == ~strayed => fat[Root] # FREE /\ \A p \in All : Root \notin ClustersOf(p)

(* A caller is told the truth: when mkdir or create returns 0 the path       *)
(* exists, when remove or rmdir does it no longer exists, and an operation   *)
(* that returns -1 changed nothing that exists.                              *)
ResultsHonest ==
  [][pc # "idle" /\ pc' = "idle" /\ crashes' = crashes =>
       /\ ret' = 0 => (op.path \in All' <=> op.call \in {"mkdir", "create"})
       /\ ret' = -1 => Files' = Files /\ Dirs' = Dirs]_vars

(* "mkdir <dir> - Create directory", the shell's help says: when mkdir       *)
(* returns 0, the directory is there.                                        *)
MkdirCreates ==
  [][pc # "idle" /\ pc' = "idle" /\ crashes' = crashes /\ op.call = "mkdir" /\ ret' = 0
       => op.path \in Dirs']_vars

(* Every operation that is started returns, or power is lost first.          *)
OperationsReturn == pc # "idle" ~> pc = "idle"

Callers == INSTANCE Namespace WITH files <- Files, dirs <- Dirs

(* Disciplined callers see each operation take effect at once, on its own    *)
(* path, or not at all, although it takes several writes.                    *)
ImplementsNamespace == Callers!Spec
=============================================================================
