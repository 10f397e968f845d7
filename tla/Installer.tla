------------------------------ MODULE Installer ------------------------------
(***************************************************************************)
(* The installer, bootloader/src/Installer.c: it lists the disks, asks for *)
(* one and for a confirmation, and partitions it.  One action per screen   *)
(* and per write.                                                          *)
(*                                                                         *)
(* Sizes are in blocks.  The firmware may refuse a write, having written   *)
(* some of its blocks.  Of the questions only the disk and the confirmation*)
(* matter to what is written: the file systems and names asked for are only*)
(* displayed, and FormatPartition prints and waits.  CopySystemFiles and   *)
(* InstallEfiBootloader write files to the first volume the firmware finds,*)
(* on whatever disk, through the firmware's own file system driver: any    *)
(* block behind the boot sector of that volume may change.                 *)
(***************************************************************************)
EXTENDS Sectors, SequencesExt, FiniteSets

CONSTANTS
  Disks,
  Machines,    (* sequences of handles [disk, present, logical]               *)
  MaxDisks,    (* MAX_DISKS                                                   *)
  LastBlock,   (* [Disks -> Nat]                                              *)
  ESPBlocks, RootBlocks,  (* 512 MiB, and the root partition                  *)
  Reserved,    (* blocks left at the end: 100                                 *)
  Wrap,        (* where a UINT64 wraps: 2^64                                  *)
  MaxFaults,   (* bound on refused writes                                     *)
  MaxCopied    (* bound on the blocks of a volume that files are written to   *)

Handle == [disk : Disks, present : BOOLEAN, logical : BOOLEAN]

(* What Machine assumes of these constants.                                 *)
InstallerAssumption ==
  /\ Machines \subseteq Seq(Handle) /\ LastBlock \in [Disks -> Nat]
  /\ MaxDisks \in Nat /\ ESPBlocks \in Nat \ {0} /\ RootBlocks \in Nat \ {0}
  /\ Reserved \in Nat /\ Reserved > 2 /\ Wrap \in Nat \ {0} /\ MaxFaults \in Nat
  /\ MaxCopied \in Nat /\ \A d \in Disks : LastBlock[d] < Wrap

VARIABLES
  screen,      (* where UefiMain is                                           *)
  handles,     (* what the firmware has, in its order                         *)
  located,     (* {} or {<<disk, block>>}, the first volume the firmware finds*)
  disks,       (* mInstallerCtx.Disks                                         *)
  selected,    (* mInstallerCtx.SelectedDisk, counted from 0                  *)
  partitions,  (* mInstallerCtx.Partitions, the first PartitionCount          *)
  blocks,      (* [disk |-> [block |-> Sector]]                               *)
  typed,       (* auxiliary: the number typed last                            *)
  confirmed,   (* auxiliary: Enter was pressed under the summary              *)
  laid,        (* auxiliary: AutoPartitionDisk has returned success           *)
  faults

choice == <<handles, located, disks, selected, typed, confirmed>>
installer == <<screen, choice, partitions, laid, faults>>
vars == <<installer, blocks>>

(* The volume may also be on something that is none of the disks.            *)
Volumes == {v \in UNION {{d} \X (0..LastBlock[d]) : d \in Disks} : blocks[v[1]][v[2]].kind = "volume"}

Init ==
  /\ located = {} \/ \E v \in Volumes : located = {v}
  /\ screen = "start" /\ handles \in Machines /\ disks = <<>> /\ selected = 0
  /\ partitions = <<>> /\ typed = 0 /\ confirmed = FALSE /\ laid = FALSE /\ faults = 0

-----------------------------------------------------------------------------
(* Handles that have a medium and are not partitions, up to MAX_DISKS.       *)
Listing(hs) ==
  LET list[n \in 0..Len(hs)] ==
        IF n = 0 THEN <<>>
        ELSE IF hs[n].present /\ ~hs[n].logical /\ Len(list[n - 1]) < MaxDisks
          THEN Append(list[n - 1], hs[n].disk)
          ELSE list[n - 1]
  IN  list[Len(hs)]

DetectDisks ==
  /\ screen = "start"
  /\ disks' = Listing(handles)
  /\ screen' = IF disks' = <<>> THEN "exited" ELSE "disk"
  /\ UNCHANGED <<handles, located, selected, partitions, blocks, typed, confirmed, laid, faults>>

(* Mutant: the disk is looked up under the number of its handle.             *)
SelectByHandle ==
  /\ screen = "disk"
  /\ \E n \in 0..(Len(disks) + 1) :
       /\ typed' = n
       /\ IF n \in 1..Len(disks) /\ handles[n].disk \in Range(disks)
            THEN /\ screen' = "summary"
                 /\ selected' = CHOOSE i \in 0..(Len(disks) - 1) : disks[i + 1] = handles[n].disk
            ELSE UNCHANGED <<screen, selected>>
  /\ UNCHANGED <<handles, located, disks, partitions, blocks, confirmed, laid, faults>>

(* ShowDiskSelectionScreen, until a number of the list is typed, and the two *)
(* screens that follow it.                                                   *)
SelectDisk ==
  /\ screen = "disk"
  /\ \E n \in 0..(Len(disks) + 1) :
       /\ typed' = n
       /\ IF n \in 1..Len(disks)
            THEN screen' = "summary" /\ selected' = n - 1
            ELSE UNCHANGED <<screen, selected>>
  /\ UNCHANGED <<handles, located, disks, partitions, blocks, confirmed, laid, faults>>

(* ShowInstallationSummary: Enter or ESC.                                    *)
Summary ==
  /\ screen = "summary"
  /\ \/ screen' = "label" /\ confirmed' = TRUE
     \/ screen' = "exited" /\ UNCHANGED confirmed
  /\ UNCHANGED <<handles, located, disks, selected, partitions, blocks, typed, laid, faults>>

-----------------------------------------------------------------------------
Target == disks[selected + 1]

(* ShowInstallationProgress returns on the first error; the screen that      *)
(* follows says all the same that the installation has succeeded.            *)
Abort == screen' = "complete" /\ UNCHANGED <<partitions, laid>>

(* The blocks of the target with the first n of data in place.               *)
Written(lba, data, n) ==
  [blocks EXCEPT ![Target] = [b \in DOMAIN @ |->
    IF b \in lba..(lba + n - 1) THEN data[b - lba + 1] ELSE @[b]]]

(* WriteBlocks, and what the caller does where it succeeds; past the end of  *)
(* the disk it writes nothing.                                               *)
WriteBlocks(lba, data, Done) ==
  LET fitting == lba + Len(data) - 1 <= LastBlock[Target] IN
  /\ \/ /\ fitting /\ blocks' = Written(lba, data, Len(data))
        /\ Done /\ UNCHANGED faults
     \/ /\ fitting /\ faults < MaxFaults /\ faults' = faults + 1
        /\ \E n \in 0..(Len(data) - 1) : blocks' = Written(lba, data, n)
        /\ Abort
     \/ ~fitting /\ Abort /\ UNCHANGED <<blocks, faults>>
  /\ UNCHANGED choice

(* Mutant: the buffer is one block long.                                     *)
WriteLabelOneBlock ==
  /\ screen \in {"label", "label_again"}
  /\ WriteBlocks(0, <<Plain("label")>>,
       /\ screen' = IF screen = "label" THEN "mark" ELSE "mark_again"
       /\ UNCHANGED <<partitions, laid>>)

(* CreateGptPartitionTable, called by ShowInstallationProgress and again by  *)
(* AutoPartitionDisk: "EFI PART" goes to block 0, zeros to block 1, which a  *)
(* GPT header would be in, ...                                               *)
WriteLabel ==
  /\ screen \in {"label", "label_again"}
  /\ WriteBlocks(0, <<Plain("label"), Plain("blank")>>,
       /\ screen' = IF screen = "label" THEN "mark" ELSE "mark_again"
       /\ UNCHANGED <<partitions, laid>>)

(* ... and 55 AA to the start of the last.                                   *)
WriteMark ==
  /\ screen \in {"mark", "mark_again"}
  /\ WriteBlocks(LastBlock[Target], <<Plain("mark")>>,
       /\ screen' = IF screen = "mark" THEN "label_again" ELSE "esp"
       /\ UNCHANGED <<partitions, laid>>)

(* CreatePartition writes the entry into the first block of the partition.   *)
CreatePartition(kind, first, last, next) ==
  WriteBlocks(first, <<Plain(kind)>>,
    /\ partitions' = Append(partitions, [kind |-> kind, first |-> first, last |-> last])
    /\ screen' = next /\ laid' = (kind = "home"))

(* AutoPartitionDisk.                                                        *)
CreateESP ==
  /\ screen = "esp" /\ CreatePartition("esp", 2, 2 + ESPBlocks - 1, "root")

CreateRoot ==
  /\ screen = "root"
  /\ CreatePartition("root", 2 + ESPBlocks, 2 + ESPBlocks + RootBlocks - 1, "home")

(* Mutant: the home partition takes all that is left.                        *)
HomeBlocksAll(d) == (LastBlock[d] - ESPBlocks - RootBlocks) % Wrap

(* What is left for the home partition; unsigned, and not looked at.         *)
HomeBlocks(d) == (LastBlock[d] - Reserved - ESPBlocks - RootBlocks) % Wrap

CreateHome ==
  /\ screen = "home"
  /\ LET first == 2 + ESPBlocks + RootBlocks
         n     == HomeBlocks(Target) IN
     \/ n > 0 /\ CreatePartition("home", first, first + n - 1, "copy")
     \/ /\ n = 0 /\ screen' = "copy" /\ laid' = TRUE
        /\ UNCHANGED <<choice, partitions, blocks, faults>>

(* The volume's driver writes a block behind the boot sector.  It goes on as *)
(* it began where the installer has partitioned the disk below it.           *)
Behind(v) == (v[2] + 1)..LastBlock[v[1]]

WriteFile ==
  /\ \E v \in located : \E b \in Behind(v) :
       /\ Cardinality({c \in Behind(v) : blocks[v[1]][c].kind = "file"}) < MaxCopied
       /\ blocks' = [blocks EXCEPT ![v[1]] = [@ EXCEPT ![b] = Plain("file")]]
  /\ UNCHANGED <<screen, partitions, laid>>

(* A volume or a directory may be missing; that a file is missing, or cannot *)
(* be written, is not an error.                                              *)
CopySystemFiles ==
  /\ screen = "copy"
  /\ \/ WriteFile
     \/ Abort /\ UNCHANGED blocks
     \/ screen' = "loader" /\ UNCHANGED <<partitions, laid, blocks>>
  /\ UNCHANGED <<choice, faults>>

InstallEfiBootloader ==
  /\ screen = "loader"
  /\ WriteFile \/ (Abort /\ UNCHANGED blocks)
  /\ UNCHANGED <<choice, faults>>

(* ShowCompleteScreen.                                                       *)
Finish ==
  /\ screen = "complete" /\ screen' = "exited"
  /\ UNCHANGED <<choice, partitions, blocks, laid, faults>>

Next ==
  \/ DetectDisks \/ SelectDisk \/ Summary \/ WriteLabel \/ WriteMark
  \/ CreateESP \/ CreateRoot \/ CreateHome
  \/ CopySystemFiles \/ InstallEfiBootloader \/ Finish

-----------------------------------------------------------------------------
Screens == {"start", "disk", "summary", "label", "mark", "label_again", "mark_again", "esp",
            "root", "home", "copy", "loader", "complete", "exited"}

TypeOK ==
  /\ screen \in Screens /\ handles \in Seq(Handle) /\ located \subseteq Disks \X Nat
  /\ disks \in Seq(Disks) /\ Len(disks) <= MaxDisks
  /\ selected \in Nat /\ typed \in Nat /\ confirmed \in BOOLEAN /\ laid \in BOOLEAN
  /\ partitions \in Seq([kind : Kinds, first : Nat, last : Nat])
  /\ \A d \in Disks : blocks[d] \in [0..LastBlock[d] -> Sector]
  /\ faults \in 0..MaxFaults

(* A disk with room for the two partitions of fixed size.                    *)
LargeEnough(d) == LastBlock[d] >= Reserved + ESPBlocks + RootBlocks

(* No file is copied to this disk.                                           *)
Elsewhere(d) == \A v \in located : v[1] # d

(* Once a disk that is large enough is partitioned, its label, its mark and  *)
(* the entry of every partition the installer counts are on it, none written *)
(* over by another, and the partitions lie side by side between them; unless *)
(* the volume the firmware finds first was on this disk before, for then the *)
(* files are written over them.                                              *)
LayoutOnDisk ==
  laid /\ LargeEnough(Target) /\ Elsewhere(Target) =>
    LET on == blocks[Target] IN
    /\ on[0].kind = "label" /\ on[LastBlock[Target]].kind = "mark"
    /\ \A i \in DOMAIN partitions :
         LET p == partitions[i] IN
         /\ on[p.first].kind = p.kind
         /\ p.first = IF i = 1 THEN 2 ELSE partitions[i - 1].last + 1
         /\ p.first <= p.last /\ p.last < LastBlock[Target]

(* Nothing is written before the confirmation.  After it the disk is written *)
(* whose number in the list the user has typed; on any other disk a block    *)
(* changes only behind the boot sector of the volume the firmware finds      *)
(* first, and only to be part of a file.                                     *)
OnlyChosenPartitioned ==
  [][\A d \in Disks : blocks'[d] # blocks[d] =>
       /\ confirmed /\ typed \in DOMAIN Listing(handles)
       /\ \/ d = Listing(handles)[typed]
          \/ \E v \in located :
               /\ v[1] = d
               /\ \A b \in 0..LastBlock[d] : blocks'[d][b] # blocks[d][b] =>
                    b \in Behind(v) /\ blocks'[d][b].kind = "file"]_vars
=============================================================================
