------------------------------- MODULE Machine -------------------------------
(***************************************************************************)
(* A machine with disks: the installer (Installer) runs or not, the power  *)
(* may be cut at any of its writes, the machine is started again and the   *)
(* kernel mounts its drive (Mount).  The disks are what they share.        *)
(***************************************************************************)
EXTENDS Sectors

CONSTANTS
  Disks, Machines, MaxDisks, LastBlock, ESPBlocks, RootBlocks, Reserved, Wrap, MaxFaults,
  MaxCopied, PerSector, Addressable, MaxMounts, MaxCalls, MaxTroubles,
  Hda,      (* the disk the kernel's driver drives                            *)
  Images    (* what the disks may hold before: a set of [block |-> Sector]    *)

VARIABLES
  screen, handles, located, disks, selected, partitions, typed, confirmed, laid, faults,
  pc, registered, mounts, allocated, buffer, i, gpt_result, volume, asked, result, drive,
  calls, troubles, troubled,
  blocks,    (* the disks                                                     *)
  original   (* auxiliary: what they held before                              *)

I == INSTANCE Installer
M == INSTANCE Mount WITH disk <- blocks[Hda]

installer == <<screen, handles, located, disks, selected, typed, confirmed, partitions, laid,
               faults>>
kernel == <<pc, registered, mounts, allocated, buffer, i, gpt_result, volume, asked, result,
            drive, troubles, troubled, calls>>
vars   == <<installer, kernel, blocks, original>>

ASSUME MachineAssumption ==
  /\ I!InstallerAssumption /\ M!MountAssumption /\ Hda \in Disks
  /\ \A image \in Images : \E d \in Disks : image \in [0..LastBlock[d] -> Sector]

Init ==
  /\ blocks \in [Disks -> Images] /\ (\A d \in Disks : DOMAIN blocks[d] = 0..LastBlock[d])
  /\ original = blocks
  /\ I!Init /\ M!Init

(* The installer, as long as the kernel is not started.                      *)
Install == pc = "off" /\ I!Next /\ UNCHANGED <<kernel, original>>

(* The machine is started, or started again, whatever the installer was at.  *)
Kernel == M!Next /\ UNCHANGED <<installer, blocks, original>>

Next == Install \/ Kernel

Spec == Init /\ [][Next]_vars

-----------------------------------------------------------------------------
TypeOK ==
  /\ I!TypeOK /\ M!TypeOK
  /\ \A d \in Disks : original[d] \in [0..LastBlock[d] -> Sector]

LayoutOnDisk          == I!LayoutOnDisk
OnlyChosenPartitioned == I!OnlyChosenPartitioned
ServedVolumeStays     == M!ServedVolumeStays
NoneMeansNone         == M!NoneMeansNone

(* Where fat32_mount looks on this disk: at block 0 without a table, and with*)
(* one where its first entry says, if that is of basic data and all of it is *)
(* within the drive's reach.                                                 *)
FirstEntry(d) ==
  IF d[1].entries > 0 /\ d[1].table \in DOMAIN d /\ 1 \in DOMAIN d[d[1].table].starts
    THEN d[d[1].table].starts[1] ELSE 0

Places(d) ==
  IF ~(1 \in DOMAIN d /\ d[1].kind = "header") THEN {0}
  ELSE IF d[1].table < Addressable /\ FirstEntry(d) \in 1..(Addressable - 1) THEN {FirstEntry(d)}
  ELSE {}

(* As it was before, or part of a file that the installer has copied.        *)
Kept(d, b) ==
  \/ blocks[d][b] = original[d][b]
  \/ blocks[d][b].kind = "file" /\ \E v \in located : v[1] = d /\ b \in I!Behind(v)

(* A volume that is mounted with the geometry in its boot sector has lost no *)
(* block to an installation, complete, failed or cut short: the installer    *)
(* partitions the disk so that an old volume does not mount.  What it copies *)
(* to the volume through the firmware may be in it, whole or cut short.      *)
MountedIsWhole ==
  pc = "shell" /\ asked = "fat32" /\ ~troubled /\ result = 0 /\ volume.geometry = "volume" =>
    \A b \in M!Reached(volume.start)..LastBlock[Hda] : Kept(Hda, b)

(* The volume on a disk that no installation has touched is mounted, if it  *)
(* is where the driver looks for it.                                         *)
VolumeIsMounted ==
  pc = "shell" /\ asked = "fat32" /\ ~troubled /\ allocated /\ Len(mounts) < MaxMounts
  /\ blocks[Hda] = original[Hda] =>
    \A b \in Places(original[Hda]) \intersect DOMAIN original[Hda] :
      original[Hda][b].kind = "volume" =>
        result = 0 /\ volume.start = b /\ volume.geometry = "volume"

(* After a call of fs_mount for FAT32 in which the drive answered at once.   *)
RootIsMounted == MountedIsWhole /\ VolumeIsMounted
=============================================================================
