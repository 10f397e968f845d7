-------------------------------- MODULE Mount --------------------------------
(***************************************************************************)
(* From the kernel's entry to a mounted root: kmain (core/main.c),         *)
(* fs_register and fs_mount (fs/fs.c), fat32_mount with what it calls      *)
(* (fs/fat32.c), ext4_mount (fs/ext4.c), and their callers, shell_start and*)
(* the command mount (core/shell.c).                                       *)
(*                                                                         *)
(* The driver talks to one drive whatever device it is given.  A drive that*)
(* does not answer in time answers late: it takes no command until then,   *)
(* and what the driver reads next is the late answer.                      *)
(***************************************************************************)
EXTENDS Sectors

CONSTANTS
  PerSector,     (* partition entries in a sector: 4                          *)
  Addressable,   (* what is above bit 27 of a block's number is lost: 2^28    *)
  MaxMounts,     (* FS_MAX_MOUNTS: 16                                         *)
  MaxCalls,      (* bound on the calls of fs_mount                            *)
  MaxTroubles    (* bound on the commands the drive fails                     *)

(* What Machine assumes of these constants.                                 *)
MountAssumption ==
  /\ PerSector \in Nat \ {0} /\ Addressable \in Nat /\ Addressable > 1
  /\ MaxMounts \in Nat /\ MaxCalls \in Nat /\ MaxTroubles \in Nat

VARIABLES
  disk,          (* [block |-> Sector]: the kernel only reads it here         *)
  pc,            (* where the kernel is                                       *)
  registered,    (* registered_fs                                             *)
  mounts,        (* the types in mounts                                       *)
  allocated,     (* fat32_buffer is not NULL                                  *)
  buffer,        (* what is in fat32_buffer                                   *)
  i,             (* fat32_parse_gpt's loop variable                           *)
  gpt_result,    (* what fat32_parse_gpt returned last                        *)
  volume,        (* fat32_partition_start_lba, and what the boot sector in    *)
                 (* fat32_bs_data and the geometry derived from it come from  *)
  asked, result, (* the type fs_mount was asked for last, and what it returned*)
  drive,         (* <<>>, or <<s>> where s is yet to be answered              *)
  calls, troubles,
  troubled       (* auxiliary: the last call met with a failed command, or    *)
                 (* began with a late answer                                  *)

registry == <<registered, mounts, allocated>>
driver   == <<buffer, i, gpt_result, volume>>
outside  == <<drive, troubles, troubled>>
kernel   == <<pc, registry, driver, asked, result, outside, calls>>

NoVolume == [start |-> 0, bs |-> "blank", geometry |-> "blank"]

Init ==
  /\ pc = "off" /\ registered = <<>> /\ mounts = <<>> /\ allocated = FALSE
  /\ buffer = Plain("blank") /\ i = 0 /\ gpt_result = 0 /\ volume = NoVolume
  /\ asked = "none" /\ result = 0
  /\ drive = <<>> /\ calls = 0 /\ troubles = 0 /\ troubled = FALSE

-----------------------------------------------------------------------------
(* fs_register.                                                              *)
Register(list, type) ==
  IF Len(list) >= MaxMounts \/ type \in {list[k] : k \in DOMAIN list}
    THEN list ELSE Append(list, type)

(* kmain: without a framebuffer it only prints "No GOP".                     *)
KernelStart ==
  /\ pc = "off"
  /\ \/ pc' = "halted" /\ UNCHANGED registered
     \/ pc' = "shell" /\ registered' = Register(Register(<<>>, "ext4"), "fat32")
  /\ UNCHANGED <<mounts, allocated, driver, asked, result, outside, calls>>

Return(r) == pc' = "shell" /\ result' = r

Known(type) == type \in {registered[k] : k \in DOMAIN registered}

(* What fs_mount does with what it is asked for: the ext4 driver cannot read *)
(* and fails; fat32_mount allocates its buffer once.                         *)
Dispatch(type) ==
  \/ /\ type = "fat32" /\ Known(type)
     /\ \/ pc' = "identify" /\ allocated' = TRUE /\ UNCHANGED result
        \/ ~allocated /\ Return(-1) /\ UNCHANGED allocated
  \/ type = "ext4" /\ Known(type) /\ Return(-1) /\ UNCHANGED allocated
  \/ ~Known(type) /\ Return(-2) /\ UNCHANGED allocated

(* Mutant: the table of mounts has no end.                                   *)
FsMountUnchecked ==
  /\ pc = "shell" /\ calls < MaxCalls /\ calls' = calls + 1
  /\ \E type \in {"fat32", "ext4"} :
       /\ calls = 0 => type = "fat32"
       /\ asked' = type /\ Dispatch(type)
  /\ troubled' = (drive # <<>>)
  /\ UNCHANGED <<registered, mounts, driver, drive, troubles>>

(* fs_mount: first from shell_start, then from the shell's command.          *)
FsMount ==
  /\ pc = "shell" /\ calls < MaxCalls /\ calls' = calls + 1
  /\ \E type \in {"fat32", "ext4"} :
       /\ calls = 0 => type = "fat32"
       /\ asked' = type
       /\ \/ Len(mounts) < MaxMounts /\ Dispatch(type)
          \/ Len(mounts) >= MaxMounts /\ Return(-1) /\ UNCHANGED allocated
  /\ troubled' = (drive # <<>>)
  /\ UNCHANGED <<registered, mounts, driver, drive, troubles>>

-----------------------------------------------------------------------------
(* A command to the drive and the wait for its answer: the answer, a late    *)
(* one to an earlier command, or an error or no answer in time, after which  *)
(* the answer may still come.                                                *)
Late == {drive[k] : k \in DOMAIN drive}

Answered == drive' = <<>> /\ UNCHANGED <<troubles, troubled>>

Unanswered(pending) ==
  /\ troubles < MaxTroubles /\ troubles' = troubles + 1 /\ troubled' = TRUE
  /\ drive' \in {<<>>, IF drive = <<>> THEN pending ELSE drive}

(* fat32_read_sector: the answer is in the buffer, or the buffer is as it    *)
(* was; past the end of the disk the drive reports an error.  The drive is   *)
(* told 28 bits of the block's number.                                       *)
Reached(lba) == lba % Addressable

Answers(lba) == {disk[b] : b \in {Reached(lba)} \intersect DOMAIN disk} \union Late

ReadSector(lba, s) == s \in Answers(lba) /\ buffer' = s /\ Answered

ReadFails(lba) ==
  /\ IF Reached(lba) \in DOMAIN disk THEN Unanswered(<<disk[Reached(lba)]>>)
                                     ELSE UNCHANGED outside
  /\ UNCHANGED buffer

(* fat32_detect_disk.                                                        *)
DetectDisk ==
  /\ pc = "identify"
  /\ \/ Answered /\ pc' = "header" /\ UNCHANGED result
     \/ Unanswered(<<Plain("identify")>>) /\ Return(-3)
  /\ UNCHANGED <<registry, driver, asked, calls>>

(* fat32_parse_gpt returns r to fat32_mount: without a partition the volume  *)
(* is taken to begin at 0.                                                   *)
Parsed(r, lba) ==
  /\ pc' = "boot_sector" /\ gpt_result' = r /\ UNCHANGED i
  /\ volume' = [volume EXCEPT !.start = lba]

(* Mutant: the volume's place is forgotten while it is looked for.           *)
ReadHeaderResets ==
  /\ pc = "header"
  /\ \/ \E s \in Answers(1) :
          /\ ReadSector(1, s)
          /\ \/ s.kind # "header" /\ Parsed(-2, 0)
             \/ /\ s.kind = "header" /\ pc' = "entries" /\ i' = 0
                /\ volume' = NoVolume /\ UNCHANGED gpt_result
     \/ ReadFails(1) /\ Parsed(-1, 0)
  /\ UNCHANGED <<registry, asked, result, calls>>

ReadHeader ==
  /\ pc = "header"
  /\ \/ \E s \in Answers(1) :
          /\ ReadSector(1, s)
          /\ \/ s.kind # "header" /\ Parsed(-2, 0)
             \/ /\ s.kind = "header" /\ pc' = "entries" /\ i' = 0
                /\ UNCHANGED <<gpt_result, volume>>
     \/ ReadFails(1) /\ Parsed(-1, 0)
  /\ UNCHANGED <<registry, asked, result, calls>>

(* An entry.  gpt points into fat32_buffer: from the second turn on the      *)
(* number of entries, their size and their place are read out of the sector  *)
(* with the entry before.  The place of an entry in its sector is reckoned   *)
(* before that is read.                                                      *)
EntrySector == buffer.table + ((i * buffer.size) \div PerSector)
EntryIn(s)  == LET k == ((i * buffer.size) % PerSector) + 1
               IN  IF k \in DOMAIN s.starts THEN s.starts[k] ELSE 0

Skip == i' = i + 1 /\ UNCHANGED <<pc, gpt_result, volume>>

ReadEntry ==
  /\ pc = "entries"
  /\ \/ /\ i < buffer.entries
        /\ \/ \E s \in Answers(EntrySector) :
                /\ ReadSector(EntrySector, s)
                /\ \/ EntryIn(s) # 0 /\ Parsed(0, EntryIn(s))
                   \/ EntryIn(s) = 0 /\ Skip
           \/ ReadFails(EntrySector) /\ Skip
     \/ i >= buffer.entries /\ Parsed(-3, 0) /\ UNCHANGED <<buffer, outside>>
  /\ UNCHANGED <<registry, asked, result, calls>>

(* The boot sector: what has a signature is taken, with the default geometry *)
(* where there is none in it; then fs_mount enters the mount.                *)
ReadBootSector ==
  /\ pc = "boot_sector"
  /\ \/ \E s \in Answers(volume.start) :
          /\ ReadSector(volume.start, s)
          /\ \/ /\ s.kind \in {"volume", "mbr"} /\ mounts' = Append(mounts, "fat32") /\ Return(0)
                /\ volume' = [volume EXCEPT !.bs = s.kind, !.geometry = s.kind]
             \/ /\ s.kind \notin {"volume", "mbr"} /\ Return(-2) /\ UNCHANGED mounts
                /\ volume' = [volume EXCEPT !.bs = s.kind]
     \/ ReadFails(volume.start) /\ Return(-1) /\ UNCHANGED <<mounts, volume>>
  /\ UNCHANGED <<registered, allocated, i, gpt_result, asked, calls>>

Next ==
  \/ KernelStart \/ FsMount \/ DetectDisk \/ ReadHeader \/ ReadEntry \/ ReadBootSector

-----------------------------------------------------------------------------
TypeOK ==
  /\ pc \in {"off", "halted", "shell", "identify", "header", "entries", "boot_sector"}
  /\ registered \in Seq({"ext4", "fat32"}) /\ mounts \in Seq({"fat32"}) /\ Len(mounts) <= MaxMounts
  /\ allocated \in BOOLEAN /\ buffer \in Sector /\ i \in Nat /\ gpt_result \in -3..0
  /\ volume \in [start : Nat, bs : Kinds, geometry : Kinds]
  /\ asked \in {"none", "fat32", "ext4"} /\ result \in -3..0
  /\ drive \in Seq(Sector) /\ Len(drive) <= 1
  /\ calls \in 0..MaxCalls /\ troubles \in 0..MaxTroubles /\ troubled \in BOOLEAN

(* As long as the drive answers in time, mounting again, whatever and with   *)
(* whatever result, does not touch the place, the boot sector and the        *)
(* geometry with which the volume mounted already is served: every mount     *)
(* shares them, and fs_mount may be called again at any time.                *)
ServedVolumeStays ==
  [][mounts # <<>> /\ troubles' = 0 => volume' = volume]_kernel

(* fat32_parse_gpt reports that there is no FAT32 partition only of a table  *)
(* without an entry of basic data.                                           *)
NoneMeansNone ==
  gpt_result = -3 /\ ~troubled /\ pc = "boot_sector" =>
    \A k \in 0..(disk[1].entries - 1) :
      disk[disk[1].table + ((k * disk[1].size) \div PerSector)]
        .starts[((k * disk[1].size) % PerSector) + 1] = 0
=============================================================================
