# A TLA+ model of BanJiuOS

BanJiuOS is a small x86-64 operating system: a UEFI boot loader, an installer, a
kernel with a page allocator, a heap, page tables, a process table with a
scheduler, a file system switch with a FAT32 driver over ATA, and a shell. This
directory holds TLA+ modules translated from its source, TLC configurations that
check them on small instances, and proofs checked by TLAPS that hold for every
instance. `PROJECT.json` lists components, runs, mutants, hazards and theorems,
and maps every definition that stands for code to the lines it stands for.

To repeat a check: `tlc -config MCPmm.cfg MCPmm`; to repeat the proofs:
`tlapm PmmProofs.tla`.

## The system

The kernel has one thread of control and enables no interrupts, so a call of a
function is one step unless something outside the kernel can happen in the
middle of it. For the disk something can: a command may fail or be answered late,
and power may go between two writes. The boot loader shares its memory with a
firmware that allocates for itself whenever it likes. That is where the steps of
the models are cut.

| Component | State it keeps | Operations | Uses | What makes it correct |
|---|---|---|---|---|
| Page allocator, `mm/pmm.c` | list of free pages with its links inside the pages, two counters | `pmm_init`, `pmm_alloc_page`, `pmm_free_page` | memory map from the boot loader | no page in two hands; links survive what owners write; counters exact |
| Heap, `mm/kmalloc.c` | list of blocks, its first and last | `kmalloc_init`, `kmalloc`, `kfree`, `kcalloc`, `krealloc` | pages | areas apart and large enough; space comes back |
| Page tables, `mm/vmm.c` | four levels of tables | `create_page_table`, `map_page`, `unmap_page`, `get_physical_address` | pages | a mapped address translates to what it was mapped to |
| Processes, `proc/process.c` | table of processes and threads, list of ready threads, running thread | `create_process`, `create_thread`, `destroy_process`, `schedule`, `yield` | pages | no thread lost, none of a dead process run |
| FAT32, `fs/fat32.c` | place and geometry of one volume, one buffer; the volume itself | mount, open, read, create, remove, mkdir, rmdir | heap, ATA registers | a tree with clusters of its own, whatever fails in between; the right volume |
| EXT4, `fs/ext4.c` | as FAT32 | mount, which always fails | heap | fails cleanly |
| File system switch, `fs/fs.c` | registered drivers, table of mounts | register, mount, unmount, open, create, remove, mkdir, rmdir | drivers | a path reaches the mount it lies in |
| Shell, `core/shell.c` | current directory, line, log | cd, ls, mkdir, rm, rmdir, touch, mount, ... | switch, keyboard, font | the current directory is where the user went |
| Kernel start, `core/main.c` | none | `kmain` | all of these | the shell has a root |
| Boot loader, `ElfBootLoader.c`, `EfiElfLoader.c` | kernel's place, page tables, memory map | load the kernel, build tables, leave boot services | firmware | what it hands over is mapped and free |
| Installer, `Installer.c` | list of disks, choices, list of partitions | a dialogue and seven disk writes | firmware | partitions the disk that was chosen and no other, and leaves no half of an old volume |

Components talk by plain calls. State is shared in four ways that matter: the
links of the page list lie in memory that callers own; the FAT32 driver has one
buffer for the FAT, for directories and for the partition table; all mounts of a
driver share its variables; and the installer and the kernel share the disk, over
a restart. There are no callbacks and no messages.

What is hard here: links kept by hand in both directions; page 0, whose address
is the null pointer; an operation on a volume that consists of four or five
writes; errors of the disk that are seen by the driver, ignored by it, or not
seen, and answers that come after the driver has given up; a memory map that
changes while it is being copied; results of calls that nobody looks at.

## The modules

| Module | Models | |
|---|---|---|
| `PageAllocator` | what pages promise | abstract |
| `Pmm`, `PmmProofs` | `pmm.c` | implements `PageAllocator` |
| `Kmalloc`, `KmallocProofs` | `kmalloc.c` | uses `PageAllocator` |
| `RunQueue` | what the ready list amounts to | abstract |
| `Process`, `ProcessProofs` | `process.c` | implements `RunQueue`, uses `PageAllocator` |
| `Vmm`, `VmmProofs` | `vmm.c` | uses `PageAllocator` |
| `Namespace` | what callers of a file system see | abstract |
| `Fat32`, `Fat32Proofs` | the writing half of `fat32.c` | implements `Namespace` |
| `Fat32Tree` | the tree a volume holds | for the proofs about `Fat32` |
| `Shell`, `ShellProofs` | the paths of `shell.c`, the mounts and routing of `fs.c` | uses `Namespace` |
| `Boot`, `BootProofs` | the boot loader, with the firmware it calls | |
| `Sectors` | what a block of a disk holds | data shared by the next two |
| `Installer` | the installer | writes the disks |
| `Mount` | `kmain`, `fs_register`, `fs_mount`, `fat32_mount` and what it calls | reads one disk |
| `Machine`, `MachineProofs` | installer, power loss, restart and kernel on one set of disks | composes `Installer` and `Mount` |
| `MC...` | | values for TLC |

**Pmm.** A page is its number; `page[p]` is what its first bytes hold, read as a
list node whoever wrote them. `InitEntry` and `InitPage` are the two loops of
`pmm_init`, `AllocPage` and `FreePage` the two calls, and `Scribble` is the owner
of a page writing anything over its start. `chain`, `owned` and `lost` are
auxiliary: the list as it should be, the pages handed out, and the pages that
disappear when page 0 becomes the head of the list. The memory map gives every
byte at most once, as firmware does, and callers free only what they hold.

**Kmalloc.** A block is named by the address of its header. `Taken` is the
splitting of a block, `Grown` the new page at the end of the list, `Absorbed` and
`Released` the merging in `kfree`; the first fit is the minimum over the list.
What owners write is not modelled: `AreasApart` says that an owner that keeps to
the size it asked for touches nobody else's bytes, no header and no foreign page.
`Careful` is a precondition: callers do not free areas outside the first page.
Without it, `kfree` merges blocks of pages that do not touch and `AreasApart`
fails. As the kernel stands it frees one area, of the first page, in the test at
boot.

**Process.** A thread is the pair of its process's slot and its place in it;
`next` and `prev` keep the links of dead threads as the table does. A call is one
step, but for `destroy_process`: `DestroyProcess` is its start, `DestroyThread`
one round of its loop (`Unlink` is what it does to the list), and `Destroyed` what
follows the loop. Pages come from `PageAllocator` and may run out; the result is
not looked at, so a stack may be `NULL`, and threads with that stack share the page
at address 0. Callers pass pids of processes that exist. `queue`, `exited` and
`refused` are auxiliary: the list as it should be, that a thread was destroyed
while it ran, after which the list is anybody's guess, and that the allocator has
refused a page. `PagesExclusive` says that a page has one user and, until a page is
refused, that every live thread has a stack and every live process a table; after a
refusal it says nothing of those that have none.
Registers, names, and the fields nothing reads (priority, time slice, parent) are
left out.

**Vmm.** A virtual page is the sequence of its indices in the levels of tables, and
a table maps indices to pages. Pages come from `PageAllocator` with entries that
look present; `MapPage` makes the tables that are missing from the top down;
`Translate` is `get_physical_address`; `GiveBack` is what `destroy_process` does
with a root. `mapped` and `orphans` are auxiliary: what callers mapped, and the
tables whose root is gone. With no page left `map_page` makes a table of page 0;
the model takes that step and stops, which is why the run does not check for
deadlock. Flags of entries are left out, and nothing in the kernel calls these
functions yet.

**Fat32.** The volume is the FAT, its mirror, and the clusters; a cluster is a
row of slots, and keeps them when it is freed or given to a file, as on the disk.
`StartCreate` and `StartRemove` stand for everything an operation reads before
its first write; after them every write is a step: `Allocate`, `MirrorUsed`,
`WriteNew`, `WriteParent`, `RollBack`, `RollBackMirror`, `FreeCluster`,
`FreeMirror`, `DeleteEntry`. `pc` says which is next and `op` holds the locals,
among them the saved copy of the parent. A read fails or delivers; a write is
stored or not and reported done or not, in all four combinations, because the
driver does not look at the error bit after the data and its time-out says
nothing about them. `Crash` loses the operation and keeps the volume; `torn` is
auxiliary, the paths whose removal was cut by one.

What is abstracted in `Fat32`:
- Rewriting a directory cluster is one write: all sectors but one are written
  with what they hold already. The two sectors of a new directory that matter
  are one, so with write errors a cluster is one sector.
- The FAT has an entry for each cluster and no more; the slack entries that
  follow in the last sector of a real FAT are a listed hazard.
- Volumes hold no long names, and no directory of more than one cluster: the
  operations modelled read only the first one.
- Entries may start at cluster 0: empty files, and `..` of the directories in the
  root on volumes of other systems. Such an entry ends the walk of a path as if the
  path ended, so a path through it (`Strays`) makes the four operations work in
  "cluster 0": sectors before the first cluster, at the end of the last copy of the
  FAT. What those look like as a directory is any of `FatRows`; a directory written
  back there leaves any links in the entries `InFat` of that copy (`Overwritten`).
  `strayed` is auxiliary and says that this has happened.
- When the parent's part of a path has been walked, the code reads a byte through
  a null pointer. Where that byte is not zero the walk looks for one more
  component and may return -1: `StartFails` allows it at any time.
- `.` and `..` are entries on the volume, and callers do not end a path in them:
  `rm ..` is a listed hazard.
- `ShortName`, the 8.3 form of a name, is a constant, and the identity in the runs.
- `Disciplined` callers do what the shell's help says, `rm` for files and `rmdir`
  for directories (`AsTheHelpSays`), and three things it does not ask for: their
  paths do not go through files, hold no `.` or `..`, and after a loss of power they
  do a removal that was cut over again before anything else (`Allowed`). For callers
  who do not do the last, a cut removal ends in clusters with two owners.

**Shell.** A path is the sequence of its components, those of `.` and `..` among
them. `Normalize` is the loop of `normalize_path` over it: `last` is
`last_slash`. `Walk` is the driver's walk, in which `..` is an entry of every
directory but the root. `Open` routes as `fs_open` does, by the first mount whose
point begins the path; the other operations go to the first mount, whatever the
path, so for them a table that is not empty is enough. The operations change
`files` and `dirs` as `Namespace` allows, which is what `Fat32` is shown to
implement; an operation that fails changes nothing and is no step. All mounts
are of the one volume the driver knows, as it ignores the name of the device, and
the boot may fail to mount the root. A mount point is a prefix of a path
component by component; that `/m` also begins `/mx` is a listed hazard. Left out
are `ls`, commands on a path that ends in `.` or `..`, and `fs_unmount`, which
nothing calls.

**Boot.** Memory is a row of page frames, each with the type the firmware's map
gives it and, where the loader wrote it, with what it holds. `LoadKernel` is
`LoadElfKernel` with the first free address that serves, `AllocateTable` the six
allocations of `SetupPagingC` one by one, `LoadCr3` the filling of the tables;
`GetMapSize`, `GetMap`, `AllocateKernelMmap`, `GetMapLast`, `Convert` and
`ExitBootServices` follow `UefiMain` to the jump. Two things the code does not
look at are in the model: a table that could not be allocated is at address 0, and
the path ends in `lost` when CR3 is loaded with it; and the third `GetMemoryMap`
may refuse, with anything in the buffer and a key that fits or does not, since UEFI
promises nothing of either (`refused` is auxiliary). `FirmwareAllocates` may come
between any two steps. Of MapKey only matters whether it fits (`fits`). The tables
map `Window` pages from `VirtualBase`, 64 MiB in the code, whatever the size of the
kernel (`Mapped`). Memory above 4 GB, which the tables do not map, is outside the
model.

**Sectors, Installer, Mount, Machine.** A block is what installer and kernel tell
apart in it: its kind and, for any block read as a GPT header or as partition
entries, the numbers that yields. `Installer` has one action for each screen that
decides something and one for each write; the firmware may refuse a write after
some of its blocks, and the installer then goes to its last screen. `HomeBlocks`
is unsigned, so `Wrap` is where it wraps. `Mount` is cut at every command to the
drive: `DetectDisk`, `ReadHeader`, one `ReadEntry` per entry, `ReadBootSector`. A
drive that does not answer in time answers late: it then takes no new command, and
what the driver reads next is the late answer (`drive`). It is told 28 bits of a
block's number, so what lies at `Addressable` or beyond is read from elsewhere
(`Reached`). The GPT header is a pointer into the buffer that the entries are read
into, so `ReadEntry` takes the number, the size and the place of the entries from
`buffer`. The kernel's calls of
`fs_mount` are those of `shell_start`, first and for FAT32, and then any the user
types. In `Machine` the installer stands still once the kernel is started, which
may happen at any of its steps: that is the loss of power or the restart. The
kernel only reads here, so a second restart of it is a behaviour of its own with
the disks as they are.

What is abstracted there: the installer's file systems, names and formatting are
only displayed by the code and change nothing. The files it copies go through the
firmware's own driver to the first volume the firmware finds (`located`), on any
disk, the one chosen included: `WriteFile` writes one block of it, anywhere behind
its boot sector, for as many blocks as `MaxCopied`, and the installation may be cut
between them. Which blocks that driver chooses is its own; that it goes on as it
began when the disk below it has been partitioned is the worst it may do. The size
of the first `Read`, which the installer never sets, is not modelled. Entries of a
GPT are a multiple of 128 bytes, and products do not wrap. A key that is pressed is read (`ReadKeyStroke` is called without waiting
for one in places: the model has the key the user means). A boot sector with a
signature and no geometry in it is mounted with defaults, as in the code. The name
of the device is ignored by the code: `Hda` is the one drive it knows.

## The runs

| Run | Question | Result |
|---|---|---|
| `pmm` | Can owners, page 0 or odd memory maps damage the list or the counters? | no; 1196 states |
| `kmalloc` | Do areas stay apart and does space come back? | yes, for careful callers; 21526 states |
| `kmalloc_cluster` | Is the area as large as asked for? | no: one page for any size |
| `process` | Is every live thread running or ready, once, in the order of a stack, is nothing of a destroyed process scheduled, and has a page one user? | yes, the first until a process is destroyed while it runs; all stacks exist until a page is refused; 118953 states |
| `vmm` | Does every address translate to what was mapped, whatever pages held before? | yes, until pages run out; 20248 states |
| `shell` | Do `cd` and the driver mean the same by `..`, and does the current directory exist? | yes, for paths that go up once between names; 1581 states |
| `fat32_calls` | Is the tree sound and every result true, also when a sector cannot be read or power goes, and is nothing leaked otherwise? What does a loss of power cost? | yes; one cluster at most, if a removal that was cut is done over again first; 366829 states |
| `fat32_faults` | What survives everything at once? | the root directory, until an operation strays into cluster 0, and that operations end; 454077 states |
| `fat32_dotdot` | Is the directory there when `mkdir` returns 0? | no, where `..` is 0 and the path goes through it |
| `boot` | Is what the kernel is told is free nobody's, and is the kernel where its addresses are mapped? | yes, unless the last `GetMemoryMap` is refused, and for kernels the loader reads whole, as far as 64 MiB; 116735 states |
| `machine` | Is no disk but the chosen one partitioned, can a mount take what is left of an old volume for a volume, and what do repeated mounts change? | none is, but files go to the first volume the firmware finds, wherever it is; it cannot, but parts of such files may be in the volume; nothing while the drive answers in time; 2156436 states |
| `mount_table` | Is a FAT32 partition found where there is one? | no: only the first entry is sure to be looked at |

Bounds, and why they suffice:
- `pmm`: six pages, maps of up to three entries with page 0, reserved memory and
  entries that begin or end inside a page. Lists of three and more show every
  case of a doubly linked list: first, middle, last, only.
- `kmalloc`: three pages of 24 bytes with headers of 4 and words of 2. A page
  holds up to four blocks, enough for a block between two free ones, and sizes
  hit the exact fit, the rest too small to split, and the whole page.
- `process`: two processes of two threads, so that a process leaves the list at
  both ends and in the middle, and three pages, so that stacks run out.
- `vmm`: three levels of two entries, so that there is a table between the root
  and the last, and virtual pages that share all tables, all but the last, and
  none but the root; seven pages are two roots with all tables for one page each,
  and one to spare.
- `shell`: five paths in three levels, every typed path of up to three
  components, two mounts.
- `fat32_*`: `Slots = 3` fills a directory with one entry beyond `.` and `..`; in
  the root there is an entry behind a slot that is no longer in use; five to seven
  FAT entries in sectors of four let the volume fill up and put clusters in two FAT
  sectors; two names and paths of depth two give every relation between two paths; `fat32_faults` and
  `fat32_dotdot` have a path through `..` as well, and a volume on which that leads
  to cluster 0. `FatRows` are three readings of the end of the FAT: no entry, one
  that has the name looked for, and no room; `InFat` is one entry of the FAT with
  one copy, and two of the mirror. `MaxFaults` and `MaxCrashes` bound the number of faults in a behaviour: two losses of power, so
  that the second may hit the removal that is done over again. Images include
  files of two clusters and, for `fat32_faults`, a chain that is circular.
- `boot`: nine frames, of which the kernel takes one or two, two tables one each,
  and the pool the rest, so that allocations are refused by the memory as well as
  by choice. The preferred address is free in one memory and not in the other; one
  kernel has cleared memory behind its file part, one two segments, one is longer
  than what the loader reads, and one by a page longer than `Window = 2`, the pages
  the loader maps. `MaxEntries = 8` cuts the last frame off the map.
  The firmware allocates for itself once: each of the loader's reads of the map is
  followed by at most one such change that matters.
- `machine`: two disks, one with room for the layout and one so small that the
  home partition's size wraps; three lists of handles, with partitions and an
  empty drive between the disks, so that positions in the two lists differ; one
  refused write and a restart anywhere. The drive's old contents are a volume
  without partitions, one in the first and one in the second entry of a GPT, with
  two entries in a sector so that the scan crosses a sector, and a name in the
  table that reads as a number of entries; or it begins at `Addressable = 8`, where
  the driver does not reach. The volume files are copied to is one on either disk,
  or on none, and two of its blocks are written (`MaxCopied`): one of each disk's
  layout, or one before and one after a cut. Three calls of `fs_mount` with two
  troubles: the table of two mounts fills up, and a late answer meets each read.

Fairness. The one assumption is `WF_vars(Step)` in `Fat32`, for
`OperationsReturn`: an operation that was started goes on, because the kernel has
nothing else to run. No other property needs fairness, and none is assumed.
`CHECK_DEADLOCK FALSE` stands where the system stops: the kernel or the firmware
has the machine (`boot`), the calls are used up (`machine`, `mount_table`), and
`map_page` has met an allocator with nothing left (`vmm`).

Every property of a passing run has a mutant: a definition with a plausible
mistake, kept in the module beside the original under a comment that starts with
"Mutant", under which TLC finds the property violated.

## What the models found

- `fat32_parse_gpt` keeps the GPT header by a pointer into the buffer it reads the
  entries into, so from the second turn of its loop the number of entries and their
  place come from a partition's name; it then reports that there is no FAT32
  partition, and the driver takes the volume to begin at block 0 (`mount_table`).
- `kmalloc(4096)`, which `fat32_mount` calls, returns 4064 bytes (`kmalloc_cluster`).
- The FAT32 driver does not tell a component that was found with first cluster 0
  from the end of the path. On a volume of another system `mkdir EFI/../x` writes the
  entry for `x` over the end of the FAT and returns 0 (`fat32_dotdot`); what the
  driver does from then on, it does with links that are names.

Several limits of the code show in the preconditions of the runs and in what the
models do not claim. Nothing in the repository promises otherwise, or only a
sentence of its requirements does, so these are hazards rather than findings:
- The ready list is a stack, so a third thread starves, where
  `requirements.md:237` asks for a multi-level feedback queue; nothing calls
  `schedule` yet.
- When a process is destroyed while it runs, its running thread has no links, is
  taken for the head of the ready list, and the list is dropped.
- `rm` on a directory removes it with everything in it, whose clusters stay marked.
- A loss of power inside `remove` frees clusters before the entry goes: whoever
  makes something before the removal is done over again has two owners of a
  cluster. So does a write of the FAT that is lost without notice.
- The installer writes "EFI PART" into block 0 and zeros into block 1, where a GPT
  header would be: the kernel finds no table on a disk it has installed, and what
  is mounted afterwards is not the partition the installer made. After a write that
  failed the installer's last screen says the same as after success.
- On a disk too small for the fixed partitions the home partition's size wraps.
- What a mount changes is shared by all mounts: when a read of the partition table
  fails while something is mounted, the mounted volume is served from block 0.
- The installer says that it copies the boot loader to the ESP (`Installer.c:631`),
  and copies it to the first volume the firmware finds (`Installer.c:585`). That may
  be on a disk the user did not choose, or be the one that was on the chosen disk
  before and lies below the new partitions. What it copies may be cut half-way, and
  the volume mounts.
- The status of the last `GetMemoryMap` is not looked at (`ElfBootLoader.c:193`): if
  the call is refused and the key fits all the same, the kernel is given an older map.
- `SetupPagingC` maps 64 MiB (`ElfBootLoader.c:110`) of the 256 that `kernel.ld:4`
  allows the kernel; nothing compares its size with that.
- A volume that begins at block 2^28 or beyond is not found: the driver gives the
  drive 28 bits.
- With no page left threads get the page at address 0 for a stack, all the same one.
- Six results of `AllocatePages` are not looked at, and the kernel's file is read up
  to 1 MiB without notice.
- `cd ../..` goes where `cd ..` goes, while `mkdir ../../x` works two levels up. A
  second mount is never reached, since the path of the first begins every other; if
  the boot does not mount the root and the user mounts elsewhere, `cd` and `mkdir`
  of one path mean two places. `rmdir` of the current directory leaves its path in
  `current_dir`.

## What is proved

All proofs assume only the `...Assumption` of their module about its constants,
which TLC evaluates in every run; the theorems about `Kmalloc` also say what callers
have to keep to, and five of those about `Fat32` on which volumes and for which
callers they hold.

`PmmProofs` proves, for every page size, amount of memory, set of memory maps and
contents of pages:

- `PmmTypeOK`, `PmmFreeListIntact`, `PmmPagesAccounted`, `PmmCountersExact`: the
  four invariants of `pmm`;
- `PmmImplementsPageAllocator`: `Pmm` implements `PageAllocator`, so that every
  module that uses the abstract allocator uses this one.

None of `FreeListIntact`, `PagesAccounted` and `CountersExact` is inductive alone:
that taking the head leaves an intact list needs the pages of the list to be
distinct, that a page can be put on the list needs it not to be there, and that
the counters follow needs the set of donated pages to be finite and to grow by
one. The inductive invariant is their conjunction with `TypeOK`. The proof has a
lemma for each action, with one step for each conjunct the action can disturb;
the two uses of `PushPage` share a lemma; lemmas about cardinalities and intervals
come first. The assumption that memory maps give each byte once is what makes a
page that `pmm_init` adds a new one.

`ProcessProofs` proves, for any number of processes, threads and pages:

- `ProcessTypeOK`, `ProcessCountExact` (`TableInv`: types, the loop's variables,
  the counter);
- `ProcessNoDeadThreadScheduled`: the links of live threads agree with each other.
  The property is inductive together with `TableInv`, because it speaks of each
  link and its counterpart and not of the list as a whole: that is why it survives
  the destruction of a running process;
- `ProcessPagesExclusive`, by the pages that threads and processes hold being
  among the allocator's `owned`, and by each having one as long as none was refused;
- `ProcessNoThreadForgotten` and `ProcessImplementsRunQueue`, by the list: up to
  the first destruction of a running process the links from `ready_queue` on spell
  `queue`, and each operation does to `queue` what `RunQueue` does to its stack.

`BootProofs` proves, for every memory, kernel and firmware: `BootTypeOK`,
`BootHandoffSafe` and `BootKernelInPlace`. The inductive invariant says whose the
frames are (`Owners`: the kernel's, the tables' and the pool's are of type
"loader" and apart; the stack's stay the firmware's), that the map the loader has
is the firmware's as long as MapKey fits (`Key`), and that the kernel's frames
hold its image from loading on (`Loaded`). `HandoffSafe` is about maps that were not
refused. `KernelInPlace` is about the pages within the window and needs one thing
more, that a segment's page of the file is one the loader has read.

`MachineProofs` proves, for all disks, lists of handles and old contents:

- `MachineTypeOK`;
- `MachineOnlyChosenPartitioned`: the disk in `Target` is the one whose number was
  typed, from the screen of the selection on (`Chosen`); any other changes by files
  alone, behind the boot sector of the volume the firmware found first;
- `MachineLayoutOnDisk`: by what the screens passed have written (`Laid`), each
  partition's first block being behind all blocks written before it and before the
  mark in the last. The target must not hold the volume the files go to: there they
  are written over the layout;
- `MachineMountedIsWhole`: a disk that was partitioned, in part or whole, has no GPT
  header in block 1 and no volume in block 0, or only its first block was written,
  and then it has no volume there (`Wiped`); what was not partitioned is as it was,
  but for files (`Kept`); and without trouble with the drive what the kernel mounts with
  its own geometry is what is on the disk, behind a header or at block 0
  (`Reading`);
- `MachineRootIsMounted`, which adds that the volume of a disk no installation has
  touched is not missed, if the driver looks for it where it is and its 28 bits reach
  it: as long as the drive answers, what the driver reads is what
  is on the disk, so an untroubled search gets to the first entry of the table, if
  block 1 has a header, and to block 0 if not (`Looking`);
- `MachineServedVolumeStays`: where the search for a partition ends is a function
  of the disk. As the code reads the table through the buffer it overwrites, that
  is shown of the whole trail of sectors that pass through the buffer: two trails
  over one disk agree as far as both go, so two searches end in one place
  (`TrailsAgree`, `LeadsOnce`), and the invariant says that the driver is on the
  trail (`Serving`).

`VmmProofs` proves, for any number of levels, entries, pages and address spaces, and
any junk in the pages: `VmmTypeOK`, `VmmTranslationsExact` and `VmmTablesApart`.
`TranslationsExact` alone is not inductive: a table that two paths shared, or that
belonged to two roots, would turn one mapping into two. The inductive invariant adds
that every table has one level and one root: a root is at the top, an entry of a
table that is not the last leads to a table one level below it under the same root,
and no table is reached by two entries (`Tree`). What `map_page` does on the way
down is `WithTables`; each table it adds is a cleared page from the allocator, so it
translates nothing (`WholeTo`).

`Fat32Proofs` proves, for every volume, every set of names and paths, callers that
are disciplined or not, and any number of disk errors and losses of power:

- `Fat32TypeOK`;
- `Fat32RootSafe`: until an operation strays into cluster 0, the inductive invariant
  (`RootInv`) says that no link of the FAT
  and no entry other than `.` and `..` leads to the root, on the disk and in the
  copy of the parent that the running operation will write back, and that the
  operation has not got hold of the root's cluster. That a path ends in a name, and
  that volumes are mounted with links and entries that leave the root alone
  (`RootAssumption`, which allows entries that start at 0), are what it rests on:
  `rm ..` is a listed hazard, and what straying does is in `fat32_dotdot`;
- `Fat32MirrorFollows`: by counting the entries in which the copies differ without
  the one whose copy is still to be written, and one more where the FAT itself has
  missed the write (`MirrorInv`); each fault pays for one entry, and so does each
  loss of power. It, too, is about the time before an operation strays.

The other five theorems about `Fat32` have a hypothesis, `OrdinaryUse`: callers are
`Disciplined` (which is more than the help asks, see above), no write fails (a read may, and power may go), names are stored as they
are, and every volume mounted holds a tree. What that means is in `Fat32Tree`. `home`
gives the path of each directory by its cluster, and `own` the entry each cluster
belongs to; `IsTree` says that names in a directory differ, that slots never used come
last, that an entry of a directory and the cluster it starts at name the same path,
that a cluster has the owner of the one before it in its chain, and that what the FAT
calls free belongs to nobody, or to the one entry whose removal has begun or was cut
(`dy`). The driver keeps no such tables, so the inductive invariant (`TreeInv`) says
that there are some, and that the running operation works in the directory of its path
with a true copy of it, on a cluster that belongs to nobody or to `dy` (`Steady`).
Every step leaves the tables as they are (`Quiet`), but for the two writes that put an
entry into the parent (`Grown`) and take it out (`Shrunk`). TLC evaluates the hypotheses
on the volumes of its runs (`OrdinaryRuns`), with the tables that show them.

- `Fat32TreeSound`: a chain stays with its owner (`ChainOwned`), and a path is the path
  of one entry;
- `Fat32ResultsHonest` and `Fat32ImplementsNamespace`: what callers see is the paths of
  the entries (`ExistingAre`), so a quiet step changes nothing they see, and the other
  two one path. The latter theorem assumes also that callers who use a path use the
  directory it lies in (`ParentsNamed`), because `Namespace` speaks of the paths in use;
- `Fat32NoLeak` and `Fat32CrashLeaksOneCluster`, for volumes on which every used cluster
  belongs to something and every entry's path is in use (`FullVolumes`). The invariant
  adds an account of the used clusters (`KeptTree`): each is reached from the root or
  from an entry that is not being removed, or the running operation has it in hand, or
  it is one of those that power losses have cost so far, no more than one for each
  (`LittleLost`). For the latter theorem nothing on the volumes is longer than two
  clusters (`ShortVolumes`), so that what a removal has in hand beyond the chain of its
  entry is one cluster. `From` says what is reached from a cluster without recursion,
  as what is in every closed set; `FromInChain` shows that `Chain` finds all of it.

`KmallocProofs` proves, for every size of pages, headers and words, any number of
pages and every order of calls: `KmallocTypeOK`, `KmallocBlockListIntact`,
`KmallocAreasApart` and, for finitely many pages, `KmallocSpaceKept`. Two assumptions about callers are part of the theorems. One is
`Careful`: only areas of the first page of the heap are freed. The list is in the
order in which pages were taken, not of their addresses, so `kfree` may join two
blocks that are neighbours in the list and far apart in memory. The other is
`SmallSizes`: what is asked for fits into a page with its header, which `kmalloc`
does not look at (`kmalloc_cluster`). The inductive invariant (`Inv`) says where the
blocks are (`Placed`): each within one page of the heap, no two overlapping; outside
the first page each is a whole page in use, and inside it each begins where the one
before it in the list ends. That is what makes every merge a merge of neighbours in
memory; and since a whole page is never too small for `krealloc`, that releases
blocks of the first page only. The list is given as a sequence that the links spell
(`ListIs`); `BlocksAre` shows that `Blocks`, which follows the links, is this sequence. That space
is kept follows by counting bytes: blocks do not overlap and cover the pages of the heap,
so that what their sizes add up to (`SumIs`) is the number of bytes in those pages
(`BytesCounted`).

`ShellProofs` proves, for all names and paths, everything users type within
`ShellAssumption` and every table of mounts: `ShellTypeOK`, `ShellCurrentDirExists` and
`ShellCdMeansWhatCommandsMean`. The inductive invariant adds that what exists is a tree
and that `current_dir` is the root as long as nothing is mounted. That the two notions
of `..` agree is shown along the path (`Agrees`): after as many components as both have
passed, the text so far is where the driver is, and the place the next `..` cuts the
text at is the directory above, unless a `..` came after the last name.

`Fat32`, `Vmm`, `Kmalloc` and `Shell` are written with recursive functions where TLC
would do with RECURSIVE operators; `WalkIs`, `ChainIs`, `BlocksWalk` and `NormalizeIs`
show that the functions exist and obey their recursion.

Induction over natural numbers is needed in several places (the length of the list
of disks, the first and last virtual page of a kernel, the trail, the levels of the
tables, the steps of a walk, along a chain or along the list of blocks). The library's
theorems about induction take a predicate as a parameter, which the provers here
cannot instantiate; the proof modules state what they need of sets instead
(`SetInduction`), from well-foundedness: a set of numbers that has 0 and with each
number the next is `Nat`.

## What is only model-checked

`OperationsReturn`, since TLAPS has no proof rules here for liveness under fairness.
Every other property of a passing run is stated by a theorem, under the
hypotheses given above. Nothing is proved of damaged volumes and failed writes but
`Fat32TypeOK`, `Fat32RootSafe` and `Fat32MirrorFollows`, and `fat32_faults` claims no
more of them than that the root is safe and that operations end. `kmalloc_cluster`,
`fat32_dotdot` and `mount_table` show properties that do not hold.

## What is not modelled

- Reading: `fs_read` always returns -1, so the driver's `fat32_read` is not reached,
  and `read_directory`, `ls` and the list of open files change nothing the modelled operations read. That `ls` hands its
  argument on as it was typed, and that a circular chain never ends there, are
  listed hazards.
- `fs_unmount`, which nothing calls, and the EXT4 driver beyond its mount, which
  always fails because its block reader is a stub: nothing behind it is reached.
- The string library, font and framebuffer: pure functions and output, no state the
  rest depends on. `serial_log` and the log on the screen likewise.
- What is typed as such: the keyboard, the shell's line editor and the parsing of a
  command into words.
- The console program that imitates a boot menu (`banjuefi.c`): it prints and reads
  keys and does nothing to the system. The build and image scripts.
- The flags of page table entries, names and registers of processes, and memory
  above 4 GB.

Security is no subject of this project.
