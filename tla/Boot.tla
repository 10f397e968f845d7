--------------------------------- MODULE Boot ---------------------------------
(***************************************************************************)
(* The boot loader, bootloader/src/ElfBootLoader.c and EfiElfLoader.c: from*)
(* the kernel's file to the jump into the kernel.                          *)
(*                                                                         *)
(* Memory is a row of page frames, each with the type the firmware's memory*)
(* map gives it; sizes and addresses are in pages.  The firmware allocates *)
(* anywhere it likes, may refuse, and may allocate for itself between any  *)
(* two calls of the loader.  MapKey fits the memory map as long as the map *)
(* has not changed since: that is all of it that matters.                  *)
(***************************************************************************)
EXTENDS Integers, Sequences, FiniteSets

CONSTANTS
  N,           (* frames are numbered from 0 to N - 1                          *)
  Memories,    (* memory maps at the start of the loader                       *)
  Stack,       (* the frames of the stack the firmware gave the loader         *)
  Files,       (* the files that may be found as \System\kernel.elf            *)
  ReadCap,     (* pages the loader reads of it: 1 MiB                          *)
  Preferred,   (* the frame the kernel is to be loaded at: 1 MiB               *)
  VirtualBase, (* KernelVirtualBase                                            *)
  Window,      (* pages mapped there: 64 MiB                                   *)
  TableSizes,  (* sizes of the tables SetupPagingC allocates, in its order     *)
  MaxEntries,  (* entries of the map the kernel gets: 512                      *)
  MaxEvents    (* bound on the firmware's own allocations                      *)

Frames == 0..(N - 1)
Types  == {"conventional", "loader", "boot", "reserved"}
Segment == [vaddr : Nat, offset : Nat, filesz : Nat, memsz : Nat \ {0}]

ASSUME BootAssumption ==
  /\ N \in Nat \ {0} /\ Memories \subseteq [Frames -> Types]
  /\ Stack \subseteq Frames
  /\ \A m \in Memories : \A f \in Stack : m[f] = "boot"
  /\ Files \subseteq [pages : Nat, segments : Seq(Segment) \ {<<>>}]
  /\ \A k \in Files : \A i \in DOMAIN k.segments :
       k.segments[i].offset + k.segments[i].filesz <= k.pages
  /\ ReadCap \in Nat /\ Preferred \in Frames /\ VirtualBase \in Nat /\ Window \in Nat
  /\ TableSizes \in Seq(Nat \ {0}) /\ MaxEntries \in Nat /\ MaxEvents \in Nat

VARIABLES
  pc,          (* where UefiMain is                                            *)
  memory,      (* the firmware's memory map                                    *)
  content,     (* what the frames hold, as far as the loader wrote it          *)
  file, base,  (* the kernel's file, and KernelBase                            *)
  tables,      (* the tables' addresses, those allocated so far                *)
  pool,        (* auxiliary: the frames the firmware's pool is made of         *)
  MemoryMap,   (* the map as GetMemoryMap last stored it                       *)
  fits,        (* MapKey fits the memory map                                   *)
  refused,     (* auxiliary: GetMemoryMap refused its last call                *)
  at,          (* the frame of KernelMmap                                      *)
  KernelMmap,  (* [frame |-> TRUE for type 1, free]                            *)
  graphics,    (* GetGopInfo found a framebuffer                               *)
  events       (* allocations the firmware made for itself so far              *)

loaded == <<file, base, tables, graphics>>
map    == <<MemoryMap, fits, refused, at, KernelMmap>>
vars   == <<pc, memory, content, loaded, pool, map, events>>

(* What a frame may hold: a page of the file is <<"file", number>>.           *)
Other == <<"other">>
Zero  == <<"zero">>

NoMap  == [f \in Frames |-> "reserved"]
NoFile == [pages |-> 0, segments |-> <<>>]

Init ==
  /\ pc = "load" /\ memory \in Memories /\ content = [f \in Frames |-> Other]
  /\ file = NoFile /\ base = 0 /\ tables = <<>> /\ pool = {} /\ graphics = FALSE
  /\ MemoryMap = NoMap /\ fits = FALSE /\ refused = FALSE /\ at = 0 /\ KernelMmap = [f \in {} |-> FALSE]
  /\ events = 0

-----------------------------------------------------------------------------
Pages(first, n) == first..(first + n - 1)
Free(first, n)  == \A f \in Pages(first, n) : f \in Frames /\ memory[f] = "conventional"
Taken(frames)   == [f \in Frames |-> IF f \in frames THEN "loader" ELSE memory[f]]

(* UefiMain returns to the firmware.  Its own memory map and what it         *)
(* allocated stay behind.                                                    *)
Fail == pc' = "returned" /\ UNCHANGED <<memory, content, loaded, pool, map, events>>

(* LoadElfKernel: the virtual pages the loadable segments span.              *)
Virtual(k) == UNION {Pages(s.vaddr, s.memsz) : s \in {k.segments[i] : i \in DOMAIN k.segments}}
MinVaddr(k) == CHOOSE v \in Virtual(k) : \A u \in Virtual(k) : v <= u
MaxVaddr(k) == CHOOSE v \in Virtual(k) : \A u \in Virtual(k) : v >= u
Size(k) == MaxVaddr(k) - MinVaddr(k) + 1

(* Mutant: what follows the file's part of a segment is not cleared.         *)
ImageUncleared(k, v) ==
  LET covers == {i \in DOMAIN k.segments : v \in Pages(k.segments[i].vaddr, k.segments[i].filesz)} IN
  IF covers = {} THEN Other
  ELSE LET s == k.segments[CHOOSE i \in covers : \A j \in covers : j <= i]
       IN  IF v - s.vaddr + s.offset < k.pages THEN <<"file", v - s.vaddr + s.offset>> ELSE Other

(* What becomes of virtual page v: the last segment that covers it wins; its *)
(* part of the file, as far as it was read, and zeros behind it.             *)
Image(k, v) ==
  LET covers == {i \in DOMAIN k.segments : v \in Pages(k.segments[i].vaddr, k.segments[i].memsz)}
      s      == k.segments[CHOOSE i \in covers : \A j \in covers : j <= i]
      page   == v - s.vaddr + s.offset
  IN  IF covers = {} THEN Other
      ELSE IF v - s.vaddr >= s.filesz THEN Zero
      ELSE IF page < k.pages /\ page < ReadCap THEN <<"file", page>> ELSE Other

LoadFails == pc = "load" /\ Fail

(* LoadElfKernel where it succeeds: at the preferred address if that is free,*)
(* at any other if it is not.  The buffer of the file has come and gone.     *)
LoadKernel ==
  /\ pc = "load" /\ pc' = "tables"
  /\ \E k \in Files : \E b \in Frames :
       /\ b # Preferred => ~Free(Preferred, Size(k))
       /\ Free(b, Size(k))
       /\ file' = k /\ base' = b /\ memory' = Taken(Pages(b, Size(k)))
       /\ content' = [f \in Frames |-> IF f \in Pages(b, Size(k))
                                         THEN Image(k, MinVaddr(k) + f - b) ELSE content[f]]
  /\ UNCHANGED <<tables, graphics, pool, map, events>>

(* SetupPagingC: one AllocatePages; the result is not looked at, and where   *)
(* it fails the address stays 0.                                             *)
AllocateTable ==
  /\ pc = "tables" /\ Len(tables) < Len(TableSizes)
  /\ LET n == TableSizes[Len(tables) + 1] IN
     \/ \E b \in Frames \ {0} :
          /\ Free(b, n) /\ memory' = Taken(Pages(b, n)) /\ tables' = Append(tables, b)
     \/ tables' = Append(tables, 0) /\ UNCHANGED memory
  /\ UNCHANGED <<pc, content, file, base, graphics, pool, map, events>>

TableFrames == UNION {Pages(tables[i], TableSizes[i]) : i \in DOMAIN tables}

(* The tables are cleared and filled, and CR3 is loaded.  With a table at    *)
(* address 0 nobody knows what is mapped where: the model ends there.        *)
LoadCr3 ==
  /\ pc = "tables" /\ Len(tables) = Len(TableSizes)
  /\ pc' = IF \E i \in DOMAIN tables : tables[i] = 0 THEN "lost" ELSE "graphics"
  /\ content' = [f \in Frames |-> IF f \in TableFrames THEN <<"table">> ELSE content[f]]
  /\ UNCHANGED <<memory, loaded, pool, map, events>>

(* GetGopInfo: that it fails is only reported.                               *)
GetGopInfo ==
  /\ pc = "graphics" /\ pc' = "map"
  /\ graphics' \in BOOLEAN
  /\ UNCHANGED <<memory, content, file, base, tables, pool, map, events>>

(* AllocatePool: from a frame of the pool, or from a new one.                *)
AllocatePool(p) ==
  /\ p \in pool \/ memory[p] = "conventional"
  /\ memory' = Taken({p}) /\ pool' = pool \union {p}
  /\ content' = [content EXCEPT ![p] = <<"pool">>]

(* The size of the memory map, and a buffer for it.                          *)
GetMapSize ==
  /\ pc = "map"
  /\ \/ Fail
     \/ /\ pc' = "map_again" /\ (\E p \in Frames : AllocatePool(p))
        /\ fits' = FALSE /\ UNCHANGED <<loaded, MemoryMap, refused, at, KernelMmap, events>>

GetMap ==
  /\ pc = "map_again"
  /\ \/ Fail
     \/ /\ pc' = "kernel_map" /\ MemoryMap' = memory /\ fits' = TRUE
        /\ UNCHANGED <<memory, content, loaded, pool, refused, at, KernelMmap, events>>

AllocateKernelMmap ==
  /\ pc = "kernel_map"
  /\ \/ Fail
     \/ /\ pc' = "map_last"
        /\ \E p \in Frames : AllocatePool(p) /\ at' = p /\ fits' = (fits /\ p \in pool)
        /\ UNCHANGED <<loaded, MemoryMap, refused, KernelMmap, events>>

(* Mutant: the map that was read first is good enough, with the last key.    *)
GetMapLastKeyOnly ==
  /\ pc = "map_last" /\ pc' = "convert"
  /\ (\E p \in Frames : AllocatePool(p)) \/ UNCHANGED <<memory, pool, content>>
  /\ fits' = TRUE
  /\ UNCHANGED <<loaded, MemoryMap, refused, at, KernelMmap, events>>

(* The map again, in another buffer; neither result is looked at.  The       *)
(* firmware can only refuse a map that has outgrown the buffer, which the    *)
(* loader's own allocations do not make it: the buffer then holds anything,  *)
(* and the key is the old one or a new one, as the firmware likes.           *)
GetMapLast ==
  /\ pc = "map_last" /\ pc' = "convert"
  /\ (\E p \in Frames : AllocatePool(p)) \/ UNCHANGED <<memory, pool, content>>
  /\ \/ MemoryMap' = memory' /\ fits' = TRUE /\ UNCHANGED refused
     \/ /\ events > 0 /\ (~fits \/ memory' # memory)
        /\ MemoryMap' \in {MemoryMap, [f \in Frames |-> "conventional"]}
        /\ fits' \in BOOLEAN /\ refused' = TRUE
  /\ UNCHANGED <<loaded, at, KernelMmap, events>>

Listed == {f \in Frames : f < MaxEntries}

(* Mutant: the loader's pages are free, now that it is done.                 *)
ConvertLoaderPages ==
  /\ pc = "convert" /\ pc' = "exit"
  /\ KernelMmap' = [f \in Listed |-> MemoryMap[f] \in {"conventional", "loader"}]
  /\ UNCHANGED <<memory, content, loaded, pool, MemoryMap, fits, refused, at, events>>

(* Mutant: the table of entries is not cut at its end.                       *)
ConvertUncut ==
  /\ pc = "convert" /\ pc' = "exit"
  /\ KernelMmap' = [f \in Frames |-> MemoryMap[f] = "conventional"]
  /\ UNCHANGED <<memory, content, loaded, pool, MemoryMap, fits, refused, at, events>>

(* The map as the kernel gets it: an entry for a frame, cut where the table  *)
(* ends; only conventional memory is free.                                   *)
Convert ==
  /\ pc = "convert" /\ pc' = "exit"
  /\ KernelMmap' = [f \in Listed |-> MemoryMap[f] = "conventional"]
  /\ UNCHANGED <<memory, content, loaded, pool, MemoryMap, fits, refused, at, events>>

(* ExitBootServices, which refuses an old key, and the jump into the kernel. *)
ExitBootServices ==
  /\ pc = "exit" /\ pc' = IF fits THEN "kernel" ELSE "returned"
  /\ UNCHANGED <<memory, content, loaded, pool, map, events>>

(* A timer or a driver of the firmware allocates a page.                     *)
FirmwareAllocates ==
  /\ pc \notin {"kernel", "returned", "lost"} /\ events < MaxEvents /\ events' = events + 1
  /\ \E p \in Frames : /\ memory[p] = "conventional"
                       /\ memory' = [memory EXCEPT ![p] = "boot"]
  /\ fits' = FALSE
  /\ UNCHANGED <<pc, content, loaded, pool, MemoryMap, refused, at, KernelMmap>>

Next ==
  \/ LoadFails \/ LoadKernel \/ AllocateTable \/ LoadCr3 \/ GetGopInfo
  \/ GetMapSize \/ GetMap \/ AllocateKernelMmap \/ GetMapLast \/ Convert
  \/ ExitBootServices \/ FirmwareAllocates

Spec == Init /\ [][Next]_vars

-----------------------------------------------------------------------------
Labels == {"load", "tables", "lost", "graphics", "map", "map_again", "kernel_map", "map_last",
           "convert", "exit", "kernel", "returned"}
Contents == {Other, Zero, <<"table">>, <<"pool">>} \union ({"file"} \X Nat)

TypeOK ==
  /\ pc \in Labels
  /\ memory \in [Frames -> Types] /\ MemoryMap \in [Frames -> Types]
  /\ content \in [Frames -> Contents]
  /\ file \in Files \union {NoFile} /\ base \in Frames
  /\ tables \in Seq(Frames) /\ Len(tables) <= Len(TableSizes)
  /\ pool \subseteq Frames /\ at \in Frames
  /\ fits \in BOOLEAN /\ refused \in BOOLEAN /\ graphics \in BOOLEAN
  /\ KernelMmap \in [Listed -> BOOLEAN] \union {[f \in {} |-> FALSE]}
  /\ events \in 0..MaxEvents

KernelFrames == IF file = NoFile THEN {} ELSE Pages(base, Size(file))
FreeFrames   == {f \in DOMAIN KernelMmap : KernelMmap[f]}

(* Where GetMemoryMap gave the loader its last map, what the kernel is told  *)
(* is free memory, is: pmm_init may write over the frames it gets, which are *)
(* none of the kernel's, of the page tables', of the map it is reading, of   *)
(* the stack it runs on, and none that the firmware took for itself at the   *)
(* last moment.                                                              *)
HandoffSafe ==
  pc = "kernel" /\ ~refused =>
    /\ FreeFrames \intersect (KernelFrames \union TableFrames \union {at} \union Stack) = {}
    /\ \A f \in FreeFrames : memory[f] = "conventional"

(* The virtual pages SetupPagingC maps, one after the other, to KernelBase.  *)
Mapped == Pages(VirtualBase, Window)

(* A kernel that starts where the linker script says, and is no longer than  *)
(* the loader reads: each of its virtual pages among those the loader maps   *)
(* is mapped, at the jump, to a frame that holds it, whatever was allocated  *)
(* and written after it was loaded.  All pages of a kernel of 64 MiB are; of *)
(* one of the 256 MiB the linker script allows the rest is not mapped.       *)
KernelInPlace ==
  pc = "kernel" /\ MinVaddr(file) = VirtualBase /\ file.pages <= ReadCap =>
    \A v \in Virtual(file) \intersect Mapped :
      \E s \in {file.segments[i] : i \in DOMAIN file.segments} :
        /\ v \in Pages(s.vaddr, s.memsz)
        /\ content[base + v - VirtualBase]
             = IF v - s.vaddr < s.filesz THEN <<"file", v - s.vaddr + s.offset>> ELSE Zero
=============================================================================
