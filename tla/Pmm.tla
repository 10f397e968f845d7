--------------------------------- MODULE Pmm ---------------------------------
(***************************************************************************)
(* The physical page allocator, kernel/src/mm/pmm.c.                       *)
(*                                                                         *)
(* Free pages form a doubly linked list whose links live in the first      *)
(* bytes of the free pages themselves, so the list shares its memory with  *)
(* whoever holds a page: the same bytes are a list node while the page is  *)
(* free and the owner's data while it is not.  A frame is a page number    *)
(* (physical address / PAGE_SIZE); frame 0 is the null pointer.            *)
(*                                                                         *)
(* The kernel is single-threaded, so an operation is one step; pmm_init is *)
(* one step per memory-map entry and one per page, as its loops are.       *)
(***************************************************************************)
EXTENDS Integers, Sequences, FiniteSets

CONSTANTS
  PAGE_SIZE,     (* bytes in a page                                           *)
  LastFrame,     (* the highest page number of the machine                    *)
  MemoryMaps,    (* the memory maps the boot loader may pass                  *)
  Junk           (* what the start of a page may hold that is not a list node *)

NULL   == 0
Frames == 0..LastFrame
Header == [next: Frames, prev: Frames, flags: {0, 1}]
Entry  == [start: Nat, end: Nat, type: Nat]

(* align_up(entry->start) and entry->end rounded down, as page numbers.      *)
FirstFrame(e) == (e.start + PAGE_SIZE - 1) \div PAGE_SIZE
EndFrame(e)   == e.end \div PAGE_SIZE
(* Mutant: reserved memory is taken for usable memory.                       *)
UsableEntryAnyType(e) == FirstFrame(e) < EndFrame(e)
UsableEntry(e) == e.type = 1 /\ FirstFrame(e) < EndFrame(e)
EntryFrames(e) == {p \in Frames : e.type = 1 /\ FirstFrame(e) <= p /\ p < EndFrame(e)}

(* Firmware never describes a byte of memory twice.                          *)
ASSUME PmmAssumption ==
  /\ PAGE_SIZE \in Nat \ {0}
  /\ LastFrame \in Nat
  /\ Junk \subseteq Header /\ Junk # {}
  /\ \A m \in MemoryMaps :
       /\ m \in Seq(Entry)
       /\ \A i \in 1..Len(m) : EndFrame(m[i]) <= LastFrame + 1
       /\ \A i, j \in 1..Len(m) :
            i # j => EntryFrames(m[i]) \intersect EntryFrames(m[j]) = {}

VARIABLES
  mmap,          (* the memory map given to pmm_init                          *)
  page,          (* what the first bytes of each page hold                    *)
  free_list,     (* page_allocator.free_list                                  *)
  total_pages,   (* page_allocator.total_pages                                *)
  free_pages,    (* page_allocator.free_pages                                 *)
  entry,         (* pmm_init: index of the entry the outer loop looks at next *)
  at, stop,      (* pmm_init: frames at..stop-1 of the entry are still to add *)
  chain,         (* auxiliary: the pages the list should hold, head first     *)
  owned,         (* auxiliary: pages handed out and not returned              *)
  lost           (* auxiliary: pages the list no longer reaches               *)

allocator == <<free_list, total_pages, free_pages>>
loop      == <<entry, at, stop>>
vars      == <<mmap, page, allocator, loop, chain, owned, lost>>

Init ==
  /\ mmap \in MemoryMaps
  /\ page \in [Frames -> Junk]
  /\ free_list = NULL /\ total_pages = 0 /\ free_pages = 0
  /\ entry = 1 /\ at = 0 /\ stop = 0
  /\ chain = <<>> /\ owned = {} /\ lost = {}

ListPages == {chain[i] : i \in 1..Len(chain)}

Booting == entry <= Len(mmap) \/ at < stop

(* Mutant: the old head does not learn about the new one.                    *)
PushPageNoBackLink(p) ==
  /\ page' = [page EXCEPT ![p] = [next |-> free_list, prev |-> NULL, flags |-> 0]]
  /\ free_list' = p
  /\ IF p = NULL
       THEN chain' = <<>> /\ lost' = lost \union ListPages \union {p}
       ELSE chain' = <<p>> \o chain /\ lost' = lost

(* Put p at the head of the list.  Page 0 becomes a head that reads as the   *)
(* empty list: everything behind it is out of reach.                         *)
PushPage(p) ==
  LET linked == [page EXCEPT ![p] = [next |-> free_list, prev |-> NULL, flags |-> 0]]
  IN  /\ page' = IF free_list = NULL THEN linked
                 ELSE [linked EXCEPT ![free_list].prev = p]
      /\ free_list' = p
      /\ IF p = NULL
           THEN chain' = <<>> /\ lost' = lost \union ListPages \union {p}
           ELSE chain' = <<p>> \o chain /\ lost' = lost

(* pmm_init, outer loop: the entry is skipped, or counted and its pages      *)
(* queued for the inner loop.                                                *)
InitEntry ==
  /\ at = stop /\ entry <= Len(mmap)
  /\ LET e == mmap[entry]
         n == EndFrame(e) - FirstFrame(e)
     IN  IF UsableEntry(e)
           THEN /\ total_pages' = total_pages + n
                /\ free_pages' = free_pages + n
                /\ at' = FirstFrame(e) /\ stop' = EndFrame(e)
           ELSE UNCHANGED <<total_pages, free_pages, at, stop>>
  /\ entry' = entry + 1
  /\ UNCHANGED <<mmap, page, free_list, chain, owned, lost>>

(* Mutant: the loop runs once too often.                                     *)
InitPageOnceMore ==
  /\ at <= stop /\ at \in Frames
  /\ PushPage(at)
  /\ at' = at + 1
  /\ UNCHANGED <<mmap, total_pages, free_pages, entry, stop, owned>>

(* pmm_init, inner loop: one page.                                           *)
InitPage ==
  /\ at < stop
  /\ PushPage(at)
  /\ at' = at + 1
  /\ UNCHANGED <<mmap, total_pages, free_pages, entry, stop, owned>>

(* pmm_alloc_page with an empty list returns NULL and changes nothing.       *)
AllocNone == ~Booting /\ free_list = NULL /\ UNCHANGED vars

(* Mutant: the head stays on the list.                                       *)
AllocPageKeepsHead ==
  /\ ~Booting
  /\ free_list # NULL
  /\ page' = [page EXCEPT ![free_list] = [next |-> NULL, prev |-> NULL, flags |-> 1]]
  /\ owned' = owned \union {free_list}
  /\ free_pages' = free_pages - 1
  /\ chain' = IF chain = <<>> THEN chain ELSE Tail(chain)
  /\ UNCHANGED <<mmap, free_list, total_pages, loop, lost>>

(* pmm_alloc_page with a page on the list.                                   *)
AllocPage ==
  /\ ~Booting
  /\ free_list # NULL
  /\ LET p == free_list
         rest == page[p].next
         unhooked == IF rest = NULL THEN page ELSE [page EXCEPT ![rest].prev = NULL]
     IN  /\ page' = [unhooked EXCEPT ![p] = [next |-> NULL, prev |-> NULL, flags |-> 1]]
         /\ free_list' = rest
         /\ owned' = owned \union {p}
  /\ free_pages' = free_pages - 1
  /\ chain' = Tail(chain)
  /\ UNCHANGED <<mmap, total_pages, loop, lost>>

(* Mutant: the page that comes back is not counted.                          *)
FreePageUncounted(p) ==
  /\ ~Booting
  /\ p \in owned /\ p # NULL
  /\ PushPage(p)
  /\ owned' = owned \ {p}
  /\ UNCHANGED <<mmap, total_pages, free_pages, loop>>

(* pmm_free_page of a page the caller holds; freeing NULL changes nothing.   *)
FreePage(p) ==
  /\ ~Booting
  /\ p \in owned /\ p # NULL
  /\ PushPage(p)
  /\ free_pages' = free_pages + 1
  /\ owned' = owned \ {p}
  /\ UNCHANGED <<mmap, total_pages, loop>>

(* The holder of a page writes its own data over the header.                 *)
Scribble(p) ==
  /\ p \in owned
  /\ \E h \in Junk : page' = [page EXCEPT ![p] = h]
  /\ UNCHANGED <<mmap, allocator, loop, chain, owned, lost>>

Next ==
  \/ InitEntry
  \/ InitPage
  \/ AllocNone
  \/ AllocPage
  \/ \E p \in Frames : FreePage(p) \/ Scribble(p)

Spec == Init /\ [][Next]_vars

-----------------------------------------------------------------------------
TypeOK ==
  /\ mmap \in MemoryMaps
  /\ page \in [Frames -> Header]
  /\ free_list \in Frames
  /\ total_pages \in Nat /\ free_pages \in Nat
  /\ entry \in 1..(Len(mmap) + 1)
  /\ at \in Nat /\ stop \in 0..(LastFrame + 1) /\ at <= stop
  /\ chain \in Seq(Frames \ {NULL})
  /\ owned \in SUBSET Frames
  /\ lost \in SUBSET Frames

(* The pointers in memory are, link by link and in both directions, the list *)
(* of the pages that should be free, whatever the owners of other pages      *)
(* wrote into theirs (pmm_alloc_page and pmm_free_page, whose links live in  *)
(* memory they share with their callers).                                    *)
FreeListIntact ==
  /\ free_list = IF Len(chain) = 0 THEN NULL ELSE chain[1]
  /\ \A i \in 1..Len(chain) :
       /\ page[chain[i]].next = IF i = Len(chain) THEN NULL ELSE chain[i + 1]
       /\ page[chain[i]].prev = IF i = 1 THEN NULL ELSE chain[i - 1]
       /\ page[chain[i]].flags = 0

(* The frames pmm_init has added so far.                                     *)
Donated == (UNION {EntryFrames(mmap[i]) : i \in 1..(entry - 1)}) \ (at..(stop - 1))

(* Every page of the memory map is in exactly one place: on the list once,   *)
(* held by a caller, or lost; so pmm_alloc_page never hands out a page twice *)
(* and never one that is not usable memory.                                  *)
PagesAccounted ==
  /\ Donated = ListPages \union owned \union lost
  /\ owned \intersect ListPages = {}
  /\ lost \intersect (ListPages \union owned) = {}
  /\ \A i, j \in 1..Len(chain) : chain[i] = chain[j] => i = j

(* pmm_get_free_pages counts the pages of the list, plus those the list has  *)
(* lost and those pmm_init has counted but not added yet; pmm_get_total_pages*)
(* counts the memory map.  In particular free_pages never goes below zero.   *)
CountersExact ==
  /\ free_pages = Len(chain) + Cardinality(lost) + (stop - at)
  /\ total_pages = Cardinality(Donated) + (stop - at)

Abstract == INSTANCE PageAllocator WITH free <- ListPages

(* The list implements the promise of PageAllocator: each call of the        *)
(* allocator moves one page between free and held, and a held page is never  *)
(* handed out a second time.                                                 *)
ImplementsPageAllocator == Abstract!Spec
=============================================================================
