------------------------------- MODULE Kmalloc -------------------------------
(***************************************************************************)
(* The kernel heap, kernel/src/mm/kmalloc.c, on pages of the page          *)
(* allocator.                                                              *)
(*                                                                         *)
(* The heap is one list of blocks in the order of allocation of their      *)
(* pages; a block is a header and the area behind it.  An address is a     *)
(* number of bytes, a block is named by the address of its header, and     *)
(* address 0 is the null pointer.  A header is forgotten when its block is *)
(* merged into another.  Headers are kept apart from what owners write:    *)
(* AreasApart says when that is right.  Every call is one step.            *)
(***************************************************************************)
EXTENDS Integers, Sequences, FiniteSets, FiniteSetsExt

CONSTANTS
  PAGE_SIZE,   (* bytes in a page                                              *)
  HEADER,      (* sizeof(Block)                                                *)
  WORD,        (* sizeof(size_t)                                               *)
  Frames,      (* the pages of the page allocator, by number                   *)
  Sizes,       (* the sizes callers ask for                                    *)
  Calls,       (* the functions callers use                                    *)
  Careful      (* callers never free an area that does not lie in the first    *)
               (* page of the heap                                             *)

NULL  == 0
Bytes == UNION {f * PAGE_SIZE .. (f + 1) * PAGE_SIZE - 1 : f \in Frames}

ASSUME KmallocAssumption ==
  /\ {PAGE_SIZE, HEADER, WORD} \subseteq Nat \ {0} /\ HEADER < PAGE_SIZE
  /\ PAGE_SIZE % WORD = 0 /\ HEADER % WORD = 0
  /\ Frames \subseteq Nat \ {0} /\ Sizes \subseteq Nat
  /\ Calls \subseteq {"kmalloc", "kfree", "krealloc"} /\ Careful \in BOOLEAN

VARIABLES
  started,     (* kmalloc_init has run                                         *)
  header,      (* the headers in memory, by the address of their blocks        *)
  heap_start, heap_end,
  held,        (* auxiliary: [area |-> size asked for] of the areas in use     *)
  free, owned, lost (* the page allocator                                      *)

heap  == <<header, heap_start, heap_end>>
pages == <<free, owned, lost>>
vars  == <<started, heap, held, pages>>

Pmm == INSTANCE PageAllocator

Init ==
  /\ started = FALSE
  /\ header = [b \in {} |-> NULL]
  /\ heap_start = NULL /\ heap_end = NULL /\ held = [a \in {} |-> 0]
  /\ free = Frames /\ owned = {} /\ lost = {}

(* The heap as one value, so that a call can hand it on.                     *)
Heap == [header |-> header, start |-> heap_start, end |-> heap_end]
Becomes(h) == header' = h.header /\ heap_start' = h.start /\ heap_end' = h.end

(* The blocks in the order of the list.                                      *)
Blocks(h) ==
  LET from[k \in 0..Cardinality(DOMAIN h.header)] == [b \in DOMAIN h.header \union {NULL} |->
        IF k = 0 \/ b = NULL THEN <<>> ELSE <<b>> \o from[k - 1][h.header[b].next]]
  IN  from[Cardinality(DOMAIN h.header)][h.start]

Area(b)    == b + HEADER
BlockOf(a) == a - HEADER

(* kmalloc's rounding to whole words.                                        *)
Rounded(size) == ((size + WORD - 1) \div WORD) * WORD

(* A new block, behind block prev and in front of block next of the list.    *)
Inserted(h, b, size, prev, next, isFree) ==
  LET block == [size |-> size, prev |-> prev, next |-> next, free |-> isFree] IN
  [header |-> [x \in DOMAIN h.header \union {b} |->
                IF x = b THEN block
                ELSE IF x = prev THEN [h.header[x] EXCEPT !.next = b]
                ELSE IF x = next THEN [h.header[x] EXCEPT !.prev = b] ELSE h.header[x]],
   start  |-> IF prev = NULL THEN b ELSE h.start,
   end    |-> IF next = NULL THEN b ELSE h.end]

(* Mutant: the rest of a block is one header larger than it is.              *)
TakenTooMuchLeft(h, b, size) ==
  LET this  == h.header[b]
      split == Inserted(h, b + HEADER + size, this.size - size, b, this.next, TRUE)
  IN  IF this.size - size > HEADER
        THEN [split EXCEPT !.header[b] = [@ EXCEPT !.size = size, !.free = FALSE]]
        ELSE [h EXCEPT !.header[b].free = FALSE]

(* Block b is taken for size bytes, and what is left of it split off.        *)
Taken(h, b, size) ==
  LET this  == h.header[b]
      split == Inserted(h, b + HEADER + size, this.size - size - HEADER, b, this.next, TRUE)
  IN  IF this.size - size > HEADER
        THEN [split EXCEPT !.header[b] = [@ EXCEPT !.size = size, !.free = FALSE]]
        ELSE [h EXCEPT !.header[b].free = FALSE]

(* A page becomes one block at the end of the list.                          *)
Grown(h, page, isFree) ==
  Inserted(h, page * PAGE_SIZE, PAGE_SIZE - HEADER, h.end, NULL, isFree)

(* Mutant: the block behind the merged one keeps its link to it.             *)
AbsorbedOneWay(h, b) ==
  LET gone == h.header[b].next
      next == h.header[gone].next
      size == h.header[b].size + HEADER + h.header[gone].size
  IN  [header |-> [x \in DOMAIN h.header \ {gone} |->
                    IF x = b THEN [h.header[x] EXCEPT !.size = size, !.next = next]
                    ELSE h.header[x]],
       start  |-> h.start,
       end    |-> IF next = NULL THEN b ELSE h.end]

(* Block b takes in the block behind it in the list.                         *)
Absorbed(h, b) ==
  LET gone == h.header[b].next
      next == h.header[gone].next
      size == h.header[b].size + HEADER + h.header[gone].size
  IN  [header |-> [x \in DOMAIN h.header \ {gone} |->
                    IF x = b THEN [h.header[x] EXCEPT !.size = size, !.next = next]
                    ELSE IF x = next THEN [h.header[x] EXCEPT !.prev = b] ELSE h.header[x]],
       start  |-> h.start,
       end    |-> IF next = NULL THEN b ELSE h.end]

(* Mutant: only the block in front is looked at.                             *)
ReleasedForwardOnly(h, b) ==
  LET freed == [h EXCEPT !.header[b].free = TRUE]
      prev  == freed.header[b].prev
  IN  IF prev # NULL /\ freed.header[prev].free THEN Absorbed(freed, prev) ELSE freed

(* kfree: the block is free, and joins the one in front of it and the one    *)
(* behind it in the list where they are free.                                *)
Released(h, b) ==
  LET freed == [h EXCEPT !.header[b].free = TRUE]
      prev  == freed.header[b].prev
      backs == prev # NULL /\ freed.header[prev].free
      front == IF backs THEN Absorbed(freed, prev) ELSE freed
      at    == IF backs THEN prev ELSE b
      next  == front.header[at].next
  IN  IF next # NULL /\ front.header[next].free THEN Absorbed(front, at) ELSE front

(* kmalloc_init.                                                             *)
KmallocInit ==
  /\ ~started /\ started' = TRUE
  /\ \/ free = {} /\ UNCHANGED <<heap, pages>>
     \/ \E page \in free : Pmm!Acquire(page) /\ Becomes(Grown(Heap, page, TRUE))
  /\ UNCHANGED held

(* The outcomes of kmalloc(size): the heap it leaves, the area it returns,   *)
(* and the pages it takes.  The first block that is large enough is taken;   *)
(* failing that a page is, whatever the size asked for.                      *)
Outcomes(h, size) ==
  LET list == Blocks(h)
      fits == {i \in 1..Len(list) : h.header[list[i]].free /\ h.header[list[i]].size >= Rounded(size)}
      b    == list[Min(fits)]
  IN  IF size = 0 THEN {[heap |-> h, area |-> NULL, pages |-> {}]}
      ELSE IF fits # {} THEN {[heap |-> Taken(h, b, Rounded(size)), area |-> Area(b), pages |-> {}]}
      ELSE IF free = {} THEN {[heap |-> h, area |-> NULL, pages |-> {}]}
      ELSE {[heap |-> Grown(h, p, FALSE), area |-> Area(p * PAGE_SIZE), pages |-> {p}] : p \in free}

TakePages(ps) == IF ps = {} THEN UNCHANGED pages ELSE \E p \in ps : Pmm!Acquire(p)

(* The areas in use, with area a of the given size added.                    *)
With(areas, a, size) == [x \in DOMAIN areas \union {a} |-> IF x = a THEN size ELSE areas[x]]
Without(areas, a)    == [x \in DOMAIN areas \ {a} |-> areas[x]]

(* kmalloc, and kcalloc, which asks kmalloc for the product.                 *)
Kmalloc(size) ==
  /\ started /\ "kmalloc" \in Calls
  /\ \E out \in Outcomes(Heap, size) :
       /\ Becomes(out.heap) /\ TakePages(out.pages)
       /\ held' = IF out.area = NULL THEN held ELSE With(held, out.area, size)
  /\ UNCHANGED started

PageOf(b) == b \div PAGE_SIZE

(* kfree of an area in use.                                                  *)
Kfree(a) ==
  /\ "kfree" \in Calls
  /\ Careful => PageOf(a) = PageOf(heap_start)
  /\ Becomes(Released(Heap, BlockOf(a)))
  /\ held' = Without(held, a)
  /\ UNCHANGED <<started, pages>>

(* krealloc of an area in use: the block is large enough, or its contents go *)
(* to another one and it is freed.  For 0 bytes it is kfree.                 *)
Krealloc(a, size) ==
  /\ "krealloc" \in Calls /\ size > 0
  /\ IF header[BlockOf(a)].size >= size
       THEN held' = With(held, a, size) /\ UNCHANGED <<heap, pages>>
       ELSE \E out \in Outcomes(Heap, size) :
              /\ TakePages(out.pages)
              /\ IF out.area = NULL THEN UNCHANGED <<heap, held>>
                 ELSE /\ Becomes(Released(out.heap, BlockOf(a)))
                      /\ held' = With(Without(held, a), out.area, size)
  /\ UNCHANGED started

Next ==
  \/ KmallocInit
  \/ \E size \in Sizes : Kmalloc(size)
  \/ \E a \in DOMAIN held : Kfree(a) \/ \E size \in Sizes : Krealloc(a, size)

Spec == Init /\ [][Next]_vars

-----------------------------------------------------------------------------
TypeOK ==
  /\ started \in BOOLEAN
  /\ DOMAIN header \subseteq Bytes
  /\ \A b \in DOMAIN header : header[b] \in [size : Nat, next : DOMAIN header \union {NULL},
                                            prev : DOMAIN header \union {NULL}, free : BOOLEAN]
  /\ {heap_start, heap_end} \subseteq Bytes \union {NULL}
  /\ DOMAIN held \subseteq Bytes /\ \A a \in DOMAIN held : held[a] \in Sizes \ {0}
  /\ free \subseteq Frames /\ owned \subseteq Frames /\ lost = {}

List == Blocks(Heap)

(* The list of blocks ends, its links agree in both directions, heap_end is  *)
(* its last block, and a block is marked as used exactly when its area is in *)
(* use (kmalloc and kfree, which keep the links by hand).                    *)
BlockListIntact ==
  /\ heap_end = IF List = <<>> THEN NULL ELSE List[Len(List)]
  /\ \A i \in 1..Len(List) :
       /\ header[List[i]].prev = IF i = 1 THEN NULL ELSE List[i - 1]
       /\ ~header[List[i]].free <=> Area(List[i]) \in DOMAIN held
  /\ \A a \in DOMAIN held : \E i \in 1..Len(List) : a = Area(List[i])

(* The bytes of a block, header and area; for a block in use, at least what  *)
(* was asked for.                                                            *)
Extent(b) ==
  LET asked == IF Area(b) \in DOMAIN held THEN {held[Area(b)]} ELSE {}
  IN  b .. (b + HEADER + Max({header[b].size} \union asked) - 1)

(* Nobody's area reaches into another area, a header or a page that is not   *)
(* the heap's: an owner that keeps to what it asked for damages nothing.     *)
AreasApart ==
  /\ \A i, j \in 1..Len(List) : i < j => Extent(List[i]) \intersect Extent(List[j]) = {}
  /\ \A i \in 1..Len(List) :
       Extent(List[i]) \subseteq UNION {f * PAGE_SIZE .. (f + 1) * PAGE_SIZE - 1 : f \in owned}

(* No byte of the heap's pages is lost, and no two neighbours in the list    *)
(* are both free: what was freed can be used for larger areas again.         *)
SpaceKept ==
  /\ MapThenSumSet(LAMBDA i : HEADER + header[List[i]].size, 1..Len(List))
       = PAGE_SIZE * Cardinality(owned)
  /\ \A i \in 2..Len(List) : ~(header[List[i - 1]].free /\ header[List[i]].free)

(* A result other than NULL is an area of the size asked for: the check that *)
(* fat32_mount makes of its kmalloc(4096), "if (!fat32_buffer)", relies on it.*)
LargeEnough == \A a \in DOMAIN held : header[BlockOf(a)].size >= held[a]
=============================================================================
