--------------------------------- MODULE Vmm ---------------------------------
(***************************************************************************)
(* Page tables, kernel/src/mm/vmm.c, on pages of the page allocator.       *)
(*                                                                         *)
(* A virtual page is the sequence of its indices in the levels of          *)
(* tables; a table is a page and maps indices to pages or to nothing.  A   *)
(* page comes from the allocator with whatever its last owner left in it.  *)
(* The page at the null pointer is memory like any other: with no page     *)
(* left, map_page makes a table of it, and the behaviour ends there.       *)
(* Every call is one step.                                                 *)
(***************************************************************************)
EXTENDS Integers, FiniteSets

CONSTANTS
  Frames,      (* the pages of the page allocator                              *)
  NULL,        (* the page at the null pointer                                 *)
  NONE,        (* no page: an entry that is not present                        *)
  Levels,      (* the levels of tables, 4 in the machine                       *)
  Indices,     (* the indices of a table, the 512 of the machine               *)
  First,       (* index 0                                                      *)
  VPages,      (* the virtual pages callers use                                *)
  Targets,     (* the physical pages callers map                               *)
  Reuse        (* roots are given back, as destroy_process does                *)

ASSUME VmmAssumption ==
  /\ IsFiniteSet(Frames) /\ NULL \notin Frames /\ NONE \notin Frames \union {NULL} \union Targets
  /\ Levels \in Nat \ {0, 1} /\ First \in Indices /\ VPages \subseteq [1..Levels -> Indices] /\ Reuse \in BOOLEAN

VARIABLES
  memory,      (* the pages, read as tables                                    *)
  roots,       (* the page tables made and not given back                      *)
  mapped,      (* auxiliary: what callers mapped in each of them               *)
  starved,     (* auxiliary: map_page was called with too few pages left       *)
  orphans,     (* auxiliary: tables whose root was given back                  *)
  free, owned, lost (* the page allocator                                      *)

pages == <<free, owned, lost>>
vars  == <<memory, roots, mapped, starved, orphans, pages>>

Pmm == INSTANCE PageAllocator

Empty == [i \in Indices |-> NONE]

(* Every page first holds entries that look present.                         *)
Init ==
  /\ memory = [f \in Frames \union {NULL} |-> [i \in Indices |-> NULL]]
  /\ roots = {} /\ mapped = [r \in {} |-> NONE] /\ starved = FALSE /\ orphans = {}
  /\ free = Frames /\ owned = {} /\ lost = {}

(* The tables on the way to virtual page v, as far as they are present:      *)
(* path[k] is the table of level k, in memory mem.                           *)
PathTo(mem, r, v) ==
  LET path[k \in 1..Levels] ==
        IF k = 1 THEN r
        ELSE IF path[k - 1] = NONE THEN NONE ELSE mem[path[k - 1]][v[k - 1]]
  IN  path
Depth(mem, r, v) == Cardinality({k \in 1..Levels : PathTo(mem, r, v)[k] # NONE})

(* get_physical_address.                                                     *)
Translate(mem, r, v) ==
  IF Depth(mem, r, v) < Levels THEN NONE ELSE mem[PathTo(mem, r, v)[Levels]][v[Levels]]

(* The tables of a root.                                                     *)
TablesOf(mem, r) ==
  LET below[k \in 1..Levels] ==
        IF k = 1 THEN {r}
        ELSE {mem[t][i] : t \in below[k - 1], i \in Indices} \ {NONE}
  IN  UNION {below[k] : k \in 1..Levels}

(* Two pages, one after the other, from pmm_alloc_page.                      *)
CreatePageTable ==
  \E pml4 \in free, pdp \in free :
    /\ pml4 # pdp
    /\ memory' = [memory EXCEPT ![pml4] = [Empty EXCEPT ![First] = pdp], ![pdp] = Empty]
    /\ roots' = roots \union {pml4}
    /\ mapped' = [r \in roots \union {pml4} |-> IF r = pml4 THEN [v \in VPages |-> NONE] ELSE mapped[r]]
    /\ free' = free \ {pml4, pdp} /\ owned' = owned \union {pml4, pdp}
    /\ UNCHANGED <<starved, orphans, lost>>

(* Mutant: the page that was to be the root is not given back.               *)
CreatePageTableLeaks ==
  /\ Cardinality(free) = 1
  /\ memory' = [f \in DOMAIN memory |-> IF f \in free THEN Empty ELSE memory[f]]
  /\ free' = {} /\ lost' = lost \union free
  /\ UNCHANGED <<roots, mapped, starved, orphans, owned>>

(* create_page_table with one page left: it is cleared and given back.       *)
CreatePageTableFails ==
  /\ Cardinality(free) = 1
  /\ memory' = [f \in DOMAIN memory |-> IF f \in free THEN Empty ELSE memory[f]]
  /\ UNCHANGED <<roots, mapped, starved, orphans, pages>>

(* Mutant: a new table keeps what was in its page.                           *)
WithTableUncleared(mem, above, index, table) == [mem EXCEPT ![above][index] = table]

(* A table is cleared, and entered in the one above it.                      *)
WithTable(mem, above, index, table) ==
  [[mem EXCEPT ![table] = Empty] EXCEPT ![above][index] = table]

(* The tables of a path that are missing are made, from the top down.        *)
WithTables(mem, path, v, depth) ==
  LET made[k \in depth..Levels] ==
        IF k = depth THEN mem ELSE WithTable(made[k - 1], path[k - 1], v[k - 1], path[k])
  IN  made[Levels]

(* map_page: the tables that are missing are made, and the entry is written. *)
(* With no page left a table is made of page NULL.                           *)
MapPage(r, v, target) ==
  LET depth   == Depth(memory, r, v)
      missing == Levels - depth
      short   == Cardinality(free) < missing
  IN
  \E fresh \in {s \in [1..missing -> free \union {NULL}] :
                  /\ \A j, k \in 1..missing : j # k /\ s[j] = s[k] => s[j] = NULL
                  /\ \A k \in 1..missing : s[k] = NULL <=> k > Cardinality(free)} :
    LET path == [k \in 1..Levels |-> IF k <= depth THEN PathTo(memory, r, v)[k] ELSE fresh[k - depth]]
        new  == {fresh[k] : k \in 1..missing} \ {NULL}
    IN  /\ memory' = [WithTables(memory, path, v, depth) EXCEPT ![path[Levels]][v[Levels]] = target]
        /\ mapped' = [mapped EXCEPT ![r][v] = target]
        /\ starved' = (starved \/ short)
        /\ free' = free \ new /\ owned' = owned \union new
        /\ UNCHANGED <<roots, orphans, lost>>

(* Mutant: the last table is given back with the entry.                      *)
UnmapPageGivesBack(r, v) ==
  LET path == PathTo(memory, r, v) IN
  /\ Depth(memory, r, v) = Levels
  /\ memory' = [memory EXCEPT ![path[Levels]][v[Levels]] = NONE]
  /\ mapped' = [mapped EXCEPT ![r][v] = NONE]
  /\ Pmm!Release(path[Levels])
  /\ UNCHANGED <<roots, starved, orphans>>

(* unmap_page, where the tables on the way are present.                      *)
UnmapPage(r, v) ==
  LET path == PathTo(memory, r, v) IN
  /\ Depth(memory, r, v) = Levels
  /\ memory' = [memory EXCEPT ![path[Levels]][v[Levels]] = NONE]
  /\ mapped' = [mapped EXCEPT ![r][v] = NONE]
  /\ UNCHANGED <<roots, starved, orphans, pages>>

(* destroy_process gives back the page of the root, and no other table.      *)
GiveBack(r) ==
  /\ Reuse
  /\ Pmm!Release(r)
  /\ roots' = roots \ {r} /\ mapped' = [x \in roots \ {r} |-> mapped[x]]
  /\ orphans' = orphans \union (TablesOf(memory, r) \ {r})
  /\ UNCHANGED <<memory, starved>>

(* Nothing is said of what follows a table made of page NULL.                *)
Next ==
  /\ ~starved
  /\ \/ CreatePageTable \/ CreatePageTableFails
     \/ \E r \in roots, v \in VPages :
          \/ \E target \in Targets : MapPage(r, v, target)
          \/ UnmapPage(r, v)
     \/ \E r \in roots : GiveBack(r)

Spec == Init /\ [][Next]_vars

-----------------------------------------------------------------------------
TypeOK ==
  /\ memory \in [Frames \union {NULL} ->
                  [Indices -> Frames \union Targets \union {NULL, NONE}]]
  /\ roots \subseteq Frames /\ mapped \in [roots -> [VPages -> Targets \union {NONE}]]
  /\ starved \in BOOLEAN /\ orphans \subseteq Frames
  /\ free \subseteq Frames /\ owned \subseteq Frames /\ lost = {}

(* A virtual page translates to what was last mapped there in its own page   *)
(* table, and to nothing where nothing is mapped: mapping and unmapping one  *)
(* page disturbs no other, and no table shows what its page held before      *)
(* (map_page, unmap_page, get_physical_address).                             *)
TranslationsExact ==
  ~starved => \A r \in roots, v \in VPages : Translate(memory, r, v) = mapped[r][v]

(* A page is one table of one root: tables are never shared, so what one     *)
(* process maps is not seen by another; and the allocator's pages are these  *)
(* tables and those destroy_process left behind.                             *)
TablesApart ==
  ~starved =>
    LET tables == [r \in roots |-> TablesOf(memory, r)] IN
    /\ \A r, s \in roots : r # s => tables[r] \intersect tables[s] = {}
    /\ owned = orphans \union UNION {tables[r] : r \in roots}
    /\ orphans \intersect UNION {tables[r] : r \in roots} = {}
=============================================================================
