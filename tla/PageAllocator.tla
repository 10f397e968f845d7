---------------------------- MODULE PageAllocator ----------------------------
(***************************************************************************)
(* What the physical page allocator promises its callers: a page is free,  *)
(* or held by exactly one caller, or lost; a page is handed out only while *)
(* it is free; and what is handed back becomes free again.                 *)
(*                                                                         *)
(* The promise has one hole, which callers have to know about: the page at *)
(* address 0 cannot be told from "no page".  Donating it leaves nothing    *)
(* free: that page and all the pages donated before it are lost.           *)
(***************************************************************************)
CONSTANTS
  Frames,   (* the page frames of the machine                   *)
  NULL      (* the frame whose address is the null pointer      *)

VARIABLES
  free,     (* frames the allocator can hand out                *)
  owned,    (* frames handed out and not yet returned           *)
  lost      (* frames that will never be handed out again       *)

vars == <<free, owned, lost>>

Init == free = {} /\ owned = {} /\ lost = {}

(* The boot memory map makes a fresh frame available.                      *)
Donate(p) ==
  /\ p \notin free \union owned \union lost
  /\ IF p = NULL
       THEN free' = {} /\ lost' = lost \union free \union {p}
       ELSE free' = free \union {p} /\ lost' = lost
  /\ UNCHANGED owned

Acquire(p) ==
  /\ p \in free
  /\ free' = free \ {p}
  /\ owned' = owned \union {p}
  /\ UNCHANGED lost

Release(p) ==
  /\ p \in owned
  /\ free' = free \union {p}
  /\ owned' = owned \ {p}
  /\ UNCHANGED lost

Next == \E p \in Frames : Donate(p) \/ Acquire(p) \/ Release(p)

Spec == Init /\ [][Next]_vars
=============================================================================
