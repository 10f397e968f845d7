-------------------------------- MODULE MCPmm --------------------------------
(* Pmm on a machine of six pages of 4096 bytes, under three memory maps.     *)
EXTENDS Pmm

Bytes(a, b, t) == [start |-> a, end |-> b, type |-> t]

(* No page 0, a reserved hole, unaligned bounds that lose the partial pages. *)
MapWithHole == <<Bytes(4097, 12288, 1), Bytes(12288, 16384, 2), Bytes(16384, 24575, 1)>>
(* Page 0 first, as in an ascending firmware map.                            *)
MapPageZeroFirst == <<Bytes(0, 16384, 1)>>
(* Page 0 described last, and an entry smaller than a page.                  *)
MapPageZeroLast == <<Bytes(8192, 20480, 1), Bytes(20481, 24575, 1), Bytes(0, 8191, 1)>>

MCMemoryMaps == {MapWithHole, MapPageZeroFirst, MapPageZeroLast}

(* A page full of zeros, and data that looks like links into the list.       *)
MCJunk == {[next |-> 0, prev |-> 0, flags |-> 0], [next |-> 2, prev |-> 3, flags |-> 1]}
=============================================================================
