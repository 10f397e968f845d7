------------------------------- MODULE MCBoot -------------------------------
(* Nine frames. The firmware's stack is the last, the one below it is       *)
(* reserved; in the second memory the kernel's preferred address is not     *)
(* free. One kernel has a segment with two pages of which the file holds    *)
(* one, one has two segments, of which the second lies in the file behind   *)
(* what is left out, one is longer than the loader reads, and one is longer *)
(* in memory than the loader maps.                                          *)
EXTENDS Boot

Memory(hole) == [f \in Frames |->
  CASE f = N - 1 -> "boot" [] f = N - 2 -> "reserved" [] f = hole -> "reserved"
    [] OTHER -> "conventional"]
MCMemories == {Memory(0), Memory(2)}
MCStack    == {N - 1}

Seg(vaddr, offset, filesz, memsz) ==
  [vaddr |-> vaddr, offset |-> offset, filesz |-> filesz, memsz |-> memsz]
MCFiles == {[pages |-> 2, segments |-> <<Seg(20, 1, 1, 2)>>],
            [pages |-> 3, segments |-> <<Seg(20, 1, 1, 1), Seg(21, 2, 1, 1)>>],
            [pages |-> 4, segments |-> <<Seg(20, 3, 1, 1)>>],
            [pages |-> 2, segments |-> <<Seg(20, 1, 1, 3)>>]}
MCTableSizes == <<1, 1>>
=============================================================================
