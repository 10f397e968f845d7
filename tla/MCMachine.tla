------------------------------ MODULE MCMachine ------------------------------
(* Two disks of ten blocks and of seven: the second has no room for what the*)
(* installer leaves free, and holds a volume. The handles of partitions     *)
(* and of an empty drive come between. hda holds a volume without           *)
(* partitions, or one in the first or in the second entry of a GPT, behind  *)
(* one with a long name, or one beyond the blocks the driver can reach.     *)
EXTENDS Machine

MCDisks == {"hda", "usb"}
MCLastBlock == [d \in MCDisks |-> IF d = "hda" THEN 9 ELSE 6]

Whole(d) == [disk |-> d, present |-> TRUE, logical |-> FALSE]
Part(d)  == [disk |-> d, present |-> TRUE, logical |-> TRUE]
Empty(d) == [disk |-> d, present |-> FALSE, logical |-> FALSE]
MCMachines == {<<Whole("usb"), Part("hda"), Whole("hda")>>,
               <<Empty("usb"), Whole("hda"), Part("hda")>>,
               <<Part("hda"), Whole("hda"), Part("usb"), Whole("usb")>>}

Data(last)   == [b \in 0..last |-> Plain("data")]
Table(starts) == [kind |-> "table", table |-> 0, entries |-> 0, size |-> 0, starts |-> starts]
Named(sector) == [sector EXCEPT !.table = 12, !.entries = 3, !.size = 3]
Gpt(table, first, second, at) ==
  [Data(9) EXCEPT
    ![0] = Plain("mbr"),
    ![1] = [kind |-> "header", table |-> table, entries |-> 3, size |-> 1, starts |-> <<>>],
    ![table] = first, ![table + 1] = second, ![at] = Plain("volume")]
MCImages == {[Data(6) EXCEPT ![0] = Plain("volume")],
             [Data(9) EXCEPT ![0] = Plain("volume")],
             Gpt(3, Table(<<5, 0>>), Table(<<0, 0>>), 5),
             Gpt(2, Named(Table(<<0, 5>>)), Table(<<0, 0>>), 5),
             Gpt(3, Table(<<8, 0>>), Table(<<0, 0>>), 8)}
=============================================================================
