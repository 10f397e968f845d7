------------------------------- MODULE Sectors -------------------------------
(***************************************************************************)
(* What a block of a disk holds, as far as the installer                   *)
(* (bootloader/src/Installer.c) and the kernel's mount (fs/fat32.c) tell it*)
(* apart.  Any block can be read as any structure: "table", "entries" and  *)
(* "size" are what the places of partition_table_lba, num_partitions and   *)
(* partition_entry_size yield, the last in entries of 128 bytes (other     *)
(* sizes are left out, and products that wrap), "starts" the partition     *)
(* entries, 0 for one that is not of basic data.                           *)
(***************************************************************************)
EXTENDS Integers, Sequences

Kinds == {"blank", "data",         \* all zero; anything else without a signature
          "mbr", "header",         \* protective MBR; GPT header
          "table",                 \* partition entries
          "volume",                \* boot sector of a FAT32 volume
          "identify",              \* the drive's answer to IDENTIFY
          "label", "mark",         \* what the installer writes first and last
          "esp", "root", "home",   \* the installer's partition entries
          "file"}                  \* part of a volume, written by the firmware's driver

Sector == [kind : Kinds, table : Nat, entries : Nat, size : Nat, starts : Seq(Nat)]

Plain(kind) == [kind |-> kind, table |-> 0, entries |-> 0, size |-> 0, starts |-> <<>>]
=============================================================================
