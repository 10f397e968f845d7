------------------------------ MODULE Namespace ------------------------------
(***************************************************************************)
(* What a file system's callers see of mkdir, create, remove and rmdir: a  *)
(* tree of names in which an operation takes effect at once, on its own    *)
(* path, or not at all.                                                    *)
(***************************************************************************)
EXTENDS Sequences, SequencesExt

CONSTANTS Paths       (* the paths a caller may name: non-empty sequences    *)

VARIABLES files, dirs (* the paths that exist                                *)

Init == files \in SUBSET Paths /\ dirs \in SUBSET (Paths \ files)

InADirectory(p) == Front(p) \in dirs \union {<<>>}

AddFile ==
  \E p \in files' \ (files \union dirs) :
    InADirectory(p) /\ files' = files \union {p} /\ dirs' = dirs

AddDir ==
  \E p \in dirs' \ (files \union dirs) :
    InADirectory(p) /\ dirs' = dirs \union {p} /\ files' = files

(* A path goes, and nothing may be below it.                                 *)
Delete ==
  \E p \in (files \union dirs) \ (files' \union dirs') :
    /\ \A q \in files \union dirs : q # p => ~IsPrefix(p, q)
    /\ files' = files \ {p} /\ dirs' = dirs \ {p}

Next == AddFile \/ AddDir \/ Delete

Spec == Init /\ [][Next]_<<files, dirs>>
=============================================================================
