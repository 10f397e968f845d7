------------------------------- MODULE MCFat32 -------------------------------
(* Fat32 on a volume of five to seven FAT entries, four of them to a sector, *)
(* with directories of three slots, one of them for an entry beyond "." and  *)
(* "..", two names and paths of up to three components.                      *)
EXTENDS Fat32Tree

MCNames == {"A", "B"}
MCShortName == [n \in MCNames |-> n]

Blank == [i \in 1..Slots |-> END]
Entry(k, n, c) == [kind |-> k, name |-> n, cluster |-> c]
FatOf(used) == [c \in Index |-> IF c \in DOMAIN used THEN used[c] ELSE FREE]
ReservedFat == [c \in {0, 1, Root} |-> EOC]

(* A volume just formatted.                                                  *)
Formatted == [fat |-> FatOf(ReservedFat), data |-> [c \in Index |-> Blank]]

(* A volume filled by another system: a file of two clusters, 3 and 4.       *)
WithFile ==
  [fat |-> FatOf([c \in {0, 1, Root, 3, 4} |-> IF c = 3 THEN 4 ELSE EOC]),
   data |-> [c \in Index |->
     IF c = Root THEN [Blank EXCEPT ![1] = Entry("file", "A", 3)]
     ELSE Blank]]

(* Another: the directory A, behind a slot that is not in use any more, with *)
(* a file of two clusters in it.                                             *)
WithTree ==
  [fat |-> FatOf([c \in {0, 1, Root, 3, 4, 5} |-> IF c = 4 THEN 5 ELSE EOC]),
   data |-> [c \in Index |->
     IF c = Root THEN [Blank EXCEPT ![1] = DELETED, ![2] = Entry("dir", "A", 3)]
     ELSE IF c = 3 THEN [NewDirectory(3, Root) EXCEPT ![3] = Entry("file", "A", 4)]
     ELSE Blank]]

(* A damaged volume: the chain of the file A, 3 and 4, runs in a circle.     *)
Circular == [WithFile EXCEPT !.fat[4] = 3]

(* A volume as other systems make them: the ".." of the directory A, which   *)
(* lies in the root, is 0.                                                   *)
Foreign ==
  [fat |-> FatOf([c \in {0, 1, Root, 3} |-> EOC]),
   data |-> [c \in Index |->
     IF c = Root THEN [Blank EXCEPT ![1] = Entry("dir", "A", 3)]
     ELSE IF c = 3 THEN NewDirectory(3, NONE)
     ELSE Blank]]

(* The end of the FAT read as a directory: all free, a link that reads like  *)
(* the name B, and no room at all.                                           *)
SomeRows == {Blank, [Blank EXCEPT ![1] = Entry("dir", "B", 3)],
             [i \in 1..Slots |-> Entry("file", "A", NONE)]}
NoRows   == {}

TreeImages == {Formatted, WithTree}
BadImages  == {Formatted, Circular, Foreign}
ForeignImages == {Foreign}
DotDotPaths == {<<"A">>, <<"A", "..", "B">>, <<"A", "B">>}
FewPaths   == {<<"A">>, <<"A", "A">>, <<"A", "..", "B">>}
TreePaths  == {<<"A">>, <<"A", "A">>, <<"A", "B">>}

(* The runs with disciplined callers are about volumes of which the theorems *)
(* speak: the tables of the trees on Formatted and on WithTree.              *)
HomeOn(v) == IF v = Formatted THEN [d \in {Root} |-> <<>>]
             ELSE [d \in {Root, 3} |-> IF d = Root THEN <<>> ELSE <<"A">>]
OwnOn(v) == [c \in Index |-> IF c = Root THEN THEROOT
                             ELSE IF v = Formatted \/ c \notin {3, 4, 5} THEN NOBODY
                             ELSE IF c = 3 THEN <<Root, 2>> ELSE <<3, 3>>]

ASSUME OrdinaryRuns ==
  Disciplined =>
    /\ "write" \notin Faults /\ ParentsNamed
    /\ \A n \in Names : ShortName[n] = n
    /\ \A p \in Paths : p \in Seq(Names)
    /\ \A v \in Images : /\ IsTree(v.fat, v.data, HomeOn(v), OwnOn(v), NOBODY)
                         /\ Complete(v.fat, v.data, HomeOn(v))
    /\ ShortVolumes
=============================================================================
