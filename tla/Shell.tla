-------------------------------- MODULE Shell --------------------------------
(***************************************************************************)
(* A user at the shell: current_dir and the paths that commands build      *)
(* (kernel/src/core/shell.c), the switch that hands them to a driver       *)
(* (kernel/src/fs/fs.c), and what a FAT32 volume makes of them, as         *)
(* Namespace promises it.                                                  *)
(*                                                                         *)
(* There are two notions of "..".  cd resolves it in the text of the path, *)
(* before anything is looked up; the other commands hand it to the driver, *)
(* which finds it as an entry of every directory but the root.             *)
(*                                                                         *)
(* A path is the sequence of its components, and "/" the empty one.  A     *)
(* disk that works and has room is assumed, and every command is a step.   *)
(***************************************************************************)
EXTENDS Naturals, Sequences, SequencesExt

CONSTANTS
  Names,       (* the names of files and directories                           *)
  Paths,       (* the paths of the volume that are used: a bound               *)
  Args,        (* what users type: [absolute : BOOLEAN, comps : a sequence]    *)
  Points,      (* where users mount                                            *)
  MaxMounts    (* the places in the table of mounts, FS_MAX_MOUNTS             *)

VARIABLES
  files, dirs, (* the volume                                                   *)
  current_dir,
  mounts       (* the mount points, in the order they were mounted             *)

vars == <<files, dirs, current_dir, mounts>>

Volume == INSTANCE Namespace

RootDir == <<>>
NOTHING == <<"nothing">>

(* Where a path uses "..", it names something before it uses it again.       *)
OneUpAtATime(comps) ==
  \A i, j \in DOMAIN comps :
    i < j /\ comps[i] = ".." /\ comps[j] = ".." =>
      \E k \in i..j : comps[k] \in Names

ASSUME ShellAssumption ==
  /\ Names \intersect {".", "..", "nothing"} = {}
  /\ Paths \subseteq Seq(Names) \ {RootDir}
  /\ \A p \in Paths : Front(p) \in Paths \union {RootDir}
  /\ Points \subseteq Seq(Names) /\ MaxMounts \in Nat \ {0}
  /\ \A arg \in Args : arg.comps \in Seq(Names \union {".", ".."}) /\ OneUpAtATime(arg.comps)

IsDir(p) == p \in dirs \union {RootDir}

-----------------------------------------------------------------------------
(* normalize_path: the path so far, and how many components it had when the  *)
(* last name was met, which is how far every ".." goes back.                 *)
Scanned(s, c) ==
  IF c = "." THEN s
  ELSE IF c = ".." THEN [s EXCEPT !.out = IF s.named THEN SubSeq(@, 1, s.last) ELSE @]
  ELSE [out |-> Append(s.out, c), last |-> Len(s.out), named |-> TRUE]

Start == [out |-> RootDir, last |-> 0, named |-> FALSE]

(* Mutant: the first name is remembered and no later one.                    *)
NormalizeFirstName(comps) ==
  LET after[k \in 0..Len(comps)] ==
        IF k = 0 THEN Start
        ELSE [Scanned(after[k - 1], comps[k]) EXCEPT
               !.last = IF after[k - 1].named THEN after[k - 1].last ELSE @]
  IN  after[Len(comps)].out
Normalize(comps) ==
  LET after[k \in 0..Len(comps)] ==
        IF k = 0 THEN Start ELSE Scanned(after[k - 1], comps[k])
  IN  after[Len(comps)].out

(* The path a command builds from what was typed.                            *)
Typed(arg) == IF arg.absolute THEN arg.comps ELSE current_dir \o arg.comps

(* What the driver reaches from p by the name c.                             *)
Below(p, c) ==
  IF ~IsDir(p) THEN NOTHING
  ELSE IF c \in Names THEN IF Append(p, c) \in files \union dirs THEN Append(p, c) ELSE NOTHING
  ELSE IF p = RootDir THEN NOTHING
  ELSE IF c = ".." THEN Front(p) ELSE p

(* The walk of the driver, entry by entry.                                   *)
Walk(comps) ==
  LET at[k \in 0..Len(comps)] == IF k = 0 THEN RootDir ELSE Below(at[k - 1], comps[k])
  IN  at[Len(comps)]

(* fs_open: the first mount whose point the path begins with gets the rest.  *)
Serving(path) == {i \in DOMAIN mounts : IsPrefix(mounts[i], path)}
Open(path) ==
  IF Serving(path) = {} THEN NOTHING
  ELSE LET i == CHOOSE i \in Serving(path) : \A j \in Serving(path) : i <= j
       IN  Walk(SubSeq(path, Len(mounts[i]) + 1, Len(path)))

-----------------------------------------------------------------------------
Init ==
  /\ files = {} /\ dirs = {} /\ current_dir = RootDir
  /\ mounts \in {<<>>, <<RootDir>>}

(* Mutant: the path is kept as it was typed.                                 *)
CdAsTyped(arg) ==
  /\ IsDir(Open(Typed(arg)))
  /\ current_dir' = Typed(arg)
  /\ UNCHANGED <<files, dirs, mounts>>

(* shell_cmd_cd.                                                             *)
Cd(arg) ==
  /\ IsDir(Open(Normalize(Typed(arg))))
  /\ current_dir' = Normalize(Typed(arg))
  /\ UNCHANGED <<files, dirs, mounts>>

(* fs_mkdir, fs_create, fs_remove and fs_rmdir hand the whole path to the    *)
(* first mount.  The path a command is about ends in a name, whose place is  *)
(* where the driver's walk along the rest leads.                             *)
Concerns(arg, p) ==
  LET path == Typed(arg) IN
  /\ mounts # <<>>
  /\ path # RootDir /\ path[Len(path)] \in Names
  /\ p \in Paths /\ p = Append(Walk(Front(path)), path[Len(path)])

(* shell_cmd_mkdir and shell_cmd_touch, where the driver does what is asked. *)
Mkdir(arg) ==
  /\ \E p \in Paths : Concerns(arg, p) /\ files' = files /\ dirs' = dirs \union {p}
  /\ Volume!AddDir
  /\ UNCHANGED <<current_dir, mounts>>

Touch(arg) ==
  /\ \E p \in Paths : Concerns(arg, p) /\ files' = files \union {p} /\ dirs' = dirs
  /\ Volume!AddFile
  /\ UNCHANGED <<current_dir, mounts>>

(* shell_cmd_rm, of files, as its help says.                                 *)
Rm(arg) ==
  /\ \E p \in files : Concerns(arg, p) /\ files' = files \ {p} /\ dirs' = dirs
  /\ Volume!Delete
  /\ UNCHANGED <<current_dir, mounts>>

(* Mutant: a directory goes with what is in it.                              *)
RmdirWithContents(arg) ==
  /\ \E p \in dirs \ {current_dir} :
       /\ Concerns(arg, p)
       /\ files' = {q \in files : ~IsPrefix(p, q)} /\ dirs' = {q \in dirs : ~IsPrefix(p, q)}
  /\ UNCHANGED <<current_dir, mounts>>

(* shell_cmd_rmdir, of directories other than the current one.               *)
Rmdir(arg) ==
  /\ \E p \in dirs \ {current_dir} : Concerns(arg, p) /\ files' = files /\ dirs' = dirs \ {p}
  /\ Volume!Delete
  /\ UNCHANGED <<current_dir, mounts>>

(* shell_cmd_mount and fs_mount, where the driver's mount succeeds.          *)
MountAt(point) ==
  /\ Len(mounts) < MaxMounts
  /\ mounts' = Append(mounts, point)
  /\ UNCHANGED <<files, dirs, current_dir>>

Next ==
  \/ \E arg \in Args : Cd(arg) \/ Mkdir(arg) \/ Touch(arg) \/ Rm(arg) \/ Rmdir(arg)
  \/ \E point \in Points : MountAt(point)

Spec == Init /\ [][Next]_vars

-----------------------------------------------------------------------------
RootFirst == mounts # <<>> /\ mounts[1] = RootDir

TypeOK ==
  /\ files \subseteq Paths /\ dirs \subseteq Paths \ files
  /\ current_dir \in Seq(Names) /\ mounts \in Seq(Points \union {RootDir})

(* While the root is mounted first, the current directory exists, for users  *)
(* that do not remove the one they are in: it was opened when cd went there, *)
(* and rmdir refuses the directories above it.                               *)
CurrentDirExists == RootFirst => IsDir(current_dir)

(* The two notions of ".." agree: wherever the driver's walk along a typed   *)
(* path leads to a directory, cd of the same text opens and enters that one, *)
(* so that a directory made by mkdir is the one cd and ls then show.         *)
CdMeansWhatCommandsMean ==
  RootFirst =>
    \A arg \in Args :
      LET there == Walk(Typed(arg)) IN
      IsDir(there) => Normalize(Typed(arg)) = there /\ Open(there) = there
=============================================================================
