---------------------------- MODULE MachineProofs ----------------------------
(***************************************************************************)
(* Theorems about Machine: for all disks, lists of handles and contents.   *)
(*                                                                         *)
(* The inductive invariant follows the installer from screen to screen: the*)
(* disk chosen is the one typed (Chosen), what is on it is what the screens*)
(* passed have written (Laid), and a disk that was partitioned at all does *)
(* not read as a volume from block 0 on and, but for the first block alone,*)
(* has no GPT header, whatever files were copied to it after (Wiped).  The *)
(* kernel's side says where the driver is led by what it reads: without a  *)
(* failed command every answer is the disk's (Reading);                    *)
(* with no trouble since the start, every mount is led the same way, and   *)
(* that is why the one set of variables goes on serving the first (Serving)*)
(***************************************************************************)
EXTENDS Machine, WellFoundedInduction, TLAPS

(* Induction over the natural numbers, stated of sets.                       *)
LEMMA LeastElement ==
  ASSUME NEW T \in SUBSET Nat, T # {}
  PROVE  \E x \in T : \A y \in T : x <= y
<1> DEFINE R == OpToRel(<, Nat)
<1>1. R = {z \in Nat \X Nat : z[1] < z[2]}
  BY DEF OpToRel
<1>2. IsWellFoundedOn(R, Nat)
  BY NatLessThanWellFounded
<1> HIDE DEF R
<1>3. PICK x \in T : \A y \in T : ~ (<<y, x>> \in R)
  BY <1>2, WFMin
<1>4. \A y \in T : <<y, x>> \in R <=> y < x
  BY <1>1
<1>5. ASSUME NEW y \in T PROVE x <= y
  <2>1. ~ (y < x)
    BY <1>3, <1>4
  <2> QED BY <2>1
<1> QED BY <1>5

(* A set that holds 0 and the successor of each of its elements is Nat.      *)
LEMMA SetInduction ==
  ASSUME NEW S \in SUBSET Nat, 0 \in S, \A n \in S : n + 1 \in S
  PROVE  S = Nat
<1> SUFFICES ASSUME Nat \ S # {} PROVE FALSE
  OBVIOUS
<1>1. PICK x \in Nat \ S : \A y \in Nat \ S : x <= y
  BY LeastElement
<1>2. x # 0 /\ x - 1 \in Nat
  OBVIOUS
<1>3. x - 1 \in S
  BY <1>1, <1>2
<1> QED BY <1>2, <1>3

(* Induction up to n.                                                        *)
LEMMA Upto ==
  ASSUME NEW n \in Nat, NEW S \in SUBSET Nat, 0 \in S, \A k \in S : k < n => k + 1 \in S
  PROVE  0..n \subseteq S
<1> DEFINE T == S \union {k \in Nat : k > n}
<1>1. ASSUME NEW k \in T PROVE k + 1 \in T
  <2>1. CASE k \in S /\ k < n
    BY <2>1
  <2>2. CASE ~(k \in S /\ k < n)
    BY <2>2
  <2> QED BY <2>1, <2>2
<1>2. T \in SUBSET Nat /\ 0 \in T
  OBVIOUS
<1>3. T = Nat
  <2> HIDE DEF T
  <2> QED BY <1>1, <1>2, SetInduction
<1> QED BY <1>3

-----------------------------------------------------------------------------

Shaped ==
  /\ blocks = [d \in Disks |-> blocks[d]]
  /\ original = [d \in Disks |-> original[d]]

Chosen ==
  /\ screen # "start" => disks = I!Listing(handles)
  /\ screen \notin {"start", "disk", "exited"} \/ laid =>
       typed = selected + 1 /\ typed \in DOMAIN disks
  /\ screen \in {"label", "mark", "label_again", "mark_again", "esp", "root", "home", "copy",
                "loader"} => confirmed

Entry(kind, first, last) == [kind |-> kind, first |-> first, last |-> last]
First  == <<Entry("esp", 2, 2 + ESPBlocks - 1)>>
Second == Append(First, Entry("root", 2 + ESPBlocks, 2 + ESPBlocks + RootBlocks - 1))
Third  == Append(Second, Entry("home", 2 + ESPBlocks + RootBlocks,
                               2 + ESPBlocks + RootBlocks + I!HomeBlocks(I!Target) - 1))

Laid ==
  /\ screen \in {"start", "disk", "summary", "label", "mark", "label_again", "mark_again", "esp"} =>
       partitions = <<>>
  /\ screen = "root" => partitions = First
  /\ screen = "home" => partitions = Second
  /\ laid => screen \in {"copy", "loader", "complete", "exited"}
  /\ laid => \/ partitions = Third /\ I!HomeBlocks(I!Target) > 0
             \/ partitions = Second /\ I!HomeBlocks(I!Target) = 0
  /\ /\ screen \in {"mark_again", "esp", "root", "home"} \/ (laid /\ I!Elsewhere(I!Target))
     /\ I!LargeEnough(I!Target)
     => LET on == blocks[I!Target] IN
       /\ on[0].kind = "label"
       /\ screen # "mark_again" =>
            /\ on[LastBlock[I!Target]].kind = "mark"
            /\ \A k \in DOMAIN partitions : on[partitions[k].first].kind = partitions[k].kind

(* What the installer writes into a block.                                   *)
Its == {"label", "blank", "mark", "esp", "root", "home", "file"}

Untouched(d) == \A b \in 0..LastBlock[d] : Kept(d, b)
FirstOnly(d) == blocks[d][0].kind \in Its /\ \A b \in 1..LastBlock[d] : Kept(d, b)
Begun(d)     == /\ LastBlock[d] >= 1
                /\ blocks[d][0].kind \in Its /\ blocks[d][1].kind \in Its

Wiped ==
  /\ screen \in {"start", "disk", "summary", "label"} => \A d \in Disks : Untouched(d)
  /\ screen \in {"mark", "label_again", "mark_again", "esp", "root", "home"} => Begun(I!Target)
  /\ \A d \in Disks : Untouched(d) \/ FirstOnly(d) \/ Begun(d)

(* The kernel's drive.                                                       *)
D == blocks[Hda]
Scanning == pc \in {"identify", "header", "entries", "boot_sector"}
Headed   == 1 \in DOMAIN D /\ D[1].kind = "header"

Reading ==
  /\ pc = "off" => asked = "none"
  /\ Scanning => asked = "fat32" /\ Len(mounts) < MaxMounts
  /\ Scanning /\ ~troubled => drive = <<>>
  /\ pc = "entries" /\ ~troubled => Headed
  /\ pc = "boot_sector" /\ ~troubled => (Headed \/ volume.start = 0)
  /\ pc = "shell" /\ asked = "fat32" /\ ~troubled /\ result = 0 /\ volume.geometry = "volume" =>
       /\ M!Reached(volume.start) \in DOMAIN D /\ D[M!Reached(volume.start)].kind = "volume"
       /\ Headed \/ volume.start = 0

(* The contents of fat32_buffer as fat32_parse_gpt goes from entry to entry  *)
(* without trouble, the first n entries not being what it looks for.         *)
Place1(s, k) == M!Reached(s.table + ((k * s.size) \div PerSector))
Index(s, k)  == ((k * s.size) % PerSector) + 1
Found(s, k)  == /\ Place1(s, k) \in DOMAIN D
                /\ Index(s, k) \in DOMAIN D[Place1(s, k)].starts
                /\ D[Place1(s, k)].starts[Index(s, k)] # 0
Trail(n, t) ==
  /\ t \in [0..n -> Sector] /\ t[0] = D[1]
  /\ \A k \in 0..(n - 1) :
       /\ k < t[k].entries /\ ~Found(t[k], k)
       /\ t[k + 1] = IF Place1(t[k], k) \in DOMAIN D THEN D[Place1(t[k], k)] ELSE t[k]

(* Where fat32_parse_gpt says the volume begins.                             *)
LeadsTo(s) ==
  \/ ~Headed /\ s = 0
  \/ Headed /\ \E n \in Nat : \E t : Trail(n, t) /\
       \/ n >= t[n].entries /\ s = 0
       \/ /\ n < t[n].entries /\ Found(t[n], n)
          /\ s = D[Place1(t[n], n)].starts[Index(t[n], n)]

Led     == LeadsTo(volume.start)
OnTrail == Headed /\ \E t : Trail(i, t) /\ t[i] = buffer

Serving ==
  /\ pc = "off" => mounts = <<>>
  /\ troubles = 0 =>
       /\ drive = <<>>
       /\ pc = "entries" => OnTrail
       /\ pc = "boot_sector" => Led
       /\ mounts # <<>> =>
            /\ Led /\ M!Reached(volume.start) \in DOMAIN D
            /\ volume.bs = D[M!Reached(volume.start)].kind /\ volume.geometry = volume.bs

IInv == TypeOK /\ Shaped /\ Chosen /\ Laid /\ Wiped /\ Reading /\ Serving

-----------------------------------------------------------------------------

(* DetectDisks lists disks, and no more than it has room for.                *)
LEMMA ListingType ==
  ASSUME NEW hs \in Seq(I!Handle)
  PROVE  I!Listing(hs) \in Seq(Disks) /\ Len(I!Listing(hs)) <= MaxDisks
<1> DEFINE L == {s \in Seq(Disks) : Len(s) <= MaxDisks}
           Next1(n, s) == IF hs[n].present /\ ~hs[n].logical /\ Len(s) < MaxDisks
                            THEN Append(s, hs[n].disk) ELSE s
           Sound(m, g) == /\ g \in [0..m -> L] /\ g[0] = <<>>
                          /\ \A n \in 1..m : g[n] = Next1(n, g[n - 1])
<1>1. MaxDisks \in Nat /\ Len(hs) \in Nat
  BY MachineAssumption DEF I!InstallerAssumption
<1>2. ASSUME NEW n \in 1..Len(hs), NEW s \in L PROVE Next1(n, s) \in L
  <2>1. hs[n] \in I!Handle
    OBVIOUS
  <2>2. hs[n].disk \in Disks
    BY <2>1 DEF I!Handle
  <2>3. s \in Seq(Disks) /\ Len(s) \in Nat /\ Len(s) <= MaxDisks
    OBVIOUS
  <2>4. Len(s) < MaxDisks =>
          Append(s, hs[n].disk) \in Seq(Disks) /\ Len(Append(s, hs[n].disk)) <= MaxDisks
    BY <1>1, <2>2, <2>3
  <2> QED BY <2>3, <2>4
<1> DEFINE S == {m \in Nat : m <= Len(hs) => \E g : Sound(m, g)}
<1> HIDE DEF Next1
<1>3. 0 \in S
  <2>1. <<>> \in L
    BY <1>1
  <2>2. Sound(0, [n \in 0..0 |-> <<>>])
    BY <2>1
  <2> HIDE DEF Sound
  <2> QED BY <2>2
<1>4. ASSUME NEW m \in S, m < Len(hs) PROVE m + 1 \in S
  <2>1. m \in Nat /\ m + 1 \in 1..Len(hs)
    BY <1>1, <1>4
  <2>2. PICK g : Sound(m, g)
    <3>1. m <= Len(hs)
      BY <1>1, <1>4, <2>1
    <3> HIDE DEF Sound
    <3> QED BY <3>1
  <2> DEFINE h == [n \in 0..(m + 1) |-> IF n = m + 1 THEN Next1(m + 1, g[m]) ELSE g[n]]
  <2>3. g[m] \in L
    BY <2>1, <2>2
  <2>4. Next1(m + 1, g[m]) \in L
    BY <1>2, <2>1, <2>3
  <2> HIDE DEF L
  <2>5. h \in [0..(m + 1) -> L] /\ h[0] = <<>>
    BY <2>1, <2>2, <2>3, <2>4
  <2>6. \A n \in 1..(m + 1) : h[n] = Next1(n, h[n - 1])
    BY <2>1, <2>2
  <2>7. Sound(m + 1, h)
    BY <2>5, <2>6
  <2> HIDE DEF Sound, h
  <2> QED BY <2>1, <2>7
<1>5. PICK g : Sound(Len(hs), g)
  <2>1. S \in SUBSET Nat
    OBVIOUS
  <2> HIDE DEF S
  <2>2. 0..Len(hs) \subseteq S
    BY <1>1, <1>3, <1>4, <2>1, Upto
  <2>3. Len(hs) \in S
    BY <1>1, <2>2
  <2> QED BY <1>1, <2>3 DEF S
<1>6. g = [n \in 0..Len(hs) |->
             IF n = 0 THEN <<>>
             ELSE IF hs[n].present /\ ~hs[n].logical /\ Len(g[n - 1]) < MaxDisks
               THEN Append(g[n - 1], hs[n].disk)
               ELSE g[n - 1]]
  <2>1. g \in [0..Len(hs) -> L] /\ g[0] = <<>>
    BY <1>5
  <2>2. ASSUME NEW n \in 0..Len(hs), n # 0 PROVE g[n] = Next1(n, g[n - 1])
    <3>1. n \in 1..Len(hs)
      BY <1>1, <2>2
    <3> QED BY <1>5, <3>1
  <2> HIDE DEF L, Sound
  <2> QED BY <2>1, <2>2 DEF Next1
<1> DEFINE list[n \in 0..Len(hs)] ==
             IF n = 0 THEN <<>>
             ELSE IF hs[n].present /\ ~hs[n].logical /\ Len(list[n - 1]) < MaxDisks
               THEN Append(list[n - 1], hs[n].disk)
               ELSE list[n - 1]
<1>7. list = [n \in 0..Len(hs) |->
             IF n = 0 THEN <<>>
             ELSE IF hs[n].present /\ ~hs[n].logical /\ Len(list[n - 1]) < MaxDisks
               THEN Append(list[n - 1], hs[n].disk)
               ELSE list[n - 1]]
  BY <1>6, Zenon
<1>8. I!Listing(hs) = list[Len(hs)]
  BY Zenon DEF I!Listing
<1> DEFINE T == {m \in Nat : m <= Len(hs) => list[m] \in L}
<1> HIDE DEF list
<1>9. 0 \in T
  BY <1>1, <1>7
<1>10. ASSUME NEW m \in T, m < Len(hs) PROVE m + 1 \in T
  <2>1. m \in Nat /\ m + 1 \in 1..Len(hs) /\ list[m] \in L
    BY <1>1, <1>10
  <2>2. m + 1 \in 0..Len(hs) /\ m + 1 # 0 /\ (m + 1) - 1 = m
    BY <2>1
  <2>3. list[m + 1] = Next1(m + 1, list[(m + 1) - 1])
    BY <1>7, <2>2, Zenon DEF Next1
  <2> HIDE DEF L
  <2>4. list[m + 1] \in L
    BY <1>2, <2>1, <2>2, <2>3
  <2> QED BY <2>1, <2>4
<1>11. list[Len(hs)] \in L
  <2>1. T \in SUBSET Nat
    OBVIOUS
  <2> HIDE DEF T
  <2>2. 0..Len(hs) \subseteq T
    BY <1>1, <1>9, <1>10, <2>1, Upto
  <2>3. Len(hs) \in T
    BY <1>1, <2>2
  <2> QED BY <1>1, <2>3 DEF T
<1> QED BY <1>8, <1>11

LEMMA Constants ==
  /\ MaxDisks \in Nat /\ ESPBlocks \in Nat \ {0} /\ RootBlocks \in Nat \ {0}
  /\ Reserved \in Nat /\ Reserved > 2 /\ Wrap \in Nat \ {0} /\ MaxFaults \in Nat
  /\ Hda \in Disks /\ \A d \in Disks : LastBlock[d] \in Nat /\ LastBlock[d] < Wrap
  /\ PerSector \in Nat \ {0} /\ Addressable \in Nat /\ Addressable > 1
  /\ MaxMounts \in Nat /\ MaxCalls \in Nat /\ MaxTroubles \in Nat
BY MachineAssumption DEF I!InstallerAssumption, M!MountAssumption

(* A block within the drive's reach is the one that is read.                 *)
LEMMA ReachedIs ==
  /\ \A b \in Nat : b < Addressable => M!Reached(b) = b
  /\ M!Reached(0) = 0 /\ M!Reached(1) = 1
<1>1. Addressable \in Nat /\ Addressable > 1
  BY Constants
<1>2. ASSUME NEW b \in Nat, b < Addressable PROVE b % Addressable = b
  BY <1>1, <1>2
<1> QED BY <1>1, <1>2 DEF M!Reached

(* Machine, Installer and Mount mean the same by a sector.                   *)
LEMMA SameSectors ==
  /\ I!Kinds = Kinds /\ M!Kinds = Kinds /\ I!Sector = Sector /\ M!Sector = Sector
  /\ \A kind : I!Plain(kind) = Plain(kind) /\ M!Plain(kind) = Plain(kind)
<1>1. I!Kinds = Kinds /\ M!Kinds = Kinds
  BY DEF Kinds, I!Kinds, M!Kinds
<1> QED BY <1>1 DEF Sector, I!Sector, M!Sector, Plain, I!Plain, M!Plain

LEMMA BlocksType == TypeOK => \A d \in Disks : /\ blocks[d] \in [0..LastBlock[d] -> Sector]
                                               /\ original[d] \in [0..LastBlock[d] -> Sector]
BY SameSectors DEF TypeOK, I!TypeOK

LEMMA PlainType == \A kind \in Kinds : Plain(kind) \in Sector /\ Plain(kind).kind = kind
BY DEF Plain, Sector

(* WriteBlocks changes the blocks it is given of the target, and no other.   *)
LEMMA WrittenBlocks ==
  ASSUME TypeOK, Shaped, I!Target \in Disks, NEW lba \in Nat, NEW data \in Seq(Sector),
         NEW n \in 0..Len(data)
  PROVE  LET w == I!Written(lba, data, n) IN
         /\ w = [d \in Disks |-> w[d]]
         /\ \A d \in Disks : w[d] \in [0..LastBlock[d] -> Sector]
         /\ \A d \in Disks \ {I!Target} : w[d] = blocks[d]
         /\ \A b \in 0..LastBlock[I!Target] :
              w[I!Target][b] = IF b \in lba..(lba + n - 1) THEN data[b - lba + 1]
                               ELSE blocks[I!Target][b]
<1> DEFINE w == I!Written(lba, data, n)
           T == I!Target
           new(b) == IF b \in lba..(lba + n - 1) THEN data[b - lba + 1] ELSE blocks[T][b]
<1>1. \A d \in Disks : blocks[d] \in [0..LastBlock[d] -> Sector]
  BY BlocksType
<1>2. w = [blocks EXCEPT ![T] = [b \in DOMAIN blocks[T] |-> new(b)]]
  BY DEF I!Written
<1>3. T \in Disks /\ DOMAIN blocks = Disks /\ DOMAIN blocks[T] = 0..LastBlock[T]
  <2>1. T \in Disks
    OBVIOUS
  <2> HIDE DEF T
  <2>2. DOMAIN blocks = Disks
    BY DEF Shaped
  <2> QED BY <1>1, <2>1, <2>2
<1>4. w[T] = [b \in 0..LastBlock[T] |-> new(b)] /\ \A d \in Disks \ {T} : w[d] = blocks[d]
  <2> HIDE DEF w, T, new
  <2> QED BY <1>2, <1>3
<1>5. w = [d \in Disks |-> w[d]]
  <2> HIDE DEF w, T, new
  <2> QED BY <1>2, <1>3
<1>6. ASSUME NEW b \in 0..LastBlock[T] PROVE new(b) \in Sector
  <2>1. CASE b \in lba..(lba + n - 1)
    <3>1. b - lba + 1 \in 1..Len(data)
      BY <2>1
    <3>2. data[b - lba + 1] \in Sector
      BY <3>1
    <3> QED BY <2>1, <3>2
  <2>2. CASE b \notin lba..(lba + n - 1)
    BY <1>1, <2>2
  <2> QED BY <2>1, <2>2
<1> HIDE DEF w, T, new
<1>7. \A d \in Disks : w[d] \in [0..LastBlock[d] -> Sector]
  BY <1>1, <1>4, <1>6
<1> QED BY <1>4, <1>5, <1>7 DEF w, T, new

(* As long as the kernel is not started, what it will find does not matter.  *)
LEMMA KernelOff ==
  ASSUME IInv, pc = "off", UNCHANGED kernel
  PROVE  Reading' /\ Serving' /\ M!TypeOK'
<1> USE DEF IInv, kernel
<1>1. Reading'
  BY DEF Reading, Scanning
<1>2. Serving'
  BY DEF Serving
<1>3. M!TypeOK'
  BY DEF TypeOK, M!TypeOK
<1> QED BY <1>1, <1>2, <1>3

Writing == {"label", "mark", "label_again", "mark_again", "esp", "root", "home"}

(* A write of the installer's sectors to the target, done or refused.        *)
Data(lba, data) ==
  /\ lba \in Nat /\ data \in Seq(Sector)
  /\ \A k \in 1..Len(data) : data[k].kind \in Its
  /\ screen = "label" => lba = 0 /\ Len(data) = 2

Outside ==
  pc = "off" /\ UNCHANGED <<kernel, original, handles, located, disks, selected, typed, confirmed>>

Breaks(lba, data) ==
  /\ screen' = "complete" /\ UNCHANGED <<partitions, laid>> /\ faults' \in 0..MaxFaults
  /\ \/ blocks' = blocks
     \/ \E n \in 0..(Len(data) - 1) : blocks' = I!Written(lba, data, n)

Succeeds(lba, data) ==
  /\ lba + Len(data) - 1 <= LastBlock[I!Target]
  /\ blocks' = I!Written(lba, data, Len(data)) /\ UNCHANGED faults

LEMMA TargetType ==
  ASSUME IInv, screen \in Writing \/ laid
  PROVE  I!Target \in Disks /\ I!Target = I!Listing(handles)[typed]
         /\ typed \in DOMAIN I!Listing(handles)
<1>1. typed = selected + 1 /\ typed \in DOMAIN disks /\ disks = I!Listing(handles)
  <2>1. laid => screen # "start"
    BY DEF IInv, Laid
  <2> QED BY <2>1 DEF IInv, Chosen, Writing
<1>2. disks \in Seq(Disks)
  BY DEF IInv, TypeOK, I!TypeOK
<1> QED BY <1>1, <1>2 DEF I!Target

(* What is as it was, on a disk or in a block of it, is kept as before.      *)
LEMMA KeptNow ==
  ASSUME UNCHANGED <<original, located>>, NEW d, NEW b, blocks'[d][b] = blocks[d][b], Kept(d, b)
  PROVE  Kept(d, b)'
BY DEF Kept, I!Behind

LEMMA DiskNow ==
  ASSUME UNCHANGED <<original, located>>, NEW d, blocks'[d] = blocks[d]
  PROVE  /\ Untouched(d) => Untouched(d)'
         /\ FirstOnly(d) => FirstOnly(d)'
         /\ Begun(d) => Begun(d)'
<1>1. \A b : Kept(d, b) => Kept(d, b)'
  BY KeptNow
<1>2. Untouched(d) => Untouched(d)'
  BY <1>1 DEF Untouched
<1>3. FirstOnly(d) => FirstOnly(d)'
  BY <1>1 DEF FirstOnly
<1>4. Begun(d) => Begun(d)'
  BY DEF Begun
<1> QED BY <1>2, <1>3, <1>4

(* What a write, whole or not, leaves of what Wiped says of every disk.      *)
LEMMA WipedKept ==
  ASSUME IInv, Outside, screen \in Writing, NEW lba, NEW data, Data(lba, data),
         NEW n \in 0..Len(data), blocks' = I!Written(lba, data, n),
         screen = "label" /\ n = 2 => LastBlock[I!Target] >= 1
  PROVE  /\ \A d \in Disks : Untouched(d)' \/ FirstOnly(d)' \/ Begun(d)'
         /\ screen # "label" \/ n = 2 =>
              /\ LastBlock[I!Target] >= 1
              /\ blocks'[I!Target][0].kind \in Its /\ blocks'[I!Target][1].kind \in Its
<1>1. PICK T \in Disks : T = I!Target
  BY TargetType
<1>2. /\ \A d \in Disks \ {T} : blocks'[d] = blocks[d]
      /\ \A d \in Disks : blocks'[d] \in [0..LastBlock[d] -> Sector]
      /\ \A b \in 0..LastBlock[T] :
           blocks'[T][b] = IF b \in lba..(lba + n - 1) THEN data[b - lba + 1] ELSE blocks[T][b]
  BY <1>1, WrittenBlocks DEF IInv, Data
<1>3. UNCHANGED <<original, located>>
  BY DEF Outside
<1>4. LastBlock[T] \in Nat /\ lba \in Nat /\ Len(data) \in Nat
  BY <1>1, Constants DEF Data
<1>6. \A d \in Disks \ {T} : Untouched(d)' \/ FirstOnly(d)' \/ Begun(d)'
  BY <1>2, <1>3, DiskNow DEF IInv, Wiped
<1>7. \A b \in 0..LastBlock[T] : blocks'[T][b] = blocks[T][b] \/ blocks'[T][b].kind \in Its
  <2> TAKE b \in 0..LastBlock[T]
  <2>1. CASE b \in lba..(lba + n - 1)
    <3>1. b - lba + 1 \in 1..Len(data)
      BY <1>4, <2>1
    <3> QED BY <1>2, <2>1, <3>1 DEF Data
  <2>2. CASE b \notin lba..(lba + n - 1)
    BY <1>2, <2>2
  <2> QED BY <2>1, <2>2
<1>8. CASE screen # "label"
  <2>1. LastBlock[T] >= 1 /\ blocks[T][0].kind \in Its /\ blocks[T][1].kind \in Its
    BY <1>1, <1>8 DEF IInv, Wiped, Begun, Writing
  <2>2. blocks'[T][0].kind \in Its /\ blocks'[T][1].kind \in Its
    <3> QED BY <1>4, <1>7, <2>1
  <2>3. Begun(T)'
    <3> QED BY <2>1, <2>2 DEF Begun
  <2> QED BY <1>1, <1>6, <2>1, <2>2, <2>3
<1>9. CASE screen = "label"
  <2>1. lba = 0 /\ Len(data) = 2 /\ n \in 0..2
    BY <1>9 DEF Data
  <2>2. \A b \in 0..LastBlock[T] : Kept(T, b)
    BY <1>1, <1>9 DEF IInv, Wiped, Untouched
  <2>3. CASE n = 0
    <3>1. \A b \in 0..LastBlock[T] : blocks'[T][b] = blocks[T][b]
      BY <1>2, <2>1, <2>3
    <3>2. \A b \in 0..LastBlock[T] : Kept(T, b)'
      BY <1>3, <2>2, <3>1, KeptNow
    <3> QED BY <1>6, <1>9, <2>3, <3>2 DEF Untouched
  <2>4. CASE n = 1
    <3>0. \A b \in 1..LastBlock[T] : b \in 0..LastBlock[T] /\ blocks'[T][b] = blocks[T][b]
      BY <1>2, <1>4, <2>1, <2>4
    <3>1. \A b \in 1..LastBlock[T] : Kept(T, b)'
      BY <1>3, <2>2, <3>0, KeptNow
    <3>2. blocks'[T][0].kind \in Its
      <4>1. data[1].kind \in Its
        BY <2>1 DEF Data
      <4> QED BY <1>2, <1>4, <2>1, <2>4, <4>1
    <3> QED BY <1>6, <1>9, <2>4, <3>1, <3>2 DEF FirstOnly
  <2>5. CASE n = 2
    <3>1. data[1].kind \in Its /\ data[2].kind \in Its /\ LastBlock[T] >= 1
      BY <1>1, <1>9, <2>1, <2>5 DEF Data
    <3>2. blocks'[T][0].kind \in Its /\ blocks'[T][1].kind \in Its
      BY <1>2, <1>4, <2>1, <2>5, <3>1
    <3>3. Begun(T)'
      BY <3>1, <3>2 DEF Begun
    <3> QED BY <1>1, <1>6, <3>1, <3>2, <3>3
  <2> QED BY <2>1, <2>3, <2>4, <2>5
<1> QED BY <1>8, <1>9

LEMMA BreaksInv ==
  ASSUME IInv, Outside, screen \in Writing, NEW lba, NEW data, Data(lba, data), Breaks(lba, data)
  PROVE  IInv'
<1>1. I!Target \in Disks /\ ~laid
  BY TargetType DEF IInv, Laid, Writing
<1>2. /\ blocks' = [d \in Disks |-> blocks'[d]]
      /\ \A d \in Disks : blocks'[d] \in [0..LastBlock[d] -> Sector]
      /\ \A d \in Disks : Untouched(d)' \/ FirstOnly(d)' \/ Begun(d)'
  <2>1. CASE blocks' = blocks
    <3>1. \A d \in Disks : Untouched(d)' \/ FirstOnly(d)' \/ Begun(d)'
      BY <2>1, DiskNow DEF IInv, Wiped, Outside
    <3> QED BY <2>1, <3>1, BlocksType DEF IInv, Shaped
  <2>2. CASE \E n \in 0..(Len(data) - 1) : blocks' = I!Written(lba, data, n)
    <3>1. PICK n \in 0..(Len(data) - 1) : blocks' = I!Written(lba, data, n)
      BY <2>2
    <3>2. n \in 0..Len(data) /\ (screen = "label" => n # 2)
      BY DEF Data
    <3>3. \A d \in Disks : Untouched(d)' \/ FirstOnly(d)' \/ Begun(d)'
      BY <3>1, <3>2, WipedKept
    <3>4. lba \in Nat /\ data \in Seq(Sector)
      BY DEF Data
    <3> QED BY <1>1, <3>1, <3>2, <3>3, <3>4, WrittenBlocks DEF IInv
  <2> QED BY <2>1, <2>2 DEF Breaks
<1>3. TypeOK'
  <2>1. I!TypeOK'
    BY <1>2, SameSectors DEF IInv, TypeOK, I!TypeOK, I!Screens, Outside, Breaks
  <2> QED BY <2>1, KernelOff DEF IInv, TypeOK, Outside
<1>4. Shaped'
  BY <1>2 DEF IInv, Shaped, Outside
<1>5. Chosen'
  BY DEF IInv, Chosen, Outside, Breaks, Writing
<1>6. Laid'
  BY <1>1 DEF Laid, Breaks
<1>7. Wiped'
  BY <1>2 DEF Wiped, Breaks
<1> QED BY <1>3, <1>4, <1>5, <1>6, <1>7, KernelOff DEF IInv, Outside

LEMMA SucceedsInv ==
  ASSUME IInv, Outside, screen \in Writing, NEW lba, NEW data, Data(lba, data), Succeeds(lba, data),
         screen' \in (Writing \ {"label"}) \union {"copy"}, laid' \in BOOLEAN,
         partitions' \in Seq([kind : Kinds, first : Nat, last : Nat])
  PROVE  TypeOK' /\ Shaped' /\ Chosen' /\ Wiped' /\ Reading' /\ Serving'
<1>1. I!Target \in Disks /\ I!Target' = I!Target
  BY TargetType DEF I!Target, Outside
<1>2. lba \in Nat /\ data \in Seq(Sector) /\ Len(data) \in 0..Len(data) /\ Len(data) \in Nat
  BY DEF Data
<1>3. blocks' = I!Written(lba, data, Len(data))
  BY DEF Succeeds
<1>4. /\ blocks' = [d \in Disks |-> blocks'[d]]
      /\ \A d \in Disks : blocks'[d] \in [0..LastBlock[d] -> Sector]
  BY <1>1, <1>2, <1>3, WrittenBlocks DEF IInv
<1>5. /\ \A d \in Disks : Untouched(d)' \/ FirstOnly(d)' \/ Begun(d)'
      /\ LastBlock[I!Target] >= 1
      /\ blocks'[I!Target][0].kind \in Its /\ blocks'[I!Target][1].kind \in Its
  <2>1. screen = "label" => Len(data) = 2 /\ LastBlock[I!Target] >= 1
    <3> DEFINE top == LastBlock[I!Target]
               n == Len(data)
    <3>1. top \in Nat /\ n \in Nat /\ lba \in Nat
      BY <1>1, <1>2, Constants
    <3>2. screen = "label" => lba = 0 /\ n = 2
      BY DEF Data
    <3>3. lba + n - 1 <= top
      BY DEF Succeeds
    <3>4. screen = "label" => n = 2 /\ top >= 1
      <4> HIDE DEF top, n
      <4> QED BY <3>1, <3>2, <3>3
    <3> QED BY <3>4
  <2> QED BY <1>2, <1>3, <2>1, WipedKept
<1>6. TypeOK'
  <2>1. I!TypeOK'
    BY <1>4, SameSectors DEF IInv, TypeOK, I!TypeOK, I!Screens, Writing, Outside, Succeeds
  <2> QED BY <2>1, KernelOff DEF IInv, TypeOK, Outside
<1>7. Shaped'
  BY <1>4 DEF IInv, Shaped, Outside
<1>8. Chosen'
  <2>1. typed = selected + 1 /\ typed \in DOMAIN disks /\ disks = I!Listing(handles) /\ confirmed
    BY DEF IInv, Chosen, Writing
  <2> QED BY <2>1 DEF Chosen, Outside
<1>9. Wiped'
  <2>1. Begun(I!Target)'
    BY <1>1, <1>5 DEF Begun
  <2> QED BY <1>5, <2>1 DEF Wiped, Writing
<1> QED BY <1>6, <1>7, <1>8, <1>9, KernelOff DEF Outside

(* A write that has succeeded: what was given is there, the rest as it was.  *)
LEMMA WrittenAt ==
  ASSUME IInv, screen \in Writing, NEW lba, NEW data, Data(lba, data), Succeeds(lba, data)
  PROVE  /\ \A k \in 1..Len(data) : blocks'[I!Target][lba + k - 1] = data[k]
         /\ \A b \in 0..LastBlock[I!Target] :
              b < lba \/ b > lba + Len(data) - 1 => blocks'[I!Target][b] = blocks[I!Target][b]
<1>1. PICK T \in Disks : T = I!Target
  BY TargetType
<1> DEFINE n == Len(data)
           top == LastBlock[T]
<1>2. lba \in Nat /\ data \in Seq(Sector) /\ n \in Nat /\ n \in 0..n /\ top \in Nat
  BY Constants DEF Data
<1>3. lba + n - 1 <= top
  BY <1>1 DEF Succeeds
<1>4. \A b \in 0..top : blocks'[T][b] = IF b \in lba..(lba + n - 1) THEN data[b - lba + 1]
                                        ELSE blocks[T][b]
  BY <1>1, <1>2, WrittenBlocks DEF IInv, Succeeds
<1> HIDE DEF n, top
<1>5. ASSUME NEW k \in 1..n PROVE blocks'[T][lba + k - 1] = data[k]
  <2>1. /\ lba + k - 1 \in 0..top /\ lba + k - 1 \in lba..(lba + n - 1)
        /\ (lba + k - 1) - lba + 1 = k
    BY <1>2, <1>3
  <2> QED BY <1>4, <2>1
<1>6. ASSUME NEW b \in 0..top, b < lba \/ b > lba + n - 1 PROVE blocks'[T][b] = blocks[T][b]
  BY <1>2, <1>4, <1>6
<1> QED BY <1>1, <1>5, <1>6 DEF n, top

Off == pc = "off" /\ UNCHANGED <<kernel, original>>

LEMMA WriteLabelInv == ASSUME IInv, Off, I!WriteLabel PROVE IInv'
<1> DEFINE data == <<Plain("label"), Plain("blank")>>
<1>1. screen \in {"label", "label_again"} /\ screen \in Writing /\ Outside
  BY DEF I!WriteLabel, I!WriteBlocks, I!choice, Writing, Off, Outside
<1>2. Data(0, data)
  BY PlainType DEF Data, Kinds, Its
<1>3. \/ Breaks(0, data)
      \/ /\ Succeeds(0, data) /\ UNCHANGED <<partitions, laid>>
         /\ screen' = IF screen = "label" THEN "mark" ELSE "mark_again"
  <2>1. I!WriteBlocks(0, data, /\ screen' = IF screen = "label" THEN "mark" ELSE "mark_again"
                               /\ UNCHANGED <<partitions, laid>>)
    BY SameSectors DEF I!WriteLabel
  <2>2. faults \in 0..MaxFaults /\ MaxFaults \in Nat
    BY Constants DEF IInv, TypeOK, I!TypeOK
  <2> HIDE DEF data
  <2> QED BY <2>1, <2>2 DEF I!WriteBlocks, I!Abort, Breaks, Succeeds
<1>4. CASE Breaks(0, data)
  BY <1>1, <1>2, <1>4, BreaksInv
<1>5. CASE /\ Succeeds(0, data) /\ UNCHANGED <<partitions, laid>>
           /\ screen' = IF screen = "label" THEN "mark" ELSE "mark_again"
  <2>1. TypeOK' /\ Shaped' /\ Chosen' /\ Wiped' /\ Reading' /\ Serving'
    <3>1. screen' \in (Writing \ {"label"}) \union {"copy"} /\ laid' \in BOOLEAN
      BY <1>5 DEF Writing, IInv, TypeOK, I!TypeOK
    <3>2. partitions' \in Seq([kind : Kinds, first : Nat, last : Nat])
      BY <1>5, SameSectors DEF IInv, TypeOK, I!TypeOK
    <3> HIDE DEF data
    <3> QED BY <1>1, <1>2, <1>5, <3>1, <3>2, SucceedsInv
  <2>2. Laid'
    <3>1. partitions' = <<>> /\ ~laid'
      BY <1>1, <1>5 DEF IInv, Laid
    <3>2. I!Target' = I!Target /\ I!Target \in Disks
      BY <1>1, TargetType DEF I!Target, Outside
    <3>3. blocks'[I!Target][0].kind = "label"
      <4>1. Len(data) = 2 /\ data[1].kind = "label" /\ 0 + 1 - 1 = 0
        BY PlainType DEF Kinds
      <4> HIDE DEF data
      <4>2. blocks'[I!Target][0 + 1 - 1] = data[1]
        BY <1>1, <1>2, <1>5, <4>1, WrittenAt
      <4> QED BY <4>1, <4>2
    <3>4. screen' \in {"mark", "mark_again"}
      BY <1>5
    <3> QED BY <3>1, <3>2, <3>3, <3>4 DEF Laid
  <2> QED BY <2>1, <2>2 DEF IInv
<1> QED BY <1>3, <1>4, <1>5

LEMMA WriteMarkInv == ASSUME IInv, Off, I!WriteMark PROVE IInv'
<1> DEFINE data == <<Plain("mark")>>
<1>1. screen \in {"mark", "mark_again"} /\ screen \in Writing /\ Outside
  BY DEF I!WriteMark, I!WriteBlocks, I!choice, Writing, Off, Outside
<1>2. I!Target' = I!Target /\ I!Target \in Disks
  BY <1>1, TargetType DEF I!Target, Outside
<1> DEFINE top == LastBlock[I!Target]
<1>3. top \in Nat
  BY <1>2, Constants
<1>4. Data(top, data)
  BY <1>1, <1>3, PlainType DEF Data, Kinds, Its
<1>5. \/ Breaks(top, data)
      \/ /\ Succeeds(top, data) /\ UNCHANGED <<partitions, laid>>
         /\ screen' = IF screen = "mark" THEN "label_again" ELSE "esp"
  <2>1. I!WriteBlocks(top, data, /\ screen' = IF screen = "mark" THEN "label_again" ELSE "esp"
                                 /\ UNCHANGED <<partitions, laid>>)
    BY SameSectors DEF I!WriteMark
  <2>2. faults \in 0..MaxFaults /\ MaxFaults \in Nat
    BY Constants DEF IInv, TypeOK, I!TypeOK
  <2> HIDE DEF data, top
  <2> QED BY <2>1, <2>2 DEF I!WriteBlocks, I!Abort, Breaks, Succeeds
<1>6. CASE Breaks(top, data)
  <2> HIDE DEF data, top
  <2> QED BY <1>1, <1>4, <1>6, BreaksInv
<1>7. CASE /\ Succeeds(top, data) /\ UNCHANGED <<partitions, laid>>
           /\ screen' = IF screen = "mark" THEN "label_again" ELSE "esp"
  <2>1. TypeOK' /\ Shaped' /\ Chosen' /\ Wiped' /\ Reading' /\ Serving'
    <3>1. screen' \in (Writing \ {"label"}) \union {"copy"} /\ laid' \in BOOLEAN
      BY <1>7 DEF Writing, IInv, TypeOK, I!TypeOK
    <3>2. partitions' \in Seq([kind : Kinds, first : Nat, last : Nat])
      BY <1>7, SameSectors DEF IInv, TypeOK, I!TypeOK
    <3> HIDE DEF data, top
    <3> QED BY <1>1, <1>4, <1>7, <3>1, <3>2, SucceedsInv
  <2>2. Laid'
    <3>1. partitions' = <<>> /\ ~laid'
      BY <1>1, <1>7 DEF IInv, Laid
    <3>2. screen' \in {"label_again", "esp"}
      BY <1>7
    <3>3. ASSUME screen = "mark_again", I!LargeEnough(I!Target)
          PROVE  blocks'[I!Target][0].kind = "label" /\ blocks'[I!Target][top].kind = "mark"
      <4>1. blocks[I!Target][0].kind = "label"
        BY <3>3 DEF IInv, Laid
      <4>2. 0 < top
        BY <1>2, <1>3, <3>3, Constants DEF I!LargeEnough
      <4>3. Len(data) = 1 /\ data[1].kind = "mark"
        BY PlainType DEF Kinds
      <4> HIDE DEF data, top
      <4>4. /\ \A k \in 1..Len(data) : blocks'[I!Target][top + k - 1] = data[k]
            /\ \A b \in 0..top : b < top \/ b > top + Len(data) - 1 =>
                 blocks'[I!Target][b] = blocks[I!Target][b]
        BY <1>1, <1>4, <1>7, WrittenAt DEF top
      <4>5. blocks'[I!Target][top + 1 - 1] = data[1] /\ top + 1 - 1 = top
        BY <1>3, <4>3, <4>4
      <4>6. blocks'[I!Target][0] = blocks[I!Target][0]
        BY <1>3, <4>2, <4>4
      <4> QED BY <4>1, <4>3, <4>5, <4>6
    <3>4. screen' = "esp" => screen = "mark_again"
      BY <1>1, <1>7
    <3> QED BY <1>2, <3>1, <3>2, <3>3, <3>4 DEF Laid, I!LargeEnough
  <2> QED BY <2>1, <2>2 DEF IInv
<1> QED BY <1>5, <1>6, <1>7

LEMMA PartitionsType == ASSUME TypeOK PROVE \A k \in DOMAIN partitions : partitions[k].first \in Nat
<1> DEFINE E == [kind : Kinds, first : Nat, last : Nat]
<1>1. partitions \in Seq(E)
  BY SameSectors DEF TypeOK, I!TypeOK
<1>2. ASSUME NEW e \in E PROVE e.first \in Nat
  OBVIOUS
<1> HIDE DEF E
<1>3. ASSUME NEW k \in DOMAIN partitions PROVE partitions[k] \in E
  BY <1>1
<1> QED BY <1>2, <1>3

(* CreatePartition, where it is called in its turn for blocks of its own.    *)
LEMMA CreateInv ==
  ASSUME IInv, Off, screen \in {"esp", "root", "home"}, NEW kind \in {"esp", "root", "home"},
         NEW first \in Nat, NEW last \in Nat, NEW next \in {"root", "home", "copy"},
         I!CreatePartition(kind, first, last, next), kind = "home" <=> next = "copy",
         next = "root" => Append(partitions, Entry(kind, first, last)) = First,
         next = "home" => Append(partitions, Entry(kind, first, last)) = Second,
         next = "copy" => /\ Append(partitions, Entry(kind, first, last)) = Third
                          /\ I!HomeBlocks(I!Target) > 0,
         I!LargeEnough(I!Target) =>
           /\ 0 < first /\ first < LastBlock[I!Target]
           /\ \A k \in DOMAIN partitions : partitions[k].first < first
  PROVE  IInv'
<1> DEFINE data == <<Plain(kind)>>
           new == Entry(kind, first, last)
           top == LastBlock[I!Target]
<1>1. screen \in Writing /\ Outside
  BY DEF I!CreatePartition, I!WriteBlocks, I!choice, Writing, Off, Outside
<1>2. I!Target' = I!Target /\ I!Target \in Disks /\ top \in Nat
  BY <1>1, TargetType, Constants DEF I!Target, Outside
<1>3. Data(first, data) /\ Len(data) = 1 /\ data[1].kind = kind
  BY <1>1, PlainType DEF Data, Kinds, Its
<1>4. \/ Breaks(first, data)
      \/ Succeeds(first, data) /\ partitions' = Append(partitions, new)
         /\ screen' = next /\ laid' = (kind = "home")
  <2>1. I!WriteBlocks(first, data, /\ partitions' = Append(partitions, new)
                                   /\ screen' = next /\ laid' = (kind = "home"))
    BY SameSectors DEF I!CreatePartition, Entry
  <2>2. faults \in 0..MaxFaults /\ MaxFaults \in Nat
    BY Constants DEF IInv, TypeOK, I!TypeOK
  <2> HIDE DEF data, new
  <2> QED BY <2>1, <2>2 DEF I!WriteBlocks, I!Abort, Breaks, Succeeds
<1>5. CASE Breaks(first, data)
  <2> HIDE DEF data
  <2> QED BY <1>1, <1>3, <1>5, BreaksInv
<1>6. CASE Succeeds(first, data) /\ partitions' = Append(partitions, new)
           /\ screen' = next /\ laid' = (kind = "home")
  <2>1. partitions \in Seq([kind : Kinds, first : Nat, last : Nat])
    BY SameSectors DEF IInv, TypeOK, I!TypeOK
  <2>2. TypeOK' /\ Shaped' /\ Chosen' /\ Wiped' /\ Reading' /\ Serving'
    <3>1. screen' \in (Writing \ {"label"}) \union {"copy"} /\ laid' \in BOOLEAN
      BY <1>6 DEF Writing
    <3>2. new \in [kind : Kinds, first : Nat, last : Nat]
      BY DEF Kinds, Entry
    <3> HIDE DEF data, new
    <3>3. partitions' \in Seq([kind : Kinds, first : Nat, last : Nat])
      BY <1>6, <2>1, <3>2
    <3> QED BY <1>1, <1>3, <1>6, <3>1, <3>3, SucceedsInv
  <2>3. Laid'
    <3>1. /\ screen' = "root" => partitions' = First
          /\ screen' = "home" => partitions' = Second
          /\ laid' => screen' = "copy" /\ partitions' = Third /\ I!HomeBlocks(I!Target) > 0
      BY <1>6
    <3>2. Third' = Third /\ I!HomeBlocks(I!Target)' = I!HomeBlocks(I!Target)
      BY <1>2 DEF Third, I!HomeBlocks
    <3>3. ASSUME I!LargeEnough(I!Target)
          PROVE  /\ blocks'[I!Target][0].kind = "label" /\ blocks'[I!Target][top].kind = "mark"
                 /\ \A k \in DOMAIN partitions' :
                      blocks'[I!Target][partitions'[k].first].kind = partitions'[k].kind
      <4>1. /\ blocks[I!Target][0].kind = "label" /\ blocks[I!Target][top].kind = "mark"
            /\ \A k \in DOMAIN partitions :
                 blocks[I!Target][partitions[k].first].kind = partitions[k].kind
        BY <3>3 DEF IInv, Laid
      <4>2. 0 < first /\ first < top /\ \A k \in DOMAIN partitions : partitions[k].first < first
        BY <3>3
      <4> HIDE DEF data, top
      <4>3. /\ \A k \in 1..Len(data) : blocks'[I!Target][first + k - 1] = data[k]
            /\ \A b \in 0..top : b < first \/ b > first + Len(data) - 1 =>
                 blocks'[I!Target][b] = blocks[I!Target][b]
        BY <1>1, <1>3, <1>6, WrittenAt DEF top
      <4>4. blocks'[I!Target][first + 1 - 1] = data[1] /\ first + 1 - 1 = first
        BY <1>3, <4>3
      <4>5. \A b \in 0..top : b # first => blocks'[I!Target][b] = blocks[I!Target][b]
        BY <1>2, <1>3, <4>3
      <4>6. blocks'[I!Target][0].kind = "label" /\ blocks'[I!Target][top].kind = "mark"
        BY <1>2, <4>1, <4>2, <4>5
      <4>7. ASSUME NEW k \in DOMAIN partitions'
            PROVE  blocks'[I!Target][partitions'[k].first].kind = partitions'[k].kind
        <5>1. k \in 1..Len(partitions) \/ k = Len(partitions) + 1
          BY <1>6, <2>1
        <5>2. CASE k \in 1..Len(partitions)
          <6>1. partitions'[k] = partitions[k] /\ k \in DOMAIN partitions
            BY <1>6, <2>1, <5>2
          <6>2. partitions[k].first \in Nat
            BY <5>2, <6>1, PartitionsType DEF IInv
          <6>3. partitions[k].first \in 0..top /\ partitions[k].first # first
            BY <1>2, <4>2, <6>1, <6>2
          <6> QED BY <4>1, <4>5, <6>1, <6>3
        <5>3. CASE k = Len(partitions) + 1
          <6>1. partitions'[k] = new
            BY <1>6, <2>1, <5>3
          <6>2. new.first = first /\ new.kind = kind
            BY DEF Entry
          <6> QED BY <1>3, <4>4, <6>1, <6>2
        <5> QED BY <5>1, <5>2, <5>3
      <4> QED BY <4>6, <4>7
    <3>4. screen' \in {"root", "home", "copy"}
      BY <1>6
    <3> HIDE DEF data, new
    <3> QED BY <1>2, <3>1, <3>2, <3>3, <3>4 DEF Laid, I!LargeEnough
  <2> QED BY <2>2, <2>3 DEF IInv
<1> QED BY <1>4, <1>5, <1>6

LEMMA CreateESPInv == ASSUME IInv, Off, I!CreateESP PROVE IInv'
<1>1. screen = "esp" /\ I!CreatePartition("esp", 2, 2 + ESPBlocks - 1, "root")
  BY DEF I!CreateESP
<1>2. partitions = <<>> /\ I!Target \in Disks
  BY <1>1, TargetType DEF IInv, Laid, Writing
<1>3. Append(partitions, Entry("esp", 2, 2 + ESPBlocks - 1)) = First
  BY <1>2 DEF First
<1>4. ESPBlocks \in Nat \ {0} /\ RootBlocks \in Nat \ {0} /\ Reserved \in Nat /\ Reserved > 2
      /\ LastBlock[I!Target] \in Nat
  BY <1>2, Constants
<1>5. 2 + ESPBlocks - 1 \in Nat /\ (I!LargeEnough(I!Target) => 2 < LastBlock[I!Target])
  BY <1>4 DEF I!LargeEnough
<1> QED BY <1>1, <1>2, <1>3, <1>5, CreateInv

LEMMA CreateRootInv == ASSUME IInv, Off, I!CreateRoot PROVE IInv'
<1>1. /\ screen = "root"
      /\ I!CreatePartition("root", 2 + ESPBlocks, 2 + ESPBlocks + RootBlocks - 1, "home")
  BY DEF I!CreateRoot
<1>2. partitions = First /\ I!Target \in Disks
  BY <1>1, TargetType DEF IInv, Laid, Writing
<1>3. Append(partitions, Entry("root", 2 + ESPBlocks, 2 + ESPBlocks + RootBlocks - 1)) = Second
  BY <1>2 DEF Second
<1>4. ESPBlocks \in Nat \ {0} /\ RootBlocks \in Nat \ {0} /\ Reserved \in Nat /\ Reserved > 2
      /\ LastBlock[I!Target] \in Nat
  BY <1>2, Constants
<1>5. /\ 2 + ESPBlocks \in Nat /\ 2 + ESPBlocks + RootBlocks - 1 \in Nat /\ 0 < 2 + ESPBlocks
      /\ I!LargeEnough(I!Target) => 2 + ESPBlocks < LastBlock[I!Target]
  BY <1>4 DEF I!LargeEnough
<1>6. \A k \in DOMAIN partitions : partitions[k].first < 2 + ESPBlocks
  BY <1>2, <1>4 DEF First, Entry
<1> QED BY <1>1, <1>3, <1>5, <1>6, CreateInv

(* On a disk that is large enough nothing wraps, and there is room.          *)
LEMMA HomeFits ==
  ASSUME NEW d \in Disks
  PROVE  /\ I!HomeBlocks(d) \in Nat
         /\ I!LargeEnough(d) => I!HomeBlocks(d) = LastBlock[d] - Reserved - ESPBlocks - RootBlocks
<1> DEFINE x == LastBlock[d] - Reserved - ESPBlocks - RootBlocks
<1>1. /\ x \in Int /\ Wrap \in Nat \ {0} /\ x < Wrap
      /\ I!LargeEnough(d) => x \in Nat
  BY Constants DEF I!LargeEnough
<1>2. I!HomeBlocks(d) = x % Wrap
  BY DEF I!HomeBlocks
<1> HIDE DEF x
<1>3. x % Wrap \in Nat
  BY <1>1
<1>4. x \in Nat => x % Wrap = x
  BY <1>1
<1> QED BY <1>1, <1>2, <1>3, <1>4 DEF x

LEMMA CreateHomeInv == ASSUME IInv, Off, I!CreateHome PROVE IInv'
<1> DEFINE n == I!HomeBlocks(I!Target)
           first == 2 + ESPBlocks + RootBlocks
<1>1. /\ screen = "home"
      /\ \/ n > 0 /\ I!CreatePartition("home", first, first + n - 1, "copy")
         \/ /\ n = 0 /\ screen' = "copy" /\ laid' = TRUE
            /\ UNCHANGED <<I!choice, partitions, blocks, faults>>
  BY DEF I!CreateHome
<1>2. partitions = Second /\ I!Target \in Disks /\ confirmed /\ ~laid
  BY <1>1, TargetType DEF IInv, Laid, Chosen, Writing
<1>3. n \in Nat
  BY <1>2, HomeFits
<1>4. CASE n > 0 /\ I!CreatePartition("home", first, first + n - 1, "copy")
  <2>1. Append(partitions, Entry("home", first, first + n - 1)) = Third /\ n > 0
    BY <1>2, <1>4 DEF Third
  <2>2. ESPBlocks \in Nat \ {0} /\ RootBlocks \in Nat \ {0} /\ Reserved \in Nat /\ Reserved > 2
        /\ LastBlock[I!Target] \in Nat
    BY <1>2, Constants
  <2>3. first \in Nat /\ 0 < first /\ (I!LargeEnough(I!Target) => first < LastBlock[I!Target])
    BY <2>2 DEF I!LargeEnough
  <2>4. \A k \in DOMAIN partitions : partitions[k].first < first
    BY <1>2, <2>2 DEF First, Second, Entry
  <2> HIDE DEF n
  <2>5. first + n - 1 \in Nat
    BY <1>3, <1>4, <2>3
  <2>6. I!HomeBlocks(I!Target) > 0
    BY <2>1 DEF n
  <2> HIDE DEF first
  <2> QED BY <1>1, <1>4, <2>6, <2>1, <2>3, <2>4, <2>5, CreateInv
<1>5. CASE /\ n = 0 /\ screen' = "copy" /\ laid' = TRUE
           /\ UNCHANGED <<I!choice, partitions, blocks, faults>>
  <2>1. Outside /\ UNCHANGED <<blocks, partitions, faults>> /\ screen' = "copy" /\ laid' = TRUE
    BY <1>5 DEF I!choice, Outside, Off
  <2>2. TypeOK'
    <3>1. I!TypeOK'
      BY <2>1 DEF IInv, TypeOK, I!TypeOK, I!Screens, Outside
    <3> QED BY <2>1, <3>1, KernelOff DEF IInv, TypeOK, Outside
  <2>3. Shaped'
    BY <2>1 DEF IInv, Shaped, Outside
  <2>4. Chosen'
    BY <1>1, <2>1 DEF IInv, Chosen, Outside
  <2>5. Laid'
    <3>1. I!Target' = I!Target
      BY <2>1 DEF I!Target, Outside
    <3>2. I!HomeBlocks(I!Target)' = I!HomeBlocks(I!Target)
      BY <3>1 DEF I!HomeBlocks
    <3> QED BY <1>1, <1>2, <1>5, <2>1, <3>1, <3>2 DEF IInv, Laid, I!LargeEnough
  <2>6. Wiped'
    BY <2>1, DiskNow DEF IInv, Wiped, Outside
  <2> QED BY <2>1, <2>2, <2>3, <2>4, <2>5, <2>6, KernelOff DEF IInv, Outside
<1> QED BY <1>1, <1>4, <1>5

(* The screens that write nothing.                                           *)
LEMMA ScreenInv ==
  ASSUME IInv, Off, I!TypeOK', UNCHANGED <<blocks, located>>, Chosen', Laid',
         screen' \in {"start", "disk", "summary", "label"} =>
           screen \in {"start", "disk", "summary", "label"},
         screen' \notin Writing \ {"label"}
  PROVE  IInv'
<1>1. TypeOK'
  BY KernelOff DEF IInv, TypeOK, Off
<1>2. Shaped'
  BY DEF IInv, Shaped, Off
<1>3. Wiped'
  BY DiskNow DEF IInv, Wiped, Off, Writing
<1> QED BY <1>1, <1>2, <1>3, KernelOff DEF IInv, Off

LEMMA DetectDisksInv == ASSUME IInv, Off, I!DetectDisks PROVE IInv'
<1>1. /\ screen = "start" /\ disks' = I!Listing(handles) /\ screen' \in {"exited", "disk"}
      /\ UNCHANGED <<handles, located, selected, partitions, blocks, typed, confirmed, laid, faults>>
  BY DEF I!DetectDisks
<1>2. ~laid
  BY <1>1 DEF IInv, Laid
<1>3. I!TypeOK'
  BY <1>1, ListingType DEF IInv, TypeOK, I!TypeOK, I!Screens
<1>4. Chosen'
  BY <1>1, <1>2 DEF Chosen
<1>5. Laid'
  BY <1>1, <1>2 DEF IInv, Laid
<1> QED BY <1>1, <1>3, <1>4, <1>5, ScreenInv DEF Writing

LEMMA SelectDiskInv == ASSUME IInv, Off, I!SelectDisk PROVE IInv'
<1>1. /\ screen = "disk" /\ typed' \in 0..(Len(disks) + 1)
      /\ \/ typed' \in 1..Len(disks) /\ screen' = "summary" /\ selected' = typed' - 1
         \/ UNCHANGED <<screen, selected>>
      /\ UNCHANGED <<handles, located, disks, partitions, blocks, confirmed, laid, faults>>
  BY DEF I!SelectDisk
<1>2. ~laid
  BY <1>1 DEF IInv, Laid
<1>3. disks \in Seq(Disks) /\ Len(disks) \in Nat
  BY DEF IInv, TypeOK, I!TypeOK
<1>4. I!TypeOK'
  <2>1. selected' \in Nat /\ typed' \in Nat
    BY <1>1, <1>3 DEF IInv, TypeOK, I!TypeOK
  <2> QED BY <1>1, <2>1 DEF IInv, TypeOK, I!TypeOK, I!Screens
<1>5. Chosen'
  BY <1>1, <1>2, <1>3 DEF IInv, Chosen
<1>6. Laid'
  BY <1>1, <1>2 DEF IInv, Laid
<1> QED BY <1>1, <1>4, <1>5, <1>6, ScreenInv DEF Writing

LEMMA SummaryInv == ASSUME IInv, Off, I!Summary PROVE IInv'
<1>1. /\ screen = "summary"
      /\ \/ screen' = "label" /\ confirmed' = TRUE
         \/ screen' = "exited" /\ UNCHANGED confirmed
      /\ UNCHANGED <<handles, located, disks, selected, partitions, blocks, typed, laid, faults>>
  BY DEF I!Summary
<1>2. ~laid
  BY <1>1 DEF IInv, Laid
<1>3. I!TypeOK'
  BY <1>1 DEF IInv, TypeOK, I!TypeOK, I!Screens
<1>4. Chosen'
  BY <1>1, <1>2 DEF IInv, Chosen
<1>5. Laid'
  BY <1>1, <1>2 DEF IInv, Laid
<1> QED BY <1>1, <1>3, <1>4, <1>5, ScreenInv DEF Writing

(* A block of the located volume becomes part of a file.                     *)
LEMMA FileWritten ==
  ASSUME IInv, NEW v \in located, NEW b \in I!Behind(v),
         blocks' = [blocks EXCEPT ![v[1]] = [@ EXCEPT ![b] = I!Plain("file")]]
  PROVE  /\ blocks' = [d \in Disks |-> blocks'[d]]
         /\ \A d \in Disks : blocks'[d] \in [0..LastBlock[d] -> Sector]
         /\ v[1] \in Disks /\ \A d \in Disks \ {v[1]} : blocks'[d] = blocks[d]
         /\ \A c \in 0..LastBlock[v[1]] :
              \/ c # b /\ blocks'[v[1]][c] = blocks[v[1]][c]
              \/ c = b /\ blocks'[v[1]][c].kind = "file"
<1>1. PICK e \in Disks : e = v[1] /\ v[2] \in Nat
  BY DEF IInv, TypeOK, I!TypeOK
<1>2. \A d \in Disks : blocks[d] \in [0..LastBlock[d] -> Sector]
  BY BlocksType DEF IInv
<1>3. LastBlock[e] \in Nat /\ b \in 0..LastBlock[e]
  BY <1>1, Constants DEF I!Behind
<1>4. PICK file \in Sector : file = I!Plain("file") /\ file.kind = "file"
  BY PlainType, SameSectors DEF Kinds
<1> DEFINE f == [blocks[e] EXCEPT ![b] = file]
<1>5. f \in [0..LastBlock[e] -> Sector] /\ f[b] = file
      /\ \A c \in 0..LastBlock[e] : c # b => f[c] = blocks[e][c]
  BY <1>1, <1>2, <1>3
<1>6. blocks' = [blocks EXCEPT ![e] = f]
  BY <1>1, <1>4
<1> HIDE DEF f
<1>7. DOMAIN blocks = Disks
  BY DEF IInv, Shaped
<1>8. /\ blocks' = [d \in Disks |-> blocks'[d]] /\ blocks'[e] = f
      /\ \A d \in Disks \ {e} : blocks'[d] = blocks[d]
  BY <1>6, <1>7
<1> QED BY <1>1, <1>2, <1>4, <1>5, <1>8

LEMMA WriteFileInv ==
  ASSUME IInv, Off, I!WriteFile, screen \in {"copy", "loader"}, UNCHANGED <<I!choice, faults>>
  PROVE  IInv'
<1>1. /\ UNCHANGED <<screen, handles, located, disks, selected, typed, confirmed, partitions, laid>>
      /\ UNCHANGED <<faults, kernel, original>> /\ pc = "off"
  BY DEF I!WriteFile, I!choice, Off
<1>2. PICK v \in located : \E b \in I!Behind(v) :
        blocks' = [blocks EXCEPT ![v[1]] = [@ EXCEPT ![b] = I!Plain("file")]]
  BY DEF I!WriteFile
<1>3. PICK b \in I!Behind(v) :
        blocks' = [blocks EXCEPT ![v[1]] = [@ EXCEPT ![b] = I!Plain("file")]]
  BY <1>2
<1>4. /\ blocks' = [d \in Disks |-> blocks'[d]]
      /\ \A d \in Disks : blocks'[d] \in [0..LastBlock[d] -> Sector]
      /\ v[1] \in Disks /\ \A d \in Disks \ {v[1]} : blocks'[d] = blocks[d]
      /\ \A c \in 0..LastBlock[v[1]] :
           \/ c # b /\ blocks'[v[1]][c] = blocks[v[1]][c]
           \/ c = b /\ blocks'[v[1]][c].kind = "file"
  BY <1>3, FileWritten
<1>5. TypeOK'
  <2>1. I!TypeOK'
    BY <1>1, <1>4, SameSectors DEF IInv, TypeOK, I!TypeOK
  <2> QED BY <1>1, <2>1, KernelOff DEF IInv, TypeOK
<1>6. Shaped' /\ Chosen'
  BY <1>1, <1>4 DEF IInv, Shaped, Chosen
<1>7. Laid'
  <2>1. I!Target' = I!Target /\ Third' = Third /\ I!HomeBlocks(I!Target)' = I!HomeBlocks(I!Target)
    BY <1>1 DEF I!Target, Third, I!HomeBlocks
  <2>2. ASSUME laid, I!Elsewhere(I!Target) PROVE blocks'[I!Target] = blocks[I!Target]
    <3>1. I!Target \in Disks
      BY <2>2, TargetType
    <3> QED BY <1>2, <1>4, <2>2, <3>1 DEF I!Elsewhere
  <2> QED BY <1>1, <2>1, <2>2 DEF IInv, Laid, I!LargeEnough, I!Elsewhere
<1>8. Wiped'
  <2>1. ASSUME NEW d \in Disks PROVE Untouched(d)' \/ FirstOnly(d)' \/ Begun(d)'
    <3>1. CASE d # v[1]
      BY <1>1, <1>4, <3>1, DiskNow DEF IInv, Wiped
    <3>2. CASE d = v[1]
      <4>1. LastBlock[d] \in Nat /\ b \in 0..LastBlock[d]
        <5>1. v[2] \in Nat /\ LastBlock[d] \in Nat
          BY Constants DEF IInv, TypeOK, I!TypeOK
        <5> QED BY <3>2, <5>1 DEF I!Behind
      <4>2. ASSUME NEW c \in 0..LastBlock[d], Kept(d, c) PROVE Kept(d, c)'
        <5>1. CASE c # b
          BY <1>1, <1>4, <3>2, <4>2, <5>1, KeptNow
        <5>2. CASE c = b
          BY <1>1, <1>2, <1>4, <3>2, <5>2 DEF Kept, I!Behind
        <5> QED BY <5>1, <5>2
      <4>3. ASSUME NEW c \in 0..LastBlock[d], blocks[d][c].kind \in Its
            PROVE  blocks'[d][c].kind \in Its
        BY <1>4, <3>2, <4>3 DEF Its
      <4>4. Untouched(d) => Untouched(d)'
        BY <4>2 DEF Untouched
      <4>5. FirstOnly(d) => FirstOnly(d)'
        <5>1. 0 \in 0..LastBlock[d] /\ \A c \in 1..LastBlock[d] : c \in 0..LastBlock[d]
          BY <4>1
        <5> QED BY <4>2, <4>3, <5>1 DEF FirstOnly
      <4>6. Begun(d) => Begun(d)'
        <5>1. LastBlock[d] >= 1 => 0 \in 0..LastBlock[d] /\ 1 \in 0..LastBlock[d]
          BY <4>1
        <5> QED BY <4>3, <5>1 DEF Begun
      <4> QED BY <4>4, <4>5, <4>6 DEF IInv, Wiped
    <3> QED BY <3>1, <3>2
  <2> QED BY <1>1, <2>1 DEF Wiped
<1> QED BY <1>1, <1>5, <1>6, <1>7, <1>8, KernelOff DEF IInv

LEMMA LastScreensInv ==
  ASSUME IInv, Off, I!CopySystemFiles \/ I!InstallEfiBootloader \/ I!Finish
  PROVE  IInv'
<1>1. screen \in {"copy", "loader", "complete"} /\ UNCHANGED <<I!choice, faults>>
  BY DEF I!CopySystemFiles, I!InstallEfiBootloader, I!Finish
<1>2. CASE I!WriteFile /\ screen \in {"copy", "loader"}
  BY <1>1, <1>2, WriteFileInv
<1>3. CASE /\ screen' \in {"loader", "complete", "exited"}
           /\ UNCHANGED <<partitions, laid, blocks>>
  <2>1. UNCHANGED <<handles, located, disks, selected, typed, confirmed, partitions, laid, blocks,
                    faults>>
    BY <1>1, <1>3 DEF I!choice
  <2>2. screen' = "loader" => screen = "copy" \/ screen = "loader"
    BY <1>1, <1>3 DEF I!CopySystemFiles, I!InstallEfiBootloader, I!Finish, I!Abort
  <2>3. I!Target' = I!Target
    BY <2>1 DEF I!Target
  <2>4. I!TypeOK'
    BY <1>1, <1>3, <2>1 DEF IInv, TypeOK, I!TypeOK, I!Screens
  <2>5. Chosen'
    BY <1>1, <1>3, <2>1, <2>2 DEF IInv, Chosen
  <2>6. Laid'
    BY <1>1, <1>3, <2>1, <2>3 DEF IInv, Laid, Third, I!HomeBlocks, I!LargeEnough, I!Elsewhere
  <2> QED BY <1>1, <1>3, <2>1, <2>4, <2>5, <2>6, ScreenInv DEF Writing
<1> QED BY <1>1, <1>2, <1>3 DEF I!CopySystemFiles, I!InstallEfiBootloader, I!Finish, I!Abort

LEMMA InstallInv == ASSUME IInv, Install PROVE IInv'
<1>1. Off /\ I!Next
  BY DEF Install, Off
<1> QED BY <1>1, DetectDisksInv, SelectDiskInv, SummaryInv, WriteLabelInv, WriteMarkInv,
        CreateESPInv, CreateRootInv, CreateHomeInv, LastScreensInv DEF I!Next

LEMMA InitInv == Init => IInv
<1> SUFFICES ASSUME Init PROVE IInv
  OBVIOUS
<1>1. /\ screen = "start" /\ handles \in Machines /\ disks = <<>> /\ selected = 0
      /\ partitions = <<>> /\ typed = 0 /\ confirmed = FALSE /\ laid = FALSE /\ faults = 0
  BY DEF Init, I!Init
<1>2. /\ pc = "off" /\ registered = <<>> /\ mounts = <<>> /\ allocated = FALSE
      /\ buffer = Plain("blank") /\ i = 0 /\ gpt_result = 0 /\ volume = M!NoVolume
      /\ asked = "none" /\ result = 0
      /\ drive = <<>> /\ calls = 0 /\ troubles = 0 /\ troubled = FALSE
  BY SameSectors DEF Init, M!Init
<1>3. /\ blocks = [d \in Disks |-> blocks[d]] /\ original = blocks
      /\ \A d \in Disks : blocks[d] \in Images /\ DOMAIN blocks[d] = 0..LastBlock[d]
  BY DEF Init
<1>4. \A d \in Disks : blocks[d] \in [0..LastBlock[d] -> Sector]
  <2> TAKE d \in Disks
  <2>1. PICK e \in Disks : blocks[d] \in [0..LastBlock[e] -> Sector]
    BY <1>3, MachineAssumption
  <2>2. DOMAIN blocks[d] = 0..LastBlock[e]
    BY <2>1
  <2> QED BY <1>3, <2>1, <2>2
<1>5. I!TypeOK
  <2>0. located \subseteq Disks \X Nat
    <3>1. I!Volumes \subseteq Disks \X Nat
      BY DEF I!Volumes
    <3> QED BY <3>1 DEF Init, I!Init
  <2>1. handles \in Seq(I!Handle)
    BY <1>1, MachineAssumption DEF I!InstallerAssumption
  <2>2. disks \in Seq(Disks) /\ Len(disks) <= MaxDisks
    BY <1>1, Constants
  <2>3. partitions \in Seq([kind : I!Kinds, first : Nat, last : Nat])
    BY <1>1
  <2>4. screen \in I!Screens /\ selected \in Nat /\ typed \in Nat /\ faults \in 0..MaxFaults
    BY <1>1, Constants DEF I!Screens
  <2> QED BY <1>1, <1>4, <2>0, <2>1, <2>2, <2>3, <2>4, SameSectors DEF I!TypeOK
<1>6. M!TypeOK
  <2>1. M!NoVolume \in [start : Nat, bs : M!Kinds, geometry : M!Kinds]
    BY DEF M!NoVolume, M!Kinds
  <2>2. buffer \in M!Sector
    BY <1>2, PlainType, SameSectors DEF Kinds
  <2>3. calls \in 0..MaxCalls /\ troubles \in 0..MaxTroubles /\ Len(mounts) <= MaxMounts
    BY <1>2, Constants
  <2>4. /\ registered \in Seq({"ext4", "fat32"}) /\ mounts \in Seq({"fat32"})
        /\ drive \in Seq(M!Sector) /\ Len(drive) <= 1
    BY <1>2
  <2>5. gpt_result \in -3..0 /\ result \in -3..0 /\ i \in Nat
    BY <1>2
  <2> QED BY <1>2, <2>1, <2>2, <2>3, <2>4, <2>5 DEF M!TypeOK
<1>7. TypeOK
  BY <1>3, <1>4, <1>5, <1>6 DEF TypeOK
<1>8. Shaped
  BY <1>3 DEF Shaped
<1>9. Chosen /\ Laid
  BY <1>1 DEF Chosen, Laid
<1>10. Wiped
  BY <1>1, <1>3 DEF Wiped, Untouched, Kept
<1>11. Reading /\ Serving
  BY <1>2 DEF Reading, Serving, Scanning
<1> QED BY <1>7, <1>8, <1>9, <1>10, <1>11 DEF IInv

-----------------------------------------------------------------------------
(* fat32_parse_gpt is led the same way every time.                           *)
LEMMA TrailsAgree ==
  ASSUME NEW n \in Nat, NEW m \in Nat, NEW t, NEW u, Trail(n, t), Trail(m, u), n <= m
  PROVE  t[n] = u[n]
<1> DEFINE S == {k \in Nat : k <= n => t[k] = u[k]}
<1>1. 0 \in S
  BY DEF Trail
<1>2. ASSUME NEW k \in S, k < n PROVE k + 1 \in S
  <2>1. k \in 0..(n - 1) /\ k \in 0..(m - 1) /\ t[k] = u[k]
    BY <1>2
  <2>2. t[k + 1] = u[k + 1]
    BY <2>1 DEF Trail
  <2> QED BY <2>1, <2>2
<1>3. S \in SUBSET Nat
  OBVIOUS
<1>4. n \in S
  <2> HIDE DEF S
  <2>1. 0..n \subseteq S
    BY <1>1, <1>2, <1>3, Upto
  <2> QED BY <2>1
<1> QED BY <1>4

Stops(n, t, s) ==
  \/ n >= t[n].entries /\ s = 0
  \/ n < t[n].entries /\ Found(t[n], n) /\ s = D[Place1(t[n], n)].starts[Index(t[n], n)]

LEMMA StopsOnce ==
  ASSUME NEW n \in Nat, NEW m \in Nat, NEW t, NEW u, Trail(n, t), Trail(m, u), n < m, NEW s
  PROVE  ~Stops(n, t, s)
<1>1. t[n] = u[n] /\ n \in 0..(m - 1)
  BY TrailsAgree
<1>2. n < t[n].entries /\ ~Found(t[n], n)
  BY <1>1 DEF Trail
<1>3. t[n].entries \in Nat
  BY DEF Trail, Sector
<1> QED BY <1>2, <1>3 DEF Stops

LEMMA LeadsOnce == ASSUME NEW a, NEW b, LeadsTo(a), LeadsTo(b) PROVE a = b
<1>1. CASE ~Headed
  BY <1>1 DEF LeadsTo
<1>2. CASE Headed
  <2>0. PICK n \in Nat : \E t : Trail(n, t) /\ Stops(n, t, a)
    BY <1>2 DEF LeadsTo, Stops
  <2>1. PICK t : Trail(n, t) /\ Stops(n, t, a)
    BY <2>0
  <2>00. PICK m \in Nat : \E u : Trail(m, u) /\ Stops(m, u, b)
    BY <1>2 DEF LeadsTo, Stops
  <2>2. PICK u : Trail(m, u) /\ Stops(m, u, b)
    BY <2>00
  <2>3. ~(n < m) /\ ~(m < n)
    BY <2>1, <2>2, StopsOnce
  <2>4. n = m
    BY <2>3
  <2>5. t[n] = u[n] /\ t[n].entries \in Nat
    <3>1. t[n] = u[n]
      BY <2>1, <2>2, <2>4, TrailsAgree
    <3>2. t[n] \in Sector
      BY <2>1 DEF Trail
    <3> QED BY <3>1, <3>2 DEF Sector
  <2> QED BY <2>1, <2>2, <2>4, <2>5 DEF Stops
<1> QED BY <1>1, <1>2

(* The trail goes on by one entry.                                           *)
LEMMA TrailGrows ==
  ASSUME NEW n \in Nat, NEW t, Trail(n, t), n < t[n].entries, ~Found(t[n], n), NEW s \in Sector,
         s = IF Place1(t[n], n) \in DOMAIN D THEN D[Place1(t[n], n)] ELSE t[n]
  PROVE  \E u : Trail(n + 1, u) /\ u[n + 1] = s
<1> DEFINE u == [k \in 0..(n + 1) |-> IF k = n + 1 THEN s ELSE t[k]]
<1>1. t \in [0..n -> Sector] /\ t[0] = D[1]
  BY DEF Trail
<1>2. u \in [0..(n + 1) -> Sector] /\ u[0] = D[1] /\ u[n + 1] = s
  BY <1>1
<1>3. \A k \in 0..n : u[k] = t[k]
  OBVIOUS
<1> HIDE DEF u
<1>4. ASSUME NEW k \in 0..((n + 1) - 1)
      PROVE  /\ k < u[k].entries /\ ~Found(u[k], k)
             /\ u[k + 1] = IF Place1(u[k], k) \in DOMAIN D THEN D[Place1(u[k], k)] ELSE u[k]
  <2>1. u[k] = t[k]
    BY <1>3
  <2>2. CASE k = n
    BY <1>2, <2>1, <2>2
  <2>3. CASE k # n
    <3>1. k \in 0..(n - 1) /\ u[k + 1] = t[k + 1]
      BY <1>3, <2>3
    <3> QED BY <2>1, <3>1 DEF Trail
  <2> QED BY <2>2, <2>3
<1>5. Trail(n + 1, u)
  BY <1>2, <1>4 DEF Trail
<1> QED BY <1>2, <1>5

Still == UNCHANGED <<installer, blocks, original>>

LEMMA TrailNow ==
  ASSUME Still, NEW n, NEW t, Trail(n, t)
  PROVE  Trail(n, t)' /\ (Headed' <=> Headed)
<1>1. D' = D
  BY DEF Still, D
<1>2. Headed' <=> Headed
  BY <1>1 DEF Headed
<1>3. \A q, k : Place1(q, k)' = Place1(q, k) /\ (Found(q, k)' <=> Found(q, k))
  BY <1>1 DEF Place1, Index, Found, M!Reached
<1> QED BY <1>1, <1>2, <1>3 DEF Trail, Place1, Index, Found, M!Reached

LEMMA LedNow == ASSUME Still, NEW s, LeadsTo(s), volume'.start = s PROVE Led'
<1>1. D' = D
  BY DEF Still, D
<1>2. CASE ~Headed
  BY <1>1, <1>2 DEF Led, LeadsTo, Headed
<1>3. CASE Headed
  <2>0. PICK n \in Nat : \E t : Trail(n, t) /\ Stops(n, t, s)
    BY <1>3 DEF LeadsTo, Stops
  <2>1. PICK t : Trail(n, t) /\ Stops(n, t, s)
    BY <2>0
  <2>2. Trail(n, t)' /\ Headed'
    BY <1>3, <2>1, TrailNow
  <2>3. Stops(n, t, s)'
    BY <1>1, <2>1 DEF Stops, Found, Place1, Index, M!Reached
  <2> QED BY <2>2, <2>3 DEF Led, LeadsTo, Stops
<1> QED BY <1>2, <1>3

LEMMA OnTrailNow ==
  ASSUME Still, Headed, NEW n, NEW t, Trail(n, t), i' = n, buffer' = t[n]
  PROVE  OnTrail'
BY TrailNow DEF OnTrail

LEMMA KernelInv == ASSUME IInv, Still, M!TypeOK', Reading', Serving' PROVE IInv'
<1> USE DEF Still, installer
<1>1. I!Target' = I!Target
  BY DEF I!Target
<1>2. TypeOK'
  BY DEF IInv, TypeOK, I!TypeOK
<1>3. Shaped' /\ Chosen'
  BY DEF IInv, Shaped, Chosen
<1>4. Laid'
  BY <1>1 DEF IInv, Laid, Third, I!HomeBlocks, I!LargeEnough, I!Elsewhere
<1>5. Wiped'
  BY <1>1, DiskNow DEF IInv, Wiped
<1> QED BY <1>2, <1>3, <1>4, <1>5 DEF IInv

LEMMA KernelTypes ==
  ASSUME IInv
  PROVE  /\ pc \in {"off", "halted", "shell", "identify", "header", "entries", "boot_sector"}
         /\ registered \in Seq({"ext4", "fat32"})
         /\ mounts \in Seq({"fat32"}) /\ Len(mounts) <= MaxMounts
         /\ allocated \in BOOLEAN /\ buffer \in Sector /\ i \in Nat /\ gpt_result \in -3..0
         /\ volume \in [start : Nat, bs : Kinds, geometry : Kinds]
         /\ asked \in {"none", "fat32", "ext4"} /\ result \in -3..0
         /\ drive \in Seq(Sector) /\ Len(drive) <= 1
         /\ calls \in 0..MaxCalls /\ troubles \in 0..MaxTroubles /\ troubled \in BOOLEAN
BY SameSectors DEF IInv, TypeOK, M!TypeOK

LEMMA KernelStartInv == ASSUME IInv, Still, M!KernelStart PROVE IInv'
<1>1. /\ pc = "off" /\ pc' \in {"halted", "shell"}
      /\ \/ UNCHANGED registered
         \/ registered' = M!Register(M!Register(<<>>, "ext4"), "fat32")
      /\ UNCHANGED <<mounts, allocated, buffer, i, gpt_result, volume, asked, result, drive,
                     troubles, troubled, calls>>
  BY DEF M!KernelStart, M!driver, M!outside
<1>2. registered' \in Seq({"ext4", "fat32"})
  <2> DEFINE F == {"ext4", "fat32"}
  <2>1. ASSUME NEW list \in Seq(F), NEW type \in F PROVE M!Register(list, type) \in Seq(F)
    BY DEF M!Register
  <2>2. <<>> \in Seq(F) /\ "ext4" \in F /\ "fat32" \in F
    OBVIOUS
  <2> HIDE DEF F
  <2>3. M!Register(M!Register(<<>>, "ext4"), "fat32") \in Seq(F)
    BY <2>1, <2>2
  <2> QED BY <1>1, <2>3, KernelTypes DEF F
<1>3. M!TypeOK'
  BY <1>1, <1>2 DEF IInv, TypeOK, M!TypeOK
<1>4. mounts = <<>>
  BY <1>1 DEF IInv, Serving
<1>5. Reading'
  <2>1. asked = "none"
    BY <1>1 DEF IInv, Reading
  <2> QED BY <1>1, <2>1 DEF Reading, Scanning
<1>6. Serving'
  BY <1>1, <1>4 DEF IInv, Serving
<1> QED BY <1>3, <1>5, <1>6, KernelInv

(* It may fail: past the end, or for trouble with the drive.                 *)
Trouble ==
  /\ troubles' = troubles + 1 /\ troubles' \in 0..MaxTroubles /\ troubled' = TRUE
  /\ drive' \in Seq(Sector) /\ Len(drive') <= 1
NoAnswer(lba) ==
  \/ M!Reached(lba) \notin DOMAIN D /\ UNCHANGED <<drive, troubles, troubled>>
  \/ Trouble

LEMMA AnswerType ==
  ASSUME IInv, NEW lba, NEW s \in M!Answers(lba)
  PROVE  /\ s \in Sector
         /\ drive = <<>> => M!Reached(lba) \in DOMAIN D /\ s = D[M!Reached(lba)]
<1>1. D \in [0..LastBlock[Hda] -> Sector] /\ drive \in Seq(Sector)
  BY BlocksType, Constants, KernelTypes DEF IInv, D
<1>2. drive = <<>> => DOMAIN drive = {}
  OBVIOUS
<1>3. CASE s \in {D[b] : b \in {M!Reached(lba)} \intersect DOMAIN D}
  BY <1>1, <1>3
<1>4. CASE s \in {drive[k] : k \in DOMAIN drive}
  BY <1>1, <1>2, <1>4
<1> QED BY <1>3, <1>4 DEF M!Answers, M!Late, D

LEMMA UnansweredType ==
  ASSUME IInv, NEW s \in Sector, M!Unanswered(<<s>>)
  PROVE  Trouble
<1>1. /\ troubles < MaxTroubles /\ troubles' = troubles + 1 /\ troubled' = TRUE
      /\ drive' = <<>> \/ drive' = <<s>> \/ drive' = drive
  BY DEF M!Unanswered
<1>2. troubles' \in 0..MaxTroubles
  BY <1>1, KernelTypes, Constants
<1>3. <<s>> \in Seq(Sector) /\ Len(<<s>>) <= 1
  OBVIOUS
<1>4. drive' \in Seq(Sector) /\ Len(drive') <= 1
  <2>1. CASE drive' = <<>>
    BY <2>1
  <2>2. CASE drive' = <<s>>
    BY <1>3, <2>2
  <2>3. CASE drive' = drive
    BY <2>3, KernelTypes
  <2> QED BY <1>1, <2>1, <2>2, <2>3
<1> QED BY <1>1, <1>2, <1>4 DEF Trouble

LEMMA NoAnswerOf ==
  ASSUME IInv, NEW lba,
         IF M!Reached(lba) \in DOMAIN D THEN M!Unanswered(<<D[M!Reached(lba)]>>)
                                        ELSE UNCHANGED M!outside
  PROVE  NoAnswer(lba)
<1>1. CASE M!Reached(lba) \in DOMAIN D
  <2>1. D[M!Reached(lba)] \in Sector
    BY <1>1, BlocksType, Constants DEF IInv, D
  <2> QED BY <1>1, <2>1, UnansweredType DEF NoAnswer
<1>2. CASE M!Reached(lba) \notin DOMAIN D
  BY <1>2 DEF NoAnswer, M!outside
<1> QED BY <1>1, <1>2

LEMMA ReadFailsType ==
  ASSUME IInv, NEW lba, M!ReadFails(lba)
  PROVE  NoAnswer(lba) /\ UNCHANGED buffer
BY NoAnswerOf DEF M!ReadFails, D

(* What has or has not become of a read, for the next state's types.         *)
LEMMA NoAnswerTypes ==
  ASSUME IInv, NEW lba, NoAnswer(lba)
  PROVE  /\ drive' \in Seq(Sector) /\ Len(drive') <= 1
         /\ troubles' \in 0..MaxTroubles /\ troubled' \in BOOLEAN
         /\ ~troubled' => ~troubled /\ drive' = drive /\ M!Reached(lba) \notin DOMAIN D
         /\ troubles' = 0 => troubles = 0 /\ drive' = drive /\ M!Reached(lba) \notin DOMAIN D
<1>1. CASE M!Reached(lba) \notin DOMAIN D /\ UNCHANGED <<drive, troubles, troubled>>
  BY <1>1, KernelTypes
<1>2. CASE Trouble
  <2>1. /\ troubles' = troubles + 1 /\ troubles' \in 0..MaxTroubles /\ troubled' = TRUE
        /\ drive' \in Seq(Sector) /\ Len(drive') <= 1
    BY <1>2 DEF Trouble
  <2>2. troubles' # 0
    <3>1. troubles \in Nat
      BY KernelTypes
    <3> QED BY <2>1, <3>1
  <2>3. troubled'
    BY <2>1
  <2> QED BY <2>1, <2>2, <2>3
<1> QED BY <1>1, <1>2 DEF NoAnswer

LEMMA ParsedTypes ==
  ASSUME IInv, NEW r \in -3..0, NEW lba \in Nat, M!Parsed(r, lba)
  PROVE  /\ pc' = "boot_sector" /\ gpt_result' \in -3..0 /\ UNCHANGED i
         /\ volume' \in [start : Nat, bs : Kinds, geometry : Kinds] /\ volume'.start = lba
         /\ volume'.bs = volume.bs /\ volume'.geometry = volume.geometry
BY KernelTypes DEF M!Parsed

(* fat32_mount goes on to the boot sector at lba.                            *)
LEMMA ParsedServing ==
  ASSUME IInv, Still, NEW r \in -3..0, NEW lba \in Nat, M!Parsed(r, lba), UNCHANGED mounts,
         pc # "off", troubles' = 0 => troubles = 0 /\ drive' = <<>> /\ LeadsTo(lba)
  PROVE  Serving'
<1>1. /\ pc' = "boot_sector" /\ volume'.start = lba
      /\ volume'.bs = volume.bs /\ volume'.geometry = volume.geometry
  BY ParsedTypes
<1>2. D' = D
  BY DEF Still, D
<1>3. ASSUME troubles' = 0 PROVE Led'
  BY <1>1, <1>3, LedNow
<1>4. ASSUME troubles' = 0, mounts # <<>> PROVE volume.start = lba
  BY <1>4, LeadsOnce DEF IInv, Serving, Led
<1> QED BY <1>1, <1>2, <1>3, <1>4 DEF IInv, Serving

LEMMA ReadHeaderInv == ASSUME IInv, Still, M!ReadHeader PROVE IInv'
<1>1. pc = "header" /\ UNCHANGED <<registered, mounts, allocated, asked, result, calls>>
  BY DEF M!ReadHeader, M!registry
<1>2. D' = D
  BY DEF Still, D
<1>3. CASE \E s \in M!Answers(1) :
             /\ M!ReadSector(1, s)
             /\ \/ s.kind # "header" /\ M!Parsed(-2, 0)
                \/ /\ s.kind = "header" /\ pc' = "entries" /\ i' = 0
                   /\ UNCHANGED <<gpt_result, volume>>
  <2>1. PICK s \in M!Answers(1) :
             /\ M!ReadSector(1, s)
             /\ \/ s.kind # "header" /\ M!Parsed(-2, 0)
                \/ /\ s.kind = "header" /\ pc' = "entries" /\ i' = 0
                   /\ UNCHANGED <<gpt_result, volume>>
    BY <1>3
  <2>2. /\ s \in Sector /\ (drive = <<>> => 1 \in DOMAIN D /\ s = D[1])
        /\ buffer' = s /\ drive' = <<>> /\ UNCHANGED <<troubles, troubled>>
    BY <2>1, AnswerType, ReachedIs DEF M!ReadSector, M!Answered
  <2>3. CASE s.kind # "header" /\ M!Parsed(-2, 0)
    <3>1. M!TypeOK'
      BY <1>1, <2>2, <2>3, ParsedTypes, KernelTypes, SameSectors DEF M!TypeOK
    <3>2. Reading'
      BY <1>1, <2>2, <2>3, ParsedTypes DEF IInv, Reading, Scanning
    <3>3. ASSUME troubles = 0 PROVE LeadsTo(0)
      BY <2>2, <2>3, <3>3 DEF IInv, Serving, LeadsTo, Headed
    <3>4. Serving'
      BY <1>1, <2>2, <2>3, <3>3, ParsedServing
    <3> QED BY <3>1, <3>2, <3>4, KernelInv
  <2>4. CASE /\ s.kind = "header" /\ pc' = "entries" /\ i' = 0
             /\ UNCHANGED <<gpt_result, volume>>
    <3>1. M!TypeOK'
      BY <1>1, <2>2, <2>4, KernelTypes, SameSectors DEF M!TypeOK
    <3>2. Reading'
      BY <1>1, <1>2, <2>2, <2>4 DEF IInv, Reading, Scanning, Headed
    <3>3. Serving'
      <4>1. ASSUME troubles = 0 PROVE OnTrail'
        <5>1. 1 \in DOMAIN D /\ s = D[1] /\ Headed
          BY <2>2, <2>4, <4>1 DEF IInv, Serving, Headed
        <5>2. Trail(0, [k \in 0..0 |-> s])
          BY <2>2, <5>1 DEF Trail
        <5> QED BY <2>2, <2>4, <5>1, <5>2, OnTrailNow
      <4>2. ASSUME troubles = 0, Led PROVE Led'
        BY <2>4, <4>2, LedNow DEF Led
      <4> QED BY <1>1, <1>2, <2>2, <2>4, <4>1, <4>2 DEF IInv, Serving
    <3> QED BY <3>1, <3>2, <3>3, KernelInv
  <2> QED BY <2>1, <2>3, <2>4
<1>4. CASE M!ReadFails(1) /\ M!Parsed(-1, 0)
  <2>1. NoAnswer(1) /\ UNCHANGED buffer
    BY <1>4, ReadFailsType
  <2>2. M!TypeOK'
    BY <1>1, <1>4, <2>1, NoAnswerTypes, ParsedTypes, KernelTypes, SameSectors DEF M!TypeOK
  <2>3. Reading'
    BY <1>1, <1>4, <2>1, NoAnswerTypes, ParsedTypes DEF IInv, Reading, Scanning
  <2>4. ASSUME troubles' = 0 PROVE troubles = 0 /\ drive' = <<>> /\ LeadsTo(0)
    BY <2>1, <2>4, NoAnswerTypes, ReachedIs DEF IInv, Serving, LeadsTo, Headed
  <2>5. Serving'
    BY <1>1, <1>4, <2>4, ParsedServing
  <2> QED BY <2>2, <2>3, <2>5, KernelInv
<1> QED BY <1>3, <1>4 DEF M!ReadHeader

LEMMA ReadEntryInv == ASSUME IInv, Still, M!ReadEntry PROVE IInv'
<1>1. pc = "entries" /\ UNCHANGED <<registered, mounts, allocated, asked, result, calls>>
  BY DEF M!ReadEntry, M!registry
<1>2. D' = D /\ i \in Nat /\ buffer \in Sector
  BY KernelTypes DEF Still, D
<1>3. ASSUME troubles = 0
      PROVE  Headed /\ drive = <<>> /\ \E t : Trail(i, t) /\ t[i] = buffer
  BY <1>1, <1>3 DEF IInv, Serving, OnTrail
<1>4. M!Reached(M!EntrySector) = Place1(buffer, i)
  BY DEF M!EntrySector, Place1
<1>5. ASSUME NEW s \in Sector, M!EntryIn(s) # 0 PROVE M!EntryIn(s) \in Nat
  BY <1>5 DEF M!EntryIn, Sector
(* An entry that is none, or cannot be read.                                 *)
<1>6. ASSUME i < buffer.entries, M!Skip, buffer' \in Sector,
             drive' \in Seq(Sector), Len(drive') <= 1,
             troubles' \in 0..MaxTroubles, troubled' \in BOOLEAN,
             ~troubled' => ~troubled /\ drive' = <<>>,
             troubles' = 0 => /\ troubles = 0 /\ drive' = <<>> /\ ~Found(buffer, i)
                              /\ buffer' = IF Place1(buffer, i) \in DOMAIN D
                                             THEN D[Place1(buffer, i)] ELSE buffer
      PROVE  IInv'
  <2>1. i' = i + 1 /\ UNCHANGED <<pc, gpt_result, volume>>
    BY <1>6 DEF M!Skip
  <2>2. M!TypeOK'
    BY <1>1, <1>2, <1>6, <2>1, KernelTypes, SameSectors DEF M!TypeOK
  <2>3. Reading'
    BY <1>1, <1>2, <1>6, <2>1 DEF IInv, Reading, Scanning, Headed
  <2>4. ASSUME troubles' = 0 PROVE OnTrail'
    <3>1. PICK t : Trail(i, t) /\ t[i] = buffer
      BY <1>3, <1>6, <2>4
    <3>2. PICK u : Trail(i + 1, u) /\ u[i + 1] = buffer'
      BY <1>2, <1>6, <2>4, <3>1, TrailGrows
    <3> QED BY <1>3, <1>6, <2>1, <2>4, <3>2, OnTrailNow
  <2>5. ASSUME troubles' = 0, Led PROVE Led'
    BY <2>1, <2>5, LedNow DEF Led
  <2>6. Serving'
    BY <1>1, <1>2, <1>6, <2>1, <2>4, <2>5 DEF IInv, Serving
  <2> QED BY <2>2, <2>3, <2>6, KernelInv
<1>7. CASE \E s \in M!Answers(M!EntrySector) :
             /\ i < buffer.entries /\ M!ReadSector(M!EntrySector, s)
             /\ \/ M!EntryIn(s) # 0 /\ M!Parsed(0, M!EntryIn(s))
                \/ M!EntryIn(s) = 0 /\ M!Skip
  <2>1. PICK s \in M!Answers(M!EntrySector) :
             /\ i < buffer.entries /\ M!ReadSector(M!EntrySector, s)
             /\ \/ M!EntryIn(s) # 0 /\ M!Parsed(0, M!EntryIn(s))
                \/ M!EntryIn(s) = 0 /\ M!Skip
    BY <1>7
  <2>2. /\ s \in Sector
        /\ drive = <<>> => /\ M!Reached(M!EntrySector) \in DOMAIN D
                           /\ s = D[M!Reached(M!EntrySector)]
        /\ buffer' = s /\ drive' = <<>> /\ UNCHANGED <<troubles, troubled>>
    BY <2>1, AnswerType DEF M!ReadSector, M!Answered
  <2>3. drive = <<>> =>
          /\ Place1(buffer, i) \in DOMAIN D /\ s = D[Place1(buffer, i)]
          /\ Found(buffer, i) <=> M!EntryIn(s) # 0
          /\ Found(buffer, i) => M!EntryIn(s) = D[Place1(buffer, i)].starts[Index(buffer, i)]
    BY <1>4, <2>2 DEF Found, Index, M!EntryIn
  <2>4. CASE M!EntryIn(s) # 0 /\ M!Parsed(0, M!EntryIn(s))
    <3>1. M!EntryIn(s) \in Nat
      BY <1>5, <2>2, <2>4
    <3>2. M!TypeOK'
      BY <1>1, <2>2, <2>4, <3>1, ParsedTypes, KernelTypes, SameSectors DEF M!TypeOK
    <3>3. Reading'
      BY <1>1, <1>2, <2>2, <2>4, <3>1, ParsedTypes DEF IInv, Reading, Scanning, Headed
    <3>4. ASSUME troubles = 0 PROVE LeadsTo(M!EntryIn(s))
      BY <1>2, <1>3, <2>1, <2>3, <2>4, <3>4 DEF LeadsTo
    <3>5. Serving'
      BY <1>1, <2>2, <2>4, <3>1, <3>4, ParsedServing
    <3> QED BY <3>2, <3>3, <3>5, KernelInv
  <2>5. CASE M!EntryIn(s) = 0 /\ M!Skip
    <3>1. troubles = 0 => drive = <<>>
      BY <1>3
    <3>2. drive' \in Seq(Sector) /\ Len(drive') <= 1
      BY <2>2
    <3> QED BY <1>6, <2>1, <2>2, <2>3, <2>5, <3>1, <3>2, KernelTypes
  <2> QED BY <2>1, <2>4, <2>5
<1>8. CASE i < buffer.entries /\ M!ReadFails(M!EntrySector) /\ M!Skip
  <2>1. NoAnswer(M!EntrySector) /\ UNCHANGED buffer
    BY <1>8, ReadFailsType
  <2>2. ~troubled' => drive = <<>>
    BY <1>1, <2>1, NoAnswerTypes DEF IInv, Reading, Scanning
  <2>3. troubles' = 0 => /\ troubles = 0 /\ drive' = <<>> /\ ~Found(buffer, i)
                         /\ Place1(buffer, i) \notin DOMAIN D
    BY <1>3, <1>4, <2>1, NoAnswerTypes DEF Found
  <2> QED BY <1>2, <1>6, <1>8, <2>1, <2>2, <2>3, NoAnswerTypes
<1>9. CASE i >= buffer.entries /\ M!Parsed(-3, 0) /\ UNCHANGED <<buffer, M!outside>>
  <2>1. UNCHANGED <<buffer, drive, troubles, troubled>>
    BY <1>9 DEF M!outside
  <2>2. M!TypeOK'
    BY <1>1, <1>9, <2>1, ParsedTypes, KernelTypes, SameSectors DEF M!TypeOK
  <2>3. Reading'
    BY <1>1, <1>9, <2>1, ParsedTypes DEF IInv, Reading, Scanning
  <2>4. ASSUME troubles = 0 PROVE LeadsTo(0)
    BY <1>2, <1>3, <1>9, <2>4 DEF LeadsTo
  <2>5. Serving'
    BY <1>1, <1>3, <1>9, <2>1, <2>4, ParsedServing
  <2> QED BY <2>2, <2>3, <2>5, KernelInv
<1> QED BY <1>7, <1>8, <1>9 DEF M!ReadEntry

LEMMA FsMountInv == ASSUME IInv, Still, M!FsMount PROVE IInv'
<1>1. /\ pc = "shell" /\ pc' \in {"shell", "identify"}
      /\ asked' \in {"fat32", "ext4"} /\ allocated' \in BOOLEAN /\ result' \in -3..0
      /\ pc' = "identify" => asked' = "fat32" /\ Len(mounts) < MaxMounts
      /\ pc' = "shell" => result' # 0
      /\ calls' \in 0..MaxCalls /\ troubled' = (drive # <<>>)
      /\ UNCHANGED <<registered, mounts, buffer, i, gpt_result, volume, drive, troubles>>
  <2>1. PICK type \in {"fat32", "ext4"} :
          /\ asked' = type
          /\ \/ Len(mounts) < MaxMounts /\ M!Dispatch(type)
             \/ Len(mounts) >= MaxMounts /\ M!Return(-1) /\ UNCHANGED allocated
    BY DEF M!FsMount
  <2>2. /\ pc = "shell" /\ calls < MaxCalls /\ calls' = calls + 1 /\ troubled' = (drive # <<>>)
        /\ UNCHANGED <<registered, mounts, buffer, i, gpt_result, volume, drive, troubles>>
    BY DEF M!FsMount, M!driver
  <2>3. calls' \in 0..MaxCalls
    BY <2>2, KernelTypes, Constants
  <2>4. CASE Len(mounts) < MaxMounts /\ M!Dispatch(type)
    <3>1. \/ type = "fat32" /\ pc' = "identify" /\ allocated' = TRUE /\ UNCHANGED result
          \/ pc' = "shell" /\ result' \in {-1, -2} /\ UNCHANGED allocated
      BY <2>4, Zenon DEF M!Dispatch, M!Return
    <3>2. allocated \in BOOLEAN /\ result \in -3..0
      BY KernelTypes
    <3>3. allocated' \in BOOLEAN
      BY <3>1, <3>2, Zenon
    <3>4. result' \in -3..0 /\ (pc' = "shell" => result' # 0)
      BY <3>1, <3>2
    <3> QED BY <2>1, <2>2, <2>3, <2>4, <3>1, <3>3, <3>4
  <2>5. CASE Len(mounts) >= MaxMounts /\ M!Return(-1) /\ UNCHANGED allocated
    BY <2>1, <2>2, <2>3, <2>5, KernelTypes DEF M!Return
  <2> QED BY <2>1, <2>4, <2>5
<1>2. troubled' \in BOOLEAN
  BY <1>1
<1>3. M!TypeOK'
  BY <1>1, <1>2, KernelTypes, SameSectors DEF M!TypeOK
<1>4. Reading'
  BY <1>1 DEF Reading, Scanning
<1>5. Serving'
  <2>1. ASSUME Led PROVE Led'
    BY <1>1, <2>1, LedNow DEF Led
  <2>2. D' = D
    BY DEF Still, D
  <2> QED BY <1>1, <2>1, <2>2 DEF IInv, Serving
<1> QED BY <1>3, <1>4, <1>5, KernelInv

LEMMA DetectDiskInv == ASSUME IInv, Still, M!DetectDisk PROVE IInv'
<1>1. /\ pc = "identify"
      /\ UNCHANGED <<registered, mounts, allocated, buffer, i, gpt_result, volume, asked, calls>>
  BY DEF M!DetectDisk, M!driver, M!registry
<1>2. D' = D
  BY DEF Still, D
<1>3. ASSUME Led PROVE Led'
  BY <1>1, <1>3, LedNow DEF Led
<1>4. CASE M!Answered /\ pc' = "header" /\ UNCHANGED result
  <2>1. drive' = <<>> /\ UNCHANGED <<troubles, troubled>>
    BY <1>4 DEF M!Answered
  <2>2. drive' \in Seq(Sector) /\ Len(drive') <= 1
    BY <2>1
  <2>3. M!TypeOK'
    BY <1>1, <1>4, <2>1, <2>2, KernelTypes, SameSectors DEF M!TypeOK
  <2>4. Reading'
    BY <1>1, <1>4, <2>1 DEF IInv, Reading, Scanning
  <2>5. Serving'
    BY <1>1, <1>2, <1>3, <1>4, <2>1 DEF IInv, Serving
  <2> QED BY <2>3, <2>4, <2>5, KernelInv
<1>5. CASE M!Unanswered(<<M!Plain("identify")>>) /\ M!Return(-3)
  <2>1. pc' = "shell" /\ result' = -3
    BY <1>5 DEF M!Return
  <2>2. Trouble
    <3>1. M!Plain("identify") \in Sector
      BY PlainType, SameSectors DEF Kinds
    <3> QED BY <1>5, <3>1, UnansweredType
  <2>3. /\ drive' \in Seq(Sector) /\ Len(drive') <= 1 /\ troubles' \in 0..MaxTroubles
        /\ troubled' = TRUE /\ troubles' # 0
    <3>1. troubles \in Nat
      BY KernelTypes
    <3> QED BY <2>2, <3>1 DEF Trouble
  <2>4. M!TypeOK'
    BY <1>1, <2>1, <2>3, KernelTypes, SameSectors DEF M!TypeOK
  <2>5. Reading'
    BY <2>1, <2>3 DEF Reading, Scanning
  <2>6. Serving'
    BY <2>1, <2>3 DEF Serving
  <2> QED BY <2>4, <2>5, <2>6, KernelInv
<1> QED BY <1>4, <1>5 DEF M!DetectDisk

LEMMA ReadBootSectorInv == ASSUME IInv, Still, M!ReadBootSector PROVE IInv'
<1>1. /\ pc = "boot_sector" /\ Len(mounts) < MaxMounts /\ asked = "fat32"
      /\ UNCHANGED <<registered, allocated, i, gpt_result, asked, calls>>
  BY DEF M!ReadBootSector, IInv, Reading, Scanning
<1>2. D' = D
  BY DEF Still, D
<1>3. ASSUME volume'.start = volume.start, Led PROVE Led'
  BY <1>3, LedNow DEF Led
<1>4. CASE \E s \in M!Answers(volume.start) :
          /\ M!ReadSector(volume.start, s)
          /\ \/ /\ s.kind \in {"volume", "mbr"} /\ mounts' = Append(mounts, "fat32") /\ M!Return(0)
                /\ volume' = [volume EXCEPT !.bs = s.kind, !.geometry = s.kind]
             \/ /\ s.kind \notin {"volume", "mbr"} /\ M!Return(-2) /\ UNCHANGED mounts
                /\ volume' = [volume EXCEPT !.bs = s.kind]
  <2>1. PICK s \in M!Answers(volume.start) :
          /\ M!ReadSector(volume.start, s)
          /\ \/ /\ s.kind \in {"volume", "mbr"} /\ mounts' = Append(mounts, "fat32") /\ M!Return(0)
                /\ volume' = [volume EXCEPT !.bs = s.kind, !.geometry = s.kind]
             \/ /\ s.kind \notin {"volume", "mbr"} /\ M!Return(-2) /\ UNCHANGED mounts
                /\ volume' = [volume EXCEPT !.bs = s.kind]
    BY <1>4
  <2>2. /\ s \in Sector
        /\ drive = <<>> => /\ M!Reached(volume.start) \in DOMAIN D
                           /\ s = D[M!Reached(volume.start)]
        /\ buffer' = s /\ drive' = <<>> /\ UNCHANGED <<troubles, troubled>> /\ pc' = "shell"
    BY <2>1, AnswerType DEF M!ReadSector, M!Answered, M!Return
  <2>3. s.kind \in Kinds
    BY <2>2 DEF Sector
  <2>4. /\ volume' \in [start : Nat, bs : Kinds, geometry : Kinds]
        /\ volume'.start = volume.start /\ volume'.bs = s.kind
        /\ volume'.geometry = s.kind \/ volume'.geometry = volume.geometry
    BY <2>1, <2>3, KernelTypes
  <2>5. /\ mounts' \in Seq({"fat32"}) /\ Len(mounts') <= MaxMounts
        /\ result' \in -3..0
        /\ result' = 0 => s.kind \in {"volume", "mbr"} /\ volume'.geometry = s.kind
        /\ mounts' # mounts => volume'.geometry = s.kind
    <3> DEFINE F == {"fat32"}
    <3>1. mounts \in Seq(F) /\ "fat32" \in F
      BY KernelTypes
    <3> HIDE DEF F
    <3>2. /\ Append(mounts, "fat32") \in Seq(F)
          /\ Len(Append(mounts, "fat32")) = Len(mounts) + 1 /\ Len(mounts) \in Nat
      BY <3>1
    <3>3. Len(Append(mounts, "fat32")) <= MaxMounts
      BY <1>1, <3>2, Constants
    <3>4. CASE /\ s.kind \in {"volume", "mbr"} /\ mounts' = Append(mounts, "fat32") /\ M!Return(0)
               /\ volume' = [volume EXCEPT !.bs = s.kind, !.geometry = s.kind]
      <4>1. volume'.geometry = s.kind
        BY <3>4, KernelTypes
      <4> QED BY <3>2, <3>3, <3>4, <4>1 DEF M!Return, F
    <3>5. CASE s.kind \notin {"volume", "mbr"} /\ M!Return(-2) /\ UNCHANGED mounts
      BY <3>5, KernelTypes DEF M!Return
    <3> QED BY <2>1, <3>4, <3>5
  <2>6. drive' \in Seq(Sector) /\ Len(drive') <= 1
    BY <2>2
  <2>7. M!TypeOK'
    BY <1>1, <2>2, <2>4, <2>5, <2>6, KernelTypes, SameSectors DEF M!TypeOK
  <2>8. Reading'
    BY <1>1, <1>2, <2>2, <2>4, <2>5 DEF IInv, Reading, Scanning, Headed
  <2>9. Serving'
    <3>1. ASSUME troubles = 0
          PROVE  Led /\ M!Reached(volume.start) \in DOMAIN D /\ s = D[M!Reached(volume.start)]
      BY <1>1, <2>2, <3>1 DEF IInv, Serving
    <3>2. ASSUME troubles = 0, mounts' = mounts, mounts # <<>> PROVE volume'.geometry = s.kind
      BY <2>4, <3>1, <3>2 DEF IInv, Serving
    <3> QED BY <1>2, <1>3, <2>2, <2>4, <2>5, <3>1, <3>2 DEF Serving
  <2> QED BY <2>7, <2>8, <2>9, KernelInv
<1>5. CASE M!ReadFails(volume.start) /\ M!Return(-1) /\ UNCHANGED <<mounts, volume>>
  <2>1. NoAnswer(volume.start) /\ UNCHANGED buffer
    BY <1>5, ReadFailsType
  <2>2. pc' = "shell" /\ result' = -1
    BY <1>5 DEF M!Return
  <2>3. M!TypeOK'
    BY <1>1, <1>5, <2>1, <2>2, NoAnswerTypes, KernelTypes, SameSectors DEF M!TypeOK
  <2>4. Reading'
    BY <2>2 DEF Reading, Scanning
  <2>5. Serving'
    BY <1>2, <1>3, <1>5, <2>1, <2>2, NoAnswerTypes DEF IInv, Serving
  <2> QED BY <2>3, <2>4, <2>5, KernelInv
<1> QED BY <1>4, <1>5 DEF M!ReadBootSector

-----------------------------------------------------------------------------
LEMMA StepInv == ASSUME IInv, [Next]_vars PROVE IInv'
<1>1. CASE Install
  BY <1>1, InstallInv
<1>2. CASE Kernel
  <2>1. Still /\ M!Next
    BY <1>2 DEF Kernel, Still
  <2> QED BY <2>1, KernelStartInv, FsMountInv, DetectDiskInv, ReadHeaderInv, ReadEntryInv,
          ReadBootSectorInv DEF M!Next
<1>3. CASE UNCHANGED vars
  <2>1. Still /\ UNCHANGED kernel
    BY <1>3 DEF vars, Still
  <2>2. /\ UNCHANGED <<pc, registered, mounts, allocated, buffer, i, gpt_result, volume, asked>>
        /\ UNCHANGED <<result, drive, troubles, troubled, calls>>
    BY <2>1 DEF kernel
  <2>3. M!TypeOK'
    BY <2>2, KernelTypes, SameSectors DEF M!TypeOK
  <2>4. D' = D
    BY <2>1 DEF Still, D
  <2>5. Reading'
    BY <2>2, <2>4 DEF IInv, Reading, Scanning, Headed
  <2>6. Serving'
    <3>1. ASSUME Led PROVE Led'
      BY <2>1, <2>2, <3>1, LedNow DEF Led
    <3>2. ASSUME OnTrail PROVE OnTrail'
      <4>1. PICK t : Trail(i, t) /\ t[i] = buffer
        BY <3>2 DEF OnTrail
      <4> QED BY <2>1, <2>2, <3>2, <4>1, OnTrailNow DEF OnTrail
    <3> QED BY <2>2, <2>4, <3>1, <3>2 DEF IInv, Serving
  <2> QED BY <2>1, <2>3, <2>5, <2>6, KernelInv
<1> QED BY <1>1, <1>2, <1>3 DEF Next

LEMMA Invariant == Spec => []IInv
<1>1. Init => IInv
  BY InitInv
<1>2. IInv /\ [Next]_vars => IInv'
  BY StepInv
<1> QED BY <1>1, <1>2, PTL DEF Spec

-----------------------------------------------------------------------------
(* The variables of installer and kernel have the types of the code's, and   *)
(* the disks keep their sizes.                                               *)
THEOREM MachineTypeOK == Spec => []TypeOK
<1>1. IInv => TypeOK
  BY DEF IInv
<1> QED BY <1>1, Invariant, PTL

LEMMA AppendAt ==
  ASSUME NEW E, NEW s \in Seq(E), NEW e \in E
  PROVE  /\ Append(s, e) \in Seq(E) /\ Len(Append(s, e)) = Len(s) + 1
         /\ Append(s, e)[Len(s) + 1] = e
         /\ \A k \in 1..Len(s) : Append(s, e)[k] = s[k]
OBVIOUS

(* Once AutoPartitionDisk has succeeded on a disk that is large enough, its  *)
(* label, its mark and the entry of every partition are on it, none written  *)
(* over by another, and the partitions lie side by side between them; but for*)
(* the disk with the volume that files are copied to.                        *)
THEOREM MachineLayoutOnDisk == Spec => []LayoutOnDisk
<1>1. IInv => LayoutOnDisk
  <2> SUFFICES ASSUME IInv, laid, I!LargeEnough(I!Target), I!Elsewhere(I!Target)
               PROVE  LayoutOnDisk
    BY DEF LayoutOnDisk, I!LayoutOnDisk
  <2> DEFINE h  == I!HomeBlocks(I!Target)
             sf == 2 + ESPBlocks + RootBlocks
  <2>1. /\ screen \notin {"mark_again"}
        /\ blocks[I!Target][0].kind = "label"
        /\ blocks[I!Target][LastBlock[I!Target]].kind = "mark"
        /\ \A k \in DOMAIN partitions :
             blocks[I!Target][partitions[k].first].kind = partitions[k].kind
        /\ (partitions = Third /\ h > 0) \/ partitions = Second
    BY DEF IInv, Laid
  <2>2. I!Target \in Disks
    BY TargetType DEF IInv
  <2>3. /\ ESPBlocks \in Nat \ {0} /\ RootBlocks \in Nat \ {0} /\ LastBlock[I!Target] \in Nat
        /\ Reserved \in Nat /\ Reserved > 2
    BY <2>2, Constants
  <2>4. h \in Nat /\ sf + h - 1 < LastBlock[I!Target] /\ sf - 1 < LastBlock[I!Target]
    BY <2>2, <2>3, HomeFits DEF I!LargeEnough
  <2> DEFINE e1 == Entry("esp", 2, 2 + ESPBlocks - 1)
             e2 == Entry("root", 2 + ESPBlocks, sf - 1)
             e3 == Entry("home", sf, sf + h - 1)
  <2>5. First = <<e1>> /\ Second = Append(First, e2) /\ Third = Append(Second, e3)
    <3>1. First = <<e1>>
      BY DEF First
    <3>2. Second = Append(First, e2)
      <4>1. e2 = Entry("root", 2 + ESPBlocks, 2 + ESPBlocks + RootBlocks - 1)
        BY <2>3
      <4> HIDE DEF e2
      <4> QED BY <4>1, Zenon DEF Second
    <3>3. Third = Append(Second, e3)
      BY DEF Third
    <3> QED BY <3>1, <3>2, <3>3
  <2>6. /\ e1.first = 2 /\ e1.last = 2 + ESPBlocks - 1
        /\ e2.first = 2 + ESPBlocks /\ e2.last = sf - 1
        /\ e3.first = sf /\ e3.last = sf + h - 1
    BY DEF Entry
  <2> HIDE DEF e1, e2, e3, h
  <2>7. /\ DOMAIN Second = 1..2 /\ Second[1] = e1 /\ Second[2] = e2
        /\ DOMAIN Third = 1..3 /\ Third[1] = e1 /\ Third[2] = e2 /\ Third[3] = e3
    <3>1. <<e1>> \in Seq({e1, e2, e3}) /\ Len(<<e1>>) = 1 /\ <<e1>>[1] = e1
      OBVIOUS
    <3>2. /\ Second \in Seq({e1, e2, e3}) /\ Len(Second) = 2
          /\ Second[1] = e1 /\ Second[2] = e2
      BY <2>5, <3>1, AppendAt
    <3>3. /\ Third \in Seq({e1, e2, e3}) /\ Len(Third) = 3
          /\ Third[1] = e1 /\ Third[2] = e2 /\ Third[3] = e3
      BY <2>5, <3>2, AppendAt
    <3> QED BY <3>2, <3>3
  <2>8. ASSUME NEW k \in DOMAIN partitions
        PROVE  /\ partitions[k].first = IF k = 1 THEN 2 ELSE partitions[k - 1].last + 1
               /\ partitions[k].first <= partitions[k].last
               /\ partitions[k].last < LastBlock[I!Target]
    <3>1. \/ k = 1 /\ partitions[k] = e1
          \/ k = 2 /\ partitions[k] = e2 /\ partitions[k - 1] = e1
          \/ k = 3 /\ partitions[k] = e3 /\ partitions[k - 1] = e2 /\ h > 0
      BY <2>1, <2>7
    <3> QED BY <2>3, <2>4, <2>6, <3>1
  <2> QED BY <2>1, <2>8 DEF LayoutOnDisk, I!LayoutOnDisk
<1> QED BY <1>1, Invariant, PTL

(* A volume that is mounted with the geometry in its boot sector was not     *)
(* partitioned over, by an installation complete or not: every block of it is*)
(* as it was, or part of a file copied to this disk through the firmware.    *)
THEOREM MachineMountedIsWhole == Spec => []MountedIsWhole
<1>1. IInv => MountedIsWhole
  <2> SUFFICES ASSUME IInv, pc = "shell", asked = "fat32", ~troubled, result = 0,
                      volume.geometry = "volume",
                      NEW b \in M!Reached(volume.start)..LastBlock[Hda]
               PROVE  Kept(Hda, b)
    BY DEF MountedIsWhole
  <2>1. /\ M!Reached(volume.start) \in DOMAIN D /\ D[M!Reached(volume.start)].kind = "volume"
        /\ Headed \/ volume.start = 0
    BY DEF IInv, Reading
  <2>2. Hda \in Disks /\ LastBlock[Hda] \in Nat
    BY Constants
  <2>3. M!Reached(volume.start) \in 0..LastBlock[Hda]
    BY <2>1, <2>2, BlocksType DEF IInv, D
  <2>4. ~Begun(Hda)
    BY <2>1, ReachedIs DEF Begun, Headed, Its, D
  <2>5. CASE FirstOnly(Hda)
    <3>1. M!Reached(volume.start) # 0
      BY <2>1, <2>5 DEF FirstOnly, Its, D
    <3>2. b \in 1..LastBlock[Hda]
      BY <2>2, <2>3, <3>1
    <3> QED BY <2>5, <3>2 DEF FirstOnly
  <2>6. CASE Untouched(Hda)
    <3>1. b \in 0..LastBlock[Hda]
      BY <2>2, <2>3
    <3> QED BY <2>6, <3>1 DEF Untouched
  <2> QED BY <2>2, <2>4, <2>5, <2>6 DEF IInv, Wiped
<1> QED BY <1>1, Invariant, PTL

(* A write of the installer's own changes no disk but the target; a block of *)
(* another changes where the located volume is, and becomes part of a file.  *)
LEMMA OnlyTarget ==
  ASSUME IInv, I!Next, NEW d \in Disks, blocks'[d] # blocks[d]
  PROVE  \/ d = I!Target /\ screen \in Writing
         \/ /\ screen \in {"copy", "loader"}
            /\ \E v \in located :
                 /\ v[1] = d
                 /\ \A b \in 0..LastBlock[d] : blocks'[d][b] # blocks[d][b] =>
                      b \in I!Behind(v) /\ blocks'[d][b].kind = "file"
<1>1. ASSUME NEW lba, NEW data, NEW n, blocks' = I!Written(lba, data, n) PROVE d = I!Target
  <2> DEFINE T == I!Target
             new == [b \in DOMAIN blocks[T] |->
                       IF b \in lba..(lba + n - 1) THEN data[b - lba + 1] ELSE blocks[T][b]]
  <2>1. blocks' = [blocks EXCEPT ![T] = new]
    BY <1>1 DEF I!Written
  <2>2. DOMAIN blocks = Disks
    BY DEF IInv, Shaped
  <2> HIDE DEF T, new
  <2>3. d # T => blocks'[d] = blocks[d]
    BY <2>1, <2>2
  <2> QED BY <2>3 DEF T
<1>2. CASE I!WriteLabel
  BY <1>1, <1>2 DEF I!WriteLabel, I!WriteBlocks, Writing
<1>3. CASE I!WriteMark
  BY <1>1, <1>3 DEF I!WriteMark, I!WriteBlocks, Writing
<1>4. CASE I!CreateESP
  BY <1>1, <1>4 DEF I!CreateESP, I!CreatePartition, I!WriteBlocks, Writing
<1>5. CASE I!CreateRoot
  BY <1>1, <1>5 DEF I!CreateRoot, I!CreatePartition, I!WriteBlocks, Writing
<1>6. CASE I!CreateHome
  BY <1>1, <1>6 DEF I!CreateHome, I!CreatePartition, I!WriteBlocks, Writing
<1>7. CASE I!WriteFile /\ screen \in {"copy", "loader"}
  <2>1. PICK v \in located : \E b \in I!Behind(v) :
          blocks' = [blocks EXCEPT ![v[1]] = [@ EXCEPT ![b] = I!Plain("file")]]
    BY <1>7 DEF I!WriteFile
  <2>2. PICK b \in I!Behind(v) :
          blocks' = [blocks EXCEPT ![v[1]] = [@ EXCEPT ![b] = I!Plain("file")]]
    BY <2>1
  <2>3. /\ v[1] \in Disks /\ \A e \in Disks \ {v[1]} : blocks'[e] = blocks[e]
        /\ \A c \in 0..LastBlock[v[1]] :
             \/ c # b /\ blocks'[v[1]][c] = blocks[v[1]][c]
             \/ c = b /\ blocks'[v[1]][c].kind = "file"
    BY <2>2, FileWritten
  <2>4. v[1] = d
    BY <2>3
  <2> QED BY <1>7, <2>2, <2>3, <2>4
<1>8. \/ I!WriteLabel \/ I!WriteMark \/ I!CreateESP \/ I!CreateRoot \/ I!CreateHome
      \/ (I!WriteFile /\ screen \in {"copy", "loader"}) \/ UNCHANGED blocks
  BY DEF I!Next, I!DetectDisks, I!SelectDisk, I!Summary, I!CopySystemFiles,
         I!InstallEfiBootloader, I!Finish
<1> QED BY <1>2, <1>3, <1>4, <1>5, <1>6, <1>7, <1>8

(* The installer writes nothing before the confirmation, and after it the    *)
(* disk whose number in the list was typed; of any other disk it changes     *)
(* nothing but blocks behind the boot sector of the volume the firmware finds*)
(* first, by copying files there.                                            *)
THEOREM MachineOnlyChosenPartitioned == Spec => OnlyChosenPartitioned
<1> DEFINE Copied(d) == \E v \in located :
                          /\ v[1] = d
                          /\ \A b \in 0..LastBlock[d] : blocks'[d][b] # blocks[d][b] =>
                               b \in I!Behind(v) /\ blocks'[d][b].kind = "file"
<1>1. ASSUME IInv, [Next]_vars
      PROVE  [\A d \in Disks : blocks'[d] # blocks[d] =>
                /\ confirmed /\ typed \in DOMAIN I!Listing(handles)
                /\ \/ d = I!Listing(handles)[typed]
                   \/ \E v \in located :
                        /\ v[1] = d
                        /\ \A b \in 0..LastBlock[d] : blocks'[d][b] # blocks[d][b] =>
                             b \in I!Behind(v) /\ blocks'[d][b].kind = "file"]_I!vars
  <2>1. CASE Install
    <3>1. ASSUME NEW d \in Disks, blocks'[d] # blocks[d]
          PROVE  /\ confirmed /\ typed \in DOMAIN I!Listing(handles)
                 /\ d = I!Listing(handles)[typed] \/ Copied(d)
      <4>1. \/ d = I!Target /\ screen \in Writing
            \/ screen \in {"copy", "loader"} /\ Copied(d)
        BY <1>1, <2>1, <3>1, OnlyTarget DEF Install
      <4> HIDE DEF Copied
      <4>2. CASE d = I!Target /\ screen \in Writing
        BY <1>1, <4>2, TargetType DEF IInv, Chosen, Writing
      <4>3. CASE screen \in {"copy", "loader"} /\ Copied(d)
        BY <1>1, <4>3 DEF IInv, Chosen
      <4> QED BY <4>1, <4>2, <4>3
    <3> QED BY <3>1
  <2>2. CASE Kernel
    BY <2>2 DEF Kernel
  <2>3. CASE UNCHANGED vars
    BY <2>3 DEF vars
  <2> QED BY <1>1, <2>1, <2>2, <2>3 DEF Next
<1> QED BY <1>1, Invariant, PTL DEF Spec, OnlyChosenPartitioned, I!OnlyChosenPartitioned

LEMMA TrailBefore == ASSUME Still, NEW n, NEW t, Trail(n, t)' PROVE Trail(n, t)
<1>1. D' = D
  BY DEF Still, D
<1>2. \A q, k : Place1(q, k)' = Place1(q, k) /\ (Found(q, k)' <=> Found(q, k))
  BY <1>1 DEF Place1, Index, Found, M!Reached
<1> QED BY <1>1, <1>2 DEF Trail, Place1, Index, Found, M!Reached

LEMMA LedBefore == ASSUME Still, Led', NEW s, s = volume'.start PROVE LeadsTo(s)
<1>1. D' = D
  BY DEF Still, D
<1>2. Headed' <=> Headed
  BY <1>1 DEF Headed
<1>3. CASE ~Headed
  BY <1>2, <1>3 DEF Led, LeadsTo
<1>4. CASE Headed
  <2>0. PICK n \in Nat : \E t : Trail(n, t)' /\ Stops(n, t, s)'
    BY <1>2, <1>4 DEF Led, LeadsTo, Stops
  <2>1. PICK t : Trail(n, t)' /\ Stops(n, t, s)'
    BY <2>0
  <2>2. Trail(n, t)
    BY <2>1, TrailBefore
  <2>3. Stops(n, t, s)
    BY <1>1, <2>1 DEF Stops, Found, Place1, Index, M!Reached
  <2> QED BY <1>4, <2>2, <2>3 DEF LeadsTo, Stops
<1> QED BY <1>3, <1>4

LEMMA SameVolume ==
  ASSUME NEW A, NEW B, NEW v \in [start : A, bs : B, geometry : B],
         NEW w \in [start : A, bs : B, geometry : B],
         v.start = w.start, v.bs = w.bs, v.geometry = w.geometry
  PROVE  v = w
OBVIOUS

(* Troubles are counted and nothing takes a mount away.                      *)
LEMMA MovesOn ==
  ASSUME IInv, M!Next
  PROVE  (troubles' = 0 => troubles = 0) /\ (mounts # <<>> => mounts' # <<>>)
<1>1. troubles \in Nat /\ mounts \in Seq({"fat32"})
  BY KernelTypes
<1>2. ASSUME NEW p, M!Unanswered(p) PROVE troubles' # 0
  BY <1>1, <1>2 DEF M!Unanswered
<1>3. ASSUME M!Answered \/ UNCHANGED M!outside PROVE troubles' = troubles
  BY <1>3 DEF M!Answered, M!outside
<1>4. ASSUME NEW lba, M!ReadFails(lba) PROVE troubles' = 0 => troubles = 0
  <2>1. CASE M!Reached(lba) \in DOMAIN D
    BY <1>2, <1>4, <2>1 DEF M!ReadFails, D
  <2>2. CASE M!Reached(lba) \notin DOMAIN D
    BY <1>3, <1>4, <2>2 DEF M!ReadFails, D
  <2> QED BY <2>1, <2>2
<1>5. ASSUME NEW lba, NEW s, M!ReadSector(lba, s) PROVE troubles' = troubles
  BY <1>3, <1>5 DEF M!ReadSector
<1>6. CASE M!KernelStart
  BY <1>3, <1>6 DEF M!KernelStart
<1>7. CASE M!FsMount
  BY <1>7 DEF M!FsMount
<1>8. CASE M!DetectDisk
  BY <1>2, <1>3, <1>8 DEF M!DetectDisk, M!registry
<1>9. CASE M!ReadHeader
  BY <1>4, <1>5, <1>9 DEF M!ReadHeader, M!registry
<1>10. CASE M!ReadEntry
  BY <1>3, <1>4, <1>5, <1>10 DEF M!ReadEntry, M!registry
<1>11. CASE M!ReadBootSector
  <2>1. Append(mounts, "fat32") # <<>>
    <3>1. Len(Append(mounts, "fat32")) = Len(mounts) + 1 /\ Len(mounts) \in Nat
      BY <1>1
    <3> QED BY <3>1
  <2> QED BY <1>4, <1>5, <1>11, <2>1 DEF M!ReadBootSector
<1> QED BY <1>6, <1>7, <1>8, <1>9, <1>10, <1>11 DEF M!Next

(* While the drive answers in time, mounting again leaves alone the place,   *)
(* the boot sector and the geometry the volume mounted already is served with*)
THEOREM MachineServedVolumeStays == Spec => ServedVolumeStays
<1>1. ASSUME IInv, IInv', [Next]_vars
      PROVE  [mounts # <<>> /\ troubles' = 0 => volume' = volume]_M!kernel
  <2> SUFFICES ASSUME mounts # <<>>, troubles' = 0 PROVE volume' = volume
    OBVIOUS
  <2>1. CASE UNCHANGED vars
    BY <2>1 DEF vars, kernel
  <2>2. CASE Install
    BY <2>2 DEF Install, kernel
  <2>3. CASE Kernel
    <3>1. Still /\ M!Next /\ troubles = 0 /\ mounts' # <<>>
      BY <1>1, <2>3, MovesOn DEF Kernel, Still
    <3>2. /\ Led /\ volume.bs = D[M!Reached(volume.start)].kind
          /\ volume.geometry = volume.bs
      BY <1>1, <3>1 DEF IInv, Serving
    <3>3. /\ Led' /\ volume'.bs = D'[M!Reached(volume'.start)].kind
          /\ volume'.geometry = volume'.bs
      BY <1>1, <3>1 DEF IInv, Serving
    <3>4. PICK s : s = volume'.start
      OBVIOUS
    <3>5. s = volume.start
      BY <3>1, <3>2, <3>3, <3>4, LedBefore, LeadsOnce DEF Led
    <3>6. D' = D
      BY <3>1 DEF Still, D
    <3>7. /\ volume \in [start : Nat, bs : Kinds, geometry : Kinds]
          /\ volume' \in [start : Nat, bs : Kinds, geometry : Kinds]
      <4>1. M!TypeOK /\ M!TypeOK'
        BY <1>1 DEF IInv, TypeOK
      <4>2. /\ volume \in [start : Nat, bs : M!Kinds, geometry : M!Kinds]
            /\ volume' \in [start : Nat, bs : M!Kinds, geometry : M!Kinds]
        BY <4>1 DEF M!TypeOK
      <4> QED BY <4>2, SameSectors
    <3>8. /\ volume'.start = volume.start /\ volume'.bs = volume.bs
          /\ volume'.geometry = volume.geometry
      BY <3>2, <3>3, <3>4, <3>5, <3>6
    <3> QED BY <3>7, <3>8, SameVolume
  <2> QED BY <1>1, <2>1, <2>2, <2>3 DEF Next
<1> QED BY <1>1, Invariant, PTL DEF Spec, ServedVolumeStays, M!ServedVolumeStays

-----------------------------------------------------------------------------
(* What fat32_mount finds, call by call: without trouble it looks where the  *)
(* first entry of the table says, if that is of basic data.                  *)
Looking ==
  /\ pc = "off" => ~allocated
  /\ allocated => M!Known("fat32")
  /\ pc = "entries" /\ ~troubled => Places(D) = {} \/ (i = 0 /\ buffer = D[1])
  /\ pc = "boot_sector" /\ ~troubled => \A b \in Places(D) : volume.start = b
  /\ pc = "shell" /\ asked = "fat32" /\ ~troubled /\ allocated /\ Len(mounts) < MaxMounts =>
       \A b \in Places(D) \intersect DOMAIN D :
         D[b].kind = "volume" => result = 0 /\ volume.start = b /\ volume.geometry = "volume"

LEMMA LookingInit == Init => Looking
BY DEF Init, M!Init, Looking

LEMMA LookingInstall == ASSUME IInv, Looking, Install PROVE Looking'
BY DEF Install, kernel, Looking, M!Known

LEMMA LookingStart == ASSUME IInv, Looking, Still, M!KernelStart PROVE Looking'
<1>1. pc = "off" /\ pc' \in {"halted", "shell"} /\ UNCHANGED <<allocated, asked>>
  BY DEF M!KernelStart
<1>2. ~allocated' /\ asked' = "none"
  BY <1>1 DEF Looking, IInv, Reading
<1> QED BY <1>1, <1>2 DEF Looking

LEMMA LookingCall == ASSUME IInv, Looking, Still, M!FsMount PROVE Looking'
<1>1. PICK type \in {"fat32", "ext4"} :
        /\ asked' = type
        /\ \/ Len(mounts) < MaxMounts /\ M!Dispatch(type)
           \/ Len(mounts) >= MaxMounts /\ M!Return(-1) /\ UNCHANGED allocated
  BY DEF M!FsMount
<1>2. pc = "shell" /\ UNCHANGED <<registered, mounts>>
  BY DEF M!FsMount
<1>3. M!Known(type)' <=> M!Known(type)
  BY <1>2 DEF M!Known
<1>4. M!Known("fat32")' <=> M!Known("fat32")
  BY <1>2 DEF M!Known
<1>5. CASE Len(mounts) >= MaxMounts /\ M!Return(-1) /\ UNCHANGED allocated
  <2>1. ~(Len(mounts') < MaxMounts) /\ pc' = "shell"
    <3>1. Len(mounts) \in Nat /\ MaxMounts \in Nat
      BY KernelTypes, Constants
    <3> QED BY <1>2, <1>5, <3>1 DEF M!Return
  <2> QED BY <1>2, <1>4, <1>5, <2>1 DEF Looking
<1>6. CASE Len(mounts) < MaxMounts /\ M!Dispatch(type)
  <2>1. CASE type = "fat32" /\ M!Known(type) /\ pc' = "identify" /\ allocated' = TRUE
    BY <1>2, <1>4, <2>1 DEF Looking
  <2>2. CASE pc' = "shell" /\ UNCHANGED allocated /\ (type = "fat32" => ~allocated)
    BY <1>1, <1>4, <2>2 DEF Looking
  <2>3. ~M!Known("fat32") => ~allocated
    BY DEF Looking
  <2> QED BY <1>6, <2>1, <2>2, <2>3 DEF M!Dispatch, M!Return
<1> QED BY <1>1, <1>5, <1>6

LEMMA LookingIdentify == ASSUME IInv, Looking, Still, M!DetectDisk PROVE Looking'
<1>1. pc = "identify" /\ UNCHANGED <<registered, allocated>>
  BY DEF M!DetectDisk, M!registry
<1>2. ASSUME NEW pending, M!Unanswered(pending) PROVE troubled' = TRUE
  BY <1>2 DEF M!Unanswered
<1>3. pc' = "header" \/ (pc' = "shell" /\ troubled' = TRUE)
  BY <1>2, Zenon DEF M!DetectDisk, M!Return
<1> QED BY <1>1, <1>3 DEF Looking, M!Known

(* The read of a block without trouble.                                      *)
LEMMA NoTrouble ==
  ASSUME IInv, Scanning, ~troubled', NEW lba
  PROVE  /\ M!ReadFails(lba) => M!Reached(lba) \notin DOMAIN D
         /\ \A s \in M!Answers(lba) : M!ReadSector(lba, s) =>
              /\ M!Reached(lba) \in DOMAIN D /\ s = D[M!Reached(lba)]
              /\ buffer' = s /\ s \in Sector
<1>1. ASSUME M!ReadFails(lba) PROVE M!Reached(lba) \notin DOMAIN D
  BY <1>1, ReadFailsType, NoAnswerTypes
<1>2. ASSUME NEW s \in M!Answers(lba), M!ReadSector(lba, s)
      PROVE  /\ M!Reached(lba) \in DOMAIN D /\ s = D[M!Reached(lba)]
             /\ buffer' = s /\ s \in Sector
  <2>1. buffer' = s /\ UNCHANGED troubled
    BY <1>2 DEF M!ReadSector, M!Answered
  <2>2. drive = <<>>
    BY <2>1 DEF IInv, Reading
  <2> QED BY <2>1, <2>2, AnswerType
<1> QED BY <1>1, <1>2

LEMMA SameD == ASSUME Still PROVE D' = D /\ (Headed' <=> Headed)
BY DEF Still, D, Headed

LEMMA PlacesAre ==
  /\ Headed => \A b \in Places(D) : /\ D[1].table < Addressable /\ b = FirstEntry(D)
                                     /\ b \in Nat /\ b # 0 /\ b < Addressable
  /\ ~Headed => Places(D) = {0}
<1>1. Addressable \in Nat
  BY Constants
<1> QED BY <1>1 DEF Places, Headed

LEMMA LookingHeader == ASSUME IInv, Looking, Still, M!ReadHeader PROVE Looking'
<1>1. pc = "header" /\ UNCHANGED <<registered, allocated>> /\ Scanning
  BY DEF M!ReadHeader, M!registry, Scanning
<1>2. D' = D
  BY SameD
<1>3. M!Known("fat32")' <=> M!Known("fat32")
  BY <1>1 DEF M!Known
<1>4. pc' = "entries" \/ pc' = "boot_sector"
  BY DEF M!ReadHeader, M!Parsed
<1>5. ASSUME ~troubled', pc' = "entries" PROVE i' = 0 /\ buffer' = D[1]
  <2>1. PICK s \in M!Answers(1) : M!ReadSector(1, s) /\ i' = 0
    BY <1>5 DEF M!ReadHeader, M!Parsed
  <2> QED BY <1>1, <1>5, <2>1, NoTrouble, ReachedIs
<1>6. ASSUME ~troubled', pc' = "boot_sector" PROVE ~Headed /\ volume'.start = 0
  <2>1. CASE M!ReadFails(1) /\ M!Parsed(-1, 0)
    BY <1>1, <1>6, <2>1, NoTrouble, ParsedTypes, ReachedIs DEF Headed
  <2>2. CASE ~(M!ReadFails(1) /\ M!Parsed(-1, 0))
    <3>1. PICK s \in M!Answers(1) : M!ReadSector(1, s) /\ s.kind # "header" /\ M!Parsed(-2, 0)
      BY <1>6, <2>2 DEF M!ReadHeader
    <3> QED BY <1>1, <1>6, <3>1, NoTrouble, ParsedTypes, ReachedIs DEF Headed
  <2> QED BY <2>1, <2>2
<1> QED BY <1>1, <1>2, <1>3, <1>4, <1>5, <1>6, PlacesAre DEF Looking

LEMMA LookingEntry == ASSUME IInv, Looking, Still, M!ReadEntry PROVE Looking'
<1>1. pc = "entries" /\ UNCHANGED <<registered, allocated>> /\ Scanning
  BY DEF M!ReadEntry, M!registry, Scanning
<1>2. D' = D /\ PerSector \in Nat \ {0}
  BY SameD, Constants
<1>3. M!Known("fat32")' <=> M!Known("fat32")
  BY <1>1 DEF M!Known
<1>4. pc' = "entries" \/ pc' = "boot_sector"
  BY <1>1 DEF M!ReadEntry, M!Parsed, M!Skip
<1>5. ASSUME ~troubled' PROVE ~troubled /\ Headed
  <2>1. UNCHANGED troubled \/ troubled' = TRUE
    BY DEF M!ReadEntry, M!ReadSector, M!Answered, M!ReadFails, M!Unanswered, M!outside
  <2> QED BY <1>1, <1>5, <2>1 DEF IInv, Reading
<1>6. ASSUME ~troubled', NEW b \in Places(D)
      PROVE  pc' = "boot_sector" /\ volume'.start = b
  <2>1. i = 0 /\ buffer = D[1]
    BY <1>1, <1>5, <1>6 DEF Looking
  <2>2. /\ D[1].table < Addressable /\ b = FirstEntry(D) /\ b \in Nat /\ b # 0
    BY <1>5, <1>6, PlacesAre
  <2>3. /\ D[1].entries > 0 /\ D[1].table \in DOMAIN D /\ 1 \in DOMAIN D[D[1].table].starts
        /\ b = D[D[1].table].starts[1]
    BY <2>2 DEF FirstEntry
  <2>4. D[1].table \in Nat /\ D[1].size \in Nat /\ D[1].entries \in Nat
    BY <2>1, KernelTypes DEF Sector
  <2>5. 0 * D[1].size = 0 /\ 0 \div PerSector = 0 /\ 0 % PerSector = 0
    BY <1>2, <2>4
  <2>6. M!EntrySector = D[1].table
    BY <2>1, <2>4, <2>5 DEF M!EntrySector
  <2>7. M!Reached(M!EntrySector) = D[1].table
    BY <2>2, <2>4, <2>6, ReachedIs
  <2>8. M!EntryIn(D[D[1].table]) = b
    BY <2>1, <2>3, <2>5 DEF M!EntryIn
  <2>9. ~(i >= buffer.entries) /\ ~M!ReadFails(M!EntrySector)
    BY <1>1, <1>6, <2>1, <2>3, <2>4, <2>7, NoTrouble
  <2>10. PICK s \in M!Answers(M!EntrySector) :
          /\ M!ReadSector(M!EntrySector, s)
          /\ \/ M!EntryIn(s) # 0 /\ M!Parsed(0, M!EntryIn(s))
             \/ M!EntryIn(s) = 0 /\ M!Skip
    BY <2>9 DEF M!ReadEntry
  <2>11. s = D[D[1].table]
    BY <1>1, <1>6, <2>7, <2>10, NoTrouble
  <2>12. M!Parsed(0, b)
    BY <2>2, <2>8, <2>10, <2>11
  <2> QED BY <2>2, <2>12, ParsedTypes
<1> QED BY <1>1, <1>2, <1>3, <1>4, <1>6 DEF Looking

LEMMA LookingBoot == ASSUME IInv, Looking, Still, M!ReadBootSector PROVE Looking'
<1>1. pc = "boot_sector" /\ UNCHANGED <<registered, allocated>> /\ Scanning /\ pc' = "shell"
  BY DEF M!ReadBootSector, Scanning, M!Return
<1>2. D' = D
  BY SameD
<1>3. M!Known("fat32")' <=> M!Known("fat32")
  BY <1>1 DEF M!Known
<1>4. ASSUME ~troubled', NEW b \in Places(D) \intersect DOMAIN D, D[b].kind = "volume"
      PROVE  result' = 0 /\ volume'.start = b /\ volume'.geometry = "volume"
  <2>1. ~troubled
    BY <1>4 DEF M!ReadBootSector, M!ReadSector, M!Answered, M!ReadFails, M!Unanswered, M!outside
  <2>2. volume.start = b
    BY <1>1, <1>4, <2>1 DEF Looking
  <2>0. M!Reached(b) = b
    BY PlacesAre, ReachedIs, <1>4
  <2>3. ~M!ReadFails(b)
    BY <1>1, <1>4, <2>0, NoTrouble
  <2>4. PICK s \in M!Answers(b) :
          /\ M!ReadSector(b, s)
          /\ \/ /\ M!Return(0)
                /\ volume' = [volume EXCEPT !.bs = s.kind, !.geometry = s.kind]
             \/ s.kind \notin {"volume", "mbr"}
    BY <2>2, <2>3 DEF M!ReadBootSector
  <2>5. s.kind = "volume"
    BY <1>1, <1>4, <2>0, <2>4, NoTrouble
  <2>6. M!Return(0) /\ volume' = [volume EXCEPT !.bs = s.kind, !.geometry = s.kind]
    BY <2>4, <2>5
  <2>7. volume'.start = volume.start /\ volume'.geometry = s.kind
    BY <2>6, KernelTypes
  <2> QED BY <2>2, <2>5, <2>6, <2>7 DEF M!Return
<1> QED BY <1>1, <1>2, <1>3, <1>4 DEF Looking

LEMMA LookingStep == ASSUME IInv, Looking, [Next]_vars PROVE Looking'
<1>1. CASE Install
  BY <1>1, LookingInstall
<1>2. CASE Kernel
  <2>1. Still /\ M!Next
    BY <1>2 DEF Kernel, Still
  <2> QED BY <2>1, LookingStart, LookingCall, LookingIdentify, LookingHeader, LookingEntry,
          LookingBoot DEF M!Next
<1>3. CASE UNCHANGED vars
  BY <1>3 DEF vars, kernel, Looking, D, M!Known
<1> QED BY <1>1, <1>2, <1>3 DEF Next

(* RootIsMounted holds: an untroubled mount never takes for a volume what an *)
(* installation has partitioned over, and never misses the volume of a disk  *)
(* that none has touched, where it is where the driver looks and within its  *)
(* reach, whatever else is on the disk and was mounted before.               *)
THEOREM MachineRootIsMounted == Spec => []RootIsMounted
<1>1. Init => Looking
  BY LookingInit
<1>2. IInv /\ Looking /\ [Next]_vars => Looking'
  BY LookingStep
<1>3. Looking => VolumeIsMounted
  BY DEF Looking, VolumeIsMounted, D
<1>4. MountedIsWhole /\ VolumeIsMounted => RootIsMounted
  BY DEF RootIsMounted
<1> QED BY <1>1, <1>2, <1>3, <1>4, Invariant, MachineMountedIsWhole, PTL DEF Spec
=============================================================================
