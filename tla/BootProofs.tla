------------------------------ MODULE BootProofs ------------------------------
(***************************************************************************)
(* Theorems about Boot: for every memory, every kernel and every choice of *)
(* the firmware, what the kernel is told is free is nobody's (HandoffSafe),*)
(* and the kernel is where its addresses are mapped (KernelInPlace).       *)
(*                                                                         *)
(* The inductive invariant says whose the frames are: the kernel's, the    *)
(* tables' and the pool's are of type "loader" in the firmware's map and   *)
(* apart from each other, and what is not conventional memory stays what it*)
(* is; and while MapKey fits and no map was refused, the map the loader has*)
(* is the firmware's.                                                      *)
(***************************************************************************)
EXTENDS Boot, WellFoundedInduction, TLAPS

(* Induction over the natural numbers, stated of sets.                       *)
LEMMA LeastElement ==
  ASSUME NEW T \in SUBSET Nat, T # {}
  PROVE  \E x \in T : \A y \in T : x <= y
<1> DEFINE R == OpToRel(<, Nat)
<1>1. R = {z \in Nat \X Nat : z[1] < z[2]}
  BY DEF OpToRel
<1>2. IsWellFoundedOn(R, Nat)
  BY NatLessThanWellFounded
<1> HIDE DEF R
<1>3. PICK x \in T : \A y \in T : ~ (<<y, x>> \in R)
  BY <1>2, WFMin
<1>4. \A y \in T : <<y, x>> \in R <=> y < x
  BY <1>1
<1>5. ASSUME NEW y \in T PROVE x <= y
  <2>1. ~ (y < x)
    BY <1>3, <1>4
  <2> QED BY <2>1
<1> QED BY <1>5

(* A set of natural numbers with an upper bound has a greatest element.      *)
LEMMA GreatestElement ==
  ASSUME NEW T \in SUBSET Nat, T # {}, NEW n \in Nat, \A x \in T : x <= n
  PROVE  \E x \in T : \A y \in T : y <= x
<1> DEFINE U == {b \in Nat : \A x \in T : x <= b}
<1>1. PICK b \in U : \A c \in U : b <= c
  <2>1. U \in SUBSET Nat /\ U # {}
    OBVIOUS
  <2> HIDE DEF U
  <2> QED BY <2>1, LeastElement
<1>2. b \in T
  <2> SUFFICES ASSUME b \notin T PROVE FALSE
    OBVIOUS
  <2>1. \A x \in T : x < b
    OBVIOUS
  <2>2. PICK x \in T : x < b
    BY <2>1
  <2>3. b - 1 \in Nat
    BY <2>2
  <2>4. b - 1 \in U
    BY <2>1, <2>3
  <2> QED BY <1>1, <2>4
<1> QED BY <1>2

(* A set that holds 0 and the successor of each of its elements is Nat.      *)
LEMMA SetInduction ==
  ASSUME NEW S \in SUBSET Nat, 0 \in S, \A n \in S : n + 1 \in S
  PROVE  S = Nat
<1> SUFFICES ASSUME Nat \ S # {} PROVE FALSE
  OBVIOUS
<1>1. PICK x \in Nat \ S : \A y \in Nat \ S : x <= y
  BY LeastElement
<1>2. x # 0 /\ x - 1 \in Nat
  OBVIOUS
<1>3. x - 1 \in S
  BY <1>1, <1>2
<1> QED BY <1>2, <1>3

(* Induction up to n.                                                        *)
LEMMA Upto ==
  ASSUME NEW n \in Nat, NEW S \in SUBSET Nat, 0 \in S, \A k \in S : k < n => k + 1 \in S
  PROVE  0..n \subseteq S
<1> DEFINE T == S \union {k \in Nat : k > n}
<1>1. ASSUME NEW k \in T PROVE k + 1 \in T
  <2>1. CASE k \in S /\ k < n
    BY <2>1
  <2>2. CASE ~(k \in S /\ k < n)
    BY <2>2
  <2> QED BY <2>1, <2>2
<1>2. T \in SUBSET Nat /\ 0 \in T
  OBVIOUS
<1>3. T = Nat
  <2> HIDE DEF T
  <2> QED BY <1>1, <1>2, SetInduction
<1> QED BY <1>3

-----------------------------------------------------------------------------

(* The tables allocated so far, those at address 0 left out.                 *)
TablePages == UNION {Pages(tables[i], TableSizes[i]) : i \in {j \in DOMAIN tables : tables[j] # 0}}

Progress ==
  /\ pc = "load" => file = NoFile
  /\ pc = "load" => tables = <<>> /\ pool = {}
  /\ pc \notin {"load", "returned"} => file \in Files
  /\ pc \notin {"load", "tables", "lost", "returned"} =>
       Len(tables) = Len(TableSizes) /\ \A i \in DOMAIN tables : tables[i] # 0
  /\ fits => pc \in {"kernel_map", "map_last", "convert", "exit", "kernel", "returned"}

Owners ==
  /\ \A f \in Stack : memory[f] = "boot"
  /\ \A f \in KernelFrames : f \in Frames /\ memory[f] = "loader"
  /\ \A f \in TablePages : f \in Frames /\ memory[f] = "loader" /\ f \notin KernelFrames
  /\ \A f \in pool : memory[f] = "loader" /\ f \notin KernelFrames
  /\ pc \in {"map_last", "convert", "exit", "kernel"} => at \in pool

Key ==
  /\ fits /\ ~refused => MemoryMap = memory
  /\ pc \in {"exit", "kernel"} => KernelMmap = [f \in Listed |-> MemoryMap[f] = "conventional"]
  /\ pc = "kernel" => fits

Loaded ==
  file # NoFile /\ pc # "lost" =>
    \A f \in KernelFrames : content[f] = Image(file, MinVaddr(file) + f - base)

IInv == TypeOK /\ Progress /\ Owners /\ Key /\ Loaded

-----------------------------------------------------------------------------
(* The kernel's segments.                                                    *)
LEMMA SegmentsType ==
  ASSUME NEW k \in Files
  PROVE  /\ k.pages \in Nat /\ Len(k.segments) \in Nat \ {0}
         /\ DOMAIN k.segments = 1..Len(k.segments)
         /\ \A i \in DOMAIN k.segments :
              LET s == k.segments[i] IN
              /\ s.vaddr \in Nat /\ s.offset \in Nat /\ s.filesz \in Nat /\ s.memsz \in Nat \ {0}
              /\ s.offset + s.filesz <= k.pages
<1>1. k \in [pages : Nat, segments : Seq(Segment) \ {<<>>}]
  BY BootAssumption
<1>2. k.segments \in Seq(Segment) /\ k.segments # <<>> /\ k.pages \in Nat
  BY <1>1
<1>3. Len(k.segments) \in Nat \ {0} /\ DOMAIN k.segments = 1..Len(k.segments)
  BY <1>2
<1>4. ASSUME NEW i \in DOMAIN k.segments
      PROVE  /\ k.segments[i].vaddr \in Nat /\ k.segments[i].offset \in Nat
             /\ k.segments[i].filesz \in Nat /\ k.segments[i].memsz \in Nat \ {0}
  <2>1. k.segments[i] \in Segment
    BY <1>2, <1>3
  <2> QED BY <2>1 DEF Segment
<1>5. \A i \in DOMAIN k.segments : k.segments[i].offset + k.segments[i].filesz <= k.pages
  BY BootAssumption
<1> QED BY <1>2, <1>3, <1>4, <1>5

(* v is one of the pages the segments span iff it is one of a segment's.     *)
LEMMA VirtualMember ==
  ASSUME NEW k \in Files, NEW v
  PROVE  v \in Virtual(k) <=>
           \E i \in DOMAIN k.segments : v \in Pages(k.segments[i].vaddr, k.segments[i].memsz)
BY DEF Virtual

LEMMA VirtualBounded ==
  ASSUME NEW k \in Files
  PROVE  \E b \in Nat : \A v \in Virtual(k) : v \in Nat /\ v <= b
<1> DEFINE end(i) == k.segments[i].vaddr + k.segments[i].memsz
<1> DEFINE n == Len(k.segments)
<1>1. n \in Nat /\ DOMAIN k.segments = 1..n /\ \A i \in 1..n : end(i) \in Nat
  BY SegmentsType
<1> DEFINE S == {m \in Nat : \E b \in Nat : \A i \in 1..n : i <= m => end(i) <= b}
<1>2. 0 \in S
  <2>1. \A i \in 1..n : i <= 0 => end(i) <= 0
    BY <1>1
  <2> QED BY <2>1
<1>3. ASSUME NEW m \in S, m < n PROVE m + 1 \in S
  <2>1. PICK b \in Nat : \A i \in 1..n : i <= m => end(i) <= b
    OBVIOUS
  <2> DEFINE c == b + end(m + 1)
  <2>2. m \in Nat /\ m + 1 \in 1..n /\ end(m + 1) \in Nat
    BY <1>1, <1>3
  <2>3. c \in Nat /\ \A i \in 1..n : i <= m + 1 => end(i) <= c
    <3> HIDE DEF end
    <3>1. c \in Nat
      BY <2>2
    <3>2. ASSUME NEW i \in 1..n, i <= m + 1 PROVE end(i) <= c
      <4>1. CASE i = m + 1
        BY <2>2, <4>1
      <4>2. CASE i # m + 1
        <5>1. i <= m /\ end(i) \in Nat
          BY <1>1, <2>2, <3>2, <4>2
        <5> QED BY <2>1, <2>2, <5>1
      <4> QED BY <4>1, <4>2
    <3> QED BY <3>1, <3>2
  <2> HIDE DEF c, end
  <2> QED BY <2>2, <2>3
<1>4. n \in S
  <2>1. S \in SUBSET Nat
    OBVIOUS
  <2> HIDE DEF S
  <2>2. 0..n \subseteq S
    BY <1>1, <1>2, <1>3, <2>1, Upto
  <2> QED BY <1>1, <2>2
<1>5. PICK b \in Nat : \A i \in 1..n : i <= n => end(i) <= b
  BY <1>4
<1>6. ASSUME NEW v \in Virtual(k) PROVE v \in Nat /\ v <= b
  <2>1. PICK i \in DOMAIN k.segments : v \in Pages(k.segments[i].vaddr, k.segments[i].memsz)
    BY VirtualMember
  <2>2. k.segments[i].vaddr \in Nat /\ k.segments[i].memsz \in Nat
    BY SegmentsType
  <2>3. v \in Nat /\ v < end(i)
    BY <2>1, <2>2 DEF Pages
  <2>4. end(i) <= b /\ end(i) \in Nat
    BY <1>1, <1>5
  <2> HIDE DEF end
  <2> QED BY <2>3, <2>4
<1> QED BY <1>6

(* MinVaddr and MaxVaddr are what they are called.                           *)
LEMMA VirtualSpan ==
  ASSUME NEW k \in Files
  PROVE  /\ Virtual(k) \subseteq Nat
         /\ MinVaddr(k) \in Virtual(k) /\ \A u \in Virtual(k) : MinVaddr(k) <= u
         /\ MaxVaddr(k) \in Virtual(k) /\ \A u \in Virtual(k) : MaxVaddr(k) >= u
         /\ Size(k) \in Nat \ {0}
<1>1. PICK b \in Nat : \A v \in Virtual(k) : v \in Nat /\ v <= b
  BY VirtualBounded
<1>2. Virtual(k) \in SUBSET Nat
  BY <1>1
<1>3. Virtual(k) # {}
  <2>1. 1 \in DOMAIN k.segments /\ k.segments[1].vaddr \in Nat /\ k.segments[1].memsz \in Nat \ {0}
    BY SegmentsType
  <2>2. k.segments[1].vaddr \in Pages(k.segments[1].vaddr, k.segments[1].memsz)
    BY <2>1 DEF Pages
  <2> QED BY <2>1, <2>2, VirtualMember
<1>4. \E v \in Virtual(k) : \A u \in Virtual(k) : v <= u
  BY <1>2, <1>3, LeastElement
<1>5. \E v \in Virtual(k) : \A u \in Virtual(k) : u <= v
  BY <1>1, <1>2, <1>3, GreatestElement
<1>6. MinVaddr(k) \in Virtual(k) /\ \A u \in Virtual(k) : MinVaddr(k) <= u
  BY <1>4 DEF MinVaddr
<1>7. \E v \in Virtual(k) : \A u \in Virtual(k) : v >= u
  BY <1>2, <1>5
<1>8. MaxVaddr(k) \in Virtual(k) /\ \A u \in Virtual(k) : MaxVaddr(k) >= u
  BY <1>7 DEF MaxVaddr
<1> QED BY <1>2, <1>6, <1>8 DEF Size

(* What LoadElfKernel leaves at a page: the segment that covers it last.     *)
LEMMA ImageValue ==
  ASSUME NEW k \in Files, NEW v \in Nat
  PROVE  /\ Image(k, v) \in Contents
         /\ v \in Virtual(k) /\ k.pages <= ReadCap =>
              \E i \in DOMAIN k.segments :
                /\ v \in Pages(k.segments[i].vaddr, k.segments[i].memsz)
                /\ Image(k, v) = IF v - k.segments[i].vaddr < k.segments[i].filesz
                                   THEN <<"file", v - k.segments[i].vaddr + k.segments[i].offset>>
                                   ELSE Zero
<1> DEFINE covers == {i \in DOMAIN k.segments : v \in Pages(k.segments[i].vaddr, k.segments[i].memsz)}
           last   == CHOOSE i \in covers : \A j \in covers : j <= i
           s      == k.segments[last]
           page   == v - s.vaddr + s.offset
<1>1. Image(k, v) = IF covers = {} THEN Other
                    ELSE IF v - s.vaddr >= s.filesz THEN Zero
                    ELSE IF page < k.pages /\ page < ReadCap THEN <<"file", page>> ELSE Other
  BY DEF Image
<1>2. v \in Virtual(k) => covers # {}
  BY VirtualMember
<1>3. ASSUME covers # {} PROVE last \in covers
  <2>1. covers \in SUBSET Nat /\ Len(k.segments) \in Nat /\ \A i \in covers : i <= Len(k.segments)
    BY SegmentsType
  <2> HIDE DEF covers
  <2>2. \E i \in covers : \A j \in covers : j <= i
    BY <1>3, <2>1, GreatestElement
  <2> QED BY <2>2
<1>4. ASSUME covers # {}
      PROVE  /\ s.vaddr \in Nat /\ s.filesz \in Nat /\ page \in Nat
             /\ v \in Pages(s.vaddr, s.memsz) /\ last \in DOMAIN k.segments
             /\ v - s.vaddr < s.filesz => page < k.pages
  <2>1. last \in DOMAIN k.segments /\ v \in Pages(s.vaddr, s.memsz)
    BY <1>3, <1>4
  <2> HIDE DEF last
  <2>2. /\ s.vaddr \in Nat /\ s.filesz \in Nat /\ s.memsz \in Nat /\ s.offset \in Nat
        /\ s.offset + s.filesz <= k.pages /\ k.pages \in Nat
    BY <2>1, SegmentsType
  <2>3. v >= s.vaddr
    BY <2>1, <2>2 DEF Pages
  <2> QED BY <2>1, <2>2, <2>3
<1>5. k.pages \in Nat /\ ReadCap \in Nat
  BY SegmentsType, BootAssumption
<1> HIDE DEF covers, last
<1>6. Image(k, v) \in Contents
  <2>1. covers # {} => <<"file", page>> \in {"file"} \X Nat
    BY <1>4
  <2> HIDE DEF page
  <2> QED BY <1>1, <2>1 DEF Contents
<1>7. ASSUME v \in Virtual(k), k.pages <= ReadCap
      PROVE  Image(k, v) = IF v - s.vaddr < s.filesz THEN <<"file", page>> ELSE Zero
  <2>1. covers # {}
    BY <1>2, <1>7
  <2>2. v - s.vaddr < s.filesz => page < k.pages /\ page < ReadCap
    BY <1>4, <1>5, <1>7, <2>1
  <2>3. (v - s.vaddr >= s.filesz) <=> ~ (v - s.vaddr < s.filesz)
    BY <1>4, <2>1
  <2> HIDE DEF page
  <2> QED BY <1>1, <2>1, <2>2, <2>3
<1> QED BY <1>2, <1>4, <1>6, <1>7

-----------------------------------------------------------------------------
LEMMA NoFileOutside == NoFile \notin Files
<1> SUFFICES ASSUME NoFile \in Files PROVE FALSE
  OBVIOUS
<1>1. Len(NoFile.segments) # 0
  BY SegmentsType
<1> QED BY <1>1 DEF NoFile

LEMMA InitInv == Init => IInv
<1> SUFFICES ASSUME Init PROVE IInv
  OBVIOUS
<1> USE DEF Init
<1>1. 0 \in Frames /\ memory \in [Frames -> Types] /\ \A f \in Stack : memory[f] = "boot"
  BY BootAssumption DEF Frames
<1>2. TypeOK
  <2>1. pc \in Labels /\ file \in Files \union {NoFile} /\ base \in Frames /\ tables \in Seq(Frames)
    BY <1>1 DEF Labels
  <2>2. content \in [Frames -> Contents] /\ MemoryMap \in [Frames -> Types]
    BY DEF Contents, NoMap, Types
  <2>3. /\ Len(tables) <= Len(TableSizes) /\ pool \subseteq Frames /\ at \in Frames
        /\ fits \in BOOLEAN /\ refused \in BOOLEAN /\ graphics \in BOOLEAN /\ events \in 0..MaxEvents
    BY <1>1, BootAssumption
  <2>4. KernelMmap \in [Listed -> BOOLEAN] \union {[f \in {} |-> FALSE]}
    OBVIOUS
  <2> QED BY <1>1, <2>1, <2>2, <2>3, <2>4 DEF TypeOK
<1>3. Progress
  BY DEF Progress
<1>4. Owners
  <2>1. KernelFrames = {} /\ TablePages = {}
    BY DEF KernelFrames, TablePages
  <2> QED BY <1>1, <2>1 DEF Owners
<1>5. Key
  BY DEF Key
<1>6. Loaded
  BY DEF Loaded
<1> QED BY <1>2, <1>3, <1>4, <1>5, <1>6 DEF IInv

(* Memory that is not conventional stays what it is.                         *)
Grows ==
  /\ memory' \in [Frames -> Types]
  /\ \A f \in Frames : memory[f] # "conventional" => memory'[f] = memory[f]

LEMMA OwnersKept ==
  ASSUME TypeOK, Owners, Grows, UNCHANGED <<file, base, tables>>,
         \A f \in pool' : f \in pool \/ (memory'[f] = "loader" /\ f \notin KernelFrames)
  PROVE  /\ \A f \in Stack : memory'[f] = "boot"
         /\ \A f \in KernelFrames' : f \in Frames /\ memory'[f] = "loader"
         /\ \A f \in TablePages' : f \in Frames /\ memory'[f] = "loader" /\ f \notin KernelFrames'
         /\ \A f \in pool' : memory'[f] = "loader" /\ f \notin KernelFrames'
<1>1. KernelFrames' = KernelFrames /\ TablePages' = TablePages
  BY DEF KernelFrames, TablePages
<1>2. Stack \subseteq Frames /\ pool \subseteq Frames
  BY BootAssumption DEF TypeOK
<1> QED BY <1>1, <1>2 DEF Owners, Grows

LEMMA LoadedKept ==
  ASSUME Loaded, UNCHANGED <<file, base>>, pc # "lost",
         \A f \in KernelFrames : content'[f] = content[f]
  PROVE  Loaded'
<1>1. KernelFrames' = KernelFrames
  BY DEF KernelFrames
<1> QED BY <1>1 DEF Loaded

(* What AllocatePool does: a frame of the pool, or a new one.                *)
LEMMA PoolTaken ==
  ASSUME IInv, NEW p \in Frames, AllocatePool(p)
  PROVE  /\ Grows /\ pool' \subseteq Frames /\ p \in pool'
         /\ \A f \in pool' : f \in pool \/ (memory'[f] = "loader" /\ f \notin KernelFrames)
         /\ content' \in [Frames -> Contents] /\ \A f \in KernelFrames : content'[f] = content[f]
         /\ p \in pool => memory' = memory
<1> USE DEF IInv, AllocatePool
<1>1. memory \in [Frames -> Types] /\ memory' = [f \in Frames |-> IF f = p THEN "loader" ELSE memory[f]]
  BY DEF TypeOK, Taken
<1>2. p \in pool => memory[p] = "loader"
  BY DEF Owners
<1>3. p \notin KernelFrames
  BY DEF Owners
<1>4. Grows
  BY <1>1, <1>2 DEF Grows, Types
<1>5. \A f \in pool' : f \in pool \/ (memory'[f] = "loader" /\ f \notin KernelFrames)
  BY <1>1, <1>3
<1>6. content' \in [Frames -> Contents] /\ \A f \in KernelFrames : content'[f] = content[f]
  BY <1>3 DEF TypeOK, Contents, Owners
<1>7. p \in pool => memory' = memory
  BY <1>1, <1>2
<1> QED BY <1>4, <1>5, <1>6, <1>7 DEF TypeOK

-----------------------------------------------------------------------------
(* One lemma for each action.                                                *)
LEMMA FailInv == ASSUME IInv, Fail, pc # "lost" PROVE IInv'
<1> USE DEF Fail, loaded, map, IInv
<1>1. TypeOK'
  BY DEF TypeOK, Labels
<1>2. Progress'
  BY DEF Progress
<1>3. KernelFrames' = KernelFrames /\ TablePages' = TablePages
  BY DEF KernelFrames, TablePages
<1>4. Owners'
  BY <1>3 DEF Owners
<1>5. Key'
  BY DEF Key
<1>6. Loaded'
  BY <1>3 DEF Loaded
<1> QED BY <1>1, <1>2, <1>4, <1>5, <1>6

LEMMA LoadKernelInv == ASSUME IInv, LoadKernel PROVE IInv'
<1> USE DEF IInv
<1>1. PICK k \in Files, b \in Frames :
        /\ Free(b, Size(k))
        /\ file' = k /\ base' = b /\ memory' = Taken(Pages(b, Size(k)))
        /\ content' = [f \in Frames |-> IF f \in Pages(b, Size(k))
                                          THEN Image(k, MinVaddr(k) + f - b) ELSE content[f]]
  BY DEF LoadKernel
<1>2. /\ pc = "load" /\ pc' = "tables" /\ tables = <<>> /\ pool = {}
      /\ UNCHANGED <<tables, graphics, pool, MemoryMap, fits, refused, at, KernelMmap, events>>
  BY DEF LoadKernel, Progress, map
<1>3. Size(k) \in Nat \ {0} /\ MinVaddr(k) \in Nat /\ b \in Nat
  BY VirtualSpan DEF Frames
<1>4. Pages(b, Size(k)) \subseteq Frames /\ \A f \in Pages(b, Size(k)) : memory[f] = "conventional"
  BY <1>1 DEF Free
<1>5. KernelFrames' = Pages(b, Size(k)) /\ TablePages' = {}
  BY <1>1, <1>2, NoFileOutside DEF KernelFrames, TablePages
<1>6. Grows
  BY <1>1, <1>4 DEF TypeOK, Taken, Grows, Types
<1>7. \A f \in Pages(b, Size(k)) : content'[f] = Image(k, MinVaddr(k) + f - b)
  BY <1>1, <1>4
<1>8. content' \in [Frames -> Contents]
  <2>1. \A f \in Pages(b, Size(k)) : MinVaddr(k) + f - b \in Nat
    BY <1>3 DEF Pages
  <2>2. \A f \in Pages(b, Size(k)) : Image(k, MinVaddr(k) + f - b) \in Contents
    BY <2>1, ImageValue
  <2> QED BY <1>1, <2>2 DEF TypeOK
<1>9. TypeOK'
  BY <1>1, <1>2, <1>6, <1>8 DEF TypeOK, Labels, Grows
<1>10. Progress'
  BY <1>1, <1>2 DEF Progress
<1>11. Owners'
  <2>1. \A f \in Stack : memory'[f] = "boot"
    BY <1>6, BootAssumption DEF Owners, Grows
  <2>2. \A f \in Pages(b, Size(k)) : f \in Frames /\ memory'[f] = "loader"
    BY <1>1, <1>4 DEF Taken
  <2> QED BY <1>2, <1>5, <2>1, <2>2 DEF Owners
<1>12. Key'
  <2>1. ~fits
    BY <1>2 DEF Progress
  <2> QED BY <1>2, <2>1 DEF Key
<1>13. Loaded'
  BY <1>1, <1>5, <1>7 DEF Loaded
<1> QED BY <1>9, <1>10, <1>11, <1>12, <1>13

LEMMA AllocateTableInv == ASSUME IInv, AllocateTable PROVE IInv'
<1> USE DEF IInv
<1> DEFINE n == TableSizes[Len(tables) + 1]
<1>1. /\ pc = "tables" /\ Len(tables) < Len(TableSizes)
      /\ \/ \E b \in Frames \ {0} :
              Free(b, n) /\ memory' = Taken(Pages(b, n)) /\ tables' = Append(tables, b)
         \/ tables' = Append(tables, 0) /\ UNCHANGED memory
      /\ UNCHANGED <<pc, content, file, base, graphics, pool, MemoryMap, fits, refused, at, KernelMmap, events>>
  BY DEF AllocateTable, map
<1>2. PICK b \in Frames :
        /\ tables' = Append(tables, b)
        /\ b # 0 => Free(b, n) /\ memory' = Taken(Pages(b, n))
        /\ b = 0 => memory' = memory
  <2>1. 0 \in Frames
    BY BootAssumption DEF Frames
  <2> QED BY <1>1, <2>1
<1>3. tables \in Seq(Frames) /\ Len(tables) \in Nat /\ Len(TableSizes) \in Nat
  BY BootAssumption DEF TypeOK
<1>4. /\ tables' \in Seq(Frames) /\ Len(tables') = Len(tables) + 1 /\ tables'[Len(tables) + 1] = b
      /\ DOMAIN tables' = DOMAIN tables \union {Len(tables) + 1}
      /\ \A i \in DOMAIN tables : tables'[i] = tables[i]
  BY <1>2, <1>3
<1>5. Grows
  BY <1>2 DEF TypeOK, Taken, Grows, Types, Free
<1>6. KernelFrames' = KernelFrames
  BY <1>1 DEF KernelFrames
<1>7. TypeOK'
  BY <1>1, <1>3, <1>4, <1>5 DEF TypeOK, Grows
<1>8. Progress'
  BY <1>1 DEF Progress
<1>9. Owners'
  <2>1. \A f \in Stack : memory'[f] = "boot"
    BY <1>5, BootAssumption DEF Owners, Grows
  <2>2. \A f \in KernelFrames : f \in Frames /\ memory'[f] = "loader"
    BY <1>5 DEF Owners, Grows
  <2>3. ASSUME NEW f \in TablePages' PROVE f \in Frames /\ memory'[f] = "loader" /\ f \notin KernelFrames
    <3>1. PICK i \in DOMAIN tables' : tables'[i] # 0 /\ f \in Pages(tables'[i], TableSizes[i])
      BY DEF TablePages
    <3>2. CASE i \in DOMAIN tables
      <4>1. f \in TablePages
        BY <1>4, <3>1, <3>2 DEF TablePages
      <4> QED BY <1>5, <4>1 DEF Owners, Grows
    <3>3. CASE i = Len(tables) + 1
      <4>1. b # 0 /\ f \in Pages(b, n)
        BY <1>4, <3>1, <3>3
      <4>2. f \in Frames /\ memory[f] = "conventional" /\ memory'[f] = "loader"
        BY <1>2, <4>1 DEF Free, Taken
      <4> QED BY <4>2 DEF Owners
    <3> QED BY <1>4, <3>1, <3>2, <3>3
  <2>4. \A f \in pool : memory'[f] = "loader" /\ f \notin KernelFrames
    BY <1>5 DEF Owners, Grows, TypeOK
  <2> QED BY <1>1, <1>6, <2>1, <2>2, <2>3, <2>4 DEF Owners
<1>10. Key'
  <2>1. ~fits
    BY <1>1 DEF Progress
  <2> QED BY <1>1, <2>1 DEF Key
<1>11. Loaded'
  BY <1>1, <1>6 DEF Loaded
<1> QED BY <1>7, <1>8, <1>9, <1>10, <1>11

(* The page tables are apart from the kernel, and clearing them leaves it.   *)
LEMMA LoadCr3Inv == ASSUME IInv, LoadCr3 PROVE IInv'
<1> USE DEF IInv
<1>1. /\ pc = "tables" /\ Len(tables) = Len(TableSizes)
      /\ pc' = IF \E i \in DOMAIN tables : tables[i] = 0 THEN "lost" ELSE "graphics"
      /\ content' = [f \in Frames |-> IF f \in TableFrames THEN <<"table">> ELSE content[f]]
      /\ UNCHANGED <<memory, file, base, tables, graphics, pool, MemoryMap, fits, refused, at, KernelMmap, events>>
  BY DEF LoadCr3, loaded, map
<1>2. KernelFrames' = KernelFrames /\ TablePages' = TablePages
  BY <1>1 DEF KernelFrames, TablePages
<1>3. content' \in [Frames -> Contents]
  BY <1>1 DEF TypeOK, Contents
<1>4. TypeOK'
  BY <1>1, <1>3 DEF TypeOK, Labels
<1>5. Progress'
  BY <1>1 DEF Progress
<1>6. Owners'
  BY <1>1, <1>2 DEF Owners
<1>7. Key'
  BY <1>1 DEF Key, Progress
<1>8. Loaded'
  <2>1. CASE \E i \in DOMAIN tables : tables[i] = 0
    BY <1>1, <2>1 DEF Loaded
  <2>2. CASE \A i \in DOMAIN tables : tables[i] # 0
    <3>1. TableFrames = TablePages
      BY <2>2 DEF TableFrames, TablePages
    <3>2. \A f \in KernelFrames : f \in Frames /\ f \notin TableFrames
      BY <3>1 DEF Owners
    <3>3. \A f \in KernelFrames : content'[f] = content[f]
      BY <1>1, <3>2
    <3> QED BY <1>1, <3>3, LoadedKept
  <2> QED BY <2>1, <2>2
<1> QED BY <1>4, <1>5, <1>6, <1>7, <1>8

LEMMA GetGopInfoInv == ASSUME IInv, GetGopInfo PROVE IInv'
<1> USE DEF IInv
<1>1. /\ pc = "graphics" /\ pc' = "map" /\ graphics' \in BOOLEAN
      /\ UNCHANGED <<memory, content, file, base, tables, pool, MemoryMap, fits, refused, at, KernelMmap, events>>
  BY DEF GetGopInfo, map
<1>2. KernelFrames' = KernelFrames /\ TablePages' = TablePages
  BY <1>1 DEF KernelFrames, TablePages
<1>3. TypeOK'
  BY <1>1 DEF TypeOK, Labels
<1>4. Progress'
  BY <1>1 DEF Progress
<1>5. Owners'
  BY <1>1, <1>2 DEF Owners
<1>6. Key'
  BY <1>1 DEF Key
<1>7. Loaded'
  BY <1>1, LoadedKept
<1> QED BY <1>3, <1>4, <1>5, <1>6, <1>7

LEMMA GetMapSizeInv == ASSUME IInv, GetMapSize PROVE IInv'
<1> USE DEF IInv
<1>1. pc = "map"
  BY DEF GetMapSize
<1>2. CASE Fail
  BY <1>1, <1>2, FailInv
<1>3. CASE ~Fail
  <2>1. /\ pc' = "map_again" /\ fits' = FALSE
        /\ UNCHANGED <<file, base, tables, graphics, MemoryMap, refused, at, KernelMmap, events>>
    BY <1>3 DEF GetMapSize, loaded
  <2>2. PICK p \in Frames : AllocatePool(p)
    BY <1>3 DEF GetMapSize
  <2>3. /\ Grows /\ pool' \subseteq Frames
        /\ \A f \in pool' : f \in pool \/ (memory'[f] = "loader" /\ f \notin KernelFrames)
        /\ content' \in [Frames -> Contents] /\ \A f \in KernelFrames : content'[f] = content[f]
    BY <2>2, PoolTaken
  <2>4. TypeOK'
    BY <2>1, <2>3 DEF TypeOK, Labels, Grows
  <2>5. Progress'
    BY <1>1, <2>1 DEF Progress
  <2>6. Owners'
    BY <2>1, <2>3, OwnersKept DEF Owners
  <2>7. Key'
    BY <2>1 DEF Key
  <2>8. Loaded'
    BY <1>1, <2>1, <2>3, LoadedKept
  <2> QED BY <2>4, <2>5, <2>6, <2>7, <2>8
<1> QED BY <1>2, <1>3

LEMMA GetMapInv == ASSUME IInv, GetMap PROVE IInv'
<1> USE DEF IInv
<1>1. pc = "map_again"
  BY DEF GetMap
<1>2. CASE Fail
  BY <1>1, <1>2, FailInv
<1>3. CASE ~Fail
  <2>1. /\ pc' = "kernel_map" /\ MemoryMap' = memory /\ fits' = TRUE
        /\ UNCHANGED <<memory, content, file, base, tables, graphics, pool, refused, at, KernelMmap, events>>
    BY <1>3 DEF GetMap, loaded
  <2>2. KernelFrames' = KernelFrames /\ TablePages' = TablePages
    BY <2>1 DEF KernelFrames, TablePages
  <2>3. TypeOK'
    BY <2>1 DEF TypeOK, Labels
  <2>4. Progress'
    BY <1>1, <2>1 DEF Progress
  <2>5. Owners'
    BY <2>1, <2>2 DEF Owners
  <2>6. Key'
    BY <2>1 DEF Key
  <2>7. Loaded'
    BY <1>1, <2>1, LoadedKept
  <2> QED BY <2>3, <2>4, <2>5, <2>6, <2>7
<1> QED BY <1>2, <1>3

LEMMA AllocateKernelMmapInv == ASSUME IInv, AllocateKernelMmap PROVE IInv'
<1> USE DEF IInv
<1>1. pc = "kernel_map"
  BY DEF AllocateKernelMmap
<1>2. CASE Fail
  BY <1>1, <1>2, FailInv
<1>3. CASE ~Fail
  <2>1. /\ pc' = "map_last"
        /\ UNCHANGED <<file, base, tables, graphics, MemoryMap, refused, KernelMmap, events>>
    BY <1>3 DEF AllocateKernelMmap, loaded
  <2>2. PICK p \in Frames : AllocatePool(p) /\ at' = p /\ fits' = (fits /\ p \in pool)
    BY <1>3 DEF AllocateKernelMmap
  <2>3. /\ Grows /\ pool' \subseteq Frames /\ p \in pool'
        /\ \A f \in pool' : f \in pool \/ (memory'[f] = "loader" /\ f \notin KernelFrames)
        /\ content' \in [Frames -> Contents] /\ \A f \in KernelFrames : content'[f] = content[f]
        /\ p \in pool => memory' = memory
    BY <2>2, PoolTaken
  <2>4. TypeOK'
    <3>1. fits' \in BOOLEAN
      BY <2>2
    <3> QED BY <2>1, <2>2, <2>3, <3>1 DEF TypeOK, Labels, Grows
  <2>5. Progress'
    BY <1>1, <2>1 DEF Progress
  <2>6. Owners'
    BY <2>1, <2>2, <2>3, OwnersKept DEF Owners
  <2>7. Key'
    <3>1. fits' => fits /\ memory' = memory
      BY <2>2, <2>3
    <3> QED BY <2>1, <3>1 DEF Key
  <2>8. Loaded'
    BY <1>1, <2>1, <2>3, LoadedKept
  <2> QED BY <2>4, <2>5, <2>6, <2>7, <2>8
<1> QED BY <1>2, <1>3

LEMMA GetMapLastInv == ASSUME IInv, GetMapLast PROVE IInv'
<1> USE DEF IInv
<1>1. /\ pc = "map_last" /\ pc' = "convert"
      /\ UNCHANGED <<file, base, tables, graphics, at, KernelMmap, events>>
  BY DEF GetMapLast, loaded
<1>2. /\ Grows /\ pool' \subseteq Frames /\ pool \subseteq pool'
      /\ \A f \in pool' : f \in pool \/ (memory'[f] = "loader" /\ f \notin KernelFrames)
      /\ content' \in [Frames -> Contents] /\ \A f \in KernelFrames : content'[f] = content[f]
  <2>1. CASE \E p \in Frames : AllocatePool(p)
    <3>1. PICK p \in Frames : AllocatePool(p)
      BY <2>1
    <3>2. pool \subseteq pool'
      BY <3>1 DEF AllocatePool
    <3> QED BY <3>1, <3>2, PoolTaken
  <2>2. CASE UNCHANGED <<memory, pool, content>>
    BY <2>2 DEF TypeOK, Grows
  <2> QED BY <2>1, <2>2 DEF GetMapLast
<1>3. /\ MemoryMap' \in [Frames -> Types] /\ fits' \in BOOLEAN /\ refused' \in BOOLEAN
      /\ fits' /\ ~refused' => MemoryMap' = memory'
  <2>1. CASE MemoryMap' = memory' /\ fits' = TRUE /\ UNCHANGED refused
    BY <1>2, <2>1 DEF Grows, TypeOK
  <2>2. CASE /\ MemoryMap' \in {MemoryMap, [f \in Frames |-> "conventional"]}
             /\ fits' \in BOOLEAN /\ refused' = TRUE
    BY <2>2 DEF TypeOK, Types
  <2> QED BY <2>1, <2>2 DEF GetMapLast
<1>4. TypeOK'
  BY <1>1, <1>2, <1>3 DEF TypeOK, Labels, Grows
<1>5. Progress'
  BY <1>1 DEF Progress
<1>6. Owners'
  <2>1. at' \in pool'
    BY <1>1, <1>2 DEF Owners
  <2> QED BY <1>1, <1>2, <2>1, OwnersKept DEF Owners
<1>7. Key'
  BY <1>1, <1>3 DEF Key
<1>8. Loaded'
  BY <1>1, <1>2, LoadedKept
<1> QED BY <1>4, <1>5, <1>6, <1>7, <1>8

LEMMA ConvertInv == ASSUME IInv, Convert PROVE IInv'
<1> USE DEF IInv
<1>1. /\ pc = "convert" /\ pc' = "exit"
      /\ KernelMmap' = [f \in Listed |-> MemoryMap[f] = "conventional"]
      /\ UNCHANGED <<memory, content, file, base, tables, graphics, pool, MemoryMap, fits, refused, at, events>>
  BY DEF Convert, loaded
<1>2. KernelFrames' = KernelFrames /\ TablePages' = TablePages
  BY <1>1 DEF KernelFrames, TablePages
<1>3. KernelMmap' \in [Listed -> BOOLEAN]
  BY <1>1
<1>4. TypeOK'
  BY <1>1, <1>3 DEF TypeOK, Labels
<1>5. Progress'
  BY <1>1 DEF Progress
<1>6. Owners'
  BY <1>1, <1>2 DEF Owners
<1>7. Key'
  BY <1>1 DEF Key
<1>8. Loaded'
  BY <1>1, LoadedKept
<1> QED BY <1>4, <1>5, <1>6, <1>7, <1>8

LEMMA ExitBootServicesInv == ASSUME IInv, ExitBootServices PROVE IInv'
<1> USE DEF IInv
<1>1. /\ pc = "exit" /\ pc' = IF fits THEN "kernel" ELSE "returned"
      /\ UNCHANGED <<memory, content, file, base, tables, graphics, pool, MemoryMap, fits, refused, at,
                     KernelMmap, events>>
  BY DEF ExitBootServices, loaded, map
<1>2. KernelFrames' = KernelFrames /\ TablePages' = TablePages
  BY <1>1 DEF KernelFrames, TablePages
<1>3. TypeOK'
  BY <1>1 DEF TypeOK, Labels
<1>4. Progress'
  BY <1>1 DEF Progress
<1>5. Owners'
  BY <1>1, <1>2 DEF Owners
<1>6. Key'
  BY <1>1 DEF Key
<1>7. Loaded'
  BY <1>1, LoadedKept
<1> QED BY <1>3, <1>4, <1>5, <1>6, <1>7

LEMMA FirmwareAllocatesInv == ASSUME IInv, FirmwareAllocates PROVE IInv'
<1> USE DEF IInv
<1>1. PICK p \in Frames : memory[p] = "conventional" /\ memory' = [memory EXCEPT ![p] = "boot"]
  BY DEF FirmwareAllocates
<1>2. /\ pc \notin {"kernel", "returned", "lost"} /\ events < MaxEvents /\ events' = events + 1
      /\ fits' = FALSE
      /\ UNCHANGED <<pc, content, file, base, tables, graphics, pool, MemoryMap, refused, at, KernelMmap>>
  BY DEF FirmwareAllocates, loaded
<1>3. Grows
  BY <1>1 DEF TypeOK, Grows, Types
<1>4. TypeOK'
  <2>1. events' \in 0..MaxEvents
    BY <1>2, BootAssumption DEF TypeOK
  <2> QED BY <1>2, <1>3, <2>1 DEF TypeOK, Grows
<1>5. Progress'
  BY <1>2 DEF Progress
<1>6. Owners'
  BY <1>2, <1>3, OwnersKept DEF Owners
<1>7. Key'
  BY <1>2 DEF Key
<1>8. Loaded'
  BY <1>2, LoadedKept
<1> QED BY <1>4, <1>5, <1>6, <1>7, <1>8

LEMMA StutterInv == ASSUME IInv, UNCHANGED vars PROVE IInv'
<1> USE DEF IInv, vars, loaded, map
<1>1. KernelFrames' = KernelFrames /\ TablePages' = TablePages
  BY DEF KernelFrames, TablePages
<1>2. TypeOK'
  BY DEF TypeOK
<1>3. Progress'
  BY DEF Progress
<1>4. Owners'
  BY <1>1 DEF Owners
<1>5. Key'
  BY DEF Key
<1>6. Loaded'
  BY <1>1 DEF Loaded
<1> QED BY <1>2, <1>3, <1>4, <1>5, <1>6

LEMMA StepInv == IInv /\ [Next]_vars => IInv'
<1> SUFFICES ASSUME IInv, [Next]_vars PROVE IInv'
  OBVIOUS
<1>1. CASE LoadFails
  <2>1. Fail /\ pc # "lost"
    BY <1>1 DEF LoadFails
  <2> QED BY <2>1, FailInv
<1>2. CASE Next /\ ~LoadFails
  BY <1>2, LoadKernelInv, AllocateTableInv, LoadCr3Inv, GetGopInfoInv, GetMapSizeInv, GetMapInv,
     AllocateKernelMmapInv, GetMapLastInv, ConvertInv, ExitBootServicesInv, FirmwareAllocatesInv
     DEF Next
<1>3. CASE UNCHANGED vars
  BY <1>3, StutterInv
<1> QED BY <1>1, <1>2, <1>3

-----------------------------------------------------------------------------
(* Every frame the loader hands over is free: at the jump the key fits, so,  *)
(* if the last map was not refused, the map the kernel was given is the      *)
(* firmware's, and whatever anybody owns is not conventional memory in it.   *)
LEMMA HandoffOfInv == IInv => HandoffSafe
<1> SUFFICES ASSUME IInv, pc = "kernel", ~refused
             PROVE  /\ FreeFrames \intersect (KernelFrames \union TableFrames \union {at} \union Stack) = {}
                    /\ \A f \in FreeFrames : memory[f] = "conventional"
  BY DEF HandoffSafe
<1> USE DEF IInv
<1>1. KernelMmap = [f \in Listed |-> memory[f] = "conventional"]
  BY DEF Key
<1>2. \A f \in FreeFrames : memory[f] = "conventional"
  BY <1>1 DEF FreeFrames
<1>3. TableFrames = TablePages
  <2>1. \A i \in DOMAIN tables : tables[i] # 0
    BY DEF Progress
  <2> QED BY <2>1 DEF TableFrames, TablePages
<1>4. \A f \in KernelFrames \union TableFrames \union {at} \union Stack : memory[f] # "conventional"
  BY <1>3 DEF Owners
<1> QED BY <1>2, <1>4

(* A kernel linked to start at KernelVirtualBase is found, page by page,     *)
(* where SetupPagingC maps it.                                               *)
LEMMA InPlaceOfInv == IInv => KernelInPlace
<1> SUFFICES ASSUME IInv, pc = "kernel", MinVaddr(file) = VirtualBase, file.pages <= ReadCap,
                    NEW v \in Virtual(file) \intersect Mapped
             PROVE  \E s \in {file.segments[i] : i \in DOMAIN file.segments} :
                      /\ v \in Pages(s.vaddr, s.memsz)
                      /\ content[base + v - VirtualBase]
                           = IF v - s.vaddr < s.filesz THEN <<"file", v - s.vaddr + s.offset>> ELSE Zero
  BY DEF KernelInPlace
<1> USE DEF IInv
<1>1. file \in Files
  BY DEF Progress
<1>2. file # NoFile /\ KernelFrames = Pages(base, Size(file))
  BY <1>1, NoFileOutside DEF KernelFrames
<1>3. /\ v \in Nat /\ VirtualBase \in Nat /\ VirtualBase <= v
      /\ MaxVaddr(file) \in Nat /\ v <= MaxVaddr(file)
  BY <1>1, VirtualSpan
<1> DEFINE f == base + v - VirtualBase
<1>4. base \in Nat /\ N \in Nat
  BY BootAssumption DEF TypeOK, Frames
<1>5. f \in KernelFrames
  BY <1>2, <1>3, <1>4 DEF Pages, Size
<1>6. MinVaddr(file) + f - base = v
  BY <1>3, <1>4
<1> HIDE DEF f
<1>7. content[f] = Image(file, v)
  BY <1>2, <1>5, <1>6 DEF Loaded
<1>8. PICK i \in DOMAIN file.segments :
        /\ v \in Pages(file.segments[i].vaddr, file.segments[i].memsz)
        /\ Image(file, v) = IF v - file.segments[i].vaddr < file.segments[i].filesz
                              THEN <<"file", v - file.segments[i].vaddr + file.segments[i].offset>>
                              ELSE Zero
  BY <1>1, <1>3, ImageValue
<1> QED BY <1>7, <1>8 DEF f

(* The loader's state is what its types say, whatever the firmware does.     *)
THEOREM BootTypeOK == Spec => []TypeOK
<1>1. IInv => TypeOK
  BY DEF IInv
<1> QED BY InitInv, StepInv, <1>1, PTL DEF Spec

(* ElfBootLoader.c hands the kernel no frame that somebody else still uses,  *)
(* for every memory map, kernel size and moment the firmware allocates,      *)
(* unless the last GetMemoryMap is refused.                                  *)
THEOREM BootHandoffSafe == Spec => []HandoffSafe
BY InitInv, StepInv, HandoffOfInv, PTL DEF Spec

(* EfiElfLoader.c: for every kernel that starts at KernelVirtualBase and     *)
(* that the loader reads whole, and every address it was loaded at, each of  *)
(* its pages within the 64 MiB that SetupPagingC maps is mapped to itself.   *)
THEOREM BootKernelInPlace == Spec => []KernelInPlace
BY InitInv, StepInv, InPlaceOfInv, PTL DEF Spec
=============================================================================
