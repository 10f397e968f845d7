----------------------------- MODULE Fat32Proofs -----------------------------
(***************************************************************************)
(* Proofs about the FAT32 driver, for every volume, path, size and pattern *)
(* of disk errors and power losses: types, how far the mirror of the FAT   *)
(* can be behind, and that the root directory is never given away; and, for*)
(* volumes that hold a tree and callers that do as they are told, that the *)
(* tree stays one, that results are true, what callers see of it all, and  *)
(* that no space is lost, or little when power is.                         *)
(***************************************************************************)
EXTENDS Fat32Tree, WellFoundedInduction, TLAPS, FiniteSetTheorems, SequenceTheorems

(* Induction over the natural numbers, stated of sets.                       *)
LEMMA LeastElement ==
  ASSUME NEW T \in SUBSET Nat, T # {}
  PROVE  \E x \in T : \A y \in T : x <= y
<1> DEFINE R == OpToRel(<, Nat)
<1>1. R = {z \in Nat \X Nat : z[1] < z[2]}
  BY DEF OpToRel
<1>2. IsWellFoundedOn(R, Nat)
  BY NatLessThanWellFounded
<1> HIDE DEF R
<1>3. PICK x \in T : \A y \in T : ~ (<<y, x>> \in R)
  BY <1>2, WFMin
<1>4. \A y \in T : <<y, x>> \in R <=> y < x
  BY <1>1
<1>5. ASSUME NEW y \in T PROVE x <= y
  <2>1. ~ (y < x)
    BY <1>3, <1>4
  <2> QED BY <2>1
<1> QED BY <1>5

(* A set that holds 0 and the successor of each of its elements is Nat.      *)
LEMMA SetInduction ==
  ASSUME NEW S \in SUBSET Nat, 0 \in S, \A n \in S : n + 1 \in S
  PROVE  S = Nat
<1> SUFFICES ASSUME Nat \ S # {} PROVE FALSE
  OBVIOUS
<1>1. PICK x \in Nat \ S : \A y \in Nat \ S : x <= y
  BY LeastElement
<1>2. x # 0 /\ x - 1 \in Nat
  OBVIOUS
<1>3. x - 1 \in S
  BY <1>1, <1>2
<1> QED BY <1>2, <1>3

-----------------------------------------------------------------------------

AnyName == Names \union {".", ".."}

LEMMA MinIs ==
  ASSUME NEW S \in SUBSET Nat, S # {}
  PROVE  Min(S) \in S
<1>1. \E x \in S : \A y \in S : x <= y
  BY LeastElement
<1> QED BY <1>1 DEF Min

LEMMA Constants ==
  /\ LastCluster \in Nat /\ LastCluster >= 2 /\ Slots \in Nat /\ Slots >= 2
  /\ Index \subseteq Nat /\ {0, 1, 2} \subseteq Index /\ EOC \in Nat /\ EOC \notin Index
  /\ Root = 2 /\ FREE = 0 /\ NONE = 0
<1>1. LastCluster \in Nat /\ LastCluster >= 2 /\ Slots \in Nat /\ Slots >= 2
  BY Fat32Assumption DEF Root
<1> QED BY <1>1 DEF Index, EOC, Root, FREE, NONE

LEMMA SlotsTyped ==
  /\ END \in Slot /\ DELETED \in Slot
  /\ \A s \in Slot : s.cluster \in Index
  /\ \A k \in Entries, n \in DISKNAMES, c \in Index : [kind |-> k, name |-> n, cluster |-> c] \in Slot
<1> DEFINE InUse == [kind : Entries, name : DISKNAMES, cluster : Index]
<1>1. Slot = InUse \union {END, DELETED}
  BY DEF Slot
<1>2. END.cluster = 0 /\ DELETED.cluster = 0 /\ 0 \in Index
  BY Constants DEF END, DELETED
<1>3. \A s \in InUse : s.cluster \in Index
  OBVIOUS
<1>4. \A k \in Entries, n \in DISKNAMES, c \in Index : [kind |-> k, name |-> n, cluster |-> c] \in InUse
  OBVIOUS
<1> HIDE DEF InUse
<1> QED BY <1>1, <1>2, <1>3, <1>4

LEMMA SlotOfIs ==
  ASSUME NEW c \in Index, NEW n \in AnyName
  PROVE  /\ SlotOf[c][n] \in 0..Slots
         /\ SlotOf[c][n] # 0 => data[c][SlotOf[c][n]].name = n
<1> DEFINE T == {i \in 1..Slots : Named(c, i, n)}
           first == CHOOSE i \in 1..Slots : Named(c, i, n) /\ \A j \in 1..(i - 1) : ~Named(c, j, n)
<1>1. SlotOf[c][n] = IF \A i \in 1..Slots : ~Named(c, i, n) THEN 0 ELSE first
  BY DEF SlotOf, AnyName
<1>2. CASE \A i \in 1..Slots : ~Named(c, i, n)
  BY <1>1, <1>2, Constants
<1>3. CASE ~ \A i \in 1..Slots : ~Named(c, i, n)
  <2>1. PICK i \in T : \A j \in T : i <= j
    <3>1. T \in SUBSET Nat /\ T # {}
      BY <1>3
    <3> HIDE DEF T
    <3> QED BY <3>1, LeastElement
  <2>2. ASSUME NEW j \in 1..(i - 1), Named(c, j, n) PROVE FALSE
    <3>1. j \in 1..Slots /\ j < i
      BY Constants
    <3>2. j \in T
      BY <2>2, <3>1
    <3> QED BY <2>1, <3>1, <3>2
  <2>3. \E k \in 1..Slots : Named(c, k, n) /\ \A j \in 1..(k - 1) : ~Named(c, j, n)
    BY <2>2
  <2>4. first \in 1..Slots /\ Named(c, first, n)
    BY <2>3
  <2> HIDE DEF first
  <2>5. SlotOf[c][n] = first
    BY <1>1, <1>3
  <2> QED BY <2>4, <2>5, Constants DEF Named
<1> QED BY <1>2, <1>3

LEMMA LookupIs ==
  ASSUME data \in [Index -> Cluster], NEW c \in Index, NEW n \in AnyName
  PROVE  /\ Lookup[c][n] \in Slot
         /\ \/ Lookup[c][n] = END
            \/ Lookup[c][n].name = n /\ \E i \in 1..Slots : Lookup[c][n] = data[c][i]
<1>1. Lookup[c][n] = IF c = NONE \/ SlotOf[c][n] = 0 THEN END ELSE data[c][SlotOf[c][n]]
  BY DEF Lookup, AnyName
<1>2. SlotOf[c][n] \in 0..Slots /\ (SlotOf[c][n] # 0 => data[c][SlotOf[c][n]].name = n)
  BY SlotOfIs
<1>3. CASE c = NONE \/ SlotOf[c][n] = 0
  BY <1>1, <1>3, SlotsTyped
<1>4. CASE ~ (c = NONE \/ SlotOf[c][n] = 0)
  <2>1. SlotOf[c][n] \in 1..Slots /\ Lookup[c][n] = data[c][SlotOf[c][n]]
    BY <1>1, <1>2, <1>4, Constants
  <2>2. data[c][SlotOf[c][n]] \in Slot
    BY <2>1 DEF Cluster
  <2> QED BY <1>2, <1>4, <2>1, <2>2
<1> QED BY <1>3, <1>4

(* Where a walk starts, and what its recursion amounts to.                   *)
WalkStart == [kind |-> "dir", name |-> "", cluster |-> Root]
IsWalk(p, n, w) ==
  /\ w[0] = WalkStart
  /\ \A k \in 1..n : w[k] = Lookup[w[k - 1].cluster][p[k]]

LEMMA WalkExists ==
  ASSUME NEW p, NEW n \in Nat
  PROVE  \E w : IsWalk(p, n, w)
<1> DEFINE S == {m \in Nat : \E w : IsWalk(p, m, w)}
<1>1. 0 \in S
  <2>1. IsWalk(p, 0, [k \in {0} |-> WalkStart])
    BY DEF IsWalk
  <2> QED BY <2>1
<1>2. ASSUME NEW m \in S PROVE m + 1 \in S
  <2>1. PICK w : IsWalk(p, m, w)
    OBVIOUS
  <2> DEFINE q == [k \in 0..m + 1 |-> IF k <= m THEN w[k] ELSE Lookup[w[m].cluster][p[k]]]
  <2>2. ASSUME NEW k \in 1..m + 1 PROVE q[k] = Lookup[q[k - 1].cluster][p[k]]
    <3>0. m \in Nat /\ k - 1 \in 0..m + 1 /\ k \in 0..m + 1 /\ k - 1 <= m
      OBVIOUS
    <3>1. q[k - 1] = w[k - 1]
      BY <3>0
    <3>2. CASE k <= m
      <4>1. q[k] = w[k] /\ k \in 1..m
        BY <3>0, <3>2
      <4> HIDE DEF q
      <4> QED BY <2>1, <3>1, <4>1 DEF IsWalk
    <3>3. CASE k = m + 1
      <4>1. q[k] = Lookup[w[m].cluster][p[k]] /\ k - 1 = m
        BY <3>0, <3>3
      <4> HIDE DEF q
      <4> QED BY <3>1, <4>1
    <3> QED BY <3>0, <3>2, <3>3
  <2>3. q[0] = WalkStart
    BY <2>1 DEF IsWalk
  <2> HIDE DEF q
  <2>4. IsWalk(p, m + 1, q)
    BY <2>2, <2>3 DEF IsWalk
  <2> QED BY <2>4
<1>3. S = Nat
  <2>1. S \in SUBSET Nat
    OBVIOUS
  <2> HIDE DEF S
  <2> QED BY <1>1, <1>2, <2>1, SetInduction
<1> QED BY <1>3

LEMMA WalkIs ==
  ASSUME NEW p, Len(p) \in Nat
  PROVE  IsWalk(p, Len(p), Walk(p))
<1> DEFINE step(w) == [k \in 0..Len(p) |-> IF k = 0 THEN WalkStart ELSE Lookup[w[k - 1].cluster][p[k]]]
<1>1. PICK u : IsWalk(p, Len(p), u)
  BY WalkExists
<1> DEFINE q == [k \in 0..Len(p) |-> u[k]]
<1>2. q = step(q)
  <2> SUFFICES ASSUME NEW k \in 0..Len(p) PROVE q[k] = step(q)[k]
    OBVIOUS
  <2>1. CASE k = 0
    BY <1>1, <2>1 DEF IsWalk
  <2>2. CASE k # 0
    <3>1. k \in 1..Len(p) /\ k - 1 \in 0..Len(p)
      BY <2>2
    <3>2. u[k] = Lookup[u[k - 1].cluster][p[k]]
      BY <1>1, <3>1 DEF IsWalk
    <3>3. q[k] = u[k] /\ q[k - 1] = u[k - 1]
      BY <3>1
    <3> HIDE DEF q
    <3>4. step(q)[k] = Lookup[q[k - 1].cluster][p[k]]
      BY <2>2
    <3> HIDE DEF step
    <3> QED BY <3>2, <3>3, <3>4
  <2> QED BY <2>1, <2>2
<1>3. Walk(p) = CHOOSE w : w = step(w)
  BY DEF Walk, WalkStart
<1> DEFINE w == Walk(p)
<1>4. w = step(w)
  <2> HIDE DEF q, step
  <2> QED BY <1>2, <1>3
<1> HIDE DEF w
<1>5. w[0] = WalkStart
  <2>1. w[0] = step(w)[0]
    <3> HIDE DEF step
    <3> QED BY <1>4
  <2> QED BY <2>1
<1>6. ASSUME NEW k \in 1..Len(p) PROVE w[k] = Lookup[w[k - 1].cluster][p[k]]
  <2>1. w[k] = step(w)[k]
    <3> HIDE DEF step
    <3> QED BY <1>4
  <2>2. k \in 0..Len(p) /\ k # 0
    OBVIOUS
  <2> QED BY <2>1, <2>2
<1>7. IsWalk(p, Len(p), w)
  BY <1>5, <1>6 DEF IsWalk
<1> QED BY <1>7 DEF w

(* Every entry of a walk starts at a cluster.                                *)
LEMMA WalkTyped ==
  ASSUME data \in [Index -> Cluster], NEW p \in Paths, NEW k \in 0..Len(p)
  PROVE  Walk(p)[k].cluster \in Index
<1>0. p \in Seq(AnyName) /\ Len(p) \in Nat
  <2>1. p \in Seq(Names \union {".", ".."})
    BY Fat32Assumption
  <2>2. p \in Seq(AnyName)
    BY <2>1 DEF AnyName
  <2> QED BY <2>2, LenProperties
<1> DEFINE w == Walk(p)
           S == {n \in Nat : n <= Len(p) => w[n].cluster \in Index}
<1>1. IsWalk(p, Len(p), w)
  BY <1>0, WalkIs
<1> HIDE DEF w
<1>2. 0 \in S
  <2>1. w[0] = WalkStart
    BY <1>1 DEF IsWalk
  <2>2. WalkStart.cluster = Root
    BY DEF WalkStart
  <2>3. w[0].cluster \in Index
    BY <2>1, <2>2, Constants
  <2> QED BY <2>3
<1>3. ASSUME NEW n \in S PROVE n + 1 \in S
  <2> SUFFICES ASSUME n + 1 <= Len(p) PROVE w[n + 1].cluster \in Index
    OBVIOUS
  <2>1. n + 1 \in 1..Len(p) /\ (n + 1) - 1 = n /\ w[n].cluster \in Index
    BY <1>0
  <2>2. p[n + 1] \in AnyName
    BY <1>0, <2>1
  <2>3. w[n + 1] = Lookup[w[n].cluster][p[n + 1]]
    BY <1>1, <2>1 DEF IsWalk
  <2>4. Lookup[w[n].cluster][p[n + 1]] \in Slot
    BY <2>1, <2>2, LookupIs
  <2> QED BY <2>3, <2>4, SlotsTyped
<1>4. k \in S
  <2>1. S \in SUBSET Nat
    OBVIOUS
  <2> HIDE DEF S
  <2>2. S = Nat
    BY <1>2, <1>3, <2>1, SetInduction
  <2> QED BY <1>0, <2>2
<1> QED BY <1>0, <1>4 DEF w

LEMMA PathEnds ==
  ASSUME data \in [Index -> Cluster], NEW p \in Paths
  PROVE  /\ ParentCluster(p) \in Index
         /\ Last(p) \in Names /\ Last(p) \in AnyName
         /\ EntryOf(p) = Lookup[ParentCluster(p)][Last(p)]
<1>0. p \in Seq(AnyName) /\ Len(p) \in Nat /\ Len(p) # 0 /\ p[Len(p)] \in Names
  <2>1. p \in Seq(Names \union {".", ".."}) /\ p # <<>> /\ p[Len(p)] \in Names
    BY Fat32Assumption
  <2>2. p \in Seq(AnyName)
    BY <2>1 DEF AnyName
  <2> QED BY <2>1, <2>2, LenProperties, EmptySeq
<1>1. Len(p) - 1 \in 0..Len(p) /\ Len(p) \in 1..Len(p)
  BY <1>0
<1>2. ParentCluster(p) \in Index
  BY <1>1, WalkTyped DEF ParentCluster
<1>3. EntryOf(p) = Lookup[ParentCluster(p)][Last(p)]
  <2>1. IsWalk(p, Len(p), Walk(p))
    BY <1>0, WalkIs
  <2> DEFINE w == Walk(p)
  <2> HIDE DEF w
  <2>2. w[Len(p)] = Lookup[w[Len(p) - 1].cluster][p[Len(p)]]
    BY <1>1, <2>1 DEF IsWalk, w
  <2> QED BY <2>2 DEF EntryOf, ParentCluster, Last, w
<1> QED BY <1>0, <1>2, <1>3 DEF Last, AnyName

-----------------------------------------------------------------------------
(* Types.                                                                    *)
Frame == [call : Calls \union {"none"}, path : Paths \union {<<>>}, parent : Index,
          saved : Cluster, slot : 0..Slots, new : Index, cluster : Index, next : Index]
Fats  == [Index -> Index \union {EOC}]

DiskTyped   == fat \in Fats /\ mirror \in Fats /\ data \in [Index -> Cluster]
ResultTyped == pc \in Labels /\ op \in Frame /\ ret \in {0, -1}
Running     == pc # "idle" => op.path \in Paths /\ op.call \in Calls
CountsTyped == faults \in 0..MaxFaults /\ crashes \in 0..MaxCrashes

TypeInv == DiskTyped /\ ResultTyped /\ Running /\ CountsTyped /\ torn \subseteq Paths
StrayedTyped == strayed \in BOOLEAN

LEMMA TypeInvTypes == TypeInv /\ StrayedTyped => TypeOK
BY DEF TypeInv, StrayedTyped, TypeOK, DiskTyped, ResultTyped, CountsTyped, Frame, Fats

LEMMA NoOpTyped == NoOp \in Frame
<1>1. [i \in 1..Slots |-> END] \in Cluster
  BY SlotsTyped DEF Cluster
<1> HIDE DEF Cluster
<1> QED BY <1>1, Constants DEF NoOp, Frame

(* What a write did, and what it is counted as.                              *)
LEMMA OutcomesAre ==
  ASSUME NEW w \in ReadWriteOutcomes
  PROVE  w.stored \in BOOLEAN /\ w.ok \in BOOLEAN /\ (w # Perfect => faults < MaxFaults)
<1> DEFINE Any == [stored : BOOLEAN, ok : BOOLEAN]
<1>1. Perfect \in Any /\ [stored |-> FALSE, ok |-> FALSE] \in Any
  BY DEF Perfect
<1>2. \A x \in Any : x.stored \in BOOLEAN /\ x.ok \in BOOLEAN
  OBVIOUS
<1>3. WriteOutcomes \subseteq Any /\ (w \in WriteOutcomes /\ w # Perfect => faults < MaxFaults)
  <2>1. CASE May("write")
    BY <2>1 DEF WriteOutcomes, May
  <2>2. CASE ~May("write")
    BY <1>1, <2>2 DEF WriteOutcomes
  <2> QED BY <2>1, <2>2
<1>4. w \notin WriteOutcomes => w = [stored |-> FALSE, ok |-> FALSE] /\ faults < MaxFaults
  BY DEF ReadWriteOutcomes, May
<1> HIDE DEF Any
<1> QED BY <1>1, <1>2, <1>3, <1>4

LEMMA WritesAreReadWrites == WriteOutcomes \subseteq ReadWriteOutcomes
BY DEF ReadWriteOutcomes

LEMMA Counted ==
  ASSUME faults \in 0..MaxFaults, NEW b \in BOOLEAN, Count(b), b => faults < MaxFaults
  PROVE  faults' \in 0..MaxFaults /\ faults' = faults + IF b THEN 1 ELSE 0
<1>1. MaxFaults \in Nat
  BY Fat32Assumption
<1>2. faults' = IF b THEN faults + 1 ELSE faults
  BY DEF Count
<1> QED BY <1>1, <1>2

LEMMA PutTyped ==
  ASSUME NEW V, NEW copy \in [Index -> V], NEW c \in Index, NEW v \in V, NEW w
  PROVE  Put(copy, c, v, w) \in [Index -> V]
BY DEF Put

LEMMA NextClusterTyped ==
  ASSUME fat \in Fats, NEW c \in Index
  PROVE  NextCluster(c) \in Index
BY Constants DEF NextCluster, Fats

LEMMA MirrorTyped ==
  ASSUME mirror \in Fats, faults \in 0..MaxFaults,
         NEW c \in Index, NEW v \in Index \union {EOC}, UpdateMirror(c, v)
  PROVE  mirror' \in Fats /\ faults' \in 0..MaxFaults
<1>1. PICK w \in ReadWriteOutcomes :
        /\ mirror' = IF FatCount > 1 THEN Put(mirror, c, v, w) ELSE mirror
        /\ Count(FatCount > 1 /\ w # Perfect)
  BY DEF UpdateMirror
<1>2. mirror' \in Fats
  BY <1>1, PutTyped DEF Fats
<1>3. faults' \in 0..MaxFaults
  BY <1>1, OutcomesAre, Counted
<1> QED BY <1>2, <1>3

LEMMA NewDirectoryTyped ==
  ASSUME NEW c \in Index, NEW d \in Index
  PROVE  NewDirectory(c, d) \in Cluster
<1>1. /\ [kind |-> "dir", name |-> ".", cluster |-> c] \in Slot
      /\ [kind |-> "dir", name |-> "..", cluster |-> d] \in Slot
  BY SlotsTyped DEF Entries, DISKNAMES
<1> QED BY <1>1, SlotsTyped DEF NewDirectory, Cluster

(* Returning leaves nothing behind.                                          *)
LEMMA Returned ==
  ASSUME NEW v \in {0, -1}, Return(v)
  PROVE  ResultTyped' /\ Running' /\ pc' = "idle" /\ op' = NoOp
BY NoOpTyped DEF Return, ResultTyped, Running, Labels

LEMMA Gone ==
  ASSUME TypeInv, NEW l \in Labels, NEW f \in Frame, f.path \in Paths, f.call \in Calls, Goto(l, f)
  PROVE  ResultTyped' /\ Running' /\ pc' = l /\ op' = f
BY DEF Goto, ResultTyped, Running, TypeInv


LEMMA BeginTyped ==
  ASSUME data \in [Index -> Cluster], NEW p \in Paths, NEW call \in Calls
  PROVE  /\ Begin(call, p) \in Frame
         /\ Begin(call, p).path = p /\ Begin(call, p).call = call
<1>1. ParentCluster(p) \in Index /\ data[ParentCluster(p)] \in Cluster
  BY PathEnds
<1> HIDE DEF Cluster, Index
<1> QED BY <1>1, NoOpTyped DEF Begin, Frame

LEMMA StartCreateTyped ==
  ASSUME TypeInv, NEW p \in Paths, NEW call \in Calls, StartCreate(call, p)
  PROVE  TypeInv'
<1>1. ResultTyped' /\ Running'
  <2>1. Return(-1) \/ Goto("allocate", Begin(call, p))
    BY DEF StartCreate
  <2>2. Begin(call, p) \in Frame /\ Begin(call, p).path = p /\ Begin(call, p).call = call
    BY BeginTyped DEF TypeInv, DiskTyped
  <2>3. Goto("allocate", Begin(call, p)) => ResultTyped' /\ Running'
    BY <2>2, Gone DEF Labels
  <2> QED BY <2>1, <2>3, Returned
<1>2. UNCHANGED <<disk, faults, crashes, torn>>
  BY DEF StartCreate
<1> QED BY <1>1, <1>2 DEF TypeInv, DiskTyped, CountsTyped, disk

(* Where remove_entry starts.                                                *)
RemoveFrame(call, p) ==
  LET slot == SlotOf[ParentCluster(p)][Last(p)]
  IN  [Begin(call, p) EXCEPT !.slot = slot, !.cluster = data[ParentCluster(p)][slot].cluster]

LEMMA RemoveFrameTyped ==
  ASSUME data \in [Index -> Cluster], NEW p \in Paths, NEW call \in Calls,
         SlotOf[ParentCluster(p)][Last(p)] # 0
  PROVE  /\ RemoveFrame(call, p) \in Frame
         /\ RemoveFrame(call, p).path = p /\ RemoveFrame(call, p).call = call
<1> DEFINE s == SlotOf[ParentCluster(p)][Last(p)]
<1>1. ParentCluster(p) \in Index /\ s \in 0..Slots
  BY PathEnds, SlotOfIs
<1>2. s \in 1..Slots
  BY <1>1, Constants
<1>3. data[ParentCluster(p)] \in Cluster
  BY <1>1
<1>4. data[ParentCluster(p)][s].cluster \in Index
  BY <1>2, <1>3, SlotsTyped DEF Cluster
<1>5. RemoveFrame(call, p) = [Begin(call, p) EXCEPT !.slot = s, !.cluster = data[ParentCluster(p)][s].cluster]
  BY DEF RemoveFrame
<1> DEFINE f == Begin(call, p)
           x == data[ParentCluster(p)][s].cluster
<1>6. f \in Frame /\ f.path = p /\ f.call = call
  BY BeginTyped
<1>7. x \in Index /\ s \in 0..Slots /\ RemoveFrame(call, p) = [f EXCEPT !.slot = s, !.cluster = x]
  BY <1>1, <1>4, <1>5
<1> HIDE DEF s, f, x, Cluster, Index
<1> QED BY <1>6, <1>7 DEF Frame

LEMMA StartRemoveIs ==
  ASSUME NEW p, NEW call, StartRemove(call, p)
  PROVE  \/ Return(-1)
         \/ SlotOf[ParentCluster(p)][Last(p)] # 0 /\ Goto("free", RemoveFrame(call, p))
BY DEF StartRemove, RemoveFrame

LEMMA StartRemoveTyped ==
  ASSUME TypeInv, NEW p \in Paths, NEW call \in Calls, StartRemove(call, p)
  PROVE  TypeInv'
<1>1. ResultTyped' /\ Running'
  <2>1. CASE Return(-1)
    BY <2>1, Returned
  <2>2. CASE SlotOf[ParentCluster(p)][Last(p)] # 0 /\ Goto("free", RemoveFrame(call, p))
    <3>1. /\ RemoveFrame(call, p) \in Frame
          /\ RemoveFrame(call, p).path = p /\ RemoveFrame(call, p).call = call
      BY <2>2, RemoveFrameTyped DEF TypeInv, DiskTyped
    <3>2. "free" \in Labels
      BY DEF Labels
    <3> DEFINE f == RemoveFrame(call, p)
    <3> HIDE DEF f
    <3>3. f \in Frame /\ f.path \in Paths /\ f.call \in Calls /\ Goto("free", f)
      BY <2>2, <3>1 DEF f
    <3> QED BY <3>2, <3>3, Gone
  <2> QED BY <2>1, <2>2, StartRemoveIs
<1>2. UNCHANGED <<disk, faults, crashes, torn>>
  BY DEF StartRemove
<1> QED BY <1>1, <1>2 DEF TypeInv, DiskTyped, CountsTyped, disk

LEMMA StartFailsTyped ==
  ASSUME TypeInv, StartFails
  PROVE  TypeInv'
<1>1. ResultTyped' /\ Running'
  BY Returned DEF StartFails
<1>2. faults' \in 0..MaxFaults
  <2>1. CASE May("read") /\ Count(TRUE)
    BY <2>1, Counted DEF May, TypeInv, CountsTyped
  <2> QED BY <2>1 DEF StartFails, TypeInv, CountsTyped
<1>3. UNCHANGED <<disk, crashes, torn>>
  BY DEF StartFails
<1> QED BY <1>1, <1>2, <1>3 DEF TypeInv, DiskTyped, CountsTyped, disk

(* What a step that allocates does, with the outcome of its reads and write. *)
LEMMA AllocateIs ==
  ASSUME TypeInv, Allocate
  PROVE  \/ Return(-1) /\ UNCHANGED fat /\ faults' \in {faults, faults + 1} /\ faults' \in 0..MaxFaults
         \/ \E c \in Index, w \in ReadWriteOutcomes :
              /\ fat[c] = FREE /\ fat' = Put(fat, c, EOC, w)
              /\ IF w.ok THEN Goto("mirror_used", [op EXCEPT !.new = c]) ELSE Return(-1)
              /\ faults' \in {faults, faults + 1} /\ faults' \in 0..MaxFaults /\ (w # Perfect => faults' = faults + 1)
<1>1. PICK unread \in IF May("read") THEN SUBSET {c \div PerSector : c \in Index} ELSE {{}},
           w \in WriteOutcomes :
        LET free == {c \in Index : fat[c] = FREE /\ c \div PerSector \notin unread} IN
        IF free = {}
          THEN Return(-1) /\ UNCHANGED fat /\ Count(unread # {})
          ELSE /\ fat' = Put(fat, Min(free), EOC, w)
               /\ IF w.ok THEN Goto("mirror_used", [op EXCEPT !.new = Min(free)]) ELSE Return(-1)
               /\ Count(unread # {} \/ w # Perfect)
  BY DEF Allocate
<1> DEFINE free == {c \in Index : fat[c] = FREE /\ c \div PerSector \notin unread}
<1>2. free \in SUBSET Nat
  BY Constants
<1>5. MaxFaults \in Nat /\ faults \in 0..MaxFaults
  BY Fat32Assumption DEF TypeInv, CountsTyped
<1>0. (unread # {} => faults < MaxFaults) /\ (w # Perfect => faults < MaxFaults)
  BY WritesAreReadWrites, OutcomesAre DEF May
<1>3. CASE free = {}
  <2>1. Return(-1) /\ UNCHANGED fat /\ Count(unread # {})
    BY <1>1, <1>3
  <2>2. faults' \in {faults, faults + 1} /\ faults' \in 0..MaxFaults
    BY <1>0, <1>5, <2>1 DEF Count
  <2> QED BY <2>1, <2>2
<1>4. CASE free # {}
  <2> DEFINE c == Min(free)
  <2>1. c \in free
    <3> HIDE DEF free
    <3> QED BY <1>2, <1>4, MinIs
  <2>2. c \in Index /\ fat[c] = FREE
    BY <2>1
  <2>3. /\ fat' = Put(fat, c, EOC, w)
        /\ IF w.ok THEN Goto("mirror_used", [op EXCEPT !.new = c]) ELSE Return(-1)
        /\ Count(unread # {} \/ w # Perfect)
    BY <1>1, <1>4
  <2>4. w \in ReadWriteOutcomes
    BY WritesAreReadWrites
  <2> HIDE DEF c
  <2>5. faults' \in {faults, faults + 1} /\ faults' \in 0..MaxFaults /\ (w # Perfect => faults' = faults + 1)
    BY <1>0, <1>5, <2>3 DEF Count
  <2> QED BY <2>2, <2>3, <2>4, <2>5
<1> QED BY <1>3, <1>4


LEMMA FrameUpdates ==
  ASSUME TypeInv, pc # "idle", NEW c \in Index, NEW f,
         f \in {op, [op EXCEPT !.new = c], [op EXCEPT !.next = c], [op EXCEPT !.cluster = c],
                [op EXCEPT !.cluster = op.next, !.next = NONE]}
  PROVE  f \in Frame /\ f.path \in Paths /\ f.call \in Calls
<1>1. op \in Frame /\ op.path \in Paths /\ op.call \in Calls /\ NONE \in Index
  BY Constants DEF TypeInv, ResultTyped, Running
<1> HIDE DEF Cluster, Index
<1> QED BY <1>1 DEF Frame

LEMMA AllocateTyped ==
  ASSUME TypeInv, Allocate
  PROVE  TypeInv'
<1>0. pc # "idle" /\ UNCHANGED <<mirror, data, crashes, torn>>
  BY DEF Allocate
<1>1. fat' \in Fats /\ faults' \in 0..MaxFaults /\ ResultTyped' /\ Running'
  <2>1. CASE Return(-1) /\ UNCHANGED fat /\ faults' \in 0..MaxFaults
    BY <2>1, Returned DEF TypeInv, DiskTyped
  <2>2. CASE \E c \in Index, w \in ReadWriteOutcomes :
               /\ fat' = Put(fat, c, EOC, w) /\ faults' \in 0..MaxFaults
               /\ IF w.ok THEN Goto("mirror_used", [op EXCEPT !.new = c]) ELSE Return(-1)
    <3>1. PICK c \in Index, w \in ReadWriteOutcomes :
            /\ fat' = Put(fat, c, EOC, w) /\ faults' \in 0..MaxFaults
            /\ IF w.ok THEN Goto("mirror_used", [op EXCEPT !.new = c]) ELSE Return(-1)
      BY <2>2
    <3>2. fat' \in Fats
      BY <3>1, PutTyped DEF Fats, TypeInv, DiskTyped
    <3> DEFINE f == [op EXCEPT !.new = c]
    <3>3. f \in Frame /\ f.path \in Paths /\ f.call \in Calls
      BY <1>0, FrameUpdates
    <3>4. "mirror_used" \in Labels
      BY DEF Labels
    <3>5. Goto("mirror_used", f) \/ Return(-1)
      BY <3>1
    <3> HIDE DEF f
    <3> QED BY <3>1, <3>2, <3>3, <3>4, <3>5, Gone, Returned
  <2> QED BY <2>1, <2>2, AllocateIs
<1> QED BY <1>0, <1>1 DEF TypeInv, DiskTyped, CountsTyped

LEMMA MirrorUsedTyped ==
  ASSUME TypeInv, MirrorUsed
  PROVE  TypeInv'
<1>1. op.new \in Index /\ EOC \in Index \union {EOC} /\ pc # "idle"
  BY DEF TypeInv, ResultTyped, Frame, MirrorUsed
<1>2. mirror' \in Fats /\ faults' \in 0..MaxFaults
  BY <1>1, MirrorTyped DEF MirrorUsed, TypeInv, DiskTyped, CountsTyped
<1>3. ResultTyped' /\ Running'
  <2>1. op \in Frame /\ op.path \in Paths /\ op.call \in Calls
    BY <1>1 DEF TypeInv, Running, ResultTyped
  <2>2. "write_new" \in Labels /\ "write_parent" \in Labels
    BY DEF Labels
  <2>3. Goto("write_new", op) \/ Goto("write_parent", op)
    BY DEF MirrorUsed
  <2> QED BY <2>1, <2>2, <2>3, Gone
<1> QED BY <1>2, <1>3 DEF MirrorUsed, TypeInv, DiskTyped, CountsTyped

LEMMA WriteNewTyped ==
  ASSUME TypeInv, WriteNew
  PROVE  TypeInv'
<1>1. op.new \in Index /\ op.parent \in Index /\ pc # "idle"
  BY DEF TypeInv, ResultTyped, Frame, WriteNew
<1>2. PICK w \in WriteOutcomes : data' = Put(data, op.new, NewDirectory(op.new, op.parent), w)
                                 /\ Count(w # Perfect)
  BY DEF WriteNew
<1>3. data' \in [Index -> Cluster]
  BY <1>1, <1>2, NewDirectoryTyped, PutTyped DEF TypeInv, DiskTyped
<1>4. faults' \in 0..MaxFaults
  BY <1>2, WritesAreReadWrites, OutcomesAre, Counted DEF TypeInv, CountsTyped
<1>5. ResultTyped' /\ Running'
  <2>1. op \in Frame /\ op.path \in Paths /\ op.call \in Calls
    BY <1>1 DEF TypeInv, Running, ResultTyped
  <2>2. "write_parent" \in Labels /\ Goto("write_parent", op)
    BY DEF Labels, WriteNew
  <2> QED BY <2>1, <2>2, Gone
<1> QED BY <1>3, <1>4, <1>5 DEF WriteNew, TypeInv, DiskTyped, CountsTyped

(* The entry WriteParent adds.                                               *)
Added == [kind |-> IF op.call = "mkdir" THEN "dir" ELSE "file",
          name |-> ShortName[Last(op.path)], cluster |-> op.new]

LEMMA WriteParentIs ==
  ASSUME TypeInv, WriteParent
  PROVE  \/ Goto("roll_back", op) /\ UNCHANGED <<data, faults>>
         \/ \E i \in 1..Slots, w \in ReadWriteOutcomes :
              /\ data' = Put(data, op.parent, [op.saved EXCEPT ![i] = Added], w)
              /\ Return(0) /\ Count(w # Perfect)
<1> DEFINE room == FreeSlots(op.saved)
<1>1. \/ Goto("roll_back", op) /\ UNCHANGED <<data, faults>>
      \/ room # {} /\ \E w \in WriteOutcomes :
           /\ data' = Put(data, op.parent, [op.saved EXCEPT ![Min(room)] = Added], w)
           /\ Return(0) /\ Count(w # Perfect)
  BY DEF WriteParent, Added
<1>2. room # {} => Min(room) \in 1..Slots
  <2>1. room \in SUBSET (1..Slots) /\ room \in SUBSET Nat
    BY DEF FreeSlots
  <2> HIDE DEF room
  <2> QED BY <2>1, MinIs
<1> HIDE DEF room
<1> QED BY <1>1, <1>2, WritesAreReadWrites

LEMMA WriteParentTyped ==
  ASSUME TypeInv, WriteParent
  PROVE  TypeInv'
<1>1. /\ op \in Frame /\ op.path \in Paths /\ op.call \in Calls /\ pc # "idle"
      /\ op.new \in Index /\ op.parent \in Index /\ op.saved \in Cluster
  BY DEF TypeInv, ResultTyped, Running, Frame, WriteParent
<1>2. CASE Goto("roll_back", op) /\ UNCHANGED <<data, faults>>
  <2>1. "roll_back" \in Labels
    BY DEF Labels
  <2>2. ResultTyped' /\ Running'
    BY <1>1, <1>2, <2>1, Gone
  <2> QED BY <1>2, <2>2 DEF WriteParent, TypeInv, DiskTyped, CountsTyped
<1>3. CASE \E i \in 1..Slots, w \in ReadWriteOutcomes :
              /\ data' = Put(data, op.parent, [op.saved EXCEPT ![i] = Added], w)
              /\ Return(0) /\ Count(w # Perfect)
  <2>1. PICK i \in 1..Slots, w \in ReadWriteOutcomes :
              /\ data' = Put(data, op.parent, [op.saved EXCEPT ![i] = Added], w)
              /\ Return(0) /\ Count(w # Perfect)
    BY <1>3
  <2>2. Added \in Slot
    <3>1. ShortName[Last(op.path)] \in DISKNAMES
      BY <1>1, PathEnds DEF TypeInv, DiskTyped, DISKNAMES
    <3>2. (IF op.call = "mkdir" THEN "dir" ELSE "file") \in Entries
      BY DEF Entries
    <3> QED BY <1>1, <3>1, <3>2, SlotsTyped DEF Added
  <2>3. [op.saved EXCEPT ![i] = Added] \in Cluster
    BY <1>1, <2>2 DEF Cluster
  <2>4. data' \in [Index -> Cluster]
    BY <1>1, <2>1, <2>3, PutTyped DEF TypeInv, DiskTyped
  <2>5. faults' \in 0..MaxFaults
    BY <2>1, OutcomesAre, Counted DEF TypeInv, CountsTyped
  <2>6. ResultTyped' /\ Running'
    BY <2>1, Returned
  <2> QED BY <2>4, <2>5, <2>6 DEF WriteParent, TypeInv, DiskTyped, CountsTyped
<1> QED BY <1>2, <1>3, WriteParentIs


LEMMA RollBackTyped ==
  ASSUME TypeInv, RollBack
  PROVE  TypeInv'
<1>1. /\ op \in Frame /\ op.path \in Paths /\ op.call \in Calls /\ pc # "idle" /\ op.new \in Index
      /\ FREE \in Index \union {EOC}
  BY Constants DEF TypeInv, ResultTyped, Running, Frame, RollBack
<1>2. PICK w \in ReadWriteOutcomes :
        /\ fat' = Put(fat, op.new, FREE, w) /\ Count(w # Perfect)
        /\ IF w.ok THEN Goto("roll_back_mirror", op) ELSE Return(-1)
  BY DEF RollBack
<1>3. fat' \in Fats
  BY <1>1, <1>2, PutTyped DEF Fats, TypeInv, DiskTyped
<1>4. faults' \in 0..MaxFaults
  BY <1>2, OutcomesAre, Counted DEF TypeInv, CountsTyped
<1>5. ResultTyped' /\ Running'
  <2>1. "roll_back_mirror" \in Labels
    BY DEF Labels
  <2> QED BY <1>1, <1>2, <2>1, Gone, Returned
<1> QED BY <1>3, <1>4, <1>5 DEF RollBack, TypeInv, DiskTyped, CountsTyped

LEMMA RollBackMirrorTyped ==
  ASSUME TypeInv, RollBackMirror
  PROVE  TypeInv'
<1>1. op.new \in Index /\ FREE \in Index \union {EOC}
  BY Constants DEF TypeInv, ResultTyped, Frame
<1>2. mirror' \in Fats /\ faults' \in 0..MaxFaults
  BY <1>1, MirrorTyped DEF RollBackMirror, TypeInv, DiskTyped, CountsTyped
<1>3. ResultTyped' /\ Running'
  BY Returned DEF RollBackMirror
<1> QED BY <1>2, <1>3 DEF RollBackMirror, TypeInv, DiskTyped, CountsTyped

(* What a step of remove_entry's loop does, with the outcome of its reads    *)
(* and its write.                                                            *)
LEMMA FreeClusterIs ==
  ASSUME TypeInv, FreeCluster
  PROVE  \E n \in {NONE, NextCluster(op.cluster)}, w \in ReadWriteOutcomes :
           /\ fat' = Put(fat, op.cluster, FREE, w)
           /\ IF w.ok THEN Goto("free_mirror", [op EXCEPT !.next = n])
                      ELSE Goto("free", [op EXCEPT !.cluster = n])
           /\ faults' \in {faults, faults + 1} /\ (w # Perfect => faults' = faults + 1)
           /\ faults' \in 0..MaxFaults
<1>1. PICK unread \in IF May("read") THEN BOOLEAN ELSE {FALSE}, w \in ReadWriteOutcomes :
        LET next == IF unread THEN NONE ELSE NextCluster(op.cluster) IN
        /\ fat' = Put(fat, op.cluster, FREE, w)
        /\ IF w.ok THEN Goto("free_mirror", [op EXCEPT !.next = next])
                   ELSE Goto("free", [op EXCEPT !.cluster = next])
        /\ Count(unread \/ w # Perfect)
  BY DEF FreeCluster
<1> DEFINE n == IF unread THEN NONE ELSE NextCluster(op.cluster)
<1>2. n \in {NONE, NextCluster(op.cluster)}
  OBVIOUS
<1>3. /\ fat' = Put(fat, op.cluster, FREE, w)
      /\ IF w.ok THEN Goto("free_mirror", [op EXCEPT !.next = n])
                 ELSE Goto("free", [op EXCEPT !.cluster = n])
      /\ Count(unread \/ w # Perfect)
  BY <1>1
<1>4. MaxFaults \in Nat /\ faults \in 0..MaxFaults
  BY Fat32Assumption DEF TypeInv, CountsTyped
<1>5. (unread => faults < MaxFaults) /\ (w # Perfect => faults < MaxFaults)
  BY OutcomesAre DEF May
<1>6. /\ faults' \in {faults, faults + 1} /\ (w # Perfect => faults' = faults + 1)
      /\ faults' \in 0..MaxFaults
  BY <1>3, <1>4, <1>5 DEF Count
<1> HIDE DEF n
<1> QED BY <1>2, <1>3, <1>6

LEMMA FreeClusterTyped ==
  ASSUME TypeInv, FreeCluster
  PROVE  TypeInv'
<1>1. pc # "idle" /\ op.cluster \in Index /\ FREE \in Index \union {EOC}
  BY Constants DEF TypeInv, ResultTyped, Frame, FreeCluster
<1>2. PICK n \in {NONE, NextCluster(op.cluster)}, w \in ReadWriteOutcomes :
        /\ fat' = Put(fat, op.cluster, FREE, w)
        /\ IF w.ok THEN Goto("free_mirror", [op EXCEPT !.next = n])
                   ELSE Goto("free", [op EXCEPT !.cluster = n])
        /\ faults' \in 0..MaxFaults
  BY FreeClusterIs
<1>3. n \in Index
  BY <1>1, NextClusterTyped, Constants DEF TypeInv, DiskTyped
<1>4. fat' \in Fats
  BY <1>1, <1>2, PutTyped DEF Fats, TypeInv, DiskTyped
<1>5. ResultTyped' /\ Running'
  <2>1. "free_mirror" \in Labels /\ "free" \in Labels
    BY DEF Labels
  <2> DEFINE f == [op EXCEPT !.next = n]
             g == [op EXCEPT !.cluster = n]
  <2>2. f \in Frame /\ f.path \in Paths /\ f.call \in Calls
    BY <1>1, <1>3, FrameUpdates
  <2>3. g \in Frame /\ g.path \in Paths /\ g.call \in Calls
    BY <1>1, <1>3, FrameUpdates
  <2>4. Goto("free_mirror", f) \/ Goto("free", g)
    BY <1>2
  <2> HIDE DEF f, g
  <2> QED BY <2>1, <2>2, <2>3, <2>4, Gone
<1> QED BY <1>2, <1>4, <1>5 DEF FreeCluster, TypeInv, DiskTyped, CountsTyped

LEMMA FreeMirrorTyped ==
  ASSUME TypeInv, FreeMirror
  PROVE  TypeInv'
<1>1. pc # "idle" /\ op.cluster \in Index /\ NONE \in Index /\ FREE \in Index \union {EOC}
  BY Constants DEF TypeInv, ResultTyped, Frame, FreeMirror
<1>2. mirror' \in Fats /\ faults' \in 0..MaxFaults
  BY <1>1, MirrorTyped DEF FreeMirror, TypeInv, DiskTyped, CountsTyped
<1>3. ResultTyped' /\ Running'
  <2> DEFINE f == [op EXCEPT !.cluster = op.next, !.next = NONE]
  <2>1. f \in Frame /\ f.path \in Paths /\ f.call \in Calls
    BY <1>1, FrameUpdates
  <2>2. Goto("free", f) /\ "free" \in Labels
    BY DEF FreeMirror, Labels
  <2> HIDE DEF f
  <2> QED BY <2>1, <2>2, Gone
<1> QED BY <1>2, <1>3 DEF FreeMirror, TypeInv, DiskTyped, CountsTyped

LEMMA DeleteEntryTyped ==
  ASSUME TypeInv, DeleteEntry
  PROVE  TypeInv'
<1>1. op.parent \in Index /\ op.saved \in Cluster
  BY DEF TypeInv, ResultTyped, Frame
<1>2. PICK w \in WriteOutcomes :
        data' = Put(data, op.parent, [op.saved EXCEPT ![op.slot] = DELETED], w) /\ Count(w # Perfect)
  BY DEF DeleteEntry
<1>3. [op.saved EXCEPT ![op.slot] = DELETED] \in Cluster
  BY <1>1, SlotsTyped DEF Cluster
<1>4. data' \in [Index -> Cluster]
  BY <1>1, <1>2, <1>3, PutTyped DEF TypeInv, DiskTyped
<1>5. faults' \in 0..MaxFaults
  BY <1>2, WritesAreReadWrites, OutcomesAre, Counted DEF TypeInv, CountsTyped
<1>6. ResultTyped' /\ Running'
  BY Returned DEF DeleteEntry
<1> QED BY <1>4, <1>5, <1>6 DEF DeleteEntry, TypeInv, DiskTyped, CountsTyped

LEMMA CrashTyped ==
  ASSUME TypeInv, Crash
  PROVE  TypeInv'
<1>1. crashes' \in 0..MaxCrashes
  <2>1. MaxCrashes \in Nat /\ crashes \in 0..MaxCrashes
    BY Fat32Assumption DEF TypeInv, CountsTyped
  <2>2. crashes < MaxCrashes /\ crashes' = crashes + 1
    BY DEF Crash
  <2> QED BY <2>1, <2>2
<1>2. ResultTyped' /\ Running'
  BY NoOpTyped DEF Crash, ResultTyped, Running, Labels, TypeInv
<1>3. torn' \subseteq Paths
  BY DEF Crash, TypeInv, Running
<1> QED BY <1>1, <1>2, <1>3 DEF Crash, TypeInv, DiskTyped, CountsTyped, disk

(* The steps of an operation whose path strays.                              *)
LEMMA StartCreateInFatTyped ==
  ASSUME TypeInv, NEW p \in Paths, NEW call \in Calls, StartCreateInFat(call, p)
  PROVE  TypeInv'
<1>1. ResultTyped' /\ Running'
  <2>1. PICK row \in FatRows :
          Return(-1) \/ Goto("allocate", [NoOp EXCEPT !.call = call, !.path = p, !.saved = row])
    BY DEF StartCreateInFat
  <2> DEFINE f == [NoOp EXCEPT !.call = call, !.path = p, !.saved = row]
  <2>2. row \in Cluster /\ "allocate" \in Labels
    BY Fat32Assumption DEF Labels
  <2>3. f \in Frame /\ f.path = p /\ f.call = call
    <3> HIDE DEF Cluster, Index
    <3> QED BY <2>2, NoOpTyped DEF Frame
  <2>4. Return(-1) \/ Goto("allocate", f)
    BY <2>1
  <2> HIDE DEF f
  <2> QED BY <2>2, <2>3, <2>4, Gone, Returned
<1>2. UNCHANGED <<disk, faults, crashes, torn>>
  BY DEF StartCreateInFat
<1> QED BY <1>1, <1>2 DEF TypeInv, DiskTyped, CountsTyped, disk

LEMMA StartRemoveInFatTyped ==
  ASSUME TypeInv, NEW p \in Paths, NEW call \in Calls, StartRemoveInFat(call, p)
  PROVE  TypeInv'
<1>1. ResultTyped' /\ Running'
  <2>1. PICK row \in FatRows :
          \/ Return(-1)
          \/ /\ PlacesIn(row, Last(p)) # {}
             /\ Goto("free", [NoOp EXCEPT !.call = call, !.path = p, !.saved = row,
                                          !.slot = Min(PlacesIn(row, Last(p))),
                                          !.cluster = row[Min(PlacesIn(row, Last(p)))].cluster])
    BY DEF StartRemoveInFat
  <2> DEFINE i == Min(PlacesIn(row, Last(p)))
  <2>2. row \in Cluster /\ "free" \in Labels
    BY Fat32Assumption DEF Labels
  <2>3. CASE Return(-1)
    BY <2>3, Returned
  <2>4. CASE PlacesIn(row, Last(p)) # {}
    <3>1. i \in 1..Slots /\ i \in 0..Slots
      <4> DEFINE places == PlacesIn(row, Last(p))
      <4>1. places \in SUBSET (1..Slots) /\ places \in SUBSET Nat /\ places # {}
        BY <2>4 DEF PlacesIn
      <4> HIDE DEF places
      <4>2. Min(places) \in 1..Slots
        BY <4>1, MinIs
      <4> QED BY <4>2, Constants DEF places
    <3> HIDE DEF i
    <3>2. row[i].cluster \in Index
      BY <2>2, <3>1, SlotsTyped DEF Cluster
    <3> DEFINE c == row[i].cluster
    <3>3. c \in Index
      BY <3>2
    <3> HIDE DEF c
    <3> DEFINE f == [NoOp EXCEPT !.call = call, !.path = p, !.saved = row, !.slot = i, !.cluster = c]
    <3>4. f \in Frame /\ f.path = p /\ f.call = call
      <4> HIDE DEF Cluster, Index
      <4> QED BY <2>2, <3>1, <3>3, NoOpTyped DEF Frame
    <3>5. Return(-1) \/ Goto("free", f)
      BY <2>1 DEF i, c
    <3> HIDE DEF f
    <3> QED BY <2>2, <3>4, <3>5, Gone, Returned
  <2> QED BY <2>1, <2>3, <2>4
<1>2. UNCHANGED <<disk, faults, crashes, torn>>
  BY DEF StartRemoveInFat
<1> QED BY <1>1, <1>2 DEF TypeInv, DiskTyped, CountsTyped, disk

LEMMA OverwrittenTyped ==
  ASSUME NEW copy \in Fats
  PROVE  Overwritten(copy) \subseteq Fats
<1> SUFFICES ASSUME NEW g \in [InFat -> Index \union {EOC}]
             PROVE  [c \in Index |-> IF c \in InFat THEN g[c] ELSE copy[c]] \in Fats
  BY DEF Overwritten
<1> QED BY DEF Fats

LEMMA WriteOverFatTyped ==
  ASSUME TypeInv, WriteOverFat
  PROVE  DiskTyped' /\ ResultTyped' /\ Running' /\ faults' \in 0..MaxFaults
<1>1. PICK w \in WriteOutcomes :
        /\ IF FatCount > 1
             THEN UNCHANGED fat /\ mirror' \in (IF w.stored THEN Overwritten(mirror) ELSE {mirror})
             ELSE UNCHANGED mirror /\ fat' \in (IF w.stored THEN Overwritten(fat) ELSE {fat})
        /\ Return(0) /\ Count(w # Perfect)
  BY DEF WriteOverFat
<1>2. fat \in Fats /\ mirror \in Fats /\ data \in [Index -> Cluster]
  BY DEF TypeInv, DiskTyped
<1>3. Overwritten(fat) \subseteq Fats /\ Overwritten(mirror) \subseteq Fats
  BY <1>2, OverwrittenTyped
<1>4. fat' \in Fats /\ mirror' \in Fats
  <2>1. CASE FatCount > 1
    BY <1>1, <1>2, <1>3, <2>1
  <2>2. CASE ~ (FatCount > 1)
    BY <1>1, <1>2, <1>3, <2>2
  <2> QED BY <2>1, <2>2
<1>5. faults' \in 0..MaxFaults
  BY <1>1, WritesAreReadWrites, OutcomesAre, Counted DEF TypeInv, CountsTyped
<1>6. ResultTyped' /\ Running'
  BY <1>1, Returned
<1>7. data' = data
  BY DEF WriteOverFat
<1> QED BY <1>2, <1>4, <1>5, <1>6, <1>7 DEF DiskTyped

LEMMA WriteParentInFatTyped ==
  ASSUME TypeInv, WriteParentInFat
  PROVE  TypeInv'
<1>1. UNCHANGED <<crashes, torn>>
  BY DEF WriteParentInFat
<1>2. CASE WriteOverFat
  BY <1>1, <1>2, WriteOverFatTyped DEF TypeInv, CountsTyped
<1>3. CASE Goto("roll_back", op) /\ UNCHANGED <<disk, faults>>
  <2>1. op \in Frame /\ op.path \in Paths /\ op.call \in Calls /\ "roll_back" \in Labels
    BY DEF TypeInv, ResultTyped, Running, WriteParentInFat, Labels
  <2>2. ResultTyped' /\ Running'
    BY <1>3, <2>1, Gone
  <2> QED BY <1>1, <1>3, <2>2 DEF TypeInv, DiskTyped, CountsTyped, disk
<1> QED BY <1>2, <1>3 DEF WriteParentInFat

LEMMA DeleteEntryInFatTyped ==
  ASSUME TypeInv, DeleteEntryInFat
  PROVE  TypeInv'
<1>1. UNCHANGED crashes /\ torn' = torn \ {op.path} /\ WriteOverFat
  BY DEF DeleteEntryInFat
<1> QED BY <1>1, WriteOverFatTyped DEF TypeInv, CountsTyped

IntoFat ==
  \/ \E p \in Paths, call \in Calls : StartCreateInFat(call, p) \/ StartRemoveInFat(call, p)
  \/ WriteParentInFat \/ DeleteEntryInFat

(* Every way a step of the driver can go.                                    *)
LEMMA Steps ==
  ASSUME [Next]_vars
  PROVE  \/ \E p \in Paths, call \in Calls : StartCreate(call, p) \/ StartRemove(call, p)
         \/ StartFails \/ Allocate \/ MirrorUsed \/ WriteNew \/ WriteParent
         \/ RollBack \/ RollBackMirror \/ FreeCluster \/ FreeMirror \/ DeleteEntry
         \/ Crash \/ UNCHANGED vars \/ IntoFat
BY DEF Next, Start, Step, IntoFat

LEMMA StraysInto ==
  ASSUME IntoFat
  PROVE  strayed' = TRUE
BY DEF IntoFat, StartCreateInFat, StartRemoveInFat, WriteParentInFat, DeleteEntryInFat

(* Once an operation has strayed, that is not forgotten.                     *)
LEMMA StrayedStays ==
  ASSUME [Next]_vars
  PROVE  strayed' = strayed \/ strayed' = TRUE
<1>1. \A p \in Paths, call \in Calls : StartCreate(call, p) \/ StartRemove(call, p) => strayed' = strayed
  BY DEF StartCreate, StartRemove
<1>2. StartFails \/ Allocate \/ MirrorUsed \/ WriteNew \/ WriteParent => strayed' = strayed
  BY DEF StartFails, Allocate, MirrorUsed, WriteNew, WriteParent
<1>3. RollBack \/ RollBackMirror \/ FreeCluster \/ FreeMirror \/ DeleteEntry => strayed' = strayed
  BY DEF RollBack, RollBackMirror, FreeCluster, FreeMirror, DeleteEntry
<1>4. Crash \/ UNCHANGED vars => strayed' = strayed
  BY DEF Crash, vars
<1> QED BY <1>1, <1>2, <1>3, <1>4, Steps, StraysInto

LEMMA StrayedNext == StrayedTyped /\ [Next]_vars => StrayedTyped'
BY StrayedStays DEF StrayedTyped

LEMMA StrayedInit == Init => StrayedTyped
BY DEF Init, StrayedTyped

LEMMA TypeInit == Init => TypeInv
<1> SUFFICES ASSUME Init PROVE TypeInv
  OBVIOUS
<1>1. PICK v \in Images : fat = v.fat /\ mirror = v.fat /\ data = v.data
  BY DEF Init
<1>2. v.fat \in Fats /\ v.data \in [Index -> Cluster]
  BY Fat32Assumption DEF Fats
<1>3. DiskTyped
  BY <1>1, <1>2 DEF DiskTyped
<1>4. pc = "idle" /\ op = NoOp /\ ret = 0 /\ faults = 0 /\ crashes = 0 /\ torn = {}
  BY DEF Init
<1>5. ResultTyped /\ Running
  BY <1>4, NoOpTyped DEF ResultTyped, Running, Labels
<1>6. CountsTyped
  <2>1. MaxFaults \in Nat /\ MaxCrashes \in Nat
    BY Fat32Assumption
  <2> QED BY <1>4, <2>1 DEF CountsTyped
<1> QED BY <1>3, <1>4, <1>5, <1>6 DEF TypeInv

LEMMA IntoFatTyped ==
  ASSUME TypeInv, IntoFat
  PROVE  TypeInv'
BY StartCreateInFatTyped, StartRemoveInFatTyped, WriteParentInFatTyped, DeleteEntryInFatTyped DEF IntoFat

LEMMA TypeNext == TypeInv /\ [Next]_vars => TypeInv'
<1> SUFFICES ASSUME TypeInv, [Next]_vars PROVE TypeInv'
  OBVIOUS
<1>1. CASE UNCHANGED vars
  BY <1>1 DEF vars, disk, TypeInv, DiskTyped, ResultTyped, Running, CountsTyped
<1> QED BY <1>1, Steps, StartCreateTyped, StartRemoveTyped, StartFailsTyped, AllocateTyped,
           MirrorUsedTyped, WriteNewTyped, WriteParentTyped, RollBackTyped, RollBackMirrorTyped,
           FreeClusterTyped, FreeMirrorTyped, DeleteEntryTyped, CrashTyped, IntoFatTyped

(* Whatever the disk does and whenever power is lost, the FAT holds cluster  *)
(* numbers of the volume and the directories hold entries.                   *)
THEOREM Fat32TypeOK == Spec => []TypeOK
<1> QED BY TypeInit, TypeNext, StrayedInit, StrayedNext, TypeInvTypes, PTL DEF Spec


-----------------------------------------------------------------------------
(* The root directory.                                                       *)
RowSafe(row) == \A i \in 1..Slots : row[i].cluster = Root => row[i].name \in {".", ".."}

RootFat   == fat[Root] # FREE /\ \A c \in Index : fat[c] # Root
RootData  == \A c \in Index : RowSafe(data[c])
RootFrame == RowSafe(op.saved) /\ op.new # Root /\ op.cluster # Root /\ op.next # Root

RootInv == RootFat /\ RootData /\ RootFrame

LEMMA RootOfFat ==
  ASSUME TypeInv, RootFat, NEW c \in Index, c # Root, NEW v \in {FREE, EOC}, NEW w,
         fat' = Put(fat, c, v, w)
  PROVE  RootFat'
<1>1. v # Root /\ Root \in Index
  BY Constants
<1>2. fat \in Fats
  BY DEF TypeInv, DiskTyped
<1> QED BY <1>1, <1>2 DEF RootFat, Put, Fats

LEMMA RootOfData ==
  ASSUME TypeInv, RootData, NEW c \in Index, NEW row, RowSafe(row), NEW w,
         data' = Put(data, c, row, w)
  PROVE  RootData'
<1>1. data \in [Index -> Cluster]
  BY DEF TypeInv, DiskTyped
<1>2. \A d \in Index : data'[d] \in {data[d], row}
  BY <1>1 DEF Put
<1>3. \A d \in Index : RowSafe(data'[d])
  BY <1>2 DEF RootData
<1> QED BY <1>3 DEF RootData

LEMMA NoOpSafe == RowSafe(NoOp.saved) /\ NoOp.new # Root /\ NoOp.cluster # Root /\ NoOp.next # Root
<1>1. NoOp.saved = [i \in 1..Slots |-> END] /\ NoOp.new = 0 /\ NoOp.cluster = 0 /\ NoOp.next = 0
  BY DEF NoOp, NONE
<1>2. END.cluster = 0
  BY DEF END
<1> QED BY <1>1, <1>2, Constants DEF RowSafe

LEMMA ReturnedSafe ==
  ASSUME op' = NoOp
  PROVE  RootFrame'
<1>1. RowSafe(op'.saved) /\ op'.new # Root /\ op'.cluster # Root /\ op'.next # Root
  BY NoOpSafe
<1> QED BY <1>1 DEF RootFrame

LEMMA GoneSafe ==
  ASSUME NEW f, op' = f, RowSafe(f.saved), f.new # Root, f.cluster # Root, f.next # Root
  PROVE  RootFrame'
BY DEF RootFrame

LEMMA BeginSafe ==
  ASSUME TypeInv, RootData, NEW p \in Paths, NEW call \in Calls
  PROVE  /\ RowSafe(Begin(call, p).saved)
         /\ Begin(call, p).new # Root /\ Begin(call, p).cluster # Root /\ Begin(call, p).next # Root
<1>1. ParentCluster(p) \in Index
  BY PathEnds DEF TypeInv, DiskTyped
<1>2. RowSafe(data[ParentCluster(p)])
  BY <1>1 DEF RootData
<1>3. /\ Begin(call, p).saved = data[ParentCluster(p)]
      /\ Begin(call, p).new = 0 /\ Begin(call, p).cluster = 0 /\ Begin(call, p).next = 0
  BY DEF Begin, NoOp, NONE
<1> QED BY <1>2, <1>3, Constants

LEMMA StartCreateRoot ==
  ASSUME TypeInv, RootInv, NEW p \in Paths, NEW call \in Calls, StartCreate(call, p)
  PROVE  RootInv'
<1>1. RootFrame'
  <2>1. op' = NoOp \/ op' = Begin(call, p)
    BY DEF StartCreate, Return, Goto
  <2>2. op' = Begin(call, p) => RootFrame'
    BY BeginSafe, GoneSafe DEF RootInv
  <2> QED BY <2>1, <2>2, ReturnedSafe
<1>2. UNCHANGED <<fat, data>>
  BY DEF StartCreate, disk
<1> QED BY <1>1, <1>2 DEF RootInv, RootFat, RootData

LEMMA StartRemoveRoot ==
  ASSUME TypeInv, RootInv, NEW p \in Paths, NEW call \in Calls, StartRemove(call, p)
  PROVE  RootInv'
<1> DEFINE parent == ParentCluster(p)
           s == SlotOf[parent][Last(p)]
           f == Begin(call, p)
<1>1. RootFrame'
  <2>1. CASE Return(-1)
    BY <2>1, ReturnedSafe DEF Return
  <2>2. CASE s # 0 /\ Goto("free", RemoveFrame(call, p))
    <3>1. parent \in Index /\ Last(p) \in Names /\ Last(p) \in AnyName
      BY PathEnds DEF TypeInv, DiskTyped
    <3>2. s \in 1..Slots /\ data[parent][s].name = Last(p)
      <4>1. s \in 0..Slots /\ (s # 0 => data[parent][s].name = Last(p))
        BY <3>1, SlotOfIs
      <4> HIDE DEF s
      <4> QED BY <2>2, <4>1, Constants
    <3>3. Last(p) \notin {".", ".."}
      <4>1. Names \intersect {".", ".."} = {}
        BY Fat32Assumption
      <4> QED BY <3>1, <4>1
    <3> DEFINE x == data[parent][s].cluster
    <3>4. x # Root
      <4>1. RowSafe(data[parent])
        BY <3>1 DEF RootInv, RootData
      <4> QED BY <3>2, <3>3, <4>1 DEF RowSafe
    <3>5. f \in Frame /\ RowSafe(f.saved) /\ f.new # Root /\ f.cluster # Root /\ f.next # Root
      BY BeginSafe, BeginTyped DEF RootInv, TypeInv, DiskTyped
    <3>6. op' = [f EXCEPT !.slot = s, !.cluster = x]
      BY <2>2 DEF Goto, RemoveFrame
    <3> HIDE DEF x, f, s, parent
    <3>7. op'.saved = f.saved /\ op'.new = f.new /\ op'.next = f.next /\ op'.cluster = x
      BY <3>5, <3>6 DEF Frame
    <3> QED BY <3>4, <3>5, <3>7 DEF RootFrame
  <2> QED BY <2>1, <2>2, StartRemoveIs
<1>2. UNCHANGED <<fat, data>>
  BY DEF StartRemove, disk
<1> QED BY <1>1, <1>2 DEF RootInv, RootFat, RootData

LEMMA AllocateRoot ==
  ASSUME TypeInv, RootInv, Allocate
  PROVE  RootInv'
<1>1. UNCHANGED data
  BY DEF Allocate
<1>2. CASE Return(-1) /\ UNCHANGED fat
  BY <1>1, <1>2, ReturnedSafe DEF Return, RootInv, RootFat, RootData
<1>3. CASE \E c \in Index, w \in ReadWriteOutcomes :
              /\ fat[c] = FREE /\ fat' = Put(fat, c, EOC, w)
              /\ IF w.ok THEN Goto("mirror_used", [op EXCEPT !.new = c]) ELSE Return(-1)
  <2>1. PICK c \in Index, w \in ReadWriteOutcomes :
              /\ fat[c] = FREE /\ fat' = Put(fat, c, EOC, w)
              /\ IF w.ok THEN Goto("mirror_used", [op EXCEPT !.new = c]) ELSE Return(-1)
    BY <1>3
  <2>2. c # Root
    BY <2>1 DEF RootInv, RootFat
  <2>3. RootFat'
    BY <2>1, <2>2, RootOfFat DEF RootInv
  <2>4. RootFrame'
    <3>1. CASE op' = NoOp
      BY <3>1, ReturnedSafe
    <3>2. CASE op' = [op EXCEPT !.new = c]
      <4>1. op'.saved = op.saved /\ op'.new = c /\ op'.cluster = op.cluster /\ op'.next = op.next
        BY <3>2 DEF TypeInv, ResultTyped, Frame
      <4> QED BY <2>2, <4>1 DEF RootInv, RootFrame
    <3> QED BY <2>1, <3>1, <3>2 DEF Goto, Return
  <2> QED BY <1>1, <2>3, <2>4 DEF RootInv, RootData
<1> QED BY <1>2, <1>3, AllocateIs


LEMMA KeepsFrameRoot ==
  ASSUME RootInv, op' \in {op, NoOp}
  PROVE  RootFrame'
BY ReturnedSafe DEF RootInv, RootFrame

LEMMA WriteNewRoot ==
  ASSUME TypeInv, RootInv, WriteNew
  PROVE  RootInv'
<1>1. op.new \in Index
  BY DEF TypeInv, ResultTyped, Frame
<1>2. PICK w \in WriteOutcomes : data' = Put(data, op.new, NewDirectory(op.new, op.parent), w)
  BY DEF WriteNew
<1>3. RowSafe(NewDirectory(op.new, op.parent))
  <2> DEFINE row == NewDirectory(op.new, op.parent)
  <2> SUFFICES ASSUME NEW i \in 1..Slots PROVE row[i].cluster = Root => row[i].name \in {".", ".."}
    BY DEF RowSafe
  <2>1. END.cluster = 0
    BY DEF END
  <2>2. CASE i \in {1, 2}
    BY <2>2 DEF NewDirectory
  <2>3. CASE i \notin {1, 2}
    <3>1. row[i] = END
      BY <2>3 DEF NewDirectory
    <3> QED BY <2>1, <3>1, Constants
  <2> QED BY <2>2, <2>3
<1>4. RootData'
  BY <1>1, <1>2, <1>3, RootOfData DEF RootInv
<1>5. RootFrame' /\ UNCHANGED fat
  BY KeepsFrameRoot DEF WriteNew, Goto
<1> QED BY <1>4, <1>5 DEF RootInv, RootFat

LEMMA WriteParentRoot ==
  ASSUME TypeInv, RootInv, WriteParent
  PROVE  RootInv'
<1>1. UNCHANGED fat /\ op.parent \in Index /\ op.saved \in Cluster
  BY DEF WriteParent, TypeInv, ResultTyped, Frame
<1>2. CASE Goto("roll_back", op) /\ UNCHANGED <<data, faults>>
  <2>1. RootFrame'
    BY <1>2, KeepsFrameRoot DEF Goto
  <2> QED BY <1>1, <1>2, <2>1 DEF RootInv, RootFat, RootData
<1>3. CASE \E i \in 1..Slots, w \in ReadWriteOutcomes :
              /\ data' = Put(data, op.parent, [op.saved EXCEPT ![i] = Added], w)
              /\ Return(0) /\ Count(w # Perfect)
  <2>1. PICK i \in 1..Slots, w \in ReadWriteOutcomes :
              /\ data' = Put(data, op.parent, [op.saved EXCEPT ![i] = Added], w)
              /\ Return(0)
    BY <1>3
  <2>2. Added.cluster # Root
    BY DEF Added, RootInv, RootFrame
  <2>3. RowSafe([op.saved EXCEPT ![i] = Added])
    <3>1. \A j \in 1..Slots : [op.saved EXCEPT ![i] = Added][j] \in {op.saved[j], Added}
      BY <1>1 DEF Cluster
    <3> QED BY <2>2, <3>1 DEF RowSafe, RootInv, RootFrame
  <2>4. RootData'
    BY <1>1, <2>1, <2>3, RootOfData DEF RootInv
  <2>5. RootFrame'
    BY <2>1, ReturnedSafe DEF Return
  <2> QED BY <1>1, <2>4, <2>5 DEF RootInv, RootFat
<1> QED BY <1>2, <1>3, WriteParentIs

LEMMA RollBackRoot ==
  ASSUME TypeInv, RootInv, RollBack
  PROVE  RootInv'
<1>1. PICK w \in ReadWriteOutcomes : fat' = Put(fat, op.new, FREE, w)
  BY DEF RollBack
<1>2. op.new \in Index /\ op.new # Root
  BY DEF TypeInv, ResultTyped, Frame, RootInv, RootFrame
<1>3. RootFat'
  BY <1>1, <1>2, RootOfFat DEF RootInv
<1>4. RootFrame' /\ UNCHANGED data
  BY KeepsFrameRoot DEF RollBack, Goto, Return
<1> QED BY <1>3, <1>4 DEF RootInv, RootData

LEMMA FreeClusterRoot ==
  ASSUME TypeInv, RootInv, FreeCluster
  PROVE  RootInv'
<1>1. PICK n \in {NONE, NextCluster(op.cluster)}, w \in ReadWriteOutcomes :
        /\ fat' = Put(fat, op.cluster, FREE, w)
        /\ IF w.ok THEN Goto("free_mirror", [op EXCEPT !.next = n])
                   ELSE Goto("free", [op EXCEPT !.cluster = n])
  BY FreeClusterIs
<1>2. op.cluster \in Index /\ op.cluster # Root /\ op \in Frame
  BY DEF TypeInv, ResultTyped, Frame, RootInv, RootFrame
<1>3. RootFat'
  BY <1>1, <1>2, RootOfFat DEF RootInv
<1>4. n # Root
  <2>1. fat[op.cluster] # Root
    BY <1>2 DEF RootInv, RootFat
  <2>2. NONE # Root
    BY Constants
  <2> QED BY <2>1, <2>2 DEF NextCluster
<1>5. RootFrame'
  <2>1. CASE op' = [op EXCEPT !.next = n]
    <3>1. op'.saved = op.saved /\ op'.new = op.new /\ op'.cluster = op.cluster /\ op'.next = n
      BY <1>2, <2>1 DEF Frame
    <3> QED BY <1>4, <3>1 DEF RootInv, RootFrame
  <2>2. CASE op' = [op EXCEPT !.cluster = n]
    <3>1. op'.saved = op.saved /\ op'.new = op.new /\ op'.cluster = n /\ op'.next = op.next
      BY <1>2, <2>2 DEF Frame
    <3> QED BY <1>4, <3>1 DEF RootInv, RootFrame
  <2> QED BY <1>1, <2>1, <2>2 DEF Goto
<1>6. UNCHANGED data
  BY DEF FreeCluster
<1> QED BY <1>3, <1>5, <1>6 DEF RootInv, RootData

LEMMA FreeMirrorRoot ==
  ASSUME TypeInv, RootInv, FreeMirror
  PROVE  RootInv'
<1>1. op' = [op EXCEPT !.cluster = op.next, !.next = NONE] /\ UNCHANGED <<fat, data>>
  BY DEF FreeMirror, Goto
<1>2. op'.saved = op.saved /\ op'.new = op.new /\ op'.cluster = op.next /\ op'.next = NONE
  BY <1>1 DEF TypeInv, ResultTyped, Frame
<1>3. RootFrame'
  BY <1>2, Constants DEF RootInv, RootFrame
<1> QED BY <1>1, <1>3 DEF RootInv, RootFat, RootData

LEMMA DeleteEntryRoot ==
  ASSUME TypeInv, RootInv, DeleteEntry
  PROVE  RootInv'
<1>1. PICK w \in WriteOutcomes : data' = Put(data, op.parent, [op.saved EXCEPT ![op.slot] = DELETED], w)
  BY DEF DeleteEntry
<1>2. op.parent \in Index /\ op.saved \in Cluster
  BY DEF TypeInv, ResultTyped, Frame
<1>3. RowSafe([op.saved EXCEPT ![op.slot] = DELETED])
  <2>1. DELETED.cluster = 0
    BY DEF DELETED
  <2>2. \A j \in 1..Slots : [op.saved EXCEPT ![op.slot] = DELETED][j] \in {op.saved[j], DELETED}
    BY <1>2 DEF Cluster
  <2>3. RowSafe(op.saved)
    BY DEF RootInv, RootFrame
  <2> QED BY <2>1, <2>2, <2>3, Constants DEF RowSafe
<1>4. RootData'
  BY <1>1, <1>2, <1>3, RootOfData DEF RootInv
<1>5. RootFrame' /\ UNCHANGED fat
  BY ReturnedSafe DEF DeleteEntry, Return
<1> QED BY <1>4, <1>5 DEF RootInv, RootFat

(* The steps that write neither the FAT nor a cluster.                       *)
LEMMA OtherRoot ==
  ASSUME TypeInv, RootInv,
         StartFails \/ MirrorUsed \/ RollBackMirror \/ Crash \/ UNCHANGED vars
  PROVE  RootInv'
<1>1. UNCHANGED <<fat, data>> /\ op' \in {op, NoOp}
  BY DEF StartFails, MirrorUsed, RollBackMirror, Crash, Goto, Return, vars, disk
<1> QED BY <1>1, KeepsFrameRoot DEF RootInv, RootFat, RootData

LEMMA RootInit == Init => RootInv
<1> SUFFICES ASSUME Init PROVE RootInv
  OBVIOUS
<1>1. PICK v \in Images : fat = v.fat /\ data = v.data
  BY DEF Init
<1>2. fat[Root] # FREE
  BY <1>1, Fat32Assumption
<1>3. \A c \in Index : fat[c] # Root /\ RowSafe(data[c])
  BY <1>1, RootAssumption DEF RowSafe
<1>4. RootFrame
  <2>1. op = NoOp
    BY DEF Init
  <2> QED BY <2>1, NoOpSafe DEF RootFrame
<1> QED BY <1>2, <1>3, <1>4 DEF RootInv, RootFat, RootData

RootOrStrayed == strayed = TRUE \/ RootInv

LEMMA RootNext == TypeInv /\ RootOrStrayed /\ [Next]_vars => RootOrStrayed'
<1> SUFFICES ASSUME TypeInv, RootInv, [Next]_vars, ~IntoFat PROVE RootInv'
  BY StraysInto, StrayedStays DEF RootOrStrayed
<1> QED BY Steps, StartCreateRoot, StartRemoveRoot, AllocateRoot, WriteNewRoot, WriteParentRoot,
           RollBackRoot, FreeClusterRoot, FreeMirrorRoot, DeleteEntryRoot, OtherRoot


(* What the recursion of Chain amounts to.                                   *)
IsChain(n, g) ==
  \A k \in 0..n : \A d \in Index :
    g[k][d] = IF d = NONE THEN {} ELSE {d} \union IF k = 0 THEN {} ELSE g[k - 1][NextCluster(d)]

LEMMA ChainExists ==
  ASSUME NEW n \in Nat
  PROVE  \E g : IsChain(n, g)
<1> DEFINE S == {m \in Nat : \E g : IsChain(m, g)}
           first == [d \in Index |-> IF d = NONE THEN {} ELSE {d} \union {}]
<1>1. 0 \in S
  <2> DEFINE g == [k \in {0} |-> first]
  <2>1. IsChain(0, g)
    BY DEF IsChain
  <2> QED BY <2>1
<1>2. ASSUME NEW m \in S PROVE m + 1 \in S
  <2>1. PICK g : IsChain(m, g)
    OBVIOUS
  <2> DEFINE row == [d \in Index |-> IF d = NONE THEN {} ELSE {d} \union g[m][NextCluster(d)]]
             h == [k \in 0..m + 1 |-> IF k <= m THEN g[k] ELSE row]
  <2>2. ASSUME NEW k \in 0..m + 1, NEW d \in Index
        PROVE  h[k][d] = IF d = NONE THEN {} ELSE {d} \union IF k = 0 THEN {} ELSE h[k - 1][NextCluster(d)]
    <3>0. m \in Nat
      OBVIOUS
    <3>1. CASE k <= m
      <4>1. h[k] = g[k] /\ (k # 0 => h[k - 1] = g[k - 1]) /\ k \in 0..m
        BY <3>0, <3>1
      <4> HIDE DEF h
      <4>2. g[k][d] = IF d = NONE THEN {} ELSE {d} \union IF k = 0 THEN {} ELSE g[k - 1][NextCluster(d)]
        BY <2>1, <4>1 DEF IsChain
      <4> QED BY <4>1, <4>2
    <3>2. CASE k = m + 1
      <4>1. h[k] = row /\ h[k - 1] = g[m] /\ k # 0
        BY <3>0, <3>2
      <4>2. row[d] = IF d = NONE THEN {} ELSE {d} \union g[m][NextCluster(d)]
        OBVIOUS
      <4> HIDE DEF h, row
      <4> QED BY <4>1, <4>2
    <3> QED BY <3>0, <3>1, <3>2
  <2> HIDE DEF h
  <2>3. IsChain(m + 1, h)
    BY <2>2 DEF IsChain
  <2> QED BY <2>3
<1>3. S = Nat
  <2>1. S \in SUBSET Nat
    OBVIOUS
  <2> HIDE DEF S
  <2> QED BY <1>1, <1>2, <2>1, SetInduction
<1> QED BY <1>3

LEMMA ChainIs ==
  ASSUME fat \in Fats, NEW c \in Index
  PROVE  \E g : IsChain(LastCluster, g) /\ Chain(c) = g[LastCluster][c]
<1> DEFINE cell(g, k, d) == IF d = NONE THEN {}
                            ELSE {d} \union IF k = 0 THEN {} ELSE g[k - 1][NextCluster(d)]
           step(g) == [k \in 0..LastCluster |-> [d \in Index |-> cell(g, k, d)]]
<1>0. LastCluster \in Nat
  BY Constants
<1>1. PICK u : IsChain(LastCluster, u)
  BY <1>0, ChainExists
<1> DEFINE q == [k \in 0..LastCluster |-> [d \in Index |-> u[k][d]]]
<1>2. q = step(q)
  <2> SUFFICES ASSUME NEW k \in 0..LastCluster, NEW d \in Index PROVE u[k][d] = cell(q, k, d)
    OBVIOUS
  <2>1. u[k][d] = cell(u, k, d)
    BY <1>1 DEF IsChain
  <2>2. CASE k = 0 \/ d = NONE
    BY <2>1, <2>2
  <2>3. CASE k # 0 /\ d # NONE
    <3>1. k - 1 \in 0..LastCluster
      BY <1>0, <2>3
    <3>2. NextCluster(d) \in Index
      BY NextClusterTyped
    <3>3. q[k - 1][NextCluster(d)] = u[k - 1][NextCluster(d)]
      BY <3>1, <3>2
    <3> HIDE DEF q
    <3> QED BY <2>1, <2>3, <3>3
  <2> QED BY <2>2, <2>3
<1>3. Chain(c) = (CHOOSE g : g = step(g))[LastCluster][c]
  BY DEF Chain
<1> DEFINE g == CHOOSE h : h = step(h)
<1>4. g = step(g)
  <2> HIDE DEF q, step
  <2> QED BY <1>2
<1> HIDE DEF g
<1>5. ASSUME NEW k \in 0..LastCluster, NEW d \in Index PROVE g[k][d] = cell(g, k, d)
  <2>1. g[k] = step(g)[k]
    <3> HIDE DEF step
    <3> QED BY <1>4
  <2>2. step(g)[k] = [e \in Index |-> cell(g, k, e)]
    OBVIOUS
  <2> HIDE DEF step, cell
  <2> QED BY <2>1, <2>2
<1>6. IsChain(LastCluster, g)
  BY <1>5 DEF IsChain
<1>7. Chain(c) = g[LastCluster][c]
  <2> HIDE DEF step
  <2> QED BY <1>3 DEF g
<1> QED BY <1>6, <1>7


(* A chain that does not start at the root does not come to it.              *)
LEMMA ChainMissesRoot ==
  ASSUME fat \in Fats, RootFat, NEW c \in Index, c # Root
  PROVE  Root \notin Chain(c)
<1>0. LastCluster \in Nat
  BY Constants
<1>1. PICK g : IsChain(LastCluster, g) /\ Chain(c) = g[LastCluster][c]
  BY ChainIs
<1> DEFINE S == {k \in Nat : k <= LastCluster => \A d \in Index : d # Root => Root \notin g[k][d]}
<1>2. ASSUME NEW k \in 0..LastCluster, NEW d \in Index
      PROVE  g[k][d] = IF d = NONE THEN {} ELSE {d} \union IF k = 0 THEN {} ELSE g[k - 1][NextCluster(d)]
  BY <1>1 DEF IsChain
<1>3. 0 \in S
  <2>1. 0 \in 0..LastCluster
    BY <1>0
  <2>2. \A d \in Index : g[0][d] \subseteq {d}
    BY <1>2, <2>1
  <2> QED BY <2>2
<1>4. ASSUME NEW k \in S PROVE k + 1 \in S
  <2> SUFFICES ASSUME k + 1 <= LastCluster, NEW d \in Index, d # Root PROVE Root \notin g[k + 1][d]
    OBVIOUS
  <2>1. k + 1 \in 0..LastCluster /\ k + 1 # 0 /\ (k + 1) - 1 = k /\ k <= LastCluster
    BY <1>0
  <2> DEFINE e == NextCluster(d)
  <2>2. e \in Index
    BY NextClusterTyped
  <2>3. e # Root
    <3>1. fat[d] # Root
      BY DEF RootFat
    <3>2. NONE # Root
      BY Constants
    <3> QED BY <3>1, <3>2 DEF NextCluster
  <2> HIDE DEF e
  <2>4. Root \notin g[k][e]
    BY <2>1, <2>2, <2>3
  <2>5. g[k + 1][d] \subseteq {d} \union g[k][e]
    <3>1. g[k + 1][d] = IF d = NONE THEN {} ELSE {d} \union IF k + 1 = 0 THEN {} ELSE g[(k + 1) - 1][NextCluster(d)]
      BY <1>2, <2>1
    <3> QED BY <2>1, <3>1 DEF e
  <2> QED BY <2>4, <2>5
<1>5. LastCluster \in S
  <2>1. S \in SUBSET Nat
    OBVIOUS
  <2> HIDE DEF S
  <2>2. S = Nat
    BY <1>3, <1>4, <2>1, SetInduction
  <2> QED BY <1>0, <2>2
<1> QED BY <1>0, <1>1, <1>5

LEMMA RootInvSafe ==
  ASSUME TypeInv, RootOrStrayed
  PROVE  RootSafe
<1> SUFFICES ASSUME RootInv
             PROVE  fat[Root] # FREE /\ \A p \in All : Root \notin ClustersOf(p)
  BY DEF RootOrStrayed, RootSafe
<1>1. fat \in Fats /\ RootFat /\ data \in [Index -> Cluster]
  BY DEF TypeInv, DiskTyped, RootInv
<1>2. ASSUME NEW p \in Paths PROVE Root \notin ClustersOf(p)
  <2>1. ParentCluster(p) \in Index /\ Last(p) \in AnyName /\ Last(p) \in Names
        /\ EntryOf(p) = Lookup[ParentCluster(p)][Last(p)]
    BY <1>1, PathEnds
  <2>2. ParentCluster(p) \in Index
    BY <2>1
  <2> DEFINE e == EntryOf(p)
             c == ParentCluster(p)
  <2>3. e \in Slot /\ (e = END \/ e.name = Last(p))
    BY <1>1, <2>1, LookupIs
  <2>4. e.cluster \in Index
    BY <2>3, SlotsTyped
  <2>5. e.cluster # Root
    <3>1. CASE e = END
      <4>1. END.cluster = 0
        BY DEF END
      <4> QED BY <3>1, <4>1, Constants
    <3>2. CASE e # END
      <4>1. PICK i \in 1..Slots : e = data[c][i]
        BY <1>1, <2>1, <3>2, LookupIs
      <4>2. RowSafe(data[c])
        BY <2>1 DEF RootInv, RootData
      <4>3. Last(p) \notin {".", ".."}
        <5>1. Names \intersect {".", ".."} = {}
          BY Fat32Assumption
        <5> QED BY <2>1, <5>1
      <4> HIDE DEF e, c
      <4> QED BY <2>3, <3>2, <4>1, <4>2, <4>3 DEF RowSafe
    <3> QED BY <3>1, <3>2
  <2> HIDE DEF e, c
  <2>6. Root \notin Chain(e.cluster)
    BY <1>1, <2>4, <2>5, ChainMissesRoot
  <2> QED BY <2>6 DEF ClustersOf, e
<1>3. All \subseteq Paths
  BY DEF All, Existing
<1>4. fat[Root] # FREE
  BY <1>1 DEF RootFat
<1> QED BY <1>2, <1>3, <1>4

(* On every volume whose links and entries leave the root alone, no sequence *)
(* of calls, disk errors and power losses frees its cluster or puts it into  *)
(* a file or another directory, as long as no path strays into cluster 0.    *)
THEOREM Fat32RootSafe == Spec => []RootSafe
<1>1. Init => RootOrStrayed
  BY RootInit DEF RootOrStrayed
<1> QED BY <1>1, TypeInit, TypeNext, RootNext, RootInvSafe, PTL DEF Spec


-----------------------------------------------------------------------------
(* The mirror.                                                               *)
Behind == {c \in Index : mirror[c] # fat[c]}

(* The entry whose copy is still to be written, what it is to become, and    *)
(* whether the FAT itself missed it.                                         *)
Pending == IF pc \in {"mirror_used", "roll_back_mirror"} THEN {op.new}
           ELSE IF pc = "free_mirror" THEN {op.cluster} ELSE {}
Wanted  == IF pc = "mirror_used" THEN EOC ELSE FREE
Missed  == IF \E c \in Pending : fat[c] # Wanted THEN 1 ELSE 0

MirrorInv == FatCount > 1 => Cardinality(Behind \ Pending) + Missed <= faults + crashes

LEMMA OneMore ==
  ASSUME NEW A, NEW c, NEW D, A \subseteq Index, D \subseteq A \union {c}
  PROVE  /\ Cardinality(A) \in Nat /\ Cardinality(D) \in Nat
         /\ Cardinality(D) <= Cardinality(A) + 1
         /\ D \subseteq A => Cardinality(D) <= Cardinality(A)
<1>1. IsFiniteSet(A)
  <2>1. IsFiniteSet(0..LastCluster)
    BY Constants, FS_Interval
  <2> QED BY <2>1, FS_Subset DEF Index
<1>2. IsFiniteSet(A \union {c}) /\ Cardinality(A \union {c}) <= Cardinality(A) + 1
  <2>1. Cardinality(A \union {c}) = IF c \in A THEN Cardinality(A) ELSE Cardinality(A) + 1
    BY <1>1, FS_AddElement
  <2>2. IsFiniteSet(A \union {c})
    BY <1>1, FS_AddElement
  <2> QED BY <1>1, <2>1, <2>2, FS_CardinalityType
<1>3. IsFiniteSet(D) /\ Cardinality(D) <= Cardinality(A \union {c})
  BY <1>2, FS_Subset
<1>4. D \subseteq A => Cardinality(D) <= Cardinality(A)
  BY <1>1, FS_Subset
<1>5. Cardinality(A) \in Nat /\ Cardinality(D) \in Nat /\ Cardinality(A \union {c}) \in Nat
  BY <1>1, <1>2, <1>3, FS_CardinalityType
<1> QED BY <1>2, <1>3, <1>4, <1>5

LEMMA MirrorCounts ==
  ASSUME TypeInv
  PROVE  /\ faults \in Nat /\ crashes \in Nat /\ Missed \in {0, 1}
         /\ Cardinality(Behind) \in Nat /\ Cardinality(Behind \ Pending) \in Nat
<1>1. Cardinality(Behind) \in Nat /\ Cardinality(Behind \ Pending) \in Nat
  <2>1. Behind \subseteq Index /\ Behind \ Pending \subseteq Behind \union {0}
    BY DEF Behind
  <2> HIDE DEF Behind, Pending
  <2> QED BY <2>1, OneMore
<1>2. faults \in Nat /\ crashes \in Nat
  BY DEF TypeInv, CountsTyped
<1> QED BY <1>1, <1>2 DEF Missed

(* A write of the FAT, and what it leaves to be done to the mirror.          *)
LEMMA FatWritten ==
  ASSUME TypeInv, MirrorInv, Pending = {}, NEW c \in Index, NEW v \in {FREE, EOC},
         NEW w \in ReadWriteOutcomes, fat' = Put(fat, c, v, w), UNCHANGED <<mirror, crashes>>,
         faults' \in {faults, faults + 1}, w # Perfect => faults' = faults + 1,
         (w.ok /\ Pending' = {c} /\ Wanted' = v) \/ (~w.ok /\ Pending' = {})
  PROVE  MirrorInv'
<1> SUFFICES ASSUME FatCount > 1
             PROVE  Cardinality(Behind' \ Pending') + Missed' <= faults' + crashes'
  BY DEF MirrorInv
<1>1. Cardinality(Behind) <= faults + crashes /\ faults \in Nat /\ crashes \in Nat
  <2>1. Cardinality(Behind \ Pending) + Missed <= faults + crashes /\ Behind \ Pending = Behind
    BY DEF MirrorInv
  <2> QED BY <2>1, MirrorCounts
<1>2. fat \in Fats
  BY DEF TypeInv, DiskTyped
<1>3. /\ Behind' \subseteq Behind \union {c}
      /\ w.stored => fat'[c] = v
  BY <1>2 DEF Behind, Put, Fats
<1>4. Behind \subseteq Index
  BY DEF Behind
<1>5. CASE w.ok /\ Pending' = {c} /\ Wanted' = v
  <2>1. Behind' \ Pending' \subseteq Behind
    BY <1>3, <1>5
  <2>2. Cardinality(Behind' \ Pending') \in Nat /\ Cardinality(Behind' \ Pending') <= Cardinality(Behind)
    <3> DEFINE A == Behind
               D == Behind' \ Pending'
    <3>1. A \subseteq Index /\ D \subseteq A /\ D \subseteq A \union {c}
      BY <1>4, <2>1
    <3> HIDE DEF A, D
    <3>2. Cardinality(D) \in Nat /\ Cardinality(D) <= Cardinality(A)
      BY <3>1, OneMore
    <3> QED BY <3>2 DEF A, D
  <2>3. Missed' = 0 \/ (Missed' = 1 /\ faults' = faults + 1)
    <3>1. Missed' = 1 \/ Missed' = 0
      BY DEF Missed
    <3>2. Missed' = 1 => fat'[c] # v
      BY <1>5 DEF Missed
    <3>3. ~w.stored => w # Perfect
      BY DEF Perfect
    <3> QED BY <1>3, <3>1, <3>2, <3>3
  <2>4. Cardinality(Behind) \in Nat
    BY MirrorCounts
  <2> QED BY <1>1, <2>2, <2>3, <2>4
<1>6. CASE ~w.ok /\ Pending' = {}
  <2>1. faults' = faults + 1
    <3>1. w # Perfect
      BY <1>6 DEF Perfect
    <3> QED BY <3>1
  <2>2. Cardinality(Behind' \ Pending') \in Nat
        /\ Cardinality(Behind' \ Pending') <= Cardinality(Behind) + 1
    <3> DEFINE A == Behind
               D == Behind' \ Pending'
    <3>1. A \subseteq Index /\ D \subseteq A \union {c}
      BY <1>3, <1>4
    <3> HIDE DEF A, D
    <3>2. Cardinality(D) \in Nat /\ Cardinality(D) <= Cardinality(A) + 1
      BY <3>1, OneMore
    <3> QED BY <3>2 DEF A, D
  <2>3. Missed' = 0
    BY <1>6 DEF Missed
  <2>4. Cardinality(Behind) \in Nat
    BY MirrorCounts
  <2> QED BY <1>1, <2>1, <2>2, <2>3, <2>4
<1> QED BY <1>5, <1>6

(* The write of the mirror that follows.                                     *)
LEMMA MirrorWritten ==
  ASSUME TypeInv, MirrorInv, NEW c \in Index, NEW v \in {FREE, EOC}, Pending = {c}, Wanted = v,
         UpdateMirror(c, v), UNCHANGED <<fat, crashes>>, Pending' = {}
  PROVE  MirrorInv'
<1> SUFFICES ASSUME FatCount > 1
             PROVE  Cardinality(Behind' \ Pending') + Missed' <= faults' + crashes'
  BY DEF MirrorInv
<1>1. PICK w \in ReadWriteOutcomes : mirror' = Put(mirror, c, v, w) /\ Count(w # Perfect)
  BY DEF UpdateMirror
<1>2. mirror \in Fats
  BY DEF TypeInv, DiskTyped
<1>3. /\ Behind' \subseteq (Behind \ {c}) \union {c}
      /\ w.stored /\ fat[c] = v => Behind' \subseteq Behind \ {c}
  BY <1>1, <1>2 DEF Behind, Put, Fats
<1>4. Behind' \ Pending' = Behind' /\ Missed' = 0
  BY DEF Missed
<1> DEFINE A == Behind \ {c}
           D == Behind'
<1>5. A \subseteq Index /\ D \subseteq A \union {c}
  BY <1>3 DEF Behind
<1>6. /\ Cardinality(A) + Missed <= faults + crashes /\ Missed \in {0, 1}
      /\ faults \in Nat /\ crashes \in Nat
  BY MirrorCounts DEF MirrorInv
<1>7. w.stored /\ fat[c] = v => D \subseteq A
  BY <1>3
<1>8. w.stored \/ w # Perfect
  BY DEF Perfect
<1>9. faults' = faults + IF w # Perfect THEN 1 ELSE 0
  BY <1>1, <1>6 DEF Count
<1>10. Missed = 0 => fat[c] = v
  BY DEF Missed
<1> HIDE DEF A, D
<1>11. /\ Cardinality(A) \in Nat /\ Cardinality(D) \in Nat
       /\ Cardinality(D) <= Cardinality(A) + 1
       /\ D \subseteq A => Cardinality(D) <= Cardinality(A)
  BY <1>5, OneMore
<1>12. Cardinality(D) <= faults' + crashes'
  <2>1. CASE w # Perfect
    BY <1>6, <1>9, <1>11, <2>1
  <2>2. CASE Missed = 1 /\ w = Perfect
    BY <1>6, <1>9, <1>11, <2>2
  <2>3. CASE Missed = 0 /\ w = Perfect
    <3>1. D \subseteq A
      BY <1>7, <1>8, <1>10, <2>3
    <3> QED BY <1>6, <1>9, <1>11, <2>3, <3>1
  <2> QED BY <1>6, <2>1, <2>2, <2>3
<1> QED BY <1>4, <1>11, <1>12 DEF D


(* The steps that write neither copy.                                        *)
LEMMA MirrorStill ==
  ASSUME TypeInv, MirrorInv, UNCHANGED <<fat, mirror, crashes>>, faults' >= faults, faults' \in Nat,
         Pending = {}, Pending' = {}
  PROVE  MirrorInv'
<1> SUFFICES ASSUME FatCount > 1
             PROVE  Cardinality(Behind' \ Pending') + Missed' <= faults' + crashes'
  BY DEF MirrorInv
<1>1. Behind' \ Pending' = Behind \ Pending
  BY DEF Behind
<1>2. Missed' = 0
  BY DEF Missed
<1> QED BY <1>1, <1>2, MirrorCounts DEF MirrorInv

(* Power lost before the mirror is written leaves one entry behind.          *)
LEMMA CrashMirror ==
  ASSUME TypeInv, MirrorInv, Crash
  PROVE  MirrorInv'
<1> SUFFICES ASSUME FatCount > 1
             PROVE  Cardinality(Behind' \ Pending') + Missed' <= faults' + crashes'
  BY DEF MirrorInv
<1>1. UNCHANGED <<fat, mirror, faults>> /\ crashes' = crashes + 1 /\ pc' = "idle"
  BY DEF Crash, disk
<1>2. Pending' = {} /\ Missed' = 0
  BY <1>1 DEF Pending, Missed
<1>3. PICK c : Pending \subseteq {c}
  BY DEF Pending
<1> DEFINE A == Behind \ Pending
           D == Behind
<1>4. A \subseteq Index /\ D \subseteq A \union {c} /\ Behind' \ Pending' = D
  BY <1>1, <1>2, <1>3 DEF Behind
<1>5. /\ Cardinality(A) + Missed <= faults + crashes /\ Missed \in {0, 1}
      /\ faults \in Nat /\ crashes \in Nat
  BY MirrorCounts DEF MirrorInv
<1> HIDE DEF A, D
<1>6. Cardinality(A) \in Nat /\ Cardinality(D) \in Nat /\ Cardinality(D) <= Cardinality(A) + 1
  BY <1>4, OneMore
<1> QED BY <1>1, <1>2, <1>4, <1>5, <1>6

LEMMA AllocateMirror ==
  ASSUME TypeInv, MirrorInv, Allocate
  PROVE  MirrorInv'
<1>1. UNCHANGED <<mirror, crashes>> /\ Pending = {}
  BY DEF Allocate, Pending
<1>2. CASE Return(-1) /\ UNCHANGED fat /\ faults' \in {faults, faults + 1}
  <2>1. Pending' = {}
    BY <1>2 DEF Return, Pending
  <2>2. faults' >= faults /\ faults' \in Nat
    BY <1>2, MirrorCounts
  <2> QED BY <1>1, <1>2, <2>1, <2>2, MirrorStill
<1>3. CASE \E c \in Index, w \in ReadWriteOutcomes :
             /\ fat[c] = FREE /\ fat' = Put(fat, c, EOC, w)
             /\ IF w.ok THEN Goto("mirror_used", [op EXCEPT !.new = c]) ELSE Return(-1)
             /\ faults' \in {faults, faults + 1} /\ (w # Perfect => faults' = faults + 1)
  <2>1. PICK c \in Index, w \in ReadWriteOutcomes :
             /\ fat[c] = FREE /\ fat' = Put(fat, c, EOC, w)
             /\ IF w.ok THEN Goto("mirror_used", [op EXCEPT !.new = c]) ELSE Return(-1)
             /\ faults' \in {faults, faults + 1} /\ (w # Perfect => faults' = faults + 1)
    BY <1>3
  <2>2. CASE w.ok
    <3>1. pc' = "mirror_used" /\ op' = [op EXCEPT !.new = c]
      BY <2>1, <2>2 DEF Goto
    <3>2. op'.new = c
      BY <3>1 DEF TypeInv, ResultTyped, Frame
    <3>3. Pending' = {c} /\ Wanted' = EOC
      BY <3>1, <3>2 DEF Pending, Wanted
    <3> QED BY <1>1, <2>1, <2>2, <3>3, FatWritten
  <2>3. CASE ~w.ok
    <3>1. Pending' = {}
      BY <2>1, <2>3 DEF Return, Pending
    <3> QED BY <1>1, <2>1, <2>3, <3>1, FatWritten
  <2> QED BY <2>2, <2>3
<1> QED BY <1>2, <1>3, AllocateIs

LEMMA RollBackMirrorPart ==
  ASSUME TypeInv, MirrorInv, RollBack
  PROVE  MirrorInv'
<1>1. UNCHANGED <<mirror, crashes>> /\ Pending = {} /\ op.new \in Index
  BY DEF RollBack, Pending, TypeInv, ResultTyped, Frame
<1>2. PICK w \in ReadWriteOutcomes :
        /\ fat' = Put(fat, op.new, FREE, w) /\ Count(w # Perfect)
        /\ IF w.ok THEN Goto("roll_back_mirror", op) ELSE Return(-1)
  BY DEF RollBack
<1>3. faults' \in {faults, faults + 1} /\ (w # Perfect => faults' = faults + 1)
  BY <1>2 DEF Count
<1>4. (w.ok /\ Pending' = {op.new} /\ Wanted' = FREE) \/ (~w.ok /\ Pending' = {})
  BY <1>2 DEF Goto, Return, Pending, Wanted
<1> QED BY <1>1, <1>2, <1>3, <1>4, FatWritten

LEMMA FreeClusterMirror ==
  ASSUME TypeInv, MirrorInv, FreeCluster
  PROVE  MirrorInv'
<1>1. UNCHANGED <<mirror, crashes>> /\ Pending = {} /\ op.cluster \in Index
  BY DEF FreeCluster, Pending, TypeInv, ResultTyped, Frame
<1>2. PICK n \in {NONE, NextCluster(op.cluster)}, w \in ReadWriteOutcomes :
        /\ fat' = Put(fat, op.cluster, FREE, w)
        /\ IF w.ok THEN Goto("free_mirror", [op EXCEPT !.next = n])
                   ELSE Goto("free", [op EXCEPT !.cluster = n])
        /\ faults' \in {faults, faults + 1} /\ (w # Perfect => faults' = faults + 1)
  BY FreeClusterIs
<1>3. CASE w.ok
  <2>1. pc' = "free_mirror" /\ op' = [op EXCEPT !.next = n]
    BY <1>2, <1>3 DEF Goto
  <2>2. op'.cluster = op.cluster
    BY <2>1 DEF TypeInv, ResultTyped, Frame
  <2>3. Pending' = {op.cluster} /\ Wanted' = FREE
    BY <2>1, <2>2 DEF Pending, Wanted
  <2> QED BY <1>1, <1>2, <1>3, <2>3, FatWritten
<1>4. CASE ~w.ok
  <2>1. Pending' = {}
    BY <1>2, <1>4 DEF Goto, Pending
  <2> QED BY <1>1, <1>2, <1>4, <2>1, FatWritten
<1> QED BY <1>3, <1>4

LEMMA MirrorUsedMirror ==
  ASSUME TypeInv, MirrorInv, MirrorUsed
  PROVE  MirrorInv'
<1>1. Pending = {op.new} /\ Wanted = EOC /\ op.new \in Index
  BY DEF MirrorUsed, Pending, Wanted, TypeInv, ResultTyped, Frame
<1>2. UpdateMirror(op.new, EOC) /\ UNCHANGED <<fat, crashes>> /\ Pending' = {}
  BY DEF MirrorUsed, Goto, Pending
<1> QED BY <1>1, <1>2, MirrorWritten

LEMMA RollBackMirrorMirror ==
  ASSUME TypeInv, MirrorInv, RollBackMirror
  PROVE  MirrorInv'
<1>1. Pending = {op.new} /\ Wanted = FREE /\ op.new \in Index
  BY DEF RollBackMirror, Pending, Wanted, TypeInv, ResultTyped, Frame
<1>2. UpdateMirror(op.new, FREE) /\ UNCHANGED <<fat, crashes>> /\ Pending' = {}
  BY DEF RollBackMirror, Return, Pending
<1> QED BY <1>1, <1>2, MirrorWritten

LEMMA FreeMirrorMirror ==
  ASSUME TypeInv, MirrorInv, FreeMirror
  PROVE  MirrorInv'
<1>1. Pending = {op.cluster} /\ Wanted = FREE /\ op.cluster \in Index
  BY DEF FreeMirror, Pending, Wanted, TypeInv, ResultTyped, Frame
<1>2. UpdateMirror(op.cluster, FREE) /\ UNCHANGED <<fat, crashes>> /\ Pending' = {}
  BY DEF FreeMirror, Goto, Pending
<1> QED BY <1>1, <1>2, MirrorWritten

LEMMA OtherMirror ==
  ASSUME TypeInv, MirrorInv, TypeInv',
         \/ \E p \in Paths, call \in Calls : StartCreate(call, p) \/ StartRemove(call, p)
         \/ StartFails \/ WriteNew \/ WriteParent \/ DeleteEntry
  PROVE  MirrorInv'
<1>1. UNCHANGED <<fat, mirror, crashes>> /\ Pending = {} /\ Pending' = {}
  <2>1. pc \notin {"mirror_used", "roll_back_mirror", "free_mirror"}
    BY DEF StartCreate, StartRemove, StartFails, WriteNew, WriteParent, DeleteEntry
  <2>2. pc' \notin {"mirror_used", "roll_back_mirror", "free_mirror"}
    BY DEF StartCreate, StartRemove, StartFails, WriteNew, WriteParent, DeleteEntry, Goto, Return
  <2>3. UNCHANGED <<fat, mirror, crashes>>
    BY DEF StartCreate, StartRemove, StartFails, WriteNew, WriteParent, DeleteEntry, disk
  <2> QED BY <2>1, <2>2, <2>3 DEF Pending
<1>2. faults' \in {faults, faults + 1}
  BY DEF StartCreate, StartRemove, StartFails, WriteNew, WriteParent, DeleteEntry, Count
<1>3. faults' >= faults /\ faults' \in Nat
  BY <1>2, MirrorCounts
<1> QED BY <1>1, <1>3, MirrorStill

LEMMA MirrorInit == Init => MirrorInv
<1> SUFFICES ASSUME Init PROVE MirrorInv
  OBVIOUS
<1>1. mirror = fat /\ pc = "idle" /\ faults = 0 /\ crashes = 0
  BY DEF Init
<1>2. Behind \ Pending = {} /\ Missed = 0
  BY <1>1 DEF Behind, Pending, Missed
<1> QED BY <1>1, <1>2, FS_EmptySet DEF MirrorInv

MirrorOrStrayed == strayed = TRUE \/ MirrorInv

LEMMA MirrorNext == TypeInv /\ MirrorOrStrayed /\ [Next]_vars => MirrorOrStrayed'
<1> SUFFICES ASSUME TypeInv, MirrorInv, [Next]_vars, ~IntoFat PROVE MirrorInv'
  BY StraysInto, StrayedStays DEF MirrorOrStrayed
<1>1. TypeInv'
  BY TypeNext
<1>2. CASE UNCHANGED vars
  BY <1>2 DEF vars, disk, MirrorInv, Behind, Pending, Wanted, Missed
<1> QED BY <1>1, <1>2, Steps, AllocateMirror, MirrorUsedMirror, RollBackMirrorPart,
           RollBackMirrorMirror, FreeClusterMirror, FreeMirrorMirror, CrashMirror, OtherMirror

LEMMA MirrorInvFollows ==
  ASSUME TypeInv, MirrorOrStrayed
  PROVE  MirrorFollows
<1> SUFFICES ASSUME FatCount > 1, MirrorInv
             PROVE  Cardinality(Behind) <= faults + crashes + IF pc = "idle" THEN 0 ELSE 1
  BY DEF MirrorFollows, MirrorOrStrayed, Behind
<1>1. /\ Cardinality(Behind \ Pending) <= faults + crashes
      /\ faults \in Nat /\ crashes \in Nat
  BY MirrorCounts DEF MirrorInv
<1>2. CASE pc = "idle"
  <2>1. Behind \ Pending = Behind
    BY <1>2 DEF Pending
  <2> QED BY <1>1, <1>2, <2>1
<1>3. CASE pc # "idle"
  <2>1. PICK c : Pending \subseteq {c}
    BY DEF Pending
  <2> DEFINE A == Behind \ Pending
             D == Behind
  <2>2. A \subseteq Index /\ D \subseteq A \union {c}
    BY <2>1 DEF Behind
  <2> HIDE DEF A, D
  <2>3. Cardinality(A) \in Nat /\ Cardinality(D) \in Nat /\ Cardinality(D) <= Cardinality(A) + 1
    BY <2>2, OneMore
  <2> QED BY <1>1, <1>3, <2>3 DEF A, D
<1> QED BY <1>2, <1>3

(* The mirror of the FAT differs from it in no more entries than the disk    *)
(* erred and power was lost, and the one being written, as long as no path   *)
(* strays into cluster 0.                                                    *)
THEOREM Fat32MirrorFollows == Spec => []MirrorFollows
<1>1. Init => MirrorOrStrayed
  BY MirrorInit DEF MirrorOrStrayed
<1> QED BY <1>1, TypeInit, TypeNext, MirrorNext, MirrorInvFollows, PTL DEF Spec

-----------------------------------------------------------------------------
(* The directory tree.                                                       *)
EmptyNames == "" \notin Names /\ "." \notin Names /\ ".." \notin Names

LEMMA OrdinaryNames ==
  ASSUME OrdinaryUse
  PROVE  EmptyNames /\ Names \subseteq DISKNAMES
<1>1. Names \intersect {".", ".."} = {} /\ "" \notin DISKNAMES
  BY Fat32Assumption
<1>2. \A n \in Names : n \in DISKNAMES
  <2> SUFFICES ASSUME NEW n \in Names PROVE n \in DISKNAMES
    OBVIOUS
  <2>1. ShortName[n] = n
    BY DEF OrdinaryUse
  <2> QED BY <2>1 DEF DISKNAMES
<1> QED BY <1>1, <1>2 DEF EmptyNames

(* In a directory of the tree a name has one slot, the one the scan finds.   *)
LEMMA NameFound ==
  ASSUME EmptyNames, NEW c \in Index, NEW n \in Names, OrderedRow(data[c]),
         NEW i \in 1..Slots, data[c][i].name = n
  PROVE  SlotOf[c][n] = i
<1>0. Slots \in Nat
  BY Constants
<1>1. Named(c, i, n)
  <2> SUFFICES ASSUME NEW j \in 1..i, data[c][j] = END PROVE FALSE
    BY DEF Named, Reached
  <2>1. j \in 1..Slots /\ (j = i \/ j < i)
    BY <1>0
  <2>2. data[c][i] = END
    BY <2>1 DEF OrderedRow
  <2>3. END.name = ""
    BY DEF END
  <2> QED BY <2>2, <2>3 DEF EmptyNames
<1>2. n \in AnyName
  BY DEF AnyName
<1>3. SlotOf[c][n] # 0
  <2> DEFINE first == CHOOSE k \in 1..Slots : Named(c, k, n) /\ \A j \in 1..(k - 1) : ~Named(c, j, n)
             T == {k \in 1..Slots : Named(c, k, n)}
  <2>1. PICK k \in T : \A j \in T : k <= j
    <3>1. T \in SUBSET Nat /\ T # {}
      BY <1>0, <1>1
    <3> HIDE DEF T
    <3> QED BY <3>1, LeastElement
  <2>2. \A j \in 1..(k - 1) : ~Named(c, j, n)
    <3> SUFFICES ASSUME NEW j \in 1..(k - 1), Named(c, j, n) PROVE FALSE
      OBVIOUS
    <3>1. j \in 1..Slots /\ j < k
      BY <1>0
    <3> QED BY <2>1, <3>1
  <2>3. first \in 1..Slots
    BY <2>2
  <2>4. SlotOf[c][n] = first
    BY <1>1, <1>2 DEF SlotOf, AnyName
  <2> HIDE DEF first
  <2> QED BY <1>0, <2>3, <2>4
<1>4. SlotOf[c][n] \in 1..Slots /\ data[c][SlotOf[c][n]].name = n
  BY <1>0, <1>2, <1>3, SlotOfIs
<1> QED BY <1>4 DEF OrderedRow

(* A name is looked up to the entry that has it, or to none.                 *)
Found(home, d, n) ==
  LET i == SlotOf[d][n] IN
  /\ i # 0 => /\ <<d, i>> \in Ids(data, home) /\ i \in 1..Slots
              /\ Lookup[d][n] = data[d][i] /\ data[d][i].name = n
  /\ i = 0 => Lookup[d][n] = END
  /\ \A j \in 1..Slots : data[d][j].name = n => i = j

LEMMA LookupInTree ==
  ASSUME EmptyNames, NEW home, Directories(data, home), NEW d \in DOMAIN home, NEW n \in Names
  PROVE  Found(home, d, n)
<1>0. Slots \in Nat /\ d \in Index /\ d # NONE /\ n \in AnyName /\ OrderedRow(data[d])
  BY Constants DEF Directories, AnyName
<1>1. SlotOf[d][n] \in 0..Slots /\ (SlotOf[d][n] # 0 => data[d][SlotOf[d][n]].name = n)
  BY <1>0, SlotOfIs
<1>2. Lookup[d][n] = IF d = NONE \/ SlotOf[d][n] = 0 THEN END ELSE data[d][SlotOf[d][n]]
  BY <1>0 DEF Lookup, AnyName
<1>3. \A i \in 1..Slots : data[d][i].name = n => SlotOf[d][n] = i
  BY <1>0, NameFound
<1>4. ASSUME SlotOf[d][n] # 0 PROVE <<d, SlotOf[d][n]>> \in Ids(data, home)
  <2>1. SlotOf[d][n] \in 1..Slots /\ data[d][SlotOf[d][n]].name \in Names
    BY <1>0, <1>1, <1>4
  <2> QED BY <2>1 DEF Ids, At
<1> QED BY <1>0, <1>1, <1>2, <1>3, <1>4 DEF Found

LEMMA IdIs ==
  ASSUME NEW t, NEW home, Directories(t, home), NEW e \in Ids(t, home)
  PROVE  /\ e = <<e[1], e[2]>> /\ e[1] \in DOMAIN home /\ e[2] \in 1..Slots
         /\ At(t, e) = t[e[1]][e[2]] /\ At(t, e).name \in Names
         /\ home[e[1]] \in Seq(Names)
         /\ PathOf(t, home, e) \in Seq(Names)
         /\ Len(PathOf(t, home, e)) = Len(home[e[1]]) + 1
         /\ Len(home[e[1]]) \in Nat
         /\ e # NOBODY /\ e # THEROOT
<1>1. e \in (DOMAIN home) \X (1..Slots) /\ At(t, e).name \in Names
  BY DEF Ids
<1>2. e = <<e[1], e[2]>> /\ e[1] \in DOMAIN home /\ e[2] \in 1..Slots
  BY <1>1
<1>3. home[e[1]] \in Seq(Names)
  BY <1>2 DEF Directories
<1>4. e[2] # 0
  BY <1>2, Constants
<1>5. e # NOBODY /\ e # THEROOT
  BY <1>4 DEF NOBODY, THEROOT
<1>6. PathOf(t, home, e) = Append(home[e[1]], At(t, e).name)
  BY DEF PathOf
<1>7. /\ Append(home[e[1]], At(t, e).name) \in Seq(Names)
      /\ Len(Append(home[e[1]], At(t, e).name)) = Len(home[e[1]]) + 1
      /\ Len(home[e[1]]) \in Nat
  BY <1>1, <1>3, AppendProperties, LenProperties
<1> QED BY <1>1, <1>2, <1>3, <1>5, <1>6, <1>7 DEF At

(* Two entries do not have one path.                                         *)
LEMMA PathsDiffer ==
  ASSUME NEW t, NEW home, Directories(t, home), NEW e \in Ids(t, home), NEW g \in Ids(t, home),
         PathOf(t, home, e) = PathOf(t, home, g)
  PROVE  e = g
<1>1. /\ e = <<e[1], e[2]>> /\ e[1] \in DOMAIN home /\ e[2] \in 1..Slots
      /\ At(t, e) = t[e[1]][e[2]] /\ At(t, e).name \in Names /\ home[e[1]] \in Seq(Names)
  BY IdIs
<1>2. /\ g = <<g[1], g[2]>> /\ g[1] \in DOMAIN home /\ g[2] \in 1..Slots
      /\ At(t, g) = t[g[1]][g[2]] /\ At(t, g).name \in Names /\ home[g[1]] \in Seq(Names)
  BY IdIs
<1>3. home[e[1]] = home[g[1]] /\ At(t, e).name = At(t, g).name
  BY <1>1, <1>2, AppendInjective DEF PathOf
<1>4. e[1] = g[1]
  BY <1>1, <1>2, <1>3 DEF Directories
<1>5. OrderedRow(t[e[1]])
  BY <1>1 DEF Directories
<1>6. e[2] = g[2]
  BY <1>1, <1>2, <1>3, <1>4, <1>5 DEF OrderedRow
<1> QED BY <1>1, <1>2, <1>4, <1>6

-----------------------------------------------------------------------------
(* Paths and the walks along them.                                           *)

LEMMA FirstPart ==
  ASSUME NEW S, NEW s \in Seq(S), NEW k \in 0..Len(s)
  PROVE  /\ SubSeq(s, 1, k) \in Seq(S) /\ Len(SubSeq(s, 1, k)) = k
         /\ \A i \in 1..k : SubSeq(s, 1, k)[i] = s[i]
<1>1. Len(s) \in Nat /\ 1 \in Int /\ k \in Int
  BY LenProperties
<1>2. \A i \in 1..k : s[i] \in S
  <2> SUFFICES ASSUME NEW i \in 1..k PROVE s[i] \in S
    OBVIOUS
  <2>1. i \in 1..Len(s)
    BY <1>1
  <2> QED BY <2>1, ElementOfSeq
<1>3. /\ SubSeq(s, 1, k) \in Seq(S)
      /\ Len(SubSeq(s, 1, k)) = IF 1 <= k THEN k - 1 + 1 ELSE 0
      /\ \A i \in 1..k - 1 + 1 : SubSeq(s, 1, k)[i] = s[1 + i - 1]
  BY <1>1, <1>2, SubSeqProperties
<1>4. k - 1 + 1 = k /\ \A i \in 1..k : 1 + i - 1 = i
  BY <1>1
<1> QED BY <1>1, <1>3, <1>4

LEMMA PartsGrow ==
  ASSUME NEW S, NEW s \in Seq(S), NEW k \in Nat, k + 1 <= Len(s)
  PROVE  SubSeq(s, 1, k + 1) = Append(SubSeq(s, 1, k), s[k + 1])
<1>0. Len(s) \in Nat /\ k \in 0..Len(s) /\ k + 1 \in 0..Len(s) /\ k + 1 \in 1..Len(s)
  BY LenProperties
<1> DEFINE p == SubSeq(s, 1, k + 1)
           q == SubSeq(s, 1, k)
<1>1. p \in Seq(S) /\ Len(p) = k + 1 /\ \A i \in 1..k + 1 : p[i] = s[i]
  BY <1>0, FirstPart
<1>2. q \in Seq(S) /\ Len(q) = k /\ (\A i \in 1..k : q[i] = s[i]) /\ s[k + 1] \in S
  BY <1>0, FirstPart, ElementOfSeq
<1> HIDE DEF p, q
<1>3. /\ Append(q, s[k + 1]) \in Seq(S) /\ Len(Append(q, s[k + 1])) = k + 1
      /\ \A i \in 1..k : Append(q, s[k + 1])[i] = q[i]
      /\ Append(q, s[k + 1])[k + 1] = s[k + 1]
  BY <1>2, AppendProperties
<1>4. \A i \in 1..k + 1 : p[i] = Append(q, s[k + 1])[i]
  <2> SUFFICES ASSUME NEW i \in 1..k + 1 PROVE p[i] = Append(q, s[k + 1])[i]
    OBVIOUS
  <2>1. i = k + 1 \/ i \in 1..k
    OBVIOUS
  <2> QED BY <1>1, <1>2, <1>3, <2>1
<1>5. p = Append(q, s[k + 1])
  BY <1>1, <1>3, <1>4, SeqEqual
<1> QED BY <1>5 DEF p, q

(* A path is its last name after the path of its directory.                  *)
LEMMA PathParts ==
  ASSUME OrdinaryUse, NEW p \in Paths
  PROVE  /\ p \in Seq(Names) /\ Len(p) \in Nat /\ Len(p) >= 1
         /\ Last(p) = p[Len(p)] /\ Last(p) \in Names
         /\ Upper(p) = SubSeq(p, 1, Len(p) - 1) /\ Upper(p) \in Seq(Names)
         /\ p = Append(Upper(p), Last(p))
<1>1. p \in Seq(Names) /\ p # <<>> /\ p[Len(p)] \in Names
  BY Fat32Assumption DEF OrdinaryUse
<1>2. Len(p) \in Nat /\ Len(p) >= 1
  BY <1>1, EmptySeq, LenProperties
<1>3. Len(p) - 1 \in Nat /\ (Len(p) - 1) + 1 = Len(p) /\ Len(p) - 1 \in 0..Len(p)
  BY <1>2
<1>4. SubSeq(p, 1, Len(p) - 1) \in Seq(Names)
  BY <1>1, <1>3, FirstPart
<1>5. SubSeq(p, 1, Len(p)) = Append(SubSeq(p, 1, Len(p) - 1), p[Len(p)])
  <2> DEFINE k == Len(p) - 1
  <2>1. k \in Nat /\ k + 1 = Len(p)
    BY <1>3
  <2> HIDE DEF k
  <2>2. SubSeq(p, 1, k + 1) = Append(SubSeq(p, 1, k), p[k + 1])
    BY <1>1, <1>2, <2>1, PartsGrow
  <2> QED BY <2>1, <2>2 DEF k
<1>6. SubSeq(p, 1, Len(p)) = p
  BY <1>1, SubSeqFull
<1> QED BY <1>1, <1>2, <1>4, <1>5, <1>6 DEF Last, Upper

(* The walk w goes down through directories as far as step k.                *)
DirsTo(w, k) == \A j \in 1..k : w[j].kind = "dir"

(* A walk down through directories is at the directory of the path so far.   *)
LEMMA WalkDown ==
  ASSUME OrdinaryUse, NEW home, NEW own, Directories(data, home), Linked(data, home, own),
         NEW p \in Paths, NEW k \in 0..Len(p), DirsTo(Walk(p), k)
  PROVE  Walk(p)[k].cluster \in DOMAIN home /\ home[Walk(p)[k].cluster] = SubSeq(p, 1, k)
<1>0. p \in Seq(Names) /\ Len(p) \in Nat /\ EmptyNames
  BY PathParts, OrdinaryNames
<1> DEFINE w == Walk(p)
           S == {n \in Nat : n <= k => w[n].cluster \in DOMAIN home /\ home[w[n].cluster] = SubSeq(p, 1, n)}
<1>1. IsWalk(p, Len(p), w)
  BY <1>0, WalkIs
<1>2. DirsTo(w, k)
  OBVIOUS
<1> HIDE DEF w
<1>3. 0 \in S
  <2>1. w[0] = WalkStart /\ WalkStart.cluster = Root
    BY <1>1 DEF IsWalk, WalkStart
  <2>2. home[Root] = <<>> /\ Root \in DOMAIN home /\ SubSeq(p, 1, 0) = <<>>
    BY SubSeqEmpty DEF Directories
  <2> QED BY <2>1, <2>2
<1>4. ASSUME NEW n \in S PROVE n + 1 \in S
  <2> SUFFICES ASSUME n + 1 <= k
               PROVE  w[n + 1].cluster \in DOMAIN home /\ home[w[n + 1].cluster] = SubSeq(p, 1, n + 1)
    OBVIOUS
  <2> DEFINE d == w[n].cluster
  <2>1. /\ n \in Nat /\ n + 1 \in 1..Len(p) /\ (n + 1) - 1 = n /\ n + 1 \in 1..k
        /\ d \in DOMAIN home /\ home[d] = SubSeq(p, 1, n)
    BY <1>0
  <2>2. p[n + 1] \in Names
    BY <1>0, <2>1, ElementOfSeq
  <2>3. w[n + 1] = Lookup[d][p[n + 1]]
    BY <1>1, <2>1 DEF IsWalk
  <2>4. w[n + 1].kind = "dir"
    BY <1>2, <2>1 DEF DirsTo
  <2> HIDE DEF d
  <2> DEFINE i == SlotOf[d][p[n + 1]]
  <2>5. Found(home, d, p[n + 1])
    BY <1>0, <2>1, <2>2, LookupInTree
  <2>11. i # 0
    <3>1. i = 0 => Lookup[d][p[n + 1]] = END
      BY <2>5 DEF Found
    <3>2. END.kind # "dir"
      BY DEF END
    <3> QED BY <2>3, <2>4, <3>1, <3>2
  <2>6. <<d, i>> \in Ids(data, home) /\ w[n + 1] = data[d][i] /\ w[n + 1].name = p[n + 1]
    BY <2>3, <2>5, <2>11 DEF Found
  <2> HIDE DEF i
  <2>7. At(data, <<d, i>>) = w[n + 1]
    BY <2>6 DEF At
  <2>8. /\ w[n + 1].cluster \in DOMAIN home
        /\ home[w[n + 1].cluster] = PathOf(data, home, <<d, i>>)
    BY <2>4, <2>6, <2>7 DEF Linked
  <2>9. PathOf(data, home, <<d, i>>) = Append(SubSeq(p, 1, n), p[n + 1])
    BY <2>1, <2>6, <2>7 DEF PathOf
  <2>10. SubSeq(p, 1, n + 1) = Append(SubSeq(p, 1, n), p[n + 1])
    <3>1. n + 1 <= Len(p)
      BY <2>1
    <3> QED BY <1>0, <2>1, <3>1, PartsGrow
  <2> QED BY <2>8, <2>9, <2>10
<1>5. k \in S
  <2>1. S \in SUBSET Nat
    OBVIOUS
  <2> HIDE DEF S
  <2>2. S = Nat
    BY <1>3, <1>4, <2>1, SetInduction
  <2> QED BY <1>0, <2>2
<1> QED BY <1>0, <1>5 DEF w

(* The walk along the path of a directory comes to it, through directories.  *)
LEMMA WalkToDirectory ==
  ASSUME OrdinaryUse, NEW home, NEW own, Directories(data, home), Linked(data, home, own),
         NEW p \in Paths, NEW k \in 0..Len(p), NEW c \in DOMAIN home, home[c] = SubSeq(p, 1, k)
  PROVE  Walk(p)[k].cluster = c /\ DirsTo(Walk(p), k)
<1>0. p \in Seq(Names) /\ Len(p) \in Nat /\ EmptyNames
  BY PathParts, OrdinaryNames
<1> DEFINE w == Walk(p)
           S == {n \in Nat : n <= Len(p) =>
                   \A d \in DOMAIN home : home[d] = SubSeq(p, 1, n) => w[n].cluster = d /\ DirsTo(w, n)}
<1>1. IsWalk(p, Len(p), w)
  BY <1>0, WalkIs
<1> HIDE DEF w
<1>3. 0 \in S
  <2>1. w[0] = WalkStart /\ WalkStart.cluster = Root
    BY <1>1 DEF IsWalk, WalkStart
  <2>2. SubSeq(p, 1, 0) = <<>>
    BY SubSeqEmpty
  <2>3. \A d \in DOMAIN home : home[d] = <<>> => d = Root
    BY DEF Directories
  <2>4. DirsTo(w, 0)
    BY DEF DirsTo
  <2> QED BY <2>1, <2>2, <2>3, <2>4
<1>4. ASSUME NEW n \in S PROVE n + 1 \in S
  <2> SUFFICES ASSUME n + 1 <= Len(p), NEW d \in DOMAIN home, home[d] = SubSeq(p, 1, n + 1)
               PROVE  w[n + 1].cluster = d /\ DirsTo(w, n + 1)
    OBVIOUS
  <2>1. n \in Nat /\ n \in 0..Len(p) /\ n + 1 \in 1..Len(p) /\ (n + 1) - 1 = n
    BY <1>0
  <2>2. p[n + 1] \in Names /\ SubSeq(p, 1, n) \in Seq(Names)
    BY <1>0, <2>1, ElementOfSeq, FirstPart
  <2>3. home[d] = Append(SubSeq(p, 1, n), p[n + 1])
    BY <1>0, <2>1, PartsGrow
  <2>4. d # Root
    <3>1. home[d] # <<>>
      BY <2>2, <2>3, AppendProperties
    <3> QED BY <3>1 DEF Directories
  <2> DEFINE e == own[d]
  <2>5. e \in Ids(data, home) /\ At(data, e).kind = "dir" /\ At(data, e).cluster = d
    BY <2>4 DEF Linked
  <2> HIDE DEF e
  <2>6. home[d] = Append(home[e[1]], At(data, e).name)
    BY <2>5 DEF Linked, PathOf
  <2>7. /\ e[1] \in DOMAIN home /\ e[2] \in 1..Slots /\ home[e[1]] \in Seq(Names)
        /\ At(data, e) = data[e[1]][e[2]] /\ At(data, e).name \in Names
    BY <2>5, IdIs
  <2>8. home[e[1]] = SubSeq(p, 1, n) /\ At(data, e).name = p[n + 1]
    <3> DEFINE a == At(data, e).name
               u == home[e[1]]
               b == p[n + 1]
               s == SubSeq(p, 1, n)
    <3>1. /\ Append(s, b) = Append(u, a)
          /\ a \in Names /\ b \in Names /\ u \in Seq(Names) /\ s \in Seq(Names)
      BY <2>2, <2>3, <2>6, <2>7
    <3> HIDE DEF a, u, b, s
    <3>2. s = u /\ a = b
      BY <3>1, AppendInjective
    <3> QED BY <3>2 DEF a, u, b, s
  <2>9. w[n].cluster = e[1] /\ DirsTo(w, n)
    BY <2>1, <2>7, <2>8
  <2>10. w[n + 1] = Lookup[e[1]][p[n + 1]]
    BY <1>1, <2>1, <2>9 DEF IsWalk
  <2>11. Lookup[e[1]][p[n + 1]] = At(data, e)
    <3>1. Found(home, e[1], p[n + 1])
      BY <1>0, <2>2, <2>7, LookupInTree
    <3>2. SlotOf[e[1]][p[n + 1]] = e[2]
      BY <2>7, <2>8, <3>1 DEF Found
    <3>3. e[2] # 0
      BY <2>7, Constants
    <3> QED BY <2>7, <3>1, <3>2, <3>3 DEF Found
  <2>12. w[n + 1].cluster = d /\ w[n + 1].kind = "dir"
    BY <2>5, <2>10, <2>11
  <2>13. DirsTo(w, n + 1)
    BY <2>1, <2>9, <2>12 DEF DirsTo
  <2> QED BY <2>12, <2>13
<1>5. k \in S
  <2>1. S \in SUBSET Nat
    OBVIOUS
  <2> HIDE DEF S
  <2>2. S = Nat
    BY <1>3, <1>4, <2>1, SetInduction
  <2> QED BY <1>0, <2>2
<1> QED BY <1>0, <1>5 DEF w

(* The entry e is the one the path p leads to.                               *)
Stands(home, p, e) ==
  /\ e \in Ids(data, home) /\ PathOf(data, home, e) = p
  /\ EntryOf(p) = At(data, e)
  /\ ParentCluster(p) = e[1] /\ SlotOf[e[1]][Last(p)] = e[2]
  /\ home[e[1]] = Upper(p) /\ At(data, e).name = Last(p)
  /\ DirsTo(Walk(p), Len(p) - 1)

(* What the last name of a path finds in a directory of the tree.            *)
LEMMA StandsAtSlot ==
  ASSUME OrdinaryUse, NEW home, NEW own, Directories(data, home), Linked(data, home, own),
         NEW p \in Paths, ParentCluster(p) \in DOMAIN home, home[ParentCluster(p)] = Upper(p),
         DirsTo(Walk(p), Len(p) - 1), SlotOf[ParentCluster(p)][Last(p)] # 0
  PROVE  Stands(home, p, <<ParentCluster(p), SlotOf[ParentCluster(p)][Last(p)]>>)
<1>0. /\ p \in Seq(Names) /\ Len(p) \in Nat /\ Len(p) >= 1 /\ Last(p) = p[Len(p)] /\ Last(p) \in Names
      /\ p = Append(Upper(p), Last(p)) /\ EmptyNames
  BY PathParts, OrdinaryNames
<1> DEFINE d == ParentCluster(p)
           i == SlotOf[d][Last(p)]
<1>1. Found(home, d, Last(p))
  BY <1>0, LookupInTree
<1>2. EntryOf(p) = Lookup[d][Last(p)]
  <2>1. IsWalk(p, Len(p), Walk(p))
    BY <1>0, WalkIs
  <2>2. Len(p) \in 1..Len(p)
    BY <1>0
  <2> DEFINE w == Walk(p)
  <2> HIDE DEF w
  <2>3. w[Len(p)] = Lookup[w[Len(p) - 1].cluster][p[Len(p)]]
    BY <2>1, <2>2 DEF IsWalk, w
  <2> QED BY <1>0, <2>3 DEF EntryOf, ParentCluster, w
<1>3. /\ <<d, i>> \in Ids(data, home) /\ EntryOf(p) = data[d][i] /\ data[d][i].name = Last(p)
  BY <1>1, <1>2 DEF Found
<1> HIDE DEF i, d
<1>4. d \in DOMAIN home /\ home[d] = Upper(p) /\ d = ParentCluster(p) /\ i = SlotOf[d][Last(p)]
  BY DEF d, i
<1> DEFINE e == <<d, i>>
<1>5. e[1] = d /\ e[2] = i /\ At(data, e) = data[d][i]
  BY DEF At
<1>6. PathOf(data, home, e) = p
  BY <1>0, <1>3, <1>4, <1>5 DEF PathOf
<1> HIDE DEF e
<1>7. Stands(home, p, e)
  BY <1>3, <1>4, <1>5, <1>6 DEF Stands, e
<1> QED BY <1>7 DEF e, d, i

LEMMA EntryStands ==
  ASSUME OrdinaryUse, NEW home, NEW own, Directories(data, home), Linked(data, home, own),
         NEW e \in Ids(data, home), PathOf(data, home, e) \in Paths
  PROVE  Stands(home, PathOf(data, home, e), e)
<1> DEFINE p == PathOf(data, home, e)
<1>1. /\ p \in Seq(Names) /\ Len(p) \in Nat /\ Len(p) >= 1 /\ Last(p) \in Names
      /\ Upper(p) = SubSeq(p, 1, Len(p) - 1) /\ Upper(p) \in Seq(Names)
      /\ p = Append(Upper(p), Last(p)) /\ EmptyNames
  BY PathParts, OrdinaryNames
<1>2. /\ e = <<e[1], e[2]>> /\ e[1] \in DOMAIN home /\ e[2] \in 1..Slots /\ home[e[1]] \in Seq(Names)
      /\ At(data, e) = data[e[1]][e[2]] /\ At(data, e).name \in Names
  BY IdIs
<1>3. home[e[1]] = Upper(p) /\ At(data, e).name = Last(p)
  <2> DEFINE s == home[e[1]]
             a == At(data, e).name
             u == Upper(p)
             b == Last(p)
  <2>1. /\ Append(s, a) = Append(u, b)
        /\ s \in Seq(Names) /\ a \in Names /\ u \in Seq(Names) /\ b \in Names
    BY <1>1, <1>2 DEF PathOf
  <2> HIDE DEF s, a, u, b
  <2>2. s = u /\ a = b
    BY <2>1, AppendInjective
  <2> QED BY <2>2 DEF s, a, u, b
<1> HIDE DEF p
<1>4. Walk(p)[Len(p) - 1].cluster = e[1] /\ DirsTo(Walk(p), Len(p) - 1)
  <2> DEFINE k == Len(p) - 1
  <2>1. k \in 0..Len(p) /\ p \in Paths /\ home[e[1]] = SubSeq(p, 1, k)
    BY <1>1, <1>3 DEF p
  <2> HIDE DEF k
  <2> QED BY <1>2, <2>1, WalkToDirectory DEF k
<1>5. ParentCluster(p) = e[1]
  BY <1>4 DEF ParentCluster
<1>6. Found(home, e[1], Last(p))
  BY <1>1, <1>2, LookupInTree
<1>7. SlotOf[e[1]][Last(p)] = e[2] /\ e[2] # 0
  BY <1>2, <1>3, <1>6, Constants DEF Found
<1>8. Stands(home, p, <<ParentCluster(p), SlotOf[ParentCluster(p)][Last(p)]>>)
  <2>1. p \in Paths
    BY DEF p
  <2> QED BY <1>2, <1>3, <1>4, <1>5, <1>7, <2>1, StandsAtSlot
<1>9. <<ParentCluster(p), SlotOf[ParentCluster(p)][Last(p)]>> = e
  BY <1>2, <1>5, <1>7
<1> QED BY <1>8, <1>9 DEF p

LEMMA PathStands ==
  ASSUME OrdinaryUse, NEW home, NEW own, Directories(data, home), Linked(data, home, own),
         NEW p \in Paths, DirsTo(Walk(p), Len(p) - 1), EntryOf(p) # END
  PROVE  \E e : Stands(home, p, e)
<1>1. /\ p \in Seq(Names) /\ Len(p) \in Nat /\ Len(p) >= 1 /\ Last(p) \in Names
      /\ Upper(p) = SubSeq(p, 1, Len(p) - 1) /\ Last(p) = p[Len(p)] /\ EmptyNames
  BY PathParts, OrdinaryNames
<1>2. ParentCluster(p) \in DOMAIN home /\ home[ParentCluster(p)] = Upper(p)
  <2> DEFINE k == Len(p) - 1
  <2>1. k \in 0..Len(p) /\ DirsTo(Walk(p), k)
    BY <1>1
  <2> HIDE DEF k
  <2>2. Walk(p)[k].cluster \in DOMAIN home /\ home[Walk(p)[k].cluster] = SubSeq(p, 1, k)
    BY <2>1, WalkDown
  <2> QED BY <1>1, <2>2 DEF ParentCluster, k
<1>3. SlotOf[ParentCluster(p)][Last(p)] # 0
  <2>1. Found(home, ParentCluster(p), Last(p))
    BY <1>1, <1>2, LookupInTree
  <2>2. EntryOf(p) = Lookup[ParentCluster(p)][Last(p)]
    <3>1. IsWalk(p, Len(p), Walk(p)) /\ Len(p) \in 1..Len(p)
      BY <1>1, WalkIs
    <3> DEFINE w == Walk(p)
    <3> HIDE DEF w
    <3>2. w[Len(p)] = Lookup[w[Len(p) - 1].cluster][p[Len(p)]]
      BY <3>1 DEF IsWalk, w
    <3> QED BY <1>1, <3>2 DEF EntryOf, ParentCluster, w
  <2> QED BY <2>1, <2>2 DEF Found
<1> QED BY <1>2, <1>3, StandsAtSlot

(* What callers see is the tree.                                             *)
PathsOf(t, home, kinds) ==
  {p \in Paths : \E e \in Ids(t, home) : At(t, e).kind \in kinds /\ PathOf(t, home, e) = p}

LEMMA ExistingAre ==
  ASSUME OrdinaryUse, NEW home, NEW own, Directories(data, home), Linked(data, home, own),
         NEW kinds \in SUBSET Entries
  PROVE  Existing(kinds) = PathsOf(data, home, kinds)
<1>1. ASSUME NEW p \in Existing(kinds) PROVE p \in PathsOf(data, home, kinds)
  <2> DEFINE w == Walk(p)
  <2>1. p \in Paths /\ w[Len(p)].kind \in kinds /\ \A k \in 1..(Len(p) - 1) : w[k].kind = "dir"
    BY DEF Existing
  <2> HIDE DEF w
  <2>2. DirsTo(Walk(p), Len(p) - 1) /\ EntryOf(p).kind \in kinds
    BY <2>1 DEF DirsTo, EntryOf, w
  <2>3. EntryOf(p) # END
    <3>1. END.kind \notin kinds
      BY DEF END, Entries
    <3> QED BY <2>2, <3>1
  <2>4. PICK e : Stands(home, p, e)
    BY <2>1, <2>2, <2>3, PathStands
  <2> QED BY <2>1, <2>2, <2>4 DEF PathsOf, Stands
<1>2. ASSUME NEW p \in PathsOf(data, home, kinds) PROVE p \in Existing(kinds)
  <2>1. PICK e \in Ids(data, home) : At(data, e).kind \in kinds /\ PathOf(data, home, e) = p /\ p \in Paths
    BY DEF PathsOf
  <2>2. Stands(home, p, e)
    BY <2>1, EntryStands
  <2> DEFINE w == Walk(p)
  <2>3. w[Len(p)].kind \in kinds /\ \A k \in 1..(Len(p) - 1) : w[k].kind = "dir"
    BY <2>1, <2>2 DEF Stands, EntryOf, DirsTo
  <2> HIDE DEF w
  <2> QED BY <2>1, <2>3 DEF Existing, w
<1> QED BY <1>1, <1>2

LEMMA IdTyped ==
  ASSUME EmptyNames, NEW t \in [Index -> Cluster], NEW home, Directories(t, home), NEW e \in Ids(t, home)
  PROVE  /\ At(t, e) \in Slot /\ At(t, e).kind \in Entries /\ At(t, e).cluster \in Index
         /\ At(t, e) # END /\ At(t, e) # DELETED
<1>1. e[1] \in Index /\ e[2] \in 1..Slots /\ At(t, e) = t[e[1]][e[2]] /\ At(t, e).name \in Names
  BY IdIs DEF Directories
<1>2. At(t, e) \in Slot
  <2>1. t[e[1]] \in Cluster
    BY <1>1
  <2>2. t[e[1]][e[2]] \in Slot
    BY <1>1, <2>1 DEF Cluster
  <2> QED BY <1>1, <2>2
<1>3. END.name = "" /\ DELETED.name = ""
  BY DEF END, DELETED
<1>4. At(t, e) # END /\ At(t, e) # DELETED
  BY <1>1, <1>3 DEF EmptyNames
<1>5. At(t, e) \in [kind : Entries, name : DISKNAMES, cluster : Index]
  BY <1>2, <1>4 DEF Slot
<1>6. At(t, e).kind \in Entries /\ At(t, e).cluster \in Index
  BY <1>5
<1> QED BY <1>2, <1>4, <1>6

(* The walk along the first part of a path is the first part of the walk.    *)
LEMMA WalksAgree ==
  ASSUME NEW S, NEW p \in Seq(S), NEW k \in 0..Len(p)
  PROVE  EntryOf(SubSeq(p, 1, k)) = Walk(p)[k]
<1> DEFINE q == SubSeq(p, 1, k)
           w == Walk(p)
           v == Walk(q)
           T == {n \in Nat : n <= k => v[n] = w[n]}
<1>0. Len(p) \in Nat
  BY LenProperties
<1>1. q \in Seq(S) /\ Len(q) = k /\ \A i \in 1..k : q[i] = p[i]
  BY FirstPart
<1>2. IsWalk(p, Len(p), w) /\ IsWalk(q, k, v)
  <2>1. IsWalk(p, Len(p), w)
    BY <1>0, WalkIs
  <2> HIDE DEF q
  <2>2. k \in Nat
    BY <1>0
  <2>3. IsWalk(q, Len(q), Walk(q))
    BY <1>1, <2>2, WalkIs
  <2> QED BY <1>1, <2>1, <2>3
<1> HIDE DEF q, w, v
<1>3. 0 \in T
  <2>1. w[0] = WalkStart /\ v[0] = WalkStart
    BY <1>2 DEF IsWalk
  <2> QED BY <2>1
<1>4. ASSUME NEW n \in T PROVE n + 1 \in T
  <2> SUFFICES ASSUME n + 1 <= k PROVE v[n + 1] = w[n + 1]
    OBVIOUS
  <2>1. n + 1 \in 1..k /\ n + 1 \in 1..Len(p) /\ (n + 1) - 1 = n /\ v[n] = w[n]
    BY <1>0
  <2>2. w[n + 1] = Lookup[w[n].cluster][p[n + 1]]
    BY <1>2, <2>1 DEF IsWalk
  <2>3. v[n + 1] = Lookup[v[n].cluster][q[n + 1]]
    BY <1>2, <2>1 DEF IsWalk
  <2> QED BY <1>1, <2>1, <2>2, <2>3
<1>5. v[k] = w[k]
  <2>1. T \in SUBSET Nat
    OBVIOUS
  <2> HIDE DEF T
  <2>2. T = Nat
    BY <1>3, <1>4, <2>1, SetInduction
  <2>3. k \in T
    BY <1>0, <2>2
  <2> QED BY <1>0, <2>3 DEF T
<1> QED BY <1>1, <1>5 DEF EntryOf, q, w, v

(* A disciplined caller's path goes down through directories, or ends where  *)
(* there is nothing to look in.                                              *)
LEMMA AllowedWalk ==
  ASSUME OrdinaryUse, TypeInv, NEW home, NEW own, Directories(data, home), Linked(data, home, own),
         NEW p \in Paths, NEW call, Allowed(call, p), NEW m \in 0..(Len(p) - 1)
  PROVE  DirsTo(Walk(p), m) \/ Walk(p)[m] = END
<1>1. /\ p \in Seq(Names) /\ Len(p) \in Nat /\ Len(p) >= 1
      /\ Upper(p) = SubSeq(p, 1, Len(p) - 1) /\ EmptyNames
  BY PathParts, OrdinaryNames
<1>2. data \in [Index -> Cluster]
  BY DEF TypeInv, DiskTyped
<1>3. \A k \in 1..(Len(p) - 1) : Walk(p)[k].kind # "file"
  <2> SUFFICES ASSUME NEW k \in 1..(Len(p) - 1) PROVE Walk(p)[k].kind # "file"
    OBVIOUS
  <2>1. k \in 0..Len(p)
    BY <1>1
  <2>2. KindOf(SubSeq(p, 1, k)) # "file"
    BY DEF Allowed, OrdinaryUse
  <2>3. EntryOf(SubSeq(p, 1, k)) = Walk(p)[k]
    BY <1>1, <2>1, WalksAgree
  <2> QED BY <2>2, <2>3 DEF KindOf
<1> DEFINE w == Walk(p)
           S == {n \in Nat : n <= Len(p) - 1 => DirsTo(w, n) \/ w[n] = END}
<1>4. IsWalk(p, Len(p), w)
  BY <1>1, WalkIs
<1>5. 0 \in S
  BY DEF DirsTo
<1>6. ASSUME NEW n \in S PROVE n + 1 \in S
  <2> SUFFICES ASSUME n + 1 <= Len(p) - 1 PROVE DirsTo(w, n + 1) \/ w[n + 1] = END
    OBVIOUS
  <2> DEFINE d == w[n].cluster
  <2>1. n \in 0..Len(p) /\ n + 1 \in 1..Len(p) /\ (n + 1) - 1 = n /\ n + 1 \in 1..(Len(p) - 1) /\ n \in Nat
    BY <1>1
  <2>2. p[n + 1] \in Names /\ p[n + 1] \in AnyName
    BY <1>1, <2>1, ElementOfSeq DEF AnyName
  <2>3. w[n + 1] = Lookup[d][p[n + 1]]
    <3> HIDE DEF w
    <3> QED BY <1>4, <2>1 DEF IsWalk
  <2>4. CASE d = NONE
    <3>1. Lookup[NONE][p[n + 1]] = END /\ END.cluster = NONE
      BY <2>2, Constants DEF Lookup, AnyName, END
    <3> HIDE DEF w
    <3> QED BY <2>3, <2>4, <3>1
  <2>5. CASE DirsTo(w, n)
    <3>1. d \in DOMAIN home
      BY <2>1, <2>5, WalkDown
    <3>2. Found(home, d, p[n + 1])
      BY <1>1, <2>2, <3>1, LookupInTree
    <3> DEFINE i == SlotOf[d][p[n + 1]]
    <3>3. CASE i = 0
      <4>1. w[n + 1] = END /\ END.cluster = NONE
        BY <2>3, <3>2, <3>3, Constants DEF Found, END
      <4> QED BY <4>1
    <3>4. CASE i # 0
      <4> DEFINE e == <<d, i>>
      <4>1. e \in Ids(data, home) /\ w[n + 1] = At(data, e)
        BY <2>3, <3>2, <3>4 DEF Found, At
      <4> HIDE DEF e, i, d
      <4>2. At(data, e).kind \in Entries
        BY <1>1, <1>2, <4>1, IdTyped
      <4>3. w[n + 1].kind # "file"
        BY <1>3, <2>1
      <4>4. w[n + 1].kind = "dir"
        BY <4>1, <4>2, <4>3 DEF Entries
      <4> HIDE DEF w
      <4> QED BY <2>1, <2>5, <4>4 DEF DirsTo
    <3> QED BY <3>3, <3>4
  <2>6. DirsTo(w, n) \/ d = NONE
    <3>1. END.cluster = NONE
      BY Constants DEF END
    <3> QED BY <2>1, <3>1
  <2> QED BY <2>4, <2>5, <2>6
<1>7. m \in S
  <2>1. S \in SUBSET Nat
    OBVIOUS
  <2> HIDE DEF S
  <2>2. S = Nat
    BY <1>5, <1>6, <2>1, SetInduction
  <2> QED BY <1>1, <2>2
<1> QED BY <1>1, <1>7

LEMMA AllowedGoesDown ==
  ASSUME OrdinaryUse, TypeInv, NEW home, NEW own, Directories(data, home), Linked(data, home, own),
         NEW p \in Paths, NEW call, Allowed(call, p), ParentCluster(p) # NONE
  PROVE  /\ DirsTo(Walk(p), Len(p) - 1)
         /\ ParentCluster(p) \in DOMAIN home /\ home[ParentCluster(p)] = Upper(p)
<1>1. /\ p \in Seq(Names) /\ Len(p) \in Nat /\ Len(p) >= 1
      /\ Upper(p) = SubSeq(p, 1, Len(p) - 1) /\ EmptyNames
  BY PathParts, OrdinaryNames
<1>8. DirsTo(Walk(p), Len(p) - 1)
  <2> DEFINE m == Len(p) - 1
  <2>1. m \in 0..(Len(p) - 1) /\ Walk(p)[m].cluster # NONE
    BY <1>1 DEF ParentCluster
  <2> HIDE DEF m
  <2>2. DirsTo(Walk(p), m) \/ Walk(p)[m] = END
    BY <2>1, AllowedWalk
  <2>3. END.cluster = NONE
    BY Constants DEF END
  <2>4. DirsTo(Walk(p), m)
    BY <2>1, <2>2, <2>3
  <2> QED BY <2>4 DEF m
<1>9. ParentCluster(p) \in DOMAIN home /\ home[ParentCluster(p)] = Upper(p)
  <2> DEFINE k == Len(p) - 1
  <2>1. k \in 0..Len(p) /\ DirsTo(Walk(p), k)
    BY <1>1, <1>8
  <2> HIDE DEF k
  <2>2. Walk(p)[k].cluster \in DOMAIN home /\ home[Walk(p)[k].cluster] = SubSeq(p, 1, k)
    BY <2>1, WalkDown
  <2> QED BY <1>1, <2>2 DEF ParentCluster, k
<1> QED BY <1>8, <1>9

(* Such a path does not stray: a directory of a tree has a cluster.          *)
LEMMA AllowedStaysOut ==
  ASSUME OrdinaryUse, TypeInv, NEW home, NEW own, Directories(data, home), Linked(data, home, own),
         NEW p \in Paths, NEW call, Allowed(call, p)
  PROVE  ~Strays(p)
<1> SUFFICES ASSUME NEW k \in 1..(Len(p) - 1),
                    Walk(p)[k].kind \in Entries, Walk(p)[k].cluster = NONE
             PROVE  FALSE
  BY DEF Strays
<1>1. Len(p) \in Nat
  BY PathParts
<1>2. k \in 0..Len(p) /\ k \in 0..(Len(p) - 1)
  BY <1>1
<1>3. CASE DirsTo(Walk(p), k)
  <2>1. Walk(p)[k].cluster \in DOMAIN home
    BY <1>2, <1>3, WalkDown
  <2> QED BY <2>1 DEF Directories
<1>4. CASE Walk(p)[k] = END
  <2>1. END.kind \notin Entries
    BY DEF END, Entries
  <2> QED BY <1>4, <2>1
<1> QED BY <1>2, <1>3, <1>4, AllowedWalk

-----------------------------------------------------------------------------
(* What the writes of the driver do to a tree.                               *)

(* A write to the FAT at a cluster of nobody, or of what is being removed.   *)
LEMMA FatWriteKeepsTree ==
  ASSUME NEW f \in Fats, NEW t, NEW home, NEW own, NEW dy, IsTree(f, t, home, own, dy),
         NEW c \in Index, c \notin {0, 1}, own[c] \in {NOBODY, dy}, NEW v \in {FREE, EOC}, NEW w
  PROVE  IsTree(Put(f, c, v, w), t, home, own, dy)
<1> DEFINE f2 == Put(f, c, v, w)
<1>1. \A x \in Index : f2[x] = f[x] \/ (x = c /\ f2[x] \in {FREE, EOC})
  BY DEF Put, Fats
<1> HIDE DEF f2
<1>2. \A x \in Index : After(f2, x) \in {NONE, After(f, x)}
  <2> SUFFICES ASSUME NEW x \in Index PROVE After(f2, x) \in {NONE, After(f, x)}
    OBVIOUS
  <2>1. CASE f2[x] = f[x]
    BY <2>1 DEF After
  <2>2. CASE f2[x] \in {FREE, EOC}
    <3>1. f2[x] \in {0, 1, EOC}
      BY <2>2, Constants
    <3> QED BY <3>1 DEF After
  <2> QED BY <1>1, <2>1, <2>2
<1>3. Ownership(f, t, home, own) /\ Used(f, own, dy)
  BY DEF IsTree
<1>4. \A x \in Index : own[x] # NOBODY /\ After(f2, x) # NONE => own[After(f2, x)] = own[x]
  BY <1>2, <1>3 DEF Ownership
<1>5. Ownership(f2, t, home, own)
  BY <1>3, <1>4 DEF Ownership
<1>6. Used(f2, own, dy)
  BY <1>1, <1>3 DEF Used
<1>7. IsTree(f2, t, home, own, dy)
  BY <1>5, <1>6 DEF IsTree
<1> QED BY <1>7 DEF f2

(* A write to a cluster that is no directory.                                *)
LEMMA DataWriteKeepsTree ==
  ASSUME NEW f, NEW t, NEW u, NEW home, NEW own, NEW dy, IsTree(f, t, home, own, dy),
         \A d \in DOMAIN home : u[d] = t[d]
  PROVE  /\ IsTree(f, u, home, own, dy) /\ Ids(u, home) = Ids(t, home)
         /\ \A e \in Ids(t, home) : At(u, e) = At(t, e) /\ PathOf(u, home, e) = PathOf(t, home, e)
<1>1. \A e \in (DOMAIN home) \X (1..Slots) : At(u, e) = At(t, e)
  BY DEF At
<1>2. Ids(u, home) = Ids(t, home)
  BY <1>1 DEF Ids
<1>3. \A e \in Ids(t, home) : At(u, e) = At(t, e) /\ PathOf(u, home, e) = PathOf(t, home, e)
  BY <1>1 DEF Ids, PathOf
<1>4. Directories(u, home)
  BY DEF IsTree, Directories
<1>5. Linked(u, home, own)
  <2>1. Linked(t, home, own)
    BY DEF IsTree
  <2>2. \A e \in Ids(u, home) : At(u, e).kind = "dir" =>
          At(u, e).cluster \in DOMAIN home /\ home[At(u, e).cluster] = PathOf(u, home, e)
    BY <1>2, <1>3, <2>1 DEF Linked
  <2>3. \A d \in (DOMAIN home) \ {Root} :
          own[d] \in Ids(u, home) /\ At(u, own[d]).kind = "dir" /\ At(u, own[d]).cluster = d
    BY <1>2, <1>3, <2>1 DEF Linked
  <2> QED BY <2>2, <2>3 DEF Linked
<1>6. Ownership(f, u, home, own)
  <2>1. Ownership(f, t, home, own)
    BY DEF IsTree
  <2> QED BY <1>2, <1>3, <2>1 DEF Ownership
<1>7. IsTree(f, u, home, own, dy)
  BY <1>4, <1>5, <1>6 DEF IsTree
<1> QED BY <1>2, <1>3, <1>7

(* The row with the entry E in its first free slot.                          *)
LEMMA RowFilled ==
  ASSUME NEW row \in Cluster, OrderedRow(row), NEW i \in FreeSlots(row),
         \A j \in FreeSlots(row) : i <= j, NEW E \in Slot, E # END,
         \A j \in 1..Slots : row[j].name # E.name
  PROVE  OrderedRow([row EXCEPT ![i] = E])
<1> DEFINE r == [row EXCEPT ![i] = E]
<1>0. Slots \in Nat /\ i \in 1..Slots
  BY Constants DEF FreeSlots
<1>1. r[i] = E /\ \A j \in 1..Slots : j # i => r[j] = row[j]
  BY <1>0 DEF Cluster
<1> HIDE DEF r
<1>2. ASSUME NEW a \in 1..Slots, NEW b \in 1..Slots, a < b, r[a] = END PROVE r[b] = END
  <2>1. a # i /\ row[a] = END
    BY <1>1, <1>2
  <2>2. i < b
    <3>1. a \in FreeSlots(row)
      BY <2>1 DEF FreeSlots
    <3>2. i <= a
      BY <3>1
    <3> QED BY <1>0, <1>2, <3>2
  <2>3. row[b] = END /\ b # i
    BY <1>0, <1>2, <2>1, <2>2 DEF OrderedRow
  <2> QED BY <1>1, <2>3
<1>3. ASSUME NEW a \in 1..Slots, NEW b \in 1..Slots, r[a].name \in Names, r[a].name = r[b].name
      PROVE  a = b
  <2>1. CASE a # i /\ b # i
    BY <1>1, <1>3, <2>1 DEF OrderedRow
  <2>2. CASE a = i \/ b = i
    BY <1>0, <1>1, <1>3, <2>2
  <2> QED BY <2>1, <2>2
<1>4. OrderedRow(r)
  BY <1>2, <1>3 DEF OrderedRow
<1> QED BY <1>4 DEF r

(* The row with a slot deleted.                                              *)
LEMMA RowEmptied ==
  ASSUME EmptyNames, NEW row \in Cluster, OrderedRow(row), NEW i \in 1..Slots, row[i] # END
  PROVE  OrderedRow([row EXCEPT ![i] = DELETED])
<1> DEFINE r == [row EXCEPT ![i] = DELETED]
<1>1. r[i] = DELETED /\ \A j \in 1..Slots : j # i => r[j] = row[j]
  BY DEF Cluster
<1> HIDE DEF r
<1>2. DELETED # END /\ DELETED.name \notin Names
  BY DEF DELETED, END, EmptyNames
<1>3. ASSUME NEW a \in 1..Slots, NEW b \in 1..Slots, a < b, r[a] = END PROVE r[b] = END
  <2>1. a # i /\ row[a] = END
    BY <1>1, <1>2, <1>3
  <2>2. row[b] = END
    BY <1>3, <2>1 DEF OrderedRow
  <2>3. b # i
    BY <2>2
  <2> QED BY <1>1, <2>2, <2>3
<1>4. ASSUME NEW a \in 1..Slots, NEW b \in 1..Slots, r[a].name \in Names, r[a].name = r[b].name
      PROVE  a = b
  <2>1. a # i /\ b # i
    BY <1>1, <1>2, <1>4
  <2> QED BY <1>1, <1>4, <2>1 DEF OrderedRow
<1>5. OrderedRow(r)
  BY <1>3, <1>4 DEF OrderedRow
<1> QED BY <1>5 DEF r

(* The tables with the entry e of kind and path p added, at cluster c.       *)
HomeWith(home, kind, c, p) ==
  IF kind = "dir" THEN [d \in DOMAIN home \union {c} |-> IF d = c THEN p ELSE home[d]] ELSE home
OwnWith(own, c, e) == [own EXCEPT ![c] = e]

(* The entries of the tree u, h are those of t, home and the entry e.        *)
EntryMore(t, home, u, h, e) ==
  /\ e \notin Ids(t, home) /\ Ids(u, h) = Ids(t, home) \union {e}
  /\ \A g \in Ids(t, home) : At(u, g) = At(t, g) /\ PathOf(u, h, g) = PathOf(t, home, g)

LEMMA NewDirectoryRow ==
  ASSUME EmptyNames, NEW c, NEW d
  PROVE  /\ OrderedRow(NewDirectory(c, d)) /\ Headed(NewDirectory(c, d))
         /\ \A i \in 1..Slots : NewDirectory(c, d)[i].name \notin Names
<1> DEFINE row == NewDirectory(c, d)
<1>0. Slots \in Nat /\ Slots >= 2 /\ 1 \in 1..Slots /\ 2 \in 1..Slots
  BY Constants
<1>1. row[1] = [kind |-> "dir", name |-> ".", cluster |-> c]
  BY <1>0 DEF NewDirectory
<1>2. row[2] = [kind |-> "dir", name |-> "..", cluster |-> d]
  BY <1>0 DEF NewDirectory
<1>3. \A i \in 1..Slots : i \notin {1, 2} => row[i] = END
  BY DEF NewDirectory
<1> HIDE DEF row
<1>4. END.name = "" /\ END.kind = "end"
  BY DEF END
<1>5. row[1].name = "." /\ row[2].name = ".." /\ row[1].kind = "dir" /\ row[2].kind = "dir"
  BY <1>1, <1>2
<1>6. row[1] # END /\ row[2] # END
  BY <1>4, <1>5
<1>7. \A i \in 1..Slots : row[i].name \notin Names
  BY <1>3, <1>4, <1>5 DEF EmptyNames
<1>8. OrderedRow(row)
  <2>1. \A i, j \in 1..Slots : i < j /\ row[i] = END => row[j] = END
    <3> SUFFICES ASSUME NEW i \in 1..Slots, NEW j \in 1..Slots, i < j, row[i] = END PROVE row[j] = END
      OBVIOUS
    <3>1. i \notin {1, 2}
      BY <1>6
    <3>2. j \notin {1, 2}
      BY <1>0, <3>1
    <3> QED BY <1>3, <3>2
  <2> QED BY <1>7, <2>1 DEF OrderedRow
<1> QED BY <1>5, <1>7, <1>8 DEF Headed, row

(* Where an entry E for the cluster c may be added to a tree, at path p.     *)
Fits(f, t, home, own, d, i, E, c, p) ==
  /\ t \in [Index -> Cluster] /\ IsTree(f, t, home, own, NOBODY) /\ d \in DOMAIN home
  /\ i \in FreeSlots(t[d]) /\ \A j \in FreeSlots(t[d]) : i <= j
  /\ E \in Slot /\ E.name \in Names /\ E.cluster = c /\ c \in Index /\ c \notin {0, 1}
  /\ own[c] = NOBODY /\ f[c] = EOC /\ \A j \in 1..Slots : t[d][j].name # E.name
  /\ E.kind = "dir" => t[c] = NewDirectory(c, d)
  /\ p = Append(home[d], E.name)

(* The volume t with it, and the tree that makes.                            *)
Filled(t, d, i, E) == [t EXCEPT ![d] = [t[d] EXCEPT ![i] = E]]
HoldsAdded(f, t, home, u, h, o, e, E, p) ==
  /\ IsTree(f, u, h, o, NOBODY) /\ EntryMore(t, home, u, h, e)
  /\ At(u, e) = E /\ PathOf(u, h, e) = p

LEMMA EntryAdded ==
  ASSUME EmptyNames, NEW f, NEW t, NEW home, NEW own, NEW d, NEW i, NEW E, NEW c, NEW p,
         Fits(f, t, home, own, d, i, E, c, p), NEW u, u = Filled(t, d, i, E),
         NEW h, h = HomeWith(home, E.kind, c, p), NEW o, o = OwnWith(own, c, <<d, i>>)
  PROVE  HoldsAdded(f, t, home, u, h, o, <<d, i>>, E, p)
<1>a. /\ t \in [Index -> Cluster] /\ IsTree(f, t, home, own, NOBODY) /\ d \in DOMAIN home
      /\ i \in FreeSlots(t[d]) /\ \A j \in FreeSlots(t[d]) : i <= j
      /\ E \in Slot /\ E.name \in Names /\ E.cluster = c /\ c \in Index /\ c \notin {0, 1}
      /\ own[c] = NOBODY /\ f[c] = EOC
      /\ E.kind = "dir" => t[c] = NewDirectory(c, d)
      /\ p = Append(home[d], E.name)
  BY DEF Fits
<1>b. \A j \in 1..Slots : t[d][j].name # E.name
  BY DEF Fits
<1>c. u = [t EXCEPT ![d] = [t[d] EXCEPT ![i] = E]]
  BY DEF Filled
<1> USE <1>a, <1>b, <1>c
<1> SUFFICES /\ IsTree(f, u, h, o, NOBODY) /\ EntryMore(t, home, u, h, <<d, i>>)
             /\ At(u, <<d, i>>) = E /\ PathOf(u, h, <<d, i>>) = p
  BY DEF HoldsAdded
<1> DEFINE e == <<d, i>>
<1>0. /\ Directories(t, home) /\ Linked(t, home, own) /\ Ownership(f, t, home, own) /\ Used(f, own, NOBODY)
      /\ d \in Index /\ i \in 1..Slots /\ home[d] \in Seq(Names) /\ OrderedRow(t[d]) /\ t[d] \in Cluster
      /\ Root \in Index /\ Root # NONE /\ NONE = 0 /\ Slots \in Nat /\ Slots >= 2
  BY Constants DEF IsTree, Directories, FreeSlots
<1>1. \A x \in DOMAIN home : own[x] # NOBODY
  <2> SUFFICES ASSUME NEW x \in DOMAIN home PROVE own[x] # NOBODY
    OBVIOUS
  <2>1. CASE x = Root
    BY <1>0, <2>1 DEF Ownership, NOBODY, THEROOT
  <2>2. CASE x # Root
    <3>1. own[x] \in Ids(t, home)
      BY <1>0, <2>2 DEF Linked
    <3> QED BY <1>0, <3>1, IdIs
  <2> QED BY <2>1, <2>2
<1>2. c \notin DOMAIN home /\ c # d
  BY <1>1
<1>3. /\ DOMAIN h = DOMAIN home \union (IF E.kind = "dir" THEN {c} ELSE {})
      /\ \A x \in DOMAIN home : h[x] = home[x]
      /\ E.kind = "dir" => h[c] = p
  BY <1>2 DEF HomeWith
<1>4. /\ \A x \in Index : x # d => u[x] = t[x]
      /\ u[d] = [t[d] EXCEPT ![i] = E]
      /\ u[d][i] = E /\ \A j \in 1..Slots : j # i => u[d][j] = t[d][j]
  <2>1. (\A x \in Index : x # d => u[x] = t[x]) /\ u[d] = [t[d] EXCEPT ![i] = E]
    BY <1>0
  <2>2. u[d][i] = E /\ \A j \in 1..Slots : j # i => u[d][j] = t[d][j]
    BY <1>0, <2>1 DEF Cluster
  <2> QED BY <2>1, <2>2
<1>5. o[c] = e /\ (\A x \in Index : x # c => o[x] = own[x]) /\ o \in [Index -> Index \X (0..Slots)]
  BY <1>0 DEF Ownership, OwnWith
<1>6. t[d][i].name = ""
  <2>1. t[d][i] \in {END, DELETED}
    BY DEF FreeSlots
  <2>2. END.name = "" /\ DELETED.name = ""
    BY DEF END, DELETED
  <2> QED BY <2>1, <2>2
<1>7. e \notin Ids(t, home)
  BY <1>6 DEF Ids, At, EmptyNames
<1>8. E.kind = "dir" => u[c] = NewDirectory(c, d)
  BY <1>2, <1>4
<1> HIDE DEF e
<1>9. e[1] = d /\ e[2] = i /\ e \in Index \X (0..Slots) /\ e = <<d, i>>
  BY <1>0 DEF e
<1>10. At(u, e) = E /\ PathOf(u, h, e) = p
  BY <1>3, <1>4, <1>9 DEF At, PathOf
<1>11. ASSUME NEW g \in Ids(t, home)
       PROVE  /\ g \in Ids(u, h) /\ At(u, g) = At(t, g) /\ PathOf(u, h, g) = PathOf(t, home, g)
              /\ g # e
  <2>1. /\ g = <<g[1], g[2]>> /\ g[1] \in DOMAIN home /\ g[2] \in 1..Slots /\ At(t, g) = t[g[1]][g[2]]
        /\ At(t, g).name \in Names
    BY <1>0, IdIs
  <2>2. g # e
    BY <1>7
  <2>3. g[1] \in Index /\ ~(g[1] = d /\ g[2] = i)
    BY <1>0, <1>9, <2>1, <2>2 DEF Directories
  <2>4. At(u, g) = At(t, g)
    BY <1>4, <2>1, <2>3 DEF At
  <2>5. g \in (DOMAIN h) \X (1..Slots)
    BY <1>3, <2>1
  <2> QED BY <1>3, <2>1, <2>2, <2>4, <2>5 DEF Ids, PathOf
<1>12. ASSUME NEW g \in Ids(u, h), g # e PROVE g \in Ids(t, home)
  <2>1. /\ g = <<g[1], g[2]>> /\ g[1] \in DOMAIN h /\ g[2] \in 1..Slots /\ At(u, g) = u[g[1]][g[2]]
        /\ At(u, g).name \in Names
    BY DEF Ids, At
  <2>2. ~(E.kind = "dir" /\ g[1] = c)
    <3>1. \A j \in 1..Slots : NewDirectory(c, d)[j].name \notin Names
      BY NewDirectoryRow
    <3> QED BY <1>8, <2>1, <3>1
  <2>3. g[1] \in DOMAIN home /\ g[1] \in Index
    BY <1>0, <1>3, <2>1, <2>2 DEF Directories
  <2>4. ~(g[1] = d /\ g[2] = i)
    BY <1>9, <1>12, <2>1
  <2>5. At(u, g) = At(t, g)
    BY <1>4, <2>1, <2>3, <2>4 DEF At
  <2>6. g \in (DOMAIN home) \X (1..Slots)
    BY <2>1, <2>3
  <2> QED BY <2>1, <2>5, <2>6 DEF Ids
<1>13. e \in Ids(u, h)
  <2>1. e \in (DOMAIN h) \X (1..Slots)
    BY <1>0, <1>3, <1>9
  <2> QED BY <1>10, <2>1 DEF Ids
<1>14. Ids(u, h) = Ids(t, home) \union {e}
  BY <1>11, <1>12, <1>13
<1>15. EntryMore(t, home, u, h, e)
  BY <1>7, <1>11, <1>14 DEF EntryMore
<1>16. p \in Seq(Names) /\ p # <<>>
  BY <1>0, AppendProperties
<1>17. \A x \in DOMAIN home : home[x] # p
  <2> SUFFICES ASSUME NEW x \in DOMAIN home, home[x] = p PROVE FALSE
    OBVIOUS
  <2>1. x # Root
    BY <1>0, <1>16 DEF Directories
  <2> DEFINE g == own[x]
  <2>2. g \in Ids(t, home) /\ At(t, g).kind = "dir" /\ At(t, g).cluster = x
    BY <1>0, <2>1 DEF Linked
  <2> HIDE DEF g
  <2>3. home[x] = Append(home[g[1]], At(t, g).name)
    BY <1>0, <2>2 DEF Linked, PathOf
  <2>4. /\ g[1] \in DOMAIN home /\ g[2] \in 1..Slots /\ home[g[1]] \in Seq(Names)
        /\ At(t, g) = t[g[1]][g[2]] /\ At(t, g).name \in Names
    BY <1>0, <2>2, IdIs
  <2>5. home[g[1]] = home[d] /\ At(t, g).name = E.name
    <3> DEFINE a == At(t, g).name
               b == E.name
               s == home[g[1]]
               v == home[d]
    <3>1. /\ Append(s, a) = Append(v, b)
          /\ a \in Names /\ b \in Names /\ s \in Seq(Names) /\ v \in Seq(Names)
      BY <1>0, <2>3, <2>4
    <3> HIDE DEF a, b, s, v
    <3>2. s = v /\ a = b
      BY <3>1, AppendInjective
    <3> QED BY <3>2 DEF a, b, s, v
  <2>6. g[1] = d
    BY <1>0, <2>4, <2>5 DEF Directories
  <2> QED BY <2>4, <2>5, <2>6
<1>18. Directories(u, h)
  <2>1. /\ DOMAIN h \subseteq Index \ {NONE} /\ Root \in DOMAIN h /\ h[Root] = <<>>
        /\ \A x \in DOMAIN h : h[x] \in Seq(Names)
    BY <1>0, <1>3, <1>16 DEF Directories
  <2>2. \A x, y \in DOMAIN h : h[x] = h[y] => x = y
    <3> SUFFICES ASSUME NEW x \in DOMAIN h, NEW y \in DOMAIN h, h[x] = h[y] PROVE x = y
      OBVIOUS
    <3>1. CASE x \in DOMAIN home /\ y \in DOMAIN home
      <4>1. home[x] = home[y]
        BY <1>3, <3>1
      <4> QED BY <1>0, <3>1, <4>1 DEF Directories
    <3>2. CASE E.kind = "dir" /\ (x = c \/ y = c)
      <4>1. \A z \in DOMAIN home : h[z] # p
        BY <1>3, <1>17
      <4> QED BY <1>3, <3>2, <4>1
    <3> QED BY <1>3, <3>1, <3>2
  <2>3. ASSUME NEW x \in DOMAIN h PROVE OrderedRow(u[x]) /\ (x # Root => Headed(u[x]))
    <3>1. CASE x = d
      <4>1. E # END
        <5>1. END.name = ""
          BY DEF END
        <5> QED BY <5>1 DEF EmptyNames
      <4>2. OrderedRow(u[d])
        <5>1. /\ t[d] \in Cluster /\ OrderedRow(t[d]) /\ i \in FreeSlots(t[d])
              /\ (\A j \in FreeSlots(t[d]) : i <= j) /\ E \in Slot
              /\ u[d] = [t[d] EXCEPT ![i] = E]
          BY <1>0, <1>4
        <5> HIDE <1>a, <1>c
        <5> QED BY <4>1, <5>1, RowFilled
      <4>3. d # Root => Headed(u[d])
        <5>1. d # Root => t[d][1].name = "." /\ t[d][2].name = ".."
          BY <1>0 DEF Directories, Headed
        <5>2. d # Root => i # 1 /\ i # 2
          BY <1>6, <5>1
        <5>3. 1 \in 1..Slots /\ 2 \in 1..Slots
          BY <1>0
        <5> QED BY <1>4, <5>1, <5>2, <5>3 DEF Headed
      <4> QED BY <3>1, <4>2, <4>3
    <3>2. CASE x # d /\ x \in DOMAIN home
      <4>1. u[x] = t[x]
        BY <1>0, <1>4, <3>2 DEF Directories
      <4> QED BY <1>0, <3>2, <4>1 DEF Directories
    <3>3. CASE x = c /\ E.kind = "dir"
      BY <1>8, <3>3, NewDirectoryRow
    <3> QED BY <1>3, <3>1, <3>2, <3>3
  <2> QED BY <2>1, <2>2, <2>3 DEF Directories
<1>19. Linked(u, h, o)
  <2>1. ASSUME NEW g \in Ids(u, h), At(u, g).kind = "dir"
        PROVE  At(u, g).cluster \in DOMAIN h /\ h[At(u, g).cluster] = PathOf(u, h, g)
    <3>1. CASE g = e
      BY <1>3, <1>10, <2>1, <3>1
    <3>2. CASE g \in Ids(t, home)
      <4>1. At(u, g) = At(t, g) /\ PathOf(u, h, g) = PathOf(t, home, g)
        BY <1>11, <3>2
      <4>2. At(t, g).cluster \in DOMAIN home /\ home[At(t, g).cluster] = PathOf(t, home, g)
        BY <1>0, <2>1, <3>2, <4>1 DEF Linked
      <4> QED BY <1>3, <4>1, <4>2
    <3> QED BY <1>14, <3>1, <3>2
  <2>2. ASSUME NEW x \in (DOMAIN h) \ {Root}
        PROVE  o[x] \in Ids(u, h) /\ At(u, o[x]).kind = "dir" /\ At(u, o[x]).cluster = x
    <3>1. CASE x \in DOMAIN home
      <4>1. own[x] \in Ids(t, home) /\ At(t, own[x]).kind = "dir" /\ At(t, own[x]).cluster = x
        BY <1>0, <2>2, <3>1 DEF Linked
      <4>2. o[x] = own[x]
        BY <1>0, <1>2, <1>5, <3>1 DEF Directories
      <4> QED BY <1>11, <4>1, <4>2
    <3>2. CASE x = c /\ E.kind = "dir"
      BY <1>5, <1>10, <1>13, <3>2
    <3> QED BY <1>3, <3>1, <3>2
  <2> QED BY <2>1, <2>2 DEF Linked
<1>20. Ownership(f, u, h, o)
  <2>1. o[0] = NOBODY /\ o[1] = NOBODY /\ o[Root] = THEROOT
    <3>1. 0 \in Index /\ 1 \in Index /\ c # Root
      BY <1>0, <1>1, Constants DEF Directories
    <3> QED BY <1>0, <1>5, <3>1 DEF Ownership
  <2>2. \A x \in Index : o[x] \in Ids(u, h) \union {NOBODY, THEROOT}
    BY <1>0, <1>5, <1>14 DEF Ownership
  <2>3. ASSUME NEW x \in Index, o[x] # NOBODY, After(f, x) # NONE PROVE o[After(f, x)] = o[x]
    <3>1. x # c
      BY <1>0, <2>3 DEF After
    <3>2. own[x] # NOBODY /\ own[After(f, x)] = own[x]
      BY <1>0, <1>5, <2>3, <3>1 DEF Ownership
    <3>3. After(f, x) # c
      BY <3>2
    <3>4. After(f, x) \in Index => o[After(f, x)] = own[After(f, x)]
      BY <1>5, <3>3
    <3>5. o[After(f, x)] = own[After(f, x)]
      BY <3>3 DEF OwnWith
    <3> QED BY <1>5, <3>1, <3>2, <3>5
  <2>4. ASSUME NEW g \in Ids(u, h), At(u, g).cluster # NONE PROVE o[At(u, g).cluster] = g
    <3>1. CASE g = e
      BY <1>5, <1>10, <3>1
    <3>2. CASE g \in Ids(t, home)
      <4>0. At(u, g) = At(t, g) /\ g # NOBODY
        <5>1. At(u, g) = At(t, g)
          BY <1>11, <3>2
        <5>2. Directories(t, home)
          BY <1>0
        <5>3. g # NOBODY
          BY <3>2, <5>2, IdIs
        <5> QED BY <5>1, <5>3
      <4>1. own[At(t, g).cluster] = g
        <5>1. At(t, g).cluster # NONE
          BY <2>4, <4>0
        <5>2. \A x \in Ids(t, home) : At(t, x).cluster # NONE => own[At(t, x).cluster] = x
          BY <1>0 DEF Ownership
        <5> QED BY <3>2, <5>1, <5>2
      <4>2. At(t, g).cluster \in Index
        BY <1>0, <3>2, IdTyped
      <4> QED BY <1>5, <4>0, <4>1, <4>2
    <3> QED BY <1>14, <3>1, <3>2
  <2> QED BY <1>5, <2>1, <2>2, <2>3, <2>4 DEF Ownership
<1>21. Used(f, o, NOBODY)
  <2>1. EOC # FREE
    BY Constants
  <2> QED BY <1>0, <1>5, <2>1 DEF Used
<1>22. IsTree(f, u, h, o, NOBODY)
  BY <1>18, <1>19, <1>20, <1>21 DEF IsTree
<1> QED BY <1>9, <1>10, <1>15, <1>22

(* The tables with the entry e, and the directory it starts at, taken out.   *)
HomeLess(home, own, e) == [d \in {x \in DOMAIN home : own[x] # e} |-> home[d]]
OwnLess(own, e) == [c \in Index |-> IF own[c] = e THEN NOBODY ELSE own[c]]

(* The entries of the tree u, h are those of t, home but the entry e.        *)
EntryLess(t, home, u, h, e) ==
  /\ e \in Ids(t, home) /\ Ids(u, h) = Ids(t, home) \ {e}
  /\ \A g \in Ids(u, h) : At(u, g) = At(t, g) /\ PathOf(u, h, g) = PathOf(t, home, g)

LEMMA AfterTyped ==
  ASSUME NEW f \in Fats, NEW c \in Index
  PROVE  After(f, c) \in Index
BY Constants DEF After, Fats

(* Nothing is below the entry e.                                             *)
Bare(t, home, e) == At(t, e).kind = "dir" => \A g \in Ids(t, home) : g[1] # At(t, e).cluster

LEMMA EntryGone ==
  ASSUME EmptyNames, NEW f \in Fats, NEW t \in [Index -> Cluster], NEW home, NEW own, NEW e,
         IsTree(f, t, home, own, e), e \in Ids(t, home), Bare(t, home, e),
         NEW u, u = [t EXCEPT ![e[1]] = [t[e[1]] EXCEPT ![e[2]] = DELETED]],
         NEW h, h = HomeLess(home, own, e), NEW o, o = OwnLess(own, e)
  PROVE  IsTree(f, u, h, o, NOBODY) /\ EntryLess(t, home, u, h, e)
<1>0. /\ Directories(t, home) /\ Linked(t, home, own) /\ Ownership(f, t, home, own) /\ Used(f, own, e)
      /\ Root \in Index /\ Root # NONE /\ NONE = 0 /\ Slots \in Nat
  BY Constants DEF IsTree
<1>1. /\ e = <<e[1], e[2]>> /\ e[1] \in DOMAIN home /\ e[2] \in 1..Slots /\ At(t, e) = t[e[1]][e[2]]
      /\ At(t, e).name \in Names /\ e # NOBODY /\ e # THEROOT
  BY <1>0, IdIs
<1>2. e[1] \in Index /\ OrderedRow(t[e[1]]) /\ t[e[1]] \in Cluster
  BY <1>0, <1>1 DEF Directories
<1>3. ASSUME NEW x \in DOMAIN home, own[x] = e
      PROVE  At(t, e).kind = "dir" /\ At(t, e).cluster = x /\ x # Root
  <2>1. own[Root] = THEROOT
    BY <1>0 DEF Ownership
  <2>2. x # Root
    BY <1>1, <1>3, <2>1
  <2> QED BY <1>0, <1>3, <2>2 DEF Linked
<1>4. \A g \in Ids(t, home) : own[g[1]] # e
  <2> SUFFICES ASSUME NEW g \in Ids(t, home), own[g[1]] = e PROVE FALSE
    OBVIOUS
  <2>1. g[1] \in DOMAIN home
    BY <1>0, IdIs
  <2> QED BY <1>3, <2>1 DEF Bare
<1>5. /\ DOMAIN h \subseteq DOMAIN home /\ \A x \in DOMAIN home : own[x] # e => x \in DOMAIN h
      /\ \A x \in DOMAIN h : h[x] = home[x] /\ own[x] # e
  BY DEF HomeLess
<1>6. \A x \in Index : o[x] = IF own[x] = e THEN NOBODY ELSE own[x]
  BY DEF OwnLess
<1>7. /\ \A x \in Index : x # e[1] => u[x] = t[x]
      /\ u[e[1]] = [t[e[1]] EXCEPT ![e[2]] = DELETED]
      /\ u[e[1]][e[2]] = DELETED /\ \A j \in 1..Slots : j # e[2] => u[e[1]][j] = t[e[1]][j]
  <2>1. (\A x \in Index : x # e[1] => u[x] = t[x]) /\ u[e[1]] = [t[e[1]] EXCEPT ![e[2]] = DELETED]
    BY <1>2
  <2>2. u[e[1]][e[2]] = DELETED /\ \A j \in 1..Slots : j # e[2] => u[e[1]][j] = t[e[1]][j]
    BY <1>1, <1>2, <2>1 DEF Cluster
  <2> QED BY <2>1, <2>2
<1>8. DELETED.name = ""
  BY DEF DELETED
<1>9. ASSUME NEW g \in (DOMAIN home) \X (1..Slots), g # e PROVE At(u, g) = At(t, g)
  <2>1. g = <<g[1], g[2]>> /\ g[1] \in Index /\ g[2] \in 1..Slots
    BY <1>0 DEF Directories
  <2>2. ~(g[1] = e[1] /\ g[2] = e[2])
    BY <1>1, <1>9, <2>1
  <2> QED BY <1>7, <2>1, <2>2 DEF At
<1>10. ASSUME NEW g \in Ids(t, home), g # e
       PROVE  g \in Ids(u, h)
  <2>1. g \in (DOMAIN home) \X (1..Slots) /\ At(t, g).name \in Names
    BY DEF Ids
  <2>2. At(u, g) = At(t, g)
    BY <1>9, <1>10, <2>1
  <2>3. g \in (DOMAIN h) \X (1..Slots)
    BY <1>4, <1>5, <2>1
  <2> QED BY <2>1, <2>2, <2>3 DEF Ids
<1>11. ASSUME NEW g \in Ids(u, h)
       PROVE  /\ g # e /\ g \in Ids(t, home) /\ At(u, g) = At(t, g)
              /\ PathOf(u, h, g) = PathOf(t, home, g)
  <2>1. g \in (DOMAIN h) \X (1..Slots) /\ At(u, g).name \in Names
    BY DEF Ids
  <2>2. g # e
    <3>1. At(u, e) = DELETED
      BY <1>7 DEF At
    <3> QED BY <1>8, <2>1, <3>1 DEF EmptyNames
  <2>3. g \in (DOMAIN home) \X (1..Slots)
    BY <1>5, <2>1
  <2>4. At(u, g) = At(t, g)
    BY <1>9, <2>2, <2>3
  <2>5. g \in Ids(t, home)
    BY <2>1, <2>3, <2>4 DEF Ids
  <2>6. PathOf(u, h, g) = PathOf(t, home, g)
    BY <1>5, <2>1, <2>4 DEF PathOf
  <2> QED BY <2>2, <2>4, <2>5, <2>6
<1>12. EntryLess(t, home, u, h, e)
  <2>1. Ids(u, h) = Ids(t, home) \ {e}
    BY <1>10, <1>11
  <2> QED BY <1>11, <2>1 DEF EntryLess
<1>13. Directories(u, h)
  <2>1. /\ DOMAIN h \subseteq Index \ {NONE} /\ Root \in DOMAIN h /\ h[Root] = <<>>
        /\ \A x \in DOMAIN h : h[x] \in Seq(Names)
    <3>1. Root \in DOMAIN home /\ own[Root] # e
      BY <1>0, <1>1 DEF Directories, Ownership
    <3> QED BY <1>0, <1>5, <3>1 DEF Directories
  <2>2. \A x, y \in DOMAIN h : h[x] = h[y] => x = y
    BY <1>0, <1>5 DEF Directories
  <2>3. ASSUME NEW x \in DOMAIN h PROVE OrderedRow(u[x]) /\ (x # Root => Headed(u[x]))
    <3>0. x \in DOMAIN home /\ x \in Index /\ OrderedRow(t[x]) /\ (x # Root => Headed(t[x]))
      BY <1>0, <1>5 DEF Directories
    <3>1. CASE x = e[1]
      <4>1. t[x][e[2]] # END
        <5>1. END.name = ""
          BY DEF END
        <5> QED BY <1>1, <3>1, <5>1 DEF EmptyNames
      <4>2. OrderedRow(u[x])
        BY <1>1, <1>2, <1>7, <3>1, <4>1, RowEmptied
      <4>3. x # Root => Headed(u[x])
        <5>1. x # Root => t[x][1].name = "." /\ t[x][2].name = ".."
          BY <3>0 DEF Headed
        <5>2. x # Root => e[2] # 1 /\ e[2] # 2
          BY <1>1, <3>1, <5>1 DEF EmptyNames
        <5>3. 1 \in 1..Slots /\ 2 \in 1..Slots
          BY Constants
        <5> QED BY <1>7, <3>1, <5>1, <5>2, <5>3 DEF Headed
      <4> QED BY <4>2, <4>3
    <3>2. CASE x # e[1]
      BY <1>7, <3>0, <3>2
    <3> QED BY <3>1, <3>2
  <2> QED BY <2>1, <2>2, <2>3 DEF Directories
<1>14. ASSUME NEW g \in Ids(t, home), g # e, At(t, g).cluster # NONE
       PROVE  own[At(t, g).cluster] = g /\ o[At(t, g).cluster] = g /\ At(t, g).cluster \in Index
  <2>1. \A x \in Ids(t, home) : At(t, x).cluster # NONE => own[At(t, x).cluster] = x
    BY <1>0 DEF Ownership
  <2>2. At(t, g).cluster \in Index
    BY <1>0, IdTyped
  <2>3. own[At(t, g).cluster] = g
    BY <1>14, <2>1
  <2> QED BY <1>6, <1>14, <2>2, <2>3
<1>15. Linked(u, h, o)
  <2>1. ASSUME NEW g \in Ids(u, h), At(u, g).kind = "dir"
        PROVE  At(u, g).cluster \in DOMAIN h /\ h[At(u, g).cluster] = PathOf(u, h, g)
    <3>1. /\ g # e /\ g \in Ids(t, home) /\ At(u, g) = At(t, g)
          /\ PathOf(u, h, g) = PathOf(t, home, g)
      BY <1>11
    <3>2. At(t, g).cluster \in DOMAIN home /\ home[At(t, g).cluster] = PathOf(t, home, g)
      BY <1>0, <2>1, <3>1 DEF Linked
    <3>3. At(t, g).cluster # NONE
      BY <1>0, <3>2 DEF Directories
    <3>4. own[At(t, g).cluster] # e
      BY <1>14, <3>1, <3>3
    <3> QED BY <1>5, <3>1, <3>2, <3>4
  <2>2. ASSUME NEW x \in (DOMAIN h) \ {Root}
        PROVE  o[x] \in Ids(u, h) /\ At(u, o[x]).kind = "dir" /\ At(u, o[x]).cluster = x
    <3>1. x \in DOMAIN home /\ own[x] # e /\ x \in Index
      BY <1>0, <1>5, <2>2 DEF Directories
    <3>2. own[x] \in Ids(t, home) /\ At(t, own[x]).kind = "dir" /\ At(t, own[x]).cluster = x
      BY <1>0, <2>2, <3>1 DEF Linked
    <3>3. o[x] = own[x]
      BY <1>6, <3>1
    <3>4. own[x] \in Ids(u, h)
      BY <1>10, <3>1, <3>2
    <3> QED BY <1>11, <3>2, <3>3, <3>4
  <2> QED BY <2>1, <2>2 DEF Linked
<1>16. Ownership(f, u, h, o)
  <2>1. o[0] = NOBODY /\ o[1] = NOBODY /\ o[Root] = THEROOT
    <3>1. 0 \in Index /\ 1 \in Index
      BY Constants
    <3>2. own[0] = NOBODY /\ own[1] = NOBODY /\ own[Root] = THEROOT
      BY <1>0 DEF Ownership
    <3> QED BY <1>0, <1>1, <1>6, <3>1, <3>2
  <2>2. \A x \in Index : o[x] \in Ids(u, h) \union {NOBODY, THEROOT}
    <3>1. \A x \in Index : own[x] \in Ids(t, home) \union {NOBODY, THEROOT}
      BY <1>0 DEF Ownership
    <3> QED BY <1>6, <1>10, <3>1
  <2>3. ASSUME NEW x \in Index, o[x] # NOBODY, After(f, x) # NONE PROVE o[After(f, x)] = o[x]
    <3>1. own[x] # e /\ own[x] # NOBODY /\ o[x] = own[x]
      BY <1>6, <2>3
    <3>2. own[After(f, x)] = own[x]
      BY <1>0, <2>3, <3>1 DEF Ownership
    <3>3. After(f, x) \in Index
      BY AfterTyped
    <3> QED BY <1>6, <3>1, <3>2, <3>3
  <2>4. ASSUME NEW g \in Ids(u, h), At(u, g).cluster # NONE PROVE o[At(u, g).cluster] = g
    <3>1. g # e /\ g \in Ids(t, home) /\ At(u, g) = At(t, g)
      BY <1>11
    <3> QED BY <1>14, <2>4, <3>1
  <2>5. o \in [Index -> Index \X (0..Slots)]
    <3>1. NOBODY \in Index \X (0..Slots)
      BY Constants DEF NOBODY
    <3>2. own \in [Index -> Index \X (0..Slots)]
      BY <1>0 DEF Ownership
    <3> QED BY <3>1, <3>2 DEF OwnLess
  <2> QED BY <2>1, <2>2, <2>3, <2>4, <2>5 DEF Ownership
<1>17. Used(f, o, NOBODY)
  BY <1>0, <1>6 DEF Used
<1>18. IsTree(f, u, h, o, NOBODY)
  BY <1>13, <1>15, <1>16, <1>17 DEF IsTree
<1> QED BY <1>12, <1>18

-----------------------------------------------------------------------------
(* The driver keeps a tree.                                                  *)
Creating == pc \in {"allocate", "mirror_used", "write_new", "write_parent", "roll_back", "roll_back_mirror"}
Freeing  == pc \in {"free", "free_mirror"}

(* Between operations: the only entry that may lack clusters is the one whose*)
(* removal was cut.                                                          *)
Resting(home, dy) ==
  IF dy = NOBODY THEN torn = {} ELSE dy \in Ids(data, home) /\ torn = {PathOf(data, home, dy)}

(* A running operation works in the directory of its path, and has a true    *)
(* copy of it.                                                               *)
Placed(home) ==
  op.parent \in DOMAIN home /\ op.saved = data[op.parent] /\ Upper(op.path) = home[op.parent]

Making(home, own, dy) ==
  /\ dy = NOBODY /\ torn = {} /\ op.call \in {"mkdir", "create"}
  /\ \A i \in 1..Slots : data[op.parent][i].name # Last(op.path)
  /\ pc # "allocate" => op.new \notin {0, 1} /\ own[op.new] = NOBODY
  /\ pc \in {"mirror_used", "write_new", "write_parent", "roll_back"} => fat[op.new] = EOC
  /\ pc = "write_parent" /\ op.call = "mkdir" => data[op.new] = NewDirectory(op.new, op.parent)

Removing(home, own, dy) ==
  /\ dy \in Ids(data, home) /\ dy = <<op.parent, op.slot>> /\ op.path = PathOf(data, home, dy)
  /\ torn \subseteq {op.path} /\ op.call \in {"remove", "rmdir"} /\ Bare(data, home, dy)
  /\ op.cluster # NONE => own[op.cluster] = dy
  /\ op.next # NONE => own[op.next] = dy

Steady(home, own, dy) ==
  /\ pc = "idle" => Resting(home, dy)
  /\ pc # "idle" => Placed(home)
  /\ Creating => Making(home, own, dy)
  /\ Freeing => Removing(home, own, dy)

TreeHolds(home, own, dy) == IsTree(fat, data, home, own, dy) /\ Steady(home, own, dy)

TreeInv == \E home, own, dy : TreeHolds(home, own, dy)

LEMMA OutcomesClean ==
  ASSUME OrdinaryUse
  PROVE  /\ \A w \in WriteOutcomes : w = Perfect /\ w.stored = TRUE /\ w.ok = TRUE
         /\ \A w \in ReadWriteOutcomes : w.stored = w.ok /\ w.ok \in BOOLEAN
<1>1. ~May("write")
  BY DEF OrdinaryUse, May
<1>2. WriteOutcomes = {Perfect}
  BY <1>1 DEF WriteOutcomes
<1>3. Perfect.stored = TRUE /\ Perfect.ok = TRUE
  BY DEF Perfect
<1> DEFINE failed == [stored |-> FALSE, ok |-> FALSE]
<1>4. ReadWriteOutcomes \subseteq {Perfect, failed}
  <2> HIDE DEF failed
  <2> QED BY <1>2 DEF ReadWriteOutcomes, failed
<1>5. failed.stored = FALSE /\ failed.ok = FALSE
  OBVIOUS
<1> HIDE DEF failed
<1> QED BY <1>2, <1>3, <1>4, <1>5

LEMMA Outside ==
  ASSUME NEW f, NEW t, NEW home, NEW own, NEW dy, IsTree(f, t, home, own, dy),
         NEW c, own[c] = NOBODY
  PROVE  c \notin DOMAIN home
<1> SUFFICES ASSUME c \in DOMAIN home PROVE FALSE
  OBVIOUS
<1>1. Directories(t, home) /\ Linked(t, home, own) /\ Ownership(f, t, home, own)
  BY DEF IsTree
<1>2. CASE c = Root
  <2>1. Root # NONE
    BY Constants
  <2> QED BY <1>1, <1>2, <2>1 DEF Ownership, NOBODY, THEROOT
<1>3. CASE c # Root
  <2>1. own[c] \in Ids(t, home)
    BY <1>1, <1>3 DEF Linked
  <2> QED BY <1>1, <2>1, IdIs
<1> QED BY <1>2, <1>3

(* The parts of the tree invariant.                                          *)
LEMMA TreeParts ==
  ASSUME OrdinaryUse, TypeInv, NEW home, NEW own, NEW dy, TreeHolds(home, own, dy)
  PROVE  /\ EmptyNames /\ fat \in Fats /\ data \in [Index -> Cluster] /\ op \in Frame
         /\ Directories(data, home) /\ Linked(data, home, own)
         /\ Ownership(fat, data, home, own) /\ Used(fat, own, dy)
         /\ DOMAIN home \subseteq Index
BY OrdinaryNames DEF TypeInv, DiskTyped, ResultTyped, TreeHolds, IsTree, Directories

(* A step that leaves the tables as they are.                                *)
Quiet(home, own) ==
  (\E dy : TreeHolds(home, own, dy)') /\ \A d \in DOMAIN home : data'[d] = data[d]

LEMMA StartCreateTree ==
  ASSUME OrdinaryUse, TypeInv, NEW home, NEW own, NEW dy, TreeHolds(home, own, dy),
         NEW p \in Paths, NEW call \in {"mkdir", "create"}, StartCreate(call, p)
  PROVE  Quiet(home, own)
<1>1. fat' = fat /\ data' = data /\ torn' = torn /\ pc = "idle" /\ Allowed(call, p)
  BY DEF StartCreate, disk
<1>2. IsTree(fat', data', home, own, dy)
  BY <1>1 DEF TreeHolds
<1>3. Resting(home, dy)
  BY <1>1 DEF TreeHolds, Steady
<1>4. CASE Return(-1)
  <2>1. pc' = "idle" /\ Resting(home, dy)'
    BY <1>1, <1>3, <1>4 DEF Return, Resting
  <2>2. Steady(home, own, dy)'
    BY <2>1 DEF Steady, Creating, Freeing
  <2> QED BY <1>1, <1>2, <2>2 DEF TreeHolds, Quiet
<1>5. CASE /\ ParentCluster(p) # NONE /\ SlotOf[ParentCluster(p)][Last(p)] = 0
           /\ Goto("allocate", Begin(call, p))
  <2>1. pc' = "allocate" /\ op' = Begin(call, p)
    BY <1>5 DEF Goto
  <2>2. /\ op'.call = call /\ op'.path = p /\ op'.parent = ParentCluster(p)
        /\ op'.saved = data[ParentCluster(p)]
    BY <2>1 DEF Begin, NoOp
  <2>3. ParentCluster(p) \in DOMAIN home /\ home[ParentCluster(p)] = Upper(p)
    BY <1>1, <1>5, TreeParts, AllowedGoesDown
  <2>4. dy = NOBODY /\ torn = {}
    <3>1. torn = {}
      BY <1>1 DEF Allowed, OrdinaryUse
    <3> QED BY <1>3, <3>1 DEF Resting
  <2>5. \A i \in 1..Slots : data[ParentCluster(p)][i].name # Last(p)
    <3>1. Found(home, ParentCluster(p), Last(p))
      BY <2>3, TreeParts, PathParts, LookupInTree
    <3> QED BY <1>5, <3>1 DEF Found
  <2>6. Placed(home)' /\ Making(home, own, dy)'
    BY <1>1, <2>1, <2>2, <2>3, <2>4, <2>5 DEF Placed, Making
  <2>7. Steady(home, own, dy)'
    BY <2>1, <2>6 DEF Steady, Creating, Freeing
  <2> QED BY <1>1, <1>2, <2>7 DEF TreeHolds, Quiet
<1> QED BY <1>4, <1>5 DEF StartCreate

LEMMA StartFailsTree ==
  ASSUME NEW home, NEW own, NEW dy, TreeHolds(home, own, dy), StartFails
  PROVE  Quiet(home, own)
<1>1. fat' = fat /\ data' = data /\ torn' = torn /\ pc = "idle" /\ pc' = "idle"
  BY DEF StartFails, disk, Return
<1>2. Resting(home, dy)'
  BY <1>1 DEF TreeHolds, Steady, Resting
<1>3. Steady(home, own, dy)'
  BY <1>1, <1>2 DEF Steady, Creating, Freeing
<1> QED BY <1>1, <1>3 DEF TreeHolds, Quiet

LEMMA SlotsBefore ==
  ASSUME NEW i \in 1..Slots, NEW j \in 1..i
  PROVE  j \in 1..Slots /\ (j = i \/ j < i)
BY Constants

LEMMA NamedLive ==
  ASSUME NEW c, OrderedRow(data[c]), NEW i \in 1..Slots, data[c][i].name # ""
  PROVE  i \in Live(c)
<1>1. END.name = "" /\ DELETED.name = ""
  BY DEF END, DELETED
<1>2. Reached(c, i)
  <2> SUFFICES ASSUME NEW j \in 1..i, data[c][j] = END PROVE FALSE
    BY DEF Reached
  <2>1. j \in 1..Slots /\ (j = i \/ j < i)
    BY SlotsBefore
  <2>2. data[c][i] = END
    BY <2>1 DEF OrderedRow
  <2> QED BY <1>1, <2>2
<1> QED BY <1>1, <1>2 DEF Live

(* An empty directory has no entry but "." and "..".                         *)
LEMMA OnlyTwoLive ==
  ASSUME EmptyNames, NEW home, Directories(data, home), NEW c \in DOMAIN home, c # Root,
         data \in [Index -> Cluster], Cardinality(Live(c)) = 2
  PROVE  \A g \in Ids(data, home) : g[1] # c
<1> SUFFICES ASSUME NEW g \in Ids(data, home), g[1] = c PROVE FALSE
  OBVIOUS
<1>0. /\ Slots \in Nat /\ Slots >= 2 /\ 1 \in 1..Slots /\ 2 \in 1..Slots
      /\ OrderedRow(data[c]) /\ Headed(data[c])
  BY Constants DEF Directories
<1>1. g[2] \in 1..Slots /\ data[c][g[2]].name \in Names
  BY IdIs
<1>2. END.name = "" /\ DELETED.name = ""
  BY DEF END, DELETED
<1>3. \A i \in 1..Slots : data[c][i].name # "" => i \in Live(c)
  BY <1>0, NamedLive
<1>4. {1, 2, g[2]} \subseteq Live(c)
  BY <1>0, <1>1, <1>3 DEF Headed, EmptyNames
<1>5. g[2] # 1 /\ g[2] # 2
  BY <1>0, <1>1 DEF Headed, EmptyNames
<1>6. IsFiniteSet(Live(c))
  <2>1. Live(c) \subseteq 1..Slots /\ IsFiniteSet(1..Slots)
    BY <1>0, FS_Interval DEF Live
  <2> QED BY <2>1, FS_Subset
<1>7. Cardinality({1, 2, g[2]}) = 3
  <2> DEFINE x == g[2]
  <2>1. x # 1 /\ x # 2
    BY <1>5
  <2> HIDE DEF x
  <2>2. IsFiniteSet({1}) /\ Cardinality({1}) = 1
    BY FS_Singleton
  <2>3. IsFiniteSet({1} \union {2}) /\ Cardinality({1} \union {2}) = 2
    <3> DEFINE S == {1}
    <3>1. IsFiniteSet(S) /\ Cardinality(S) = 1 /\ 2 \notin S
      BY <2>2
    <3> HIDE DEF S
    <3>2. IsFiniteSet(S \union {2}) /\ Cardinality(S \union {2}) = Cardinality(S) + 1
      BY <3>1, FS_AddElement
    <3> QED BY <3>1, <3>2 DEF S
  <2>4. Cardinality(({1} \union {2}) \union {x}) = 3
    <3> DEFINE S == {1} \union {2}
    <3>1. IsFiniteSet(S) /\ Cardinality(S) = 2 /\ x \notin S
      BY <2>1, <2>3
    <3> HIDE DEF S
    <3>2. Cardinality(S \union {x}) = Cardinality(S) + 1
      BY <3>1, FS_AddElement
    <3> QED BY <3>1, <3>2 DEF S
  <2>5. ({1} \union {2}) \union {x} = {1, 2, x}
    OBVIOUS
  <2> QED BY <2>4, <2>5 DEF x
<1>8. Cardinality({1, 2, g[2]}) <= Cardinality(Live(c))
  BY <1>4, <1>6, FS_Subset
<1> QED BY <1>7, <1>8

LEMMA StartRemoveTree ==
  ASSUME OrdinaryUse, TypeInv, NEW home, NEW own, NEW dy, TreeHolds(home, own, dy),
         NEW p \in Paths, NEW call \in {"remove", "rmdir"}, StartRemove(call, p)
  PROVE  Quiet(home, own)
<1> DEFINE d == ParentCluster(p)
           s == SlotOf[d][Last(p)]
<1>1. fat' = fat /\ data' = data /\ torn' = torn /\ pc = "idle" /\ Allowed(call, p)
  BY DEF StartRemove, disk
<1>2. IsTree(fat, data, home, own, dy) /\ Resting(home, dy)
  BY <1>1 DEF TreeHolds, Steady
<1>3. /\ EmptyNames /\ fat \in Fats /\ data \in [Index -> Cluster]
      /\ Directories(data, home) /\ Linked(data, home, own) /\ Ownership(fat, data, home, own)
  BY TreeParts
<1>4. CASE Return(-1)
  <2>1. pc' = "idle" /\ Resting(home, dy)'
    BY <1>1, <1>2, <1>4 DEF Return, Resting
  <2>2. Steady(home, own, dy)'
    BY <2>1 DEF Steady, Creating, Freeing
  <2>3. IsTree(fat', data', home, own, dy)
    BY <1>1, <1>2
  <2> QED BY <1>1, <2>2, <2>3 DEF TreeHolds, Quiet
<1>5. CASE /\ d # NONE /\ s # 0
           /\ call = "rmdir" /\ data[d][s].cluster # NONE => Cardinality(Live(data[d][s].cluster)) = 2
           /\ Goto("free", [Begin(call, p) EXCEPT !.slot = s, !.cluster = data[d][s].cluster])
  <2>1. DirsTo(Walk(p), Len(p) - 1) /\ d \in DOMAIN home /\ home[d] = Upper(p)
    BY <1>1, <1>3, <1>5, AllowedGoesDown
  <2>0. PICK e : e = <<d, s>>
    OBVIOUS
  <2>2. Stands(home, p, e)
    BY <1>3, <1>5, <2>0, <2>1, StandsAtSlot
  <2>3. /\ e \in Ids(data, home) /\ PathOf(data, home, e) = p
        /\ EntryOf(p) = At(data, e) /\ At(data, e) = data[d][s]
    BY <2>0, <2>2 DEF Stands, At
  <2>4. /\ pc' = "free" /\ op'.call = call /\ op'.path = p /\ op'.parent = d
        /\ op'.saved = data[d] /\ op'.slot = s /\ op'.cluster = data[d][s].cluster /\ op'.next = NONE
    <3>1. pc' = "free" /\ op' = [Begin(call, p) EXCEPT !.slot = s, !.cluster = data[d][s].cluster]
      BY <1>5 DEF Goto
    <3> HIDE DEF s
    <3> QED BY <3>1 DEF Begin, NoOp
  <2> HIDE DEF s, d
  <2>5. e = <<d, s>> /\ e[1] = d /\ e[2] = s
    BY <2>0
  <2>6. dy \in {NOBODY, e} /\ torn \subseteq {p}
    <3>1. CASE torn = {}
      BY <1>2, <3>1 DEF Resting
    <3>2. CASE torn # {}
      <4>1. p \in torn
        BY <1>1, <3>2 DEF Allowed, OrdinaryUse
      <4>2. dy \in Ids(data, home) /\ torn = {PathOf(data, home, dy)}
        BY <1>2, <3>2 DEF Resting
      <4>3. PathOf(data, home, dy) = PathOf(data, home, e)
        BY <2>3, <4>1, <4>2
      <4>4. dy = e
        BY <1>3, <2>3, <4>2, <4>3, PathsDiffer
      <4> QED BY <4>1, <4>2, <4>4
    <3> QED BY <3>1, <3>2
  <2>7. IsTree(fat, data, home, own, e)
    BY <1>2, <2>6 DEF IsTree, Used
  <2>8. Bare(data, home, e)
    <3> SUFFICES ASSUME At(data, e).kind = "dir" PROVE \A g \in Ids(data, home) : g[1] # At(data, e).cluster
      BY DEF Bare
    <3> DEFINE c == At(data, e).cluster
    <3>1. call = "rmdir"
      <4>1. KindOf(p) = "dir"
        BY <2>3 DEF KindOf
      <4>2. call # "remove"
        BY <1>1, <4>1 DEF Allowed, AsTheHelpSays, OrdinaryUse
      <4> QED BY <4>2
    <3>3. c \in DOMAIN home /\ home[c] = PathOf(data, home, e)
      BY <1>3, <2>3 DEF Linked
    <3>2. Cardinality(Live(c)) = 2
      <4>1. c # NONE
        BY <1>3, <3>3 DEF Directories
      <4> QED BY <1>5, <2>3, <3>1, <4>1 DEF d, s
    <3>4. c # Root
      <4>1. PathOf(data, home, e) # <<>>
        BY <2>3, PathParts, EmptySeq
      <4>2. home[Root] = <<>>
        BY <1>3 DEF Directories
      <4> QED BY <3>3, <4>1, <4>2
    <3> HIDE DEF c
    <3>5. \A g \in Ids(data, home) : g[1] # c
      BY <1>3, <3>2, <3>3, <3>4, OnlyTwoLive
    <3> QED BY <3>5 DEF c
  <2>9. At(data, e).cluster # NONE => own[At(data, e).cluster] = e
    BY <1>3, <2>3 DEF Ownership
  <2>10. Removing(home, own, e)'
    <3>1. e \in Ids(data', home) /\ Bare(data', home, e) /\ PathOf(data', home, e) = p
      BY <1>1, <2>3, <2>8
    <3>2. /\ op'.call = call /\ op'.path = p /\ <<op'.parent, op'.slot>> = e
          /\ op'.cluster = At(data, e).cluster /\ op'.next = NONE
      BY <2>3, <2>4, <2>5
    <3>3. torn' \subseteq {p}
      BY <1>1, <2>6
    <3> QED BY <2>9, <3>1, <3>2, <3>3 DEF Removing
  <2>11. Placed(home)'
    BY <1>1, <2>1, <2>4 DEF Placed
  <2>12. Steady(home, own, e)'
    <3>1. pc' = "free"
      BY <2>4
    <3> QED BY <2>10, <2>11, <3>1 DEF Steady, Creating, Freeing
  <2>13. TreeHolds(home, own, e)'
    BY <1>1, <2>7, <2>12 DEF TreeHolds
  <2> QED BY <1>1, <2>13 DEF Quiet
<1>6. \/ Return(-1)
      \/ /\ d # NONE /\ s # 0
         /\ \E count \in EntryCounts(data[d][s].cluster) :
              \/ Return(-1)
              \/ /\ call = "rmdir" => count = 2
                 /\ Goto("free", [Begin(call, p) EXCEPT !.slot = s, !.cluster = data[d][s].cluster])
  BY DEF StartRemove
<1>7. \A c : c # NONE => EntryCounts(c) = {Cardinality(Live(c))}
  BY DEF EntryCounts
<1> HIDE DEF d, s
<1> QED BY <1>4, <1>5, <1>6, <1>7

LEMMA AllocateTree ==
  ASSUME OrdinaryUse, TypeInv, NEW home, NEW own, NEW dy, TreeHolds(home, own, dy), Allocate
  PROVE  Quiet(home, own)
<1>1. data' = data /\ torn' = torn /\ pc = "allocate"
  BY DEF Allocate
<1>2. IsTree(fat, data, home, own, dy) /\ Placed(home) /\ Making(home, own, dy)
  BY <1>1 DEF TreeHolds, Steady, Creating
<1>3. op \in Frame /\ fat \in Fats
  BY TreeParts
<1>4. CASE Return(-1) /\ UNCHANGED fat
  <2>1. Resting(home, dy)'
    BY <1>1, <1>2 DEF Making, Resting
  <2>2. Steady(home, own, dy)'
    BY <1>4, <2>1 DEF Return, Steady, Creating, Freeing
  <2> QED BY <1>1, <1>2, <1>4, <2>2 DEF TreeHolds, Quiet
<1>5. CASE \E c \in Index, w \in ReadWriteOutcomes :
             /\ fat[c] = FREE /\ fat' = Put(fat, c, EOC, w)
             /\ IF w.ok THEN Goto("mirror_used", [op EXCEPT !.new = c]) ELSE Return(-1)
  <2>1. PICK c \in Index, w \in ReadWriteOutcomes :
             /\ fat[c] = FREE /\ fat' = Put(fat, c, EOC, w)
             /\ IF w.ok THEN Goto("mirror_used", [op EXCEPT !.new = c]) ELSE Return(-1)
    BY <1>5
  <2>2. dy = NOBODY /\ own[c] = NOBODY /\ c \notin {0, 1}
    BY <1>2, <2>1 DEF Making, IsTree, Used
  <2>3. IsTree(fat', data', home, own, dy)
    <3>1. IsTree(Put(fat, c, EOC, w), data, home, own, dy)
      BY <1>2, <1>3, <2>2, FatWriteKeepsTree
    <3> QED BY <1>1, <2>1, <3>1
  <2>4. CASE w.ok
    <3>1. pc' = "mirror_used" /\ op' = [op EXCEPT !.new = c]
      BY <2>1, <2>4 DEF Goto
    <3>2. /\ op'.new = c /\ op'.call = op.call /\ op'.path = op.path /\ op'.parent = op.parent
          /\ op'.saved = op.saved
      BY <1>3, <3>1 DEF Frame
    <3>3. fat'[c] = EOC
      BY <1>3, <2>1, <2>4, OutcomesClean DEF Put, Fats
    <3>4. Making(home, own, dy)' /\ Placed(home)'
      BY <1>1, <1>2, <2>2, <3>1, <3>2, <3>3 DEF Making, Placed
    <3>5. Steady(home, own, dy)'
      BY <3>1, <3>4 DEF Steady, Creating, Freeing
    <3> QED BY <1>1, <2>3, <3>5 DEF TreeHolds, Quiet
  <2>5. CASE ~w.ok
    <3>1. pc' = "idle"
      BY <2>1, <2>5 DEF Return
    <3>2. Resting(home, dy)'
      BY <1>1, <1>2 DEF Making, Resting
    <3>3. Steady(home, own, dy)'
      BY <3>1, <3>2 DEF Steady, Creating, Freeing
    <3> QED BY <1>1, <2>3, <3>3 DEF TreeHolds, Quiet
  <2> QED BY <2>4, <2>5
<1> QED BY <1>4, <1>5, AllocateIs

LEMMA MirrorUsedTree ==
  ASSUME NEW home, NEW own, NEW dy, TreeHolds(home, own, dy), MirrorUsed
  PROVE  Quiet(home, own)
<1>1. /\ data' = data /\ fat' = fat /\ torn' = torn /\ pc = "mirror_used" /\ op' = op
      /\ pc' = IF op.call = "mkdir" THEN "write_new" ELSE "write_parent"
  BY DEF MirrorUsed, Goto
<1>2. Placed(home) /\ Making(home, own, dy)
  BY <1>1 DEF TreeHolds, Steady, Creating
<1>3. Making(home, own, dy)' /\ Placed(home)'
  BY <1>1, <1>2 DEF Making, Placed
<1>4. Steady(home, own, dy)'
  BY <1>1, <1>3 DEF Steady, Creating, Freeing
<1> QED BY <1>1, <1>4 DEF TreeHolds, Quiet

LEMMA WriteNewTree ==
  ASSUME OrdinaryUse, TypeInv, NEW home, NEW own, NEW dy, TreeHolds(home, own, dy), WriteNew
  PROVE  Quiet(home, own)
<1>1. fat' = fat /\ torn' = torn /\ pc = "write_new" /\ op' = op /\ pc' = "write_parent"
  BY DEF WriteNew, Goto
<1>2. IsTree(fat, data, home, own, dy) /\ Placed(home) /\ Making(home, own, dy)
  BY <1>1 DEF TreeHolds, Steady, Creating
<1>3. data' = [data EXCEPT ![op.new] = NewDirectory(op.new, op.parent)]
  BY OutcomesClean DEF WriteNew, Put
<1>4. own[op.new] = NOBODY /\ op.new \notin DOMAIN home
  BY <1>1, <1>2, Outside DEF Making
<1>5. data \in [Index -> Cluster] /\ DOMAIN home \subseteq Index /\ op.new \in Index
  BY TreeParts DEF Frame
<1>6. /\ \A d \in DOMAIN home : data'[d] = data[d]
      /\ data'[op.new] = NewDirectory(op.new, op.parent)
  BY <1>3, <1>4, <1>5
<1>7. IsTree(fat', data', home, own, dy)
  BY <1>1, <1>2, <1>6, DataWriteKeepsTree
<1>8. op.parent \in DOMAIN home
  BY <1>2 DEF Placed
<1>9. Placed(home)' /\ Making(home, own, dy)'
  BY <1>1, <1>2, <1>6, <1>8 DEF Placed, Making
<1>10. Steady(home, own, dy)'
  BY <1>1, <1>9 DEF Steady, Creating, Freeing
<1> QED BY <1>6, <1>7, <1>10 DEF TreeHolds, Quiet

LEMMA RollBackTree ==
  ASSUME OrdinaryUse, TypeInv, NEW home, NEW own, NEW dy, TreeHolds(home, own, dy), RollBack
  PROVE  Quiet(home, own)
<1>1. data' = data /\ torn' = torn /\ pc = "roll_back"
  BY DEF RollBack
<1>2. IsTree(fat, data, home, own, dy) /\ Placed(home) /\ Making(home, own, dy)
  BY <1>1 DEF TreeHolds, Steady, Creating
<1>3. op.new \in Index /\ fat \in Fats
  BY TreeParts DEF Frame
<1>4. PICK w \in ReadWriteOutcomes :
        /\ fat' = Put(fat, op.new, FREE, w)
        /\ IF w.ok THEN Goto("roll_back_mirror", op) ELSE Return(-1)
  BY DEF RollBack
<1>5. own[op.new] = NOBODY /\ op.new \notin {0, 1}
  BY <1>1, <1>2 DEF Making
<1>6. IsTree(fat', data', home, own, dy)
  <2>1. IsTree(Put(fat, op.new, FREE, w), data, home, own, dy)
    BY <1>2, <1>3, <1>5, FatWriteKeepsTree
  <2> QED BY <1>1, <1>4, <2>1
<1>7. Steady(home, own, dy)'
  <2>1. CASE pc' = "roll_back_mirror" /\ op' = op
    <3>1. Making(home, own, dy)' /\ Placed(home)'
      BY <1>1, <1>2, <1>5, <2>1 DEF Making, Placed
    <3> QED BY <2>1, <3>1 DEF Steady, Creating, Freeing
  <2>2. CASE pc' = "idle"
    <3>1. Resting(home, dy)'
      BY <1>1, <1>2 DEF Making, Resting
    <3> QED BY <2>2, <3>1 DEF Steady, Creating, Freeing
  <2> QED BY <1>4, <2>1, <2>2 DEF Goto, Return
<1> QED BY <1>1, <1>6, <1>7 DEF TreeHolds, Quiet

LEMMA RollBackMirrorTree ==
  ASSUME NEW home, NEW own, NEW dy, TreeHolds(home, own, dy), RollBackMirror
  PROVE  Quiet(home, own)
<1>1. data' = data /\ fat' = fat /\ torn' = torn /\ pc = "roll_back_mirror" /\ pc' = "idle"
  BY DEF RollBackMirror, Return
<1>2. Making(home, own, dy)
  BY <1>1 DEF TreeHolds, Steady, Creating
<1>3. Resting(home, dy)'
  BY <1>1, <1>2 DEF Making, Resting
<1>4. Steady(home, own, dy)'
  BY <1>1, <1>3 DEF Steady, Creating, Freeing
<1> QED BY <1>1, <1>4 DEF TreeHolds, Quiet

LEMMA FreeClusterTree ==
  ASSUME OrdinaryUse, TypeInv, NEW home, NEW own, NEW dy, TreeHolds(home, own, dy), FreeCluster
  PROVE  Quiet(home, own)
<1>1. data' = data /\ torn' = torn /\ pc = "free" /\ op.cluster # NONE
  BY DEF FreeCluster
<1>2. IsTree(fat, data, home, own, dy) /\ Placed(home) /\ Removing(home, own, dy)
  BY <1>1 DEF TreeHolds, Steady, Freeing
<1>3. /\ op.cluster \in Index /\ fat \in Fats /\ op \in Frame /\ Directories(data, home)
      /\ Ownership(fat, data, home, own)
  BY TreeParts DEF Frame
<1>4. PICK n \in {NONE, NextCluster(op.cluster)}, w \in ReadWriteOutcomes :
        /\ fat' = Put(fat, op.cluster, FREE, w)
        /\ IF w.ok THEN Goto("free_mirror", [op EXCEPT !.next = n])
                   ELSE Goto("free", [op EXCEPT !.cluster = n])
  BY FreeClusterIs
<1>5. own[op.cluster] = dy /\ dy # NOBODY
  <2>1. own[op.cluster] = dy /\ dy \in Ids(data, home)
    BY <1>1, <1>2 DEF Removing
  <2> QED BY <1>3, <2>1, IdIs
<1>6. op.cluster \notin {0, 1}
  BY <1>3, <1>5 DEF Ownership
<1>7. n # NONE => own[n] = dy
  <2>1. NextCluster(op.cluster) = After(fat, op.cluster)
    BY DEF NextCluster, After
  <2>2. After(fat, op.cluster) # NONE => own[After(fat, op.cluster)] = own[op.cluster]
    BY <1>3, <1>5 DEF Ownership
  <2> QED BY <1>5, <2>1, <2>2
<1>8. IsTree(fat', data', home, own, dy)
  <2>1. IsTree(Put(fat, op.cluster, FREE, w), data, home, own, dy)
    BY <1>2, <1>3, <1>5, <1>6, FatWriteKeepsTree
  <2> QED BY <1>1, <1>4, <2>1
<1>9. n \in Index
  BY <1>3, NextClusterTyped, Constants
<1>10. /\ pc' \in {"free", "free_mirror"} /\ op'.path = op.path /\ op'.parent = op.parent
       /\ op'.saved = op.saved /\ op'.slot = op.slot /\ op'.call = op.call
       /\ op'.cluster \in {op.cluster, n} /\ op'.next \in {op.next, n}
  <2>1. CASE op' = [op EXCEPT !.next = n]
    BY <1>3, <1>4, <2>1 DEF Frame, Goto
  <2>2. CASE op' = [op EXCEPT !.cluster = n]
    BY <1>3, <1>4, <2>2 DEF Frame, Goto
  <2> QED BY <1>4, <2>1, <2>2 DEF Goto
<1>11. Removing(home, own, dy)' /\ Placed(home)'
  BY <1>1, <1>2, <1>7, <1>10 DEF Removing, Placed
<1>12. Steady(home, own, dy)'
  BY <1>10, <1>11 DEF Steady, Creating, Freeing
<1> QED BY <1>1, <1>8, <1>12 DEF TreeHolds, Quiet

LEMMA FreeMirrorTree ==
  ASSUME OrdinaryUse, TypeInv, NEW home, NEW own, NEW dy, TreeHolds(home, own, dy), FreeMirror
  PROVE  Quiet(home, own)
<1>1. data' = data /\ fat' = fat /\ torn' = torn /\ pc = "free_mirror" /\ pc' = "free"
  BY DEF FreeMirror, Goto
<1>2. Placed(home) /\ Removing(home, own, dy)
  BY <1>1 DEF TreeHolds, Steady, Freeing
<1>3. op \in Frame
  BY TreeParts
<1>4. /\ op'.path = op.path /\ op'.parent = op.parent /\ op'.saved = op.saved /\ op'.slot = op.slot
      /\ op'.call = op.call /\ op'.cluster = op.next /\ op'.next = NONE
  BY <1>3 DEF FreeMirror, Goto, Frame
<1>5. Removing(home, own, dy)' /\ Placed(home)'
  BY <1>1, <1>2, <1>4 DEF Removing, Placed
<1>6. Steady(home, own, dy)'
  BY <1>1, <1>5 DEF Steady, Creating, Freeing
<1> QED BY <1>1, <1>6 DEF TreeHolds, Quiet

LEMMA CrashTree ==
  ASSUME OrdinaryUse, TypeInv, NEW home, NEW own, NEW dy, TreeHolds(home, own, dy), Crash
  PROVE  Quiet(home, own)
<1>1. /\ data' = data /\ fat' = fat /\ pc # "idle" /\ pc' = "idle"
      /\ torn' = IF pc \in {"free", "free_mirror"} THEN torn \union {op.path} ELSE torn
  BY DEF Crash, disk
<1>2. pc \in Labels
  BY DEF TypeInv, ResultTyped
<1>3. Resting(home, dy)'
  <2>1. CASE Creating
    <3>1. Making(home, own, dy) /\ torn' = torn
      BY <1>1, <2>1 DEF TreeHolds, Steady, Creating
    <3> QED BY <1>1, <3>1 DEF Making, Resting
  <2>2. CASE Freeing
    <3>1. Removing(home, own, dy) /\ torn' = torn \union {op.path}
      BY <1>1, <2>2 DEF TreeHolds, Steady, Freeing
    <3>2. torn' = {PathOf(data, home, dy)} /\ dy \in Ids(data, home)
      BY <3>1 DEF Removing
    <3>3. dy # NOBODY
      BY <3>2, TreeParts, IdIs
    <3> QED BY <1>1, <3>2, <3>3 DEF Resting
  <2> QED BY <1>1, <1>2, <2>1, <2>2 DEF Labels, Creating, Freeing
<1>4. Steady(home, own, dy)'
  BY <1>1, <1>3 DEF Steady, Creating, Freeing
<1> QED BY <1>1, <1>4 DEF TreeHolds, Quiet

LEMMA MinLeast ==
  ASSUME NEW S \in SUBSET Nat, S # {}
  PROVE  \A y \in S : Min(S) <= y
<1>1. \E x \in S : \A y \in S : x <= y
  BY LeastElement
<1> QED BY <1>1 DEF Min

(* A step that adds the entry of the operation's path to the tree.           *)
Grown(home) ==
  /\ op.call \in {"mkdir", "create"} /\ pc' = "idle" /\ ret' = 0
  /\ \E h, o, e : /\ TreeHolds(h, o, NOBODY)' /\ EntryMore(data, home, data', h, e)
                  /\ At(data', e).kind = (IF op.call = "mkdir" THEN "dir" ELSE "file")
                  /\ At(data', e).cluster = op.new
                  /\ PathOf(data', h, e) = op.path

(* A step that takes it out.                                                 *)
Shrunk(home) ==
  /\ op.call \in {"remove", "rmdir"} /\ pc' = "idle" /\ ret' = 0
  /\ \E h, o, e : /\ TreeHolds(h, o, NOBODY)' /\ EntryLess(data, home, data', h, e)
                  /\ PathOf(data, home, e) = op.path /\ Bare(data, home, e)

LEMMA WriteParentTree ==
  ASSUME OrdinaryUse, TypeInv, NEW home, NEW own, NEW dy, TreeHolds(home, own, dy), WriteParent
  PROVE  (Quiet(home, own) /\ pc' = "roll_back") \/ Grown(home)
<1>1. fat' = fat /\ torn' = torn /\ pc = "write_parent"
  BY DEF WriteParent
<1>2. IsTree(fat, data, home, own, dy) /\ Placed(home) /\ Making(home, own, dy)
  BY <1>1 DEF TreeHolds, Steady, Creating
<1>3. /\ EmptyNames /\ fat \in Fats /\ data \in [Index -> Cluster] /\ op \in Frame
      /\ Directories(data, home) /\ DOMAIN home \subseteq Index
  BY TreeParts
<1>4. CASE Goto("roll_back", op) /\ UNCHANGED data
  <2>1. pc' = "roll_back" /\ op' = op
    BY <1>4 DEF Goto
  <2>2. Making(home, own, dy)' /\ Placed(home)'
    BY <1>1, <1>2, <1>4, <2>1 DEF Making, Placed
  <2>3. Steady(home, own, dy)'
    BY <2>1, <2>2 DEF Steady, Creating, Freeing
  <2> QED BY <1>1, <1>2, <1>4, <2>1, <2>3 DEF TreeHolds, Quiet
<1>5. CASE /\ FreeSlots(op.saved) # {} /\ Return(0)
           /\ data' = [data EXCEPT ![op.parent] = [op.saved EXCEPT ![Min(FreeSlots(op.saved))] = Added]]
  <2> DEFINE d == op.parent
             i == Min(FreeSlots(op.saved))
             c == op.new
             p == op.path
             E == Added
  <2>1. /\ d \in DOMAIN home /\ op.saved = data[d] /\ Upper(p) = home[d]
        /\ dy = NOBODY /\ torn = {} /\ op.call \in {"mkdir", "create"}
        /\ \A j \in 1..Slots : data[d][j].name # Last(p)
        /\ c \notin {0, 1} /\ own[c] = NOBODY /\ fat[c] = EOC
        /\ op.call = "mkdir" => data[c] = NewDirectory(c, d)
    BY <1>1, <1>2 DEF Placed, Making
  <2>2. p \in Paths /\ c \in Index
    BY <1>1, <1>3 DEF TypeInv, Running, Frame
  <2>3. Last(p) \in Names /\ p = Append(Upper(p), Last(p)) /\ ShortName[Last(p)] = Last(p)
    BY <2>2, PathParts DEF OrdinaryUse
  <2>4. i \in FreeSlots(data[d]) /\ \A j \in FreeSlots(data[d]) : i <= j
    <3> DEFINE S == FreeSlots(op.saved)
    <3>1. S \in SUBSET Nat /\ S # {} /\ S = FreeSlots(data[d])
      BY <1>5, <2>1 DEF FreeSlots
    <3> HIDE DEF S
    <3>2. Min(S) \in S /\ \A j \in S : Min(S) <= j
      BY <3>1, MinIs, MinLeast
    <3> QED BY <3>1, <3>2 DEF S
  <2>5. E.name = Last(p) /\ E.cluster = c /\ E.kind = IF op.call = "mkdir" THEN "dir" ELSE "file"
    BY <2>3 DEF Added
  <2>6. E \in Slot
    <3>1. (IF op.call = "mkdir" THEN "dir" ELSE "file") \in Entries /\ Last(p) \in DISKNAMES
      BY <2>3, OrdinaryNames DEF Entries
    <3> QED BY <2>2, <2>3, <3>1, SlotsTyped DEF Added
  <2>7. data' = [data EXCEPT ![d] = [data[d] EXCEPT ![i] = E]]
    BY <1>5, <2>1
  <2> HIDE DEF d, i, c, p, E
  <2>8. PICK h : h = HomeWith(home, E.kind, c, p)
    OBVIOUS
  <2>9. PICK o : o = OwnWith(own, c, <<d, i>>)
    OBVIOUS
  <2>10. PICK e : e = <<d, i>>
    OBVIOUS
  <2>11. IsTree(fat, data, home, own, NOBODY)
    BY <1>2, <2>1
  <2>12. p = Append(home[d], E.name)
    BY <2>1, <2>3, <2>5
  <2>13. E.kind = "dir" => data[c] = NewDirectory(c, d)
    BY <2>1, <2>5
  <2>14. E.name \in Names /\ \A j \in 1..Slots : data[d][j].name # E.name
    BY <2>1, <2>3, <2>5 DEF p
  <2>15. /\ IsTree(fat, data', h, o, NOBODY) /\ EntryMore(data, home, data', h, <<d, i>>)
         /\ At(data', <<d, i>>) = E /\ PathOf(data', h, <<d, i>>) = p
    <3>1. Fits(fat, data, home, own, d, i, E, c, p)
      <4>1. own[c] = NOBODY /\ fat[c] = EOC /\ c \in Index /\ c \notin {0, 1}
        BY <2>1, <2>2
      <4> QED BY <1>3, <2>1, <2>4, <2>5, <2>6, <2>11, <2>12, <2>13, <2>14, <4>1, ZenonT(60) DEF Fits
    <3>2. data' = Filled(data, d, i, E)
      BY <2>7 DEF Filled
    <3> HIDE <2>7
    <3>3. HoldsAdded(fat, data, home, data', h, o, <<d, i>>, E, p)
      BY <1>3, <2>8, <2>9, <3>1, <3>2, EntryAdded
    <3> QED BY <3>3 DEF HoldsAdded
  <2>16. pc' = "idle" /\ ret' = 0
    BY <1>5 DEF Return
  <2>17. Steady(h, o, NOBODY)'
    <3>1. Resting(h, NOBODY)'
      BY <1>1, <2>1 DEF Resting
    <3> QED BY <2>16, <3>1 DEF Steady, Creating, Freeing
  <2>18. TreeHolds(h, o, NOBODY)'
    BY <1>1, <2>15, <2>17 DEF TreeHolds
  <2>19. At(data', e).kind = (IF op.call = "mkdir" THEN "dir" ELSE "file") /\ At(data', e).cluster = op.new
    BY <2>5, <2>10, <2>15 DEF c
  <2>20. PathOf(data', h, e) = op.path /\ EntryMore(data, home, data', h, e)
    BY <2>10, <2>15 DEF p
  <2> QED BY <2>1, <2>16, <2>18, <2>19, <2>20 DEF Grown
<1>6. \/ Goto("roll_back", op) /\ UNCHANGED data
      \/ /\ FreeSlots(op.saved) # {} /\ Return(0)
         /\ data' = [data EXCEPT ![op.parent] = [op.saved EXCEPT ![Min(FreeSlots(op.saved))] = Added]]
  <2> DEFINE room == FreeSlots(op.saved)
  <2>1. CASE room = {}
    BY <2>1 DEF WriteParent
  <2>2. CASE room # {}
    <3>1. PICK w \in WriteOutcomes :
            data' = Put(data, op.parent, [op.saved EXCEPT ![Min(room)] = Added], w) /\ Return(0)
      BY <2>2 DEF WriteParent, Added
    <3>2. w.stored
      BY OutcomesClean
    <3> QED BY <2>2, <3>1, <3>2 DEF Put
  <2> QED BY <2>1, <2>2
<1> QED BY <1>4, <1>5, <1>6

LEMMA DeleteEntryTree ==
  ASSUME OrdinaryUse, TypeInv, NEW home, NEW own, NEW dy, TreeHolds(home, own, dy), DeleteEntry
  PROVE  Shrunk(home)
<1>1. /\ fat' = fat /\ pc = "free" /\ torn' = torn \ {op.path} /\ pc' = "idle" /\ ret' = 0
  BY DEF DeleteEntry, Return
<1>2. IsTree(fat, data, home, own, dy) /\ Placed(home) /\ Removing(home, own, dy)
  BY <1>1 DEF TreeHolds, Steady, Freeing
<1>3. EmptyNames /\ fat \in Fats /\ data \in [Index -> Cluster] /\ Directories(data, home)
  BY TreeParts
<1>4. data' = [data EXCEPT ![op.parent] = [op.saved EXCEPT ![op.slot] = DELETED]]
  <2>1. PICK w \in WriteOutcomes : data' = Put(data, op.parent, [op.saved EXCEPT ![op.slot] = DELETED], w)
    BY DEF DeleteEntry
  <2>2. w.stored
    BY OutcomesClean
  <2> QED BY <2>1, <2>2 DEF Put
<1>5. /\ dy \in Ids(data, home) /\ dy[1] = op.parent /\ dy[2] = op.slot
      /\ op.path = PathOf(data, home, dy) /\ Bare(data, home, dy) /\ torn \subseteq {op.path}
      /\ op.call \in {"remove", "rmdir"}
  BY <1>2 DEF Removing
<1>6. data' = [data EXCEPT ![dy[1]] = [data[dy[1]] EXCEPT ![dy[2]] = DELETED]]
  BY <1>2, <1>4, <1>5 DEF Placed
<1>7. PICK h : h = HomeLess(home, own, dy)
  OBVIOUS
<1>8. PICK o : o = OwnLess(own, dy)
  OBVIOUS
<1>9. IsTree(fat, data', h, o, NOBODY) /\ EntryLess(data, home, data', h, dy)
  BY <1>2, <1>3, <1>5, <1>6, <1>7, <1>8, EntryGone
<1>10. Steady(h, o, NOBODY)'
  <2>1. Resting(h, NOBODY)'
    BY <1>1, <1>5 DEF Resting
  <2> QED BY <1>1, <2>1 DEF Steady, Creating, Freeing
<1>11. TreeHolds(h, o, NOBODY)'
  BY <1>1, <1>9, <1>10 DEF TreeHolds
<1> QED BY <1>1, <1>5, <1>9, <1>11 DEF Shrunk

-----------------------------------------------------------------------------
(* No step goes into the FAT while the volume holds a tree.                  *)
LEMMA NoneStray ==
  ASSUME OrdinaryUse, TypeInv, NEW home, NEW own, NEW dy, TreeHolds(home, own, dy)
  PROVE  ~IntoFat
<1>1. Directories(data, home) /\ Linked(data, home, own)
  BY TreeParts
<1>2. \A p \in Paths, call \in Calls : ~StartCreateInFat(call, p) /\ ~StartRemoveInFat(call, p)
  BY <1>1, AllowedStaysOut DEF StartCreateInFat, StartRemoveInFat
<1>3. pc # "idle" => op.parent # NONE
  BY <1>1 DEF TreeHolds, Steady, Placed, Directories
<1>4. ~WriteParentInFat /\ ~DeleteEntryInFat
  BY <1>3 DEF WriteParentInFat, DeleteEntryInFat
<1> QED BY <1>2, <1>4 DEF IntoFat

(* Every step keeps the tree.                                                *)
LEMMA TreeSteps ==
  ASSUME [Next]_vars, ~IntoFat
  PROVE  \/ \E p \in Paths : \E call \in {"mkdir", "create"} : StartCreate(call, p)
         \/ \E p \in Paths : \E call \in {"remove", "rmdir"} : StartRemove(call, p)
         \/ StartFails \/ Allocate \/ MirrorUsed \/ WriteNew \/ WriteParent
         \/ RollBack \/ RollBackMirror \/ FreeCluster \/ FreeMirror \/ DeleteEntry
         \/ Crash \/ UNCHANGED vars
BY DEF Next, Start, Step, IntoFat

LEMMA StutterTree ==
  ASSUME NEW home, NEW own, NEW dy, TreeHolds(home, own, dy), UNCHANGED vars
  PROVE  Quiet(home, own)
<1>1. TreeHolds(home, own, dy)' /\ data' = data
  BY DEF vars, disk, TreeHolds, Steady, Resting, Placed, Making, Removing, Creating, Freeing
<1> QED BY <1>1 DEF Quiet

LEMMA TreeStep ==
  ASSUME OrdinaryUse, TypeInv, NEW home, NEW own, NEW dy, TreeHolds(home, own, dy), [Next]_vars
  PROVE  \/ Quiet(home, own) /\ ~WriteParent /\ ~DeleteEntry
         \/ Quiet(home, own) /\ pc' = "roll_back"
         \/ Grown(home) /\ WriteParent
         \/ Shrunk(home) /\ DeleteEntry
<1>1. CASE WriteParent
  BY <1>1, WriteParentTree
<1>2. CASE DeleteEntry
  BY <1>2, DeleteEntryTree
<1>3. CASE ~WriteParent /\ ~DeleteEntry
  <2>1. Quiet(home, own)
    BY <1>3, NoneStray, TreeSteps, StartCreateTree, StartRemoveTree, StartFailsTree, AllocateTree,
       MirrorUsedTree, WriteNewTree, RollBackTree, RollBackMirrorTree, FreeClusterTree,
       FreeMirrorTree, CrashTree, StutterTree
  <2> QED BY <1>3, <2>1
<1> QED BY <1>1, <1>2, <1>3

LEMMA TreeNext == OrdinaryUse /\ TypeInv /\ TreeInv /\ [Next]_vars => TreeInv'
<1> SUFFICES ASSUME OrdinaryUse, TypeInv, TreeInv, [Next]_vars PROVE TreeInv'
  OBVIOUS
<1>1. PICK home, own, dy : TreeHolds(home, own, dy)
  BY DEF TreeInv
<1>2. Quiet(home, own) \/ Grown(home) \/ Shrunk(home)
  BY <1>1, TreeStep
<1>3. \E h, o, d : TreeHolds(h, o, d)'
  BY <1>2 DEF Quiet, Grown, Shrunk
<1> QED BY <1>3 DEF TreeInv

LEMMA TreeInit == OrdinaryUse /\ Init => TreeInv
<1> SUFFICES ASSUME OrdinaryUse, Init PROVE TreeInv
  OBVIOUS
<1>1. PICK v \in Images : fat = v.fat /\ mirror = v.fat /\ data = v.data
  BY DEF Init
<1>2. WellFormed(v)
  BY DEF OrdinaryUse
<1>3. PICK home, own : IsTree(v.fat, v.data, home, own, NOBODY)
  BY <1>2 DEF WellFormed
<1>4. pc = "idle" /\ torn = {}
  BY DEF Init
<1>5. Resting(home, NOBODY)
  BY <1>4 DEF Resting
<1>6. Steady(home, own, NOBODY)
  BY <1>4, <1>5 DEF Steady, Creating, Freeing
<1> QED BY <1>1, <1>3, <1>6 DEF TreeInv, TreeHolds

(* A chain stays with the entry it starts at.                                *)
LEMMA ChainOwned ==
  ASSUME fat \in Fats, NEW home, NEW own, Ownership(fat, data, home, own),
         NEW c \in Index, c # NONE => own[c] # NOBODY
  PROVE  \A x \in Chain(c) : x \in Index /\ c # NONE /\ own[x] = own[c]
<1>0. LastCluster \in Nat
  BY Constants
<1>1. PICK g : IsChain(LastCluster, g) /\ Chain(c) = g[LastCluster][c]
  BY ChainIs
<1> DEFINE Held(k, d) == \A x \in g[k][d] : x \in Index /\ d # NONE /\ own[x] = own[d]
           S == {k \in Nat : k <= LastCluster => \A d \in Index : (d # NONE => own[d] # NOBODY) => Held(k, d)}
<1>2. ASSUME NEW k \in 0..LastCluster, NEW d \in Index
      PROVE  g[k][d] = IF d = NONE THEN {} ELSE {d} \union IF k = 0 THEN {} ELSE g[k - 1][NextCluster(d)]
  BY <1>1 DEF IsChain
<1>3. 0 \in S
  <2>1. 0 \in 0..LastCluster
    BY <1>0
  <2>2. \A d \in Index : g[0][d] \subseteq {d} /\ (d = NONE => g[0][d] = {})
    BY <1>2, <2>1
  <2> QED BY <2>2
<1>4. ASSUME NEW k \in S PROVE k + 1 \in S
  <2> SUFFICES ASSUME k + 1 <= LastCluster, NEW d \in Index, d # NONE => own[d] # NOBODY PROVE Held(k + 1, d)
    OBVIOUS
  <2>1. k + 1 \in 0..LastCluster /\ k + 1 # 0 /\ (k + 1) - 1 = k /\ k <= LastCluster
    BY <1>0
  <2> DEFINE e == NextCluster(d)
  <2>2. e \in Index /\ e = After(fat, d)
    BY NextClusterTyped DEF NextCluster, After
  <2> HIDE DEF e
  <2>3. CASE d = NONE
    <3>1. g[k + 1][d] = {}
      BY <1>2, <2>1, <2>3
    <3> QED BY <3>1
  <2>4. CASE d # NONE
    <3>1. e # NONE => own[e] = own[d]
      BY <2>2, <2>4 DEF Ownership
    <3>2. Held(k, e)
      BY <2>1, <2>2, <2>4, <3>1
    <3>3. g[k + 1][d] = {d} \union g[k][e]
      <4>1. g[k + 1][d] = IF d = NONE THEN {} ELSE {d} \union IF k + 1 = 0 THEN {} ELSE g[(k + 1) - 1][NextCluster(d)]
        BY <1>2, <2>1
      <4> QED BY <2>1, <2>4, <4>1 DEF e
    <3> QED BY <2>4, <3>1, <3>2, <3>3
  <2> QED BY <2>3, <2>4
<1>5. LastCluster \in S
  <2>1. S \in SUBSET Nat
    OBVIOUS
  <2> HIDE DEF S
  <2>2. S = Nat
    BY <1>3, <1>4, <2>1, SetInduction
  <2> QED BY <1>0, <2>2
<1>6. Held(LastCluster, c)
  BY <1>0, <1>5
<1> QED BY <1>1, <1>6

LEMMA TreeInvSound ==
  ASSUME OrdinaryUse, TypeInv, TreeInv
  PROVE  TreeSound
<1>1. PICK home, own, dy : TreeHolds(home, own, dy)
  BY DEF TreeInv
<1>2. /\ EmptyNames /\ fat \in Fats /\ data \in [Index -> Cluster]
      /\ Directories(data, home) /\ Linked(data, home, own)
      /\ Ownership(fat, data, home, own) /\ Used(fat, own, dy)
  BY <1>1, TreeParts
<1>3. All = PathsOf(data, home, Entries)
  BY <1>2, ExistingAre DEF All
<1>4. ASSUME NEW p \in All
      PROVE  \E e \in Ids(data, home) : PathOf(data, home, e) = p /\ Stands(home, p, e)
                                        /\ \A x \in ClustersOf(p) : x \in Index /\ own[x] = e
  <2>1. PICK e \in Ids(data, home) : p \in Paths /\ PathOf(data, home, e) = p
    BY <1>3 DEF PathsOf
  <2>2. Stands(home, p, e)
    BY <1>2, <2>1, EntryStands
  <2>3. EntryOf(p) = At(data, e)
    BY <2>2 DEF Stands
  <2> DEFINE c == EntryOf(p).cluster
  <2>4. c \in Index /\ (c # NONE => own[c] = e)
    BY <1>2, <2>3, IdTyped DEF Ownership
  <2>5. e # NOBODY
    BY <1>2, IdIs
  <2>6. ClustersOf(p) = Chain(c)
    BY DEF ClustersOf
  <2> HIDE DEF c
  <2>7. \A x \in Chain(c) : x \in Index /\ c # NONE /\ own[x] = own[c]
    BY <1>2, <2>4, <2>5, ChainOwned
  <2> QED BY <2>1, <2>2, <2>4, <2>6, <2>7
<1>5. ASSUME NEW p \in All PROVE Root \notin ClustersOf(p)
  <2>1. PICK e \in Ids(data, home) : \A x \in ClustersOf(p) : own[x] = e
    BY <1>4
  <2>2. e # THEROOT
    BY <1>2, IdIs
  <2> QED BY <1>2, <2>1, <2>2 DEF Ownership
<1>6. ASSUME NEW p \in All, ~Dying(p), NEW c \in ClustersOf(p) PROVE fat[c] # FREE
  <2>1. PICK e \in Ids(data, home) : PathOf(data, home, e) = p /\ c \in Index /\ own[c] = e
    BY <1>4
  <2>2. e # NOBODY
    BY <1>2, IdIs
  <2>3. SUFFICES ASSUME e = dy PROVE FALSE
    BY <1>2, <2>1, <2>2 DEF Used
  <2>4. Steady(home, own, dy)
    BY <1>1 DEF TreeHolds
  <2>5. CASE pc = "idle"
    <3>1. torn = {p}
      BY <2>1, <2>2, <2>3, <2>4, <2>5 DEF Steady, Resting
    <3> QED BY <1>6, <3>1 DEF Dying
  <2>6. CASE Freeing
    <3>1. op.path = p
      BY <2>1, <2>3, <2>4, <2>6 DEF Steady, Removing
    <3> QED BY <1>6, <2>6, <3>1 DEF Dying, Freeing
  <2>7. CASE Creating
    <3>1. dy = NOBODY
      BY <2>4, <2>7 DEF Steady, Making
    <3> QED BY <2>2, <2>3, <3>1
  <2>8. pc = "idle" \/ Freeing \/ Creating
    <3>1. pc \in Labels
      BY DEF TypeInv, ResultTyped
    <3> QED BY <3>1 DEF Labels, Freeing, Creating
  <2> QED BY <2>5, <2>6, <2>7, <2>8
<1>7. ASSUME NEW p \in All, NEW q \in All, p # q, NEW c \in ClustersOf(p), c \in ClustersOf(q)
      PROVE  FALSE
  <2>1. PICK e \in Ids(data, home) : PathOf(data, home, e) = p /\ own[c] = e
    BY <1>4
  <2>2. PICK g \in Ids(data, home) : PathOf(data, home, g) = q /\ own[c] = g
    BY <1>4, <1>7
  <2> QED BY <1>7, <2>1, <2>2
<1> DEFINE clusters == [p \in All |-> ClustersOf(p)]
<1>8. \A p \in All : clusters[p] = ClustersOf(p)
  OBVIOUS
<1>9. DOMAIN clusters = All
  OBVIOUS
<1> HIDE DEF clusters
<1>10. \A p \in DOMAIN clusters :
         /\ Root \notin clusters[p]
         /\ ~Dying(p) => \A c \in clusters[p] : fat[c] # FREE
         /\ \A q \in DOMAIN clusters : p # q => clusters[p] \intersect clusters[q] = {}
  BY <1>5, <1>6, <1>7, <1>8, <1>9
<1> QED BY <1>10 DEF TreeSound, clusters

(* On every volume that holds a tree, no two paths share a cluster, none     *)
(* holds the root's, and no cluster of a path that is not being removed can  *)
(* be allocated again, wherever power is lost and whichever reads fail, for  *)
(* callers who do a removal that power cut over again before anything else:  *)
(* for others the clusters it freed can come to belong to two.               *)
THEOREM Fat32TreeSound == ASSUME OrdinaryUse PROVE Spec => []TreeSound
<1>1. Init => TypeInv /\ TreeInv
  BY TypeInit, TreeInit
<1>2. TypeInv /\ TreeInv /\ [Next]_vars => (TypeInv /\ TreeInv)'
  BY TypeNext, TreeNext
<1>3. TypeInv /\ TreeInv => TreeSound
  BY TreeInvSound
<1> QED BY <1>1, <1>2, <1>3, PTL DEF Spec

-----------------------------------------------------------------------------
(* What callers see.                                                         *)
Seen == \A home, own : Directories(data, home) /\ Linked(data, home, own) =>
          \A kinds \in SUBSET Entries : Existing(kinds) = PathsOf(data, home, kinds)

LEMMA SeenNow == OrdinaryUse => Seen
BY ExistingAre DEF Seen

LEMMA SeenNext ==
  ASSUME OrdinaryUse
  PROVE  Seen'
<1>1. Seen
  BY SeenNow
<1> QED BY <1>1, PTL

(* Before a step, and after it.                                              *)
LEMMA ViewOfTree ==
  ASSUME OrdinaryUse, NEW home, NEW own, NEW dy, TreeHolds(home, own, dy), NEW kinds \in SUBSET Entries
  PROVE  Existing(kinds) = PathsOf(data, home, kinds)
BY ExistingAre DEF TreeHolds, IsTree

LEMMA NewViewOfTree ==
  ASSUME OrdinaryUse, NEW home, NEW own, NEW dy, TreeHolds(home, own, dy)', NEW kinds \in SUBSET Entries
  PROVE  Existing(kinds)' = PathsOf(data', home, kinds)
<1>1. Directories(data', home) /\ Linked(data', home, own)
  BY DEF TreeHolds, IsTree
<1>2. Seen'
  BY SeenNext
<1> QED BY <1>1, <1>2 DEF Seen

LEMMA QuietView ==
  ASSUME OrdinaryUse, NEW home, NEW own, NEW dy, TreeHolds(home, own, dy), Quiet(home, own),
         NEW kinds \in SUBSET Entries
  PROVE  Existing(kinds)' = Existing(kinds)
<1>1. PICK d : TreeHolds(home, own, d)'
  BY DEF Quiet
<1>2. Existing(kinds) = PathsOf(data, home, kinds) /\ Existing(kinds)' = PathsOf(data', home, kinds)
  BY <1>1, ViewOfTree, NewViewOfTree
<1>3. IsTree(fat, data, home, own, dy) /\ \A x \in DOMAIN home : data'[x] = data[x]
  BY DEF TreeHolds, Quiet
<1>4. /\ Ids(data', home) = Ids(data, home)
      /\ \A e \in Ids(data, home) : At(data', e) = At(data, e) /\ PathOf(data', home, e) = PathOf(data, home, e)
  <2>1. \A e \in (DOMAIN home) \X (1..Slots) : At(data', e) = At(data, e)
    BY <1>3 DEF At
  <2>2. Ids(data', home) = Ids(data, home)
    BY <2>1 DEF Ids
  <2> QED BY <2>1, <2>2 DEF Ids, PathOf
<1>5. PathsOf(data', home, kinds) = PathsOf(data, home, kinds)
  BY <1>4 DEF PathsOf
<1> QED BY <1>2, <1>5

LEMMA GrownView ==
  ASSUME OrdinaryUse, NEW home, NEW own, NEW dy, TreeHolds(home, own, dy), Grown(home), op.path \in Paths
  PROVE  /\ \A kinds \in SUBSET Entries :
              Existing(kinds)' = Existing(kinds)
                \union {p \in {op.path} : (IF op.call = "mkdir" THEN "dir" ELSE "file") \in kinds}
         /\ \A kinds \in SUBSET Entries : op.path \notin Existing(kinds)
<1> DEFINE kind == IF op.call = "mkdir" THEN "dir" ELSE "file"
<1>1. PICK h, o, e : /\ TreeHolds(h, o, NOBODY)' /\ EntryMore(data, home, data', h, e)
                     /\ At(data', e).kind = kind /\ PathOf(data', h, e) = op.path
  BY DEF Grown
<1> HIDE DEF kind
<1>2. /\ e \notin Ids(data, home) /\ Ids(data', h) = Ids(data, home) \union {e}
      /\ \A g \in Ids(data, home) : At(data', g) = At(data, g) /\ PathOf(data', h, g) = PathOf(data, home, g)
  BY <1>1 DEF EntryMore
<1>3. \A kinds \in SUBSET Entries :
        Existing(kinds) = PathsOf(data, home, kinds) /\ Existing(kinds)' = PathsOf(data', h, kinds)
  BY <1>1, ViewOfTree, NewViewOfTree
<1>4. ASSUME NEW kinds \in SUBSET Entries
      PROVE  PathsOf(data', h, kinds) = PathsOf(data, home, kinds) \union {p \in {op.path} : kind \in kinds}
  <2>1. ASSUME NEW p \in PathsOf(data', h, kinds)
        PROVE  p \in PathsOf(data, home, kinds) \union {q \in {op.path} : kind \in kinds}
    <3>1. PICK g \in Ids(data', h) : At(data', g).kind \in kinds /\ PathOf(data', h, g) = p /\ p \in Paths
      BY DEF PathsOf
    <3>2. CASE g = e
      BY <1>1, <3>1, <3>2
    <3>3. CASE g # e
      <4>1. g \in Ids(data, home) /\ At(data, g).kind \in kinds /\ PathOf(data, home, g) = p
        BY <1>2, <3>1, <3>3
      <4> QED BY <3>1, <4>1 DEF PathsOf
    <3> QED BY <3>2, <3>3
  <2>2. ASSUME NEW p \in PathsOf(data, home, kinds) PROVE p \in PathsOf(data', h, kinds)
    <3>1. PICK g \in Ids(data, home) : At(data, g).kind \in kinds /\ PathOf(data, home, g) = p /\ p \in Paths
      BY DEF PathsOf
    <3>2. g \in Ids(data', h) /\ At(data', g).kind \in kinds /\ PathOf(data', h, g) = p
      BY <1>2, <3>1
    <3> QED BY <3>1, <3>2 DEF PathsOf
  <2>3. kind \in kinds => op.path \in PathsOf(data', h, kinds)
    BY <1>1, <1>2 DEF PathsOf
  <2> QED BY <2>1, <2>2, <2>3
<1>5. ASSUME NEW kinds \in SUBSET Entries, op.path \in PathsOf(data, home, kinds) PROVE FALSE
  <2>1. PICK g \in Ids(data, home) : PathOf(data, home, g) = op.path
    BY <1>5 DEF PathsOf
  <2>2. PathOf(data', h, g) = PathOf(data', h, e) /\ g \in Ids(data', h) /\ e \in Ids(data', h)
    BY <1>1, <1>2, <2>1
  <2>3. Directories(data', h)
    BY <1>1 DEF TreeHolds, IsTree
  <2>4. g = e
    BY <2>2, <2>3, PathsDiffer
  <2> QED BY <1>2, <2>1, <2>4
<1> QED BY <1>3, <1>4, <1>5 DEF kind

LEMMA ShrunkView ==
  ASSUME OrdinaryUse, NEW home, NEW own, NEW dy, TreeHolds(home, own, dy), Shrunk(home)
  PROVE  \A kinds \in SUBSET Entries : Existing(kinds)' = Existing(kinds) \ {op.path}
<1>1. PICK h, o, e : /\ TreeHolds(h, o, NOBODY)' /\ EntryLess(data, home, data', h, e)
                     /\ PathOf(data, home, e) = op.path
  BY DEF Shrunk
<1>2. /\ e \in Ids(data, home) /\ Ids(data', h) = Ids(data, home) \ {e}
      /\ \A g \in Ids(data', h) : At(data', g) = At(data, g) /\ PathOf(data', h, g) = PathOf(data, home, g)
  BY <1>1 DEF EntryLess
<1>3. \A kinds \in SUBSET Entries :
        Existing(kinds) = PathsOf(data, home, kinds) /\ Existing(kinds)' = PathsOf(data', h, kinds)
  BY <1>1, ViewOfTree, NewViewOfTree
<1>4. Directories(data, home)
  BY DEF TreeHolds, IsTree
<1>5. ASSUME NEW kinds \in SUBSET Entries
      PROVE  PathsOf(data', h, kinds) = PathsOf(data, home, kinds) \ {op.path}
  <2>1. ASSUME NEW p \in PathsOf(data', h, kinds) PROVE p \in PathsOf(data, home, kinds) \ {op.path}
    <3>1. PICK g \in Ids(data', h) : At(data', g).kind \in kinds /\ PathOf(data', h, g) = p /\ p \in Paths
      BY DEF PathsOf
    <3>2. g \in Ids(data, home) /\ g # e /\ At(data, g).kind \in kinds /\ PathOf(data, home, g) = p
      BY <1>2, <3>1
    <3>3. p # op.path
      BY <1>1, <1>2, <1>4, <3>2, PathsDiffer
    <3> QED BY <3>1, <3>2, <3>3 DEF PathsOf
  <2>2. ASSUME NEW p \in PathsOf(data, home, kinds), p # op.path PROVE p \in PathsOf(data', h, kinds)
    <3>1. PICK g \in Ids(data, home) : At(data, g).kind \in kinds /\ PathOf(data, home, g) = p /\ p \in Paths
      BY DEF PathsOf
    <3>2. g \in Ids(data', h)
      BY <1>1, <1>2, <2>2, <3>1
    <3>3. At(data', g).kind \in kinds /\ PathOf(data', h, g) = p
      BY <1>2, <3>1, <3>2
    <3> QED BY <3>1, <3>2, <3>3 DEF PathsOf
  <2> QED BY <2>1, <2>2
<1> QED BY <1>3, <1>5

-----------------------------------------------------------------------------
(* What callers are told.                                                    *)
LEMMA OnlyWritesSucceed ==
  ASSUME [Next]_vars, pc # "idle", pc' = "idle", crashes' = crashes, TypeInv,
         ~WriteParent, ~DeleteEntry, ~IntoFat
  PROVE  ret' = -1
<1>1. CASE Allocate \/ RollBack \/ RollBackMirror
  BY <1>1 DEF Allocate, RollBack, RollBackMirror, Goto, Return
<1>2. CASE MirrorUsed
  BY <1>2 DEF MirrorUsed, Goto
<1>3. CASE WriteNew \/ FreeCluster \/ FreeMirror
  BY <1>3 DEF WriteNew, FreeCluster, FreeMirror, Goto
<1>4. ~Crash
  <2>1. crashes + 1 # crashes
    BY DEF TypeInv, CountsTyped
  <2> QED BY <2>1 DEF Crash
<1>5. ~StartFails /\ ~UNCHANGED vars
  BY DEF StartFails, vars
<1>6. \A p, call : ~StartCreate(call, p) /\ ~StartRemove(call, p)
  BY DEF StartCreate, StartRemove
<1> QED BY <1>1, <1>2, <1>3, <1>4, <1>5, <1>6, Steps

Honest ==
  pc # "idle" /\ pc' = "idle" /\ crashes' = crashes =>
    /\ ret' = 0 => (op.path \in All' <=> op.call \in {"mkdir", "create"})
    /\ ret' = -1 => Files' = Files /\ Dirs' = Dirs

LEMMA HonestStep ==
  ASSUME OrdinaryUse, TypeInv, TreeInv, [Next]_vars
  PROVE  Honest
<1> SUFFICES ASSUME pc # "idle", pc' = "idle", crashes' = crashes
             PROVE  /\ ret' = 0 => (op.path \in All' <=> op.call \in {"mkdir", "create"})
                    /\ ret' = -1 => Files' = Files /\ Dirs' = Dirs
  BY DEF Honest
<1>1. PICK home, own, dy : TreeHolds(home, own, dy)
  BY DEF TreeInv
<1>2. op.path \in Paths
  BY DEF TypeInv, Running
<1>3. Entries \in SUBSET Entries /\ {"file"} \in SUBSET Entries /\ {"dir"} \in SUBSET Entries
  BY DEF Entries
<1>4. CASE Quiet(home, own) /\ ~WriteParent /\ ~DeleteEntry
  <2>1. ret' = -1
    BY <1>1, <1>4, NoneStray, OnlyWritesSucceed
  <2>2. Existing({"file"})' = Existing({"file"}) /\ Existing({"dir"})' = Existing({"dir"})
    BY <1>1, <1>3, <1>4, QuietView
  <2> QED BY <2>1, <2>2 DEF Files, Dirs
<1>5. CASE Grown(home)
  <2>1. ret' = 0 /\ op.call \in {"mkdir", "create"}
    BY <1>5 DEF Grown
  <2>2. op.path \in Existing(Entries)'
    <3> DEFINE kind == IF op.call = "mkdir" THEN "dir" ELSE "file"
    <3>1. kind \in Entries
      BY DEF Entries
    <3>2. Existing(Entries)' = Existing(Entries) \union {p \in {op.path} : kind \in Entries}
      BY <1>1, <1>2, <1>3, <1>5, GrownView
    <3> HIDE DEF kind
    <3> QED BY <3>1, <3>2
  <2> QED BY <2>1, <2>2 DEF All
<1>6. CASE Shrunk(home)
  <2>1. ret' = 0 /\ op.call \in {"remove", "rmdir"}
    BY <1>6 DEF Shrunk
  <2>2. op.path \notin Existing(Entries)'
    BY <1>1, <1>3, <1>6, ShrunkView
  <2> QED BY <2>1, <2>2 DEF All
<1> QED BY <1>1, <1>4, <1>5, <1>6, TreeStep

(* On every volume that holds a tree: what returned 0 has happened, and what *)
(* returned -1 has changed nothing that exists.                              *)
THEOREM Fat32ResultsHonest == ASSUME OrdinaryUse PROVE Spec => ResultsHonest
<1>1. Init => TypeInv /\ TreeInv
  BY TypeInit, TreeInit
<1>2. TypeInv /\ TreeInv /\ [Next]_vars => (TypeInv /\ TreeInv)'
  BY TypeNext, TreeNext
<1>3. TypeInv /\ TreeInv /\ [Next]_vars => [Honest]_vars
  BY HonestStep
<1> QED BY <1>1, <1>2, <1>3, PTL DEF Spec, ResultsHonest, Honest

-----------------------------------------------------------------------------
(* What callers see is the abstract tree of names.                           *)
LEMMA ParentStands ==
  ASSUME OrdinaryUse, ParentsNamed, TypeInv, NEW home, NEW own, NEW dy, TreeHolds(home, own, dy), WriteParent
  PROVE  Upper(op.path) \in Dirs \union {<<>>}
<1>1. Placed(home) /\ op.path \in Paths
  BY DEF WriteParent, TreeHolds, Steady, TypeInv, Running
<1>2. EmptyNames /\ Directories(data, home) /\ Linked(data, home, own) /\ data \in [Index -> Cluster]
  BY TreeParts
<1> DEFINE d == op.parent
<1>3. d \in DOMAIN home /\ home[d] = Upper(op.path)
  BY <1>1 DEF Placed
<1>4. CASE d = Root
  BY <1>2, <1>3, <1>4 DEF Directories
<1>5. CASE d # Root
  <2>1. own[d] \in Ids(data, home) /\ At(data, own[d]).kind = "dir" /\ At(data, own[d]).cluster = d
    BY <1>2, <1>3, <1>5 DEF Linked
  <2>2. PathOf(data, home, own[d]) = Upper(op.path)
    BY <1>2, <1>3, <2>1 DEF Linked
  <2>3. Upper(op.path) \in Paths
    <3>1. Upper(op.path) # <<>>
      <4>1. PathOf(data, home, own[d]) \in Seq(Names) /\ Len(PathOf(data, home, own[d])) = Len(home[own[d][1]]) + 1
            /\ Len(home[own[d][1]]) \in Nat
        BY <1>2, <2>1, IdIs
      <4>2. Len(<<>>) = 0
        OBVIOUS
      <4> QED BY <2>2, <4>1, <4>2
    <3>2. Len(op.path) # 1
      <4>1. Upper(op.path) = SubSeq(op.path, 1, Len(op.path) - 1)
        BY <1>1, PathParts
      <4>2. Len(op.path) = 1 => Upper(op.path) = <<>>
        BY <4>1
      <4> QED BY <3>1, <4>2
    <3>3. Len(op.path) \in Nat /\ Len(op.path) >= 1
      BY <1>1, PathParts
    <3> QED BY <1>1, <3>2, <3>3 DEF ParentsNamed
  <2>4. Upper(op.path) \in PathsOf(data, home, {"dir"})
    BY <2>1, <2>2, <2>3 DEF PathsOf
  <2>5. {"dir"} \in SUBSET Entries
    BY DEF Entries
  <2>6. Existing({"dir"}) = PathsOf(data, home, {"dir"})
    BY <2>5, ViewOfTree
  <2> QED BY <2>4, <2>6 DEF Dirs
<1> QED BY <1>4, <1>5

LEMMA WholePart ==
  ASSUME NEW S, NEW s \in Seq(S)
  PROVE  SubSeq(s, 1, Len(s)) = s
OBVIOUS

(* What is being removed has nothing below it.                               *)
LEMMA NothingBelow ==
  ASSUME OrdinaryUse, NEW home, NEW own, NEW dy, TreeHolds(home, own, dy),
         NEW e \in Ids(data, home), Bare(data, home, e), NEW q \in Paths, NEW g \in Ids(data, home),
         PathOf(data, home, g) = q, q # PathOf(data, home, e), TypeInv
  PROVE  ~Callers!IsPrefix(PathOf(data, home, e), q)
<1> DEFINE p == PathOf(data, home, e)
           k == Len(p)
<1> SUFFICES ASSUME Callers!IsPrefix(p, q) PROVE FALSE
  OBVIOUS
<1>1. EmptyNames /\ Directories(data, home) /\ Linked(data, home, own) /\ data \in [Index -> Cluster]
  BY TreeParts
<1>2. p \in Seq(Names) /\ k \in Nat /\ k >= 1 /\ Len(home[e[1]]) \in Nat
  BY <1>1, IdIs
<1>3. /\ q \in Seq(Names) /\ Len(q) \in Nat /\ Upper(q) = SubSeq(q, 1, Len(q) - 1)
      /\ q = Append(Upper(q), Last(q))
  BY PathParts
<1> HIDE DEF p
<1>4. k <= Len(q) /\ SubSeq(p, 1, k) = SubSeq(q, 1, k)
  BY DEF Callers!IsPrefix
<1>5. p = SubSeq(q, 1, k) /\ k < Len(q)
  <2>1. SubSeq(p, 1, k) = p /\ SubSeq(q, 1, Len(q)) = q
    BY <1>2, <1>3, WholePart
  <2>2. p # q
    BY DEF p
  <2> QED BY <1>2, <1>3, <1>4, <2>1, <2>2
<1>6. Stands(home, q, g)
  BY <1>1, EntryStands
<1>7. DirsTo(Walk(q), Len(q) - 1) /\ home[g[1]] = Upper(q)
  BY <1>6 DEF Stands
<1> HIDE DEF k
<1>8. ASSUME NEW m \in 1..(Len(q) - 1)
      PROVE  Walk(q)[m].cluster \in DOMAIN home /\ home[Walk(q)[m].cluster] = SubSeq(q, 1, m)
  <2>1. m \in 0..Len(q) /\ DirsTo(Walk(q), m)
    BY <1>3, <1>7 DEF DirsTo
  <2> QED BY <1>1, <2>1, WalkDown
<1>9. PICK x \in DOMAIN home : home[x] = p
  <2>1. k \in 1..(Len(q) - 1)
    BY <1>2, <1>3, <1>5
  <2> QED BY <1>5, <1>8, <2>1
<1>10. At(data, e).kind = "dir" /\ At(data, e).cluster = x
  <2>1. x # Root
    <3>1. p # <<>>
      <4>1. Len(<<>>) = 0
        OBVIOUS
      <4> QED BY <1>2, <4>1 DEF k
    <3> QED BY <1>1, <1>9, <3>1 DEF Directories
  <2> DEFINE y == own[x]
  <2>2. y \in Ids(data, home) /\ At(data, y).kind = "dir" /\ At(data, y).cluster = x
    BY <1>1, <2>1 DEF Linked
  <2> HIDE DEF y
  <2>3. PathOf(data, home, y) = p
    BY <1>1, <1>9, <2>2 DEF Linked
  <2>4. y = e
    BY <1>1, <2>2, <2>3, PathsDiffer DEF p
  <2> QED BY <2>2, <2>4
<1>11. \A y \in Ids(data, home) : y[1] # x
  BY <1>10 DEF Bare
<1>12. CASE Len(q) = k + 1
  <2>1. Upper(q) = p
    <3>1. Len(q) - 1 = k
      BY <1>2, <1>12
    <3> QED BY <1>3, <1>5, <3>1
  <2>2. g[1] \in DOMAIN home /\ home[g[1]] = home[x]
    BY <1>1, <1>7, <1>9, <2>1, IdIs
  <2>3. g[1] = x
    BY <1>1, <2>2 DEF Directories
  <2> QED BY <1>11, <2>3
<1>13. CASE Len(q) # k + 1
  <2>1. k + 1 \in 1..(Len(q) - 1) /\ k \in Nat /\ k + 1 <= Len(q) /\ k + 1 \in 1..Len(q)
    BY <1>2, <1>3, <1>5, <1>13
  <2> DEFINE m == k + 1
  <2>2. PICK z \in DOMAIN home : home[z] = SubSeq(q, 1, m)
    <3> HIDE DEF m
    <3> QED BY <1>8, <2>1 DEF m
  <2>3. home[z] = Append(p, q[k + 1])
    BY <1>3, <1>5, <2>1, <2>2, PartsGrow
  <2>4. q[k + 1] \in Names
    BY <1>3, <2>1
  <2>5. z # Root
    <3>1. Append(p, q[k + 1]) # <<>>
      BY <1>2, <2>4, AppendProperties
    <3> QED BY <1>1, <2>3, <3>1 DEF Directories
  <2> DEFINE y == own[z]
  <2>6. y \in Ids(data, home) /\ At(data, y).kind = "dir" /\ At(data, y).cluster = z
    BY <1>1, <2>5 DEF Linked
  <2> HIDE DEF y
  <2>7. Append(home[y[1]], At(data, y).name) = Append(p, q[k + 1])
    BY <1>1, <2>3, <2>6 DEF Linked, PathOf
  <2>8. y[1] \in DOMAIN home /\ home[y[1]] \in Seq(Names) /\ At(data, y).name \in Names
    BY <1>1, <2>6, IdIs
  <2>9. home[y[1]] = p
    <3> DEFINE a == At(data, y).name
               b == q[k + 1]
               s == home[y[1]]
    <3>1. /\ Append(s, a) = Append(p, b)
          /\ a \in Names /\ b \in Names /\ s \in Seq(Names) /\ p \in Seq(Names)
      BY <1>2, <2>4, <2>7, <2>8
    <3> HIDE DEF a, b, s
    <3>2. s = p
      BY <3>1, AppendInjective
    <3> QED BY <3>2 DEF s
  <2>10. y[1] = x
    BY <1>1, <1>9, <2>8, <2>9 DEF Directories
  <2> QED BY <1>11, <2>6, <2>10
<1> QED BY <1>12, <1>13

LEMMA ViewsApart == Files \intersect Dirs = {} /\ Files \subseteq Paths /\ Dirs \subseteq Paths /\ All = Files \union Dirs
<1>1. Files \intersect Dirs = {} /\ Files \subseteq Paths /\ Dirs \subseteq Paths
  BY DEF Files, Dirs, Existing
<1>2. All = Files \union Dirs
  BY DEF All, Files, Dirs, Existing, Entries
<1> QED BY <1>1, <1>2

LEMMA NamespaceStep ==
  ASSUME OrdinaryUse, ParentsNamed, TypeInv, TreeInv, [Next]_vars
  PROVE  [Callers!Next]_<<Files, Dirs>>
<1>1. PICK home, own, dy : TreeHolds(home, own, dy)
  BY DEF TreeInv
<1>2. {"file"} \in SUBSET Entries /\ {"dir"} \in SUBSET Entries
  BY DEF Entries
<1>3. Files = Existing({"file"}) /\ Dirs = Existing({"dir"})
  BY DEF Files, Dirs
<1>4. Files' = Existing({"file"})' /\ Dirs' = Existing({"dir"})'
  BY DEF Files, Dirs
<1>5. CASE Quiet(home, own)
  <2>1. Files' = Files /\ Dirs' = Dirs
    BY <1>1, <1>2, <1>3, <1>4, <1>5, QuietView
  <2> QED BY <2>1
<1>6. CASE Grown(home) /\ WriteParent
  <2> DEFINE p == op.path
  <2>1. p \in Paths
    BY <1>6 DEF TypeInv, Running, WriteParent
  <2>2. Upper(p) \in Dirs \union {<<>>}
    BY <1>1, <1>6, ParentStands
  <2>3. p \notin Files \union Dirs
    BY <1>1, <1>2, <1>3, <1>6, <2>1, GrownView
  <2>4. Callers!InADirectory(p)
    BY <2>2 DEF Callers!InADirectory, Callers!Front, Upper
  <2>5. \A kinds \in SUBSET Entries :
          Existing(kinds)' = Existing(kinds)
            \union {q \in {p} : (IF op.call = "mkdir" THEN "dir" ELSE "file") \in kinds}
    BY <1>1, <1>6, <2>1, GrownView
  <2>6. CASE op.call = "mkdir"
    <3>1. Files' = Files /\ Dirs' = Dirs \union {p}
      BY <1>2, <1>3, <1>4, <2>5, <2>6
    <3>2. Callers!AddDir
      BY <2>3, <2>4, <3>1 DEF Callers!AddDir
    <3> QED BY <3>2 DEF Callers!Next
  <2>7. CASE op.call # "mkdir"
    <3>1. Dirs' = Dirs /\ Files' = Files \union {p}
      BY <1>2, <1>3, <1>4, <2>5, <2>7
    <3>2. Callers!AddFile
      BY <2>3, <2>4, <3>1 DEF Callers!AddFile
    <3> QED BY <3>2 DEF Callers!Next
  <2> QED BY <2>6, <2>7
<1>7. CASE Shrunk(home) /\ DeleteEntry
  <2> DEFINE p == op.path
  <2>1. Files' = Files \ {p} /\ Dirs' = Dirs \ {p}
    BY <1>1, <1>2, <1>3, <1>4, <1>7, ShrunkView
  <2>2. PICK e \in Ids(data, home) : PathOf(data, home, e) = p /\ Bare(data, home, e)
    BY <1>7 DEF Shrunk, EntryLess
  <2>3. p \in Paths
    BY <1>7 DEF TypeInv, Running, DeleteEntry
  <2>4. Files \union Dirs = PathsOf(data, home, Entries)
    <3>1. Entries \in SUBSET Entries
      OBVIOUS
    <3>2. All = PathsOf(data, home, Entries)
      BY <1>1, <3>1, ViewOfTree DEF All
    <3> QED BY <3>2, ViewsApart
  <2>5. p \in Files \union Dirs
    <3>1. At(data, e).kind \in Entries
      BY <1>1, <2>2, TreeParts, IdTyped
    <3> QED BY <2>2, <2>3, <2>4, <3>1 DEF PathsOf
  <2>6. ASSUME NEW q \in Files \union Dirs, q # p PROVE ~Callers!IsPrefix(p, q)
    <3>1. PICK g \in Ids(data, home) : PathOf(data, home, g) = q /\ q \in Paths
      BY <2>4 DEF PathsOf
    <3> QED BY <1>1, <2>2, <2>6, <3>1, NothingBelow
  <2>7. p \notin Files' \union Dirs'
    BY <2>1
  <2>8. Callers!Delete
    BY <2>1, <2>5, <2>6, <2>7 DEF Callers!Delete
  <2> QED BY <2>8 DEF Callers!Next
<1> QED BY <1>1, <1>5, <1>6, <1>7, TreeStep

(* On every volume that holds a tree: callers see mkdir, create, remove and  *)
(* rmdir take effect at once, on their own path, or not at all, whichever    *)
(* reads fail and wherever power is lost between the writes.                 *)
THEOREM Fat32ImplementsNamespace ==
  ASSUME OrdinaryUse, ParentsNamed
  PROVE  Spec => ImplementsNamespace
<1>1. Init => TypeInv /\ TreeInv
  BY TypeInit, TreeInit
<1>2. TypeInv /\ TreeInv /\ [Next]_vars => (TypeInv /\ TreeInv)'
  BY TypeNext, TreeNext
<1>3. Init => Callers!Init
  BY ViewsApart DEF Callers!Init
<1>4. TypeInv /\ TreeInv /\ [Next]_vars => [Callers!Next]_<<Files, Dirs>>
  BY NamespaceStep
<1> QED BY <1>1, <1>2, <1>3, <1>4, PTL DEF Spec, ImplementsNamespace, Callers!Spec

-----------------------------------------------------------------------------
(* Where the links of the FAT lead.                                          *)
LEMMA FromStart ==
  ASSUME NEW f, NEW c \in Index, c # NONE
  PROVE  c \in From(f, c)
BY DEF From

(* What is reached from c, but c, is reached from the cluster after it.      *)
LEMMA FromOn ==
  ASSUME NEW f, NEW c \in Index, NEW x \in From(f, c), x # c
  PROVE  After(f, c) # NONE
<1> SUFFICES ASSUME After(f, c) = NONE PROVE FALSE
  OBVIOUS
<1>1. Closed(f, {c}) /\ {c} \in SUBSET Index
  BY DEF Closed
<1>2. c # NONE
  BY DEF From
<1> QED BY <1>1, <1>2 DEF From

(* As long as a set that the links do not leave keeps its links.             *)
LEMMA FromKept ==
  ASSUME NEW f, NEW g, NEW S \in SUBSET Index, Closed(f, S), NEW c \in S,
         \A x \in S : After(g, x) = After(f, x)
  PROVE  From(f, c) \subseteq From(g, c)
<1> SUFFICES ASSUME NEW x \in From(f, c) PROVE x \in From(g, c)
  OBVIOUS
<1>1. c # NONE /\ x \in Index
  BY DEF From
<1>2. ASSUME NEW T \in SUBSET Index, c \in T, Closed(g, T) PROVE x \in T
  <2> DEFINE U == T \intersect S
  <2>1. Closed(f, U)
    BY <1>2 DEF Closed
  <2>2. U \in SUBSET Index /\ c \in U
    BY <1>2
  <2> HIDE DEF U
  <2>3. x \in U
    BY <1>1, <2>1, <2>2 DEF From
  <2> QED BY <2>3 DEF U
<1> QED BY <1>1, <1>2 DEF From

LEMMA FromSame ==
  ASSUME NEW f \in Fats, NEW g, \A x \in Index : After(g, x) = After(f, x), NEW c \in Index
  PROVE  From(f, c) \subseteq From(g, c)
<1>1. Closed(f, Index)
  BY AfterTyped DEF Closed
<1> QED BY <1>1, FromKept

(* The first cluster of a chain is cleared.                                  *)
LEMMA FromCleared ==
  ASSUME NEW f \in Fats, NEW c \in Index, NEW g, g = [f EXCEPT ![c] = FREE],
         NEW x \in From(f, c), x # c
  PROVE  After(f, c) # NONE /\ x \in From(g, After(f, c))
<1> DEFINE n == After(f, c)
<1>1. n # NONE /\ n \in Index /\ x \in Index /\ c # NONE
  BY FromOn, AfterTyped DEF From
<1>2. \A y \in Index : y # c => After(g, y) = After(f, y)
  BY DEF After, Fats
<1> HIDE DEF n
<1>3. ASSUME NEW T \in SUBSET Index, n \in T, Closed(g, T) PROVE x \in T
  <2> DEFINE U == T \union {c}
  <2>1. Closed(f, U)
    <3> SUFFICES ASSUME NEW y \in U, After(f, y) # NONE PROVE After(f, y) \in U
      BY DEF Closed
    <3>1. CASE y = c
      BY <1>3, <3>1 DEF n
    <3>2. CASE y # c
      <4>1. y \in T /\ y \in Index /\ After(g, y) = After(f, y)
        BY <1>2, <3>2
      <4> QED BY <1>3, <4>1 DEF Closed
    <3> QED BY <3>1, <3>2
  <2>2. U \in SUBSET Index /\ c \in U
    OBVIOUS
  <2> HIDE DEF U
  <2>3. x \in U
    BY <1>1, <2>1, <2>2 DEF From
  <2> QED BY <2>3 DEF U
<1>4. x \in From(g, n)
  BY <1>1, <1>3 DEF From
<1> QED BY <1>1, <1>4 DEF n

(* The rows of Chain, each with one link more than the one before it.        *)
LEMMA RowOf ==
  ASSUME fat \in Fats, NEW g, IsChain(LastCluster, g), NEW d \in Index, d # NONE
  PROVE  /\ g[0][d] = {d}
         /\ \A k \in Nat : k + 1 <= LastCluster => g[k + 1][d] = {d} \union g[k][After(fat, d)]
         /\ \A k \in 0..LastCluster : g[k][NONE] = {} /\ d \in g[k][d]
<1>0. LastCluster \in Nat /\ NONE \in Index
  BY Constants
<1>1. ASSUME NEW k \in 0..LastCluster, NEW e \in Index
      PROVE  g[k][e] = IF e = NONE THEN {} ELSE {e} \union IF k = 0 THEN {} ELSE g[k - 1][NextCluster(e)]
  BY DEF IsChain
<1>2. NextCluster(d) = After(fat, d)
  BY DEF NextCluster, After
<1>3. g[0][d] = {d}
  <2>1. 0 \in 0..LastCluster
    BY <1>0
  <2> QED BY <1>1, <2>1
<1>4. ASSUME NEW k \in Nat, k + 1 <= LastCluster PROVE g[k + 1][d] = {d} \union g[k][After(fat, d)]
  <2>1. k + 1 \in 0..LastCluster /\ k + 1 # 0 /\ (k + 1) - 1 = k
    BY <1>0, <1>4
  <2>2. g[k + 1][d] = {d} \union IF k + 1 = 0 THEN {} ELSE g[(k + 1) - 1][NextCluster(d)]
    BY <1>1, <2>1
  <2> QED BY <1>2, <2>1, <2>2
<1>5. ASSUME NEW k \in 0..LastCluster PROVE g[k][NONE] = {} /\ d \in g[k][d]
  BY <1>0, <1>1
<1> QED BY <1>3, <1>4, <1>5

LEMMA RowsLead ==
  ASSUME fat \in Fats, NEW g, IsChain(LastCluster, g), NEW k \in Nat, k + 1 <= LastCluster,
         NEW d \in Index, d # NONE
  PROVE  /\ g[k][d] \subseteq g[k + 1][d]
         /\ \A x \in g[k][d] : After(fat, x) # NONE => After(fat, x) \in g[k + 1][d]
         /\ \A y \in g[k + 1][d] : y = d \/ \E x \in g[k][d] : After(fat, x) = y
         /\ g[k + 1][d] \subseteq Index \ {NONE}
<1>0. LastCluster \in Nat
  BY Constants
<1> DEFINE Leads(m, e) ==
             /\ g[m][e] \subseteq g[m + 1][e]
             /\ \A x \in g[m][e] : After(fat, x) # NONE => After(fat, x) \in g[m + 1][e]
             /\ \A y \in g[m + 1][e] : y = e \/ \E x \in g[m][e] : After(fat, x) = y
             /\ g[m + 1][e] \subseteq Index \ {NONE}
           S == {m \in Nat : m + 1 <= LastCluster => \A e \in Index \ {NONE} : Leads(m, e)}
<1>1. ASSUME NEW e \in Index \ {NONE}
      PROVE  /\ g[0][e] = {e} /\ After(fat, e) \in Index
             /\ \A m \in Nat : m + 1 <= LastCluster => g[m + 1][e] = {e} \union g[m][After(fat, e)]
             /\ \A m \in 0..LastCluster : g[m][NONE] = {} /\ e \in g[m][e]
  BY RowOf, AfterTyped
<1>2. 0 \in S
  <2> SUFFICES ASSUME 0 + 1 <= LastCluster, NEW e \in Index \ {NONE} PROVE Leads(0, e)
    OBVIOUS
  <2>1. g[0][e] = {e} /\ g[0 + 1][e] = {e} \union g[0][After(fat, e)]
    BY <1>1
  <2>2. g[0][After(fat, e)] = {After(fat, e)} \ {NONE}
    <3>1. CASE After(fat, e) = NONE
      <4>1. 0 \in 0..LastCluster
        BY <1>0
      <4> QED BY <1>1, <3>1, <4>1
    <3>2. CASE After(fat, e) # NONE
      BY <1>1, <3>2
    <3> QED BY <3>1, <3>2
  <2>3. After(fat, e) \in Index
    BY <1>1
  <2> QED BY <2>1, <2>2, <2>3
<1>3. ASSUME NEW m \in S PROVE m + 1 \in S
  <2> SUFFICES ASSUME (m + 1) + 1 <= LastCluster, NEW e \in Index \ {NONE} PROVE Leads(m + 1, e)
    OBVIOUS
  <2>1. m \in Nat /\ m + 1 \in Nat /\ m + 1 <= LastCluster /\ m \in 0..LastCluster /\ m + 1 \in 0..LastCluster
        /\ (m + 1) + 1 \in 0..LastCluster
    BY <1>0
  <2> DEFINE n == After(fat, e)
  <2>2. /\ g[m + 1][e] = {e} \union g[m][n] /\ g[(m + 1) + 1][e] = {e} \union g[m + 1][n]
        /\ n \in Index /\ e \in g[m + 1][e]
    BY <1>1, <2>1
  <2>3. n = NONE => g[m][n] = {} /\ g[m + 1][n] = {}
    BY <1>1, <2>1
  <2>4. n # NONE => Leads(m, n) /\ n \in g[m + 1][n]
    BY <1>1, <2>1, <2>2
  <2>5. ASSUME NEW x \in g[m + 1][e], After(fat, x) # NONE PROVE After(fat, x) \in g[(m + 1) + 1][e]
    <3>1. CASE x = e
      BY <2>2, <2>4, <2>5, <3>1
    <3>2. CASE x # e
      <4>1. x \in g[m][n] /\ n # NONE
        BY <2>2, <2>3, <3>2
      <4>2. After(fat, x) \in g[m + 1][n]
        BY <2>4, <2>5, <4>1
      <4> QED BY <2>2, <4>2
    <3> QED BY <3>1, <3>2
  <2>6. ASSUME NEW y \in g[(m + 1) + 1][e], y # e PROVE \E x \in g[m + 1][e] : After(fat, x) = y
    <3>1. y \in g[m + 1][n] /\ n # NONE
      BY <2>2, <2>3, <2>6
    <3>2. CASE y = n
      BY <2>2, <3>2
    <3>3. CASE y # n
      <4>1. PICK x \in g[m][n] : After(fat, x) = y
        BY <2>4, <3>1, <3>3
      <4> QED BY <2>2, <4>1
    <3> QED BY <3>2, <3>3
  <2>7. g[m + 1][e] \subseteq g[(m + 1) + 1][e]
    BY <2>2, <2>3, <2>4
  <2>8. g[(m + 1) + 1][e] \subseteq Index \ {NONE}
    BY <2>2, <2>3, <2>4
  <2> HIDE DEF n
  <2> QED BY <2>5, <2>6, <2>7, <2>8
<1>4. S = Nat
  <2>1. S \in SUBSET Nat
    OBVIOUS
  <2> HIDE DEF S
  <2> QED BY <1>2, <1>3, <2>1, SetInduction
<1>5. Leads(k, d)
  BY <1>4
<1> QED BY <1>5

(* Chain goes far enough: it ends where the links do.                        *)
LEMMA ChainClosed ==
  ASSUME fat \in Fats, NEW c \in Index, c # NONE
  PROVE  c \in Chain(c) /\ Chain(c) \in SUBSET Index /\ Closed(fat, Chain(c))
<1>0. LastCluster \in Nat /\ LastCluster \in 0..LastCluster
  BY Constants
<1>1. PICK g : IsChain(LastCluster, g) /\ Chain(c) = g[LastCluster][c]
  BY ChainIs
<1> DEFINE A(k) == g[k][c]
           Far(k) == /\ A(k) \subseteq Index \ {NONE} /\ c \in A(k)
                     /\ Closed(fat, A(k)) \/ Cardinality(A(k)) >= k + 1
           S == {k \in Nat : k <= LastCluster => Far(k)}
<1>2. \A k \in 0..LastCluster : c \in A(k)
  BY <1>1, RowOf
<1>3. 0 \in S
  <2>1. A(0) = {c}
    BY <1>1, RowOf
  <2>2. Cardinality({c}) = 1
    BY FS_Singleton
  <2> QED BY <2>1, <2>2
<1>4. ASSUME NEW k \in S PROVE k + 1 \in S
  <2> SUFFICES ASSUME k + 1 <= LastCluster PROVE Far(k + 1)
    OBVIOUS
  <2>1. k \in Nat /\ k <= LastCluster /\ Far(k) /\ k + 1 \in 0..LastCluster
    BY <1>0
  <2>2. /\ A(k) \subseteq A(k + 1)
        /\ \A x \in A(k) : After(fat, x) # NONE => After(fat, x) \in A(k + 1)
        /\ \A y \in A(k + 1) : y = c \/ \E x \in A(k) : After(fat, x) = y
        /\ A(k + 1) \subseteq Index \ {NONE}
    BY <1>1, RowsLead
  <2>3. c \in A(k + 1)
    BY <1>2, <2>1
  <2> DEFINE B == A(k)
             D == A(k + 1)
  <2>4. /\ B \subseteq D /\ D \subseteq Index \ {NONE} /\ c \in B
        /\ \A x \in B : After(fat, x) # NONE => After(fat, x) \in D
        /\ \A y \in D : y = c \/ \E x \in B : After(fat, x) = y
        /\ Closed(fat, B) \/ Cardinality(B) >= k + 1
    BY <2>1, <2>2
  <2> HIDE DEF B, D
  <2>5. CASE Closed(fat, B)
    <3>1. D = B
      BY <2>4, <2>5 DEF Closed
    <3> QED BY <2>3, <2>4, <2>5, <3>1 DEF B, D
  <2>6. CASE ~Closed(fat, B)
    <3>1. PICK x \in B : After(fat, x) # NONE /\ After(fat, x) \notin B
      BY <2>6 DEF Closed
    <3> DEFINE n == After(fat, x)
    <3>2. n \in D /\ n \notin B
      BY <2>4, <3>1
    <3> HIDE DEF n
    <3>3. IsFiniteSet(D) /\ IsFiniteSet(B)
      <4>1. IsFiniteSet(0..LastCluster)
        BY <1>0, FS_Interval
      <4> QED BY <2>4, <4>1, FS_Subset DEF Index
    <3>4. IsFiniteSet(B \union {n}) /\ Cardinality(B \union {n}) = Cardinality(B) + 1
      BY <3>2, <3>3, FS_AddElement
    <3>5. B \union {n} \subseteq D
      BY <2>4, <3>2
    <3>6. Cardinality(B \union {n}) <= Cardinality(D)
      BY <3>3, <3>5, FS_Subset
    <3>7. Cardinality(B) \in Nat /\ Cardinality(D) \in Nat
      BY <3>3, FS_CardinalityType
    <3>8. Cardinality(D) >= (k + 1) + 1
      BY <2>1, <2>4, <2>6, <3>4, <3>6, <3>7
    <3> QED BY <2>3, <2>4, <3>8 DEF D
  <2> QED BY <2>5, <2>6
<1>5. Far(LastCluster)
  <2>1. S \in SUBSET Nat
    OBVIOUS
  <2> HIDE DEF S
  <2>2. S = Nat
    BY <1>3, <1>4, <2>1, SetInduction
  <2>3. LastCluster \in S
    BY <1>0, <2>2
  <2> QED BY <1>0, <2>3 DEF S
<1>6. Cardinality(A(LastCluster)) <= LastCluster /\ Cardinality(A(LastCluster)) \in Nat
  <2>1. Index \ {NONE} = 1..LastCluster
    BY <1>0 DEF Index, NONE
  <2>2. IsFiniteSet(1..LastCluster) /\ Cardinality(1..LastCluster) = LastCluster
    <3>1. 1 \in Int /\ LastCluster \in Int
      BY <1>0
    <3>2. Cardinality(1..LastCluster) = IF 1 > LastCluster THEN 0 ELSE LastCluster - 1 + 1
      BY <3>1, FS_Interval
    <3> QED BY <1>0, <3>1, <3>2, FS_Interval
  <2> DEFINE B == A(LastCluster)
  <2>3. B \subseteq 1..LastCluster
    BY <1>5, <2>1
  <2> HIDE DEF B
  <2>4. IsFiniteSet(B) /\ Cardinality(B) <= Cardinality(1..LastCluster)
    BY <2>2, <2>3, FS_Subset
  <2> QED BY <2>2, <2>4, FS_CardinalityType DEF B
<1>7. Closed(fat, A(LastCluster))
  BY <1>0, <1>5, <1>6
<1> QED BY <1>1, <1>5, <1>7

LEMMA FromInChain ==
  ASSUME fat \in Fats, NEW c \in Index
  PROVE  From(fat, c) \subseteq Chain(c)
<1>1. CASE c = NONE
  BY <1>1 DEF From
<1>2. CASE c # NONE
  <2>1. c \in Chain(c) /\ Chain(c) \in SUBSET Index /\ Closed(fat, Chain(c))
    BY <1>2, ChainClosed
  <2> QED BY <1>2, <2>1 DEF From
<1> QED BY <1>1, <1>2

-----------------------------------------------------------------------------
(* What every used cluster is there for.                                     *)

(* The entry being removed, and what still has an entry that stays.          *)
Doomed == IF Freeing THEN <<op.parent, op.slot>> ELSE NOBODY
Belongs(home, c) ==
  \/ c \in From(fat, Root)
  \/ \E e \in Ids(data, home) : e # Doomed /\ c \in From(fat, At(data, e).cluster)

(* What the running operation has in hand: a cluster it has taken, or the    *)
(* rest of the chain it gives back.                                          *)
InHand(c) ==
  \/ pc \in {"mirror_used", "write_new", "write_parent", "roll_back"} /\ c = op.new
  \/ pc = "free" /\ c \in From(fat, op.cluster)
  \/ pc = "free_mirror" /\ c \in From(fat, op.next)

Accounted(home, lost) ==
  \A c \in Index : c > Root /\ fat[c] # FREE => c \in lost \/ Belongs(home, c) \/ InHand(c)

(* Where chains are short, all but the first cluster of one is one cluster.  *)
ShortNow ==
  /\ \A c \in Index : After(fat, After(fat, c)) = NONE
  /\ pc = "free" => op.cluster = At(data, Doomed).cluster \/ After(fat, op.cluster) = NONE
  /\ pc = "free_mirror" => After(fat, op.next) = NONE

AllNamed(home) == \A e \in Ids(data, home) : PathOf(data, home, e) \in Paths
LittleLost(home) ==
  faults = 0 /\ (crashes = 0 \/ ShortVolumes) =>
    \E lost \in SUBSET Index : Cardinality(lost) <= crashes /\ Accounted(home, lost)

Kept(home) == AllNamed(home) /\ (ShortVolumes => ShortNow) /\ LittleLost(home)

(* A step clears an entry of the FAT, ends a chain with it, or leaves it.    *)
FatMoves == fat' = fat \/ \E x \in Index, v \in {FREE, EOC} : fat' = [fat EXCEPT ![x] = v]

LEMMA FatWrites ==
  ASSUME TypeInv, [Next]_vars, ~IntoFat
  PROVE  FatMoves
<1>1. /\ op \in Frame /\ op.new \in Index /\ op.cluster \in Index
  BY DEF TypeInv, ResultTyped, Frame
<1>2. CASE Allocate
  <2>1. CASE \E c \in Index, w \in ReadWriteOutcomes : fat' = Put(fat, c, EOC, w)
    BY <2>1 DEF Put, FatMoves
  <2>2. fat' = fat \/ \E c \in Index, w \in ReadWriteOutcomes : fat' = Put(fat, c, EOC, w)
    BY <1>2, AllocateIs
  <2> QED BY <2>1, <2>2 DEF FatMoves
<1>3. CASE RollBack
  <2>1. PICK w \in ReadWriteOutcomes : fat' = Put(fat, op.new, FREE, w)
    BY <1>3 DEF RollBack
  <2> QED BY <1>1, <2>1 DEF Put, FatMoves
<1>4. CASE FreeCluster
  <2>1. PICK w \in ReadWriteOutcomes : fat' = Put(fat, op.cluster, FREE, w)
    BY <1>4 DEF FreeCluster
  <2> QED BY <1>1, <2>1 DEF Put, FatMoves
<1>5. CASE fat' = fat
  BY <1>5 DEF FatMoves
<1>6. MirrorUsed \/ WriteNew \/ WriteParent \/ RollBackMirror \/ FreeMirror \/ DeleteEntry => fat' = fat
  BY DEF MirrorUsed, WriteNew, WriteParent, RollBackMirror, FreeMirror, DeleteEntry
<1>7. Crash \/ StartFails \/ UNCHANGED vars => fat' = fat
  BY DEF Crash, StartFails, vars, disk
<1>8. \A p, call : StartCreate(call, p) \/ StartRemove(call, p) => fat' = fat
  BY DEF StartCreate, StartRemove, disk
<1> QED BY <1>2, <1>3, <1>4, <1>5, <1>6, <1>7, <1>8, Steps

LEMMA LinksGo ==
  ASSUME TypeInv, FatMoves, NEW c \in Index
  PROVE  After(fat', c) \in {NONE, After(fat, c)}
<1>0. fat \in Fats
  BY DEF TypeInv, DiskTyped
<1>1. fat'[c] = fat[c] \/ fat'[c] \in {FREE, EOC}
  BY <1>0 DEF FatMoves, Fats
<1>2. CASE fat'[c] = fat[c]
  BY <1>2 DEF After
<1>3. CASE fat'[c] \in {FREE, EOC}
  <2>1. fat'[c] \in {0, 1, EOC}
    BY <1>3, Constants DEF FREE
  <2> QED BY <2>1 DEF After
<1> QED BY <1>1, <1>2, <1>3

LEMMA ShortNext ==
  ASSUME TypeInv, ShortNow, [Next]_vars, ~IntoFat
  PROVE  ShortNow'
<1>0. /\ fat \in Fats /\ op \in Frame /\ op.cluster \in Index /\ op.next \in Index /\ FatMoves
      /\ NONE \in Index
  BY FatWrites, Constants DEF TypeInv, DiskTyped, ResultTyped, Frame
<1>1. \A x \in Index : After(fat', x) \in {NONE, After(fat, x)} /\ After(fat, x) \in Index
  BY <1>0, LinksGo, AfterTyped
<1>2. \A f : After(f, NONE) = NONE
  BY DEF After, NONE
<1>3. \A c \in Index : After(fat, After(fat, c)) = NONE
  BY DEF ShortNow
<1>4. \A c \in Index : After(fat', After(fat', c)) = NONE
  BY <1>1, <1>2, <1>3
<1>5. \A c \in Index : After(fat, c) = NONE => After(fat', c) = NONE
  BY <1>1
<1>6. /\ pc' = "free" => op'.cluster = At(data', Doomed').cluster \/ After(fat', op'.cluster) = NONE
      /\ pc' = "free_mirror" => After(fat', op'.next) = NONE
  <2>1. CASE FreeCluster
    <3>1. PICK n \in {NONE, NextCluster(op.cluster)} :
            \/ Goto("free_mirror", [op EXCEPT !.next = n])
            \/ Goto("free", [op EXCEPT !.cluster = n])
      BY <2>1, FreeClusterIs
    <3>2. NextCluster(op.cluster) = After(fat, op.cluster)
      BY DEF NextCluster, After
    <3>3. n \in Index /\ After(fat, n) = NONE
      BY <1>0, <1>1, <1>2, <1>3, <3>2
    <3>4. After(fat', n) = NONE
      BY <1>5, <3>3
    <3>5. (pc' = "free_mirror" /\ op'.next = n) \/ (pc' = "free" /\ op'.cluster = n)
      BY <1>0, <3>1 DEF Goto, Frame
    <3> QED BY <3>4, <3>5
  <2>2. CASE FreeMirror
    <3>1. pc = "free_mirror" /\ fat' = fat /\ pc' = "free" /\ op' = [op EXCEPT !.cluster = op.next, !.next = NONE]
      BY <2>2 DEF FreeMirror, Goto
    <3>2. op'.cluster = op.next
      BY <1>0, <3>1 DEF Frame
    <3> QED BY <3>1, <3>2 DEF ShortNow
  <2>3. CASE \E p \in Paths : \E call \in {"remove", "rmdir"} : StartRemove(call, p)
    <3>1. PICK p \in Paths, call \in {"remove", "rmdir"} : StartRemove(call, p)
      BY <2>3
    <3>2. data' = data /\ (pc' = "idle" \/ (pc' = "free" /\ op' = RemoveFrame(call, p)))
      <4>1. data' = data
        BY <3>1 DEF StartRemove, disk
      <4>2. pc' = "idle" \/ (pc' = "free" /\ op' = RemoveFrame(call, p))
        BY <3>1, StartRemoveIs DEF Return, Goto
      <4> QED BY <4>1, <4>2
    <3>3. CASE pc' = "free" /\ op' = RemoveFrame(call, p)
      <4>1. op'.cluster = data[op'.parent][op'.slot].cluster
        BY <3>3 DEF RemoveFrame, Begin, NoOp
      <4>2. Doomed' = <<op'.parent, op'.slot>>
        <5>1. pc' = "free"
          BY <3>3
        <5> QED BY <5>1 DEF Doomed, Freeing
      <4> QED BY <3>2, <3>3, <4>1, <4>2 DEF At
    <3> QED BY <3>2, <3>3
  <2>4. CASE UNCHANGED vars
    BY <2>4 DEF vars, disk, ShortNow, Doomed, Freeing
  <2>5. CASE pc' \notin {"free", "free_mirror"}
    BY <2>5
  <2>6. \A p, call : StartCreate(call, p) => pc' \notin {"free", "free_mirror"}
    BY DEF StartCreate, Return, Goto
  <2>7. StartFails \/ Crash \/ DeleteEntry \/ RollBackMirror => pc' \notin {"free", "free_mirror"}
    BY DEF StartFails, Crash, DeleteEntry, RollBackMirror, Return
  <2>8. Allocate \/ RollBack => pc' \notin {"free", "free_mirror"}
    BY DEF Allocate, RollBack, Return, Goto
  <2>9. MirrorUsed \/ WriteNew \/ WriteParent => pc' \notin {"free", "free_mirror"}
    BY DEF MirrorUsed, WriteNew, WriteParent, Return, Goto
  <2> QED BY <2>1, <2>2, <2>3, <2>4, <2>5, <2>6, <2>7, <2>8, <2>9, TreeSteps
<1> QED BY <1>4, <1>6 DEF ShortNow

-----------------------------------------------------------------------------
(* The account is kept.                                                      *)
LEMMA QuietIds ==
  ASSUME NEW home, NEW own, Quiet(home, own)
  PROVE  /\ Ids(data', home) = Ids(data, home)
         /\ \A e \in Ids(data, home) : At(data', e) = At(data, e) /\ PathOf(data', home, e) = PathOf(data, home, e)
<1>1. \A e \in (DOMAIN home) \X (1..Slots) : At(data', e) = At(data, e)
  BY DEF At, Quiet
<1>2. Ids(data', home) = Ids(data, home)
  BY <1>1 DEF Ids
<1> QED BY <1>1, <1>2 DEF Ids, PathOf

(* A step that leaves the links alone.                                       *)
LEMMA AccountedSame ==
  ASSUME OrdinaryUse, TypeInv, NEW home, NEW own, NEW dy, TreeHolds(home, own, dy), Quiet(home, own),
         \A x \in Index : After(fat', x) = After(fat, x), Doomed' \in {Doomed, NOBODY},
         NEW lost, Accounted(home, lost),
         \A c \in Index : fat'[c] # FREE => \/ InHand(c)'
                                            \/ fat[c] # FREE /\ ~InHand(c)
  PROVE  Accounted(home, lost)'
<1>1. /\ EmptyNames /\ fat \in Fats /\ data \in [Index -> Cluster] /\ Directories(data, home)
  BY TreeParts
<1>2. /\ Ids(data', home) = Ids(data, home)
      /\ \A e \in Ids(data, home) : At(data', e) = At(data, e)
  BY QuietIds
<1>3. ASSUME NEW c \in Index, Belongs(home, c) PROVE Belongs(home, c)'
  <2>1. CASE c \in From(fat, Root)
    <3>1. Root \in Index
      BY Constants
    <3>2. From(fat, Root) \subseteq From(fat', Root)
      BY <1>1, <3>1, FromSame
    <3> QED BY <2>1, <3>2 DEF Belongs
  <2>2. CASE \E e \in Ids(data, home) : e # Doomed /\ c \in From(fat, At(data, e).cluster)
    <3>1. PICK e \in Ids(data, home) : e # Doomed /\ c \in From(fat, At(data, e).cluster)
      BY <2>2
    <3>2. At(data, e).cluster \in Index
      BY <1>1, IdTyped
    <3>3. c \in From(fat', At(data', e).cluster)
      BY <1>1, <1>2, <3>1, <3>2, FromSame
    <3>4. e \in Ids(data', home) /\ e # Doomed'
      BY <1>1, <1>2, <3>1, IdIs
    <3> QED BY <3>3, <3>4 DEF Belongs
  <2> QED BY <1>3, <2>1, <2>2 DEF Belongs
<1>4. ASSUME NEW c \in Index, c > Root, fat'[c] # FREE PROVE c \in lost \/ Belongs(home, c)' \/ InHand(c)'
  BY <1>3, <1>4 DEF Accounted
<1> QED BY <1>4 DEF Accounted

LEMMA NotInHand ==
  ASSUME pc \in {"idle", "allocate", "roll_back_mirror"}
  PROVE  \A c : ~InHand(c)
BY DEF InHand

LEMMA AccountedStill ==
  ASSUME OrdinaryUse, TypeInv, NEW home, NEW own, NEW dy, TreeHolds(home, own, dy), Quiet(home, own),
         fat' = fat, Doomed' \in {Doomed, NOBODY},
         NEW lost, Accounted(home, lost), \A c \in Index : InHand(c) => InHand(c)'
  PROVE  Accounted(home, lost)'
BY AccountedSame

LEMMA StartAccounted ==
  ASSUME OrdinaryUse, TypeInv, NEW home, NEW own, NEW dy, TreeHolds(home, own, dy), Quiet(home, own),
         NEW lost, Accounted(home, lost),
         StartFails \/ \E p \in Paths : \E call \in {"mkdir", "create"} : StartCreate(call, p)
  PROVE  Accounted(home, lost)'
<1>1. pc = "idle" /\ pc' \in {"idle", "allocate"} /\ fat' = fat
  BY DEF StartFails, StartCreate, Return, Goto, disk
<1>2. \A c : ~InHand(c)
  BY <1>1, NotInHand
<1>3. Doomed' = NOBODY
  BY <1>1 DEF Doomed, Freeing
<1> QED BY <1>1, <1>2, <1>3, AccountedStill

LEMMA StutterAccounted ==
  ASSUME NEW home, NEW lost, Accounted(home, lost), UNCHANGED vars
  PROVE  Accounted(home, lost)'
BY DEF vars, disk, Accounted, Belongs, InHand, Doomed, Freeing

LEMMA StartRemoveAccounted ==
  ASSUME OrdinaryUse, TypeInv, NEW home, NEW own, NEW dy, TreeHolds(home, own, dy), Quiet(home, own),
         NEW lost, Accounted(home, lost), NEW p \in Paths, NEW call \in {"remove", "rmdir"}, StartRemove(call, p)
  PROVE  Accounted(home, lost)'
<1>1. pc = "idle" /\ fat' = fat /\ data' = data
  BY DEF StartRemove, disk
<1>2. \A c : ~InHand(c)
  BY <1>1, NotInHand
<1>3. CASE Return(-1)
  <2>1. Doomed' = NOBODY
    BY <1>3 DEF Return, Doomed, Freeing
  <2> QED BY <1>1, <1>2, <2>1, AccountedStill
<1>4. CASE Goto("free", RemoveFrame(call, p))
  <2>1. pc' = "free" /\ op' = RemoveFrame(call, p)
    BY <1>4 DEF Goto
  <2>2. op'.cluster = data[op'.parent][op'.slot].cluster
    BY <2>1 DEF RemoveFrame, Begin, NoOp
  <2>3. Doomed' = <<op'.parent, op'.slot>>
    BY <2>1 DEF Doomed, Freeing
  <2>4. op'.cluster = At(data, Doomed').cluster
    BY <2>2, <2>3 DEF At
  <2> HIDE <2>1
  <2>5. ASSUME NEW c \in Index, c > Root, fat[c] # FREE PROVE c \in lost \/ Belongs(home, c)' \/ InHand(c)'
    <3>1. c \in lost \/ Belongs(home, c)
      BY <1>2, <2>5 DEF Accounted
    <3>2. CASE c \in From(fat, Root)
      BY <1>1, <3>2 DEF Belongs
    <3>3. CASE \E e \in Ids(data, home) : c \in From(fat, At(data, e).cluster)
      <4>1. PICK e \in Ids(data, home) : c \in From(fat, At(data, e).cluster)
        BY <3>3
      <4>2. CASE e = Doomed'
        <5>1. c \in From(fat', op'.cluster)
          BY <1>1, <2>4, <4>1, <4>2
        <5> QED BY <2>1, <5>1 DEF InHand
      <4>3. CASE e # Doomed'
        BY <1>1, <4>1, <4>3 DEF Belongs
      <4> QED BY <4>2, <4>3
    <3> QED BY <3>1, <3>2, <3>3 DEF Belongs
  <2> QED BY <1>1, <2>5 DEF Accounted
<1> QED BY <1>3, <1>4, StartRemoveIs

LEMMA AllocateAccounted ==
  ASSUME OrdinaryUse, TypeInv, NEW home, NEW own, NEW dy, TreeHolds(home, own, dy), Quiet(home, own),
         NEW lost, Accounted(home, lost), Allocate, faults' = 0, faults = 0
  PROVE  Accounted(home, lost)'
<1>1. pc = "allocate"
  BY DEF Allocate
<1>2. \A c : ~InHand(c)
  BY <1>1, NotInHand
<1>3. fat \in Fats /\ op \in Frame
  BY DEF TypeInv, DiskTyped, ResultTyped
<1>4. CASE Return(-1) /\ fat' = fat
  <2>1. Doomed' = NOBODY
    BY <1>4 DEF Return, Doomed, Freeing
  <2> QED BY <1>2, <1>4, <2>1, AccountedStill
<1>5. CASE \E c \in Index : fat[c] = FREE /\ fat' = [fat EXCEPT ![c] = EOC] /\ Goto("mirror_used", [op EXCEPT !.new = c])
  <2>1. PICK c \in Index : fat[c] = FREE /\ fat' = [fat EXCEPT ![c] = EOC] /\ Goto("mirror_used", [op EXCEPT !.new = c])
    BY <1>5
  <2>2. pc' = "mirror_used" /\ op'.new = c
    BY <1>3, <2>1 DEF Goto, Frame
  <2>3. \A x \in Index : After(fat', x) = After(fat, x)
    <3> SUFFICES ASSUME NEW x \in Index PROVE After(fat', x) = After(fat, x)
      OBVIOUS
    <3>1. fat'[x] = IF x = c THEN EOC ELSE fat[x]
      BY <1>3, <2>1 DEF Fats
    <3> QED BY <2>1, <3>1 DEF After, FREE
  <2>4. Doomed' = NOBODY
    BY <2>2 DEF Doomed, Freeing
  <2>5. \A x \in Index : fat'[x] # FREE => InHand(x)' \/ (fat[x] # FREE /\ ~InHand(x))
    <3> SUFFICES ASSUME NEW x \in Index, fat'[x] # FREE PROVE InHand(x)' \/ fat[x] # FREE
      BY <1>2
    <3>1. CASE x = c
      BY <2>2, <3>1 DEF InHand
    <3>2. CASE x # c
      BY <1>3, <2>1, <3>2 DEF Fats
    <3> QED BY <3>1, <3>2
  <2> QED BY <2>3, <2>4, <2>5, AccountedSame
<1>6. \/ Return(-1) /\ fat' = fat
      \/ \E c \in Index : fat[c] = FREE /\ fat' = [fat EXCEPT ![c] = EOC] /\ Goto("mirror_used", [op EXCEPT !.new = c])
  <2>1. CASE \E c \in Index, w \in ReadWriteOutcomes :
               /\ fat[c] = FREE /\ fat' = Put(fat, c, EOC, w)
               /\ IF w.ok THEN Goto("mirror_used", [op EXCEPT !.new = c]) ELSE Return(-1)
               /\ (w # Perfect => faults' = faults + 1)
    <3>1. PICK c \in Index, w \in ReadWriteOutcomes :
               /\ fat[c] = FREE /\ fat' = Put(fat, c, EOC, w)
               /\ IF w.ok THEN Goto("mirror_used", [op EXCEPT !.new = c]) ELSE Return(-1)
               /\ (w # Perfect => faults' = faults + 1)
      BY <2>1
    <3>2. w = Perfect
      BY <3>1
    <3>3. w.ok /\ w.stored
      BY <3>2 DEF Perfect
    <3> QED BY <3>1, <3>3 DEF Put
  <2> QED BY <2>1, AllocateIs
<1> QED BY <1>4, <1>5, <1>6

LEMMA NewAccounted ==
  ASSUME OrdinaryUse, TypeInv, NEW home, NEW own, NEW dy, TreeHolds(home, own, dy), Quiet(home, own),
         NEW lost, Accounted(home, lost),
         MirrorUsed \/ WriteNew \/ (WriteParent /\ pc' = "roll_back")
  PROVE  Accounted(home, lost)'
<1>1. /\ fat' = fat /\ op' = op
      /\ pc \in {"mirror_used", "write_new", "write_parent"}
      /\ pc' \in {"write_new", "write_parent", "roll_back"}
  BY DEF MirrorUsed, WriteNew, WriteParent, Goto, Return
<1>2. Doomed' = NOBODY
  BY <1>1 DEF Doomed, Freeing
<1>3. \A c \in Index : InHand(c) => InHand(c)'
  BY <1>1 DEF InHand
<1> QED BY <1>1, <1>2, <1>3, AccountedStill

LEMMA RollBackMirrorAccounted ==
  ASSUME OrdinaryUse, TypeInv, NEW home, NEW own, NEW dy, TreeHolds(home, own, dy), Quiet(home, own),
         NEW lost, Accounted(home, lost), RollBackMirror
  PROVE  Accounted(home, lost)'
<1>1. fat' = fat /\ pc = "roll_back_mirror" /\ pc' = "idle"
  BY DEF RollBackMirror, Return
<1>2. Doomed' = NOBODY
  BY <1>1 DEF Doomed, Freeing
<1> QED BY <1>1, <1>2, NotInHand, AccountedStill

LEMMA RollBackAccounted ==
  ASSUME OrdinaryUse, TypeInv, NEW home, NEW own, NEW dy, TreeHolds(home, own, dy), Quiet(home, own),
         NEW lost, Accounted(home, lost), RollBack, faults' = 0, faults = 0
  PROVE  Accounted(home, lost)'
<1>1. /\ pc = "roll_back" /\ fat \in Fats /\ op.new \in Index
  BY DEF RollBack, TypeInv, DiskTyped, ResultTyped, Frame
<1>2. fat[op.new] = EOC
  BY <1>1 DEF TreeHolds, Steady, Making, Creating
<1>3. PICK w \in ReadWriteOutcomes :
        /\ fat' = Put(fat, op.new, FREE, w)
        /\ IF w.ok THEN Goto("roll_back_mirror", op) ELSE Return(-1)
        /\ Count(w # Perfect)
  BY DEF RollBack
<1>4. w = Perfect
  BY <1>3 DEF Count
<1>5. fat' = [fat EXCEPT ![op.new] = FREE] /\ pc' = "roll_back_mirror"
  BY <1>3, <1>4 DEF Perfect, Put, Goto
<1>6. \A x \in Index : fat'[x] = IF x = op.new THEN FREE ELSE fat[x]
  BY <1>1, <1>5 DEF Fats
<1>7. \A x \in Index : After(fat', x) = After(fat, x)
  BY <1>2, <1>6 DEF After, FREE
<1>8. Doomed' = NOBODY
  BY <1>5 DEF Doomed, Freeing
<1>9. \A x \in Index : fat'[x] # FREE => fat[x] # FREE /\ ~InHand(x)
  BY <1>1, <1>6 DEF InHand
<1> QED BY <1>7, <1>8, <1>9, AccountedSame

LEMMA FreeMirrorAccounted ==
  ASSUME OrdinaryUse, TypeInv, NEW home, NEW own, NEW dy, TreeHolds(home, own, dy), Quiet(home, own),
         NEW lost, Accounted(home, lost), FreeMirror
  PROVE  Accounted(home, lost)'
<1>1. /\ pc = "free_mirror" /\ pc' = "free" /\ fat' = fat
      /\ op' = [op EXCEPT !.cluster = op.next, !.next = NONE] /\ op \in Frame
  BY DEF FreeMirror, Goto, TypeInv, ResultTyped
<1>2. op'.cluster = op.next /\ op'.parent = op.parent /\ op'.slot = op.slot
  BY <1>1 DEF Frame
<1>3. Doomed = <<op.parent, op.slot>>
  BY <1>1 DEF Doomed, Freeing
<1>4. Doomed' = <<op'.parent, op'.slot>>
  BY <1>1 DEF Doomed, Freeing
<1>5. \A c \in Index : InHand(c) => InHand(c)'
  BY <1>1, <1>2 DEF InHand
<1> QED BY <1>1, <1>2, <1>3, <1>4, <1>5, AccountedStill

(* Clearing a cluster of the entry being removed.                            *)
LEMMA OthersKept ==
  ASSUME OrdinaryUse, TypeInv, NEW home, NEW own, NEW dy, TreeHolds(home, own, dy),
         NEW x \in Index, own[x] = dy, dy = Doomed, dy \in Ids(data, home), fat' = [fat EXCEPT ![x] = FREE],
         data' = data, Doomed' = Doomed, NEW c, Belongs(home, c)
  PROVE  Belongs(home, c)'
<1>1. /\ EmptyNames /\ fat \in Fats /\ data \in [Index -> Cluster]
      /\ Directories(data, home) /\ Ownership(fat, data, home, own)
  BY TreeParts
<1> DEFINE Part(e) == {y \in Index : own[y] = e}
<1>2. ASSUME NEW e, e # NOBODY, e # dy
      PROVE  Closed(fat, Part(e)) /\ \A y \in Part(e) : After(fat', y) = After(fat, y)
  <2>1. Closed(fat, Part(e))
    <3>1. \A y \in Part(e) : After(fat, y) \in Index
      BY <1>1, AfterTyped
    <3> QED BY <1>1, <1>2, <3>1 DEF Closed, Ownership
  <2>2. \A y \in Index : y # x => fat'[y] = fat[y]
    BY <1>1 DEF Fats
  <2>3. x \notin Part(e)
    BY <1>2
  <2> QED BY <2>1, <2>2, <2>3 DEF After
<1>3. CASE c \in From(fat, Root)
  <2>1. Root \in Part(THEROOT) /\ THEROOT # NOBODY /\ THEROOT # dy
    <3>1. own[Root] = THEROOT /\ Root \in Index /\ THEROOT # NOBODY
      BY <1>1, Constants DEF Ownership, THEROOT, NOBODY
    <3>2. dy # THEROOT
      BY <1>1, IdIs
    <3> QED BY <3>1, <3>2
  <2>2. Closed(fat, Part(THEROOT)) /\ \A y \in Part(THEROOT) : After(fat', y) = After(fat, y)
    BY <1>2, <2>1
  <2>3. Part(THEROOT) \in SUBSET Index
    OBVIOUS
  <2> HIDE DEF Part
  <2>4. From(fat, Root) \subseteq From(fat', Root)
    BY <2>1, <2>2, <2>3, FromKept
  <2> QED BY <1>3, <2>4 DEF Belongs
<1>4. CASE \E e \in Ids(data, home) : e # Doomed /\ c \in From(fat, At(data, e).cluster)
  <2>1. PICK e \in Ids(data, home) : e # Doomed /\ c \in From(fat, At(data, e).cluster)
    BY <1>4
  <2>2. At(data, e).cluster \in Index /\ At(data, e).cluster # NONE /\ e # NOBODY
    <3>1. At(data, e).cluster # NONE
      BY <2>1 DEF From
    <3> QED BY <1>1, <3>1, IdTyped, IdIs
  <2>3. own[At(data, e).cluster] = e
    BY <1>1, <2>2 DEF Ownership
  <2>4. Closed(fat, Part(e)) /\ \A y \in Part(e) : After(fat', y) = After(fat, y)
    BY <1>2, <2>1, <2>2
  <2>5. Part(e) \in SUBSET Index /\ At(data, e).cluster \in Part(e)
    BY <2>2, <2>3
  <2> HIDE DEF Part
  <2>6. From(fat, At(data, e).cluster) \subseteq From(fat', At(data, e).cluster)
    BY <2>4, <2>5, FromKept
  <2>7. e \in Ids(data', home) /\ e # Doomed' /\ c \in From(fat', At(data', e).cluster)
    BY <2>1, <2>6
  <2> QED BY <2>7 DEF Belongs
<1> QED BY <1>3, <1>4 DEF Belongs

LEMMA FreeClusterAccounted ==
  ASSUME OrdinaryUse, TypeInv, NEW home, NEW own, NEW dy, TreeHolds(home, own, dy), Quiet(home, own),
         NEW lost, Accounted(home, lost), FreeCluster, faults' = 0, faults = 0
  PROVE  Accounted(home, lost)'
<1>1. /\ pc = "free" /\ op.cluster # NONE /\ fat \in Fats /\ op \in Frame /\ op.cluster \in Index
      /\ data' = data
  BY DEF FreeCluster, TypeInv, DiskTyped, ResultTyped, Frame
<1>2. dy \in Ids(data, home) /\ dy = Doomed /\ own[op.cluster] = dy
  <2>1. Removing(home, own, dy)
    BY <1>1 DEF TreeHolds, Steady, Freeing
  <2> QED BY <1>1, <2>1 DEF Removing, Doomed, Freeing
<1>3. PICK unread \in IF May("read") THEN BOOLEAN ELSE {FALSE}, w \in ReadWriteOutcomes :
        LET next == IF unread THEN NONE ELSE NextCluster(op.cluster) IN
        /\ fat' = Put(fat, op.cluster, FREE, w)
        /\ IF w.ok THEN Goto("free_mirror", [op EXCEPT !.next = next])
                   ELSE Goto("free", [op EXCEPT !.cluster = next])
        /\ Count(unread \/ w # Perfect)
  BY DEF FreeCluster
<1>4. w = Perfect /\ unread = FALSE
  BY <1>3 DEF Count
<1> DEFINE n == NextCluster(op.cluster)
<1>5. /\ fat' = [fat EXCEPT ![op.cluster] = FREE]
      /\ pc' = "free_mirror" /\ op' = [op EXCEPT !.next = n]
  BY <1>3, <1>4 DEF Perfect, Put, Goto
<1>6. n = After(fat, op.cluster)
  BY DEF NextCluster, After
<1> HIDE DEF n
<1>7. op'.next = n /\ op'.parent = op.parent /\ op'.slot = op.slot
  BY <1>1, <1>5 DEF Frame
<1>8. Doomed' = <<op'.parent, op'.slot>>
  BY <1>5 DEF Doomed, Freeing
<1>9. Doomed' = Doomed
  BY <1>1, <1>7, <1>8 DEF Doomed, Freeing
<1>10. \A c : Belongs(home, c) => Belongs(home, c)'
  BY <1>1, <1>2, <1>5, <1>9, OthersKept
<1>11. ASSUME NEW c \in Index, c > Root, fat'[c] # FREE PROVE c \in lost \/ Belongs(home, c)' \/ InHand(c)'
  <2>1. c # op.cluster /\ fat[c] # FREE
    BY <1>1, <1>5, <1>11 DEF Fats
  <2>2. c \in lost \/ Belongs(home, c) \/ InHand(c)
    BY <1>11, <2>1 DEF Accounted
  <2>3. CASE InHand(c)
    <3>1. c \in From(fat, op.cluster)
      BY <1>1, <2>3 DEF InHand
    <3>2. c \in From(fat', n)
      BY <1>1, <1>5, <1>6, <2>1, <3>1, FromCleared
    <3> QED BY <1>5, <1>7, <3>2 DEF InHand
  <2> QED BY <1>10, <2>2, <2>3
<1> QED BY <1>11 DEF Accounted

(* The entry is marked deleted when nothing is left of its chain.            *)
LEMMA DeleteAccounted ==
  ASSUME OrdinaryUse, TypeInv, NEW home, NEW own, NEW dy, TreeHolds(home, own, dy), DeleteEntry,
         NEW h, NEW e, EntryLess(data, home, data', h, e), PathOf(data, home, e) = op.path,
         NEW lost, Accounted(home, lost)
  PROVE  Accounted(h, lost)'
<1>1. pc = "free" /\ op.cluster = NONE /\ pc' = "idle" /\ fat' = fat
  BY DEF DeleteEntry, Return
<1>2. e = Doomed
  <2>1. Removing(home, own, dy)
    BY <1>1 DEF TreeHolds, Steady, Freeing
  <2>2. dy \in Ids(data, home) /\ dy = Doomed /\ PathOf(data, home, dy) = op.path
    BY <1>1, <2>1 DEF Removing, Doomed, Freeing
  <2>3. Directories(data, home)
    BY TreeParts
  <2>4. e \in Ids(data, home)
    BY DEF EntryLess
  <2> QED BY <2>2, <2>3, <2>4, PathsDiffer
<1>3. Doomed' = NOBODY
  BY <1>1 DEF Doomed, Freeing
<1>4. NOBODY \notin Ids(data', h)
  <2>1. Directories(data, home)
    BY TreeParts
  <2>2. Ids(data', h) \subseteq Ids(data, home)
    BY DEF EntryLess
  <2> QED BY <2>1, <2>2, IdIs
<1>5. ASSUME NEW c \in Index, c > Root, fat[c] # FREE PROVE c \in lost \/ Belongs(h, c)'
  <2>1. ~InHand(c)
    BY <1>1 DEF InHand, From
  <2>2. c \in lost \/ Belongs(home, c)
    BY <1>5, <2>1 DEF Accounted
  <2>3. CASE c \in From(fat, Root)
    BY <1>1, <2>3 DEF Belongs
  <2>4. CASE \E g \in Ids(data, home) : g # Doomed /\ c \in From(fat, At(data, g).cluster)
    <3>1. PICK g \in Ids(data, home) : g # Doomed /\ c \in From(fat, At(data, g).cluster)
      BY <2>4
    <3>2. g \in Ids(data', h) /\ At(data', g) = At(data, g) /\ g # Doomed'
      BY <1>2, <1>3, <1>4, <3>1 DEF EntryLess
    <3>3. c \in From(fat', At(data', g).cluster)
      BY <1>1, <3>1, <3>2
    <3> QED BY <3>2, <3>3 DEF Belongs
  <2> QED BY <2>2, <2>3, <2>4 DEF Belongs
<1> QED BY <1>1, <1>5 DEF Accounted

(* The entry that starts at the new cluster is there.                        *)
LEMMA WriteParentAccounted ==
  ASSUME OrdinaryUse, TypeInv, NEW home, NEW own, NEW dy, TreeHolds(home, own, dy), WriteParent, pc' = "idle",
         NEW h, NEW o, TreeHolds(h, o, NOBODY)', NEW e, EntryMore(data, home, data', h, e),
         At(data', e).cluster = op.new, op.new # NONE,
         NEW lost, Accounted(home, lost)
  PROVE  Accounted(h, lost)'
<1>1. pc = "write_parent" /\ fat' = fat /\ op.new \in Index
  BY DEF WriteParent, TypeInv, ResultTyped, Frame
<1>2. Doomed' = NOBODY
  BY DEF Doomed, Freeing
<1>3. NOBODY \notin Ids(data', h)
  <2>1. Directories(data', h)
    BY DEF TreeHolds, IsTree
  <2> QED BY <2>1, IdIs
<1>4. ASSUME NEW c \in Index, c > Root, fat[c] # FREE PROVE c \in lost \/ Belongs(h, c)'
  <2>1. c \in lost \/ Belongs(home, c) \/ InHand(c)
    BY <1>4 DEF Accounted
  <2>2. CASE c \in From(fat, Root)
    BY <1>1, <2>2 DEF Belongs
  <2>3. CASE \E g \in Ids(data, home) : c \in From(fat, At(data, g).cluster)
    <3>1. PICK g \in Ids(data, home) : c \in From(fat, At(data, g).cluster)
      BY <2>3
    <3>2. g \in Ids(data', h) /\ At(data', g) = At(data, g) /\ g # Doomed'
      BY <1>2, <1>3, <3>1 DEF EntryMore
    <3>3. c \in From(fat', At(data', g).cluster)
      BY <1>1, <3>1, <3>2
    <3> QED BY <3>2, <3>3 DEF Belongs
  <2>4. CASE InHand(c)
    <3>1. c = op.new
      BY <1>1, <2>4 DEF InHand
    <3>2. c \in From(fat', At(data', e).cluster)
      BY <1>1, <3>1, FromStart
    <3>3. e \in Ids(data', h) /\ e # Doomed'
      BY <1>2, <1>3 DEF EntryMore
    <3> QED BY <3>2, <3>3 DEF Belongs
  <2> QED BY <2>1, <2>2, <2>3, <2>4 DEF Belongs
<1> QED BY <1>1, <1>4 DEF Accounted

LEMMA AtMostOneMore ==
  ASSUME NEW S \in SUBSET Index, NEW n \in Nat, Cardinality(S) <= n, NEW x \in Index
  PROVE  S \union {x} \in SUBSET Index /\ Cardinality(S \union {x}) <= n + 1
<1>1. IsFiniteSet(0..LastCluster)
  BY Constants, FS_Interval
<1>2. IsFiniteSet(S)
  BY <1>1, FS_Subset DEF Index
<1> DEFINE T == S \union {x}
<1>3. IsFiniteSet(T) /\ (Cardinality(T) = Cardinality(S) \/ Cardinality(T) = Cardinality(S) + 1)
  BY <1>2, FS_AddElement
<1>4. Cardinality(S) \in Nat
  BY <1>2, FS_CardinalityType
<1>5. T \in SUBSET Index
  OBVIOUS
<1> HIDE DEF T
<1>6. Cardinality(T) <= n + 1
  BY <1>3, <1>4
<1> QED BY <1>5, <1>6 DEF T

(* What a power loss takes out of the hands of the running operation.        *)
LEMMA OneInHand ==
  ASSUME TypeInv, ShortNow
  PROVE  \E x \in Index : \A c \in Index : InHand(c) =>
           c = x \/ (pc = "free" /\ c \in From(fat, At(data, Doomed).cluster))
<1>1. op.new \in Index /\ op.cluster \in Index /\ op.next \in Index
  BY DEF TypeInv, ResultTyped, Frame
<1>2. \A x \in Index : \A c \in From(fat, x) : After(fat, x) = NONE => c = x
  BY FromOn
<1>3. CASE pc = "free"
  <2>1. op.cluster = At(data, Doomed).cluster \/ After(fat, op.cluster) = NONE
    BY <1>3 DEF ShortNow
  <2>2. \A c \in Index : InHand(c) => c \in From(fat, op.cluster)
    BY <1>3 DEF InHand
  <2> QED BY <1>1, <1>2, <1>3, <2>1, <2>2
<1>4. CASE pc = "free_mirror"
  <2>1. After(fat, op.next) = NONE
    BY <1>4 DEF ShortNow
  <2>2. \A c \in Index : InHand(c) => c \in From(fat, op.next)
    BY <1>4 DEF InHand
  <2> QED BY <1>1, <1>2, <2>1, <2>2
<1>5. CASE pc \notin {"free", "free_mirror"}
  <2>1. \A c : InHand(c) => c = op.new
    BY <1>5 DEF InHand
  <2> QED BY <1>1, <2>1
<1> QED BY <1>3, <1>4, <1>5

LEMMA CrashAccounted ==
  ASSUME OrdinaryUse, TypeInv, NEW home, NEW own, NEW dy, TreeHolds(home, own, dy), Crash, ShortNow,
         NEW lost \in SUBSET Index, Cardinality(lost) <= crashes, Accounted(home, lost)
  PROVE  \E l \in SUBSET Index : Cardinality(l) <= crashes' /\ Accounted(home, l)'
<1>1. /\ fat' = fat /\ data' = data /\ pc' = "idle" /\ pc # "idle" /\ crashes' = crashes + 1
      /\ crashes \in Nat
  <2>1. crashes \in Nat
    <3>1. MaxCrashes \in Nat
      BY Fat32Assumption
    <3> QED BY <3>1 DEF TypeInv, CountsTyped
  <2>2. fat' = fat /\ data' = data
    BY DEF Crash, disk
  <2>3. pc' = "idle" /\ pc # "idle" /\ crashes' = crashes + 1
    BY DEF Crash
  <2> QED BY <2>1, <2>2, <2>3
<1>2. PICK x \in Index : \A c \in Index : InHand(c) =>
           c = x \/ (pc = "free" /\ c \in From(fat, At(data, Doomed).cluster))
  BY OneInHand
<1>3. Doomed' = NOBODY
  BY <1>1 DEF Doomed, Freeing
<1>4. NOBODY \notin Ids(data, home)
  <2>1. Directories(data, home)
    BY TreeParts
  <2> QED BY <2>1, IdIs
<1>5. pc = "free" => Doomed \in Ids(data, home)
  <2>1. pc = "free" => Removing(home, own, dy)
    BY DEF TreeHolds, Steady, Freeing
  <2> QED BY <2>1 DEF Removing, Doomed, Freeing
<1> DEFINE l == lost \union {x}
<1>6. l \in SUBSET Index /\ Cardinality(l) <= crashes'
  BY <1>1, AtMostOneMore
<1>7. \A e \in Ids(data, home) : e \in Ids(data', home) /\ At(data', e) = At(data, e) /\ e # Doomed'
  BY <1>1, <1>3, <1>4
<1>8. ASSUME NEW c \in Index, c > Root, fat[c] # FREE PROVE c \in l \/ Belongs(home, c)'
  <2>1. c \in lost \/ Belongs(home, c) \/ InHand(c)
    BY <1>8 DEF Accounted
  <2>2. c \in l \/ c \in From(fat, Root) \/ \E e \in Ids(data, home) : c \in From(fat, At(data, e).cluster)
    BY <1>2, <1>5, <2>1 DEF Belongs
  <2>3. ASSUME NEW e \in Ids(data, home), c \in From(fat, At(data, e).cluster) PROVE Belongs(home, c)'
    <3>1. e \in Ids(data', home) /\ e # Doomed' /\ c \in From(fat', At(data', e).cluster)
      BY <1>1, <1>7, <2>3
    <3> QED BY <3>1 DEF Belongs
  <2>4. ASSUME c \in From(fat, Root) PROVE Belongs(home, c)'
    BY <1>1, <2>4 DEF Belongs
  <2> QED BY <2>2, <2>3, <2>4
<1> HIDE DEF l
<1>9. Accounted(home, l)'
  BY <1>1, <1>8 DEF Accounted
<1> QED BY <1>6, <1>9

LEMMA CountsGrow ==
  ASSUME TypeInv, [Next]_vars, ~IntoFat
  PROVE  /\ faults \in Nat /\ crashes \in Nat
         /\ faults' \in {faults, faults + 1}
         /\ (Crash /\ crashes' = crashes + 1) \/ crashes' = crashes
<1>1. faults \in Nat /\ crashes \in Nat
  <2>1. MaxCrashes \in Nat /\ MaxFaults \in Nat
    BY Fat32Assumption
  <2> QED BY <2>1 DEF TypeInv, CountsTyped
<1>2. CASE Allocate
  <2>1. faults' \in {faults, faults + 1}
    BY <1>2, AllocateIs
  <2>2. crashes' = crashes
    BY <1>2 DEF Allocate
  <2> QED BY <1>1, <2>1, <2>2
<1>3. CASE FreeCluster
  <2>1. faults' \in {faults, faults + 1}
    BY <1>3, FreeClusterIs
  <2>2. crashes' = crashes
    BY <1>3 DEF FreeCluster
  <2> QED BY <1>1, <2>1, <2>2
<1>4. MirrorUsed \/ RollBackMirror \/ FreeMirror => faults' \in {faults, faults + 1} /\ crashes' = crashes
  BY DEF MirrorUsed, RollBackMirror, FreeMirror, UpdateMirror, Count
<1>5. WriteNew \/ WriteParent \/ RollBack => faults' \in {faults, faults + 1} /\ crashes' = crashes
  BY DEF WriteNew, WriteParent, RollBack, Count
<1>6. DeleteEntry \/ StartFails => faults' \in {faults, faults + 1} /\ crashes' = crashes
  BY DEF DeleteEntry, StartFails, Count
<1>7. Crash => faults' = faults /\ crashes' = crashes + 1
  BY DEF Crash
<1>8. UNCHANGED vars => faults' = faults /\ crashes' = crashes
  BY DEF vars
<1>9. \A p, call : StartCreate(call, p) \/ StartRemove(call, p) => faults' = faults /\ crashes' = crashes
  BY DEF StartCreate, StartRemove
<1> QED BY <1>1, <1>2, <1>3, <1>4, <1>5, <1>6, <1>7, <1>8, <1>9, TreeSteps

LEMMA QuietAccounted ==
  ASSUME OrdinaryUse, TypeInv, NEW home, NEW own, NEW dy, TreeHolds(home, own, dy), [Next]_vars,
         Quiet(home, own), ~DeleteEntry, WriteParent => pc' = "roll_back",
         faults' = 0, faults = 0, ~Crash, NEW lost, Accounted(home, lost)
  PROVE  Accounted(home, lost)'
<1>1. \A p \in Paths, call \in {"remove", "rmdir"} : StartRemove(call, p) => Accounted(home, lost)'
  BY StartRemoveAccounted
<1>2. StartFails \/ (\E p \in Paths : \E call \in {"mkdir", "create"} : StartCreate(call, p)) => Accounted(home, lost)'
  BY StartAccounted
<1>3. MirrorUsed \/ WriteNew \/ WriteParent => Accounted(home, lost)'
  BY NewAccounted
<1>4. Allocate => Accounted(home, lost)'
  BY AllocateAccounted
<1>5. RollBack => Accounted(home, lost)'
  BY RollBackAccounted
<1>6. RollBackMirror => Accounted(home, lost)'
  BY RollBackMirrorAccounted
<1>7. FreeCluster => Accounted(home, lost)'
  BY FreeClusterAccounted
<1>8. FreeMirror => Accounted(home, lost)'
  BY FreeMirrorAccounted
<1>9. UNCHANGED vars => Accounted(home, lost)'
  BY StutterAccounted
<1> QED BY <1>1, <1>2, <1>3, <1>4, <1>5, <1>6, <1>7, <1>8, <1>9, NoneStray, TreeSteps

(* What is lost so far is counted, whichever step the tree takes.            *)
LEMMA LossCounted ==
  ASSUME OrdinaryUse, TypeInv, NEW home, NEW own, NEW dy, TreeHolds(home, own, dy), [Next]_vars,
         ShortVolumes => ShortNow, LittleLost(home), NEW h,
         \A lost : Accounted(home, lost) /\ ~Crash /\ faults' = 0 /\ faults = 0 => Accounted(h, lost)',
         Crash => h = home
  PROVE  LittleLost(h)'
<1> SUFFICES ASSUME faults' = 0, crashes' = 0 \/ ShortVolumes
             PROVE  \E lost \in SUBSET Index : Cardinality(lost) <= crashes' /\ Accounted(h, lost)'
  BY DEF LittleLost
<1>1. /\ faults \in Nat /\ crashes \in Nat /\ faults' \in {faults, faults + 1}
      /\ (Crash /\ crashes' = crashes + 1) \/ crashes' = crashes
  BY NoneStray, CountsGrow
<1>2. faults = 0 /\ (crashes = 0 \/ ShortVolumes) /\ (Crash /\ crashes' = crashes + 1 => ShortVolumes)
  BY <1>1
<1>3. PICK lost \in SUBSET Index : Cardinality(lost) <= crashes /\ Accounted(home, lost)
  BY <1>2 DEF LittleLost
<1>4. CASE Crash /\ crashes' = crashes + 1
  <2>1. ShortNow
    BY <1>2, <1>4
  <2>2. \E l \in SUBSET Index : Cardinality(l) <= crashes' /\ Accounted(home, l)'
    BY <1>3, <1>4, <2>1, CrashAccounted
  <2>3. h = home
    BY <1>4
  <2> QED BY <2>2, <2>3
<1>5. CASE crashes' = crashes
  <2>1. ~Crash
    BY <1>1, <1>5 DEF Crash
  <2>2. Accounted(h, lost)'
    BY <1>2, <1>3, <2>1
  <2> QED BY <1>3, <1>5, <2>2
<1> QED BY <1>1, <1>4, <1>5

KeptTree == \E home, own, dy : TreeHolds(home, own, dy) /\ Kept(home)

LEMMA QuietKept ==
  ASSUME OrdinaryUse, TypeInv, NEW home, NEW own, NEW dy, TreeHolds(home, own, dy), Kept(home), [Next]_vars,
         Quiet(home, own), ~DeleteEntry, WriteParent => pc' = "roll_back"
  PROVE  KeptTree'
<1>1. PICK d : TreeHolds(home, own, d)'
  BY DEF Quiet
<1>2. AllNamed(home)'
  <2>1. \A e \in Ids(data', home) : PathOf(data', home, e) \in Paths
    BY QuietIds DEF Kept, AllNamed
  <2> QED BY <2>1 DEF AllNamed
<1>3. (ShortVolumes => ShortNow)'
  <2>1. ShortVolumes => ShortNow'
    BY NoneStray, ShortNext DEF Kept
  <2> QED BY <2>1
<1>4. LittleLost(home)'
  <2>1. \A lost : Accounted(home, lost) /\ ~Crash /\ faults' = 0 /\ faults = 0 => Accounted(home, lost)'
    BY QuietAccounted
  <2> QED BY <2>1, LossCounted DEF Kept
<1>5. Kept(home)'
  BY <1>2, <1>3, <1>4 DEF Kept
<1> QED BY <1>1, <1>5 DEF KeptTree

LEMMA GrownKept ==
  ASSUME OrdinaryUse, TypeInv, NEW home, NEW own, NEW dy, TreeHolds(home, own, dy), Kept(home), [Next]_vars,
         Grown(home), WriteParent
  PROVE  KeptTree'
<1>1. PICK h, o, e : /\ TreeHolds(h, o, NOBODY)' /\ EntryMore(data, home, data', h, e)
                     /\ At(data', e).cluster = op.new /\ PathOf(data', h, e) = op.path
  BY DEF Grown
<1>2. pc = "write_parent" /\ pc' = "idle" /\ op.path \in Paths /\ op.new # NONE
  <2>1. pc = "write_parent"
    BY DEF WriteParent
  <2>2. op.new \notin {0, 1}
    BY <2>1 DEF TreeHolds, Steady, Creating, Making
  <2>3. op.path \in Paths
    BY <2>1 DEF TypeInv, Running
  <2>4. pc' = "idle"
    BY DEF Grown
  <2> QED BY <2>1, <2>2, <2>3, <2>4 DEF NONE
<1>3. AllNamed(h)'
  <2>1. \A g \in Ids(data', h) : PathOf(data', h, g) \in Paths
    BY <1>1, <1>2 DEF Kept, AllNamed, EntryMore
  <2> QED BY <2>1 DEF AllNamed
<1>4. (ShortVolumes => ShortNow)'
  <2>1. ShortVolumes => ShortNow'
    BY NoneStray, ShortNext DEF Kept
  <2> QED BY <2>1
<1>5. LittleLost(h)'
  <2>1. \A lost : Accounted(home, lost) => Accounted(h, lost)'
    BY <1>1, <1>2, WriteParentAccounted
  <2>2. ~Crash
    <3>1. crashes' = crashes /\ crashes \in Nat
      BY NoneStray, CountsGrow DEF WriteParent
    <3> QED BY <3>1 DEF Crash
  <2> QED BY <2>1, <2>2, LossCounted DEF Kept
<1>6. Kept(h)'
  BY <1>3, <1>4, <1>5 DEF Kept
<1> QED BY <1>1, <1>6 DEF KeptTree

LEMMA ShrunkKept ==
  ASSUME OrdinaryUse, TypeInv, NEW home, NEW own, NEW dy, TreeHolds(home, own, dy), Kept(home), [Next]_vars,
         Shrunk(home), DeleteEntry
  PROVE  KeptTree'
<1>1. PICK h, o, e : /\ TreeHolds(h, o, NOBODY)' /\ EntryLess(data, home, data', h, e)
                     /\ PathOf(data, home, e) = op.path
  BY DEF Shrunk
<1>2. AllNamed(h)'
  <2>1. \A g \in Ids(data', h) : PathOf(data', h, g) \in Paths
    BY <1>1 DEF Kept, AllNamed, EntryLess
  <2> QED BY <2>1 DEF AllNamed
<1>3. (ShortVolumes => ShortNow)'
  <2>1. ShortVolumes => ShortNow'
    BY NoneStray, ShortNext DEF Kept
  <2> QED BY <2>1
<1>4. LittleLost(h)'
  <2>1. \A lost : Accounted(home, lost) => Accounted(h, lost)'
    BY <1>1, DeleteAccounted
  <2>2. ~Crash
    <3>1. crashes' = crashes /\ crashes \in Nat
      BY NoneStray, CountsGrow DEF DeleteEntry
    <3> QED BY <3>1 DEF Crash
  <2> QED BY <2>1, <2>2, LossCounted DEF Kept
<1>5. Kept(h)'
  BY <1>2, <1>3, <1>4 DEF Kept
<1> QED BY <1>1, <1>5 DEF KeptTree

LEMMA KeptNext == OrdinaryUse /\ TypeInv /\ KeptTree /\ [Next]_vars => KeptTree'
<1> SUFFICES ASSUME OrdinaryUse, TypeInv, KeptTree, [Next]_vars PROVE KeptTree'
  OBVIOUS
<1>1. PICK home, own, dy : TreeHolds(home, own, dy) /\ Kept(home)
  BY DEF KeptTree
<1>2. \/ Quiet(home, own) /\ ~WriteParent /\ ~DeleteEntry
      \/ Quiet(home, own) /\ pc' = "roll_back"
      \/ Grown(home) /\ WriteParent
      \/ Shrunk(home) /\ DeleteEntry
  BY <1>1, TreeStep
<1>3. pc' = "roll_back" => ~DeleteEntry
  BY DEF DeleteEntry, Return
<1> QED BY <1>1, <1>2, <1>3, QuietKept, GrownKept, ShrunkKept

LEMMA KeptInit == OrdinaryUse /\ FullVolumes /\ Init => KeptTree
<1> SUFFICES ASSUME OrdinaryUse, FullVolumes, Init PROVE KeptTree
  OBVIOUS
<1>1. PICK v \in Images : fat = v.fat /\ mirror = v.fat /\ data = v.data
  BY DEF Init
<1>2. PICK home, own : IsTree(fat, data, home, own, NOBODY) /\ Complete(fat, data, home)
  BY <1>1 DEF FullVolumes
<1>3. pc = "idle" /\ torn = {} /\ crashes = 0
  BY DEF Init
<1>4. Steady(home, own, NOBODY)
  <2>1. Resting(home, NOBODY)
    BY <1>3 DEF Resting
  <2> QED BY <1>3, <2>1 DEF Steady, Creating, Freeing
<1>5. AllNamed(home)
  BY <1>2 DEF AllNamed, Complete
<1>6. ShortVolumes => ShortNow
  BY <1>1, <1>3 DEF ShortVolumes, ShortNow
<1>7. Accounted(home, {})
  <2>1. \A e \in Ids(data, home) : e # Doomed
    <3>1. Doomed = NOBODY
      BY <1>3 DEF Doomed, Freeing
    <3> QED BY <1>2, <3>1, IdIs DEF IsTree
  <2> QED BY <1>2, <2>1 DEF Accounted, Belongs, Complete
<1>8. LittleLost(home)
  <2>1. Cardinality({}) = 0
    BY FS_EmptySet
  <2> QED BY <1>3, <1>7, <2>1 DEF LittleLost
<1> QED BY <1>2, <1>4, <1>5, <1>6, <1>8 DEF KeptTree, TreeHolds, Kept

(* What the account says of the space that callers can no longer reach.      *)
LEMMA LeaksAccounted ==
  ASSUME OrdinaryUse, TypeInv, NEW home, NEW own, NEW dy, TreeHolds(home, own, dy), AllNamed(home),
         NEW lost, Accounted(home, lost), NEW c \in Leaked
  PROVE  c \in lost \/ (InHand(c) /\ \A e \in Ids(data, home) : c \notin From(fat, At(data, e).cluster))
<1>1. /\ EmptyNames /\ fat \in Fats /\ data \in [Index -> Cluster]
      /\ Directories(data, home) /\ Linked(data, home, own)
  BY TreeParts
<1>2. c \in Index /\ c > Root /\ fat[c] # FREE /\ c \notin Chain(Root) /\ \A p \in All : c \notin ClustersOf(p)
  BY DEF Leaked
<1>3. c \notin From(fat, Root)
  BY <1>1, <1>2, FromInChain, Constants
<1>4. ASSUME NEW e \in Ids(data, home), c \in From(fat, At(data, e).cluster) PROVE FALSE
  <2> DEFINE p == PathOf(data, home, e)
  <2>1. p \in Paths
    BY DEF AllNamed
  <2>2. At(data, e).kind \in Entries /\ At(data, e).cluster \in Index
    BY <1>1, IdTyped
  <2>3. p \in PathsOf(data, home, Entries)
    BY <2>1, <2>2 DEF PathsOf
  <2>4. All = PathsOf(data, home, Entries)
    BY <1>1, ExistingAre DEF All
  <2>5. Stands(home, p, e)
    BY <1>1, <2>1, EntryStands
  <2>6. EntryOf(p) = At(data, e)
    BY <2>5 DEF Stands
  <2> HIDE DEF p
  <2>7. c \in ClustersOf(p)
    BY <1>1, <1>4, <2>2, <2>6, FromInChain DEF ClustersOf
  <2> QED BY <1>2, <2>3, <2>4, <2>7
<1>5. c \in lost \/ InHand(c)
  BY <1>2, <1>3, <1>4 DEF Accounted, Belongs
<1> QED BY <1>4, <1>5

LEMMA KeptNoLeak ==
  ASSUME OrdinaryUse, TypeInv, KeptTree
  PROVE  NoLeak
<1> SUFFICES ASSUME pc = "idle", faults = 0, crashes = 0, NEW c \in Leaked PROVE FALSE
  BY DEF NoLeak
<1>1. PICK home, own, dy : TreeHolds(home, own, dy) /\ Kept(home)
  BY DEF KeptTree
<1>2. PICK lost \in SUBSET Index : Cardinality(lost) <= 0 /\ Accounted(home, lost)
  BY <1>1 DEF Kept, LittleLost
<1>3. lost = {}
  <2>1. IsFiniteSet(lost)
    <3>1. IsFiniteSet(0..LastCluster)
      BY Constants, FS_Interval
    <3> QED BY <3>1, FS_Subset DEF Index
  <2>2. Cardinality(lost) = 0
    BY <1>2, <2>1, FS_CardinalityType
  <2> QED BY <2>1, <2>2, FS_EmptySet
<1>4. ~InHand(c)
  BY NotInHand
<1>5. c \in lost \/ InHand(c)
  BY <1>1, <1>2, LeaksAccounted DEF Kept
<1> QED BY <1>3, <1>4, <1>5

LEMMA KeptLeaksOne ==
  ASSUME OrdinaryUse, ShortVolumes, TypeInv, KeptTree
  PROVE  CrashLeaksOneCluster
<1> SUFFICES ASSUME faults = 0
             PROVE  Cardinality(Leaked) <= crashes + IF pc = "idle" THEN 0 ELSE 1
  BY DEF CrashLeaksOneCluster
<1>1. PICK home, own, dy : TreeHolds(home, own, dy) /\ Kept(home)
  BY DEF KeptTree
<1>2. PICK lost \in SUBSET Index : Cardinality(lost) <= crashes /\ Accounted(home, lost)
  BY <1>1 DEF Kept, LittleLost
<1>3. \A c \in Leaked : c \in lost \/ (InHand(c) /\ \A e \in Ids(data, home) : c \notin From(fat, At(data, e).cluster))
  BY <1>1, <1>2, LeaksAccounted DEF Kept
<1>4. crashes \in Nat
  <2>1. MaxCrashes \in Nat
    BY Fat32Assumption
  <2> QED BY <2>1 DEF TypeInv, CountsTyped
<1>5. IsFiniteSet(Index)
  BY Constants, FS_Interval DEF Index
<1>6. ASSUME NEW S \in SUBSET Index, Leaked \subseteq S
      PROVE  Cardinality(Leaked) <= Cardinality(S) /\ Cardinality(Leaked) \in Nat /\ Cardinality(S) \in Nat
  <2>1. IsFiniteSet(S)
    BY <1>5, FS_Subset
  <2>2. IsFiniteSet(Leaked) /\ Cardinality(Leaked) <= Cardinality(S)
    BY <1>6, <2>1, FS_Subset
  <2> QED BY <2>1, <2>2, FS_CardinalityType
<1>7. CASE pc = "idle"
  <2>1. Leaked \subseteq lost
    BY <1>3, <1>7, NotInHand
  <2>2. Cardinality(Leaked) <= Cardinality(lost) /\ Cardinality(Leaked) \in Nat /\ Cardinality(lost) \in Nat
    BY <1>6, <2>1
  <2> QED BY <1>2, <1>4, <1>7, <2>2
<1>8. CASE pc # "idle"
  <2>1. ShortNow
    BY <1>1 DEF Kept
  <2>2. PICK x \in Index : \A c \in Index : InHand(c) =>
           c = x \/ (pc = "free" /\ c \in From(fat, At(data, Doomed).cluster))
    BY <2>1, OneInHand
  <2>3. pc = "free" => Doomed \in Ids(data, home)
    <3>1. pc = "free" => Removing(home, own, dy)
      BY <1>1 DEF TreeHolds, Steady, Freeing
    <3> QED BY <3>1 DEF Removing, Doomed, Freeing
  <2> DEFINE S == lost \union {x}
  <2>4. Leaked \subseteq S
    <3>1. Leaked \subseteq Index
      BY DEF Leaked
    <3> QED BY <1>3, <2>2, <2>3, <3>1
  <2>5. S \in SUBSET Index /\ Cardinality(S) <= crashes + 1
    BY <1>2, <1>4, AtMostOneMore
  <2> HIDE DEF S
  <2>6. Cardinality(Leaked) <= Cardinality(S) /\ Cardinality(Leaked) \in Nat /\ Cardinality(S) \in Nat
    BY <1>6, <2>4, <2>5
  <2> QED BY <1>4, <1>8, <2>5, <2>6
<1> QED BY <1>7, <1>8

(* NoLeak: between operations that neither the disk nor the power disturbed, *)
(* every cluster the FAT marks as used belongs to something that exists,     *)
(* for volumes and directories of any size: what mkdir and create took and   *)
(* could not use, and every cluster of what remove and rmdir took away, is   *)
(* free again.                                                               *)
THEOREM Fat32NoLeak == ASSUME OrdinaryUse, FullVolumes PROVE Spec => []NoLeak
<1>1. Init => TypeInv /\ KeptTree
  BY TypeInit, KeptInit
<1>2. TypeInv /\ KeptTree /\ [Next]_vars => (TypeInv /\ KeptTree)'
  BY TypeNext, KeptNext
<1>3. TypeInv /\ KeptTree => NoLeak
  BY KeptNoLeak
<1> QED BY <1>1, <1>2, <1>3, PTL DEF Spec

(* CrashLeaksOneCluster: on volumes where nothing is longer than two         *)
(* clusters, each power loss, wherever in whichever operation it falls, and  *)
(* the removals that are done over again after it, together cost at most     *)
(* one cluster.                                                              *)
THEOREM Fat32CrashLeaksOneCluster ==
  ASSUME OrdinaryUse, FullVolumes, ShortVolumes PROVE Spec => []CrashLeaksOneCluster
<1>1. Init => TypeInv /\ KeptTree
  BY TypeInit, KeptInit
<1>2. TypeInv /\ KeptTree /\ [Next]_vars => (TypeInv /\ KeptTree)'
  BY TypeNext, KeptNext
<1>3. TypeInv /\ KeptTree => CrashLeaksOneCluster
  BY KeptLeaksOne
<1> QED BY <1>1, <1>2, <1>3, PTL DEF Spec
=============================================================================
