------------------------------ MODULE VmmProofs ------------------------------
(***************************************************************************)
(* Proofs about the page tables, for every memory, number of levels and    *)
(* indices: types, tables that are never shared, and translations that are *)
(* what was mapped.                                                        *)
(***************************************************************************)
EXTENDS Vmm, WellFoundedInduction, TLAPS, FiniteSetTheorems

(* Induction over the natural numbers, stated of sets.                       *)
LEMMA LeastElement ==
  ASSUME NEW T \in SUBSET Nat, T # {}
  PROVE  \E x \in T : \A y \in T : x <= y
<1> DEFINE R == OpToRel(<, Nat)
<1>1. R = {z \in Nat \X Nat : z[1] < z[2]}
  BY DEF OpToRel
<1>2. IsWellFoundedOn(R, Nat)
  BY NatLessThanWellFounded
<1> HIDE DEF R
<1>3. PICK x \in T : \A y \in T : ~ (<<y, x>> \in R)
  BY <1>2, WFMin
<1>4. \A y \in T : <<y, x>> \in R <=> y < x
  BY <1>1
<1>5. ASSUME NEW y \in T PROVE x <= y
  <2>1. ~ (y < x)
    BY <1>3, <1>4
  <2> QED BY <2>1
<1> QED BY <1>5

(* A set of natural numbers with an upper bound has a greatest element.      *)
LEMMA GreatestElement ==
  ASSUME NEW T \in SUBSET Nat, T # {}, NEW n \in Nat, \A x \in T : x <= n
  PROVE  \E x \in T : \A y \in T : y <= x
<1> DEFINE U == {b \in Nat : \A x \in T : x <= b}
<1>1. PICK b \in U : \A c \in U : b <= c
  <2>1. U \in SUBSET Nat /\ U # {}
    OBVIOUS
  <2> HIDE DEF U
  <2> QED BY <2>1, LeastElement
<1>2. b \in T
  <2> SUFFICES ASSUME b \notin T PROVE FALSE
    OBVIOUS
  <2>1. \A x \in T : x < b
    OBVIOUS
  <2>2. PICK x \in T : x < b
    BY <2>1
  <2>3. b - 1 \in Nat
    BY <2>2
  <2>4. b - 1 \in U
    BY <2>1, <2>3
  <2> QED BY <1>1, <2>4
<1> QED BY <1>2

(* A set that holds 0 and the successor of each of its elements is Nat.      *)
LEMMA SetInduction ==
  ASSUME NEW S \in SUBSET Nat, 0 \in S, \A n \in S : n + 1 \in S
  PROVE  S = Nat
<1> SUFFICES ASSUME Nat \ S # {} PROVE FALSE
  OBVIOUS
<1>1. PICK x \in Nat \ S : \A y \in Nat \ S : x <= y
  BY LeastElement
<1>2. x # 0 /\ x - 1 \in Nat
  OBVIOUS
<1>3. x - 1 \in S
  BY <1>1, <1>2
<1> QED BY <1>2, <1>3

-----------------------------------------------------------------------------

(* p is the way to virtual page v as far as level n.                         *)
IsPath(mem, r, v, n, p) ==
  /\ p[1] = r
  /\ \A k \in 2..n : p[k] = IF p[k - 1] = NONE THEN NONE ELSE mem[p[k - 1]][v[k - 1]]

LEMMA PathExists ==
  ASSUME NEW mem, NEW r, NEW v, NEW n \in Nat
  PROVE  \E p : IsPath(mem, r, v, n, p)
<1> DEFINE S == {m \in Nat : \E p : IsPath(mem, r, v, m, p)}
<1>1. 0 \in S
  <2>1. IsPath(mem, r, v, 0, [k \in {1} |-> r])
    BY DEF IsPath
  <2> QED BY <2>1
<1>2. ASSUME NEW m \in S PROVE m + 1 \in S
  <2>1. PICK p : IsPath(mem, r, v, m, p)
    OBVIOUS
  <2> DEFINE q == [k \in 1..m + 1 |->
                    IF k = 1 THEN r ELSE IF k <= m THEN p[k]
                    ELSE IF p[m] = NONE THEN NONE ELSE mem[p[m]][v[m]]]
  <2>2. ASSUME NEW k \in 2..m + 1
        PROVE  q[k] = IF q[k - 1] = NONE THEN NONE ELSE mem[q[k - 1]][v[k - 1]]
    <3>0. m \in Nat /\ k - 1 \in 1..m + 1
      OBVIOUS
    <3>1. q[k - 1] = p[k - 1]
      BY <2>1, <3>0 DEF IsPath
    <3>2. CASE k <= m
      <4>1. q[k] = p[k]
        BY <3>0, <3>2
      <4>2. p[k] = IF p[k - 1] = NONE THEN NONE ELSE mem[p[k - 1]][v[k - 1]]
        BY <2>1, <3>0, <3>2 DEF IsPath
      <4> HIDE DEF q
      <4> QED BY <3>1, <4>1, <4>2
    <3>3. CASE k = m + 1
      <4>1. q[k] = IF p[m] = NONE THEN NONE ELSE mem[p[m]][v[m]]
        BY <3>0, <3>3
      <4>2. k - 1 = m
        BY <3>0, <3>3
      <4> HIDE DEF q
      <4> QED BY <3>1, <4>1, <4>2
    <3> QED BY <3>0, <3>2, <3>3
  <2>3. q[1] = r
    OBVIOUS
  <2> HIDE DEF q
  <2>4. IsPath(mem, r, v, m + 1, q)
    BY <2>2, <2>3 DEF IsPath
  <2> QED BY <2>4
<1>3. S = Nat
  <2> HIDE DEF S
  <2>1. S \in SUBSET Nat
    BY DEF S
  <2> QED BY <1>1, <1>2, <2>1, SetInduction
<1> QED BY <1>3

(* What the recursion of PathTo amounts to.                                  *)
LEMMA PathToIs ==
  ASSUME NEW mem, NEW r, NEW v
  PROVE  /\ IsPath(mem, r, v, Levels, PathTo(mem, r, v))
         /\ DOMAIN PathTo(mem, r, v) = 1..Levels
<1> DEFINE step(q) == [k \in 1..Levels |->
                        IF k = 1 THEN r
                        ELSE IF q[k - 1] = NONE THEN NONE ELSE mem[q[k - 1]][v[k - 1]]]
<1>0. Levels \in Nat /\ Levels >= 2
  BY VmmAssumption
<1>1. PICK p : IsPath(mem, r, v, Levels, p)
  BY <1>0, PathExists
<1> DEFINE q == [k \in 1..Levels |-> p[k]]
<1>2. q = step(q)
  <2>1. ASSUME NEW k \in 1..Levels PROVE q[k] = step(q)[k]
    <3>1. CASE k = 1
      BY <1>1, <3>1 DEF IsPath
    <3>2. CASE k # 1
      <4>1. k \in 2..Levels /\ k - 1 \in 1..Levels
        BY <1>0, <3>2
      <4>2. p[k] = IF p[k - 1] = NONE THEN NONE ELSE mem[p[k - 1]][v[k - 1]]
        BY <1>1, <4>1 DEF IsPath
      <4>3. q[k] = p[k] /\ q[k - 1] = p[k - 1]
        BY <4>1
      <4>4. step(q)[k] = IF q[k - 1] = NONE THEN NONE ELSE mem[q[k - 1]][v[k - 1]]
        BY <3>2
      <4> HIDE DEF q, step
      <4> QED BY <4>2, <4>3, <4>4
    <3> QED BY <3>1, <3>2
  <2> QED BY <2>1
<1>3. PathTo(mem, r, v) = CHOOSE f : f = step(f)
  BY DEF PathTo
<1> DEFINE f == PathTo(mem, r, v)
<1>4. f = step(f)
  <2> HIDE DEF q, step
  <2> QED BY <1>2, <1>3
<1>5. DOMAIN f = 1..Levels
  <2> HIDE DEF f
  <2> QED BY <1>4
<1>6. f[1] = r
  <2> HIDE DEF f
  <2>1. f[1] = step(f)[1]
    BY <1>4
  <2> QED BY <1>0, <2>1
<1>7. ASSUME NEW k \in 2..Levels
      PROVE  f[k] = IF f[k - 1] = NONE THEN NONE ELSE mem[f[k - 1]][v[k - 1]]
  <2> HIDE DEF f
  <2>1. f[k] = step(f)[k]
    BY <1>4
  <2>2. k \in 1..Levels /\ k # 1
    BY <1>0
  <2> QED BY <2>1, <2>2
<1> QED BY <1>5, <1>6, <1>7 DEF IsPath

VirtualPages == [1..Levels -> Indices]

LEMMA PathStep ==
  ASSUME NEW mem, NEW r, NEW v
  PROVE  /\ PathTo(mem, r, v)[1] = r
         /\ \A k \in 1..Levels - 1 :
              PathTo(mem, r, v)[k + 1] =
                IF PathTo(mem, r, v)[k] = NONE THEN NONE ELSE mem[PathTo(mem, r, v)[k]][v[k]]
<1>0. Levels \in Nat /\ Levels >= 2
  BY VmmAssumption
<1> DEFINE p == PathTo(mem, r, v)
<1>1. IsPath(mem, r, v, Levels, p)
  BY PathToIs
<1> HIDE DEF p
<1>2. ASSUME NEW k \in 1..Levels - 1
      PROVE  p[k + 1] = IF p[k] = NONE THEN NONE ELSE mem[p[k]][v[k]]
  <2>1. k + 1 \in 2..Levels /\ (k + 1) - 1 = k
    BY <1>0
  <2> QED BY <1>1, <2>1 DEF IsPath
<1>3. p[1] = r
  BY <1>1 DEF IsPath
<1> QED BY <1>2, <1>3 DEF p

(* The tables that are present come first on the way.                        *)
LEMMA DepthIs ==
  ASSUME NEW mem, NEW r, NEW v, r # NONE
  PROVE  /\ Depth(mem, r, v) \in 1..Levels
         /\ \A k \in 1..Levels : PathTo(mem, r, v)[k] # NONE <=> k <= Depth(mem, r, v)
<1>0. Levels \in Nat /\ Levels >= 2
  BY VmmAssumption
<1> DEFINE p == PathTo(mem, r, v)
           K == {k \in 1..Levels : p[k] # NONE}
<1>1. p[1] = r
  BY PathStep
<1>2. \A k \in 1..Levels - 1 : p[k] = NONE => p[k + 1] = NONE
  BY PathStep
<1>3. Depth(mem, r, v) = Cardinality(K)
  BY DEF Depth
<1> HIDE DEF p
<1>4. PICK d \in K : \A k \in K : k <= d
  <2>1. K \in SUBSET Nat /\ 1 \in K /\ \A k \in K : k <= Levels
    BY <1>0, <1>1
  <2> HIDE DEF K
  <2> QED BY <1>0, <2>1, GreatestElement
<1>5. d \in 1..Levels
  OBVIOUS
<1>6. ASSUME NEW j \in 1..d, j \notin K PROVE FALSE
  <2> DEFINE T == {k \in j..d : k \notin K}
  <2>1. PICK g \in T : \A k \in T : k <= g
    <3>1. T \in SUBSET Nat /\ T # {} /\ (\A k \in T : k <= d) /\ d \in Nat
      BY <1>0, <1>5, <1>6
    <3> HIDE DEF T
    <3> QED BY <1>5, <3>1, GreatestElement
  <2>2. g \in Nat /\ g \in j..d /\ g \notin K /\ g # d
    BY <1>0, <1>4, <1>5, <1>6
  <2>3. g \in 1..Levels - 1 /\ g + 1 \in j..d
    BY <1>0, <1>5, <1>6, <2>2
  <2>4. g + 1 \in K
    <3>1. ~ (g + 1 <= g)
      BY <2>2
    <3>2. g + 1 \notin T
      BY <2>1, <3>1
    <3> QED BY <2>3, <3>2
  <2>5. p[g] = NONE
    BY <1>0, <2>2, <2>3
  <2> QED BY <1>2, <2>3, <2>4, <2>5
<1>7. K = 1..d
  <2>1. K \subseteq 1..d
    BY <1>0, <1>4, <1>5
  <2>2. 1..d \subseteq K
    BY <1>6
  <2> QED BY <2>1, <2>2
<1>8. Cardinality(K) = d
  <2>1. Cardinality(1..d) = d
    BY <1>0, <1>5, FS_Interval
  <2> QED BY <1>7, <2>1
<1>9. ASSUME NEW k \in 1..Levels PROVE p[k] # NONE <=> k <= d
  <2>1. k \in K <=> k \in 1..d
    BY <1>7
  <2>2. k \in 1..d <=> k <= d
    BY <1>0, <1>5
  <2> QED BY <2>1, <2>2
<1> QED BY <1>3, <1>5, <1>8, <1>9 DEF p

LEMMA TranslateIs ==
  ASSUME NEW mem, NEW r, NEW v, r # NONE
  PROVE  Translate(mem, r, v) =
           IF PathTo(mem, r, v)[Levels] = NONE THEN NONE
           ELSE mem[PathTo(mem, r, v)[Levels]][v[Levels]]
<1>1. Levels \in 1..Levels /\ Levels \in Nat
  BY VmmAssumption
<1>2. Depth(mem, r, v) \in 1..Levels
      /\ (PathTo(mem, r, v)[Levels] # NONE <=> Levels <= Depth(mem, r, v))
  BY <1>1, DepthIs
<1>3. Depth(mem, r, v) < Levels <=> PathTo(mem, r, v)[Levels] = NONE
  BY <1>1, <1>2
<1> QED BY <1>3 DEF Translate

-----------------------------------------------------------------------------
(* The tables form trees: each has a level and a root; an entry above the    *)
(* last level that is present is a table of the next level and the same root,*)
(* found in no other entry; and each table but the roots is in an entry.     *)
Tree(mem, rs, live, lev, root) ==
  /\ lev \in [live -> 1..Levels] /\ root \in [live -> rs]
  /\ rs \subseteq live
  /\ \A t \in live : t \in rs <=> lev[t] = 1
  /\ \A r \in rs : root[r] = r
  /\ \A t \in live, i \in Indices :
       lev[t] < Levels /\ mem[t][i] # NONE =>
         /\ mem[t][i] \in live
         /\ lev[mem[t][i]] = lev[t] + 1
         /\ root[mem[t][i]] = root[t]
  /\ \A t, u \in live, i, j \in Indices :
       lev[t] < Levels /\ lev[u] < Levels /\ mem[t][i] # NONE /\ mem[t][i] = mem[u][j] =>
         t = u /\ i = j
  /\ \A t \in live : lev[t] > 1 =>
       \E u \in live, i \in Indices : lev[u] < Levels /\ mem[u][i] = t

LEMMA OnPath ==
  ASSUME NEW mem, NEW rs, NEW live, NEW lev, NEW root, Tree(mem, rs, live, lev, root),
         NEW r \in rs, NEW v \in VirtualPages, NEW k \in 1..Levels,
         PathTo(mem, r, v)[k] # NONE
  PROVE  /\ PathTo(mem, r, v)[k] \in live
         /\ lev[PathTo(mem, r, v)[k]] = k
         /\ root[PathTo(mem, r, v)[k]] = r
<1>0. Levels \in Nat /\ Levels >= 2
  BY VmmAssumption
<1> DEFINE p == PathTo(mem, r, v)
           S == {n \in Nat : n \in 1..Levels /\ p[n] # NONE =>
                               p[n] \in live /\ lev[p[n]] = n /\ root[p[n]] = r}
<1>1. 0 \in S
  OBVIOUS
<1>2. ASSUME NEW n \in S PROVE n + 1 \in S
  <2> SUFFICES ASSUME n + 1 \in 1..Levels, p[n + 1] # NONE
               PROVE  p[n + 1] \in live /\ lev[p[n + 1]] = n + 1 /\ root[p[n + 1]] = r
    OBVIOUS
  <2>1. n \in Nat
    OBVIOUS
  <2>2. CASE n = 0
    <3>1. p[1] = r
      BY PathStep
    <3>2. r \in live /\ lev[r] = 1 /\ root[r] = r
      BY DEF Tree
    <3> HIDE DEF p
    <3>3. n + 1 = 1
      BY <2>2
    <3> QED BY <3>1, <3>2, <3>3
  <2>3. CASE n # 0
    <3>1. n \in 1..Levels - 1 /\ n \in 1..Levels /\ n < Levels
      BY <1>0, <2>1, <2>3
    <3>2. p[n + 1] = IF p[n] = NONE THEN NONE ELSE mem[p[n]][v[n]]
      BY <3>1, PathStep
    <3> HIDE DEF p
    <3>3. p[n] # NONE /\ p[n + 1] = mem[p[n]][v[n]]
      BY <3>2
    <3>4. p[n] \in live /\ lev[p[n]] = n /\ root[p[n]] = r
      BY <3>1, <3>3
    <3>5. v[n] \in Indices
      BY <3>1 DEF VirtualPages
    <3> HIDE DEF S
    <3> QED BY <3>1, <3>3, <3>4, <3>5 DEF Tree
  <2> QED BY <2>2, <2>3
<1>3. k \in S
  <2>1. S \in SUBSET Nat
    OBVIOUS
  <2> HIDE DEF S
  <2>2. S = Nat
    BY <1>1, <1>2, <2>1, SetInduction
  <2> QED BY <1>0, <2>2
<1> QED BY <1>3

(* Two ways meet only where they are the same so far.                        *)
LEMMA PathsMeet ==
  ASSUME NEW mem, NEW rs, NEW live, NEW lev, NEW root, Tree(mem, rs, live, lev, root),
         NEW r \in rs, NEW v \in VirtualPages, NEW s \in rs, NEW w \in VirtualPages,
         NEW k \in 1..Levels,
         PathTo(mem, r, v)[k] # NONE, PathTo(mem, r, v)[k] = PathTo(mem, s, w)[k]
  PROVE  r = s /\ \A j \in 1..k - 1 : v[j] = w[j]
<1>0. Levels \in Nat /\ Levels >= 2
  BY VmmAssumption
<1> DEFINE p == PathTo(mem, r, v)
           q == PathTo(mem, s, w)
           S == {n \in Nat : n \in 1..Levels /\ p[n] # NONE /\ p[n] = q[n] =>
                               \A j \in 1..n - 1 : v[j] = w[j]}
<1>1. r = s
  BY OnPath
<1>2. 0 \in S
  OBVIOUS
<1>3. ASSUME NEW n \in S PROVE n + 1 \in S
  <2> SUFFICES ASSUME n + 1 \in 1..Levels, p[n + 1] # NONE, p[n + 1] = q[n + 1]
               PROVE  \A j \in 1..n : v[j] = w[j]
    OBVIOUS
  <2>1. n \in Nat
    OBVIOUS
  <2>2. CASE n = 0
    BY <2>2
  <2>3. CASE n # 0
    <3>1. n \in 1..Levels - 1 /\ n \in 1..Levels /\ n < Levels
      BY <1>0, <2>1, <2>3
    <3>2. /\ p[n + 1] = IF p[n] = NONE THEN NONE ELSE mem[p[n]][v[n]]
          /\ q[n + 1] = IF q[n] = NONE THEN NONE ELSE mem[q[n]][w[n]]
      BY <3>1, PathStep
    <3>3. p[n] # NONE /\ q[n] # NONE /\ mem[p[n]][v[n]] = mem[q[n]][w[n]] /\ mem[p[n]][v[n]] # NONE
      <4> HIDE DEF p, q
      <4> QED BY <3>2
    <3>4. p[n] \in live /\ lev[p[n]] = n /\ q[n] \in live /\ lev[q[n]] = n
      BY <3>1, <3>3, OnPath
    <3>5. v[n] \in Indices /\ w[n] \in Indices
      BY <3>1 DEF VirtualPages
    <3> HIDE DEF p, q
    <3>6. p[n] = q[n] /\ v[n] = w[n]
      BY <3>1, <3>3, <3>4, <3>5 DEF Tree
    <3>7. \A j \in 1..n - 1 : v[j] = w[j]
      BY <3>1, <3>3, <3>6
    <3> QED BY <2>1, <3>6, <3>7
  <2> QED BY <2>2, <2>3
<1>4. k \in S
  <2>1. S \in SUBSET Nat
    OBVIOUS
  <2> HIDE DEF S
  <2>2. S = Nat
    BY <1>2, <1>3, <2>1, SetInduction
  <2> QED BY <1>0, <2>2
<1> QED BY <1>1, <1>4

(* The tables of a root are those of its tree.                               *)
LEMMA TablesOfIs ==
  ASSUME NEW mem, NEW rs, NEW live, NEW lev, NEW root, Tree(mem, rs, live, lev, root),
         NONE \notin live, NEW r \in rs
  PROVE  TablesOf(mem, r) = {t \in live : root[t] = r}
<1> DEFINE step(f) == [k \in 1..Levels |->
                        IF k = 1 THEN {r}
                        ELSE {mem[t][i] : t \in f[k - 1], i \in Indices} \ {NONE}]
           At(k) == {t \in live : root[t] = r /\ lev[t] = k}
           at    == [k \in 1..Levels |-> At(k)]
<1>0. Levels \in Nat /\ Levels >= 2
  BY VmmAssumption
<1>1. At(1) = {r}
  <2>1. \A t \in At(1) : t \in rs /\ root[t] = t
    BY DEF Tree
  <2>2. r \in At(1)
    BY DEF Tree
  <2> QED BY <2>1, <2>2
<1>2. ASSUME NEW k \in 1..Levels, k # 1
      PROVE  At(k) = {mem[t][i] : t \in At(k - 1), i \in Indices} \ {NONE}
  <2>0. k \in Nat /\ k - 1 \in 1..Levels - 1 /\ (k - 1) + 1 = k /\ k - 1 < Levels
    BY <1>0, <1>2
  <2>1. ASSUME NEW t \in At(k - 1), NEW i \in Indices, mem[t][i] # NONE
        PROVE  mem[t][i] \in At(k)
    <3>1. t \in live /\ lev[t] = k - 1 /\ root[t] = r
      OBVIOUS
    <3>2. lev[t] < Levels
      BY <2>0, <3>1
    <3>3. mem[t][i] \in live /\ lev[mem[t][i]] = lev[t] + 1 /\ root[mem[t][i]] = root[t]
      BY <2>1, <3>1, <3>2 DEF Tree
    <3> QED BY <2>0, <3>1, <3>3
  <2>2. ASSUME NEW t \in At(k) PROVE \E u \in At(k - 1), i \in Indices : mem[u][i] = t
    <3>1. t \in live /\ lev[t] = k /\ root[t] = r /\ lev[t] > 1
      BY <1>0, <1>2
    <3>2. PICK u \in live, i \in Indices : lev[u] < Levels /\ mem[u][i] = t
      BY <3>1 DEF Tree
    <3>3. lev[t] = lev[u] + 1 /\ root[t] = root[u]
      BY <3>1, <3>2 DEF Tree
    <3>4. lev[u] \in Nat
      BY <1>0 DEF Tree
    <3>5. u \in At(k - 1)
      BY <2>0, <3>1, <3>3, <3>4
    <3> QED BY <3>2, <3>5
  <2>3. NONE \notin At(k)
    OBVIOUS
  <2> HIDE DEF At
  <2> QED BY <2>1, <2>2, <2>3
<1>3. at = step(at)
  <2> SUFFICES ASSUME NEW k \in 1..Levels PROVE at[k] = step(at)[k]
    OBVIOUS
  <2> HIDE DEF At
  <2>1. k # 1 => k - 1 \in 1..Levels
    BY <1>0
  <2>2. at[k] = At(k) /\ (k # 1 => at[k - 1] = At(k - 1))
    BY <2>1
  <2> HIDE DEF at
  <2>3. step(at)[k] = IF k = 1 THEN {r} ELSE {mem[t][i] : t \in at[k - 1], i \in Indices} \ {NONE}
    OBVIOUS
  <2> HIDE DEF step
  <2>4. CASE k = 1
    BY <1>1, <2>2, <2>3, <2>4
  <2>5. CASE k # 1
    <3>1. step(at)[k] = {mem[t][i] : t \in at[k - 1], i \in Indices} \ {NONE}
      BY <2>3, <2>5
    <3>2. At(k) = {mem[t][i] : t \in At(k - 1), i \in Indices} \ {NONE}
      BY <1>2, <2>5
    <3>3. at[k - 1] = At(k - 1)
      BY <2>2, <2>5
    <3> QED BY <2>2, <3>1, <3>2, <3>3
  <2> QED BY <2>4, <2>5
<1> DEFINE below == CHOOSE f : f = step(f)
<1>4. below = step(below)
  <2> HIDE DEF at, step
  <2> QED BY <1>3
<1>5. \A k \in 1..Levels : below[k] = At(k)
  <2> HIDE DEF below, At
  <2> DEFINE S == {k \in Nat : k \in 1..Levels => below[k] = At(k)}
  <2>1. 0 \in S
    OBVIOUS
  <2>2. ASSUME NEW k \in S PROVE k + 1 \in S
    <3> SUFFICES ASSUME k + 1 \in 1..Levels PROVE below[k + 1] = At(k + 1)
      OBVIOUS
    <3>0. k \in Nat
      OBVIOUS
    <3>1. below[k + 1] = step(below)[k + 1]
      <4> HIDE DEF step
      <4> QED BY <1>4
    <3>2. CASE k = 0
      <4>1. below[1] = {r}
        BY <3>1, <3>2
      <4> QED BY <1>1, <3>2, <4>1
    <3>3. CASE k # 0
      <4>1. k \in 1..Levels /\ k + 1 # 1 /\ (k + 1) - 1 = k
        BY <1>0, <3>0, <3>3
      <4>2. below[k + 1] = {mem[t][i] : t \in below[k], i \in Indices} \ {NONE}
        BY <3>1, <4>1
      <4>3. below[k] = At(k)
        BY <4>1
      <4>4. At(k + 1) = {mem[t][i] : t \in At((k + 1) - 1), i \in Indices} \ {NONE}
        BY <1>2, <4>1
      <4> QED BY <4>1, <4>2, <4>3, <4>4
    <3> QED BY <3>2, <3>3
  <2>3. S = Nat
    <3>1. S \in SUBSET Nat
      OBVIOUS
    <3> HIDE DEF S
    <3> QED BY <2>1, <2>2, <3>1, SetInduction
  <2> QED BY <1>0, <2>3
<1>6. TablesOf(mem, r) = UNION {below[k] : k \in 1..Levels}
  BY DEF TablesOf
<1>7. UNION {below[k] : k \in 1..Levels} = UNION {At(k) : k \in 1..Levels}
  <2> HIDE DEF below, At
  <2> QED BY <1>5
<1>8. UNION {At(k) : k \in 1..Levels} = {t \in live : root[t] = r}
  <2>1. \A t \in live : lev[t] \in 1..Levels
    BY DEF Tree
  <2> QED BY <2>1
<1> HIDE DEF below, At
<1> QED BY <1>6, <1>7, <1>8

-----------------------------------------------------------------------------
(* What the tables made for a path leave in memory.                          *)
IsMade(mem, path, v, depth, n, made) ==
  /\ made[depth] = mem
  /\ \A k \in depth + 1..n : made[k] = WithTable(made[k - 1], path[k - 1], v[k - 1], path[k])

LEMMA MadeExists ==
  ASSUME NEW mem, NEW path, NEW v, NEW depth \in Nat, NEW n \in Nat
  PROVE  \E made : IsMade(mem, path, v, depth, depth + n, made)
<1> DEFINE S == {m \in Nat : \E made : IsMade(mem, path, v, depth, depth + m, made)}
<1>1. 0 \in S
  <2>1. IsMade(mem, path, v, depth, depth + 0, [k \in {depth} |-> mem])
    BY DEF IsMade
  <2> QED BY <2>1
<1>2. ASSUME NEW m \in S PROVE m + 1 \in S
  <2>0. m \in Nat
    OBVIOUS
  <2>1. PICK p : IsMade(mem, path, v, depth, depth + m, p)
    OBVIOUS
  <2> DEFINE top == depth + m
             q == [k \in depth..top + 1 |->
                    IF k <= top THEN p[k] ELSE WithTable(p[top], path[top], v[top], path[k])]
  <2>2. ASSUME NEW k \in depth + 1..top + 1
        PROVE  q[k] = WithTable(q[k - 1], path[k - 1], v[k - 1], path[k])
    <3>0. k \in Nat /\ k - 1 \in depth..top + 1 /\ k \in depth..top + 1 /\ k - 1 <= top /\ top \in Nat
      BY <2>0
    <3>1. q[k - 1] = p[k - 1]
      BY <3>0
    <3>2. CASE k <= top
      <4>1. q[k] = p[k]
        BY <3>0, <3>2
      <4>2. k \in depth + 1..top
        BY <3>0, <3>2
      <4>3. p[k] = WithTable(p[k - 1], path[k - 1], v[k - 1], path[k])
        BY <2>1, <4>2 DEF IsMade
      <4> HIDE DEF q
      <4> QED BY <3>1, <4>1, <4>3
    <3>3. CASE k = top + 1
      <4>1. q[k] = WithTable(p[top], path[top], v[top], path[k])
        BY <3>0, <3>3
      <4>2. k - 1 = top
        BY <3>0, <3>3
      <4> HIDE DEF q
      <4> QED BY <3>1, <4>1, <4>2
    <3> QED BY <3>0, <3>2, <3>3
  <2>3. q[depth] = mem
    BY <2>0, <2>1 DEF IsMade
  <2>4. depth + (m + 1) = top + 1
    BY <2>0
  <2> HIDE DEF q, top
  <2>5. IsMade(mem, path, v, depth, depth + (m + 1), q)
    BY <2>2, <2>3, <2>4 DEF IsMade
  <2> QED BY <2>5
<1>3. S = Nat
  <2>1. S \in SUBSET Nat
    OBVIOUS
  <2> HIDE DEF S
  <2> QED BY <1>1, <1>2, <2>1, SetInduction
<1> QED BY <1>3

LEMMA WithTablesIs ==
  ASSUME NEW mem, NEW path, NEW v, NEW depth \in 1..Levels
  PROVE  \E made : /\ IsMade(mem, path, v, depth, Levels, made)
                   /\ WithTables(mem, path, v, depth) = made[Levels]
<1> DEFINE step(f) == [k \in depth..Levels |->
                        IF k = depth THEN mem
                        ELSE WithTable(f[k - 1], path[k - 1], v[k - 1], path[k])]
<1>0. Levels \in Nat /\ depth \in Nat /\ depth <= Levels
  BY VmmAssumption
<1>1. PICK p : IsMade(mem, path, v, depth, Levels, p)
  <2>1. Levels - depth \in Nat /\ depth + (Levels - depth) = Levels
    BY <1>0
  <2>2. \E p : IsMade(mem, path, v, depth, depth + (Levels - depth), p)
    BY <1>0, <2>1, MadeExists
  <2> QED BY <2>1, <2>2
<1> DEFINE q == [k \in depth..Levels |-> p[k]]
<1>2. q = step(q)
  <2> SUFFICES ASSUME NEW k \in depth..Levels PROVE q[k] = step(q)[k]
    OBVIOUS
  <2>1. CASE k = depth
    BY <1>1, <2>1 DEF IsMade
  <2>2. CASE k # depth
    <3>1. k \in depth + 1..Levels /\ k - 1 \in depth..Levels
      BY <1>0, <2>2
    <3>2. p[k] = WithTable(p[k - 1], path[k - 1], v[k - 1], path[k])
      BY <1>1, <3>1 DEF IsMade
    <3>3. q[k] = p[k] /\ q[k - 1] = p[k - 1]
      BY <3>1
    <3> HIDE DEF q
    <3>4. step(q)[k] = WithTable(q[k - 1], path[k - 1], v[k - 1], path[k])
      BY <2>2
    <3> HIDE DEF step
    <3> QED BY <3>2, <3>3, <3>4
  <2> QED BY <2>1, <2>2
<1> DEFINE f == CHOOSE f : f = step(f)
<1>3. f = step(f)
  <2> HIDE DEF q, step
  <2> QED BY <1>2
<1>4. WithTables(mem, path, v, depth) = f[Levels]
  BY DEF WithTables
<1> HIDE DEF f
<1>5. f[depth] = mem
  <2>1. f[depth] = step(f)[depth]
    <3> HIDE DEF step
    <3> QED BY <1>3
  <2> QED BY <1>0, <2>1
<1>6. ASSUME NEW k \in depth + 1..Levels
      PROVE  f[k] = WithTable(f[k - 1], path[k - 1], v[k - 1], path[k])
  <2>1. f[k] = step(f)[k]
    <3> HIDE DEF step
    <3> QED BY <1>3
  <2>2. k \in depth..Levels /\ k # depth
    BY <1>0
  <2> QED BY <2>1, <2>2
<1>7. IsMade(mem, path, v, depth, Levels, f)
  BY <1>5, <1>6 DEF IsMade
<1> QED BY <1>4, <1>7

(* The pages of memory and what an entry can hold.                           *)
Pages   == Frames \union {NULL}
Entries == Frames \union Targets \union {NULL, NONE}
Tables  == [Pages -> [Indices -> Entries]]

(* A table made keeps memory well-typed, whatever page it is made of.        *)
LEMMA WithTablesTyped ==
  ASSUME NEW mem \in Tables, NEW v \in VirtualPages, NEW depth \in 1..Levels,
         NEW path \in [1..Levels -> Pages]
  PROVE  WithTables(mem, path, v, depth) \in Tables
<1>0. Levels \in Nat /\ depth \in Nat /\ depth <= Levels
  BY VmmAssumption
<1>1. PICK made : /\ IsMade(mem, path, v, depth, Levels, made)
                  /\ WithTables(mem, path, v, depth) = made[Levels]
  BY WithTablesIs
<1> DEFINE S == {n \in Nat : depth + n <= Levels => made[depth + n] \in Tables}
<1>2. 0 \in S
  BY <1>0, <1>1 DEF IsMade
<1>3. ASSUME NEW n \in S PROVE n + 1 \in S
  <2> SUFFICES ASSUME depth + (n + 1) <= Levels PROVE made[depth + (n + 1)] \in Tables
    OBVIOUS
  <2> DEFINE k == depth + (n + 1)
  <2>1. k \in depth + 1..Levels /\ k - 1 = depth + n /\ k - 1 \in 1..Levels /\ k \in 1..Levels
    BY <1>0
  <2>2. made[k - 1] \in Tables
    BY <1>0, <2>1
  <2>3. made[k] = WithTable(made[k - 1], path[k - 1], v[k - 1], path[k])
    <3> HIDE DEF k
    <3> QED BY <1>1, <2>1 DEF IsMade
  <2> HIDE DEF k
  <2>4. path[k] \in Pages /\ path[k - 1] \in Pages /\ v[k - 1] \in Indices /\ path[k] \in Entries
    BY <2>1 DEF VirtualPages, Pages, Entries
  <2>5. Empty \in [Indices -> Entries]
    BY DEF Empty, Entries
  <2>6. [made[k - 1] EXCEPT ![path[k]] = Empty] \in Tables
    BY <2>2, <2>5 DEF Tables
  <2>7. made[k] \in Tables
    BY <2>3, <2>4, <2>6 DEF Tables, WithTable
  <2> QED BY <2>7 DEF k
<1>4. Levels - depth \in S /\ depth + (Levels - depth) = Levels
  <2>1. S \in SUBSET Nat
    OBVIOUS
  <2> HIDE DEF S
  <2>2. S = Nat
    BY <1>2, <1>3, <2>1, SetInduction
  <2> QED BY <1>0, <2>2
<1> QED BY <1>0, <1>1, <1>4

(* A table is empty and in one more entry of the one above it.               *)
OneMore(mem, new, above, index, table) ==
  /\ new \in Tables
  /\ \A f \in Pages \ {above, table} : new[f] = mem[f]
  /\ \A i \in Indices : new[table][i] = NONE
  /\ \A i \in Indices : new[above][i] = IF i = index THEN table ELSE mem[above][i]

LEMMA WithTableIs ==
  ASSUME NEW mem \in Tables, NEW above \in Pages, NEW table \in Pages, NEW index \in Indices,
         above # table
  PROVE  OneMore(mem, WithTable(mem, above, index, table), above, index, table)
<1>1. Empty \in [Indices -> Entries] /\ table \in Entries
  BY DEF Empty, Entries, Pages
<1> DEFINE m == [mem EXCEPT ![table] = Empty]
           new == [m EXCEPT ![above][index] = table]
<1>2. /\ m \in Tables /\ m[table] = Empty /\ m[above] = mem[above]
      /\ \A f \in Pages \ {above, table} : m[f] = mem[f]
  BY <1>1 DEF Tables
<1> HIDE DEF m
<1>3. /\ new \in Tables
      /\ \A f \in Pages \ {above} : new[f] = m[f]
      /\ new[above] = [m[above] EXCEPT ![index] = table]
  BY <1>1, <1>2 DEF Tables
<1>4. WithTable(mem, above, index, table) = new
  BY DEF WithTable, m
<1> HIDE DEF new
<1>5. m[above] \in [Indices -> Entries]
  BY <1>2 DEF Tables
<1>6. \A i \in Indices : new[above][i] = IF i = index THEN table ELSE mem[above][i]
  BY <1>2, <1>3, <1>5
<1>7. \A i \in Indices : new[table][i] = NONE
  BY <1>2, <1>3 DEF Empty
<1> QED BY <1>2, <1>3, <1>4, <1>6, <1>7 DEF OneMore

(* The pages of a path from level a to level b differ.                       *)
Apart(path, a, b) == \A j, k \in a..b : path[j] = path[k] => j = k

(* The tables of a path are made: each is in the entry of the one above and  *)
(* has no other entry, and nothing else has changed.                         *)
Whole(mem, new, path, v, depth) ==
  /\ new \in Tables
  /\ \A f \in Pages : (\A k \in depth..Levels : f # path[k]) => new[f] = mem[f]
  /\ \A k \in depth..Levels, i \in Indices :
       new[path[k]][i] = IF k < Levels /\ i = v[k] THEN path[k + 1]
                         ELSE IF k = depth THEN mem[path[k]][i] ELSE NONE

LEMMA WithTablesWhole ==
  ASSUME NEW mem \in Tables, NEW v \in VirtualPages, NEW depth \in 1..Levels,
         NEW path \in [1..Levels -> Pages], Apart(path, depth, Levels)
  PROVE  Whole(mem, WithTables(mem, path, v, depth), path, v, depth)
<1>0. Levels \in Nat /\ depth \in Nat /\ depth <= Levels
  BY VmmAssumption
<1>1. PICK made : /\ IsMade(mem, path, v, depth, Levels, made)
                  /\ WithTables(mem, path, v, depth) = made[Levels]
  BY WithTablesIs
<1> DEFINE Good(top) ==
             /\ made[top] \in Tables
             /\ \A f \in Pages : (\A k \in depth..top : f # path[k]) => made[top][f] = mem[f]
             /\ \A k \in depth..top, i \in Indices :
                  made[top][path[k]][i] = IF k < top /\ i = v[k] THEN path[k + 1]
                                          ELSE IF k = depth THEN mem[path[k]][i] ELSE NONE
           S == {n \in Nat : depth + n <= Levels => Good(depth + n)}
<1>2. 0 \in S
  <2>1. made[depth] = mem
    BY <1>1 DEF IsMade
  <2>2. depth + 0 = depth /\ depth..depth = {depth} /\ ~ (depth < depth)
    BY <1>0
  <2> QED BY <1>0, <2>1, <2>2
<1>3. ASSUME NEW n \in S PROVE n + 1 \in S
  <2> SUFFICES ASSUME depth + (n + 1) <= Levels PROVE Good(depth + (n + 1))
    OBVIOUS
  <2> DEFINE top == depth + n
             nxt == depth + (n + 1)
  <2>1. /\ top \in Nat /\ nxt = top + 1 /\ nxt - 1 = top
        /\ top \in depth..Levels /\ nxt \in depth..Levels /\ nxt \in depth + 1..Levels
        /\ top \in 1..Levels /\ nxt \in 1..Levels
    BY <1>0
  <2>2. Good(top)
    <3>1. top <= Levels
      BY <1>0, <2>1
    <3> HIDE DEF Good
    <3> QED BY <3>1
  <2> HIDE DEF S, top, nxt
  <2>3. made[nxt] = WithTable(made[top], path[top], v[top], path[nxt])
    BY <1>1, <2>1 DEF IsMade
  <2>4. path[nxt] \in Pages /\ path[top] \in Pages /\ v[top] \in Indices /\ path[nxt] # path[top]
    <3>1. nxt # top
      BY <2>1
    <3> QED BY <2>1, <3>1 DEF Apart, VirtualPages
  <2>5. /\ made[nxt] \in Tables
        /\ \A f \in Pages \ {path[top], path[nxt]} : made[nxt][f] = made[top][f]
        /\ \A i \in Indices : made[nxt][path[nxt]][i] = NONE
        /\ \A i \in Indices :
             made[nxt][path[top]][i] = IF i = v[top] THEN path[nxt] ELSE made[top][path[top]][i]
    <3>1. made[top] \in Tables
      BY <2>2
    <3> HIDE DEF Good
    <3>2. OneMore(made[top], made[nxt], path[top], v[top], path[nxt])
      BY <2>3, <2>4, <3>1, WithTableIs
    <3> QED BY <3>2 DEF OneMore
  <2>6. depth..nxt = (depth..top) \union {nxt} /\ nxt \notin depth..top /\ top \in depth..top
    BY <1>0, <2>1
  <2>7. ASSUME NEW f \in Pages, \A k \in depth..nxt : f # path[k] PROVE made[nxt][f] = mem[f]
    <3>1. f # path[nxt] /\ f # path[top] /\ \A k \in depth..top : f # path[k]
      BY <2>6, <2>7
    <3> QED BY <2>2, <2>5, <3>1
  <2>8. ASSUME NEW k \in depth..nxt, NEW i \in Indices
        PROVE  made[nxt][path[k]][i] = IF k < nxt /\ i = v[k] THEN path[k + 1]
                                       ELSE IF k = depth THEN mem[path[k]][i] ELSE NONE
    <3>0. k \in Nat /\ k \in depth..Levels /\ k \in 1..Levels /\ path[k] \in Pages
      BY <1>0, <2>1
    <3>1. CASE k = nxt
      <4>1. ~ (k < nxt) /\ k # depth
        BY <1>0, <2>1, <3>1
      <4> QED BY <2>5, <3>1, <4>1
    <3>2. CASE k = top
      <4>1. k < nxt /\ k + 1 = nxt /\ ~ (k < top)
        BY <2>1, <3>2
      <4>2. made[top][path[k]][i] = IF k = depth THEN mem[path[k]][i] ELSE NONE
        BY <2>2, <2>6, <3>2, <4>1
      <4>3. made[nxt][path[k]][i] = IF i = v[k] THEN path[k + 1] ELSE made[top][path[k]][i]
        BY <2>5, <3>2, <4>1
      <4> HIDE DEF Good
      <4> QED BY <4>1, <4>2, <4>3
    <3>3. CASE k # nxt /\ k # top
      <4>1. k \in depth..top /\ k < nxt /\ k < top
        BY <1>0, <2>1, <3>0, <3>3
      <4>2. path[k] # path[top] /\ path[k] # path[nxt]
        BY <2>1, <3>0, <3>3 DEF Apart
      <4>3. made[nxt][path[k]] = made[top][path[k]]
        BY <2>5, <3>0, <4>2
      <4>4. made[top][path[k]][i] = IF k < top /\ i = v[k] THEN path[k + 1]
                                    ELSE IF k = depth THEN mem[path[k]][i] ELSE NONE
        BY <2>2, <4>1
      <4> HIDE DEF Good
      <4> QED BY <4>1, <4>3, <4>4
    <3> QED BY <3>1, <3>2, <3>3
  <2>9. Good(nxt)
    BY <2>5, <2>7, <2>8
  <2> HIDE DEF Good
  <2> QED BY <2>9 DEF nxt
<1>4. Good(Levels)
  <2>1. Levels - depth \in Nat /\ depth + (Levels - depth) = Levels
    BY <1>0
  <2>2. S = Nat
    <3>1. S \in SUBSET Nat
      OBVIOUS
    <3> HIDE DEF S
    <3> QED BY <1>2, <1>3, <3>1, SetInduction
  <2>3. Levels - depth \in S
    <3> HIDE DEF S
    <3> QED BY <2>1, <2>2
  <2>4. Levels <= Levels
    BY <1>0
  <2> HIDE DEF Good
  <2> QED BY <2>1, <2>3, <2>4
<1> QED BY <1>1, <1>4 DEF Whole

-----------------------------------------------------------------------------
(* map_page, of a memory: path is the way to v, whose first depth tables     *)
(* were there and whose others are made of pages that are not in a tree.     *)
Maps(mem, new, live, r, v, depth, path, target) ==
  /\ depth = Depth(mem, r, v)
  /\ path \in [1..Levels -> Frames]
  /\ \A k \in 1..depth : path[k] = PathTo(mem, r, v)[k]
  /\ \A k \in depth + 1..Levels : path[k] \notin live
  /\ \A j, k \in depth + 1..Levels : path[j] = path[k] => j = k
  /\ new = [WithTables(mem, path, v, depth) EXCEPT ![path[Levels]][v[Levels]] = target]

LEMMA MapsPath ==
  ASSUME NEW mem, NEW new, NEW rs, NEW live, NEW lev, NEW root, Tree(mem, rs, live, lev, root),
         live \subseteq Frames,
         NEW r \in rs, NEW v \in VirtualPages, NEW depth, NEW path, NEW target,
         Maps(mem, new, live, r, v, depth, path, target)
  PROVE  /\ depth \in 1..Levels
         /\ \A k \in 1..Levels : PathTo(mem, r, v)[k] # NONE <=> k <= depth
         /\ \A k \in 1..depth : path[k] \in live /\ lev[path[k]] = k /\ root[path[k]] = r
         /\ Apart(path, 1, Levels)
<1>0. Levels \in Nat /\ Levels >= 2 /\ r # NONE
  BY VmmAssumption DEF Tree
<1>1. depth \in 1..Levels /\ \A k \in 1..Levels : PathTo(mem, r, v)[k] # NONE <=> k <= depth
  BY <1>0, DepthIs DEF Maps
<1>2. ASSUME NEW k \in 1..depth
      PROVE  path[k] \in live /\ lev[path[k]] = k /\ root[path[k]] = r
  <2>1. k \in 1..Levels /\ k <= depth
    BY <1>0, <1>1
  <2>2. PathTo(mem, r, v)[k] # NONE /\ path[k] = PathTo(mem, r, v)[k]
    BY <1>1, <2>1 DEF Maps
  <2> QED BY <2>1, <2>2, OnPath
<1>3. ASSUME NEW j \in 1..Levels, NEW k \in 1..Levels, path[j] = path[k] PROVE j = k
  <2>1. \A n \in 1..Levels : n \in 1..depth \/ n \in depth + 1..Levels
    BY <1>0, <1>1
  <2>2. CASE j \in 1..depth /\ k \in 1..depth
    BY <1>2, <1>3, <2>2
  <2>3. CASE j \in depth + 1..Levels /\ k \in depth + 1..Levels
    BY <1>3, <2>3 DEF Maps
  <2>4. CASE j \in 1..depth /\ k \in depth + 1..Levels
    BY <1>2, <1>3, <2>4 DEF Maps
  <2>5. CASE j \in depth + 1..Levels /\ k \in 1..depth
    BY <1>2, <1>3, <2>5 DEF Maps
  <2> QED BY <2>1, <2>2, <2>3, <2>4, <2>5
<1>4. Apart(path, 1, Levels)
  BY <1>3 DEF Apart
<1> QED BY <1>1, <1>2, <1>4

(* The same, and the entry for v in the last table is target.                *)
WholeTo(mem, new, path, v, depth, target) ==
  /\ new \in Tables
  /\ \A f \in Frames : (\A k \in depth..Levels : f # path[k]) => new[f] = mem[f]
  /\ \A k \in depth..Levels, i \in Indices :
       new[path[k]][i] = IF i = v[k] THEN IF k < Levels THEN path[k + 1] ELSE target
                         ELSE IF k = depth THEN mem[path[k]][i] ELSE NONE

LEMMA MapsMemory ==
  ASSUME NEW mem \in Tables, NEW new, NEW rs, NEW live, NEW lev, NEW root,
         Tree(mem, rs, live, lev, root), live \subseteq Frames,
         NEW r \in rs, NEW v \in VirtualPages, NEW depth, NEW path, NEW target \in Targets,
         Maps(mem, new, live, r, v, depth, path, target)
  PROVE  WholeTo(mem, new, path, v, depth, target)
<1>0. Levels \in Nat /\ Levels >= 2 /\ Levels \in 1..Levels
  BY VmmAssumption
<1>1. depth \in 1..Levels /\ Apart(path, 1, Levels)
  BY MapsPath
<1>2. depth..Levels \subseteq 1..Levels /\ Levels \in depth..Levels
  BY <1>0, <1>1
<1>3. path \in [1..Levels -> Pages] /\ v[Levels] \in Indices /\ target \in Entries
  BY <1>0 DEF Maps, Pages, VirtualPages, Entries
<1> DEFINE W == WithTables(mem, path, v, depth)
           last == path[Levels]
<1>4. /\ W \in Tables
      /\ \A f \in Pages : (\A k \in depth..Levels : f # path[k]) => W[f] = mem[f]
      /\ \A k \in depth..Levels, i \in Indices :
           W[path[k]][i] = IF k < Levels /\ i = v[k] THEN path[k + 1]
                           ELSE IF k = depth THEN mem[path[k]][i] ELSE NONE
  <2>1. Apart(path, depth, Levels)
    BY <1>1, <1>2 DEF Apart
  <2> HIDE DEF last, W
  <2>2. W = WithTables(mem, path, v, depth)
    BY DEF W
  <2>3. depth \in 1..Levels /\ path \in [1..Levels -> Pages]
    BY <1>1, <1>3
  <2>4. Whole(mem, W, path, v, depth)
    BY <2>1, <2>2, <2>3, WithTablesWhole
  <2> QED BY <2>4 DEF Whole
<1>5. new = [W EXCEPT ![last][v[Levels]] = target]
  BY DEF Maps
<1>6. last \in Pages
  BY <1>0, <1>3
<1> HIDE DEF W
<1>7. /\ new \in Tables
      /\ \A f \in Pages : f # last => new[f] = W[f]
      /\ \A i \in Indices : new[last][i] = IF i = v[Levels] THEN target ELSE W[last][i]
  BY <1>3, <1>4, <1>5, <1>6 DEF Tables
<1>8. ASSUME NEW f \in Frames, \A k \in depth..Levels : f # path[k] PROVE new[f] = mem[f]
  BY <1>2, <1>4, <1>7, <1>8 DEF Pages
<1>9. ASSUME NEW k \in depth..Levels, NEW i \in Indices
      PROVE  new[path[k]][i] = IF i = v[k] THEN IF k < Levels THEN path[k + 1] ELSE target
                               ELSE IF k = depth THEN mem[path[k]][i] ELSE NONE
  <2>0. k \in 1..Levels /\ path[k] \in Pages /\ k \in Nat /\ k <= Levels
    BY <1>0, <1>2, <1>3
  <2>1. CASE k = Levels
    <3>1. ~ (k < Levels)
      BY <1>0, <2>1
    <3> QED BY <1>4, <1>7, <2>1, <3>1
  <2>2. CASE k # Levels
    <3>1. k < Levels /\ path[k] # last
      BY <1>0, <1>1, <2>0, <2>2 DEF Apart
    <3>2. new[path[k]] = W[path[k]]
      BY <1>7, <2>0, <3>1
    <3> QED BY <1>4, <3>1, <3>2
  <2> QED BY <2>1, <2>2
<1> QED BY <1>7, <1>8, <1>9 DEF WholeTo

Added(path, depth) == {path[k] : k \in depth + 1..Levels}

(* map_page keeps the trees: the tables it makes join the tree of the root.  *)
LEMMA MapsTree ==
  ASSUME NEW mem \in Tables, NEW new, NEW rs, NEW live, NEW lev, NEW root,
         Tree(mem, rs, live, lev, root), live \subseteq Frames,
         NEW r \in rs, NEW v \in VirtualPages, NEW depth, NEW path, NEW target \in Targets,
         Maps(mem, new, live, r, v, depth, path, target)
  PROVE  \E lev2, root2 : Tree(new, rs, live \union Added(path, depth), lev2, root2)
<1>0. Levels \in Nat /\ Levels >= 2 /\ Levels \in 1..Levels
  BY VmmAssumption
<1>1. /\ depth \in 1..Levels
      /\ \A k \in 1..Levels : PathTo(mem, r, v)[k] # NONE <=> k <= depth
      /\ \A k \in 1..depth : path[k] \in live /\ lev[path[k]] = k /\ root[path[k]] = r
      /\ Apart(path, 1, Levels)
  BY MapsPath
<1>2. WholeTo(mem, new, path, v, depth, target)
  BY MapsMemory
<1>3. \A k \in depth + 1..Levels : path[k] \notin live
  BY DEF Maps
<1>4. depth..Levels \subseteq 1..Levels /\ depth \in Nat /\ depth \in 1..depth
  BY <1>0, <1>1
<1>5. \A k \in 1..Levels : path[k] \in Frames /\ path[k] # NONE /\ v[k] \in Indices
  BY VmmAssumption DEF Maps, VirtualPages
<1> DEFINE made == {path[k] : k \in depth + 1..Levels}
           all  == live \union made
           lev2 == [t \in all |-> IF t \in live THEN lev[t]
                                  ELSE CHOOSE k \in depth + 1..Levels : path[k] = t]
           root2 == [t \in all |-> IF t \in live THEN root[t] ELSE r]
<1>6. ASSUME NEW k \in depth + 1..Levels
      PROVE  path[k] \in all /\ path[k] \notin live /\ lev2[path[k]] = k /\ root2[path[k]] = r
  <2>1. path[k] \in all /\ path[k] \notin live
    BY <1>3
  <2>2. \A j \in depth + 1..Levels : path[j] = path[k] => j = k
    BY <1>1, <1>4 DEF Apart
  <2>3. (CHOOSE j \in depth + 1..Levels : path[j] = path[k]) = k
    BY <2>2
  <2> QED BY <2>1, <2>3
<1>7. ASSUME NEW t \in live PROVE t \in all /\ lev2[t] = lev[t] /\ root2[t] = root[t]
  OBVIOUS
<1>8. \A t \in all : t \in live \/ \E k \in depth + 1..Levels : t = path[k]
  OBVIOUS
<1>9. DOMAIN lev2 = all /\ DOMAIN root2 = all /\ live \subseteq all
  OBVIOUS
<1> HIDE DEF lev2, root2, made, all
<1>10. live \subseteq Frames /\ all \subseteq Frames
  BY <1>4, <1>5, <1>8
(* A table of one of the trees is unchanged, or is on the way to v.          *)
<1>11. ASSUME NEW t \in all
       PROVE  \/ t \in live /\ t # path[depth] /\ new[t] = mem[t]
              \/ \E k \in depth..Levels : t = path[k] /\ lev2[t] = k /\ root2[t] = r
  <2>1. CASE t \in live /\ t # path[depth]
    <3>1. \A k \in depth..Levels : t # path[k]
      <4>1. \A k \in depth..Levels : k = depth \/ k \in depth + 1..Levels
        BY <1>0, <1>4
      <4> QED BY <1>3, <2>1, <4>1
    <3> QED BY <1>2, <1>10, <2>1, <3>1 DEF WholeTo
  <2>2. CASE t = path[depth]
    <3>1. depth \in depth..Levels
      BY <1>0, <1>1
    <3> QED BY <1>1, <1>4, <1>7, <2>2, <3>1
  <2>3. CASE t \notin live
    <3>1. PICK k \in depth + 1..Levels : t = path[k]
      BY <1>8, <2>3
    <3>2. k \in depth..Levels
      BY <1>0, <1>4
    <3> QED BY <1>6, <3>1, <3>2
  <2> QED BY <2>1, <2>2, <2>3
<1>12. lev2 \in [all -> 1..Levels] /\ root2 \in [all -> rs]
  <2>1. ASSUME NEW t \in all PROVE lev2[t] \in 1..Levels /\ root2[t] \in rs
    <3>1. CASE t \in live
      BY <1>7, <3>1 DEF Tree
    <3>2. CASE t \notin live
      <4>1. PICK k \in depth + 1..Levels : t = path[k]
        BY <1>8, <3>2
      <4>2. k \in 1..Levels
        BY <1>0, <1>4
      <4> QED BY <1>6, <4>1, <4>2
    <3> QED BY <3>1, <3>2
  <2>2. lev2 = [t \in all |-> lev2[t]] /\ root2 = [t \in all |-> root2[t]]
    BY <1>9 DEF lev2, root2
  <2> QED BY <2>1, <2>2
<1>13. ASSUME NEW t \in all PROVE t \in rs <=> lev2[t] = 1
  <2>1. CASE t \in live
    BY <1>7, <2>1 DEF Tree
  <2>2. CASE t \notin live
    <3>1. PICK k \in depth + 1..Levels : t = path[k]
      BY <1>8, <2>2
    <3>2. k # 1
      BY <1>0, <1>1
    <3> QED BY <1>6, <2>2, <3>1, <3>2 DEF Tree
  <2> QED BY <2>1, <2>2
<1>14. rs \subseteq all /\ \A s \in rs : root2[s] = s
  BY <1>7 DEF Tree
(* An entry above the last level: as it was, or one of the way to v.         *)
<1>15. ASSUME NEW t \in all, NEW i \in Indices, lev2[t] < Levels, new[t][i] # NONE
       PROVE  \/ t \in live /\ lev[t] < Levels /\ new[t][i] = mem[t][i]
              \/ \E k \in depth..Levels - 1 : t = path[k] /\ i = v[k] /\ new[t][i] = path[k + 1]
  <2>1. CASE t \in live /\ t # path[depth] /\ new[t] = mem[t]
    BY <1>7, <1>15, <2>1
  <2>2. CASE \E k \in depth..Levels : t = path[k] /\ lev2[t] = k /\ root2[t] = r
    <3>1. PICK k \in depth..Levels : t = path[k] /\ lev2[t] = k
      BY <2>2
    <3>2. k < Levels /\ k \in depth..Levels - 1
      BY <1>0, <1>4, <1>15, <3>1
    <3>3. new[t][i] = IF i = v[k] THEN path[k + 1] ELSE IF k = depth THEN mem[path[k]][i] ELSE NONE
      BY <1>2, <3>1, <3>2 DEF WholeTo
    <3>4. CASE i = v[k]
      BY <3>1, <3>2, <3>3, <3>4
    <3>5. CASE i # v[k]
      <4>1. k = depth /\ new[t][i] = mem[t][i]
        BY <1>15, <3>1, <3>3, <3>5
      <4>2. t \in live /\ lev[t] < Levels
        BY <1>1, <1>4, <3>1, <3>2, <4>1
      <4> QED BY <4>1, <4>2
    <3> QED BY <3>4, <3>5
  <2> QED BY <1>11, <2>1, <2>2
<1>16. ASSUME NEW k \in depth..Levels - 1
       PROVE  /\ path[k + 1] \in all /\ path[k + 1] \notin live
              /\ lev2[path[k + 1]] = k + 1 /\ root2[path[k + 1]] = r
              /\ path[k] \in all /\ lev2[path[k]] = k /\ root2[path[k]] = r
  <2>1. k + 1 \in depth + 1..Levels /\ (k = depth \/ k \in depth + 1..Levels)
    BY <1>0, <1>4
  <2>2. CASE k = depth
    BY <1>1, <1>4, <1>6, <1>7, <2>1, <2>2
  <2>3. CASE k \in depth + 1..Levels
    BY <1>6, <2>1, <2>3
  <2> QED BY <2>1, <2>2, <2>3
<1>17. ASSUME NEW t \in all, NEW i \in Indices, lev2[t] < Levels, new[t][i] # NONE
       PROVE  /\ new[t][i] \in all
              /\ lev2[new[t][i]] = lev2[t] + 1
              /\ root2[new[t][i]] = root2[t]
  <2>1. CASE t \in live /\ lev[t] < Levels /\ new[t][i] = mem[t][i]
    <3>1. mem[t][i] \in live /\ lev[mem[t][i]] = lev[t] + 1 /\ root[mem[t][i]] = root[t]
      BY <1>17, <2>1 DEF Tree
    <3> QED BY <1>7, <2>1, <3>1
  <2>2. CASE \E k \in depth..Levels - 1 : t = path[k] /\ i = v[k] /\ new[t][i] = path[k + 1]
    BY <1>16, <2>2
  <2> QED BY <1>15, <1>17, <2>1, <2>2
<1>18. ASSUME NEW t \in all, NEW u \in all, NEW i \in Indices, NEW j \in Indices,
              lev2[t] < Levels, lev2[u] < Levels, new[t][i] # NONE, new[t][i] = new[u][j]
       PROVE  t = u /\ i = j
  <2>1. \/ t \in live /\ lev[t] < Levels /\ new[t][i] = mem[t][i]
        \/ \E k \in depth..Levels - 1 : t = path[k] /\ i = v[k] /\ new[t][i] = path[k + 1]
    BY <1>15, <1>18
  <2>2. \/ u \in live /\ lev[u] < Levels /\ new[u][j] = mem[u][j]
        \/ \E k \in depth..Levels - 1 : u = path[k] /\ j = v[k] /\ new[u][j] = path[k + 1]
    BY <1>15, <1>18
  <2>3. \A w \in live, n \in Indices : lev[w] < Levels /\ mem[w][n] # NONE => mem[w][n] \in live
    BY DEF Tree
  <2>4. CASE t \in live /\ lev[t] < Levels /\ new[t][i] = mem[t][i] /\ u \in live /\ lev[u] < Levels
               /\ new[u][j] = mem[u][j]
    <3>1. \A a, b \in live, m, n \in Indices :
            lev[a] < Levels /\ lev[b] < Levels /\ mem[a][m] # NONE /\ mem[a][m] = mem[b][n] =>
              a = b /\ m = n
      BY DEF Tree
    <3>2. mem[t][i] # NONE /\ mem[t][i] = mem[u][j]
      BY <1>18, <2>4
    <3> QED BY <2>4, <3>1, <3>2
  <2>5. CASE new[t][i] \notin live
    <3>1. PICK k \in depth..Levels - 1 : t = path[k] /\ i = v[k] /\ new[t][i] = path[k + 1]
      BY <1>18, <2>1, <2>3, <2>5
    <3>2. PICK n \in depth..Levels - 1 : u = path[n] /\ j = v[n] /\ new[u][j] = path[n + 1]
      BY <1>18, <2>2, <2>3, <2>5
    <3>3. k + 1 \in 1..Levels /\ n + 1 \in 1..Levels /\ k \in Nat /\ n \in Nat
      BY <1>0, <1>4
    <3>4. k + 1 = n + 1
      BY <1>1, <1>18, <3>1, <3>2, <3>3 DEF Apart
    <3>5. k = n
      BY <3>3, <3>4
    <3> QED BY <3>1, <3>2, <3>5
  <2> QED BY <1>16, <1>18, <2>1, <2>2, <2>4, <2>5
<1>19. ASSUME NEW t \in all, lev2[t] > 1
       PROVE  \E u \in all, i \in Indices : lev2[u] < Levels /\ new[u][i] = t
  <2>1. CASE t \notin live
    <3>1. PICK k \in depth + 1..Levels : t = path[k]
      BY <1>8, <2>1
    <3>2. k - 1 \in depth..Levels - 1 /\ k - 1 \in depth..Levels /\ (k - 1) + 1 = k /\ k - 1 < Levels
          /\ k - 1 \in 1..Levels
      BY <1>0, <1>4
    <3> DEFINE u == path[k - 1]
    <3>3. u \in all /\ lev2[u] < Levels
      BY <1>16, <3>2
    <3>4. new[u][v[k - 1]] = path[(k - 1) + 1] /\ v[k - 1] \in Indices
      BY <1>2, <1>5, <3>2 DEF WholeTo
    <3> QED BY <3>1, <3>2, <3>3, <3>4
  <2>2. CASE t \in live
    <3>1. PICK u \in live, i \in Indices : lev[u] < Levels /\ mem[u][i] = t
      BY <1>7, <1>19, <2>2 DEF Tree
    <3>2. u \in all /\ lev2[u] < Levels
      BY <1>7, <3>1
    <3>3. CASE new[u] = mem[u]
      BY <3>1, <3>2, <3>3
    <3>4. CASE \E k \in depth..Levels : u = path[k] /\ lev2[u] = k
      <4>1. PICK k \in depth..Levels : u = path[k] /\ lev2[u] = k
        BY <3>4
      <4>2. k = depth
        <5>1. k = depth \/ k \in depth + 1..Levels
          BY <1>0, <1>4
        <5> QED BY <1>3, <4>1, <5>1
      <4>3. k < Levels
        BY <3>2, <4>1
      <4>4. i # v[k]
        <5>1. k \in 1..Levels - 1 /\ k + 1 \in 1..Levels /\ ~ (k + 1 <= depth) /\ k \in 1..depth
              /\ k \in 1..Levels /\ k <= depth
          BY <1>0, <1>1, <4>2, <4>3
        <5>2. PathTo(mem, r, v)[k + 1] = NONE
          BY <1>1, <5>1
        <5>3. PathTo(mem, r, v)[k] # NONE /\ PathTo(mem, r, v)[k] = u
          BY <1>1, <4>1, <4>2, <5>1 DEF Maps
        <5>4. mem[u][v[k]] = NONE
          BY <5>1, <5>2, <5>3, PathStep
        <5>5. t # NONE
          BY <1>10, <2>2, VmmAssumption
        <5> QED BY <3>1, <5>4, <5>5
      <4>5. new[u][i] = mem[u][i]
        BY <1>2, <4>1, <4>2, <4>3, <4>4 DEF WholeTo
      <4> QED BY <3>1, <3>2, <4>5
    <3> QED BY <1>11, <3>2, <3>3, <3>4
  <2> QED BY <2>1, <2>2
<1>20. Tree(new, rs, all, lev2, root2)
  BY <1>12, <1>13, <1>14, <1>17, <1>18, <1>19 DEF Tree
<1> QED BY <1>20 DEF all, made, Added

(* A way through tables that two memories have alike is the same in both.    *)
LEMMA PathFrame ==
  ASSUME NEW mem, NEW new, NEW rs, NEW live, NEW lev, NEW root, Tree(mem, rs, live, lev, root),
         NEW s \in rs, NEW w \in VirtualPages,
         \A t \in live, i \in Indices : lev[t] < Levels => new[t][i] = mem[t][i],
         NEW k \in 1..Levels
  PROVE  PathTo(new, s, w)[k] = PathTo(mem, s, w)[k]
<1>0. Levels \in Nat /\ Levels >= 2
  BY VmmAssumption
<1> DEFINE p == PathTo(mem, s, w)
           q == PathTo(new, s, w)
           S == {n \in Nat : n \in 1..Levels => q[n] = p[n]}
<1>1. 0 \in S
  OBVIOUS
<1>2. ASSUME NEW n \in S PROVE n + 1 \in S
  <2> SUFFICES ASSUME n + 1 \in 1..Levels PROVE q[n + 1] = p[n + 1]
    OBVIOUS
  <2>1. n \in Nat
    OBVIOUS
  <2>2. CASE n = 0
    <3>1. p[1] = s /\ q[1] = s
      BY PathStep
    <3> HIDE DEF p, q
    <3> QED BY <2>2, <3>1
  <2>3. CASE n # 0
    <3>1. n \in 1..Levels - 1 /\ n \in 1..Levels /\ n < Levels
      BY <1>0, <2>1, <2>3
    <3>2. /\ p[n + 1] = IF p[n] = NONE THEN NONE ELSE mem[p[n]][w[n]]
          /\ q[n + 1] = IF q[n] = NONE THEN NONE ELSE new[q[n]][w[n]]
      BY <3>1, PathStep
    <3>3. p[n] # NONE => p[n] \in live /\ lev[p[n]] = n
      BY <3>1, OnPath
    <3>4. w[n] \in Indices
      BY <3>1 DEF VirtualPages
    <3> HIDE DEF p, q
    <3>5. q[n] = p[n]
      BY <3>1
    <3> HIDE DEF S
    <3> QED BY <3>1, <3>2, <3>3, <3>4, <3>5
  <2> QED BY <2>2, <2>3
<1>3. k \in S
  <2>1. S \in SUBSET Nat
    OBVIOUS
  <2> HIDE DEF S
  <2>2. S = Nat
    BY <1>1, <1>2, <2>1, SetInduction
  <2> QED BY <1>0, <2>2
<1> QED BY <1>3

(* map_page maps one virtual page of one root and disturbs no other.         *)
LEMMA MapsTranslate ==
  ASSUME NEW mem \in Tables, NEW new, NEW rs, NEW live, NEW lev, NEW root,
         Tree(mem, rs, live, lev, root), live \subseteq Frames,
         NEW r \in rs, NEW v \in VirtualPages, NEW depth, NEW path, NEW target \in Targets,
         Maps(mem, new, live, r, v, depth, path, target),
         NEW s \in rs, NEW w \in VirtualPages
  PROVE  Translate(new, s, w) = IF s = r /\ w = v THEN target ELSE Translate(mem, s, w)
<1>0. Levels \in Nat /\ Levels >= 2 /\ Levels \in 1..Levels /\ r # NONE /\ s # NONE
  BY VmmAssumption DEF Tree
<1>1. /\ depth \in 1..Levels
      /\ \A k \in 1..Levels : PathTo(mem, r, v)[k] # NONE <=> k <= depth
      /\ \A k \in 1..depth : path[k] \in live /\ lev[path[k]] = k /\ root[path[k]] = r
      /\ Apart(path, 1, Levels)
  BY MapsPath
<1>2. WholeTo(mem, new, path, v, depth, target)
  BY MapsMemory
<1>3. \A k \in depth + 1..Levels : path[k] \notin live
  BY DEF Maps
<1>4. \A k \in 1..depth : path[k] = PathTo(mem, r, v)[k]
  BY DEF Maps
<1>5. \A k \in 1..Levels : path[k] \in Frames /\ path[k] # NONE /\ v[k] \in Indices /\ w[k] \in Indices
  BY VmmAssumption DEF Maps, VirtualPages
<1> DEFINE o == PathTo(mem, r, v)
           p == PathTo(mem, s, w)
           q == PathTo(new, s, w)
           Same(k) == s = r /\ \A j \in 1..k - 1 : w[j] = v[j]
           S == {n \in Nat : n \in 1..Levels => q[n] = IF Same(n) THEN path[n] ELSE p[n]}
(* The way to w in the old memory follows the way to v while w does.         *)
<1>6. ASSUME NEW k \in 1..Levels, Same(k) PROVE p[k] = o[k]
  <2> DEFINE T == {n \in Nat : n \in 1..Levels /\ Same(n) => p[n] = o[n]}
  <2>1. 0 \in T
    OBVIOUS
  <2>2. ASSUME NEW n \in T PROVE n + 1 \in T
    <3> SUFFICES ASSUME n + 1 \in 1..Levels, Same(n + 1) PROVE p[n + 1] = o[n + 1]
      OBVIOUS
    <3>1. n \in Nat
      OBVIOUS
    <3>2. CASE n = 0
      <4>1. p[1] = s /\ o[1] = r
        BY PathStep
      <4> HIDE DEF p, o
      <4> QED BY <3>2, <4>1
    <3>3. CASE n # 0
      <4>1. n \in 1..Levels - 1 /\ n \in 1..Levels /\ n \in 1..(n + 1) - 1
        BY <1>0, <3>1, <3>3
      <4>2. Same(n) /\ w[n] = v[n]
        BY <3>1, <4>1
      <4>3. p[n] = o[n]
        <5> HIDE DEF p, o, Same
        <5> QED BY <4>1, <4>2
      <4>4. /\ p[n + 1] = IF p[n] = NONE THEN NONE ELSE mem[p[n]][w[n]]
            /\ o[n + 1] = IF o[n] = NONE THEN NONE ELSE mem[o[n]][v[n]]
        BY <4>1, PathStep
      <4> HIDE DEF p, o, Same
      <4> QED BY <4>2, <4>3, <4>4
    <3> QED BY <3>2, <3>3
  <2>3. T = Nat
    <3>1. T \in SUBSET Nat
      OBVIOUS
    <3> HIDE DEF T
    <3> QED BY <2>1, <2>2, <3>1, SetInduction
  <2> QED BY <1>0, <1>6, <2>3
(* A table on the way to w that is not the way to v is as it was.            *)
<1>7. ASSUME NEW k \in 1..Levels, ~Same(k), p[k] # NONE PROVE p[k] \in live /\ new[p[k]] = mem[p[k]]
  <2>1. p[k] \in live /\ lev[p[k]] = k
    BY <1>7, OnPath
  <2>2. p[k] # path[depth]
    <3> SUFFICES ASSUME p[k] = path[depth] PROVE FALSE
      OBVIOUS
    <3>1. depth \in 1..depth /\ depth \in 1..Levels
      BY <1>0, <1>1
    <3>2. k = depth
      BY <1>1, <2>1, <3>1
    <3>3. PathTo(mem, s, w)[k] = PathTo(mem, r, v)[k] /\ PathTo(mem, s, w)[k] # NONE
      BY <1>4, <1>7, <3>1, <3>2
    <3>4. s = r /\ \A j \in 1..k - 1 : w[j] = v[j]
      BY <3>3, PathsMeet
    <3> QED BY <1>7, <3>4
  <2>3. \A j \in depth..Levels : p[k] # path[j]
    <3>1. \A j \in depth..Levels : j = depth \/ j \in depth + 1..Levels
      BY <1>0, <1>1
    <3> HIDE DEF p
    <3> QED BY <1>3, <2>1, <2>2, <3>1
  <2> HIDE DEF p
  <2> QED BY <1>2, <2>1, <2>3 DEF WholeTo
(* On the way to v, an index that leaves it leads where it led.              *)
<1>8. ASSUME NEW k \in 1..Levels, Same(k), w[k] # v[k]
      PROVE  new[path[k]][w[k]] = IF p[k] = NONE THEN NONE ELSE mem[p[k]][w[k]]
  <2>1. p[k] = o[k]
    BY <1>6, <1>8
  <2>2. CASE k < depth
    <3>1. k \in 1..depth /\ k <= depth
      BY <1>0, <1>1, <2>2
    <3>2. o[k] # NONE /\ path[k] = o[k] /\ path[k] \in live
      BY <1>1, <1>4, <3>1
    <3>3. \A j \in depth..Levels : path[k] # path[j]
      <4>1. \A j \in depth..Levels : j \in 1..Levels /\ j # k
        BY <1>0, <1>1, <2>2
      <4> QED BY <1>1, <4>1 DEF Apart
    <3>4. new[path[k]] = mem[path[k]]
      BY <1>2, <1>5, <3>3 DEF WholeTo
    <3> HIDE DEF p, o
    <3> QED BY <2>1, <3>2, <3>4
  <2>3. CASE k = depth
    <3>1. k \in 1..depth /\ k <= depth /\ k \in depth..Levels
      BY <1>0, <1>1, <2>3
    <3>2. o[k] # NONE /\ path[k] = o[k]
      BY <1>1, <1>4, <3>1
    <3>3. new[path[k]][w[k]] = mem[path[k]][w[k]]
      BY <1>2, <1>5, <1>8, <2>3, <3>1 DEF WholeTo
    <3> HIDE DEF p, o
    <3> QED BY <2>1, <3>2, <3>3
  <2>4. CASE k > depth
    <3>1. k \in depth..Levels /\ k # depth /\ ~ (k <= depth)
      BY <1>0, <1>1, <2>4
    <3>2. o[k] = NONE
      BY <1>1, <3>1
    <3>3. new[path[k]][w[k]] = NONE
      BY <1>2, <1>5, <1>8, <3>1 DEF WholeTo
    <3> HIDE DEF p, o
    <3> QED BY <2>1, <3>2, <3>3
  <2> QED BY <1>0, <1>1, <2>2, <2>3, <2>4
<1>9. 0 \in S
  OBVIOUS
<1>10. ASSUME NEW n \in S PROVE n + 1 \in S
  <2> SUFFICES ASSUME n + 1 \in 1..Levels
               PROVE  q[n + 1] = IF Same(n + 1) THEN path[n + 1] ELSE p[n + 1]
    OBVIOUS
  <2>1. n \in Nat
    OBVIOUS
  <2>2. CASE n = 0
    <3>1. p[1] = s /\ q[1] = s
      BY PathStep
    <3>2. path[1] = r
      <4>1. 1 \in 1..depth
        BY <1>0, <1>1
      <4>2. path[1] = PathTo(mem, r, v)[1]
        BY <1>4, <4>1
      <4> QED BY <4>2, PathStep
    <3>3. Same(1) <=> s = r
      OBVIOUS
    <3> HIDE DEF p, q, Same
    <3> QED BY <2>2, <3>1, <3>2, <3>3
  <2>3. CASE n # 0
    <3>1. n \in 1..Levels - 1 /\ n \in 1..Levels /\ n < Levels
      BY <1>0, <2>1, <2>3
    <3>2. /\ p[n + 1] = IF p[n] = NONE THEN NONE ELSE mem[p[n]][w[n]]
          /\ q[n + 1] = IF q[n] = NONE THEN NONE ELSE new[q[n]][w[n]]
      BY <3>1, PathStep
    <3>3. q[n] = IF Same(n) THEN path[n] ELSE p[n]
      <4> HIDE DEF p, q, Same
      <4> QED BY <3>1
    <3>4. Same(n + 1) <=> Same(n) /\ w[n] = v[n]
      <4>1. 1..(n + 1) - 1 = (1..n - 1) \union {n}
        BY <2>1, <2>3
      <4> QED BY <4>1
    <3>5. CASE ~Same(n)
      <4>1. p[n] # NONE => new[p[n]] = mem[p[n]]
        BY <1>7, <3>1, <3>5
      <4> HIDE DEF p, q, Same, S
      <4> QED BY <3>2, <3>3, <3>4, <3>5, <4>1
    <3>6. CASE Same(n) /\ w[n] # v[n]
      <4>1. new[path[n]][w[n]] = IF p[n] = NONE THEN NONE ELSE mem[p[n]][w[n]]
        BY <1>8, <3>1, <3>6
      <4> HIDE DEF p, q, Same, S
      <4> QED BY <1>5, <3>1, <3>2, <3>3, <3>4, <3>6, <4>1
    <3>7. CASE Same(n) /\ w[n] = v[n]
      <4>1. new[path[n]][v[n]] = path[n + 1]
        <5>1. CASE n >= depth
          <6>1. n \in depth..Levels
            BY <1>0, <1>1, <3>1, <5>1
          <6> QED BY <1>2, <1>5, <3>1, <6>1 DEF WholeTo
        <5>2. CASE n < depth
          <6>1. n \in 1..depth /\ n + 1 \in 1..depth
            BY <1>0, <1>1, <3>1, <5>2
          <6>2. path[n] = o[n] /\ path[n + 1] = o[n + 1]
            BY <1>4, <6>1
          <6>3. o[n + 1] = IF o[n] = NONE THEN NONE ELSE mem[o[n]][v[n]]
            BY <3>1, PathStep
          <6>4. o[n] # NONE
            BY <1>5, <3>1, <6>2
          <6>5. \A j \in depth..Levels : path[n] # path[j]
            <7>1. \A j \in depth..Levels : j \in 1..Levels /\ j # n
              BY <1>0, <1>1, <5>2, <3>1
            <7> QED BY <1>1, <3>1, <7>1 DEF Apart
          <6>6. new[path[n]] = mem[path[n]]
            BY <1>2, <1>5, <3>1, <6>5 DEF WholeTo
          <6> HIDE DEF o
          <6> QED BY <6>2, <6>3, <6>4, <6>6
        <5> QED BY <1>0, <1>1, <3>1, <5>1, <5>2
      <4> HIDE DEF p, q, Same, S
      <4> QED BY <1>5, <3>1, <3>2, <3>3, <3>4, <3>7, <4>1
    <3> QED BY <3>5, <3>6, <3>7
  <2> QED BY <2>2, <2>3
<1>11. q[Levels] = IF Same(Levels) THEN path[Levels] ELSE p[Levels]
  <2>1. S \in SUBSET Nat
    OBVIOUS
  <2> HIDE DEF S
  <2>2. S = Nat
    BY <1>9, <1>10, <2>1, SetInduction
  <2>3. Levels \in S
    BY <1>0, <2>2
  <2> HIDE DEF p, q, Same
  <2> QED BY <1>0, <2>3 DEF S
<1>12. /\ Translate(new, s, w) = IF q[Levels] = NONE THEN NONE ELSE new[q[Levels]][w[Levels]]
       /\ Translate(mem, s, w) = IF p[Levels] = NONE THEN NONE ELSE mem[p[Levels]][w[Levels]]
  BY <1>0, TranslateIs
<1>13. s = r /\ w = v <=> Same(Levels) /\ w[Levels] = v[Levels]
  <2>1. 1..Levels = (1..Levels - 1) \union {Levels}
    BY <1>0
  <2>2. w = v <=> \A j \in 1..Levels : w[j] = v[j]
    <3>1. w = [j \in 1..Levels |-> w[j]] /\ v = [j \in 1..Levels |-> v[j]]
      BY DEF VirtualPages
    <3> QED BY <3>1
  <2> QED BY <2>1, <2>2
<1>14. CASE ~Same(Levels)
  <2>1. p[Levels] # NONE => new[p[Levels]] = mem[p[Levels]]
    BY <1>0, <1>7, <1>14
  <2> HIDE DEF p, q, Same, S
  <2> QED BY <1>11, <1>12, <1>13, <1>14, <2>1
<1>15. CASE Same(Levels) /\ w[Levels] # v[Levels]
  <2>1. new[path[Levels]][w[Levels]] = IF p[Levels] = NONE THEN NONE ELSE mem[p[Levels]][w[Levels]]
    BY <1>0, <1>8, <1>15
  <2> HIDE DEF p, q, Same, S
  <2> QED BY <1>0, <1>5, <1>11, <1>12, <1>13, <1>15, <2>1
<1>16. CASE Same(Levels) /\ w[Levels] = v[Levels]
  <2>1. Levels \in depth..Levels /\ ~ (Levels < Levels)
    BY <1>0, <1>1
  <2>2. new[path[Levels]][v[Levels]] = target
    BY <1>0, <1>2, <1>5, <2>1 DEF WholeTo
  <2> HIDE DEF p, q, Same, S
  <2> QED BY <1>0, <1>5, <1>11, <1>12, <1>13, <1>16, <2>2
<1> QED BY <1>14, <1>15, <1>16

(* Trees depend on the entries above the last level.                         *)
LEMMA TreeFrame ==
  ASSUME NEW mem, NEW new, NEW rs, NEW live, NEW lev, NEW root, Tree(mem, rs, live, lev, root),
         \A t \in live, i \in Indices : lev[t] < Levels => new[t][i] = mem[t][i]
  PROVE  Tree(new, rs, live, lev, root)
<1>1. ASSUME NEW t \in live, lev[t] > 1
      PROVE  \E u \in live, i \in Indices : lev[u] < Levels /\ new[u][i] = t
  <2>1. PICK u \in live, i \in Indices : lev[u] < Levels /\ mem[u][i] = t
    BY <1>1 DEF Tree
  <2> QED BY <2>1
<1>2. ASSUME NEW t \in live, NEW u \in live, NEW i \in Indices, NEW j \in Indices,
             lev[t] < Levels, lev[u] < Levels, new[t][i] # NONE, new[t][i] = new[u][j]
      PROVE  t = u /\ i = j
  <2>1. \A a, b \in live, m, n \in Indices :
          lev[a] < Levels /\ lev[b] < Levels /\ mem[a][m] # NONE /\ mem[a][m] = mem[b][n] =>
            a = b /\ m = n
    BY DEF Tree
  <2>2. mem[t][i] # NONE /\ mem[t][i] = mem[u][j]
    BY <1>2
  <2> QED BY <1>2, <2>1, <2>2
<1>3. ASSUME NEW t \in live, NEW i \in Indices, lev[t] < Levels, new[t][i] # NONE
      PROVE  new[t][i] \in live /\ lev[new[t][i]] = lev[t] + 1 /\ root[new[t][i]] = root[t]
  <2>1. new[t][i] = mem[t][i]
    BY <1>3
  <2> QED BY <1>3, <2>1 DEF Tree
<1>4. /\ lev \in [live -> 1..Levels] /\ root \in [live -> rs]
      /\ rs \subseteq live
      /\ \A t \in live : t \in rs <=> lev[t] = 1
      /\ \A r \in rs : root[r] = r
  BY DEF Tree
<1> QED BY <1>1, <1>2, <1>3, <1>4 DEF Tree

(* Where all tables are alike, so are the translations.                      *)
LEMMA TranslateFrame ==
  ASSUME NEW mem, NEW new, NEW rs, NEW live, NEW lev, NEW root, Tree(mem, rs, live, lev, root),
         live \subseteq Frames,
         NEW s \in rs, NEW w \in VirtualPages, \A t \in live : new[t] = mem[t]
  PROVE  Translate(new, s, w) = Translate(mem, s, w)
<1>0. Levels \in 1..Levels /\ s # NONE
  BY VmmAssumption DEF Tree
<1>1. PathTo(new, s, w)[Levels] = PathTo(mem, s, w)[Levels]
  BY <1>0, PathFrame
<1>2. PathTo(mem, s, w)[Levels] # NONE => PathTo(mem, s, w)[Levels] \in live
  BY <1>0, OnPath
<1> QED BY <1>0, <1>1, <1>2, TranslateIs

(* create_page_table adds a tree of two tables.                              *)
LEMMA CreateTree ==
  ASSUME NEW mem, NEW new, NEW rs, NEW live, NEW lev, NEW root, Tree(mem, rs, live, lev, root),
         NEW a, NEW b, a \notin live, b \notin live, a # b, a # NONE, b # NONE, NONE \notin live,
         \A t \in live : new[t] = mem[t],
         \A i \in Indices : new[a][i] = IF i = First THEN b ELSE NONE,
         \A i \in Indices : new[b][i] = NONE
  PROVE  \E lev2, root2 : Tree(new, rs \union {a}, live \union {a, b}, lev2, root2)
<1>0. Levels \in Nat /\ Levels >= 2 /\ First \in Indices
  BY VmmAssumption
<1> DEFINE all == live \union {a, b}
           lev2 == [t \in all |-> IF t = a THEN 1 ELSE IF t = b THEN 2 ELSE lev[t]]
           root2 == [t \in all |-> IF t \in {a, b} THEN a ELSE root[t]]
<1>1. /\ lev2[a] = 1 /\ lev2[b] = 2 /\ root2[a] = a /\ root2[b] = a
      /\ \A t \in live : lev2[t] = lev[t] /\ root2[t] = root[t] /\ t # a /\ t # b
  OBVIOUS
<1>2. lev2 \in [all -> 1..Levels] /\ root2 \in [all -> rs \union {a}]
  <2>1. 1 \in 1..Levels /\ 2 \in 1..Levels
    BY <1>0
  <2>2. \A t \in live : lev[t] \in 1..Levels /\ root[t] \in rs
    BY DEF Tree
  <2> QED BY <2>1, <2>2
<1> HIDE DEF lev2, root2
<1>3. \A t \in all : t \in live \/ t = a \/ t = b
  OBVIOUS
<1> HIDE DEF all
<1>4. a \in all /\ b \in all /\ live \subseteq all /\ rs \subseteq live
  BY DEF all, Tree
<1>5. ASSUME NEW t \in all PROVE t \in rs \union {a} <=> lev2[t] = 1
  BY <1>1, <1>3, <1>4 DEF Tree
<1>6. ASSUME NEW r \in rs \union {a} PROVE root2[r] = r
  BY <1>1, <1>4 DEF Tree
<1>7. ASSUME NEW t \in all, NEW i \in Indices, new[t][i] # NONE
      PROVE  \/ t = a /\ i = First /\ new[t][i] = b
             \/ t \in live /\ new[t][i] = mem[t][i]
  <2>1. CASE t \in live
    <3>1. new[t] = mem[t]
      BY <2>1
    <3> QED BY <2>1, <3>1
  <2>2. CASE t = a
    <3>1. new[t][i] = IF i = First THEN b ELSE NONE
      BY <2>2
    <3> QED BY <1>7, <2>2, <3>1
  <2>3. CASE t = b
    <3>1. new[t][i] = NONE
      BY <2>3
    <3> QED BY <1>7, <3>1
  <2> QED BY <1>3, <2>1, <2>2, <2>3
<1>8. ASSUME NEW t \in all, NEW i \in Indices, lev2[t] < Levels, new[t][i] # NONE
      PROVE  new[t][i] \in all /\ lev2[new[t][i]] = lev2[t] + 1 /\ root2[new[t][i]] = root2[t]
  <2>1. CASE t = a /\ i = First /\ new[t][i] = b
    BY <1>1, <1>4, <2>1
  <2>2. CASE t \in live /\ new[t][i] = mem[t][i]
    <3>1. mem[t][i] \in live /\ lev[mem[t][i]] = lev[t] + 1 /\ root[mem[t][i]] = root[t]
      BY <1>1, <1>8, <2>2 DEF Tree
    <3> QED BY <1>1, <1>4, <2>2, <3>1
  <2> QED BY <1>7, <1>8, <2>1, <2>2
<1>9. ASSUME NEW t \in all, NEW u \in all, NEW i \in Indices, NEW j \in Indices,
             lev2[t] < Levels, lev2[u] < Levels, new[t][i] # NONE, new[t][i] = new[u][j]
      PROVE  t = u /\ i = j
  <2>1. /\ \/ t = a /\ i = First /\ new[t][i] = b
           \/ t \in live /\ new[t][i] = mem[t][i]
        /\ \/ u = a /\ j = First /\ new[u][j] = b
           \/ u \in live /\ new[u][j] = mem[u][j]
    BY <1>7, <1>9
  <2>2. \A x \in live, n \in Indices : lev[x] < Levels /\ mem[x][n] # NONE => mem[x][n] # b
    BY <1>1 DEF Tree
  <2>3. CASE t \in live /\ u \in live /\ new[t][i] = mem[t][i] /\ new[u][j] = mem[u][j]
    <3>1. \A x, y \in live, m, n \in Indices :
            lev[x] < Levels /\ lev[y] < Levels /\ mem[x][m] # NONE /\ mem[x][m] = mem[y][n] =>
              x = y /\ m = n
      BY DEF Tree
    <3>2. mem[t][i] # NONE /\ mem[t][i] = mem[u][j] /\ lev[t] < Levels /\ lev[u] < Levels
      BY <1>1, <1>9, <2>3
    <3> QED BY <2>3, <3>1, <3>2
  <2>4. new[u][j] # NONE /\ (t \in live => lev[t] < Levels) /\ (u \in live => lev[u] < Levels)
    BY <1>1, <1>9
  <2>5. CASE t = a /\ i = First /\ new[t][i] = b
    <3>1. u = a /\ j = First
      BY <1>9, <2>1, <2>2, <2>4, <2>5
    <3> QED BY <2>5, <3>1
  <2>6. CASE u = a /\ j = First /\ new[u][j] = b
    <3>1. t = a /\ i = First
      BY <1>9, <2>1, <2>2, <2>4, <2>6
    <3> QED BY <2>6, <3>1
  <2> QED BY <2>1, <2>3, <2>5, <2>6
<1>10. ASSUME NEW t \in all, lev2[t] > 1
       PROVE  \E u \in all, i \in Indices : lev2[u] < Levels /\ new[u][i] = t
  <2>1. CASE t = b
    <3>1. lev2[a] < Levels /\ new[a][First] = b
      BY <1>0, <1>1
    <3> QED BY <1>0, <1>4, <2>1, <3>1
  <2>2. CASE t \in live
    <3>1. PICK u \in live, i \in Indices : lev[u] < Levels /\ mem[u][i] = t
      BY <1>1, <1>10, <2>2 DEF Tree
    <3>2. new[u] = mem[u]
      OBVIOUS
    <3> QED BY <1>1, <1>4, <3>1, <3>2
  <2> QED BY <1>1, <1>3, <1>10, <2>1, <2>2
<1>11. Tree(new, rs \union {a}, all, lev2, root2)
  <2>1. rs \union {a} \subseteq all
    BY <1>4
  <2> QED BY <1>2, <1>5, <1>6, <1>8, <1>9, <1>10, <2>1 DEF Tree
<1> QED BY <1>11 DEF all

(* Nothing is mapped in a new page table.                                    *)
LEMMA CreateTranslate ==
  ASSUME NEW new, NEW a, NEW b, a # NONE, b # NONE,
         \A i \in Indices : new[a][i] = IF i = First THEN b ELSE NONE,
         \A i \in Indices : new[b][i] = NONE,
         NEW w \in VirtualPages
  PROVE  Translate(new, a, w) = NONE
<1>0. Levels \in Nat /\ Levels >= 2
  BY VmmAssumption
<1> DEFINE q == PathTo(new, a, w)
           S == {n \in Nat : n \in 2..Levels => q[n] \in {NONE, b}}
<1>1. 0 \in S
  OBVIOUS
<1>2. ASSUME NEW n \in S PROVE n + 1 \in S
  <2> SUFFICES ASSUME n + 1 \in 2..Levels PROVE q[n + 1] \in {NONE, b}
    OBVIOUS
  <2>1. n \in Nat /\ n \in 1..Levels - 1 /\ n \in 1..Levels
    BY <1>0
  <2>2. q[1] = a /\ q[n + 1] = IF q[n] = NONE THEN NONE ELSE new[q[n]][w[n]]
    BY <2>1, PathStep
  <2>3. w[n] \in Indices
    BY <2>1 DEF VirtualPages
  <2> HIDE DEF q
  <2>4. CASE n = 1
    BY <2>2, <2>3, <2>4
  <2>5. CASE n # 1
    <3>1. n \in 2..Levels
      BY <1>0, <2>1, <2>5
    <3>2. q[n] \in {NONE, b}
      BY <3>1
    <3> HIDE DEF S
    <3> QED BY <2>2, <2>3, <3>2
  <2> QED BY <2>4, <2>5
<1>3. q[Levels] \in {NONE, b}
  <2>1. S \in SUBSET Nat
    OBVIOUS
  <2> HIDE DEF S
  <2>2. S = Nat
    BY <1>1, <1>2, <2>1, SetInduction
  <2>3. Levels \in S /\ Levels \in 2..Levels
    BY <1>0, <2>2
  <2> HIDE DEF q
  <2> QED BY <2>3 DEF S
<1>4. w[Levels] \in Indices
  BY <1>0 DEF VirtualPages
<1>5. Translate(new, a, w) = IF q[Levels] = NONE THEN NONE ELSE new[q[Levels]][w[Levels]]
  BY TranslateIs
<1> HIDE DEF q
<1> QED BY <1>3, <1>4, <1>5

(* Without one root and the tables of its tree, the other trees are whole.   *)
LEMMA TreeWithout ==
  ASSUME NEW mem, NEW rs, NEW live, NEW lev, NEW root, Tree(mem, rs, live, lev, root),
         NONE \notin live, NEW r \in rs
  PROVE  \E lev2, root2 : Tree(mem, rs \ {r}, live \ TablesOf(mem, r), lev2, root2)
<1> DEFINE rest == {t \in live : root[t] # r}
           lev2 == [t \in rest |-> lev[t]]
           root2 == [t \in rest |-> root[t]]
<1>1. live \ TablesOf(mem, r) = rest
  <2>1. TablesOf(mem, r) = {t \in live : root[t] = r}
    BY TablesOfIs
  <2> QED BY <2>1
<1>2. /\ lev2 \in [rest -> 1..Levels] /\ root2 \in [rest -> rs \ {r}]
      /\ \A t \in rest : lev2[t] = lev[t] /\ root2[t] = root[t] /\ t \in live /\ root[t] # r
  BY DEF Tree
<1>3. \A t \in live : root[t] # r => t \in rest
  OBVIOUS
<1> HIDE DEF rest, lev2, root2
<1>4. rs \ {r} \subseteq rest
  BY <1>3 DEF Tree
<1>5. \A t \in rest : t \in rs \ {r} <=> lev2[t] = 1
  BY <1>2 DEF Tree
<1>6. \A s \in rs \ {r} : root2[s] = s
  BY <1>2, <1>4 DEF Tree
<1>7. ASSUME NEW t \in rest, NEW i \in Indices, lev2[t] < Levels, mem[t][i] # NONE
      PROVE  mem[t][i] \in rest /\ lev2[mem[t][i]] = lev2[t] + 1 /\ root2[mem[t][i]] = root2[t]
  <2>1. t \in live /\ lev[t] < Levels
    BY <1>2, <1>7
  <2>2. mem[t][i] \in live /\ lev[mem[t][i]] = lev[t] + 1 /\ root[mem[t][i]] = root[t]
    BY <1>7, <2>1 DEF Tree
  <2> QED BY <1>2, <1>3, <2>2
<1>8. ASSUME NEW t \in rest, NEW u \in rest, NEW i \in Indices, NEW j \in Indices,
             lev2[t] < Levels, lev2[u] < Levels, mem[t][i] # NONE, mem[t][i] = mem[u][j]
      PROVE  t = u /\ i = j
  <2>1. t \in live /\ lev[t] < Levels /\ u \in live /\ lev[u] < Levels
    BY <1>2, <1>8
  <2>2. \A x, y \in live, m, n \in Indices :
          lev[x] < Levels /\ lev[y] < Levels /\ mem[x][m] # NONE /\ mem[x][m] = mem[y][n] =>
            x = y /\ m = n
    BY DEF Tree
  <2> QED BY <1>8, <2>1, <2>2
<1>9. ASSUME NEW t \in rest, lev2[t] > 1
      PROVE  \E u \in rest, i \in Indices : lev2[u] < Levels /\ mem[u][i] = t
  <2>1. t \in live /\ lev[t] > 1
    BY <1>2, <1>9
  <2>2. PICK u \in live, i \in Indices : lev[u] < Levels /\ mem[u][i] = t
    BY <2>1 DEF Tree
  <2>3. root[t] = root[u]
    <3>1. mem[u][i] # NONE
      BY <2>1, <2>2
    <3> QED BY <2>2, <3>1 DEF Tree
  <2>4. u \in rest
    BY <1>2, <1>3, <2>3
  <2> QED BY <1>2, <2>2, <2>4
<1>10. Tree(mem, rs \ {r}, rest, lev2, root2)
  BY <1>2, <1>4, <1>5, <1>6, <1>7, <1>8, <1>9 DEF Tree
<1> QED BY <1>1, <1>10

-----------------------------------------------------------------------------
Live == owned \ orphans

(* Until pages run out, the pages that are owned and not left behind form    *)
(* the trees of the roots.                                                   *)
TreeInv ==
  ~starved =>
    /\ free \intersect owned = {} /\ orphans \subseteq owned
    /\ \E lev, root : Tree(memory, roots, Live, lev, root)

IInv == TypeOK /\ TreeInv /\ TranslationsExact

LEMMA TypeFacts ==
  ASSUME TypeOK
  PROVE  /\ memory \in Tables
         /\ DOMAIN memory = Pages
         /\ NONE \notin Live /\ Live \subseteq Frames
         /\ NONE \notin free /\ NULL \notin free
         /\ VPages \subseteq VirtualPages
         /\ Empty \in [Indices -> Entries]
<1>1. memory \in Tables
  BY DEF TypeOK, Tables, Pages, Entries
<1>2. DOMAIN memory = Pages
  BY DEF TypeOK, Pages
<1>3. NONE \notin Live /\ Live \subseteq Frames /\ NONE \notin free /\ NULL \notin free
  BY VmmAssumption DEF TypeOK, Live
<1>4. VPages \subseteq VirtualPages
  BY VmmAssumption DEF VirtualPages
<1>5. Empty \in [Indices -> Entries]
  BY DEF Empty, Entries
<1> QED BY <1>1, <1>2, <1>3, <1>4, <1>5

LEMMA InitOK ==
  ASSUME Init
  PROVE  IInv
<1>1. TypeOK
  BY DEF Init, TypeOK
<1>2. TreeInv
  <2> DEFINE none == [t \in {} |-> t]
  <2>1. Tree(memory, roots, Live, none, none)
    BY DEF Init, Live, Tree
  <2>2. free \intersect owned = {} /\ orphans \subseteq owned
    BY DEF Init
  <2> QED BY <2>1, <2>2 DEF TreeInv
<1>3. TranslationsExact
  BY DEF Init, TranslationsExact
<1> QED BY <1>1, <1>2, <1>3 DEF IInv

LEMMA CreateOK ==
  ASSUME IInv, ~starved, CreatePageTable
  PROVE  IInv'
<1>1. PICK a \in free, b \in free :
        /\ a # b
        /\ memory' = [memory EXCEPT ![a] = [Empty EXCEPT ![First] = b], ![b] = Empty]
        /\ roots' = roots \union {a}
        /\ mapped' = [r \in roots \union {a} |-> IF r = a THEN [v \in VPages |-> NONE] ELSE mapped[r]]
        /\ free' = free \ {a, b} /\ owned' = owned \union {a, b}
        /\ UNCHANGED <<starved, orphans, lost>>
  BY DEF CreatePageTable
<1>2. TypeOK /\ TreeInv /\ TranslationsExact
  BY DEF IInv
<1>3. /\ free \intersect owned = {} /\ orphans \subseteq owned
      /\ \E lev, root : Tree(memory, roots, Live, lev, root)
  BY <1>2 DEF TreeInv
<1>4. PICK lev, root : Tree(memory, roots, Live, lev, root)
  BY <1>3
<1>5. a \in Frames /\ b \in Frames /\ a # NONE /\ b # NONE /\ a \notin Live /\ b \notin Live
  BY <1>2, <1>3, TypeFacts DEF TypeOK, Live
<1>6. First \in Indices
  BY VmmAssumption
<1> DEFINE table == [Empty EXCEPT ![First] = b]
<1>7. /\ table \in [Indices -> Entries]
      /\ \A i \in Indices : table[i] = IF i = First THEN b ELSE NONE
  BY <1>5, <1>6 DEF Empty, Entries
<1> HIDE DEF table
<1>8. /\ memory' \in Tables
      /\ memory'[a] = table /\ memory'[b] = Empty
      /\ \A f \in Pages : f # a /\ f # b => memory'[f] = memory[f]
  BY <1>1, <1>2, <1>5, <1>7, TypeFacts DEF table, Tables, Pages
<1>9. /\ \A t \in Live : memory'[t] = memory[t]
      /\ \A i \in Indices : memory'[a][i] = IF i = First THEN b ELSE NONE
      /\ \A i \in Indices : memory'[b][i] = NONE
  BY <1>2, <1>5, <1>7, <1>8, TypeFacts DEF Pages, Empty
<1>10. TypeOK'
  <2>1. memory' \in [Frames \union {NULL} -> [Indices -> Frames \union Targets \union {NULL, NONE}]]
    BY <1>8 DEF Tables, Pages, Entries
  <2>2. mapped' \in [roots' -> [VPages -> Targets \union {NONE}]]
    BY <1>1, <1>2 DEF TypeOK
  <2> QED BY <1>1, <1>2, <1>5, <2>1, <2>2 DEF TypeOK
<1>11. Live' = Live \union {a, b}
  BY <1>1, <1>3 DEF Live
<1>12. TreeInv'
  <2>1. \E lev2, root2 : Tree(memory', roots \union {a}, Live \union {a, b}, lev2, root2)
    BY <1>1, <1>2, <1>4, <1>5, <1>9, TypeFacts, CreateTree
  <2>2. (\E lev2, root2 : Tree(memory, roots, Live, lev2, root2))'
    BY <1>1, <1>11, <2>1
  <2>3. free' \intersect owned' = {} /\ orphans' \subseteq owned'
    BY <1>1, <1>3
  <2> QED BY <2>2, <2>3 DEF TreeInv
<1>13. TranslationsExact'
  <2> SUFFICES ASSUME NEW s \in roots', NEW w \in VPages
               PROVE  Translate(memory', s, w) = mapped'[s][w]
    BY DEF TranslationsExact
  <2>1. w \in VirtualPages
    BY <1>2, TypeFacts
  <2>2. CASE s = a
    <3>1. mapped'[s][w] = NONE
      BY <1>1, <2>2
    <3>2. Translate(memory', a, w) = NONE
      BY <1>5, <1>9, <2>1, CreateTranslate
    <3> QED BY <2>2, <3>1, <3>2
  <2>3. CASE s # a
    <3>1. s \in roots /\ mapped'[s][w] = mapped[s][w]
      BY <1>1, <2>3
    <3>2. Translate(memory', s, w) = Translate(memory, s, w)
      BY <1>2, <1>4, <1>9, <2>1, <3>1, TypeFacts, TranslateFrame
    <3>3. Translate(memory, s, w) = mapped[s][w]
      BY <1>2, <3>1 DEF TranslationsExact
    <3> QED BY <3>1, <3>2, <3>3
  <2> QED BY <2>2, <2>3
<1> QED BY <1>10, <1>12, <1>13 DEF IInv

(* A step that leaves the tables as they are.                                *)
LEMMA AlikeOK ==
  ASSUME IInv, ~starved, \A t \in Live : memory'[t] = memory[t], TypeOK',
         UNCHANGED <<roots, mapped, orphans, pages>>
  PROVE  IInv'
<1>1. TypeOK /\ TreeInv /\ TranslationsExact
  BY DEF IInv
<1>2. /\ free \intersect owned = {} /\ orphans \subseteq owned
      /\ \E lev, root : Tree(memory, roots, Live, lev, root)
  BY <1>1 DEF TreeInv
<1>3. PICK lev, root : Tree(memory, roots, Live, lev, root)
  BY <1>2
<1>4. Live' = Live /\ roots' = roots
  BY DEF Live, pages
<1>5. Tree(memory', roots, Live, lev, root)
  <2>1. \A t \in Live, i \in Indices : lev[t] < Levels => memory'[t][i] = memory[t][i]
    OBVIOUS
  <2> QED BY <1>3, <2>1, TreeFrame
<1>6. TreeInv'
  <2>1. (\E lev2, root2 : Tree(memory, roots, Live, lev2, root2))'
    BY <1>4, <1>5
  <2>2. free' \intersect owned' = {} /\ orphans' \subseteq owned'
    BY <1>2 DEF pages
  <2> QED BY <2>1, <2>2 DEF TreeInv
<1>7. TranslationsExact'
  <2> SUFFICES ASSUME NEW s \in roots, NEW w \in VPages
               PROVE  Translate(memory', s, w) = mapped[s][w]
    BY DEF TranslationsExact
  <2>1. w \in VirtualPages
    BY <1>1, TypeFacts
  <2>2. Translate(memory', s, w) = Translate(memory, s, w)
    BY <1>1, <1>3, <2>1, TypeFacts, TranslateFrame
  <2> QED BY <1>1, <2>2 DEF TranslationsExact
<1> QED BY <1>6, <1>7 DEF IInv

LEMMA CreateFailsOK ==
  ASSUME IInv, ~starved, CreatePageTableFails
  PROVE  IInv'
<1>1. TypeOK /\ TreeInv
  BY DEF IInv
<1>2. memory' = [f \in Pages |-> IF f \in free THEN Empty ELSE memory[f]]
  BY <1>1, TypeFacts DEF CreatePageTableFails
<1>3. \A t \in Live : memory'[t] = memory[t]
  BY <1>1, <1>2, TypeFacts DEF TreeInv, Live, Pages
<1>4. UNCHANGED <<roots, mapped, starved, orphans, pages>>
  BY DEF CreatePageTableFails
<1>5. TypeOK'
  <2>1. memory' \in [Frames \union {NULL} -> [Indices -> Frames \union Targets \union {NULL, NONE}]]
    BY <1>1, <1>2, TypeFacts DEF Tables, Pages, Entries
  <2> QED BY <1>1, <1>4, <2>1 DEF TypeOK, pages
<1> QED BY <1>3, <1>4, <1>5, AlikeOK

LEMMA MapPageOK ==
  ASSUME IInv, ~starved, NEW r \in roots, NEW v \in VPages, NEW target \in Targets,
         MapPage(r, v, target)
  PROVE  IInv'
<1>1. TypeOK /\ TreeInv /\ TranslationsExact
  BY DEF IInv
<1>2. /\ free \intersect owned = {} /\ orphans \subseteq owned
      /\ \E lev, root : Tree(memory, roots, Live, lev, root)
  BY <1>1 DEF TreeInv
<1>3. PICK lev, root : Tree(memory, roots, Live, lev, root)
  BY <1>2
<1>4. /\ memory \in Tables /\ NONE \notin Live /\ Live \subseteq Frames
      /\ NONE \notin free /\ NULL \notin free /\ v \in VirtualPages
  BY <1>1, TypeFacts
<1>0. Levels \in Nat /\ Levels >= 2 /\ r # NONE
  BY VmmAssumption, <1>3, <1>4 DEF Tree
<1> DEFINE depth   == Depth(memory, r, v)
           missing == Levels - depth
           short   == Cardinality(free) < missing
           pathOf(fresh) == [k \in 1..Levels |-> IF k <= depth THEN PathTo(memory, r, v)[k]
                                                 ELSE fresh[k - depth]]
           newOf(fresh)  == {fresh[k] : k \in 1..missing} \ {NULL}
<1>5. PICK fresh \in [1..missing -> free \union {NULL}] :
        /\ \A j, k \in 1..missing : j # k /\ fresh[j] = fresh[k] => fresh[j] = NULL
        /\ \A k \in 1..missing : fresh[k] = NULL <=> k > Cardinality(free)
        /\ memory' = [WithTables(memory, pathOf(fresh), v, depth) EXCEPT
                        ![pathOf(fresh)[Levels]][v[Levels]] = target]
        /\ mapped' = [mapped EXCEPT ![r][v] = target]
        /\ starved' = (starved \/ short)
        /\ free' = free \ newOf(fresh) /\ owned' = owned \union newOf(fresh)
        /\ UNCHANGED <<roots, orphans, lost>>
  BY DEF MapPage
<1> DEFINE path == pathOf(fresh)
           made == newOf(fresh)
<1>6. /\ depth \in 1..Levels
      /\ \A k \in 1..Levels : PathTo(memory, r, v)[k] # NONE <=> k <= depth
  BY <1>0, DepthIs
<1>7. ASSUME NEW k \in 1..depth
      PROVE  path[k] = PathTo(memory, r, v)[k] /\ path[k] \in Live
  <2>1. k \in 1..Levels /\ k <= depth
    BY <1>0, <1>6
  <2>2. path[k] = PathTo(memory, r, v)[k] /\ PathTo(memory, r, v)[k] # NONE
    BY <1>6, <2>1
  <2>3. PathTo(memory, r, v)[k] \in Live
    BY <1>3, <1>4, <2>1, <2>2, OnPath
  <2> QED BY <2>2, <2>3
<1>8. ASSUME NEW k \in depth + 1..Levels
      PROVE  k - depth \in 1..missing /\ path[k] = fresh[k - depth] /\ path[k] \in free \union {NULL}
  <2>1. k \in 1..Levels /\ ~ (k <= depth) /\ k - depth \in 1..missing
    BY <1>0, <1>6
  <2>2. path[k] = fresh[k - depth]
    BY <2>1
  <2> QED BY <1>5, <2>1, <2>2
<1>9. path \in [1..Levels -> Pages]
  <2>1. \A k \in 1..Levels : k \in 1..depth \/ k \in depth + 1..Levels
    BY <1>0, <1>6
  <2>2. free \subseteq Frames
    BY <1>1 DEF TypeOK
  <2>3. \A k \in 1..Levels : path[k] \in Pages
    <3> HIDE DEF path, depth
    <3> QED BY <1>4, <1>7, <1>8, <2>1, <2>2 DEF Pages
  <2>4. DOMAIN path = 1..Levels /\ path = [k \in 1..Levels |-> path[k]]
    OBVIOUS
  <2> HIDE DEF path
  <2> QED BY <2>3, <2>4
<1>10. made \subseteq free
  BY <1>5
<1>11. TypeOK'
  <2>1. WithTables(memory, path, v, depth) \in Tables
    <3> HIDE DEF path, depth
    <3> QED BY <1>4, <1>6, <1>9, WithTablesTyped
  <2>2. path[Levels] \in Pages /\ v[Levels] \in Indices /\ target \in Entries
    <3>1. Levels \in 1..Levels
      BY <1>0
    <3> HIDE DEF path
    <3> QED BY <1>4, <1>9, <3>1 DEF VirtualPages, Entries
  <2>3. memory' = [WithTables(memory, path, v, depth) EXCEPT ![path[Levels]][v[Levels]] = target]
    BY <1>5
  <2> HIDE DEF path, depth
  <2>4. memory' \in Tables
    BY <2>1, <2>2, <2>3 DEF Tables
  <2>5. memory' \in [Frames \union {NULL} -> [Indices -> Frames \union Targets \union {NULL, NONE}]]
    BY <2>4 DEF Tables, Pages, Entries
  <2>6. mapped' \in [roots' -> [VPages -> Targets \union {NONE}]]
    BY <1>1, <1>5 DEF TypeOK
  <2>7. starved' \in BOOLEAN
    <3> HIDE DEF short
    <3> QED BY <1>5
  <2>8. free' \subseteq Frames /\ owned' \subseteq Frames
    <3>1. free' = free \ made /\ owned' = owned \union made
      BY <1>5
    <3> HIDE DEF made
    <3> QED BY <1>1, <1>10, <3>1 DEF TypeOK
  <2>9. UNCHANGED <<roots, orphans, lost>>
    BY <1>5
  <2> QED BY <1>1, <2>5, <2>6, <2>7, <2>8, <2>9 DEF TypeOK
<1>12. ASSUME ~starved'
       PROVE  Maps(memory, memory', Live, r, v, depth, path, target)
              /\ made = Added(path, depth)
  <2>1. ~short
    <3> HIDE DEF short
    <3> QED BY <1>5, <1>12
  <2>2. Cardinality(free) \in Nat
    <3>1. IsFiniteSet(free)
      BY <1>1, VmmAssumption, FS_Subset DEF TypeOK
    <3> QED BY <3>1, FS_CardinalityType
  <2>3. \A k \in 1..missing : fresh[k] # NULL /\ fresh[k] \in free
    <3>1. \A k \in 1..missing : ~ (k > Cardinality(free))
      <4>1. missing \in Nat
        BY <1>0, <1>6
      <4> HIDE DEF missing
      <4> QED BY <2>1, <2>2, <4>1
    <3> HIDE DEF missing
    <3> QED BY <1>5, <3>1
  <2>4. \A k \in depth + 1..Levels : path[k] \in free /\ path[k] \notin Live
    <3> HIDE DEF path, depth, missing
    <3> QED BY <1>2, <1>8, <2>3 DEF Live
  <2>5. ASSUME NEW j \in depth + 1..Levels, NEW k \in depth + 1..Levels, path[j] = path[k]
        PROVE  j = k
    <3>1. j - depth \in 1..missing /\ k - depth \in 1..missing /\ fresh[j - depth] = fresh[k - depth]
      BY <1>8, <2>5
    <3>2. j - depth = k - depth
      <4> HIDE DEF path, depth, missing
      <4> QED BY <1>5, <2>3, <3>1
    <3> HIDE DEF path, missing
    <3> QED BY <1>0, <1>6, <3>2
  <2>6. path \in [1..Levels -> Frames]
    <3>1. \A k \in 1..Levels : k \in 1..depth \/ k \in depth + 1..Levels
      BY <1>0, <1>6
    <3>2. free \subseteq Frames
      BY <1>1 DEF TypeOK
    <3>3. \A k \in 1..Levels : path[k] \in Frames
      <4> HIDE DEF path, depth
      <4> QED BY <1>4, <1>7, <2>4, <3>1, <3>2
    <3>4. DOMAIN path = 1..Levels /\ path = [k \in 1..Levels |-> path[k]]
      OBVIOUS
    <3> HIDE DEF path
    <3> QED BY <3>3, <3>4
  <2>7. memory' = [WithTables(memory, path, v, depth) EXCEPT ![path[Levels]][v[Levels]] = target]
    BY <1>5
  <2>8. depth = Depth(memory, r, v)
    OBVIOUS
  <2>9. made = {path[k] : k \in depth + 1..Levels}
    <3>1. \A k \in 1..missing : k + depth \in depth + 1..Levels /\ (k + depth) - depth = k
      BY <1>0, <1>6
    <3>2. made = {fresh[k] : k \in 1..missing}
      <4> HIDE DEF missing
      <4> QED BY <2>3
    <3> HIDE DEF made, path, depth, missing
    <3>3. \A k \in 1..missing : fresh[k] = path[k + depth]
      BY <1>8, <3>1
    <3> QED BY <1>8, <3>1, <3>2, <3>3
  <2> HIDE DEF path, depth, made
  <2>10. Maps(memory, memory', Live, r, v, depth, path, target)
    BY <1>7, <2>4, <2>5, <2>6, <2>7, <2>8 DEF Maps
  <2> QED BY <2>9, <2>10 DEF Added
<1>13. TreeInv'
  <2> SUFFICES ASSUME ~starved'
               PROVE  /\ free' \intersect owned' = {} /\ orphans' \subseteq owned'
                      /\ \E lev2, root2 : Tree(memory', roots', Live', lev2, root2)
    BY DEF TreeInv
  <2>1. Maps(memory, memory', Live, r, v, depth, path, target)
        /\ made = Added(path, depth)
    BY <1>12
  <2>2. free' = free \ made /\ owned' = owned \union made /\ UNCHANGED <<roots, orphans>>
    BY <1>5
  <2> HIDE DEF path, depth, made
  <2>3. \E lev2, root2 : Tree(memory', roots, Live \union Added(path, depth), lev2, root2)
    BY <1>3, <1>4, <2>1, MapsTree
  <2>4. Live' = Live \union Added(path, depth)
    <3>1. Live' = Live \union made
      BY <1>2, <1>10, <2>2 DEF Live
    <3> QED BY <2>1, <3>1
  <2>5. free' \intersect owned' = {} /\ orphans' \subseteq owned'
    BY <1>2, <1>10, <2>2
  <2> QED BY <2>2, <2>3, <2>4, <2>5
<1>14. TranslationsExact'
  <2> SUFFICES ASSUME ~starved', NEW s \in roots', NEW w \in VPages
               PROVE  Translate(memory', s, w) = mapped'[s][w]
    BY DEF TranslationsExact
  <2>1. Maps(memory, memory', Live, r, v, depth, path, target)
    BY <1>12
  <2>2. w \in VirtualPages
    BY <1>1, TypeFacts
  <2>3. s \in roots /\ mapped' = [mapped EXCEPT ![r][v] = target]
    BY <1>5
  <2> HIDE DEF path, depth
  <2>4. Translate(memory', s, w) = IF s = r /\ w = v THEN target ELSE Translate(memory, s, w)
    BY <1>3, <1>4, <2>1, <2>2, <2>3, MapsTranslate
  <2>5. mapped'[s][w] = IF s = r /\ w = v THEN target ELSE mapped[s][w]
    BY <1>1, <2>3 DEF TypeOK
  <2>6. Translate(memory, s, w) = mapped[s][w]
    BY <1>1, <2>3 DEF TranslationsExact
  <2> QED BY <2>4, <2>5, <2>6
<1> QED BY <1>11, <1>13, <1>14 DEF IInv

LEMMA UnmapPageOK ==
  ASSUME IInv, ~starved, NEW r \in roots, NEW v \in VPages, UnmapPage(r, v)
  PROVE  IInv'
<1>1. TypeOK /\ TreeInv /\ TranslationsExact
  BY DEF IInv
<1>2. /\ free \intersect owned = {} /\ orphans \subseteq owned
      /\ \E lev, root : Tree(memory, roots, Live, lev, root)
  BY <1>1 DEF TreeInv
<1>3. PICK lev, root : Tree(memory, roots, Live, lev, root)
  BY <1>2
<1>4. /\ memory \in Tables /\ NONE \notin Live /\ Live \subseteq Frames /\ v \in VirtualPages
  BY <1>1, TypeFacts
<1>0. Levels \in Nat /\ Levels >= 2 /\ Levels \in 1..Levels /\ r # NONE
  BY VmmAssumption, <1>3, <1>4 DEF Tree
<1> DEFINE last == PathTo(memory, r, v)[Levels]
<1>5. /\ Depth(memory, r, v) = Levels
      /\ memory' = [memory EXCEPT ![last][v[Levels]] = NONE]
      /\ mapped' = [mapped EXCEPT ![r][v] = NONE]
      /\ UNCHANGED <<roots, starved, orphans, pages>>
  BY DEF UnmapPage
<1>6. last # NONE
  <2>1. Levels <= Depth(memory, r, v)
    BY <1>0, <1>5
  <2> QED BY <1>0, <2>1, DepthIs
<1>7. last \in Live /\ lev[last] = Levels
  BY <1>0, <1>3, <1>4, <1>6, OnPath
<1>8. v[Levels] \in Indices /\ last \in Pages /\ NONE \in Entries
  BY <1>0, <1>4, <1>7 DEF VirtualPages, Pages, Entries
<1> HIDE DEF last
<1>9. /\ memory' \in Tables
      /\ \A f \in Pages : f # last => memory'[f] = memory[f]
      /\ \A i \in Indices : memory'[last][i] = IF i = v[Levels] THEN NONE ELSE memory[last][i]
  BY <1>4, <1>5, <1>8 DEF Tables
<1>10. TypeOK'
  <2>1. memory' \in [Frames \union {NULL} -> [Indices -> Frames \union Targets \union {NULL, NONE}]]
    BY <1>9 DEF Tables, Pages, Entries
  <2>2. mapped' \in [roots' -> [VPages -> Targets \union {NONE}]]
    BY <1>1, <1>5 DEF TypeOK
  <2> QED BY <1>1, <1>5, <2>1, <2>2 DEF TypeOK, pages
<1>11. \A t \in Live, i \in Indices : lev[t] < Levels => memory'[t][i] = memory[t][i]
  <2> SUFFICES ASSUME NEW t \in Live, lev[t] < Levels PROVE memory'[t] = memory[t]
    OBVIOUS
  <2>1. t # last /\ t \in Pages
    BY <1>0, <1>4, <1>7 DEF Pages
  <2> QED BY <1>9, <2>1
<1>12. TreeInv'
  <2>1. Tree(memory', roots, Live, lev, root)
    BY <1>3, <1>11, TreeFrame
  <2>2. Live' = Live /\ roots' = roots /\ free' = free /\ owned' = owned /\ orphans' = orphans
    BY <1>5 DEF Live, pages
  <2>3. (\E lev2, root2 : Tree(memory, roots, Live, lev2, root2))'
    BY <2>1, <2>2
  <2> QED BY <1>2, <2>2, <2>3 DEF TreeInv
<1>13. TranslationsExact'
  <2> SUFFICES ASSUME NEW s \in roots, NEW w \in VPages
               PROVE  Translate(memory', s, w) = mapped'[s][w]
    BY <1>5 DEF TranslationsExact
  <2>1. w \in VirtualPages /\ s # NONE /\ w[Levels] \in Indices
    <3>1. w \in VirtualPages
      BY <1>1, TypeFacts
    <3>2. s # NONE
      BY <1>3, <1>4 DEF Tree
    <3> QED BY <1>0, <3>1, <3>2 DEF VirtualPages
  <2> DEFINE p == PathTo(memory, s, w)[Levels]
  <2>2. PathTo(memory', s, w)[Levels] = p
    BY <1>0, <1>3, <1>11, <2>1, PathFrame
  <2>3. p # NONE => p \in Live
    BY <1>0, <1>3, <2>1, OnPath
  <2>4. /\ Translate(memory', s, w) = IF p = NONE THEN NONE ELSE memory'[p][w[Levels]]
        /\ Translate(memory, s, w) = IF p = NONE THEN NONE ELSE memory[p][w[Levels]]
    BY <2>1, <2>2, TranslateIs
  <2>5. Translate(memory, s, w) = mapped[s][w]
    BY <1>1, <1>5 DEF TranslationsExact
  <2>6. mapped'[s][w] = IF s = r /\ w = v THEN NONE ELSE mapped[s][w]
    BY <1>1, <1>5 DEF TypeOK
  <2>7. s = r /\ w = v => p = last
    BY DEF last
  <2>8. ASSUME p = last, w[Levels] = v[Levels] PROVE s = r /\ w = v
    <3>1. PathTo(memory, r, v)[Levels] # NONE
          /\ PathTo(memory, r, v)[Levels] = PathTo(memory, s, w)[Levels]
      BY <1>6, <2>8 DEF last
    <3>2. r = s /\ \A j \in 1..Levels - 1 : v[j] = w[j]
      BY <1>0, <1>3, <1>4, <2>1, <3>1, PathsMeet
    <3>3. \A j \in 1..Levels : v[j] = w[j]
      <4>1. 1..Levels = (1..Levels - 1) \union {Levels}
        BY <1>0
      <4> QED BY <2>8, <3>2, <4>1
    <3>4. w = [j \in 1..Levels |-> w[j]] /\ v = [j \in 1..Levels |-> v[j]]
      BY <1>4, <2>1 DEF VirtualPages
    <3> QED BY <3>2, <3>3, <3>4
  <2> HIDE DEF p
  <2>9. CASE p = last
    BY <1>6, <1>9, <2>1, <2>4, <2>5, <2>6, <2>7, <2>8, <2>9
  <2>10. CASE p # last
    <3>1. p # NONE => memory'[p] = memory[p]
      BY <1>4, <1>9, <2>3, <2>10 DEF Pages
    <3> QED BY <2>4, <2>5, <2>6, <2>7, <2>10, <3>1
  <2> QED BY <2>9, <2>10
<1> QED BY <1>10, <1>12, <1>13 DEF IInv

LEMMA GiveBackOK ==
  ASSUME IInv, ~starved, NEW r \in roots, GiveBack(r)
  PROVE  IInv'
<1>1. TypeOK /\ TreeInv /\ TranslationsExact
  BY DEF IInv
<1>2. /\ free \intersect owned = {} /\ orphans \subseteq owned
      /\ \E lev, root : Tree(memory, roots, Live, lev, root)
  BY <1>1 DEF TreeInv
<1>3. PICK lev, root : Tree(memory, roots, Live, lev, root)
  BY <1>2
<1>4. NONE \notin Live /\ Live \subseteq Frames
  BY <1>1, TypeFacts
<1>5. /\ r \in owned /\ free' = free \union {r} /\ owned' = owned \ {r} /\ lost' = lost
      /\ roots' = roots \ {r} /\ mapped' = [x \in roots \ {r} |-> mapped[x]]
      /\ orphans' = orphans \union (TablesOf(memory, r) \ {r})
      /\ memory' = memory /\ starved' = starved
  BY DEF GiveBack, Pmm!Release
<1>6. /\ TablesOf(memory, r) = {t \in Live : root[t] = r}
      /\ r \in TablesOf(memory, r)
  <2>1. TablesOf(memory, r) = {t \in Live : root[t] = r}
    BY <1>3, <1>4, TablesOfIs
  <2>2. r \in Live /\ root[r] = r
    BY <1>3 DEF Tree
  <2> QED BY <2>1, <2>2
<1>7. TablesOf(memory, r) \subseteq Live
  BY <1>6
<1>8. TypeOK'
  <2>1. mapped' \in [roots' -> [VPages -> Targets \union {NONE}]]
    BY <1>1, <1>5 DEF TypeOK
  <2>2. orphans' \subseteq Frames
    BY <1>1, <1>4, <1>5, <1>7 DEF TypeOK
  <2> QED BY <1>1, <1>5, <2>1, <2>2 DEF TypeOK
<1>9. Live' = Live \ TablesOf(memory, r)
  BY <1>5, <1>6, <1>7 DEF Live
<1>10. TreeInv'
  <2>1. \E lev2, root2 : Tree(memory, roots \ {r}, Live \ TablesOf(memory, r), lev2, root2)
    BY <1>3, <1>4, TreeWithout
  <2>2. (\E lev2, root2 : Tree(memory, roots, Live, lev2, root2))'
    BY <1>5, <1>9, <2>1
  <2>3. free' \intersect owned' = {}
    BY <1>2, <1>5
  <2>4. orphans' \subseteq owned'
    <3>1. r \in Live /\ r \notin orphans
      BY <1>6 DEF Live
    <3> QED BY <1>2, <1>5, <1>7, <3>1 DEF Live
  <2> QED BY <2>2, <2>3, <2>4 DEF TreeInv
<1>11. TranslationsExact'
  BY <1>1, <1>5 DEF TranslationsExact
<1> QED BY <1>8, <1>10, <1>11 DEF IInv

LEMMA StepOK ==
  ASSUME IInv, [Next]_vars
  PROVE  IInv'
<1>1. CASE CreatePageTable /\ ~starved
  BY <1>1, CreateOK
<1>2. CASE CreatePageTableFails /\ ~starved
  BY <1>2, CreateFailsOK
<1>3. ASSUME NEW r \in roots, NEW v \in VPages, NEW target \in Targets, MapPage(r, v, target), ~starved
      PROVE  IInv'
  BY <1>3, MapPageOK
<1>4. ASSUME NEW r \in roots, NEW v \in VPages, UnmapPage(r, v), ~starved
      PROVE  IInv'
  BY <1>4, UnmapPageOK
<1>5. ASSUME NEW r \in roots, GiveBack(r), ~starved
      PROVE  IInv'
  BY <1>5, GiveBackOK
<1>6. CASE UNCHANGED vars
  BY <1>6 DEF IInv, TypeOK, TreeInv, TranslationsExact, Live, vars, pages
<1> QED BY <1>1, <1>2, <1>3, <1>4, <1>5, <1>6 DEF Next

LEMMA AlwaysIInv == Spec => []IInv
<1>1. Init => IInv
  BY InitOK
<1>2. IInv /\ [Next]_vars => IInv'
  BY StepOK
<1> QED BY <1>1, <1>2, PTL DEF Spec

LEMMA TreesApart ==
  ASSUME IInv
  PROVE  TablesApart
<1> SUFFICES ASSUME ~starved PROVE TablesApart
  BY DEF TablesApart
<1>1. TypeOK /\ TreeInv
  BY DEF IInv
<1>2. orphans \subseteq owned /\ \E lev, root : Tree(memory, roots, Live, lev, root)
  BY <1>1 DEF TreeInv
<1>3. PICK lev, root : Tree(memory, roots, Live, lev, root)
  BY <1>2
<1>4. NONE \notin Live
  BY <1>1, TypeFacts
<1> DEFINE tables == [r \in roots |-> TablesOf(memory, r)]
           all    == UNION {tables[r] : r \in roots}
<1>5. \A r \in roots : tables[r] = {t \in Live : root[t] = r}
  BY <1>3, <1>4, TablesOfIs
<1> HIDE DEF tables
<1>6. \A t \in Live : root[t] \in roots
  BY <1>3 DEF Tree
<1>7. all = Live
  <2>1. ASSUME NEW t \in Live PROVE t \in all
    BY <1>5, <1>6
  <2>2. ASSUME NEW t \in all PROVE t \in Live
    BY <1>5
  <2> QED BY <2>1, <2>2
<1>8. \A r, s \in roots : r # s => tables[r] \intersect tables[s] = {}
  BY <1>5
<1>9. owned = orphans \union all /\ orphans \intersect all = {}
  <2> HIDE DEF all
  <2> QED BY <1>2, <1>7 DEF Live
<1> QED BY <1>8, <1>9 DEF TablesApart, tables

-----------------------------------------------------------------------------
(* The page tables are well-typed, whatever the memory first holds: entries  *)
(* are pages, targets or nothing, also where map_page ran out of pages and   *)
(* made a table of the page at the null pointer.                             *)
THEOREM VmmTypeOK == Spec => []TypeOK
<1>1. IInv => TypeOK
  BY DEF IInv
<1> QED BY <1>1, AlwaysIInv, PTL

(* Until map_page runs out of pages, a virtual page translates to what was   *)
(* last mapped there in its own page table, and to nothing where nothing is. *)
THEOREM VmmTranslationsExact == Spec => []TranslationsExact
<1>1. IInv => TranslationsExact
  BY DEF IInv
<1> QED BY <1>1, AlwaysIInv, PTL

(* Until map_page runs out of pages, no table is in the trees of two roots,  *)
(* and the allocator's pages are these tables and those that destroy_process *)
(* left behind.                                                              *)
THEOREM VmmTablesApart == Spec => []TablesApart
<1>1. IInv => TablesApart
  BY TreesApart
<1> QED BY <1>1, AlwaysIInv, PTL
=============================================================================
