----------------------------- MODULE ShellProofs -----------------------------
(***************************************************************************)
(* Theorems about Shell: for every set of names and paths, everything users*)
(* type and every order of commands, the current directory exists, and the *)
(* two notions of ".." agree.                                              *)
(*                                                                         *)
(* The inductive invariant adds to the properties that what exists is a    *)
(* tree, and that the current directory is the root as long as nothing is  *)
(* mounted.                                                                *)
(***************************************************************************)
EXTENDS Shell, Integers, SequenceTheorems, WellFoundedInduction, TLAPS

(* Induction over the natural numbers, stated of sets.                       *)
LEMMA SetInduction ==
  ASSUME NEW S \in SUBSET Nat, 0 \in S, \A n \in S : n + 1 \in S
  PROVE  S = Nat
<1> SUFFICES ASSUME Nat \ S # {} PROVE FALSE
  OBVIOUS
<1> DEFINE R == OpToRel(<, Nat)
           T == Nat \ S
<1>1. R = {z \in Nat \X Nat : z[1] < z[2]}
  BY DEF OpToRel
<1>2. IsWellFoundedOn(R, Nat) /\ T \in SUBSET Nat /\ T # {}
  BY NatLessThanWellFounded
<1> HIDE DEF R, T
<1>3. PICK x \in T : \A y \in T : ~ (<<y, x>> \in R)
  BY <1>2, WFMin
<1>4. x \in Nat /\ x # 0 /\ x - 1 \in Nat /\ x - 1 < x
  BY <1>2 DEF T
<1>5. x - 1 \in S
  <2>1. <<x - 1, x>> \in R
    BY <1>1, <1>4
  <2> QED BY <1>3, <1>4, <2>1 DEF T
<1>6. (x - 1) + 1 = x
  BY <1>4
<1> QED BY <1>5, <1>6 DEF T

-----------------------------------------------------------------------------
(* The components of a path.                                                 *)
Component == Names \union {".", ".."}

LEMMA NamesApart == "." \notin Names /\ ".." \notin Names /\ "nothing" \notin Names
BY ShellAssumption

LEMMA ComponentsOf ==
  ASSUME NEW S, NEW s \in Seq(S)
  PROVE  /\ Len(s) \in Nat /\ DOMAIN s = 1..Len(s) /\ \A k \in 1..Len(s) : s[k] \in S
         /\ s = <<>> <=> Len(s) = 0
BY LenProperties, ElementOfSeq, EmptySeq

(* The first k components.                                                   *)
LEMMA FirstPart ==
  ASSUME NEW S, NEW s \in Seq(S), NEW k \in Nat, k <= Len(s)
  PROVE  /\ SubSeq(s, 1, k) \in Seq(S) /\ Len(SubSeq(s, 1, k)) = k
         /\ \A i \in 1..k : SubSeq(s, 1, k)[i] = s[i]
<1>1. Len(s) \in Nat /\ 1 \in Int /\ k \in Int
  BY LenProperties
<1>2. \A i \in 1..k : s[i] \in S
  <2> SUFFICES ASSUME NEW i \in 1..k PROVE s[i] \in S
    OBVIOUS
  <2>1. i \in 1..Len(s)
    BY <1>1
  <2> QED BY <2>1, ElementOfSeq
<1>3. /\ SubSeq(s, 1, k) \in Seq(S)
      /\ Len(SubSeq(s, 1, k)) = IF 1 <= k THEN k - 1 + 1 ELSE 0
      /\ \A i \in 1..k - 1 + 1 : SubSeq(s, 1, k)[i] = s[1 + i - 1]
  BY <1>1, <1>2, SubSeqProperties
<1>4. k - 1 + 1 = k /\ \A i \in 1..k : 1 + i - 1 = i
  OBVIOUS
<1> QED BY <1>3, <1>4

LEMMA PartsAre ==
  ASSUME NEW S, NEW s \in Seq(S)
  PROVE  /\ SubSeq(s, 1, 0) = <<>> /\ SubSeq(s, 1, Len(s)) = s
         /\ \A k \in 1..Len(s) : /\ SubSeq(s, 1, k) = Append(SubSeq(s, 1, k - 1), s[k])
                                 /\ Front(SubSeq(s, 1, k)) = SubSeq(s, 1, k - 1)
<1>1. Len(s) \in Nat
  BY LenProperties
<1>2. SubSeq(s, 1, 0) = <<>> /\ SubSeq(s, 1, Len(s)) = s
  BY SubSeqEmpty, SubSeqFull
<1>3. ASSUME NEW k \in 1..Len(s)
      PROVE  /\ SubSeq(s, 1, k) = Append(SubSeq(s, 1, k - 1), s[k])
             /\ Front(SubSeq(s, 1, k)) = SubSeq(s, 1, k - 1)
  <2> DEFINE p == SubSeq(s, 1, k)
             q == SubSeq(s, 1, k - 1)
  <2>1. k \in Nat /\ k - 1 \in Nat /\ k <= Len(s) /\ k - 1 <= Len(s) /\ s[k] \in S
    BY <1>1, ElementOfSeq
  <2>2. p \in Seq(S) /\ Len(p) = k /\ \A i \in 1..k : p[i] = s[i]
    BY <2>1, FirstPart
  <2>3. q \in Seq(S) /\ Len(q) = k - 1 /\ \A i \in 1..k - 1 : q[i] = s[i]
    BY <2>1, FirstPart
  <2> HIDE DEF p, q
  <2>4. /\ Append(q, s[k]) \in Seq(S) /\ Len(Append(q, s[k])) = k
        /\ \A i \in 1..k - 1 : Append(q, s[k])[i] = q[i]
        /\ Append(q, s[k])[k] = s[k]
    <3>1. (k - 1) + 1 = k
      BY <2>1
    <3> QED BY <2>1, <2>3, <3>1, AppendProperties
  <2>5. p = Append(q, s[k])
    <3>1. \A i \in 1..k : p[i] = Append(q, s[k])[i]
      BY <2>1, <2>2, <2>3, <2>4
    <3> QED BY <2>2, <2>4, <3>1, SeqEqual
  <2>6. Front(p) = q
    <3>1. Front(p) = SubSeq(p, 1, k - 1)
      BY <2>2 DEF Front
    <3>2. /\ SubSeq(p, 1, k - 1) \in Seq(S) /\ Len(SubSeq(p, 1, k - 1)) = k - 1
          /\ \A i \in 1..k - 1 : SubSeq(p, 1, k - 1)[i] = p[i]
      BY <2>1, <2>2, FirstPart
    <3>3. \A i \in 1..k - 1 : SubSeq(p, 1, k - 1)[i] = q[i]
      BY <2>1, <2>2, <2>3, <3>2
    <3> QED BY <2>3, <3>1, <3>2, <3>3, SeqEqual
  <2> QED BY <2>5, <2>6 DEF p, q
<1> QED BY <1>2, <1>3

LEMMA FrontIs ==
  ASSUME NEW S, NEW s \in Seq(S), s # <<>>
  PROVE  /\ Front(s) \in Seq(S) /\ Len(Front(s)) = Len(s) - 1 /\ Front(s) = SubSeq(s, 1, Len(s) - 1)
         /\ Front(s) # s /\ IsPrefix(Front(s), s)
<1>1. Len(s) \in Nat /\ Len(s) - 1 \in Nat /\ Len(s) - 1 <= Len(s)
  BY EmptySeq, LenProperties
<1>2. /\ Front(s) = SubSeq(s, 1, Len(s) - 1) /\ Front(s) \in Seq(S) /\ Len(Front(s)) = Len(s) - 1
  BY <1>1, FirstPart DEF Front
<1>3. SubSeq(Front(s), 1, Len(Front(s))) = Front(s)
  BY <1>2, SubSeqFull
<1>4. Front(s) # s
  BY <1>1, <1>2
<1>5. IsPrefix(Front(s), s)
  BY <1>1, <1>2, <1>3 DEF IsPrefix
<1> QED BY <1>2, <1>4, <1>5

LEMMA FrontAppend ==
  ASSUME NEW S, NEW s \in Seq(S), NEW e \in S
  PROVE  /\ Append(s, e) \in Seq(S) /\ Append(s, e) # <<>> /\ Len(Append(s, e)) = Len(s) + 1
         /\ Front(Append(s, e)) = s
<1> DEFINE t == Append(s, e)
           n == Len(s)
<1>1. /\ t \in Seq(S) /\ t # <<>> /\ Len(t) = n + 1 /\ n \in Nat
      /\ \A i \in 1..n : t[i] = s[i]
  BY AppendProperties, LenProperties
<1> HIDE DEF t
<1>2. Len(t) - 1 = n /\ n <= Len(t)
  BY <1>1
<1>3. /\ SubSeq(t, 1, n) \in Seq(S) /\ Len(SubSeq(t, 1, n)) = n
      /\ \A i \in 1..n : SubSeq(t, 1, n)[i] = t[i]
  BY <1>1, <1>2, FirstPart
<1>4. SubSeq(t, 1, n) = s
  BY <1>1, <1>3, SeqEqual
<1> QED BY <1>1, <1>2, <1>4 DEF t, Front

-----------------------------------------------------------------------------
(* normalize_path, component by component.                                   *)
IsScan(comps, n, f) ==
  \A k \in 0..n : f[k] = IF k = 0 THEN Start ELSE Scanned(f[k - 1], comps[k])

LEMMA ScanExists ==
  ASSUME NEW comps, NEW n \in Nat
  PROVE  \E f : IsScan(comps, n, f)
<1> DEFINE S == {m \in Nat : \E f : IsScan(comps, m, f)}
<1>1. 0 \in S
  <2>1. IsScan(comps, 0, [k \in {0} |-> Start])
    BY DEF IsScan
  <2> QED BY <2>1
<1>2. ASSUME NEW m \in S PROVE m + 1 \in S
  <2>1. PICK f : IsScan(comps, m, f)
    OBVIOUS
  <2> DEFINE g == [k \in 0..m + 1 |-> IF k <= m THEN f[k] ELSE Scanned(f[m], comps[m + 1])]
  <2>2. ASSUME NEW k \in 0..m + 1
        PROVE  g[k] = IF k = 0 THEN Start ELSE Scanned(g[k - 1], comps[k])
    <3>1. m \in Nat
      OBVIOUS
    <3>2. CASE k <= m
      <4>1. g[k] = f[k] /\ (k # 0 => g[k - 1] = f[k - 1]) /\ k \in 0..m
        BY <3>1, <3>2
      <4> HIDE DEF g
      <4> QED BY <2>1, <4>1 DEF IsScan
    <3>3. CASE k = m + 1
      BY <3>1, <3>3
    <3> QED BY <3>1, <3>2, <3>3
  <2> HIDE DEF g
  <2>3. IsScan(comps, m + 1, g)
    BY <2>2 DEF IsScan
  <2> QED BY <2>3
<1>3. S = Nat
  <2>1. S \in SUBSET Nat
    OBVIOUS
  <2> HIDE DEF S
  <2> QED BY <1>1, <1>2, <2>1, SetInduction
<1> QED BY <1>3

LEMMA NormalizeIs ==
  ASSUME NEW comps, Len(comps) \in Nat
  PROVE  \E f : IsScan(comps, Len(comps), f) /\ Normalize(comps) = f[Len(comps)].out
<1> DEFINE n == Len(comps)
           cell(g, k) == IF k = 0 THEN Start ELSE Scanned(g[k - 1], comps[k])
           step(g) == [k \in 0..n |-> cell(g, k)]
<1>1. PICK u : IsScan(comps, n, u)
  BY ScanExists
<1> DEFINE q == [k \in 0..n |-> u[k]]
           g == CHOOSE h : h = step(h)
<1>2. q = step(q)
  <2> SUFFICES ASSUME NEW k \in 0..n PROVE u[k] = cell(q, k)
    OBVIOUS
  <2>1. u[k] = cell(u, k)
    BY <1>1 DEF IsScan
  <2>2. k # 0 => q[k - 1] = u[k - 1]
    OBVIOUS
  <2> HIDE DEF q
  <2> QED BY <2>1, <2>2
<1>3. Normalize(comps) = g[n].out
  BY DEF Normalize
<1>4. g = step(g)
  <2> HIDE DEF q, step
  <2> QED BY <1>2
<1> HIDE DEF g
<1>5. IsScan(comps, n, g)
  <2> SUFFICES ASSUME NEW k \in 0..n PROVE g[k] = cell(g, k)
    BY DEF IsScan
  <2>1. step(g)[k] = cell(g, k)
    OBVIOUS
  <2> HIDE DEF step
  <2> QED BY <1>4, <2>1
<1> QED BY <1>3, <1>5

(* What it has after each component.                                         *)
ScanState == [out : Seq(Names), last : Nat, named : BOOLEAN]

LEMMA ScannedTyped ==
  ASSUME NEW s \in ScanState, s.last <= Len(s.out), NEW c \in Component
  PROVE  /\ Scanned(s, c) \in ScanState /\ Scanned(s, c).last <= Len(Scanned(s, c).out)
         /\ c = "." => Scanned(s, c) = s
         /\ c = ".." /\ s.named => /\ Scanned(s, c).out = SubSeq(s.out, 1, s.last)
                                   /\ Scanned(s, c).last = s.last /\ Scanned(s, c).named
         /\ c \in Names => Scanned(s, c) = [out |-> Append(s.out, c), last |-> Len(s.out), named |-> TRUE]
<1> DEFINE o == s.out
<1>1. o \in Seq(Names) /\ s.last \in Nat /\ s.named \in BOOLEAN /\ Len(o) \in Nat
  BY LenProperties DEF ScanState
<1>2. CASE c = "."
  BY <1>2, NamesApart DEF Scanned
<1>3. CASE c = ".."
  <2> DEFINE t == IF s.named THEN SubSeq(o, 1, s.last) ELSE o
  <2>1. t \in Seq(Names) /\ s.last <= Len(t)
    BY <1>1, FirstPart
  <2>2. Scanned(s, c) = [s EXCEPT !.out = t]
    BY <1>3 DEF Scanned
  <2>3. s.named => t = SubSeq(s.out, 1, s.last)
    OBVIOUS
  <2> HIDE DEF t
  <2>4. /\ Scanned(s, c).out = t /\ Scanned(s, c).last = s.last /\ Scanned(s, c).named = s.named
        /\ Scanned(s, c) \in ScanState
    BY <1>1, <2>1, <2>2 DEF ScanState
  <2> QED BY <1>3, <2>1, <2>3, <2>4, NamesApart
<1>4. CASE c \in Names
  <2>1. Scanned(s, c) = [out |-> Append(o, c), last |-> Len(o), named |-> TRUE] /\ c # "." /\ c # ".."
    BY <1>4, NamesApart DEF Scanned
  <2>2. Append(o, c) \in Seq(Names) /\ Len(o) <= Len(Append(o, c))
    BY <1>1, <1>4, FrontAppend
  <2> QED BY <1>1, <2>1, <2>2 DEF ScanState
<1> QED BY <1>2, <1>3, <1>4 DEF Component

LEMMA ScanTyped ==
  ASSUME NEW comps \in Seq(Component), NEW n \in Nat, n <= Len(comps), NEW f, IsScan(comps, n, f)
  PROVE  \A k \in 0..n : f[k] \in ScanState /\ f[k].last <= Len(f[k].out)
<1> DEFINE Fine(s) == s \in ScanState /\ s.last <= Len(s.out)
           S == {k \in Nat : k <= n => Fine(f[k])}
<1>1. 0 \in S
  <2>1. f[0] = Start
    BY DEF IsScan
  <2>2. Start \in ScanState /\ Start.last = 0 /\ Len(Start.out) = 0
    BY EmptySeq DEF Start, ScanState, RootDir
  <2> QED BY <2>1, <2>2
<1>2. ASSUME NEW m \in S PROVE m + 1 \in S
  <2> SUFFICES ASSUME m + 1 <= n PROVE Fine(f[m + 1])
    OBVIOUS
  <2>1. m \in Nat /\ m + 1 \in 1..n /\ m <= n /\ m + 1 # 0 /\ (m + 1) - 1 = m
    OBVIOUS
  <2>2. Fine(f[m]) /\ f[m + 1] = Scanned(f[m], comps[m + 1])
    BY <2>1 DEF IsScan
  <2>3. comps[m + 1] \in Component
    BY <2>1, ComponentsOf
  <2> QED BY <2>2, <2>3, ScannedTyped
<1>3. S = Nat
  <2>1. S \in SUBSET Nat
    OBVIOUS
  <2> HIDE DEF S
  <2> QED BY <1>1, <1>2, <2>1, SetInduction
<1> QED BY <1>3

LEMMA NormalizeTyped ==
  ASSUME NEW comps \in Seq(Component)
  PROVE  Normalize(comps) \in Seq(Names)
<1>1. Len(comps) \in Nat
  BY ComponentsOf
<1>2. PICK f : IsScan(comps, Len(comps), f) /\ Normalize(comps) = f[Len(comps)].out
  BY <1>1, NormalizeIs
<1>3. f[Len(comps)] \in ScanState
  BY <1>1, <1>2, ScanTyped
<1> QED BY <1>2, <1>3 DEF ScanState

(* The walk of the driver, component by component.                           *)
IsWalk(comps, n, f) ==
  \A k \in 0..n : f[k] = IF k = 0 THEN RootDir ELSE Below(f[k - 1], comps[k])

LEMMA WalkExists ==
  ASSUME NEW comps, NEW n \in Nat
  PROVE  \E f : IsWalk(comps, n, f)
<1> DEFINE S == {m \in Nat : \E f : IsWalk(comps, m, f)}
<1>1. 0 \in S
  <2>1. IsWalk(comps, 0, [k \in {0} |-> RootDir])
    BY DEF IsWalk
  <2> QED BY <2>1
<1>2. ASSUME NEW m \in S PROVE m + 1 \in S
  <2>1. PICK f : IsWalk(comps, m, f)
    OBVIOUS
  <2> DEFINE g == [k \in 0..m + 1 |-> IF k <= m THEN f[k] ELSE Below(f[m], comps[m + 1])]
  <2>2. ASSUME NEW k \in 0..m + 1
        PROVE  g[k] = IF k = 0 THEN RootDir ELSE Below(g[k - 1], comps[k])
    <3>1. m \in Nat
      OBVIOUS
    <3>2. CASE k <= m
      <4>1. g[k] = f[k] /\ (k # 0 => g[k - 1] = f[k - 1]) /\ k \in 0..m
        BY <3>1, <3>2
      <4> HIDE DEF g
      <4> QED BY <2>1, <4>1 DEF IsWalk
    <3>3. CASE k = m + 1
      BY <3>1, <3>3
    <3> QED BY <3>1, <3>2, <3>3
  <2> HIDE DEF g
  <2>3. IsWalk(comps, m + 1, g)
    BY <2>2 DEF IsWalk
  <2> QED BY <2>3
<1>3. S = Nat
  <2>1. S \in SUBSET Nat
    OBVIOUS
  <2> HIDE DEF S
  <2> QED BY <1>1, <1>2, <2>1, SetInduction
<1> QED BY <1>3

LEMMA WalkIs ==
  ASSUME NEW comps, Len(comps) \in Nat
  PROVE  \E f : IsWalk(comps, Len(comps), f) /\ Walk(comps) = f[Len(comps)]
<1> DEFINE n == Len(comps)
           cell(g, k) == IF k = 0 THEN RootDir ELSE Below(g[k - 1], comps[k])
           step(g) == [k \in 0..n |-> cell(g, k)]
<1>1. PICK u : IsWalk(comps, n, u)
  BY WalkExists
<1> DEFINE q == [k \in 0..n |-> u[k]]
           g == CHOOSE h : h = step(h)
<1>2. q = step(q)
  <2> SUFFICES ASSUME NEW k \in 0..n PROVE u[k] = cell(q, k)
    OBVIOUS
  <2>1. u[k] = cell(u, k)
    BY <1>1 DEF IsWalk
  <2>2. k # 0 => q[k - 1] = u[k - 1]
    OBVIOUS
  <2> HIDE DEF q
  <2> QED BY <2>1, <2>2
<1>3. Walk(comps) = g[n]
  BY DEF Walk
<1>4. g = step(g)
  <2> HIDE DEF q, step
  <2> QED BY <1>2
<1> HIDE DEF g
<1>5. IsWalk(comps, n, g)
  <2> SUFFICES ASSUME NEW k \in 0..n PROVE g[k] = cell(g, k)
    BY DEF IsWalk
  <2>1. step(g)[k] = cell(g, k)
    OBVIOUS
  <2> HIDE DEF step
  <2> QED BY <1>4, <2>1
<1> QED BY <1>3, <1>5

-----------------------------------------------------------------------------
(* What exists is a tree: whatever exists is in a directory.                 *)
Tree == \A p \in files \union dirs : Front(p) \in dirs \union {RootDir}

LEMMA PathTyped ==
  ASSUME TypeOK, NEW p \in files \union dirs \union {RootDir}
  PROVE  p \in Seq(Names) /\ p # NOTHING /\ (p \in files \union dirs => p # RootDir)
<1>1. RootDir \in Seq(Names) /\ Len(RootDir) = 0
  BY EmptySeq DEF RootDir
<1>2. p \in Seq(Names) /\ (p \in files \union dirs => p # RootDir)
  BY <1>1, ShellAssumption DEF TypeOK
<1>3. ASSUME p = NOTHING PROVE FALSE
  <2>1. Len(p) = 1 /\ p[1] = "nothing"
    BY <1>3 DEF NOTHING
  <2>2. p[1] \in Names
    BY <1>2, <2>1, ComponentsOf
  <2> QED BY <2>1, <2>2, NamesApart
<1> QED BY <1>2, <1>3

LEMMA NothingThere ==
  ASSUME TypeOK
  PROVE  ~ IsDir(NOTHING) /\ \A c : Below(NOTHING, c) = NOTHING
<1>1. ~ IsDir(NOTHING)
  BY PathTyped DEF IsDir
<1> QED BY <1>1 DEF Below

(* A path of names is found as it is written, or not at all.                 *)
LEMMA WalkOfNames ==
  ASSUME TypeOK, NEW path \in Seq(Names), NEW n \in Nat, n <= Len(path), NEW f, IsWalk(path, n, f)
  PROVE  \A k \in 0..n : f[k] \in {SubSeq(path, 1, k), NOTHING}
<1> DEFINE S == {k \in Nat : k <= n => f[k] \in {SubSeq(path, 1, k), NOTHING}}
<1>1. 0 \in S
  BY PartsAre DEF IsWalk, RootDir
<1>2. ASSUME NEW m \in S PROVE m + 1 \in S
  <2> SUFFICES ASSUME m + 1 <= n PROVE f[m + 1] \in {SubSeq(path, 1, m + 1), NOTHING}
    OBVIOUS
  <2>1. m \in Nat /\ m + 1 \in 1..n /\ m + 1 \in 0..n /\ m <= n /\ m + 1 # 0 /\ (m + 1) - 1 = m
        /\ m + 1 \in 1..Len(path)
    BY ComponentsOf
  <2>2. f[m + 1] = Below(f[m], path[m + 1]) /\ path[m + 1] \in Names
    BY <2>1, ComponentsOf DEF IsWalk
  <2>3. SubSeq(path, 1, m + 1) = Append(SubSeq(path, 1, m), path[m + 1])
    BY <2>1, PartsAre
  <2>4. f[m] \in {SubSeq(path, 1, m), NOTHING}
    BY <2>1
  <2>5. Below(f[m], path[m + 1]) \in {Append(f[m], path[m + 1]), NOTHING}
    BY <2>2 DEF Below
  <2>6. f[m] = NOTHING => Below(f[m], path[m + 1]) = NOTHING
    BY NothingThere
  <2> QED BY <2>2, <2>3, <2>4, <2>5, <2>6
<1>3. S = Nat
  <2>1. S \in SUBSET Nat
    OBVIOUS
  <2> HIDE DEF S
  <2> QED BY <1>1, <1>2, <2>1, SetInduction
<1> QED BY <1>3

LEMMA WalkOfPath ==
  ASSUME TypeOK, NEW path \in Seq(Names)
  PROVE  Walk(path) \in {path, NOTHING}
<1>1. Len(path) \in Nat
  BY ComponentsOf
<1>2. PICK f : IsWalk(path, Len(path), f) /\ Walk(path) = f[Len(path)]
  BY <1>1, WalkIs
<1>3. f[Len(path)] \in {SubSeq(path, 1, Len(path)), NOTHING}
  BY <1>1, <1>2, WalkOfNames
<1> QED BY <1>2, <1>3, PartsAre

(* The directories above a directory, down to the root.                      *)
LEMMA AboveDir ==
  ASSUME TypeOK, Tree, NEW p \in Seq(Names), IsDir(p)
  PROVE  \A k \in 0..Len(p) : IsDir(SubSeq(p, 1, k))
<1> DEFINE n == Len(p)
           S == {j \in Nat : j <= n => IsDir(SubSeq(p, 1, n - j))}
<1>0. n \in Nat
  BY ComponentsOf
<1>1. 0 \in S
  <2>1. n - 0 = n
    BY <1>0
  <2> QED BY <2>1, PartsAre
<1>2. ASSUME NEW m \in S PROVE m + 1 \in S
  <2> SUFFICES ASSUME m + 1 <= n PROVE IsDir(SubSeq(p, 1, n - (m + 1)))
    OBVIOUS
  <2> DEFINE k == n - m
  <2>1. k \in 1..n /\ k - 1 = n - (m + 1) /\ IsDir(SubSeq(p, 1, k)) /\ k \in Nat /\ k # 0
    BY <1>0
  <2> HIDE DEF k
  <2>2. Front(SubSeq(p, 1, k)) = SubSeq(p, 1, k - 1)
    BY <2>1, PartsAre
  <2>3. SubSeq(p, 1, k) # RootDir
    <3>1. Len(SubSeq(p, 1, k)) = k
      BY <2>1, FirstPart
    <3>2. Len(RootDir) = 0
      BY DEF RootDir
    <3> QED BY <2>1, <3>1, <3>2
  <2>4. IsDir(Front(SubSeq(p, 1, k)))
    BY <2>1, <2>3 DEF IsDir, Tree
  <2> QED BY <2>1, <2>2, <2>4
<1>3. S = Nat
  <2>1. S \in SUBSET Nat
    OBVIOUS
  <2> HIDE DEF S
  <2> QED BY <1>1, <1>2, <2>1, SetInduction
<1>4. ASSUME NEW k \in 0..n PROVE IsDir(SubSeq(p, 1, k))
  <2>1. n - k \in Nat /\ n - k <= n /\ n - (n - k) = k
    BY <1>0
  <2>2. n - k \in S
    BY <1>3, <2>1
  <2>3. IsDir(SubSeq(p, 1, n - (n - k)))
    BY <2>1, <2>2
  <2> QED BY <2>1, <2>3
<1> QED BY <1>4

LEMMA WalkOfDir ==
  ASSUME TypeOK, Tree, NEW p \in Seq(Names), IsDir(p)
  PROVE  Walk(p) = p
<1>0. Len(p) \in Nat
  BY ComponentsOf
<1>1. PICK f : IsWalk(p, Len(p), f) /\ Walk(p) = f[Len(p)]
  BY <1>0, WalkIs
<1> DEFINE S == {k \in Nat : k <= Len(p) => f[k] = SubSeq(p, 1, k)}
<1>2. 0 \in S
  BY <1>0, <1>1, PartsAre DEF IsWalk, RootDir
<1>3. ASSUME NEW m \in S PROVE m + 1 \in S
  <2> SUFFICES ASSUME m + 1 <= Len(p) PROVE f[m + 1] = SubSeq(p, 1, m + 1)
    OBVIOUS
  <2>1. m \in Nat /\ m + 1 \in 1..Len(p) /\ m + 1 \in 0..Len(p) /\ m <= Len(p) /\ m \in 0..Len(p)
        /\ m + 1 # 0 /\ (m + 1) - 1 = m
    BY <1>0
  <2>2. f[m + 1] = Below(f[m], p[m + 1]) /\ p[m + 1] \in Names /\ f[m] = SubSeq(p, 1, m)
    BY <1>1, <2>1, ComponentsOf DEF IsWalk
  <2>3. SubSeq(p, 1, m + 1) = Append(SubSeq(p, 1, m), p[m + 1])
    BY <2>1, PartsAre
  <2>4. IsDir(SubSeq(p, 1, m)) /\ IsDir(SubSeq(p, 1, m + 1))
    BY <2>1, AboveDir
  <2>5. SubSeq(p, 1, m + 1) # RootDir
    <3>1. Len(SubSeq(p, 1, m + 1)) = m + 1
      BY <2>1, FirstPart
    <3> QED BY <2>1, <3>1 DEF RootDir
  <2>6. SubSeq(p, 1, m + 1) \in dirs
    BY <2>4, <2>5 DEF IsDir
  <2> QED BY <2>2, <2>3, <2>4, <2>6 DEF Below
<1>4. S = Nat
  <2>1. S \in SUBSET Nat
    OBVIOUS
  <2> HIDE DEF S
  <2> QED BY <1>2, <1>3, <2>1, SetInduction
<1>5. f[Len(p)] = SubSeq(p, 1, Len(p))
  BY <1>0, <1>4
<1> QED BY <1>1, <1>5, PartsAre

(* Where the root is mounted first, it gets every path whole.                *)
LEMMA OpenFirst ==
  ASSUME RootFirst, mounts \in Seq(Points \union {RootDir}), NEW S, NEW path \in Seq(S)
  PROVE  Open(path) = Walk(path)
<1>1. Len(mounts) \in Nat /\ 1 \in 1..Len(mounts) /\ DOMAIN mounts = 1..Len(mounts) /\ mounts[1] = RootDir
  BY EmptySeq, LenProperties DEF RootFirst
<1>2. Len(RootDir) = 0
  BY DEF RootDir
<1>3. Len(path) \in Nat /\ SubSeq(path, 1, 0) = RootDir /\ SubSeq(path, 1, Len(path)) = path
  BY PartsAre, LenProperties DEF RootDir
<1>4. IsPrefix(RootDir, path)
  BY <1>2, <1>3 DEF IsPrefix
<1>5. 1 \in Serving(path) /\ \A j \in Serving(path) : j \in 1..Len(mounts)
  BY <1>1, <1>4 DEF Serving
<1> DEFINE i == CHOOSE i \in Serving(path) : \A j \in Serving(path) : i <= j
<1>6. i = 1
  <2>1. \A j \in Serving(path) : 1 <= j
    BY <1>5
  <2>2. \E a \in Serving(path) : \A j \in Serving(path) : a <= j
    BY <1>5, <2>1
  <2>3. i \in Serving(path) /\ \A j \in Serving(path) : i <= j
    BY <2>2
  <2> HIDE DEF i
  <2>4. i <= 1 /\ i \in 1..Len(mounts)
    BY <1>5, <2>3
  <2> QED BY <1>1, <2>4
<1>7. Open(path) = Walk(SubSeq(path, Len(mounts[i]) + 1, Len(path)))
  BY <1>5 DEF Open
<1> HIDE DEF i
<1>8. Len(mounts[i]) + 1 = 1
  BY <1>1, <1>2, <1>6
<1> QED BY <1>3, <1>7, <1>8

-----------------------------------------------------------------------------
(* Since the last "..", a name was met.                                      *)
Fresh(comps, k) ==
  \A i \in 1..k : comps[i] = ".." => \E q \in i..k : comps[q] \in Names

(* What the text says of a path, s, is where the walk got to, p, and the     *)
(* place a ".." goes back to is the directory above.                         *)
Agrees(s, p, fresh) ==
  /\ s.out = p
  /\ p # RootDir => s.named
  /\ fresh /\ s.named => p # RootDir /\ s.last = Len(p) - 1

LEMMA FreshStep ==
  ASSUME NEW comps, NEW k \in Nat, comps[k + 1] \notin Names
  PROVE  /\ Fresh(comps, k + 1) => Fresh(comps, k)
         /\ comps[k + 1] = ".." => ~ Fresh(comps, k + 1)
<1>1. ASSUME Fresh(comps, k + 1) PROVE Fresh(comps, k)
  <2> SUFFICES ASSUME NEW i \in 1..k, comps[i] = ".." PROVE \E q \in i..k : comps[q] \in Names
    BY DEF Fresh
  <2>1. i \in 1..k + 1
    OBVIOUS
  <2>2. PICK q \in i..k + 1 : comps[q] \in Names
    BY <1>1, <2>1 DEF Fresh
  <2>3. q # k + 1
    BY <2>2
  <2> QED BY <2>2, <2>3
<1>2. ASSUME comps[k + 1] = "..", Fresh(comps, k + 1) PROVE FALSE
  <2>1. k + 1 \in 1..k + 1
    OBVIOUS
  <2>2. PICK q \in k + 1..k + 1 : comps[q] \in Names
    BY <1>2, <2>1 DEF Fresh
  <2>3. q = k + 1
    OBVIOUS
  <2> QED BY <2>2, <2>3
<1> QED BY <1>1, <1>2

LEMMA FreshForUp ==
  ASSUME NEW comps \in Seq(Component), OneUpAtATime(comps), NEW k \in Nat, k + 1 <= Len(comps),
         comps[k + 1] = ".."
  PROVE  Fresh(comps, k)
<1> SUFFICES ASSUME NEW i \in 1..k, comps[i] = ".." PROVE \E q \in i..k : comps[q] \in Names
  BY DEF Fresh
<1>1. i \in DOMAIN comps /\ k + 1 \in DOMAIN comps /\ i < k + 1
  BY ComponentsOf
<1>2. PICK q \in i..k + 1 : comps[q] \in Names
  BY <1>1 DEF OneUpAtATime
<1>3. q # k + 1
  BY <1>2, NamesApart
<1> QED BY <1>2, <1>3

LEMMA AgreesStep ==
  ASSUME TypeOK, NEW s \in ScanState, s.last <= Len(s.out), NEW p, NEW c \in Component,
         IsDir(Below(p, c)), NEW fresh \in BOOLEAN, NEW fresh2 \in BOOLEAN,
         IsDir(p) => Agrees(s, p, fresh),
         c = ".." => fresh, c = ".." => ~fresh2, c = "." => (fresh2 => fresh)
  PROVE  Agrees(Scanned(s, c), Below(p, c), fresh2)
<1>1. IsDir(p)
  BY NothingThere DEF Below
<1>2. /\ s.out = p /\ (p # RootDir => s.named)
      /\ (fresh /\ s.named => p # RootDir /\ s.last = Len(p) - 1)
  BY <1>1 DEF Agrees
<1>3. p \in Seq(Names)
  BY <1>1, PathTyped DEF IsDir
<1>4. CASE c \in Names
  <2>1. Below(p, c) = Append(p, c)
    BY <1>4, NothingThere DEF Below
  <2>2. Scanned(s, c) = [out |-> Append(s.out, c), last |-> Len(s.out), named |-> TRUE]
    BY <1>4, ScannedTyped
  <2>3. Append(p, c) # <<>> /\ Len(Append(p, c)) = Len(p) + 1 /\ Len(p) \in Nat
    BY <1>3, <1>4, FrontAppend, LenProperties
  <2>4. Len(p) = Len(Append(p, c)) - 1
    BY <2>3
  <2> QED BY <1>2, <2>1, <2>2, <2>3, <2>4 DEF Agrees, RootDir
<1>5. CASE c \notin Names
  <2>1. p # RootDir
    BY <1>1, <1>5, NothingThere DEF Below
  <2>2. CASE c = "."
    <3>1. Below(p, c) = p
      BY <1>1, <1>5, <2>1, <2>2 DEF Below
    <3>2. Scanned(s, c) = s
      BY <2>2, ScannedTyped
    <3> QED BY <1>2, <2>1, <2>2, <3>1, <3>2 DEF Agrees
  <2>3. CASE c = ".."
    <3>1. Below(p, c) = Front(p)
      BY <1>1, <1>5, <2>1, <2>3 DEF Below
    <3>2. s.named /\ s.last = Len(p) - 1
      BY <1>2, <2>1, <2>3
    <3>3. Scanned(s, c).out = SubSeq(p, 1, s.last) /\ Scanned(s, c).named
      BY <1>2, <2>3, <3>2, ScannedTyped
    <3>4. Front(p) = SubSeq(p, 1, Len(p) - 1)
      BY <1>3, <2>1, FrontIs DEF RootDir
    <3> QED BY <2>3, <3>1, <3>2, <3>3, <3>4 DEF Agrees
  <2> QED BY <1>5, <2>2, <2>3 DEF Component
<1> QED BY <1>4, <1>5

LEMMA Agree ==
  ASSUME TypeOK, NEW comps \in Seq(Component), OneUpAtATime(comps), IsDir(Walk(comps))
  PROVE  Normalize(comps) = Walk(comps)
<1> DEFINE n == Len(comps)
<1>0. n \in Nat
  BY ComponentsOf
<1>1. PICK f : IsScan(comps, n, f) /\ Normalize(comps) = f[n].out
  BY <1>0, NormalizeIs
<1>2. PICK w : IsWalk(comps, n, w) /\ Walk(comps) = w[n]
  BY <1>0, WalkIs
<1>3. \A k \in 0..n : f[k] \in ScanState /\ f[k].last <= Len(f[k].out)
  BY <1>0, <1>1, ScanTyped
<1> DEFINE S == {k \in Nat : k <= n => (IsDir(w[k]) => Agrees(f[k], w[k], Fresh(comps, k)))}
<1>4. 0 \in S
  <2>1. f[0] = Start /\ w[0] = RootDir
    BY <1>0, <1>1, <1>2 DEF IsScan, IsWalk
  <2> QED BY <2>1 DEF Agrees, Start
<1>5. ASSUME NEW m \in S PROVE m + 1 \in S
  <2> SUFFICES ASSUME m + 1 <= n, IsDir(w[m + 1])
               PROVE  Agrees(f[m + 1], w[m + 1], Fresh(comps, m + 1))
    OBVIOUS
  <2> DEFINE c == comps[m + 1]
  <2>1. m \in Nat /\ m + 1 \in 1..n /\ m + 1 \in 0..n /\ m <= n /\ m \in 0..n /\ m + 1 # 0
        /\ (m + 1) - 1 = m
    BY <1>0
  <2>2. w[m + 1] = Below(w[m], c) /\ f[m + 1] = Scanned(f[m], c) /\ c \in Component
    BY <1>1, <1>2, <2>1, ComponentsOf DEF IsScan, IsWalk
  <2>3. IsDir(w[m]) => Agrees(f[m], w[m], Fresh(comps, m))
    BY <2>1
  <2>4. f[m] \in ScanState /\ f[m].last <= Len(f[m].out)
    BY <1>3, <2>1
  <2>5. c = ".." => Fresh(comps, m)
    BY <2>1, FreshForUp
  <2>6. c = ".." => ~ Fresh(comps, m + 1)
    BY <2>1, NamesApart, FreshStep
  <2>7. c = "." => (Fresh(comps, m + 1) => Fresh(comps, m))
    BY <2>1, NamesApart, FreshStep
  <2>8. Fresh(comps, m) \in BOOLEAN /\ Fresh(comps, m + 1) \in BOOLEAN
    BY DEF Fresh
  <2>9. IsDir(Below(w[m], c))
    BY <2>2
  <2> HIDE DEF c
  <2> QED BY <2>2, <2>3, <2>4, <2>5, <2>6, <2>7, <2>8, <2>9, AgreesStep
<1>6. S = Nat
  <2>1. S \in SUBSET Nat
    OBVIOUS
  <2> HIDE DEF S
  <2> QED BY <1>4, <1>5, <2>1, SetInduction
<1>7. Agrees(f[n], w[n], Fresh(comps, n))
  BY <1>0, <1>2, <1>6
<1> QED BY <1>1, <1>2, <1>7 DEF Agrees

(* What a command builds from what was typed.                                *)
LEMMA TypedIs ==
  ASSUME TypeOK, NEW arg \in Args
  PROVE  Typed(arg) \in Seq(Component) /\ OneUpAtATime(Typed(arg))
<1> DEFINE a == arg.comps
           d == current_dir
<1>1. a \in Seq(Component) /\ OneUpAtATime(a) /\ d \in Seq(Names)
  BY ShellAssumption DEF Component, TypeOK
<1>2. /\ Len(a) \in Nat /\ Len(d) \in Nat /\ DOMAIN a = 1..Len(a) /\ d \in Seq(Component)
      /\ \A k \in 1..Len(d) : d[k] \in Names
  <2>1. \A k \in 1..Len(d) : d[k] \in Names
    BY <1>1, ComponentsOf
  <2> QED BY <1>1, <2>1, ComponentsOf DEF Component
<1> DEFINE t == d \o a
<1>3. /\ t \in Seq(Component) /\ Len(t) = Len(d) + Len(a)
      /\ \A i \in 1..Len(t) : t[i] = IF i <= Len(d) THEN d[i] ELSE a[i - Len(d)]
  BY <1>1, <1>2, ConcatProperties
<1>4. OneUpAtATime(t)
  <2> HIDE DEF t, a, d
  <2>1. SUFFICES ASSUME NEW i \in DOMAIN t, NEW j \in DOMAIN t, i < j, t[i] = "..", t[j] = ".."
                 PROVE  \E k \in i..j : t[k] \in Names
    BY DEF OneUpAtATime
  <2>2. DOMAIN t = 1..Len(t) /\ Len(t) \in Nat
    BY <1>3, ComponentsOf
  <2>3. i > Len(d) /\ j > Len(d)
    BY <1>2, <1>3, <2>1, <2>2, NamesApart
  <2>4. i - Len(d) \in 1..Len(a) /\ j - Len(d) \in 1..Len(a) /\ i - Len(d) < j - Len(d)
        /\ a[i - Len(d)] = ".." /\ a[j - Len(d)] = ".."
    BY <1>2, <1>3, <2>1, <2>2, <2>3
  <2>5. PICK k \in i - Len(d)..j - Len(d) : a[k] \in Names
    BY <1>1, <1>2, <2>4 DEF OneUpAtATime
  <2>6. k + Len(d) \in i..j /\ k + Len(d) \in 1..Len(t) /\ ~ (k + Len(d) <= Len(d))
        /\ (k + Len(d)) - Len(d) = k
    BY <1>2, <1>3, <2>2, <2>3, <2>4
  <2>7. t[k + Len(d)] = a[k]
    BY <1>3, <2>6
  <2> QED BY <2>5, <2>6, <2>7
<1> QED BY <1>1, <1>3, <1>4 DEF Typed

-----------------------------------------------------------------------------
(* The inductive invariant.                                                  *)
Inv ==
  /\ TypeOK
  /\ Tree
  /\ CurrentDirExists
  /\ mounts = <<>> => current_dir = RootDir

LEMMA InvInit == Init => Inv
<1> SUFFICES ASSUME Init PROVE Inv
  OBVIOUS
<1>1. RootDir \in Seq(Names) /\ <<>> \in Seq(Points \union {RootDir})
      /\ <<RootDir>> \in Seq(Points \union {RootDir})
  BY EmptySeq DEF RootDir
<1>2. TypeOK
  BY <1>1 DEF Init, TypeOK
<1> QED BY <1>2 DEF Init, Inv, Tree, CurrentDirExists, IsDir

(* Where cd goes: no further than a directory that is there.                 *)
LEMMA CdEnters ==
  ASSUME Inv, NEW arg \in Args, IsDir(Open(Normalize(Typed(arg))))
  PROVE  /\ Normalize(Typed(arg)) \in Seq(Names)
         /\ RootFirst => IsDir(Normalize(Typed(arg)))
         /\ mounts # <<>>
<1> DEFINE path == Normalize(Typed(arg))
<1>1. path \in Seq(Names)
  BY TypedIs, NormalizeTyped DEF Inv
<1> HIDE DEF path
<1>2. ASSUME RootFirst PROVE IsDir(path)
  <2>1. Open(path) = Walk(path)
    BY <1>1, <1>2, OpenFirst DEF Inv, TypeOK
  <2>2. Walk(path) \in {path, NOTHING}
    BY <1>1, WalkOfPath DEF Inv
  <2>3. IsDir(Walk(path))
    BY <2>1 DEF path
  <2> QED BY <2>2, <2>3, NothingThere DEF Inv
<1>3. mounts # <<>>
  <2> SUFFICES ASSUME mounts = <<>> PROVE FALSE
    OBVIOUS
  <2>1. Serving(path) = {}
    BY EmptySeq DEF Serving
  <2>2. Open(path) = NOTHING
    BY <2>1 DEF Open
  <2> QED BY <2>2, NothingThere DEF Inv, path
<1> QED BY <1>1, <1>2, <1>3 DEF path

LEMMA CdKeeps ==
  ASSUME Inv, NEW arg \in Args, Cd(arg)
  PROVE  Inv'
<1>1. /\ current_dir' \in Seq(Names) /\ (RootFirst => IsDir(current_dir')) /\ mounts # <<>>
      /\ UNCHANGED <<files, dirs, mounts>>
  BY CdEnters DEF Cd
<1> QED BY <1>1 DEF Inv, TypeOK, Tree, CurrentDirExists, IsDir, RootFirst

LEMMA MkdirKeeps ==
  ASSUME Inv, NEW arg \in Args, Mkdir(arg)
  PROVE  Inv'
<1>1. PICK p \in Paths : files' = files /\ dirs' = dirs \union {p}
  BY DEF Mkdir
<1>2. UNCHANGED <<current_dir, mounts>>
  BY DEF Mkdir
<1>3. PICK q \in dirs' \ (files \union dirs) : Volume!InADirectory(q)
  BY DEF Mkdir, Volume!AddDir
<1>4. p = q /\ p \notin files /\ Front(p) \in dirs \union {RootDir}
  BY <1>1, <1>3 DEF Volume!InADirectory, Volume!Front, Front, RootDir
<1> QED BY <1>1, <1>2, <1>4 DEF Inv, TypeOK, Tree, CurrentDirExists, IsDir, RootFirst

LEMMA TouchKeeps ==
  ASSUME Inv, NEW arg \in Args, Touch(arg)
  PROVE  Inv'
<1>1. PICK p \in Paths : files' = files \union {p} /\ dirs' = dirs
  BY DEF Touch
<1>2. UNCHANGED <<current_dir, mounts>>
  BY DEF Touch
<1>3. PICK q \in files' \ (files \union dirs) : Volume!InADirectory(q)
  BY DEF Touch, Volume!AddFile
<1>4. p = q /\ p \notin dirs /\ Front(p) \in dirs \union {RootDir}
  BY <1>1, <1>3 DEF Volume!InADirectory, Volume!Front, Front, RootDir
<1> QED BY <1>1, <1>2, <1>4 DEF Inv, TypeOK, Tree, CurrentDirExists, IsDir, RootFirst

LEMMA RmKeeps ==
  ASSUME Inv, NEW arg \in Args, Rm(arg)
  PROVE  Inv'
<1>1. /\ files' \subseteq files /\ dirs' = dirs
      /\ UNCHANGED <<current_dir, mounts>>
  BY DEF Rm
<1> QED BY <1>1 DEF Inv, TypeOK, Tree, CurrentDirExists, IsDir, RootFirst

(* What goes has nothing in it, and the current directory stays.             *)
LEMMA RmdirKeeps ==
  ASSUME Inv, NEW arg \in Args, Rmdir(arg)
  PROVE  Inv'
<1>1. PICK p \in dirs \ {current_dir} : files' = files /\ dirs' = dirs \ {p}
  BY DEF Rmdir
<1>2. UNCHANGED <<current_dir, mounts>>
  BY DEF Rmdir
<1>3. \A q \in files \union dirs : q # p => ~IsPrefix(p, q)
  <2>1. PICK r \in (files \union dirs) \ (files' \union dirs') :
          \A q \in files \union dirs : q # r => ~IsPrefix(r, q)
    BY DEF Rmdir, Volume!Delete, Volume!IsPrefix, IsPrefix
  <2>2. r = p
    BY <1>1, <2>1
  <2> QED BY <2>1, <2>2
<1>4. ASSUME NEW q \in files' \union dirs' PROVE Front(q) \in dirs' \union {RootDir}
  <2>1. q \in files \union dirs
    BY <1>1
  <2>2. q \in Seq(Names) /\ q # RootDir
    BY <2>1, PathTyped DEF Inv
  <2>3. Front(q) # q /\ IsPrefix(Front(q), q)
    BY <2>2, FrontIs DEF RootDir
  <2>4. Front(q) # p
    BY <1>3, <2>1, <2>3
  <2>5. Front(q) \in dirs \union {RootDir}
    BY <2>1 DEF Inv, Tree
  <2> QED BY <1>1, <2>4, <2>5
<1>5. Tree'
  BY <1>4 DEF Tree
<1> QED BY <1>1, <1>2, <1>5 DEF Inv, TypeOK, CurrentDirExists, IsDir, RootFirst

LEMMA MountAtKeeps ==
  ASSUME Inv, NEW point \in Points, MountAt(point)
  PROVE  Inv'
<1> DEFINE S == Points \union {RootDir}
<1>1. mounts' = Append(mounts, point) /\ UNCHANGED <<files, dirs, current_dir>> /\ mounts \in Seq(S)
  BY DEF MountAt, Inv, TypeOK
<1>2. point \in S
  OBVIOUS
<1> HIDE DEF S
<1>3. /\ mounts' \in Seq(S) /\ mounts' # <<>> /\ Len(mounts) \in Nat
      /\ \A i \in 1..Len(mounts) : mounts'[i] = mounts[i]
  BY <1>1, <1>2, AppendProperties, LenProperties
<1>4. TypeOK' /\ Tree'
  BY <1>1, <1>3 DEF Inv, TypeOK, Tree, S
<1>5. CurrentDirExists'
  <2>1. CASE mounts = <<>>
    BY <1>1, <2>1 DEF Inv, CurrentDirExists, IsDir
  <2>2. CASE mounts # <<>>
    <3>1. 1 \in 1..Len(mounts)
      BY <1>1, <1>3, <2>2, EmptySeq
    <3>2. mounts'[1] = mounts[1]
      BY <1>3, <3>1
    <3> QED BY <1>1, <2>2, <3>2 DEF Inv, CurrentDirExists, IsDir, RootFirst
  <2> QED BY <2>1, <2>2
<1> QED BY <1>3, <1>4, <1>5 DEF Inv

LEMMA InvStep == Inv /\ [Next]_vars => Inv'
<1> SUFFICES ASSUME Inv, [Next]_vars PROVE Inv'
  OBVIOUS
<1>1. CASE \E arg \in Args : Cd(arg) \/ Mkdir(arg) \/ Touch(arg) \/ Rm(arg) \/ Rmdir(arg)
  BY <1>1, CdKeeps, MkdirKeeps, TouchKeeps, RmKeeps, RmdirKeeps
<1>2. CASE \E point \in Points : MountAt(point)
  BY <1>2, MountAtKeeps
<1>3. CASE UNCHANGED vars
  BY <1>3 DEF vars, Inv, TypeOK, Tree, CurrentDirExists, IsDir, RootFirst
<1> QED BY <1>1, <1>2, <1>3 DEF Next

LEMMA ShellInvariant == Spec => []Inv
BY InvInit, InvStep, PTL DEF Spec

-----------------------------------------------------------------------------
(* TypeOK holds, for everything users type: the volume has files and         *)
(* directories in different places, current_dir is a path of names, without  *)
(* "." and "..", and the table of mounts has mount points.                   *)
THEOREM ShellTypeOK == Spec => []TypeOK
<1>1. Inv => TypeOK
  BY DEF Inv
<1> QED BY <1>1, ShellInvariant, PTL

(* CurrentDirExists holds, for every order of cd, mkdir, touch, rm, rmdir    *)
(* and mount: what cd opened and entered stays until cd leaves it.           *)
THEOREM ShellCurrentDirExists == Spec => []CurrentDirExists
<1>1. Inv => CurrentDirExists
  BY DEF Inv
<1> QED BY <1>1, ShellInvariant, PTL

LEMMA InvMeans == Inv => CdMeansWhatCommandsMean
<1> SUFFICES ASSUME Inv, RootFirst, NEW arg \in Args, IsDir(Walk(Typed(arg)))
             PROVE  /\ Normalize(Typed(arg)) = Walk(Typed(arg))
                    /\ Open(Walk(Typed(arg))) = Walk(Typed(arg))
  BY Zenon DEF CdMeansWhatCommandsMean
<1> DEFINE there == Walk(Typed(arg))
<1>1. Normalize(Typed(arg)) = there
  BY TypedIs, Agree DEF Inv
<1>2. there \in Seq(Names)
  BY PathTyped DEF Inv, IsDir
<1>3. IsDir(there)
  OBVIOUS
<1> HIDE DEF there
<1>4. Walk(there) = there
  BY <1>2, <1>3, WalkOfDir DEF Inv
<1>5. Open(there) = Walk(there)
  BY <1>2, OpenFirst DEF Inv, TypeOK
<1> QED BY <1>1, <1>4, <1>5 DEF there

(* CdMeansWhatCommandsMean holds: however long the path, as long as it names *)
(* something between one ".." and the next, normalize_path on its text leads *)
(* where the driver's walk of its entries does, if that is a directory.      *)
THEOREM ShellCdMeansWhatCommandsMean == Spec => []CdMeansWhatCommandsMean
BY InvMeans, ShellInvariant, PTL
=============================================================================
