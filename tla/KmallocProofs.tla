---------------------------- MODULE KmallocProofs ----------------------------
(***************************************************************************)
(* Proofs about the kernel heap, for every size of pages and headers, every*)
(* set of frames and every order of calls of careful callers.              *)
(***************************************************************************)
EXTENDS Kmalloc, WellFoundedInduction, TLAPS, FunctionTheorems, FiniteSetTheorems, SequenceTheorems

(* Induction over the natural numbers, stated of sets.                       *)
LEMMA LeastElement ==
  ASSUME NEW T \in SUBSET Nat, T # {}
  PROVE  \E x \in T : \A y \in T : x <= y
<1> DEFINE R == OpToRel(<, Nat)
<1>1. R = {z \in Nat \X Nat : z[1] < z[2]}
  BY DEF OpToRel
<1>2. IsWellFoundedOn(R, Nat)
  BY NatLessThanWellFounded
<1> HIDE DEF R
<1>3. PICK x \in T : \A y \in T : ~ (<<y, x>> \in R)
  BY <1>2, WFMin
<1>4. \A y \in T : <<y, x>> \in R <=> y < x
  BY <1>1
<1>5. ASSUME NEW y \in T PROVE x <= y
  <2>1. ~ (y < x)
    BY <1>3, <1>4
  <2> QED BY <2>1
<1> QED BY <1>5

(* A set that holds 0 and the successor of each of its elements is Nat.      *)
LEMMA SetInduction ==
  ASSUME NEW S \in SUBSET Nat, 0 \in S, \A n \in S : n + 1 \in S
  PROVE  S = Nat
<1> SUFFICES ASSUME Nat \ S # {} PROVE FALSE
  OBVIOUS
<1>1. PICK x \in Nat \ S : \A y \in Nat \ S : x <= y
  BY LeastElement
<1>2. x # 0 /\ x - 1 \in Nat
  OBVIOUS
<1>3. x - 1 \in S
  BY <1>1, <1>2
<1> QED BY <1>2, <1>3

-----------------------------------------------------------------------------

(* Arithmetic.                                                               *)
LEMMA Constants ==
  /\ PAGE_SIZE \in Nat /\ PAGE_SIZE > 0 /\ HEADER \in Nat /\ HEADER > 0 /\ HEADER < PAGE_SIZE
  /\ WORD \in Nat /\ WORD > 0 /\ Frames \subseteq Nat /\ 0 \notin Frames /\ Sizes \subseteq Nat
  /\ NULL = 0
BY KmallocAssumption DEF NULL

LEMMA Division ==
  ASSUME NEW n \in Nat, NEW w \in Nat, w > 0
  PROVE  n \div w \in Nat /\ n % w \in 0..(w - 1) /\ n = (n \div w) * w + (n % w)
OBVIOUS

LEMMA RoundedUp ==
  ASSUME NEW size \in Nat
  PROVE  Rounded(size) \in Nat /\ Rounded(size) >= size
<1> DEFINE n == size + WORD - 1
           r == n % WORD
           m == (n \div WORD) * WORD
<1>1. WORD \in Nat /\ WORD > 0 /\ n \in Nat
  BY Constants
<1>2. n \div WORD \in Nat /\ r \in 0..(WORD - 1) /\ n = m + r
  <2> HIDE DEF n
  <2> QED BY <1>1, Division
<1>3. Rounded(size) = m /\ m \in Nat
  BY <1>1, <1>2 DEF Rounded
<1>4. size + WORD - 1 = m + r
  BY <1>2
<1> HIDE DEF n, r, m
<1> QED BY <1>1, <1>2, <1>3, <1>4

(* Where a page begins.                                                      *)
Start(f) == f * PAGE_SIZE

LEMMA Starts ==
  ASSUME NEW f \in Nat
  PROVE  /\ Start(f) \in Nat /\ Start(f + 1) = Start(f) + PAGE_SIZE
         /\ f > 0 => Start(f) > 0
BY Constants DEF Start

LEMMA StartsApart ==
  ASSUME NEW f \in Nat, NEW g \in Nat, f < g
  PROVE  Start(f) + PAGE_SIZE <= Start(g)
<1>1. PICK d \in Nat : g = f + 1 + d
  <2>1. g - f - 1 \in Nat
    OBVIOUS
  <2> WITNESS g - f - 1 \in Nat
  <2> QED BY <2>1
<1>2. g * PAGE_SIZE = f * PAGE_SIZE + PAGE_SIZE + d * PAGE_SIZE /\ d * PAGE_SIZE \in Nat
  BY <1>1, Constants
<1>3. Start(f) \in Nat /\ Start(g) \in Nat
  BY Starts
<1> QED BY <1>2, <1>3, Constants DEF Start

LEMMA PageOfIs ==
  ASSUME NEW f \in Nat, NEW b \in Nat, Start(f) <= b, b < Start(f) + PAGE_SIZE
  PROVE  PageOf(b) = f
<1> DEFINE q == b \div PAGE_SIZE
           r == b % PAGE_SIZE
<1>1. q \in Nat /\ r \in 0..(PAGE_SIZE - 1) /\ b = q * PAGE_SIZE + r
  BY Constants
<1>2. Start(q) <= b /\ b < Start(q) + PAGE_SIZE /\ q \in Nat
  <2> HIDE DEF q, r
  <2>1. Start(q) \in Nat /\ Start(q) = q * PAGE_SIZE
    BY <1>1, Starts DEF Start
  <2> QED BY <1>1, <2>1, Constants
<1> HIDE DEF q
<1>3. ~(q < f) /\ ~(f < q)
  <2>1. q < f => Start(q) + PAGE_SIZE <= Start(f)
    BY <1>2, StartsApart
  <2>2. f < q => Start(f) + PAGE_SIZE <= Start(q)
    BY <1>2, StartsApart
  <2> QED BY <1>2, <2>1, <2>2, Starts, Constants
<1>4. q = f
  BY <1>2, <1>3
<1> QED BY <1>4 DEF q, PageOf


-----------------------------------------------------------------------------
(* The headers, and the list they spell.                                     *)
Block(D) == [size : Nat, prev : D \union {NULL}, next : D \union {NULL}, free : BOOLEAN]

Typed(hd) == /\ DOMAIN hd \subseteq Nat \ {NULL}
             /\ hd \in [DOMAIN hd -> Block(DOMAIN hd)]

ListIs(hd, first, last, s, n) ==
  /\ n \in Nat /\ s \in [1..n -> DOMAIN hd]
  /\ \A b \in DOMAIN hd : \E i \in 1..n : s[i] = b
  /\ \A i, j \in 1..n : s[i] = s[j] => i = j
  /\ first = IF n = 0 THEN NULL ELSE s[1]
  /\ last = IF n = 0 THEN NULL ELSE s[n]
  /\ \A i \in 1..n : /\ hd[s[i]].prev = IF i = 1 THEN NULL ELSE s[i - 1]
                     /\ hd[s[i]].next = IF i = n THEN NULL ELSE s[i + 1]

Listed(hd, first, last) == \E s, n : ListIs(hd, first, last, s, n)

(* Changes that leave the links alone.                                       *)
LEMMA SameList ==
  ASSUME NEW hd, NEW g, NEW first, NEW last, Listed(hd, first, last), DOMAIN g = DOMAIN hd,
         \A x \in DOMAIN hd : g[x].next = hd[x].next /\ g[x].prev = hd[x].prev
  PROVE  Listed(g, first, last)
<1>1. PICK s, n : ListIs(hd, first, last, s, n)
  BY DEF Listed
<1>2. \A i \in 1..n : s[i] \in DOMAIN hd
  BY <1>1 DEF ListIs
<1>3. ListIs(g, first, last, s, n)
  BY <1>1, <1>2 DEF ListIs
<1> QED BY <1>3 DEF Listed

(* What the links of one block say of the others.                            *)
Linked(hd, first, last) ==
  /\ first \in DOMAIN hd \union {NULL} /\ last \in DOMAIN hd \union {NULL}
  /\ first = NULL <=> last = NULL
  /\ DOMAIN hd # {} => first # NULL
  /\ \A b \in DOMAIN hd :
       /\ hd[b].next = NULL <=> b = last
       /\ hd[b].next # NULL => hd[b].next \in DOMAIN hd /\ hd[b].next # b /\ hd[hd[b].next].prev = b
       /\ hd[b].prev = NULL <=> b = first
       /\ hd[b].prev # NULL => hd[b].prev \in DOMAIN hd /\ hd[b].prev # b /\ hd[hd[b].prev].next = b

LEMMA ListLinked ==
  ASSUME NEW hd, NEW first, NEW last, Typed(hd), Listed(hd, first, last)
  PROVE  Linked(hd, first, last)
<1>1. PICK s, n : ListIs(hd, first, last, s, n)
  BY DEF Listed
<1>2. /\ n \in Nat /\ NULL \notin DOMAIN hd
      /\ \A i \in 1..n : s[i] \in DOMAIN hd
      /\ \A b \in DOMAIN hd : \E i \in 1..n : s[i] = b
      /\ \A i, j \in 1..n : s[i] = s[j] => i = j
  BY <1>1 DEF ListIs, Typed
<1>3. /\ first = IF n = 0 THEN NULL ELSE s[1]
      /\ last = IF n = 0 THEN NULL ELSE s[n]
      /\ \A i \in 1..n : /\ hd[s[i]].prev = IF i = 1 THEN NULL ELSE s[i - 1]
                         /\ hd[s[i]].next = IF i = n THEN NULL ELSE s[i + 1]
  BY <1>1 DEF ListIs
<1>4. n # 0 => 1 \in 1..n /\ n \in 1..n
  BY <1>2
<1>5. /\ first \in DOMAIN hd \union {NULL} /\ last \in DOMAIN hd \union {NULL}
      /\ first = NULL <=> last = NULL
      /\ DOMAIN hd # {} => first # NULL
  BY <1>2, <1>3, <1>4
<1>6. ASSUME NEW b \in DOMAIN hd
      PROVE  /\ hd[b].next = NULL <=> b = last
             /\ hd[b].next # NULL => hd[b].next \in DOMAIN hd /\ hd[b].next # b /\ hd[hd[b].next].prev = b
             /\ hd[b].prev = NULL <=> b = first
             /\ hd[b].prev # NULL => hd[b].prev \in DOMAIN hd /\ hd[b].prev # b /\ hd[hd[b].prev].next = b
  <2>1. PICK i \in 1..n : s[i] = b
    BY <1>2
  <2>2. n # 0 /\ n \in 1..n /\ 1 \in 1..n
    BY <1>2, <2>1
  <2>3. hd[b].next = NULL <=> b = last
    <3>1. CASE i = n
      BY <1>3, <2>1, <2>2, <3>1
    <3>2. CASE i # n
      <4>1. i + 1 \in 1..n
        BY <1>2, <3>2
      <4> QED BY <1>2, <1>3, <2>1, <2>2, <3>2, <4>1
    <3> QED BY <3>1, <3>2
  <2>4. hd[b].next # NULL => hd[b].next \in DOMAIN hd /\ hd[b].next # b /\ hd[hd[b].next].prev = b
    <3>1. CASE i = n
      BY <1>3, <2>1, <3>1
    <3>2. CASE i # n
      <4>1. i + 1 \in 1..n /\ i + 1 # 1 /\ (i + 1) - 1 = i /\ i + 1 # i
        BY <1>2, <3>2
      <4> QED BY <1>2, <1>3, <2>1, <3>2, <4>1
    <3> QED BY <3>1, <3>2
  <2>5. hd[b].prev = NULL <=> b = first
    <3>1. CASE i = 1
      BY <1>3, <2>1, <2>2, <3>1
    <3>2. CASE i # 1
      <4>1. i - 1 \in 1..n
        BY <1>2, <3>2
      <4> QED BY <1>2, <1>3, <2>1, <2>2, <3>2, <4>1
    <3> QED BY <3>1, <3>2
  <2>6. hd[b].prev # NULL => hd[b].prev \in DOMAIN hd /\ hd[b].prev # b /\ hd[hd[b].prev].next = b
    <3>1. CASE i = 1
      BY <1>3, <2>1, <3>1
    <3>2. CASE i # 1
      <4>1. i - 1 \in 1..n /\ i - 1 # n /\ (i - 1) + 1 = i /\ i - 1 # i
        BY <1>2, <3>2
      <4> QED BY <1>2, <1>3, <2>1, <3>2, <4>1
    <3> QED BY <3>1, <3>2
  <2> QED BY <2>3, <2>4, <2>5, <2>6
<1> QED BY <1>5, <1>6 DEF Linked

(* A block more, behind prev and in front of next.                           *)
LEMMA InsertedList ==
  ASSUME NEW hd, NEW g, NEW first, NEW last, Typed(hd), Listed(hd, first, last),
         NEW b, b \notin DOMAIN hd, b # NULL, NEW prev, NEW next,
         \/ prev \in DOMAIN hd /\ next = hd[prev].next
         \/ prev = last /\ next = NULL,
         DOMAIN g = DOMAIN hd \union {b}, g[b].prev = prev, g[b].next = next,
         \A x \in DOMAIN hd : /\ g[x].next = IF x = prev THEN b ELSE hd[x].next
                              /\ g[x].prev = IF x = next THEN b ELSE hd[x].prev
  PROVE  Listed(g, IF prev = NULL THEN b ELSE first, IF next = NULL THEN b ELSE last)
<1>1. PICK s, n : ListIs(hd, first, last, s, n)
  BY DEF Listed
<1>2. /\ n \in Nat /\ NULL \notin DOMAIN hd
      /\ \A i \in 1..n : s[i] \in DOMAIN hd
      /\ \A c \in DOMAIN hd : \E i \in 1..n : s[i] = c
      /\ \A i, j \in 1..n : s[i] = s[j] => i = j
  BY <1>1 DEF ListIs, Typed
<1>3. /\ first = IF n = 0 THEN NULL ELSE s[1]
      /\ last = IF n = 0 THEN NULL ELSE s[n]
      /\ \A i \in 1..n : /\ hd[s[i]].prev = IF i = 1 THEN NULL ELSE s[i - 1]
                         /\ hd[s[i]].next = IF i = n THEN NULL ELSE s[i + 1]
  BY <1>1 DEF ListIs
<1>4. PICK k \in 0..n : /\ prev = IF k = 0 THEN NULL ELSE s[k]
                        /\ next = IF k = n THEN NULL ELSE s[k + 1]
  <2>1. CASE prev \in DOMAIN hd /\ next = hd[prev].next
    <3>1. PICK k \in 1..n : s[k] = prev
      BY <1>2, <2>1
    <3>2. k \in 0..n /\ k # 0
      BY <1>2
    <3> QED BY <1>3, <2>1, <3>1, <3>2
  <2>2. CASE prev = last /\ next = NULL
    <3>1. n \in 0..n
      BY <1>2
    <3> QED BY <1>3, <2>2, <3>1
  <2> QED BY <2>1, <2>2
<1> DEFINE t == [i \in 1..(n + 1) |-> IF i <= k THEN s[i] ELSE IF i = k + 1 THEN b ELSE s[i - 1]]
<1>5. /\ \A i \in 1..k : i \in 1..n /\ t[i] = s[i]
      /\ k + 1 \in 1..(n + 1) /\ t[k + 1] = b
      /\ \A i \in (k + 1)..n : i \in 1..n /\ t[i + 1] = s[i]
      /\ \A i \in 1..(n + 1) : \/ i \in 1..k \/ i = k + 1
                               \/ i - 1 \in (k + 1)..n /\ t[i] = s[i - 1]
  BY <1>2
<1>6. t \in [1..(n + 1) -> DOMAIN g]
  BY <1>2, <1>5
<1> HIDE DEF t
<1>7. \A c \in DOMAIN g : \E i \in 1..(n + 1) : t[i] = c
  <2> SUFFICES ASSUME NEW c \in DOMAIN hd PROVE \E i \in 1..(n + 1) : t[i] = c
    BY <1>5
  <2>1. PICK i \in 1..n : s[i] = c
    BY <1>2
  <2>2. CASE i <= k
    <3>1. i \in 1..k /\ i \in 1..(n + 1)
      BY <1>2, <2>2
    <3> QED BY <1>5, <2>1, <3>1
  <2>3. CASE i > k
    <3>1. i \in (k + 1)..n /\ i + 1 \in 1..(n + 1)
      BY <1>2, <2>3
    <3> QED BY <1>5, <2>1, <3>1
  <2> QED BY <1>2, <2>2, <2>3
<1>8. \A i, j \in 1..(n + 1) : t[i] = t[j] => i = j
  <2> SUFFICES ASSUME NEW i \in 1..(n + 1), NEW j \in 1..(n + 1), t[i] = t[j] PROVE i = j
    OBVIOUS
  <2> DEFINE from(x, y) == y \in 1..n /\ t[x] = s[y] /\ ((x <= k /\ y = x) \/ (x > k + 1 /\ y = x - 1))
  <2>1. \A x \in 1..(n + 1) : x # k + 1 => \E y \in 1..n : from(x, y)
    <3> SUFFICES ASSUME NEW x \in 1..(n + 1), x # k + 1 PROVE \E y \in 1..n : from(x, y)
      OBVIOUS
    <3>1. CASE x \in 1..k
      <4>1. from(x, x) /\ x \in 1..n
        BY <1>5, <3>1
      <4> HIDE DEF from
      <4> QED BY <4>1
    <3>2. CASE x - 1 \in (k + 1)..n /\ t[x] = s[x - 1]
      <4>1. from(x, x - 1) /\ x - 1 \in 1..n
        BY <1>5, <3>2
      <4> HIDE DEF from
      <4> QED BY <4>1
    <3> QED BY <1>5, <3>1, <3>2
  <2>2. CASE i # k + 1 /\ j # k + 1
    <3>1. PICK y \in 1..n : from(i, y)
      BY <2>1, <2>2
    <3>2. PICK z \in 1..n : from(j, z)
      BY <2>1, <2>2
    <3>3. y = z
      <4>1. t[i] = s[y] /\ t[j] = s[z]
        BY <3>1, <3>2
      <4>2. s[y] = s[z]
        BY <4>1
      <4> HIDE DEF from
      <4> QED BY <1>2, <4>2
    <3> QED BY <1>2, <3>1, <3>2, <3>3
  <2>3. CASE i = k + 1 /\ j # k + 1
    <3>1. PICK z \in 1..n : from(j, z)
      BY <2>1, <2>3
    <3> QED BY <1>2, <1>5, <2>3, <3>1
  <2>4. CASE j = k + 1 /\ i # k + 1
    <3>1. PICK z \in 1..n : from(i, z)
      BY <2>1, <2>4
    <3> QED BY <1>2, <1>5, <2>4, <3>1
  <2> QED BY <2>2, <2>3, <2>4
<1>9. ASSUME NEW i \in 1..(n + 1)
      PROVE  /\ g[t[i]].prev = IF i = 1 THEN NULL ELSE t[i - 1]
             /\ g[t[i]].next = IF i = n + 1 THEN NULL ELSE t[i + 1]
  <2>1. CASE i \in 1..k
    <3>1. i \in 1..n /\ t[i] = s[i] /\ s[i] \in DOMAIN hd
      BY <1>2, <1>5, <2>1
    <3>2. g[t[i]].prev = IF i = 1 THEN NULL ELSE t[i - 1]
      <4>1. s[i] # next
        BY <1>2, <1>4, <2>1, <3>1
      <4>2. g[t[i]].prev = hd[s[i]].prev
        BY <3>1, <4>1
      <4>3. i # 1 => i - 1 \in 1..k
        BY <2>1
      <4> QED BY <1>3, <1>5, <3>1, <4>2, <4>3
    <3>3. g[t[i]].next = IF i = n + 1 THEN NULL ELSE t[i + 1]
      <4>1. CASE i = k
        <5>1. prev = s[i] /\ i # n + 1
          BY <1>2, <1>4, <2>1, <4>1
        <5> QED BY <1>5, <3>1, <4>1, <5>1
      <4>2. CASE i # k
        <5>1. s[i] # prev
          BY <1>2, <1>4, <2>1, <3>1, <4>2
        <5>2. i + 1 \in 1..k /\ i # n /\ i # n + 1
          BY <1>2, <2>1, <4>2
        <5>3. g[t[i]].next = s[i + 1]
          BY <1>3, <3>1, <5>1, <5>2
        <5> QED BY <1>5, <5>2, <5>3
      <4> QED BY <4>1, <4>2
    <3> QED BY <3>2, <3>3
  <2>2. CASE i = k + 1
    <3>1. t[i] = b
      BY <1>5, <2>2
    <3>2. prev = IF i = 1 THEN NULL ELSE t[i - 1]
      <4>1. CASE k = 0
        <5>1. i = 1
          BY <2>2, <4>1
        <5> QED BY <1>4, <4>1, <5>1
      <4>2. CASE k # 0
        <5>1. k \in 1..k /\ i - 1 = k /\ i # 1
          BY <1>2, <2>2, <4>2
        <5> QED BY <1>4, <1>5, <4>2, <5>1
      <4> QED BY <4>1, <4>2
    <3>3. next = IF i = n + 1 THEN NULL ELSE t[i + 1]
      <4>1. k # n => k + 1 \in (k + 1)..n /\ i # n + 1
        BY <1>2, <2>2
      <4>2. k = n => i = n + 1
        BY <2>2
      <4> QED BY <1>4, <1>5, <2>2, <4>1, <4>2
    <3> QED BY <3>1, <3>2, <3>3
  <2>3. CASE i - 1 \in (k + 1)..n /\ t[i] = s[i - 1]
    <3> DEFINE j == i - 1
    <3>0. j \in 1..n /\ j \in (k + 1)..n /\ i = j + 1 /\ t[i] = s[j] /\ s[j] \in DOMAIN hd /\ i # 1
      BY <1>2, <1>5, <2>3
    <3> HIDE DEF j
    <3>1. g[t[i]].prev = IF i = 1 THEN NULL ELSE t[i - 1]
      <4>1. CASE j = k + 1
        <5>1. next = s[j]
          BY <1>2, <1>4, <3>0, <4>1
        <5>2. i - 1 = k + 1
          BY <3>0, <4>1
        <5> QED BY <1>5, <3>0, <5>1, <5>2
      <4>2. CASE j # k + 1
        <5>1. s[j] # next
          <6>1. k # n => k + 1 \in 1..n
            BY <1>2
          <6> QED BY <1>2, <1>4, <3>0, <4>2, <6>1
        <5>2. j # 1 /\ j - 1 \in (k + 1)..n /\ (j - 1) + 1 = i - 1
          BY <1>2, <3>0, <4>2
        <5>3. g[t[i]].prev = s[j - 1] /\ t[(j - 1) + 1] = s[j - 1]
          BY <1>3, <1>5, <3>0, <5>1, <5>2
        <5> QED BY <3>0, <5>2, <5>3
      <4> QED BY <4>1, <4>2
    <3>2. g[t[i]].next = IF i = n + 1 THEN NULL ELSE t[i + 1]
      <4>1. s[j] # prev
        <5>1. k # 0 => k \in 1..n /\ k # j
          BY <1>2, <3>0
        <5> QED BY <1>2, <1>4, <3>0, <5>1
      <4>2. g[t[i]].next = IF j = n THEN NULL ELSE s[j + 1]
        BY <1>3, <3>0, <4>1
      <4>3. j # n => j + 1 \in (k + 1)..n /\ (j + 1) + 1 = i + 1
        BY <1>2, <3>0
      <4>4. j = n <=> i = n + 1
        BY <1>2, <3>0
      <4>5. j # n => t[i + 1] = s[j + 1]
        BY <1>5, <4>3
      <4> QED BY <4>2, <4>4, <4>5
    <3> QED BY <3>1, <3>2
  <2> QED BY <1>5, <2>1, <2>2, <2>3
<1> DEFINE f == IF prev = NULL THEN b ELSE first
           l == IF next = NULL THEN b ELSE last
<1>10. f = t[1]
  <2>1. CASE k = 0
    BY <1>4, <1>5, <2>1
  <2>2. CASE k # 0
    <3>1. 1 \in 1..k /\ n # 0 /\ k \in 1..n
      BY <1>2, <2>2
    <3>2. prev # NULL
      BY <1>2, <1>4, <2>2, <3>1
    <3> QED BY <1>3, <1>5, <3>1, <3>2
  <2> QED BY <2>1, <2>2
<1>11. l = t[n + 1]
  <2>1. CASE k = n
    BY <1>4, <1>5, <2>1
  <2>2. CASE k # n
    <3>1. n \in (k + 1)..n /\ n # 0 /\ k + 1 \in 1..n
      BY <1>2, <2>2
    <3>2. next # NULL
      BY <1>2, <1>4, <2>2, <3>1
    <3> QED BY <1>3, <1>5, <3>1, <3>2
  <2> QED BY <2>1, <2>2
<1> HIDE DEF f, l
<1>12. ListIs(g, f, l, t, n + 1)
  <2>1. n + 1 \in Nat /\ n + 1 # 0
    BY <1>2
  <2> QED BY <1>6, <1>7, <1>8, <1>9, <1>10, <1>11, <2>1 DEF ListIs
<1> QED BY <1>12 DEF Listed, f, l


(* A block less: the one behind block b.                                     *)
LEMMA RemovedList ==
  ASSUME NEW hd, NEW g, NEW first, NEW last, Typed(hd), Listed(hd, first, last),
         NEW b \in DOMAIN hd, NEW gone \in DOMAIN hd, hd[b].next = gone,
         DOMAIN g = DOMAIN hd \ {gone},
         \A x \in DOMAIN g : /\ g[x].next = IF x = b THEN hd[gone].next ELSE hd[x].next
                             /\ g[x].prev = IF x = hd[gone].next THEN b ELSE hd[x].prev
  PROVE  Listed(g, first, IF hd[gone].next = NULL THEN b ELSE last)
<1>1. PICK s, n : ListIs(hd, first, last, s, n)
  BY DEF Listed
<1>2. /\ n \in Nat /\ NULL \notin DOMAIN hd
      /\ \A i \in 1..n : s[i] \in DOMAIN hd
      /\ \A c \in DOMAIN hd : \E i \in 1..n : s[i] = c
      /\ \A i, j \in 1..n : s[i] = s[j] => i = j
  BY <1>1 DEF ListIs, Typed
<1>3. /\ first = IF n = 0 THEN NULL ELSE s[1]
      /\ last = IF n = 0 THEN NULL ELSE s[n]
      /\ \A i \in 1..n : /\ hd[s[i]].prev = IF i = 1 THEN NULL ELSE s[i - 1]
                         /\ hd[s[i]].next = IF i = n THEN NULL ELSE s[i + 1]
  BY <1>1 DEF ListIs
<1>4. PICK k \in 1..n : k < n /\ s[k] = b /\ s[k + 1] = gone /\ k + 1 \in 1..n
  <2>1. PICK k \in 1..n : s[k] = b
    BY <1>2
  <2>2. k # n /\ s[k + 1] = gone
    BY <1>2, <1>3, <2>1
  <2>3. k < n /\ k + 1 \in 1..n
    BY <1>2, <2>2
  <2> QED BY <2>1, <2>2, <2>3
<1>5. hd[gone].next = IF k + 1 = n THEN NULL ELSE s[k + 2]
  <2>1. (k + 1) + 1 = k + 2
    BY <1>2
  <2> QED BY <1>3, <1>4, <2>1
<1> DEFINE t == [i \in 1..(n - 1) |-> IF i <= k THEN s[i] ELSE s[i + 1]]
<1>6. /\ \A i \in 1..k : i \in 1..n /\ i \in 1..(n - 1) /\ i # k + 1 /\ t[i] = s[i]
      /\ \A i \in (k + 2)..n : i \in 1..n /\ i - 1 \in 1..(n - 1) /\ i # k + 1 /\ t[i - 1] = s[i]
      /\ \A i \in 1..(n - 1) : \/ i \in 1..k
                               \/ i + 1 \in (k + 2)..n /\ t[i] = s[i + 1]
  BY <1>2, <1>4
<1> HIDE DEF t
<1> DEFINE from(x, y) == y \in 1..n /\ y # k + 1 /\ t[x] = s[y] /\ ((x \in 1..k /\ y = x) \/ (x > k /\ y = x + 1))
<1>7. \A x \in 1..(n - 1) : \E y \in 1..n : from(x, y)
  <2> SUFFICES ASSUME NEW x \in 1..(n - 1) PROVE \E y \in 1..n : from(x, y)
    OBVIOUS
  <2>1. CASE x \in 1..k
    <3>1. from(x, x) /\ x \in 1..n
      BY <1>6, <2>1
    <3> HIDE DEF from
    <3> QED BY <3>1
  <2>2. CASE x + 1 \in (k + 2)..n /\ t[x] = s[x + 1]
    <3>1. from(x, x + 1) /\ x + 1 \in 1..n
      BY <1>2, <2>2
    <3> HIDE DEF from
    <3> QED BY <3>1
  <2> QED BY <1>6, <2>1, <2>2
<1>8. t \in [1..(n - 1) -> DOMAIN g]
  <2>1. \A x \in 1..(n - 1) : t[x] \in DOMAIN g
    <3> SUFFICES ASSUME NEW x \in 1..(n - 1) PROVE t[x] \in DOMAIN g
      OBVIOUS
    <3>1. PICK y \in 1..n : from(x, y)
      BY <1>7
    <3>2. s[y] \in DOMAIN hd /\ s[y] # gone
      BY <1>2, <1>4, <3>1
    <3> QED BY <3>1, <3>2
  <2>2. t = [i \in 1..(n - 1) |-> t[i]]
    BY DEF t
  <2> QED BY <2>1, <2>2
<1>9. \A c \in DOMAIN g : \E i \in 1..(n - 1) : t[i] = c
  <2> SUFFICES ASSUME NEW c \in DOMAIN hd, c # gone PROVE \E i \in 1..(n - 1) : t[i] = c
    OBVIOUS
  <2>1. PICK i \in 1..n : s[i] = c
    BY <1>2
  <2>2. i \in 1..k \/ i \in (k + 2)..n
    BY <1>2, <1>4, <2>1
  <2> QED BY <1>6, <2>1, <2>2
<1>10. \A i, j \in 1..(n - 1) : t[i] = t[j] => i = j
  <2> SUFFICES ASSUME NEW i \in 1..(n - 1), NEW j \in 1..(n - 1), t[i] = t[j] PROVE i = j
    OBVIOUS
  <2>1. PICK y \in 1..n : from(i, y)
    BY <1>7
  <2>2. PICK z \in 1..n : from(j, z)
    BY <1>7
  <2>3. y = z
    <3>1. t[i] = s[y] /\ t[j] = s[z]
      BY <2>1, <2>2
    <3>2. s[y] = s[z]
      BY <3>1
    <3> HIDE DEF from
    <3> QED BY <1>2, <3>2
  <2> QED BY <1>2, <2>1, <2>2, <2>3
<1>11. ASSUME NEW i \in 1..(n - 1)
       PROVE  /\ g[t[i]].prev = IF i = 1 THEN NULL ELSE t[i - 1]
              /\ g[t[i]].next = IF i = n - 1 THEN NULL ELSE t[i + 1]
  <2>0. t[i] \in DOMAIN g
    BY <1>8
  <2>1. CASE i \in 1..k
    <3>1. i \in 1..n /\ t[i] = s[i] /\ s[i] \in DOMAIN hd
      BY <1>2, <1>6, <2>1
    <3>2. g[t[i]].prev = IF i = 1 THEN NULL ELSE t[i - 1]
      <4>1. s[i] # hd[gone].next
        <5>1. k + 1 # n => k + 2 \in 1..n /\ k + 2 # i
          BY <1>2, <1>4, <2>1
        <5> QED BY <1>2, <1>5, <3>1, <5>1
      <4>2. g[t[i]].prev = hd[s[i]].prev
        BY <2>0, <3>1, <4>1
      <4>3. i # 1 => i - 1 \in 1..k
        BY <2>1
      <4> QED BY <1>3, <1>6, <3>1, <4>2, <4>3
    <3>3. g[t[i]].next = IF i = n - 1 THEN NULL ELSE t[i + 1]
      <4>1. CASE i = k
        <5>1. g[t[i]].next = hd[gone].next
          BY <1>4, <2>0, <3>1, <4>1
        <5>2. k + 1 # n => k + 2 \in (k + 2)..n /\ (k + 2) - 1 = i + 1 /\ i # n - 1
          BY <1>2, <1>4, <4>1
        <5>3. k + 1 = n => i = n - 1
          BY <1>2, <4>1
        <5>4. k + 1 # n => t[i + 1] = s[k + 2]
          BY <1>6, <5>2
        <5> QED BY <1>5, <5>1, <5>2, <5>3, <5>4
      <4>2. CASE i # k
        <5>1. s[i] # b
          BY <1>2, <1>4, <3>1, <4>2
        <5>2. i + 1 \in 1..k /\ i # n /\ i # n - 1
          BY <1>2, <1>4, <2>1, <4>2
        <5>3. g[t[i]].next = s[i + 1]
          BY <1>3, <2>0, <3>1, <5>1, <5>2
        <5> QED BY <1>6, <5>2, <5>3
      <4> QED BY <4>1, <4>2
    <3> QED BY <3>2, <3>3
  <2>2. CASE i + 1 \in (k + 2)..n /\ t[i] = s[i + 1]
    <3> DEFINE j == i + 1
    <3>0. j \in 1..n /\ j \in (k + 2)..n /\ i = j - 1 /\ t[i] = s[j] /\ s[j] \in DOMAIN hd /\ i # 1 /\ j # 1
      BY <1>2, <1>6, <2>2
    <3> HIDE DEF j
    <3>1. g[t[i]].prev = IF i = 1 THEN NULL ELSE t[i - 1]
      <4>1. CASE j = k + 2
        <5>1. hd[gone].next = s[j] /\ k + 1 # n
          BY <1>2, <1>4, <1>5, <3>0, <4>1
        <5>2. i - 1 = k /\ k \in 1..k
          BY <1>2, <3>0, <4>1
        <5>3. g[t[i]].prev = b
          BY <2>0, <3>0, <5>1
        <5>4. t[i - 1] = b
          BY <1>4, <1>6, <5>2
        <5> QED BY <3>0, <5>3, <5>4
      <4>2. CASE j # k + 2
        <5>1. s[j] # hd[gone].next
          <6>1. k + 1 # n => k + 2 \in 1..n
            BY <1>2, <1>4
          <6> QED BY <1>2, <1>5, <3>0, <4>2, <6>1
        <5>2. j - 1 \in (k + 2)..n /\ (j - 1) - 1 = i - 1
          BY <1>2, <3>0, <4>2
        <5>3. g[t[i]].prev = s[j - 1]
          BY <1>3, <2>0, <3>0, <5>1
        <5>4. t[i - 1] = s[j - 1]
          BY <1>6, <5>2
        <5> QED BY <3>0, <5>3, <5>4
      <4> QED BY <4>1, <4>2
    <3>2. g[t[i]].next = IF i = n - 1 THEN NULL ELSE t[i + 1]
      <4>1. s[j] # b
        BY <1>2, <1>4, <3>0
      <4>2. g[t[i]].next = IF j = n THEN NULL ELSE s[j + 1]
        BY <1>3, <2>0, <3>0, <4>1
      <4>3. j # n => j + 1 \in (k + 2)..n /\ (j + 1) - 1 = i + 1
        BY <1>2, <3>0
      <4>4. j = n <=> i = n - 1
        BY <1>2, <3>0
      <4>5. j # n => t[i + 1] = s[j + 1]
        BY <1>6, <4>3
      <4> QED BY <4>2, <4>4, <4>5
    <3> QED BY <3>1, <3>2
  <2> QED BY <1>6, <2>1, <2>2
<1> DEFINE l == IF hd[gone].next = NULL THEN b ELSE last
<1>12. first = t[1] /\ n # 0 /\ n - 1 # 0
  <2>1. 1 \in 1..k /\ n # 0 /\ n - 1 # 0
    BY <1>2, <1>4
  <2> QED BY <1>3, <1>6, <2>1
<1>13. l = t[n - 1]
  <2>1. CASE k + 1 = n
    <3>1. n - 1 = k /\ k \in 1..k
      BY <1>2, <2>1
    <3> QED BY <1>4, <1>5, <1>6, <2>1, <3>1
  <2>2. CASE k + 1 # n
    <3>1. n \in (k + 2)..n /\ n # 0 /\ k + 2 \in 1..n
      BY <1>2, <1>4, <2>2
    <3>2. hd[gone].next # NULL
      BY <1>2, <1>5, <2>2, <3>1
    <3> QED BY <1>3, <1>6, <3>1, <3>2
  <2> QED BY <2>1, <2>2
<1> HIDE DEF l, from
<1>14. ListIs(g, first, l, t, n - 1)
  <2>1. n - 1 \in Nat
    BY <1>2, <1>12
  <2> QED BY <1>8, <1>9, <1>10, <1>11, <1>12, <1>13, <2>1 DEF ListIs
<1> QED BY <1>14 DEF Listed, l


-----------------------------------------------------------------------------
(* Where the blocks are: in their pages, apart from each other; those        *)
(* outside the first page of the heap are a whole page in use, and those     *)
(* inside it follow each other as in the list.                               *)
Ends(hd, b) == b + HEADER + hd[b].size

Within(hd, b, own) ==
  /\ PageOf(b) \in own /\ hd[b].size > 0
  /\ Start(PageOf(b)) <= b /\ Ends(hd, b) <= Start(PageOf(b)) + PAGE_SIZE

Whole(hd, b) == b = Start(PageOf(b)) /\ hd[b].size = PAGE_SIZE - HEADER /\ ~hd[b].free

Before(hd, b, c) == Ends(hd, b) <= c

Follows(hd, b, home) ==
  hd[b].next # NULL /\ PageOf(hd[b].next) = home => PageOf(b) = home /\ hd[b].next = Ends(hd, b)

Placed(hd, home, own) ==
  /\ \A b \in DOMAIN hd : Within(hd, b, own)
  /\ \A b \in DOMAIN hd : PageOf(b) # home => Whole(hd, b)
  /\ \A b, c \in DOMAIN hd : b # c => Before(hd, b, c) \/ Before(hd, c, b)
  /\ \A b \in DOMAIN hd : Follows(hd, b, home)

LEMMA TypedFields ==
  ASSUME NEW hd, Typed(hd), NEW b \in DOMAIN hd
  PROVE  /\ b \in Nat /\ b > 0 /\ b # NULL /\ hd[b].size \in Nat /\ hd[b].free \in BOOLEAN
         /\ hd[b].next \in DOMAIN hd \union {NULL} /\ hd[b].prev \in DOMAIN hd \union {NULL}
         /\ Ends(hd, b) \in Nat
<1>1. hd[b] \in Block(DOMAIN hd) /\ b \in Nat \ {NULL}
  BY DEF Typed
<1>2. hd[b].size \in Nat /\ hd[b].free \in BOOLEAN
      /\ hd[b].next \in DOMAIN hd \union {NULL} /\ hd[b].prev \in DOMAIN hd \union {NULL}
  BY <1>1 DEF Block
<1> QED BY <1>1, <1>2, Constants DEF Ends

LEMMA PagesNat ==
  ASSUME NEW b \in Nat
  PROVE  PageOf(b) \in Nat
BY Constants, Division DEF PageOf

(* The same block, for all that Placed says.                                 *)
SameBlock(hd, g, x) == g[x].size = hd[x].size /\ g[x].free = hd[x].free

LEMMA SameStays ==
  ASSUME NEW hd, NEW g, NEW x, SameBlock(hd, g, x), NEW own
  PROVE  /\ Ends(g, x) = Ends(hd, x)
         /\ Within(hd, x, own) => Within(g, x, own)
         /\ Whole(hd, x) => Whole(g, x)
BY DEF SameBlock, Ends, Within, Whole

(* A block of the first page is split in two.                                *)
LEMMA SplitPlaced ==
  ASSUME NEW hd, NEW g, NEW home, NEW own \in SUBSET Nat, Typed(hd), Placed(hd, home, own),
         NEW b \in DOMAIN hd, PageOf(b) = home, NEW size \in Nat, size > 0, size + HEADER < hd[b].size,
         NEW new, new = b + HEADER + size, DOMAIN g = DOMAIN hd \union {new},
         g[b].size = size, g[b].next = new,
         g[new].size = hd[b].size - size - HEADER, g[new].next = hd[b].next,
         \A x \in DOMAIN hd : x # b => SameBlock(hd, g, x) /\ g[x].next = hd[x].next
  PROVE  new \notin DOMAIN hd => Placed(g, home, own)
<1> SUFFICES ASSUME new \notin DOMAIN hd PROVE Placed(g, home, own)
  OBVIOUS
<1>1. /\ b \in Nat /\ hd[b].size \in Nat /\ HEADER \in Nat /\ HEADER > 0 /\ new \in Nat /\ new # b
      /\ PAGE_SIZE \in Nat
  BY TypedFields, Constants
<1>2. /\ Ends(g, b) = new /\ Ends(g, new) = Ends(hd, b) /\ g[new].size \in Nat /\ g[new].size > 0
      /\ Ends(hd, b) \in Nat /\ b < new /\ new < Ends(hd, b)
  BY <1>1 DEF Ends
<1>3. Within(hd, b, own)
  BY DEF Placed
<1>4. home \in Nat /\ Start(home) \in Nat
  BY <1>1, PagesNat, Starts
<1>5. PageOf(new) = home
  <2>1. Start(home) <= new /\ new < Start(home) + PAGE_SIZE
    BY <1>1, <1>2, <1>3, <1>4 DEF Within
  <2> QED BY <1>1, <1>4, <2>1, PageOfIs
<1>6. ASSUME NEW x \in DOMAIN hd, x # b
      PROVE  /\ x \in Nat /\ Ends(hd, x) \in Nat /\ Ends(g, x) = Ends(hd, x) /\ x < Ends(hd, x)
             /\ Ends(hd, x) <= b \/ Ends(hd, b) <= x
  <2>1. x \in Nat /\ Ends(hd, x) \in Nat /\ hd[x].size \in Nat
    BY TypedFields
  <2>2. Ends(g, x) = Ends(hd, x)
    BY <1>6, SameStays
  <2>3. Before(hd, x, b) \/ Before(hd, b, x)
    BY <1>6 DEF Placed
  <2>4. x < Ends(hd, x)
    BY <1>1, <2>1 DEF Ends
  <2> QED BY <2>1, <2>2, <2>3, <2>4 DEF Before
<1>7. \A x \in DOMAIN g : Within(g, x, own)
  <2> SUFFICES ASSUME NEW x \in DOMAIN g PROVE Within(g, x, own)
    OBVIOUS
  <2>1. CASE x = b
    BY <1>1, <1>2, <1>3, <1>4, <2>1 DEF Within
  <2>2. CASE x = new
    BY <1>1, <1>2, <1>3, <1>4, <1>5, <2>2 DEF Within
  <2>3. CASE x \in DOMAIN hd /\ x # b
    <3>1. Within(hd, x, own)
      BY <2>3 DEF Placed
    <3> QED BY <2>3, <3>1, SameStays
  <2> QED BY <2>1, <2>2, <2>3
<1>8. \A x \in DOMAIN g : PageOf(x) # home => Whole(g, x)
  <2> SUFFICES ASSUME NEW x \in DOMAIN g, PageOf(x) # home PROVE Whole(g, x)
    OBVIOUS
  <2>1. x \in DOMAIN hd /\ x # b
    BY <1>5
  <2>2. Whole(hd, x)
    BY <2>1 DEF Placed
  <2> QED BY <2>1, <2>2, SameStays
<1>9. \A x, y \in DOMAIN g : x # y => Before(g, x, y) \/ Before(g, y, x)
  <2> SUFFICES ASSUME NEW x \in DOMAIN g, NEW y \in DOMAIN g, x # y PROVE Before(g, x, y) \/ Before(g, y, x)
    OBVIOUS
  <2>1. CASE x \in {b, new} /\ y \in {b, new}
    BY <1>1, <1>2, <2>1 DEF Before
  <2>2. CASE x \in {b, new} /\ y \notin {b, new}
    <3>1. y \in DOMAIN hd /\ y # b
      BY <2>2
    <3> QED BY <1>1, <1>2, <1>6, <2>2, <3>1 DEF Before
  <2>3. CASE x \notin {b, new} /\ y \in {b, new}
    <3>1. x \in DOMAIN hd /\ x # b
      BY <2>3
    <3> QED BY <1>1, <1>2, <1>6, <2>3, <3>1 DEF Before
  <2>4. CASE x \notin {b, new} /\ y \notin {b, new}
    <3>1. x \in DOMAIN hd /\ x # b /\ y \in DOMAIN hd /\ y # b
      BY <2>4
    <3>2. Before(hd, x, y) \/ Before(hd, y, x)
      BY <2>4, <3>1 DEF Placed
    <3> QED BY <1>6, <3>1, <3>2 DEF Before
  <2> QED BY <2>1, <2>2, <2>3, <2>4
<1>10. \A x \in DOMAIN g : Follows(g, x, home)
  <2> SUFFICES ASSUME NEW x \in DOMAIN g PROVE Follows(g, x, home)
    OBVIOUS
  <2>1. CASE x = b
    BY <1>2, <2>1 DEF Follows
  <2>2. CASE x = new
    <3>1. Follows(hd, b, home)
      BY DEF Placed
    <3> QED BY <1>2, <1>5, <2>2, <3>1 DEF Follows
  <2>3. CASE x \in DOMAIN hd /\ x # b
    <3>1. Follows(hd, x, home)
      BY <2>3 DEF Placed
    <3> QED BY <1>6, <2>3, <3>1 DEF Follows
  <2> QED BY <2>1, <2>2, <2>3
<1> QED BY <1>7, <1>8, <1>9, <1>10 DEF Placed

(* Where a block is split there is no other.                                 *)
LEMMA SplitIsNew ==
  ASSUME NEW hd, NEW home, NEW own, Typed(hd), Placed(hd, home, own), NEW b \in DOMAIN hd,
         NEW size \in Nat, size + HEADER < hd[b].size
  PROVE  b + HEADER + size \notin DOMAIN hd
<1> SUFFICES ASSUME NEW new \in DOMAIN hd, new = b + HEADER + size PROVE FALSE
  OBVIOUS
<1>1. /\ b \in Nat /\ new \in Nat /\ hd[b].size \in Nat /\ hd[new].size \in Nat
      /\ HEADER \in Nat /\ HEADER > 0
  BY TypedFields, Constants
<1>2. Before(hd, b, new) \/ Before(hd, new, b)
  <2>1. b # new
    BY <1>1
  <2> QED BY <2>1 DEF Placed
<1> QED BY <1>1, <1>2 DEF Before, Ends

(* Two blocks of the first page become one.                                  *)
LEMMA MergedPlaced ==
  ASSUME NEW hd, NEW g, NEW home, NEW own \in SUBSET Nat, Typed(hd), Placed(hd, home, own),
         NEW b \in DOMAIN hd, NEW gone \in DOMAIN hd, gone = hd[b].next, gone # b,
         PageOf(b) = home, PageOf(gone) = home, DOMAIN g = DOMAIN hd \ {gone},
         g[b].size = hd[b].size + HEADER + hd[gone].size, g[b].next = hd[gone].next,
         \A x \in DOMAIN hd : x \notin {b, gone} => SameBlock(hd, g, x) /\ g[x].next = hd[x].next
  PROVE  Placed(g, home, own)
<1>1. /\ b \in Nat /\ gone \in Nat /\ hd[b].size \in Nat /\ hd[gone].size \in Nat
      /\ HEADER \in Nat /\ HEADER > 0 /\ PAGE_SIZE \in Nat /\ gone # NULL
  BY TypedFields, Constants
<1>2. gone = Ends(hd, b)
  <2>1. Follows(hd, b, home)
    BY DEF Placed
  <2> QED BY <1>1, <2>1 DEF Follows
<1>3. /\ Ends(g, b) = Ends(hd, gone) /\ Ends(hd, gone) \in Nat /\ b < gone /\ gone < Ends(hd, gone)
      /\ g[b].size > 0
  BY <1>1, <1>2 DEF Ends
<1>4. Within(hd, b, own) /\ Within(hd, gone, own)
  BY DEF Placed
<1>5. ASSUME NEW x \in DOMAIN hd, x \notin {b, gone}
      PROVE  /\ x \in Nat /\ Ends(hd, x) \in Nat /\ Ends(g, x) = Ends(hd, x) /\ x < Ends(hd, x)
             /\ Ends(hd, x) <= b \/ Ends(hd, gone) <= x
  <2>1. x \in Nat /\ Ends(hd, x) \in Nat /\ hd[x].size \in Nat
    BY TypedFields
  <2>2. Ends(g, x) = Ends(hd, x)
    BY <1>5, SameStays
  <2>3. (Before(hd, x, b) \/ Before(hd, b, x)) /\ (Before(hd, x, gone) \/ Before(hd, gone, x))
    BY <1>5 DEF Placed
  <2>4. x < Ends(hd, x)
    BY <1>1, <2>1 DEF Ends
  <2> QED BY <1>1, <1>2, <1>3, <2>1, <2>2, <2>3, <2>4 DEF Before
<1>6. \A x \in DOMAIN g : Within(g, x, own)
  <2> SUFFICES ASSUME NEW x \in DOMAIN g PROVE Within(g, x, own)
    OBVIOUS
  <2>1. CASE x = b
    BY <1>3, <1>4, <2>1 DEF Within
  <2>2. CASE x # b
    <3>1. Within(hd, x, own) /\ x \in DOMAIN hd /\ x \notin {b, gone}
      BY <2>2 DEF Placed
    <3> QED BY <3>1, SameStays
  <2> QED BY <2>1, <2>2
<1>7. \A x \in DOMAIN g : PageOf(x) # home => Whole(g, x)
  <2> SUFFICES ASSUME NEW x \in DOMAIN g, PageOf(x) # home PROVE Whole(g, x)
    OBVIOUS
  <2>1. x \in DOMAIN hd /\ x \notin {b, gone}
    OBVIOUS
  <2>2. Whole(hd, x)
    BY <2>1 DEF Placed
  <2> QED BY <2>1, <2>2, SameStays
<1>8. \A x, y \in DOMAIN g : x # y => Before(g, x, y) \/ Before(g, y, x)
  <2> SUFFICES ASSUME NEW x \in DOMAIN g, NEW y \in DOMAIN g, x # y PROVE Before(g, x, y) \/ Before(g, y, x)
    OBVIOUS
  <2>1. CASE x = b
    <3>1. y \in DOMAIN hd /\ y \notin {b, gone}
      BY <2>1
    <3> QED BY <1>1, <1>3, <1>5, <2>1, <3>1 DEF Before
  <2>2. CASE y = b
    <3>1. x \in DOMAIN hd /\ x \notin {b, gone}
      BY <2>2
    <3> QED BY <1>1, <1>3, <1>5, <2>2, <3>1 DEF Before
  <2>3. CASE x # b /\ y # b
    <3>1. x \in DOMAIN hd /\ x \notin {b, gone} /\ y \in DOMAIN hd /\ y \notin {b, gone}
      BY <2>3
    <3>2. Before(hd, x, y) \/ Before(hd, y, x)
      BY <3>1 DEF Placed
    <3> QED BY <1>5, <3>1, <3>2 DEF Before
  <2> QED BY <2>1, <2>2, <2>3
<1>9. \A x \in DOMAIN g : Follows(g, x, home)
  <2> SUFFICES ASSUME NEW x \in DOMAIN g PROVE Follows(g, x, home)
    OBVIOUS
  <2>1. CASE x = b
    <3>1. Follows(hd, gone, home)
      BY DEF Placed
    <3> QED BY <1>3, <2>1, <3>1 DEF Follows
  <2>2. CASE x # b
    <3>1. Follows(hd, x, home) /\ x \in DOMAIN hd /\ x \notin {b, gone}
      BY <2>2 DEF Placed
    <3> QED BY <1>5, <3>1 DEF Follows
  <2> QED BY <2>1, <2>2
<1> QED BY <1>6, <1>7, <1>8, <1>9 DEF Placed


(* A page more, at the end of the list.                                      *)
LEMMA GrownPlaced ==
  ASSUME NEW hd, NEW g, NEW home, NEW own \in SUBSET Nat, Typed(hd), Placed(hd, home, own),
         DOMAIN hd # {} => home \in own,
         NEW p \in Nat, p \notin own, NEW b, b = Start(p), DOMAIN g = DOMAIN hd \union {b},
         g[b].size = PAGE_SIZE - HEADER, g[b].next = NULL, DOMAIN hd # {} => ~g[b].free,
         \A x \in DOMAIN hd : SameBlock(hd, g, x) /\ g[x].next \in {hd[x].next, b},
         b \notin DOMAIN hd
  PROVE  Placed(g, IF DOMAIN hd = {} THEN p ELSE home, own \union {p})
<1> DEFINE home2 == IF DOMAIN hd = {} THEN p ELSE home
           own2  == own \union {p}
<1>1. /\ HEADER \in Nat /\ HEADER > 0 /\ PAGE_SIZE \in Nat /\ HEADER < PAGE_SIZE
      /\ b \in Nat /\ Start(p) \in Nat
  BY Constants, Starts
<1>2. PageOf(b) = p
  BY <1>1, PageOfIs
<1>3. Ends(g, b) = b + PAGE_SIZE
  BY <1>1 DEF Ends
<1>4. Within(g, b, own2)
  BY <1>1, <1>2, <1>3 DEF Within
<1>5. DOMAIN hd # {} => Whole(g, b)
  BY <1>2 DEF Whole
<1>6. ASSUME NEW x \in DOMAIN hd
      PROVE  /\ x \in Nat /\ Ends(g, x) = Ends(hd, x) /\ PageOf(x) \in own /\ Within(g, x, own2)
             /\ Before(g, x, b) \/ Before(g, b, x)
             /\ Whole(hd, x) => Whole(g, x)
  <2>1. x \in Nat /\ Ends(hd, x) \in Nat
    BY TypedFields
  <2>2. Within(hd, x, own)
    BY DEF Placed
  <2>3. SameBlock(hd, g, x)
    OBVIOUS
  <2>4. Ends(g, x) = Ends(hd, x) /\ Within(g, x, own) /\ (Whole(hd, x) => Whole(g, x))
    BY <2>2, <2>3, SameStays
  <2>5. Within(g, x, own2)
    BY <2>4 DEF Within
  <2> DEFINE q == PageOf(x)
  <2>6. q \in own /\ q \in Nat /\ q # p /\ Start(q) \in Nat
    BY <2>2, Starts DEF Within
  <2>7. Start(q) <= x /\ Ends(hd, x) <= Start(q) + PAGE_SIZE
    BY <2>2 DEF Within
  <2>8. q < p => Start(q) + PAGE_SIZE <= Start(p)
    BY <2>6, StartsApart
  <2>9. p < q => Start(p) + PAGE_SIZE <= Start(q)
    BY <2>6, StartsApart
  <2> HIDE DEF q
  <2>10. Before(g, x, b) \/ Before(g, b, x)
    BY <1>1, <1>3, <2>1, <2>4, <2>6, <2>7, <2>8, <2>9 DEF Before
  <2> QED BY <2>1, <2>4, <2>5, <2>6, <2>10 DEF q
<1>7. \A x \in DOMAIN g : Within(g, x, own2)
  BY <1>4, <1>6
<1>8. \A x \in DOMAIN g : PageOf(x) # home2 => Whole(g, x)
  <2> SUFFICES ASSUME NEW x \in DOMAIN g, PageOf(x) # home2 PROVE Whole(g, x)
    OBVIOUS
  <2>1. CASE x = b
    BY <1>2, <1>5, <2>1
  <2>2. CASE x # b
    <3>1. x \in DOMAIN hd /\ PageOf(x) # home
      BY <2>2
    <3>2. Whole(hd, x)
      BY <3>1 DEF Placed
    <3> QED BY <1>6, <3>1, <3>2
  <2> QED BY <2>1, <2>2
<1>9. \A x, y \in DOMAIN g : x # y => Before(g, x, y) \/ Before(g, y, x)
  <2> SUFFICES ASSUME NEW x \in DOMAIN g, NEW y \in DOMAIN g, x # y PROVE Before(g, x, y) \/ Before(g, y, x)
    OBVIOUS
  <2>1. CASE x \in DOMAIN hd /\ y \in DOMAIN hd
    <3>1. Before(hd, x, y) \/ Before(hd, y, x)
      BY <2>1 DEF Placed
    <3> QED BY <1>6, <2>1, <3>1 DEF Before
  <2>2. CASE x = b \/ y = b
    BY <1>6, <2>2
  <2> QED BY <2>1, <2>2
<1>10. \A x \in DOMAIN g : Follows(g, x, home2)
  <2> SUFFICES ASSUME NEW x \in DOMAIN g PROVE Follows(g, x, home2)
    OBVIOUS
  <2>1. CASE x = b
    BY <2>1 DEF Follows
  <2>2. CASE x # b
    <3>1. x \in DOMAIN hd /\ home2 = home /\ p # home
      BY <2>2
    <3>2. Follows(hd, x, home) /\ g[x].next \in {hd[x].next, b}
      BY <3>1 DEF Placed
    <3>3. Ends(g, x) = Ends(hd, x)
      BY <1>6, <3>1
    <3> QED BY <1>2, <3>1, <3>2, <3>3 DEF Follows
  <2> QED BY <2>1, <2>2
<1> QED BY <1>7, <1>8, <1>9, <1>10 DEF Placed

(* A block of the first page changes hands.                                  *)
LEMMA FlagPlaced ==
  ASSUME NEW hd, NEW g, NEW home, NEW own, Placed(hd, home, own), NEW b \in DOMAIN hd,
         PageOf(b) = home, DOMAIN g = DOMAIN hd,
         \A x \in DOMAIN hd : g[x].size = hd[x].size /\ g[x].next = hd[x].next,
         \A x \in DOMAIN hd : x # b => g[x].free = hd[x].free
  PROVE  Placed(g, home, own)
<1>1. \A x \in DOMAIN hd : Ends(g, x) = Ends(hd, x)
  BY DEF Ends
<1>2. \A x \in DOMAIN g : Within(g, x, own)
  BY <1>1 DEF Placed, Within
<1>3. \A x \in DOMAIN g : PageOf(x) # home => Whole(g, x)
  BY DEF Placed, Whole
<1>4. \A x, y \in DOMAIN g : x # y => Before(g, x, y) \/ Before(g, y, x)
  BY <1>1 DEF Placed, Before
<1>5. \A x \in DOMAIN g : Follows(g, x, home)
  BY <1>1 DEF Placed, Follows
<1> QED BY <1>2, <1>3, <1>4, <1>5 DEF Placed


-----------------------------------------------------------------------------
(* What the operations on the heap do to a sound one.                        *)
IsHeap(h) == h = [header |-> h.header, start |-> h.start, end |-> h.end]

Sound(h, own) ==
  /\ IsHeap(h) /\ Typed(h.header) /\ Listed(h.header, h.start, h.end)
  /\ Placed(h.header, PageOf(h.start), own)

Used(hd) == {b \in DOMAIN hd : ~hd[b].free}

IsInserted(h, g, b, size, prev, next, isFree) ==
  /\ IsHeap(g) /\ Typed(g.header) /\ Listed(g.header, g.start, g.end)
  /\ DOMAIN g.header = DOMAIN h.header \union {b}
  /\ g.header[b] = [size |-> size, prev |-> prev, next |-> next, free |-> isFree]
  /\ \A x \in DOMAIN h.header :
       /\ SameBlock(h.header, g.header, x)
       /\ g.header[x].next = IF x = prev THEN b ELSE h.header[x].next
       /\ g.header[x].prev = IF x = next THEN b ELSE h.header[x].prev
  /\ g.start = IF prev = NULL THEN b ELSE h.start

Fits(h, prev, next) ==
  \/ prev \in DOMAIN h.header /\ next = h.header[prev].next
  \/ prev = h.end /\ next = NULL

LEMMA InsertedIs ==
  ASSUME NEW h, Typed(h.header), Listed(h.header, h.start, h.end),
         NEW b, b \notin DOMAIN h.header, b \in Nat, b # NULL, NEW prev, NEW next, Fits(h, prev, next),
         NEW size \in Nat, NEW isFree \in BOOLEAN, NEW g, g = Inserted(h, b, size, prev, next, isFree)
  PROVE  IsInserted(h, g, b, size, prev, next, isFree)
<1> DEFINE hd == h.header
           D  == DOMAIN hd
           block == [size |-> size, prev |-> prev, next |-> next, free |-> isFree]
           G  == [x \in D \union {b} |->
                    IF x = b THEN block
                    ELSE IF x = prev THEN [hd[x] EXCEPT !.next = b]
                    ELSE IF x = next THEN [hd[x] EXCEPT !.prev = b] ELSE hd[x]]
<1>1. /\ g = [header |-> G, start |-> IF prev = NULL THEN b ELSE h.start,
                            end |-> IF next = NULL THEN b ELSE h.end]
  BY DEF Inserted
<1>2. /\ g.header = G /\ g.start = (IF prev = NULL THEN b ELSE h.start)
      /\ g.end = (IF next = NULL THEN b ELSE h.end)
  BY <1>1
<1>3. IsHeap(g)
  BY <1>1 DEF IsHeap
<1>4. Linked(hd, h.start, h.end)
  BY ListLinked
<1>5. \/ prev \in D /\ next = hd[prev].next
      \/ prev = h.end /\ next = NULL
  <2> HIDE DEF G, block
  <2>1. Fits(h, prev, next)
    OBVIOUS
  <2> QED BY <2>1, Zenon DEF Fits
<1>6. prev \in D \union {NULL} /\ next \in D \union {NULL} /\ NULL \notin D /\ D \subseteq Nat
  BY <1>4, <1>5, TypedFields DEF Linked, Typed
<1>7. prev # NULL => prev # next
  BY <1>4, <1>6, <1>5 DEF Linked
<1>8. /\ DOMAIN G = D \union {b} /\ G[b] = block
      /\ \A x \in D : G[x] = IF x = prev THEN [hd[x] EXCEPT !.next = b]
                             ELSE IF x = next THEN [hd[x] EXCEPT !.prev = b] ELSE hd[x]
  OBVIOUS
<1> HIDE DEF G
<1>9. ASSUME NEW x \in D
      PROVE  /\ SameBlock(hd, G, x) /\ G[x] \in Block(D \union {b})
             /\ G[x].next = IF x = prev THEN b ELSE hd[x].next
             /\ G[x].prev = IF x = next THEN b ELSE hd[x].prev
  <2>1. hd[x] \in Block(D)
    BY DEF Typed
  <2>2. G[x] = IF x = prev THEN [hd[x] EXCEPT !.next = b]
               ELSE IF x = next THEN [hd[x] EXCEPT !.prev = b] ELSE hd[x]
    BY <1>8
  <2>3. x # NULL
    BY <1>6
  <2> QED BY <1>7, <2>1, <2>2, <2>3 DEF SameBlock, Block
<1>10. block \in Block(D \union {b})
  BY <1>6 DEF Block
<1>11. Typed(G)
  <2>1. G \in [D \union {b} -> Block(D \union {b})]
    <3>1. \A x \in D \union {b} : G[x] \in Block(D \union {b})
      BY <1>8, <1>9, <1>10
    <3>2. G = [x \in D \union {b} |-> G[x]]
      BY DEF G
    <3> QED BY <3>1, <3>2
  <2> QED BY <1>6, <1>8, <2>1 DEF Typed
<1>12. Listed(G, IF prev = NULL THEN b ELSE h.start, IF next = NULL THEN b ELSE h.end)
  <2>1. \A x \in D : /\ G[x].next = IF x = prev THEN b ELSE hd[x].next
                     /\ G[x].prev = IF x = next THEN b ELSE hd[x].prev
    BY <1>9
  <2>2. G[b].prev = prev /\ G[b].next = next
    BY <1>8
  <2> HIDE DEF block
  <2> QED BY <1>5, <1>8, <2>1, <2>2, InsertedList
<1> QED BY <1>2, <1>3, <1>8, <1>9, <1>11, <1>12 DEF IsInserted

(* kmalloc's growth: a page becomes one block.                               *)
LEMMA GrownSound ==
  ASSUME NEW h, NEW own \in SUBSET Nat, Sound(h, own), NEW p \in Nat, p > 0, p \notin own,
         NEW isFree \in BOOLEAN, DOMAIN h.header # {} => ~isFree
  PROVE  LET g == Grown(h, p, isFree) b == Start(p) IN
         /\ Sound(g, own \union {p}) /\ b \notin DOMAIN h.header
         /\ Used(g.header) = Used(h.header) \union (IF isFree THEN {} ELSE {b})
         /\ b \in DOMAIN g.header /\ g.header[b].size = PAGE_SIZE - HEADER
         /\ DOMAIN g.header = DOMAIN h.header \union {b}
         /\ \A x \in DOMAIN h.header : g.header[x].size = h.header[x].size
         /\ DOMAIN h.header # {} => g.start = h.start
<1> DEFINE g == Grown(h, p, isFree)
           b == Start(p)
           hd == h.header
           D == DOMAIN hd
           home == PageOf(h.start)
<1>1. Typed(hd) /\ Listed(hd, h.start, h.end) /\ Placed(hd, home, own)
  BY DEF Sound
<1>2. Linked(hd, h.start, h.end)
  BY <1>1, ListLinked
<1>3. /\ PAGE_SIZE \in Nat /\ HEADER \in Nat /\ HEADER > 0 /\ HEADER < PAGE_SIZE /\ NULL = 0
      /\ b \in Nat /\ b > 0 /\ PAGE_SIZE - HEADER \in Nat
  BY Constants, Starts
<1>4. PageOf(b) = p
  BY <1>3, PageOfIs
<1>5. b \notin D
  <2>1. \A x \in D : Within(hd, x, own)
    BY <1>1 DEF Placed
  <2> QED BY <1>4, <2>1 DEF Within
<1>6. D # {} => home \in own /\ h.start \in D /\ h.start # NULL /\ h.end # NULL
  <2>1. D # {} => h.start \in D /\ h.start # NULL /\ h.end # NULL
    BY <1>2 DEF Linked
  <2>2. \A x \in D : Within(hd, x, own)
    BY <1>1 DEF Placed
  <2> QED BY <2>1, <2>2 DEF Within
<1>7. D = {} => h.end = NULL
  <2>1. h.end \in D \union {NULL}
    BY <1>2 DEF Linked
  <2> QED BY <2>1
<1>8. g = Inserted(h, b, PAGE_SIZE - HEADER, h.end, NULL, isFree)
  BY DEF Grown, Start
<1> HIDE DEF g, b
<1>9. /\ IsHeap(g) /\ Typed(g.header) /\ Listed(g.header, g.start, g.end)
      /\ DOMAIN g.header = D \union {b}
      /\ g.header[b] = [size |-> PAGE_SIZE - HEADER, prev |-> h.end, next |-> NULL, free |-> isFree]
      /\ \A x \in D : /\ SameBlock(hd, g.header, x)
                      /\ g.header[x].next = IF x = h.end THEN b ELSE hd[x].next
      /\ g.start = IF h.end = NULL THEN b ELSE h.start
  <2> DEFINE size == PAGE_SIZE - HEADER
  <2>1. size \in Nat /\ b # NULL
    BY <1>3
  <2>2. g = Inserted(h, b, size, h.end, NULL, isFree)
    BY <1>8
  <2>3. Typed(h.header) /\ Listed(h.header, h.start, h.end)
    BY <1>1
  <2> HIDE DEF size, D, hd, home
  <2>4. IsInserted(h, g, b, size, h.end, NULL, isFree)
    <3>1. b \notin DOMAIN h.header /\ b \in Nat
      BY <1>3, <1>5 DEF D, hd
    <3>2. Fits(h, h.end, NULL)
      BY DEF Fits
    <3> QED BY <2>1, <2>2, <2>3, <3>1, <3>2, InsertedIs
  <2> QED BY <2>4 DEF IsInserted, size, D, hd
<1>10. g.header[b].size = PAGE_SIZE - HEADER /\ g.header[b].next = NULL /\ g.header[b].free = isFree
  BY <1>9
<1>11. PageOf(g.start) = IF D = {} THEN p ELSE home
  BY <1>4, <1>6, <1>7, <1>9
<1>12. Placed(g.header, IF D = {} THEN p ELSE home, own \union {p})
  <2>1. \A x \in D : SameBlock(hd, g.header, x) /\ g.header[x].next \in {hd[x].next, b}
    BY <1>9
  <2>2. D # {} => ~g.header[b].free
    BY <1>10
  <2>3. D # {} => home \in own
    BY <1>6
  <2>4. DOMAIN g.header = D \union {b} /\ b = Start(p)
    BY <1>9 DEF b
  <2>5. g.header[b].size = PAGE_SIZE - HEADER /\ g.header[b].next = NULL
    BY <1>10
  <2> DEFINE G == g.header
  <2> HIDE DEF G, hd, D, home
  <2>6. Placed(G, IF DOMAIN hd = {} THEN p ELSE home, own \union {p})
    BY <1>1, <1>5, <2>1, <2>2, <2>3, <2>4, <2>5, GrownPlaced DEF G, D
  <2> QED BY <2>6 DEF G, D
<1>13. Sound(g, own \union {p})
  BY <1>9, <1>11, <1>12 DEF Sound
<1>14. Used(g.header) = Used(hd) \union (IF isFree THEN {} ELSE {b})
  <2>1. \A x \in D : g.header[x].free = hd[x].free
    BY <1>9 DEF SameBlock
  <2> QED BY <1>5, <1>9, <1>10, <2>1 DEF Used
<1>15. \A x \in D : g.header[x].size = hd[x].size
  BY <1>9 DEF SameBlock
<1>16. D # {} => g.start = h.start
  BY <1>6, <1>9
<1> QED BY <1>5, <1>9, <1>10, <1>13, <1>14, <1>15, <1>16 DEF g, b


(* Block b gets another size and another flag; nothing else changes.         *)
Changed(h, g, b, size) ==
  /\ IsHeap(g) /\ Typed(g.header) /\ g.start = h.start /\ g.end = h.end
  /\ DOMAIN g.header = DOMAIN h.header
  /\ g.header[b].size = size
  /\ \A x \in DOMAIN h.header :
       /\ g.header[x].next = h.header[x].next /\ g.header[x].prev = h.header[x].prev
       /\ x # b => SameBlock(h.header, g.header, x)

LEMMA ChangedIs ==
  ASSUME NEW h, NEW g, Typed(h.header), NEW b \in DOMAIN h.header, NEW block \in Block(DOMAIN h.header),
         block.next = h.header[b].next, block.prev = h.header[b].prev,
         g = [header |-> [h.header EXCEPT ![b] = block], start |-> h.start, end |-> h.end]
  PROVE  Changed(h, g, b, block.size) /\ g.header[b] = block
<1> DEFINE hd == h.header
           G  == [hd EXCEPT ![b] = block]
<1>1. g.header = G /\ g.start = h.start /\ g.end = h.end /\ IsHeap(g)
  BY DEF IsHeap
<1>2. hd \in [DOMAIN hd -> Block(DOMAIN hd)]
  BY DEF Typed
<1>3. /\ G \in [DOMAIN hd -> Block(DOMAIN hd)] /\ DOMAIN G = DOMAIN hd
      /\ G[b] = block /\ \A x \in DOMAIN hd : x # b => G[x] = hd[x]
  BY <1>2
<1> HIDE DEF G
<1>4. Typed(G)
  BY <1>3 DEF Typed
<1> QED BY <1>1, <1>3, <1>4 DEF Changed, SameBlock

Flagged(h, b, flag) == [h EXCEPT !.header[b].free = flag]
Cut(h, b, size)     == [h EXCEPT !.header[b] = [@ EXCEPT !.size = size, !.free = FALSE]]

LEMMA CutIs ==
  ASSUME NEW h, IsHeap(h), Typed(h.header), NEW b \in DOMAIN h.header, NEW size \in Nat,
         NEW g, g = Cut(h, b, size)
  PROVE  Changed(h, g, b, size) /\ g.header[b].free = FALSE
<1> DEFINE hd == h.header
           old == hd[b]
           block == [old EXCEPT !.size = size, !.free = FALSE]
<1>1. /\ h = [header |-> hd, start |-> h.start, end |-> h.end]
      /\ hd \in [DOMAIN hd -> Block(DOMAIN hd)] /\ old \in Block(DOMAIN hd)
  BY DEF IsHeap, Typed
<1>2. /\ block \in Block(DOMAIN hd) /\ block.next = old.next /\ block.prev = old.prev
      /\ block.size = size /\ block.free = FALSE
  BY <1>1 DEF Block
<1>3. g = [header |-> [hd EXCEPT ![b] = block], start |-> h.start, end |-> h.end]
  BY <1>1 DEF Cut
<1> HIDE DEF block
<1>4. Changed(h, g, b, block.size) /\ g.header[b] = block
  BY <1>2, <1>3, ChangedIs
<1> QED BY <1>2, <1>4

LEMMA FlaggedIs ==
  ASSUME NEW h, IsHeap(h), Typed(h.header), NEW b \in DOMAIN h.header, NEW flag \in BOOLEAN,
         NEW g, g = Flagged(h, b, flag)
  PROVE  Changed(h, g, b, h.header[b].size) /\ g.header[b].free = flag
<1> DEFINE hd == h.header
           old == hd[b]
           block == [old EXCEPT !.free = flag]
<1>1. /\ h = [header |-> hd, start |-> h.start, end |-> h.end]
      /\ hd \in [DOMAIN hd -> Block(DOMAIN hd)] /\ old \in Block(DOMAIN hd)
  BY DEF IsHeap, Typed
<1>2. /\ block \in Block(DOMAIN hd) /\ block.next = old.next /\ block.prev = old.prev
      /\ block.size = old.size /\ block.free = flag
  BY <1>1 DEF Block
<1>3. g = [header |-> [hd EXCEPT ![b] = block], start |-> h.start, end |-> h.end]
  BY <1>1 DEF Flagged
<1> HIDE DEF block
<1>4. Changed(h, g, b, block.size) /\ g.header[b] = block
  <2>1. /\ block \in Block(DOMAIN h.header) /\ block.next = h.header[b].next
        /\ block.prev = h.header[b].prev
    BY <1>2
  <2> QED BY <1>3, <2>1, ChangedIs
<1> QED BY <1>2, <1>4

(* A sound heap stays sound when a block of the first page changes hands.    *)
LEMMA ChangedSound ==
  ASSUME NEW h, NEW own, Sound(h, own), NEW b \in DOMAIN h.header, PageOf(b) = PageOf(h.start),
         NEW g, Changed(h, g, b, h.header[b].size)
  PROVE  /\ Sound(g, own) /\ DOMAIN g.header = DOMAIN h.header /\ g.start = h.start
         /\ \A x \in DOMAIN h.header : /\ g.header[x].size = h.header[x].size
                                       /\ g.header[x].next = h.header[x].next
                                       /\ g.header[x].prev = h.header[x].prev
                                       /\ x # b => g.header[x].free = h.header[x].free
<1>1. /\ IsHeap(g) /\ Typed(g.header) /\ g.start = h.start /\ g.end = h.end
      /\ DOMAIN g.header = DOMAIN h.header
      /\ g.header[b].size = h.header[b].size
  BY DEF Changed
<1>2. \A x \in DOMAIN h.header : /\ g.header[x].next = h.header[x].next
                                 /\ g.header[x].prev = h.header[x].prev
                                 /\ x # b => SameBlock(h.header, g.header, x)
  BY DEF Changed
<1>3. \A x \in DOMAIN h.header : /\ g.header[x].size = h.header[x].size
                                 /\ x # b => g.header[x].free = h.header[x].free
  BY <1>1, <1>2 DEF SameBlock
<1>4. Typed(h.header) /\ Listed(h.header, h.start, h.end) /\ Placed(h.header, PageOf(h.start), own)
  BY DEF Sound
<1>5. Listed(g.header, h.start, h.end)
  BY <1>1, <1>2, <1>4, SameList
<1>6. Placed(g.header, PageOf(h.start), own)
  BY <1>1, <1>2, <1>3, <1>4, FlagPlaced
<1> QED BY <1>1, <1>2, <1>3, <1>5, <1>6 DEF Sound

(* kmalloc's use of a block.                                                 *)
LEMMA TakenSound ==
  ASSUME NEW h, NEW own \in SUBSET Nat, Sound(h, own), NEW b \in DOMAIN h.header, h.header[b].free,
         NEW size \in Nat, size > 0, h.header[b].size >= size, NEW g, g = Taken(h, b, size)
  PROVE  /\ Sound(g, own) /\ g.start = h.start /\ DOMAIN h.header \subseteq DOMAIN g.header
         /\ Used(g.header) = Used(h.header) \union {b}
         /\ g.header[b].size >= size
         /\ \A x \in DOMAIN h.header : x # b => g.header[x].size = h.header[x].size
<1> DEFINE hd == h.header
           D  == DOMAIN hd
           home == PageOf(h.start)
           old == hd[b].size
<1>1. IsHeap(h) /\ Typed(hd) /\ Listed(hd, h.start, h.end) /\ Placed(hd, home, own)
  BY DEF Sound
<1>2. PageOf(b) = home
  <2>1. PageOf(b) # home => Whole(hd, b)
    BY <1>1 DEF Placed
  <2> QED BY <2>1 DEF Whole
<1>3. /\ b \in Nat /\ b > 0 /\ b # NULL /\ old \in Nat /\ hd[b].free = TRUE
      /\ HEADER \in Nat /\ HEADER > 0
  BY <1>1, TypedFields, Constants
<1>4. CASE old - size > HEADER
  <2> DEFINE new == b + HEADER + size
             rest == old - size - HEADER
             next == hd[b].next
             split == Inserted(h, new, rest, b, next, TRUE)
  <2>1. new \in Nat /\ new > 0 /\ new # NULL /\ rest \in Nat /\ rest > 0 /\ size + HEADER < old
        /\ new # b
    BY <1>3, <1>4, Constants
  <2>2. new \notin D
    BY <1>1, <2>1, SplitIsNew
  <2>3. IsInserted(h, split, new, rest, b, next, TRUE)
    <3>1. Fits(h, b, next)
      BY DEF Fits
    <3> HIDE DEF new, rest, next
    <3> QED BY <1>1, <2>1, <2>2, <3>1, InsertedIs DEF D, hd
  <2>4. g = [split EXCEPT !.header[b] = [@ EXCEPT !.size = size, !.free = FALSE]]
    BY <1>4 DEF Taken
  <2> HIDE DEF split, new, rest
  <2>5. /\ IsHeap(split) /\ Typed(split.header) /\ Listed(split.header, split.start, split.end)
        /\ DOMAIN split.header = D \union {new} /\ split.start = h.start
        /\ split.header[new].size = rest /\ split.header[new].next = next
        /\ split.header[new].free = TRUE
        /\ split.header[b].next = new
        /\ \A x \in D : /\ SameBlock(hd, split.header, x)
                        /\ x # b => split.header[x].next = hd[x].next
    BY <1>3, <2>3 DEF IsInserted
  <2>6. Changed(split, g, b, size) /\ g.header[b].free = FALSE
    <3>1. g = Cut(split, b, size) /\ b \in DOMAIN split.header
      BY <2>4, <2>5 DEF Cut
    <3>2. IsHeap(split) /\ Typed(split.header)
      BY <2>5
    <3> QED BY <3>1, <3>2, CutIs
  <2>7. /\ IsHeap(g) /\ Typed(g.header) /\ g.start = h.start /\ g.end = split.end
        /\ DOMAIN g.header = D \union {new}
        /\ g.header[b].size = size /\ g.header[b].free = FALSE
        /\ \A x \in D \union {new} :
             /\ g.header[x].next = split.header[x].next /\ g.header[x].prev = split.header[x].prev
             /\ x # b => SameBlock(split.header, g.header, x)
    BY <2>5, <2>6 DEF Changed
  <2>8. Listed(g.header, g.start, g.end)
    <3> DEFINE G == g.header
               S == split.header
    <3>1. /\ DOMAIN G = DOMAIN S
          /\ \A x \in DOMAIN S : G[x].next = S[x].next /\ G[x].prev = S[x].prev
      BY <2>5, <2>7
    <3>2. Listed(S, split.start, split.end) /\ g.start = split.start /\ g.end = split.end
      BY <2>5, <2>7
    <3> HIDE DEF G, S
    <3>3. Listed(G, split.start, split.end)
      BY <3>1, <3>2, SameList
    <3> QED BY <3>2, <3>3 DEF G
  <2>9. /\ g.header[b].next = new /\ g.header[new].size = rest /\ g.header[new].next = next
        /\ g.header[new].free = TRUE
        /\ \A x \in D : x # b => SameBlock(hd, g.header, x) /\ g.header[x].next = hd[x].next
    BY <2>1, <2>2, <2>5, <2>7 DEF SameBlock
  <2>10. Placed(g.header, home, own)
    <3> DEFINE G == g.header
    <3>2. G[b].size = size /\ G[b].next = new /\ DOMAIN G = D \union {new}
      BY <2>7, <2>9
    <3>3. G[new].size = hd[b].size - size - HEADER /\ G[new].next = hd[b].next
      BY <2>9 DEF rest
    <3>4. \A x \in D : x # b => SameBlock(hd, G, x) /\ G[x].next = hd[x].next
      BY <2>9
    <3>1. new = b + HEADER + size
      BY DEF new
    <3> HIDE DEF G, home, hd
    <3> QED BY <1>1, <1>2, <2>1, <2>2, <3>1, <3>2, <3>3, <3>4, SplitPlaced DEF G, hd
  <2>11. Used(g.header) = Used(hd) \union {b}
    BY <2>2, <2>7, <2>9 DEF Used, SameBlock
  <2> QED BY <2>7, <2>8, <2>9, <2>10, <2>11 DEF Sound, SameBlock
<1>5. CASE ~(old - size > HEADER)
  <2>1. g = Flagged(h, b, FALSE)
    BY <1>5 DEF Taken, Flagged
  <2>2. Changed(h, g, b, hd[b].size) /\ g.header[b].free = FALSE
    <3>1. FALSE \in BOOLEAN
      OBVIOUS
    <3> QED BY <1>1, <2>1, <3>1, FlaggedIs
  <2>3. /\ Sound(g, own) /\ DOMAIN g.header = D /\ g.start = h.start
        /\ \A x \in D : /\ g.header[x].size = hd[x].size
                        /\ x # b => g.header[x].free = hd[x].free
        /\ g.header[b].free = FALSE
    BY <1>2, <2>2, ChangedSound
  <2>4. Used(g.header) = Used(hd) \union {b}
    BY <2>3 DEF Used
  <2> QED BY <2>3, <2>4
<1> QED BY <1>4, <1>5


SameFlag(hd, g, b) == g[b].free = hd[b].free

(* A merge of two blocks of the first page.                                  *)
LEMMA AbsorbedSound ==
  ASSUME NEW h, NEW own \in SUBSET Nat, Sound(h, own), NEW b \in DOMAIN h.header,
         NEW gone, gone = h.header[b].next, gone # NULL,
         PageOf(b) = PageOf(h.start), PageOf(gone) = PageOf(h.start), NEW g, g = Absorbed(h, b)
  PROVE  /\ Sound(g, own) /\ g.start = h.start /\ gone \in DOMAIN h.header /\ gone # b
         /\ DOMAIN g.header = DOMAIN h.header \ {gone}
         /\ SameFlag(h.header, g.header, b)
         /\ \A x \in DOMAIN h.header : x \notin {b, gone} => SameBlock(h.header, g.header, x)
<1> DEFINE hd == h.header
           D == DOMAIN hd
           home == PageOf(h.start)
           next == hd[gone].next
           size == hd[b].size + HEADER + hd[gone].size
           G == [x \in D \ {gone} |-> IF x = b THEN [hd[x] EXCEPT !.size = size, !.next = next]
                                      ELSE IF x = next THEN [hd[x] EXCEPT !.prev = b] ELSE hd[x]]
<1>1. IsHeap(h) /\ Typed(hd) /\ Listed(hd, h.start, h.end) /\ Placed(hd, home, own)
  BY DEF Sound
<1>2. Linked(hd, h.start, h.end)
  BY <1>1, ListLinked
<1>3. gone \in D /\ gone # b /\ hd[gone].prev = b
  BY <1>2 DEF Linked
<1>4. next \in D \union {NULL} /\ next # gone /\ NULL \notin D
  BY <1>1, <1>2, <1>3, TypedFields DEF Linked
<1>5. next # b
  <2> SUFFICES ASSUME next = b PROVE FALSE
    OBVIOUS
  <2>1. Follows(hd, b, home) /\ Follows(hd, gone, home)
    BY <1>1, <1>3 DEF Placed
  <2>2. gone = Ends(hd, b) /\ b = Ends(hd, gone)
    <3>1. gone = Ends(hd, b)
      BY <2>1 DEF Follows
    <3>2. b # NULL
      BY <1>4
    <3> QED BY <2>1, <3>1, <3>2 DEF Follows
  <2>3. /\ b \in Nat /\ gone \in Nat /\ hd[b].size \in Nat /\ hd[gone].size \in Nat
        /\ HEADER \in Nat /\ HEADER > 0
    BY <1>1, <1>3, TypedFields, Constants
  <2> DEFINE m == hd[b].size
             k == hd[gone].size
  <2>4. gone = b + HEADER + m /\ b = gone + HEADER + k /\ m \in Nat /\ k \in Nat
    BY <2>2, <2>3 DEF Ends
  <2> HIDE DEF m, k
  <2> QED BY <2>3, <2>4
<1>6. /\ g = [header |-> G, start |-> h.start, end |-> IF next = NULL THEN b ELSE h.end]
  BY DEF Absorbed
<1>7. /\ g.header = G /\ g.start = h.start /\ g.end = (IF next = NULL THEN b ELSE h.end)
      /\ IsHeap(g)
  <2> HIDE DEF G, next
  <2>1. g.header = G /\ g.start = h.start /\ g.end = (IF next = NULL THEN b ELSE h.end)
    BY <1>6
  <2>2. IsHeap(g)
    BY <1>6, <2>1 DEF IsHeap
  <2> QED BY <2>1, <2>2
<1>8. /\ DOMAIN G = D \ {gone}
      /\ \A x \in D \ {gone} : G[x] = IF x = b THEN [hd[x] EXCEPT !.size = size, !.next = next]
                                      ELSE IF x = next THEN [hd[x] EXCEPT !.prev = b] ELSE hd[x]
  OBVIOUS
<1>9. size \in Nat /\ \A x \in D : hd[x] \in Block(D)
  <2>1. \A x \in D : hd[x] \in Block(D)
    BY <1>1 DEF Typed
  <2>2. hd[b].size \in Nat /\ hd[gone].size \in Nat /\ HEADER \in Nat
    BY <1>1, <1>3, TypedFields, Constants
  <2> QED BY <2>1, <2>2
<1> HIDE DEF G, size, next
<1>10. ASSUME NEW x \in D \ {gone}
       PROVE  /\ G[x].next = IF x = b THEN next ELSE hd[x].next
              /\ G[x].prev = IF x = next THEN b ELSE hd[x].prev
              /\ G[x].free = hd[x].free
              /\ G[x].size = IF x = b THEN size ELSE hd[x].size
              /\ G[x] \in [size : Nat, prev : D \union {NULL}, next : D \union {NULL}, free : BOOLEAN]
  <2>1. hd[x] \in [size : Nat, prev : D \union {NULL}, next : D \union {NULL}, free : BOOLEAN]
    BY <1>9 DEF Block
  <2>2. CASE x = b
    <3>1. G[x] = [hd[x] EXCEPT !.size = size, !.next = next]
      BY <1>8, <2>2
    <3>2. x # next
      BY <1>5, <2>2
    <3> QED BY <1>4, <1>9, <2>1, <2>2, <3>1, <3>2
  <2>3. CASE x # b /\ x = next
    <3>1. G[x] = [hd[x] EXCEPT !.prev = b]
      BY <1>8, <2>3
    <3> QED BY <2>1, <2>3, <3>1
  <2>4. CASE x # b /\ x # next
    <3>1. G[x] = hd[x]
      BY <1>8, <2>4
    <3> QED BY <2>1, <2>4, <3>1
  <2> QED BY <2>2, <2>3, <2>4
<1>11. Typed(G)
  <2>1. ASSUME NEW x \in D \ {gone} PROVE G[x] \in Block(D \ {gone})
    <3>1. G[x].next # gone
      <4>1. CASE x = b
        BY <1>4, <1>10, <4>1
      <4>2. CASE x # b
        <5>1. hd[x].next = gone => hd[gone].prev = x
          BY <1>2, <1>3, <1>4 DEF Linked
        <5> QED BY <1>3, <1>10, <4>2, <5>1
      <4> QED BY <4>1, <4>2
    <3>2. G[x].prev # gone
      <4>1. CASE x = next
        BY <1>3, <1>10, <4>1
      <4>2. CASE x # next
        <5>1. hd[x].prev = gone => hd[gone].next = x
          BY <1>2, <1>3, <1>4 DEF Linked
        <5> QED BY <1>10, <4>2, <5>1 DEF next
      <4> QED BY <4>1, <4>2
    <3> QED BY <1>10, <3>1, <3>2 DEF Block
  <2>2. G = [x \in D \ {gone} |-> G[x]]
    BY DEF G
  <2>3. G \in [D \ {gone} -> Block(D \ {gone})]
    BY <2>1, <2>2
  <2>4. D \subseteq Nat \ {NULL}
    BY <1>1 DEF Typed
  <2> QED BY <1>8, <2>3, <2>4 DEF Typed
<1>12. Listed(G, h.start, IF next = NULL THEN b ELSE h.end)
  <2>1. \A x \in DOMAIN G : /\ G[x].next = IF x = b THEN hd[gone].next ELSE hd[x].next
                            /\ G[x].prev = IF x = hd[gone].next THEN b ELSE hd[x].prev
    BY <1>8, <1>10 DEF next
  <2>2. DOMAIN G = DOMAIN hd \ {gone} /\ gone \in DOMAIN hd /\ hd[b].next = gone
    BY <1>3, <1>8
  <2> HIDE DEF hd
  <2>3. Listed(G, h.start, IF hd[gone].next = NULL THEN b ELSE h.end)
    BY <1>1, <2>1, <2>2, RemovedList DEF hd
  <2> QED BY <2>3 DEF next
<1>13. \A x \in D : x \notin {b, gone} => SameBlock(hd, G, x) /\ G[x].next = hd[x].next
  BY <1>10 DEF SameBlock
<1>14. Placed(G, home, own)
  <2>1. /\ DOMAIN G = DOMAIN hd \ {gone} /\ G[b].size = hd[b].size + HEADER + hd[gone].size
        /\ G[b].next = hd[gone].next
    BY <1>3, <1>8, <1>10 DEF next, size
  <2> HIDE DEF home
  <2> QED BY <1>1, <1>3, <1>13, <2>1, MergedPlaced DEF home
<1>15. SameFlag(hd, G, b)
  BY <1>3, <1>10 DEF SameFlag
<1> QED BY <1>3, <1>7, <1>8, <1>11, <1>12, <1>13, <1>14, <1>15 DEF Sound


(* The areas in use are those of before.                                     *)
Keeps(h, g, own) ==
  /\ Sound(g, own) /\ g.start = h.start /\ Used(g.header) = Used(h.header)
  /\ \A x \in Used(h.header) : g.header[x].size = h.header[x].size

LEMMA FreeIsHome ==
  ASSUME NEW h, NEW own, Sound(h, own), NEW b \in DOMAIN h.header, h.header[b].free
  PROVE  PageOf(b) = PageOf(h.start)
BY DEF Sound, Placed, Whole

LEMMA FreeAbsorbed ==
  ASSUME NEW h, NEW own \in SUBSET Nat, Sound(h, own), NEW b \in DOMAIN h.header,
         NEW gone, gone = h.header[b].next, gone # NULL, h.header[b].free, h.header[gone].free,
         NEW g, g = Absorbed(h, b)
  PROVE  /\ Keeps(h, g, own) /\ b \in DOMAIN g.header /\ g.header[b].free
<1>1. Typed(h.header) /\ gone \in DOMAIN h.header
  BY TypedFields DEF Sound
<1>2. PageOf(b) = PageOf(h.start) /\ PageOf(gone) = PageOf(h.start)
  BY <1>1, FreeIsHome
<1>3. /\ Sound(g, own) /\ g.start = h.start /\ gone # b
      /\ DOMAIN g.header = DOMAIN h.header \ {gone}
      /\ SameFlag(h.header, g.header, b)
      /\ \A x \in DOMAIN h.header : x \notin {b, gone} => SameBlock(h.header, g.header, x)
  BY <1>2, AbsorbedSound
<1>4. g.header[b].free
  BY <1>3 DEF SameFlag
<1>5. Used(g.header) = Used(h.header) /\ \A x \in Used(h.header) : x \notin {b, gone}
  BY <1>1, <1>3, <1>4 DEF Used, SameBlock
<1>6. \A x \in Used(h.header) : g.header[x].size = h.header[x].size
  BY <1>3, <1>5 DEF Used, SameBlock
<1> QED BY <1>3, <1>4, <1>5, <1>6 DEF Keeps

(* kfree.                                                                    *)
LEMMA ReleasedSound ==
  ASSUME NEW h, NEW own \in SUBSET Nat, Sound(h, own), NEW b \in DOMAIN h.header,
         PageOf(b) = PageOf(h.start), NEW g, g = Released(h, b)
  PROVE  /\ Sound(g, own) /\ g.start = h.start /\ Used(g.header) = Used(h.header) \ {b}
         /\ \A x \in Used(h.header) \ {b} : g.header[x].size = h.header[x].size
<1> DEFINE freed == [h EXCEPT !.header[b].free = TRUE]
           prev  == freed.header[b].prev
           backs == prev # NULL /\ freed.header[prev].free
           front == IF backs THEN Absorbed(freed, prev) ELSE freed
           at    == IF backs THEN prev ELSE b
           next  == front.header[at].next
<1>1. g = IF next # NULL /\ front.header[next].free THEN Absorbed(front, at) ELSE front
  BY DEF Released
<1>2. freed = Flagged(h, b, TRUE)
  BY DEF Flagged
<1> HIDE DEF freed
<1>3. Changed(h, freed, b, h.header[b].size) /\ freed.header[b].free
  <2>1. IsHeap(h) /\ Typed(h.header) /\ TRUE \in BOOLEAN
    BY DEF Sound
  <2>2. Changed(h, freed, b, h.header[b].size) /\ freed.header[b].free = TRUE
    BY <1>2, <2>1, FlaggedIs
  <2> QED BY <2>2
<1>4. /\ Sound(freed, own) /\ DOMAIN freed.header = DOMAIN h.header /\ freed.start = h.start
      /\ \A x \in DOMAIN h.header : /\ freed.header[x].size = h.header[x].size
                                    /\ x # b => freed.header[x].free = h.header[x].free
  BY <1>3, ChangedSound
<1>5. /\ Used(freed.header) = Used(h.header) \ {b}
      /\ \A x \in Used(freed.header) : freed.header[x].size = h.header[x].size
  BY <1>3, <1>4 DEF Used
<1>6. /\ Keeps(freed, front, own) /\ at \in DOMAIN front.header /\ front.header[at].free
  <2>1. CASE backs
    <3>1. Linked(freed.header, freed.start, freed.end)
      BY <1>4, ListLinked DEF Sound
    <3>2. prev \in DOMAIN freed.header /\ freed.header[prev].next = b /\ freed.header[prev].free
      BY <1>4, <2>1, <3>1 DEF Linked
    <3>3. b # NULL
      BY <1>4, TypedFields DEF Sound
    <3>4. front = Absorbed(freed, prev) /\ at = prev
      BY <2>1
    <3> HIDE DEF front, at, prev
    <3> QED BY <1>3, <1>4, <3>2, <3>3, <3>4, FreeAbsorbed
  <2>2. CASE ~backs
    BY <1>3, <1>4, <2>2 DEF Keeps
  <2> QED BY <2>1, <2>2
<1> HIDE DEF front, at, backs
<1>7. Keeps(front, g, own)
  <2>1. Sound(front, own)
    BY <1>6 DEF Keeps
  <2>2. CASE next # NULL /\ front.header[next].free
    <3>1. g = Absorbed(front, at)
      BY <1>1, <2>2
    <3> QED BY <1>6, <2>1, <2>2, <3>1, FreeAbsorbed
  <2>3. CASE ~(next # NULL /\ front.header[next].free)
    <3>1. g = front
      BY <1>1, <2>3
    <3> QED BY <2>1, <3>1 DEF Keeps
  <2> QED BY <2>2, <2>3
<1>8. g.start = h.start /\ Sound(g, own) /\ Used(g.header) = Used(freed.header)
  BY <1>4, <1>6, <1>7 DEF Keeps
<1>9. \A x \in Used(freed.header) : g.header[x].size = h.header[x].size
  <2> TAKE x \in Used(freed.header)
  <2>1. front.header[x].size = freed.header[x].size /\ x \in Used(front.header)
    BY <1>6 DEF Keeps
  <2>2. g.header[x].size = front.header[x].size
    BY <1>7, <2>1 DEF Keeps
  <2> QED BY <1>5, <2>1, <2>2
<1> QED BY <1>5, <1>8, <1>9


-----------------------------------------------------------------------------
(* No space is lost: the blocks cover the pages of the heap, and no two      *)
(* neighbours in the list are both free.                                     *)
Covers(hd, own) ==
  \A f \in own : \A x \in Nat : Start(f) <= x /\ x < Start(f) + PAGE_SIZE =>
    \E b \in DOMAIN hd : b <= x /\ x < Ends(hd, b)

Alone(hd, x) == hd[x].next # NULL /\ hd[x].free => ~hd[hd[x].next].free

Tight(h, own) == Covers(h.header, own) /\ \A x \in DOMAIN h.header : Alone(h.header, x)

(* A page more, at the end of the list.                                      *)
LEMMA GrownTight ==
  ASSUME NEW h, NEW own \in SUBSET Nat, Sound(h, own), Tight(h, own), NEW p \in Nat, p > 0, p \notin own,
         NEW isFree \in BOOLEAN, DOMAIN h.header # {} => ~isFree
  PROVE  Tight(Grown(h, p, isFree), own \union {p})
<1> DEFINE g == Grown(h, p, isFree)
           b == Start(p)
           size == PAGE_SIZE - HEADER
           hd == h.header
           G == g.header
<1>1. Typed(hd) /\ Listed(hd, h.start, h.end) /\ Linked(hd, h.start, h.end)
  BY ListLinked DEF Sound
<1>2. b \notin DOMAIN hd
  BY GrownSound
<1>3. size \in Nat /\ b \in Nat /\ b > 0 /\ b # NULL /\ HEADER \in Nat /\ PAGE_SIZE \in Nat
  BY Constants, Starts
<1>4. g = Inserted(h, b, size, h.end, NULL, isFree) /\ Fits(h, h.end, NULL)
  BY DEF Grown, Start, Fits
<1> HIDE DEF g, size
<1>5. IsInserted(h, g, b, size, h.end, NULL, isFree)
  <2> HIDE DEF b
  <2> QED BY <1>1, <1>2, <1>3, <1>4, InsertedIs
<1>6. /\ DOMAIN G = DOMAIN hd \union {b}
      /\ G[b] = [size |-> size, prev |-> h.end, next |-> NULL, free |-> isFree]
      /\ \A x \in DOMAIN hd : /\ SameBlock(hd, G, x)
                              /\ G[x].next = IF x = h.end THEN b ELSE hd[x].next
  BY <1>5 DEF IsInserted
<1> HIDE DEF G
<1>7. G[b].size = size /\ G[b].next = NULL /\ G[b].free = isFree
  BY <1>6
<1>8. Covers(G, own \union {p})
  <2> SUFFICES ASSUME NEW f \in own \union {p}, NEW x \in Nat, Start(f) <= x, x < Start(f) + PAGE_SIZE
               PROVE  \E c \in DOMAIN G : c <= x /\ x < Ends(G, c)
    BY DEF Covers
  <2>1. CASE f \in own
    <3>1. PICK c \in DOMAIN hd : c <= x /\ x < Ends(hd, c)
      BY <2>1 DEF Tight, Covers
    <3>2. Ends(G, c) = Ends(hd, c) /\ c \in DOMAIN G
      BY <1>6, SameStays
    <3> QED BY <3>1, <3>2
  <2>2. CASE f = p
    <3>1. Ends(G, b) = b + PAGE_SIZE
      <4>1. Ends(G, b) = b + HEADER + size /\ size = PAGE_SIZE - HEADER
        BY <1>7 DEF Ends, size
      <4> HIDE DEF b
      <4> QED BY <1>3, <4>1
    <3> QED BY <1>6, <2>2, <3>1
  <2> QED BY <2>1, <2>2
<1>9. ASSUME NEW x \in DOMAIN G PROVE Alone(G, x)
  <2>1. CASE x = b
    BY <1>7, <2>1 DEF Alone
  <2>2. CASE x \in DOMAIN hd /\ x = h.end
    <3>1. ~isFree /\ G[x].next = b
      BY <1>6, <2>2
    <3> QED BY <1>7, <3>1 DEF Alone
  <2>3. CASE x \in DOMAIN hd /\ x # h.end
    <3>1. G[x].next = hd[x].next /\ G[x].free = hd[x].free
      BY <1>6, <2>3 DEF SameBlock
    <3>2. hd[x].next \in DOMAIN hd
      BY <1>1, <2>3 DEF Linked
    <3>3. G[hd[x].next].free = hd[hd[x].next].free
      BY <1>6, <3>2 DEF SameBlock
    <3>4. Alone(hd, x)
      BY <2>3 DEF Tight
    <3> QED BY <3>1, <3>3, <3>4 DEF Alone
  <2> QED BY <1>6, <2>1, <2>2, <2>3
<1> QED BY <1>8, <1>9 DEF Tight, g, G

(* kmalloc's use of a block: what is left of it is behind it.                *)
LEMMA TakenTight ==
  ASSUME NEW h, NEW own \in SUBSET Nat, Sound(h, own), Tight(h, own), NEW b \in DOMAIN h.header,
         h.header[b].free, NEW size \in Nat, size > 0, h.header[b].size >= size
  PROVE  Tight(Taken(h, b, size), own)
<1> DEFINE g == Taken(h, b, size)
           hd == h.header
           G == g.header
           D == DOMAIN hd
           old == hd[b].size
           next == hd[b].next
<1>1. IsHeap(h) /\ Typed(hd) /\ Listed(hd, h.start, h.end) /\ Linked(hd, h.start, h.end)
      /\ Placed(hd, PageOf(h.start), own)
  BY ListLinked DEF Sound
<1>2. /\ b \in Nat /\ b > 0 /\ old \in Nat /\ HEADER \in Nat /\ HEADER > 0
      /\ Ends(hd, b) = b + HEADER + old
  BY <1>1, TypedFields, Constants DEF Ends
<1>3. Alone(hd, b) /\ \A x \in D : Alone(hd, x)
  BY DEF Tight
<1>4. next # NULL => next \in D /\ next # b /\ hd[next].free = FALSE
  <2>1. next # NULL => next \in D /\ next # b
    BY <1>1 DEF Linked
  <2>2. next # NULL => hd[next].free \in BOOLEAN /\ ~hd[next].free
    BY <1>1, <1>3, <2>1, TypedFields DEF Alone
  <2> QED BY <2>1, <2>2
<1>5. CASE old - size > HEADER
  <2> DEFINE new == b + HEADER + size
             rest == old - size - HEADER
             split == Inserted(h, new, rest, b, next, TRUE)
  <2>1. new \in Nat /\ new > 0 /\ new # NULL /\ rest \in Nat /\ rest > 0 /\ new # b
        /\ new + HEADER + rest = Ends(hd, b) /\ new = b + HEADER + size
    BY <1>2, <1>5, Constants
  <2>2. new \notin D
    BY <1>1, <1>2, <1>5, <2>1, SplitIsNew
  <2>3. g = [split EXCEPT !.header[b] = [@ EXCEPT !.size = size, !.free = FALSE]]
    BY <1>5 DEF Taken
  <2> HIDE DEF g, new, rest, next
  <2>4. IsInserted(h, split, new, rest, b, next, TRUE)
    <3>1. Fits(h, b, next)
      BY DEF Fits, next
    <3> QED BY <1>1, <2>1, <2>2, <3>1, InsertedIs DEF D, hd
  <2> HIDE DEF split
  <2>5. /\ IsHeap(split) /\ Typed(split.header) /\ DOMAIN split.header = D \union {new}
        /\ split.header[new].size = rest /\ split.header[new].next = next
        /\ split.header[b].next = new
        /\ \A x \in D : /\ SameBlock(hd, split.header, x)
                        /\ x # b => split.header[x].next = hd[x].next
    BY <2>4 DEF IsInserted
  <2>6. Changed(split, g, b, size) /\ G[b].free = FALSE
    <3>1. g = Cut(split, b, size) /\ b \in DOMAIN split.header
      BY <2>3, <2>5 DEF Cut
    <3> QED BY <2>5, <3>1, CutIs
  <2> HIDE DEF G
  <2>7. /\ DOMAIN G = D \union {new} /\ G[b].size = size /\ G[b].next = new
        /\ G[new].size = rest /\ G[new].next = next
        /\ \A x \in D : x # b => SameBlock(hd, G, x) /\ G[x].next = hd[x].next
    BY <2>1, <2>2, <2>5, <2>6 DEF Changed, SameBlock, G
  <2>8. Ends(G, b) = new /\ Ends(G, new) = Ends(hd, b)
    <3>1. Ends(G, b) = b + HEADER + size /\ Ends(G, new) = new + HEADER + rest
      BY <2>7 DEF Ends
    <3> QED BY <2>1, <3>1
  <2>9. Covers(G, own)
    <3> SUFFICES ASSUME NEW f \in own, NEW x \in Nat, Start(f) <= x, x < Start(f) + PAGE_SIZE
                 PROVE  \E c \in DOMAIN G : c <= x /\ x < Ends(G, c)
      BY DEF Covers
    <3>1. PICK c \in D : c <= x /\ x < Ends(hd, c)
      BY DEF Tight, Covers
    <3>2. CASE c # b
      <4>1. Ends(G, c) = Ends(hd, c) /\ c \in DOMAIN G
        BY <2>7, <3>2, SameStays
      <4> QED BY <3>1, <4>1
    <3>3. CASE c = b /\ x < new
      BY <2>7, <2>8, <3>1, <3>3
    <3>4. CASE c = b /\ ~(x < new)
      <4>1. new <= x
        BY <2>1, <3>4
      <4> QED BY <2>7, <2>8, <3>1, <3>4, <4>1
    <3> QED BY <3>2, <3>3, <3>4
  <2>10. ASSUME NEW x \in DOMAIN G PROVE Alone(G, x)
    <3>1. CASE x = b
      BY <2>6, <3>1 DEF Alone, G
    <3>2. CASE x = new
      <4>1. next # NULL => G[next].free = FALSE
        BY <1>4, <2>7 DEF SameBlock, next
      <4> QED BY <2>7, <3>2, <4>1 DEF Alone
    <3>3. CASE x \in D /\ x # b
      <4>1. G[x].next = hd[x].next /\ G[x].free = hd[x].free
        BY <2>7, <3>3 DEF SameBlock
      <4>2. hd[x].next # NULL => hd[x].next \in D
        BY <1>1, <3>3 DEF Linked
      <4>3. hd[x].next # NULL /\ hd[x].next # b => G[hd[x].next].free = hd[hd[x].next].free
        BY <2>7, <4>2 DEF SameBlock
      <4>4. Alone(hd, x) /\ G[b].free = FALSE
        BY <1>3, <2>6, <3>3 DEF G
      <4> QED BY <4>1, <4>3, <4>4 DEF Alone
    <3> QED BY <2>7, <3>1, <3>2, <3>3
  <2> QED BY <2>9, <2>10 DEF Tight, G, g
<1>6. CASE ~(old - size > HEADER)
  <2> HIDE DEF g
  <2>1. g = Flagged(h, b, FALSE)
    BY <1>6 DEF Taken, Flagged, g
  <2>2. Changed(h, g, b, old) /\ G[b].free = FALSE
    <3>1. FALSE \in BOOLEAN
      OBVIOUS
    <3> QED BY <1>1, <2>1, <3>1, FlaggedIs
  <2> HIDE DEF G
  <2>3. /\ DOMAIN G = D /\ G[b].size = old
        /\ \A x \in D : G[x].next = hd[x].next /\ (x # b => SameBlock(hd, G, x))
    BY <2>2 DEF Changed, G
  <2>4. \A x \in D : G[x].size = hd[x].size /\ (x # b => G[x].free = hd[x].free)
    BY <2>3 DEF SameBlock
  <2>5. Covers(G, own)
    <3>1. \A x \in D : Ends(G, x) = Ends(hd, x)
      BY <2>4 DEF Ends
    <3> QED BY <2>3, <3>1 DEF Tight, Covers
  <2>6. ASSUME NEW x \in D PROVE Alone(G, x)
    <3>1. hd[x].next # NULL => hd[x].next \in D
      BY <1>1 DEF Linked
    <3>2. Alone(hd, x) /\ G[b].free = FALSE
      BY <1>3, <2>2 DEF G
    <3> QED BY <2>3, <2>4, <3>1, <3>2 DEF Alone
  <2> QED BY <2>3, <2>5, <2>6 DEF Tight, G, g
<1> QED BY <1>5, <1>6

(* A merge of two free blocks.                                               *)
IsAbsorbed(hd, g, b, gone) ==
  /\ DOMAIN g = DOMAIN hd \ {gone}
  /\ g[b].size = hd[b].size + HEADER + hd[gone].size /\ g[b].next = hd[gone].next
  /\ \A x \in DOMAIN g : SameFlag(hd, g, x)
  /\ \A x \in DOMAIN g : x # b => SameBlock(hd, g, x) /\ g[x].next = hd[x].next

LEMMA AbsorbedIs ==
  ASSUME NEW h, Typed(h.header), NEW b \in DOMAIN h.header, NEW gone \in DOMAIN h.header,
         gone = h.header[b].next, gone # b, NEW g, g = Absorbed(h, b)
  PROVE  IsAbsorbed(h.header, g.header, b, gone)
<1> DEFINE hd == h.header
           D == DOMAIN hd
           next == hd[gone].next
           size == hd[b].size + HEADER + hd[gone].size
           G == [x \in D \ {gone} |-> IF x = b THEN [hd[x] EXCEPT !.size = size, !.next = next]
                                      ELSE IF x = next THEN [hd[x] EXCEPT !.prev = b] ELSE hd[x]]
<1>1. g = [header |-> G, start |-> h.start, end |-> IF next = NULL THEN b ELSE h.end]
  BY DEF Absorbed
<1>2. g.header = G
  <2> HIDE DEF G
  <2> QED BY <1>1
<1>3. /\ DOMAIN G = D \ {gone}
      /\ \A x \in D \ {gone} : G[x] = IF x = b THEN [hd[x] EXCEPT !.size = size, !.next = next]
                                      ELSE IF x = next THEN [hd[x] EXCEPT !.prev = b] ELSE hd[x]
  OBVIOUS
<1>4. \A x \in D : hd[x] \in Block(D)
  BY DEF Typed
<1> HIDE DEF G, size, next
<1>5. ASSUME NEW x \in D \ {gone}
      PROVE  /\ G[x].next = IF x = b THEN next ELSE hd[x].next
             /\ G[x].free = hd[x].free
             /\ G[x].size = IF x = b THEN size ELSE hd[x].size
  <2>1. hd[x] \in [size : Nat, prev : D \union {NULL}, next : D \union {NULL}, free : BOOLEAN]
    BY <1>4 DEF Block
  <2>2. CASE x = b
    <3>1. G[x] = [hd[x] EXCEPT !.size = size, !.next = next]
      BY <1>3, <2>2
    <3> QED BY <2>1, <2>2, <3>1
  <2>3. CASE x # b /\ x = next
    <3>1. G[x] = [hd[x] EXCEPT !.prev = b]
      BY <1>3, <2>3
    <3> QED BY <2>1, <2>3, <3>1
  <2>4. CASE x # b /\ x # next
    <3>1. G[x] = hd[x]
      BY <1>3, <2>4
    <3> QED BY <2>1, <2>4, <3>1
  <2> QED BY <2>2, <2>3, <2>4
<1>6. b \in D \ {gone}
  OBVIOUS
<1> QED BY <1>2, <1>3, <1>5, <1>6 DEF IsAbsorbed, SameFlag, SameBlock, size, next

LEMMA MergedNeighbours ==
  ASSUME NEW h, NEW own \in SUBSET Nat, Sound(h, own), NEW b \in DOMAIN h.header,
         NEW gone, gone = h.header[b].next, gone # NULL, h.header[b].free, h.header[gone].free,
         NEW g, g = Absorbed(h, b), Covers(h.header, own)
  PROVE  /\ Covers(g.header, own) /\ gone \in DOMAIN h.header /\ gone # b
         /\ DOMAIN g.header = DOMAIN h.header \ {gone}
         /\ \A x \in DOMAIN g.header : x # b /\ Alone(h.header, x) => Alone(g.header, x)
         /\ Alone(h.header, gone) => Alone(g.header, b)
<1> DEFINE hd == h.header
           G == g.header
           D == DOMAIN hd
           home == PageOf(h.start)
<1>1. Typed(hd) /\ Linked(hd, h.start, h.end) /\ Placed(hd, home, own)
  BY ListLinked DEF Sound
<1>2. gone \in D /\ gone # b
  BY <1>1 DEF Linked
<1> HIDE DEF G
<1>3. IsAbsorbed(hd, G, b, gone)
  BY <1>1, <1>2, AbsorbedIs DEF G
<1>4. /\ DOMAIN G = D \ {gone}
      /\ G[b].size = hd[b].size + HEADER + hd[gone].size /\ G[b].next = hd[gone].next
      /\ \A x \in DOMAIN G : G[x].free = hd[x].free
      /\ \A x \in DOMAIN G : x # b => SameBlock(hd, G, x) /\ G[x].next = hd[x].next
  BY <1>3 DEF IsAbsorbed, SameFlag
<1>5. gone = Ends(hd, b)
  <2>1. Follows(hd, b, home) /\ PageOf(gone) = home
    BY <1>1, <1>2, FreeIsHome DEF Placed
  <2> QED BY <2>1 DEF Follows
<1>6. Ends(G, b) = Ends(hd, gone) /\ b <= gone /\ b \in Nat /\ gone \in Nat /\ Ends(hd, gone) \in Nat
      /\ gone <= Ends(hd, gone)
  <2>1. /\ b \in Nat /\ gone \in Nat /\ hd[b].size \in Nat /\ hd[gone].size \in Nat /\ HEADER \in Nat
        /\ Ends(hd, gone) \in Nat
    BY <1>1, <1>2, TypedFields, Constants
  <2> DEFINE m == hd[b].size
             k == hd[gone].size
  <2>2. /\ Ends(G, b) = b + HEADER + (m + HEADER + k) /\ gone = b + HEADER + m
        /\ Ends(hd, gone) = gone + HEADER + k /\ m \in Nat /\ k \in Nat
    BY <1>4, <1>5, <2>1 DEF Ends
  <2> HIDE DEF m, k
  <2> QED BY <2>1, <2>2
<1>7. Covers(G, own)
  <2> SUFFICES ASSUME NEW f \in own, NEW x \in Nat, Start(f) <= x, x < Start(f) + PAGE_SIZE
               PROVE  \E c \in DOMAIN G : c <= x /\ x < Ends(G, c)
    BY DEF Covers
  <2>1. PICK c \in D : c <= x /\ x < Ends(hd, c)
    BY DEF Covers
  <2>2. CASE c \notin {b, gone}
    <3>1. Ends(G, c) = Ends(hd, c) /\ c \in DOMAIN G
      BY <1>4, <2>2, SameStays
    <3> QED BY <2>1, <3>1
  <2>3. CASE c \in {b, gone}
    <3>1. b <= x /\ x < Ends(G, b)
      BY <1>5, <1>6, <2>1, <2>3
    <3> QED BY <1>2, <1>4, <3>1
  <2> QED BY <2>2, <2>3
<1>8. ASSUME Alone(hd, gone) PROVE Alone(G, b)
  <2>1. hd[gone].next # NULL => hd[gone].next \in D /\ hd[gone].next # gone
    BY <1>1, <1>2 DEF Linked
  <2>2. G[b].next # NULL => G[G[b].next].free = hd[hd[gone].next].free
    BY <1>4, <2>1
  <2> QED BY <1>4, <1>8, <2>1, <2>2 DEF Alone
<1>9. ASSUME NEW x \in DOMAIN G, x # b, Alone(hd, x) PROVE Alone(G, x)
  <2>1. x \in D /\ G[x].next = hd[x].next /\ G[x].free = hd[x].free
    BY <1>4, <1>9
  <2>2. hd[x].next # NULL => hd[x].next \in D /\ hd[x].next # gone
    <3>1. hd[x].next # NULL => hd[x].next \in D /\ hd[hd[x].next].prev = x
      BY <1>1, <2>1 DEF Linked
    <3>2. hd[gone].prev = b
      BY <1>1 DEF Linked
    <3> QED BY <1>9, <3>1, <3>2
  <2>3. G[x].next # NULL => G[G[x].next].free = hd[hd[x].next].free
    BY <1>4, <2>1, <2>2
  <2> QED BY <1>9, <2>1, <2>3 DEF Alone
<1> QED BY <1>2, <1>4, <1>7, <1>8, <1>9 DEF G

(* kfree: the block joins both neighbours.                                   *)
LEMMA ReleasedTight ==
  ASSUME NEW h, NEW own \in SUBSET Nat, Sound(h, own), Tight(h, own), NEW b \in DOMAIN h.header,
         PageOf(b) = PageOf(h.start), NEW g, g = Released(h, b)
  PROVE  Tight(g, own)
<1> DEFINE freed == [h EXCEPT !.header[b].free = TRUE]
           prev  == freed.header[b].prev
           backs == prev # NULL /\ freed.header[prev].free
           front == IF backs THEN Absorbed(freed, prev) ELSE freed
           at    == IF backs THEN prev ELSE b
           next  == front.header[at].next
<1>1. g = IF next # NULL /\ front.header[next].free THEN Absorbed(front, at) ELSE front
  BY DEF Released
<1>2. freed = Flagged(h, b, TRUE)
  BY DEF Flagged
<1> HIDE DEF freed
<1>3. Changed(h, freed, b, h.header[b].size) /\ freed.header[b].free
  <2>1. IsHeap(h) /\ Typed(h.header) /\ TRUE \in BOOLEAN
    BY DEF Sound
  <2>2. Changed(h, freed, b, h.header[b].size) /\ freed.header[b].free = TRUE
    BY <1>2, <2>1, FlaggedIs
  <2> QED BY <2>2
<1>4. /\ Sound(freed, own) /\ DOMAIN freed.header = DOMAIN h.header /\ freed.start = h.start
      /\ \A x \in DOMAIN h.header : /\ freed.header[x].size = h.header[x].size
                                    /\ freed.header[x].next = h.header[x].next
                                    /\ x # b => freed.header[x].free = h.header[x].free
  BY <1>3, ChangedSound
<1>5. Linked(freed.header, freed.start, freed.end) /\ Linked(h.header, h.start, h.end)
  BY <1>4, ListLinked DEF Sound
<1>6. Covers(freed.header, own)
  <2>1. \A x \in DOMAIN h.header : Ends(freed.header, x) = Ends(h.header, x)
    BY <1>4 DEF Ends
  <2> QED BY <1>4, <2>1 DEF Tight, Covers
<1>7. ASSUME NEW x \in DOMAIN h.header, x # b, x # prev PROVE Alone(freed.header, x)
  <2>1. h.header[x].next # NULL => h.header[x].next \in DOMAIN h.header /\ h.header[x].next # b
    <3>1. h.header[x].next # NULL =>
            h.header[x].next \in DOMAIN h.header /\ freed.header[freed.header[x].next].prev = x
      BY <1>4, <1>5 DEF Linked
    <3> QED BY <1>4, <1>7, <3>1
  <2>2. Alone(h.header, x)
    BY DEF Tight
  <2> QED BY <1>4, <1>7, <2>1, <2>2 DEF Alone
<1>8. prev # NULL => prev \in DOMAIN h.header /\ freed.header[prev].next = b /\ prev # b
  BY <1>4, <1>5 DEF Linked
<1>9. /\ Sound(front, own) /\ Covers(front.header, own) /\ at \in DOMAIN front.header
      /\ front.header[at].free
      /\ \A x \in DOMAIN front.header : x # at => Alone(front.header, x)
  <2>1. CASE backs
    <3>1. freed.header[prev].free /\ b # NULL /\ front = Absorbed(freed, prev) /\ at = prev
      BY <1>4, <2>1, TypedFields DEF Sound
    <3>2. prev \in DOMAIN freed.header /\ freed.header[prev].next = b
      BY <1>4, <1>8, <2>1
    <3> HIDE DEF front, at, prev
    <3>3. Keeps(freed, front, own) /\ prev \in DOMAIN front.header /\ front.header[prev].free
      BY <1>3, <1>4, <3>1, <3>2, FreeAbsorbed
    <3>4. Covers(front.header, own) /\ \A x \in DOMAIN front.header : x # prev => Alone(front.header, x)
      <4>1. /\ Covers(front.header, own) /\ DOMAIN front.header = DOMAIN freed.header \ {b}
            /\ \A x \in DOMAIN front.header :
                 x # prev /\ Alone(freed.header, x) => Alone(front.header, x)
        BY <1>3, <1>4, <1>6, <3>1, <3>2, MergedNeighbours
      <4> QED BY <1>4, <1>7, <4>1
    <3> QED BY <3>1, <3>3, <3>4 DEF Keeps
  <2>2. CASE ~backs
    <3>1. front = freed /\ at = b
      BY <2>2
    <3>2. ASSUME NEW x \in DOMAIN h.header, x # b PROVE Alone(freed.header, x)
      <4>1. CASE x = prev
        <5>1. prev # NULL
          BY <1>4, <4>1, TypedFields DEF Sound
        <5>2. ~freed.header[prev].free
          BY <2>2, <5>1
        <5> QED BY <4>1, <5>2 DEF Alone
      <4>2. CASE x # prev
        BY <1>7, <3>2, <4>2
      <4> QED BY <4>1, <4>2
    <3> HIDE DEF front, at
    <3> QED BY <1>3, <1>4, <1>6, <3>1, <3>2
  <2> QED BY <2>1, <2>2
<1> HIDE DEF front, at, backs
<1>10. CASE next # NULL /\ front.header[next].free
  <2>1. g = Absorbed(front, at)
    BY <1>1, <1>10
  <2>2. /\ Covers(g.header, own) /\ next \in DOMAIN front.header /\ next # at
        /\ DOMAIN g.header = DOMAIN front.header \ {next}
        /\ \A x \in DOMAIN g.header : x # at /\ Alone(front.header, x) => Alone(g.header, x)
        /\ Alone(front.header, next) => Alone(g.header, at)
    BY <1>9, <1>10, <2>1, MergedNeighbours
  <2> HIDE DEF next
  <2> QED BY <1>9, <2>2 DEF Tight
<1>11. CASE ~(next # NULL /\ front.header[next].free)
  <2>1. g = front
    BY <1>1, <1>11
  <2>2. Alone(front.header, at)
    BY <1>11 DEF Alone
  <2> QED BY <1>9, <2>1, <2>2 DEF Tight
<1> QED BY <1>10, <1>11


-----------------------------------------------------------------------------
(* Blocks is the list.                                                       *)
IsWalk(hd, n, g) ==
  \A k \in 0..n : \A b \in DOMAIN hd \union {NULL} :
    g[k][b] = IF k = 0 \/ b = NULL THEN <<>> ELSE <<b>> \o g[k - 1][hd[b].next]

LEMMA WalkExists ==
  ASSUME NEW hd, NEW n \in Nat
  PROVE  \E g : IsWalk(hd, n, g)
<1> DEFINE I == DOMAIN hd \union {NULL}
           S == {m \in Nat : \E g : IsWalk(hd, m, g)}
           first == [b \in I |-> <<>>]
<1>1. 0 \in S
  <2> DEFINE g == [k \in {0} |-> first]
  <2>1. IsWalk(hd, 0, g)
    BY DEF IsWalk
  <2> QED BY <2>1
<1>2. ASSUME NEW m \in S PROVE m + 1 \in S
  <2>1. PICK g : IsWalk(hd, m, g)
    OBVIOUS
  <2> DEFINE row == [b \in I |-> IF b = NULL THEN <<>> ELSE <<b>> \o g[m][hd[b].next]]
             h == [k \in 0..m + 1 |-> IF k <= m THEN g[k] ELSE row]
  <2>2. ASSUME NEW k \in 0..m + 1, NEW b \in I
        PROVE  h[k][b] = IF k = 0 \/ b = NULL THEN <<>> ELSE <<b>> \o h[k - 1][hd[b].next]
    <3>0. m \in Nat
      OBVIOUS
    <3>1. CASE k <= m
      <4>1. h[k] = g[k] /\ (k # 0 => h[k - 1] = g[k - 1]) /\ k \in 0..m
        BY <3>0, <3>1
      <4> HIDE DEF h
      <4>2. g[k][b] = IF k = 0 \/ b = NULL THEN <<>> ELSE <<b>> \o g[k - 1][hd[b].next]
        BY <2>1, <4>1 DEF IsWalk
      <4> QED BY <4>1, <4>2
    <3>2. CASE k = m + 1
      <4>1. h[k] = row /\ h[k - 1] = g[m] /\ k # 0
        BY <3>0, <3>2
      <4>2. row[b] = IF b = NULL THEN <<>> ELSE <<b>> \o g[m][hd[b].next]
        OBVIOUS
      <4> HIDE DEF h, row
      <4> QED BY <4>1, <4>2
    <3> QED BY <3>0, <3>1, <3>2
  <2> HIDE DEF h
  <2>3. IsWalk(hd, m + 1, h)
    BY <2>2 DEF IsWalk
  <2> QED BY <2>3
<1>3. S = Nat
  <2>1. S \in SUBSET Nat
    OBVIOUS
  <2> HIDE DEF S
  <2> QED BY <1>1, <1>2, <2>1, SetInduction
<1> QED BY <1>3

LEMMA BlocksWalk ==
  ASSUME NEW h, Typed(h.header), NEW n \in Nat, n = Cardinality(DOMAIN h.header),
         h.start \in DOMAIN h.header \union {NULL}
  PROVE  \E g : IsWalk(h.header, n, g) /\ Blocks(h) = g[n][h.start]
<1> DEFINE hd == h.header
           I  == DOMAIN hd \union {NULL}
           cell(g, k, b) == IF k = 0 \/ b = NULL THEN <<>> ELSE <<b>> \o g[k - 1][hd[b].next]
           step(g) == [k \in 0..n |-> [b \in I |-> cell(g, k, b)]]
<1>1. PICK u : IsWalk(hd, n, u)
  BY WalkExists
<1> DEFINE q == [k \in 0..n |-> [b \in I |-> u[k][b]]]
<1>2. q = step(q)
  <2> SUFFICES ASSUME NEW k \in 0..n, NEW b \in I PROVE u[k][b] = cell(q, k, b)
    OBVIOUS
  <2>1. u[k][b] = cell(u, k, b)
    BY <1>1 DEF IsWalk
  <2>2. CASE k = 0 \/ b = NULL
    BY <2>1, <2>2
  <2>3. CASE k # 0 /\ b # NULL
    <3>1. k - 1 \in 0..n
      BY <2>3
    <3>2. hd[b].next \in I
      BY <2>3, TypedFields
    <3>3. q[k - 1][hd[b].next] = u[k - 1][hd[b].next]
      BY <3>1, <3>2
    <3> HIDE DEF q
    <3> QED BY <2>1, <2>3, <3>3
  <2> QED BY <2>2, <2>3
<1>3. Blocks(h) = (CHOOSE g : g = step(g))[n][h.start]
  BY DEF Blocks
<1> DEFINE g == CHOOSE f : f = step(f)
<1>4. g = step(g)
  <2> HIDE DEF q, step
  <2> QED BY <1>2
<1> HIDE DEF g
<1>5. ASSUME NEW k \in 0..n, NEW b \in I PROVE g[k][b] = cell(g, k, b)
  <2>1. g[k] = step(g)[k]
    <3> HIDE DEF step
    <3> QED BY <1>4
  <2>2. step(g)[k] = [e \in I |-> cell(g, k, e)]
    OBVIOUS
  <2> HIDE DEF step, cell
  <2> QED BY <2>1, <2>2
<1>6. IsWalk(hd, n, g)
  BY <1>5 DEF IsWalk
<1>7. Blocks(h) = g[n][h.start]
  <2> HIDE DEF step
  <2> QED BY <1>3 DEF g
<1> QED BY <1>6, <1>7


LEMMA CountOf ==
  ASSUME NEW D, NEW n \in Nat, NEW s \in [1..n -> D], \A b \in D : \E i \in 1..n : s[i] = b,
         \A i, j \in 1..n : s[i] = s[j] => i = j
  PROVE  Cardinality(D) = n
<1>1. s \in Bijection(1..n, D)
  BY Fun_IsBij
<1>2. ExistsBijection(1..n, D)
  BY <1>1, Fun_ExistsBij
<1> QED BY <1>2, FS_CountingElements

LEMMA OneElement ==
  ASSUME NEW S, NEW x \in S
  PROVE  <<x>> \in Seq(S) /\ Len(<<x>>) = 1 /\ <<x>>[1] = x
OBVIOUS

LEMMA BlocksAre ==
  ASSUME NEW h, Typed(h.header), Listed(h.header, h.start, h.end)
  PROVE  /\ Blocks(h) \in Seq(DOMAIN h.header)
         /\ ListIs(h.header, h.start, h.end, Blocks(h), Len(Blocks(h)))
<1> DEFINE hd == h.header
           D  == DOMAIN hd
<1>1. PICK s, n : ListIs(hd, h.start, h.end, s, n)
  BY DEF Listed
<1>2. /\ n \in Nat /\ NULL \notin D /\ s \in [1..n -> D]
      /\ \A b \in D : \E i \in 1..n : s[i] = b
      /\ \A i, j \in 1..n : s[i] = s[j] => i = j
  BY <1>1 DEF ListIs, Typed
<1>3. /\ h.start = IF n = 0 THEN NULL ELSE s[1]
      /\ \A i \in 1..n : hd[s[i]].next = IF i = n THEN NULL ELSE s[i + 1]
  BY <1>1 DEF ListIs
<1>4. Cardinality(D) = n
  BY <1>2, CountOf
<1>5. h.start \in D \union {NULL}
  <2>1. n # 0 => 1 \in 1..n
    BY <1>2
  <2> QED BY <1>2, <1>3, <2>1
<1>6. PICK g : IsWalk(hd, n, g) /\ Blocks(h) = g[n][h.start]
  BY <1>2, <1>4, <1>5, BlocksWalk
<1>7. ASSUME NEW k \in 0..n, NEW b \in D \union {NULL}
      PROVE  g[k][b] = IF k = 0 \/ b = NULL THEN <<>> ELSE <<b>> \o g[k - 1][hd[b].next]
  BY <1>6 DEF IsWalk
<1> DEFINE tail(k, i) == /\ g[k][s[i]] \in Seq(D) /\ Len(g[k][s[i]]) = n - i + 1
                         /\ \A j \in 1..(n - i + 1) : g[k][s[i]][j] = s[i + j - 1]
           S == {k \in Nat : k <= n => \A i \in 1..n : n - i + 1 <= k => tail(k, i)}
<1>8. 0 \in S
  <2>1. \A i \in 1..n : ~(n - i + 1 <= 0)
    BY <1>2
  <2> HIDE DEF tail
  <2> QED BY <2>1
<1>9. ASSUME NEW k \in S PROVE k + 1 \in S
  <2> SUFFICES ASSUME k + 1 <= n, NEW i \in 1..n, n - i + 1 <= k + 1 PROVE tail(k + 1, i)
    OBVIOUS
  <2>1. k \in Nat /\ k \in 0..n /\ k + 1 \in 0..n /\ k + 1 # 0 /\ (k + 1) - 1 = k /\ k <= n /\ 0 \in 0..n
    BY <1>2
  <2>2. s[i] \in D /\ s[i] # NULL
    BY <1>2
  <2> DEFINE rest == g[k][hd[s[i]].next]
  <2>3. g[k + 1][s[i]] = <<s[i]>> \o rest
    <3> DEFINE b == s[i]
               m == k + 1
    <3>1. b \in D \union {NULL} /\ b # NULL /\ m \in 0..n /\ m # 0 /\ m - 1 = k
      BY <2>1, <2>2
    <3> HIDE DEF b, m, D
    <3>2. g[m][b] = <<b>> \o g[m - 1][hd[b].next]
      BY <1>7, <3>1
    <3>3. g[m][b] = <<b>> \o g[k][hd[b].next]
      BY <3>1, <3>2
    <3> QED BY <3>3 DEF b, m
  <2>4. rest \in Seq(D) /\ Len(rest) = n - i /\ \A j \in 1..(n - i) : rest[j] = s[i + j]
    <3>1. CASE i = n
      <4>1. rest = g[k][NULL]
        BY <1>3, <3>1
      <4>2. g[k][NULL] = <<>>
        BY <1>7, <2>1
      <4> QED BY <1>2, <3>1, <4>1, <4>2, EmptySeq
    <3>2. CASE i # n
      <4>1. i + 1 \in 1..n /\ n - (i + 1) + 1 <= k /\ n - (i + 1) + 1 = n - i
        BY <1>2, <3>2
      <4>2. tail(k, i + 1)
        <5> HIDE DEF tail
        <5> QED BY <2>1, <4>1
      <4>3. rest = g[k][s[i + 1]]
        BY <1>3, <3>2
      <4>4. rest \in Seq(D) /\ Len(rest) = n - i
        BY <4>1, <4>2, <4>3
      <4>5. ASSUME NEW j \in 1..(n - i) PROVE rest[j] = s[i + j]
        <5>1. (i + 1) + j - 1 = i + j
          BY <1>2
        <5>2. rest[j] = s[(i + 1) + j - 1]
          BY <4>1, <4>2, <4>3
        <5> QED BY <5>1, <5>2
      <4> QED BY <4>4, <4>5
    <3> QED BY <3>1, <3>2
  <2> HIDE DEF rest
  <2>5. <<s[i]>> \in Seq(D) /\ Len(<<s[i]>>) = 1 /\ <<s[i]>>[1] = s[i]
    BY <2>2, OneElement
  <2> DEFINE one == <<s[i]>>
             all == one \o rest
  <2>6. one \in Seq(D) /\ Len(one) = 1 /\ one[1] = s[i]
    BY <2>5
  <2> HIDE DEF one
  <2>7. /\ all \in Seq(D) /\ Len(all) = Len(one) + Len(rest)
        /\ \A j \in 1..(Len(one) + Len(rest)) :
             all[j] = IF j <= Len(one) THEN one[j] ELSE rest[j - Len(one)]
    <3> HIDE DEF D, S, tail
    <3> QED BY <2>4, <2>6, ConcatProperties
  <2> HIDE DEF all
  <2>8. Len(all) = n - i + 1
    BY <1>2, <2>4, <2>6, <2>7
  <2>9. ASSUME NEW j \in 1..(n - i + 1) PROVE all[j] = s[i + j - 1]
    <3>1. all[j] = IF j <= 1 THEN one[j] ELSE rest[j - 1]
      BY <1>2, <2>4, <2>6, <2>7
    <3>2. CASE j = 1
      BY <1>2, <2>6, <3>1, <3>2
    <3>3. CASE j # 1
      <4>1. j - 1 \in 1..(n - i) /\ i + (j - 1) = i + j - 1 /\ ~(j <= 1)
        BY <1>2, <3>3
      <4> QED BY <2>4, <3>1, <4>1
    <3> QED BY <3>2, <3>3
  <2>10. g[k + 1][s[i]] = all
    BY <2>3 DEF all, one
  <2> QED BY <2>7, <2>8, <2>9, <2>10
<1>10. n \in S
  <2>1. S \in SUBSET Nat
    OBVIOUS
  <2>2. S = Nat
    <3> HIDE DEF S
    <3> QED BY <1>8, <1>9, <2>1, SetInduction
  <2> HIDE DEF S
  <2> QED BY <1>2, <2>2
<1>11. Blocks(h) \in Seq(D) /\ Len(Blocks(h)) = n /\ \A j \in 1..n : Blocks(h)[j] = s[j]
  <2>1. CASE n = 0
    <3>1. h.start = NULL /\ 0 \in 0..n
      BY <1>3, <2>1
    <3>2. Blocks(h) = <<>>
      BY <1>6, <1>7, <2>1, <3>1
    <3> QED BY <2>1, <3>2, EmptySeq
  <2>2. CASE n # 0
    <3>1. 1 \in 1..n /\ n - 1 + 1 <= n /\ n - 1 + 1 = n
      BY <1>2, <2>2
    <3>2. tail(n, 1)
      <4> HIDE DEF tail
      <4> QED BY <1>2, <1>10, <3>1
    <3>3. Blocks(h) = g[n][s[1]]
      BY <1>3, <1>6, <2>2
    <3>4. \A j \in 1..n : 1 + j - 1 = j
      BY <1>2
    <3> HIDE DEF D
    <3> QED BY <3>1, <3>2, <3>3, <3>4
  <2> QED BY <2>1, <2>2
<1>12. Blocks(h) \in [1..n -> D]
  BY <1>11, LenProperties
<1>13. Blocks(h) = s
  BY <1>2, <1>11, <1>12
<1> QED BY <1>1, <1>11, <1>13


-----------------------------------------------------------------------------
(* The heap and the areas in use.                                            *)
Good(h, areas, own) ==
  /\ Sound(h, own) /\ Tight(h, own)
  /\ DOMAIN areas = {Area(b) : b \in Used(h.header)}
  /\ \A b \in Used(h.header) : /\ areas[Area(b)] \in Sizes \ {0}
                               /\ areas[Area(b)] <= h.header[b].size

(* A block comes into use.                                                   *)
Gained(h, g, own, b, size) ==
  /\ Sound(g, own) /\ Tight(g, own) /\ b \in Nat /\ b \notin Used(h.header)
  /\ Used(g.header) = Used(h.header) \union {b}
  /\ g.header[b].size >= size
  /\ \A x \in Used(h.header) : g.header[x].size = h.header[x].size
  /\ DOMAIN h.header # {} => g.start = h.start

LEMMA UsedNat ==
  ASSUME NEW h, NEW own, Sound(h, own)
  PROVE  Used(h.header) \subseteq DOMAIN h.header /\ DOMAIN h.header \subseteq Nat \ {NULL}
BY DEF Used, Sound, Typed

LEMMA AreasDiffer ==
  ASSUME NEW b \in Nat, NEW c \in Nat
  PROVE  /\ Area(b) = Area(c) => b = c
         /\ BlockOf(Area(b)) = b /\ Area(b) \in Nat /\ Area(b) # NULL
BY Constants DEF Area, BlockOf

LEMMA GoodGained ==
  ASSUME NEW h, NEW areas, NEW own, Good(h, areas, own), NEW g, NEW own2, NEW b,
         NEW size \in Sizes, size # 0, Gained(h, g, own2, b, size)
  PROVE  Good(g, With(areas, Area(b), size), own2)
<1> DEFINE more == With(areas, Area(b), size)
           U == Used(h.header)
<1>1. Sound(h, own) /\ DOMAIN areas = {Area(x) : x \in U}
  BY DEF Good
<1>2. U \subseteq Nat /\ b \in Nat /\ b \notin U /\ Used(g.header) = U \union {b}
      /\ Sound(g, own2) /\ Tight(g, own2)
  BY <1>1, UsedNat DEF Gained
<1>3. DOMAIN more = {Area(x) : x \in U \union {b}}
  BY <1>1 DEF With
<1>4. more[Area(b)] = size
  BY DEF With
<1>5. ASSUME NEW x \in U
      PROVE  more[Area(x)] = areas[Area(x)] /\ areas[Area(x)] \in Sizes \ {0}
             /\ areas[Area(x)] <= g.header[x].size
  <2>1. Area(x) # Area(b)
    BY <1>2, AreasDiffer
  <2>2. Area(x) \in DOMAIN areas
    BY <1>1
  <2>3. more[Area(x)] = areas[Area(x)]
    BY <2>1, <2>2 DEF With
  <2>4. areas[Area(x)] \in Sizes \ {0} /\ areas[Area(x)] <= h.header[x].size
    BY DEF Good
  <2>5. g.header[x].size = h.header[x].size
    BY DEF Gained
  <2> QED BY <2>3, <2>4, <2>5
<1>6. size <= g.header[b].size
  <2>1. Typed(g.header) /\ b \in DOMAIN g.header
    BY <1>2, UsedNat DEF Sound
  <2>2. g.header[b].size \in Nat /\ size \in Nat
    BY <2>1, TypedFields, Constants
  <2>3. g.header[b].size >= size
    BY DEF Gained
  <2> QED BY <2>2, <2>3
<1> HIDE DEF more, U
<1>7. ASSUME NEW x \in Used(g.header)
      PROVE  more[Area(x)] \in Sizes \ {0} /\ more[Area(x)] <= g.header[x].size
  BY <1>2, <1>4, <1>5, <1>6
<1> QED BY <1>2, <1>3, <1>7 DEF Good, more

LEMMA GoodLost ==
  ASSUME NEW h, NEW areas, NEW own \in SUBSET Nat, Good(h, areas, own), NEW b \in Used(h.header),
         PageOf(b) = PageOf(h.start)
  PROVE  Good(Released(h, b), Without(areas, Area(b)), own) /\ Released(h, b).start = h.start
<1> DEFINE g == Released(h, b)
           less == Without(areas, Area(b))
           U == Used(h.header)
<1>1. Sound(h, own) /\ Tight(h, own) /\ DOMAIN areas = {Area(x) : x \in U}
  BY DEF Good
<1>2. U \subseteq Nat /\ b \in DOMAIN h.header /\ b \in Nat
  BY <1>1, UsedNat
<1>3. /\ Sound(g, own) /\ Tight(g, own) /\ g.start = h.start /\ Used(g.header) = U \ {b}
      /\ \A x \in U \ {b} : g.header[x].size = h.header[x].size
  <2> HIDE DEF g
  <2>1. g = Released(h, b)
    BY DEF g
  <2> QED BY <1>1, <1>2, <2>1, ReleasedSound, ReleasedTight
<1>4. \A x \in U : x # b => Area(x) # Area(b)
  BY <1>2, AreasDiffer
<1>5. DOMAIN less = {Area(x) : x \in U \ {b}}
  BY <1>1, <1>4 DEF Without
<1>6. ASSUME NEW x \in U \ {b}
      PROVE  less[Area(x)] \in Sizes \ {0} /\ less[Area(x)] <= g.header[x].size
  <2>1. Area(x) \in DOMAIN areas /\ Area(x) # Area(b)
    BY <1>1, <1>4
  <2>2. less[Area(x)] = areas[Area(x)]
    BY <2>1 DEF Without
  <2>3. areas[Area(x)] \in Sizes \ {0} /\ areas[Area(x)] <= h.header[x].size
    BY DEF Good
  <2> HIDE DEF less, g
  <2> QED BY <1>3, <2>2, <2>3
<1> HIDE DEF g, less
<1>7. Good(g, less, own)
  BY <1>3, <1>5, <1>6 DEF Good
<1> QED BY <1>3, <1>7 DEF g, less


(* Every size asked for fits into a page.                                    *)
SmallSizes == \A size \in Sizes : Rounded(size) <= PAGE_SIZE - HEADER

(* What kmalloc leaves behind.                                               *)
OutcomeOf(h, own, out, size) ==
  \/ out.area = NULL /\ out.pages = {} /\ out.heap = h
  \/ \E b \in Nat : /\ out.area = Area(b) /\ Gained(h, out.heap, own \union out.pages, b, size)
                    /\ out.pages = {} \/ \E p \in free : out.pages = {p}

LEMMA TakenGained ==
  ASSUME NEW h, NEW own \in SUBSET Nat, Sound(h, own), Tight(h, own), NEW size \in Nat, size > 0,
         NEW b \in DOMAIN h.header, h.header[b].free, h.header[b].size >= Rounded(size)
  PROVE  Gained(h, Taken(h, b, Rounded(size)), own, b, size)
<1> DEFINE r == Rounded(size)
           g == Taken(h, b, r)
<1>1. r \in Nat /\ r >= size /\ r > 0
  <2>1. Rounded(size) \in Nat /\ Rounded(size) >= size
    BY RoundedUp
  <2> HIDE DEF r
  <2>2. r \in Nat /\ r >= size
    BY <2>1 DEF r
  <2> QED BY <2>2
<1>2. h.header[b].size >= r
  OBVIOUS
<1> HIDE DEF r, g
<1>3. /\ Sound(g, own) /\ g.start = h.start /\ DOMAIN h.header \subseteq DOMAIN g.header
      /\ Used(g.header) = Used(h.header) \union {b}
      /\ g.header[b].size >= r
      /\ \A x \in DOMAIN h.header : x # b => g.header[x].size = h.header[x].size
  BY <1>1, <1>2, TakenSound DEF g
<1>4. b \in Nat /\ b \notin Used(h.header)
  BY UsedNat DEF Used
<1>5. g.header[b].size >= size
  <2>1. Typed(g.header) /\ b \in DOMAIN g.header
    BY <1>3 DEF Sound
  <2>2. g.header[b].size \in Nat
    BY <2>1, TypedFields
  <2> QED BY <1>1, <1>3, <2>2
<1>6. \A x \in Used(h.header) : g.header[x].size = h.header[x].size
  BY <1>3, <1>4 DEF Used
<1>7. Tight(g, own)
  BY <1>1, <1>2, TakenTight DEF g
<1>8. Gained(h, g, own, b, size)
  BY <1>3, <1>4, <1>5, <1>6, <1>7 DEF Gained
<1> QED BY <1>8 DEF g, r

LEMMA GrownGained ==
  ASSUME NEW h, NEW own \in SUBSET Nat, Sound(h, own), Tight(h, own), NEW size \in Nat,
         Rounded(size) <= PAGE_SIZE - HEADER, NEW p \in Nat, p > 0, p \notin own
  PROVE  Gained(h, Grown(h, p, FALSE), own \union {p}, Start(p), size)
<1> DEFINE g == Grown(h, p, FALSE)
           b == Start(p)
<1>1. /\ Sound(g, own \union {p}) /\ b \notin DOMAIN h.header
      /\ Used(g.header) = Used(h.header) \union {b}
      /\ b \in DOMAIN g.header /\ g.header[b].size = PAGE_SIZE - HEADER
      /\ \A x \in DOMAIN h.header : g.header[x].size = h.header[x].size
      /\ DOMAIN h.header # {} => g.start = h.start
  BY GrownSound
<1>2. b \in Nat
  BY Starts
<1>3. b \notin Used(h.header) /\ \A x \in Used(h.header) : g.header[x].size = h.header[x].size
  BY <1>1 DEF Used
<1>4. g.header[b].size >= size
  <2>1. Rounded(size) \in Nat /\ Rounded(size) >= size /\ PAGE_SIZE \in Nat /\ HEADER \in Nat
    BY RoundedUp, Constants
  <2> DEFINE r == Rounded(size)
  <2>2. r \in Nat /\ r >= size /\ r <= PAGE_SIZE - HEADER
    BY <2>1
  <2> HIDE DEF r
  <2> DEFINE room == g.header[b].size
  <2>3. room = PAGE_SIZE - HEADER
    BY <1>1
  <2> HIDE DEF room
  <2>4. room >= size
    BY <2>1, <2>2, <2>3
  <2> QED BY <2>4 DEF room
<1>5. Tight(g, own \union {p})
  BY GrownTight
<1> HIDE DEF g, b
<1>6. Gained(h, g, own \union {p}, b, size)
  BY <1>1, <1>2, <1>3, <1>4, <1>5 DEF Gained
<1> QED BY <1>6 DEF g, b

LEMMA OutcomeIs ==
  ASSUME NEW h, NEW own \in SUBSET Nat, Sound(h, own), Tight(h, own), NEW size \in Nat,
         Rounded(size) <= PAGE_SIZE - HEADER, free \subseteq Nat \ {0}, free \intersect own = {},
         NEW out \in Outcomes(h, size)
  PROVE  OutcomeOf(h, own, out, size)
<1> DEFINE list == Blocks(h)
           fits == {i \in 1..Len(list) : h.header[list[i]].free /\ h.header[list[i]].size >= Rounded(size)}
           b    == list[Min(fits)]
           none == [heap |-> h, area |-> NULL, pages |-> {}]
           took == [heap |-> Taken(h, b, Rounded(size)), area |-> Area(b), pages |-> {}]
           grew(p) == [heap |-> Grown(h, p, FALSE), area |-> Area(p * PAGE_SIZE), pages |-> {p}]
<1>1. \/ out = none
      \/ size # 0 /\ fits # {} /\ out = took
      \/ \E p \in free : out = grew(p)
  <2> HIDE DEF fits, none, took, grew
  <2>1. Outcomes(h, size) = IF size = 0 THEN {none} ELSE IF fits # {} THEN {took}
                            ELSE IF free = {} THEN {none} ELSE {grew(p) : p \in free}
    BY DEF Outcomes, fits, none, took, grew
  <2> QED BY <2>1
<1>2. CASE out = none
  <2>1. out.area = NULL /\ out.pages = {} /\ out.heap = h
    BY <1>2
  <2> QED BY <2>1 DEF OutcomeOf
<1>3. CASE size # 0 /\ fits # {} /\ out = took
  <2>1. list \in Seq(DOMAIN h.header)
    BY BlocksAre DEF Sound
  <2>2. Len(list) \in Nat /\ \A i \in 1..Len(list) : list[i] \in DOMAIN h.header
    BY <2>1, LenProperties, ElementOfSeq
  <2>3. Min(fits) \in fits
    <3> DEFINE T == fits
               n == Len(list)
    <3>1. T \in SUBSET Nat /\ T # {}
      <4>1. n \in Nat
        BY <2>2
      <4>2. T \subseteq 1..n
        OBVIOUS
      <4>3. T # {}
        BY <1>3
      <4> HIDE DEF T, n
      <4> QED BY <4>1, <4>2, <4>3
    <3> HIDE DEF T
    <3>2. \E x \in T : \A y \in T : x <= y
      BY <3>1, LeastElement
    <3>3. Min(T) = CHOOSE x \in T : \A y \in T : x <= y
      BY DEF Min
    <3>4. Min(T) \in T
      BY <3>2, <3>3
    <3> QED BY <3>4 DEF T
  <2>4. b \in DOMAIN h.header /\ h.header[b].free /\ h.header[b].size >= Rounded(size)
    <3> DEFINE m == Min(fits)
    <3>1. m \in fits
      BY <2>3
    <3> HIDE DEF m
    <3>2. list[m] \in DOMAIN h.header /\ h.header[list[m]].free /\ h.header[list[m]].size >= Rounded(size)
      BY <2>2, <3>1
    <3> QED BY <3>2 DEF m
  <2> HIDE DEF b, fits, list
  <2>5. Gained(h, Taken(h, b, Rounded(size)), own, b, size)
    <3>1. size > 0
      BY <1>3
    <3> QED BY <2>4, <3>1, TakenGained
  <2>6. out.heap = Taken(h, b, Rounded(size)) /\ out.area = Area(b) /\ out.pages = {}
    BY <1>3
  <2>7. own \union out.pages = own /\ b \in Nat
    BY <2>5, <2>6 DEF Gained
  <2> QED BY <2>5, <2>6, <2>7 DEF OutcomeOf
<1>4. CASE \E p \in free : out = grew(p)
  <2>1. PICK p \in free : out = grew(p)
    BY <1>4
  <2>2. p \in Nat /\ p > 0 /\ p \notin own
    OBVIOUS
  <2>3. Gained(h, Grown(h, p, FALSE), own \union {p}, Start(p), size)
    BY <2>2, GrownGained
  <2>4. out.heap = Grown(h, p, FALSE) /\ out.area = Area(Start(p)) /\ out.pages = {p}
    BY <2>1 DEF Start
  <2>5. Start(p) \in Nat
    BY <2>2, Starts
  <2> HIDE DEF grew, took, none
  <2> QED BY <2>3, <2>4, <2>5 DEF OutcomeOf
<1> QED BY <1>1, <1>2, <1>3, <1>4


-----------------------------------------------------------------------------
(* The invariant: the heap is sound, its blocks in use are the areas in use, *)
(* and its pages are not free.                                               *)
Inv ==
  /\ started \in BOOLEAN /\ Good(Heap, held, owned)
  /\ ~started => DOMAIN header = {} /\ owned = {}
  /\ free \subseteq Frames /\ owned \subseteq Frames /\ free \intersect owned = {} /\ lost = {}

LEMMA HeapIs == IsHeap(Heap) /\ Heap.header = header /\ Heap.start = heap_start /\ Heap.end = heap_end
BY DEF Heap, IsHeap

LEMMA BecomesIs ==
  ASSUME NEW h, IsHeap(h), Becomes(h)
  PROVE  Heap' = h
BY DEF IsHeap, Becomes, Heap

LEMMA StartInv == Init => Inv
<1> SUFFICES ASSUME Init PROVE Inv
  OBVIOUS
<1> DEFINE hd == Heap.header
           s == [i \in 1..0 |-> NULL]
<1>1. /\ started = FALSE /\ DOMAIN header = {} /\ heap_start = NULL /\ heap_end = NULL
      /\ DOMAIN held = {} /\ free = Frames /\ owned = {} /\ lost = {}
      /\ header = [b \in {} |-> NULL]
  BY DEF Init
<1>2. hd = header /\ DOMAIN hd = {} /\ Heap.start = NULL /\ Heap.end = NULL /\ IsHeap(Heap)
  BY <1>1, HeapIs
<1> HIDE DEF hd
<1>3. Typed(hd)
  <2>1. hd \in [DOMAIN hd -> Block(DOMAIN hd)]
    BY <1>1, <1>2
  <2> QED BY <1>2, <2>1 DEF Typed
<1>4. Listed(hd, Heap.start, Heap.end)
  <2>1. \A i : ~(i \in 1..0)
    OBVIOUS
  <2>2. s \in [1..0 -> DOMAIN hd]
    BY <2>1
  <2> HIDE DEF s
  <2>3. ListIs(hd, NULL, NULL, s, 0)
    BY <1>2, <2>1, <2>2 DEF ListIs
  <2> QED BY <1>2, <2>3 DEF Listed
<1>5. Placed(hd, PageOf(Heap.start), {})
  BY <1>2 DEF Placed
<1>6. Sound(Heap, {})
  BY <1>2, <1>3, <1>4, <1>5 DEF Sound, hd
<1>7. Used(Heap.header) = {}
  BY <1>2 DEF Used, hd
<1>8. Tight(Heap, {})
  BY <1>2 DEF Tight, Covers, hd
<1>9. Good(Heap, held, {})
  BY <1>1, <1>6, <1>7, <1>8 DEF Good
<1> QED BY <1>1, <1>9 DEF Inv

(* The pages a call takes.                                                   *)
LEMMA PagesTaken ==
  ASSUME Inv, NEW ps, TakePages(ps), ps = {} \/ \E p \in free : ps = {p}
  PROVE  /\ owned' = owned \union ps
         /\ free' \subseteq Frames /\ owned' \subseteq Frames /\ free' \intersect owned' = {} /\ lost' = {}
<1>1. /\ free \subseteq Frames /\ owned \subseteq Frames /\ free \intersect owned = {} /\ lost = {}
  BY DEF Inv
<1>2. CASE ps = {}
  <2>1. free' = free /\ owned' = owned /\ lost' = lost
    BY <1>2 DEF TakePages, pages
  <2> QED BY <1>1, <1>2, <2>1
<1>3. CASE ps # {}
  <2>1. PICK p \in ps : Pmm!Acquire(p)
    BY <1>3 DEF TakePages
  <2>2. ps = {p}
    BY <1>3
  <2> QED BY <1>1, <2>1, <2>2 DEF Pmm!Acquire
<1> QED BY <1>2, <1>3

LEMMA InitStep ==
  ASSUME Inv, KmallocInit
  PROVE  Inv'
<1>1. /\ started = FALSE /\ started' = TRUE /\ held' = held /\ Good(Heap, held, owned)
      /\ DOMAIN header = {} /\ owned = {}
      /\ free \subseteq Frames /\ lost = {}
  BY DEF Inv, KmallocInit
<1>2. CASE free = {} /\ UNCHANGED <<heap, pages>>
  <2>1. /\ Heap' = Heap /\ free' = free /\ owned' = owned /\ lost' = lost
    BY <1>2 DEF heap, pages, Heap
  <2> QED BY <1>1, <2>1 DEF Inv
<1>3. ASSUME NEW page \in free, Pmm!Acquire(page), Becomes(Grown(Heap, page, TRUE))
      PROVE  Inv'
  <2>1. free' = free \ {page} /\ owned' = {page} /\ lost' = {} /\ page \in Frames
    BY <1>1, <1>3 DEF Pmm!Acquire
  <2> DEFINE g == Grown(Heap, page, TRUE)
  <2>2. page \in Nat /\ page > 0 /\ page \notin owned /\ owned \in SUBSET Nat /\ Sound(Heap, owned)
        /\ Tight(Heap, owned)
    BY <1>1, <2>1, KmallocAssumption DEF Good
  <2>3. DOMAIN Heap.header = {}
    BY <1>1, HeapIs
  <2>4. /\ Sound(g, owned \union {page})
        /\ Used(g.header) = Used(Heap.header) \union (IF TRUE THEN {} ELSE {Start(page)})
        /\ Tight(g, owned \union {page})
    <3>1. TRUE \in BOOLEAN
      OBVIOUS
    <3> QED BY <2>2, <2>3, <3>1, GrownSound, GrownTight
  <2> HIDE DEF g
  <2>5. Used(g.header) = {} /\ Used(Heap.header) = {}
    BY <2>3, <2>4 DEF Used
  <2>6. Heap' = g
    BY <1>3, <2>4, BecomesIs DEF g, Sound
  <2>7. Good(g, held, owned')
    BY <1>1, <2>1, <2>4, <2>5 DEF Good
  <2>8. Good(Heap, held, owned)'
    BY <1>1, <2>6, <2>7
  <2> QED BY <1>1, <2>1, <2>8 DEF Inv
<1> QED BY <1>2, <1>3 DEF KmallocInit


(* What every outcome of kmalloc is in a state of the invariant.             *)
LEMMA OutcomesHere ==
  ASSUME Inv, SmallSizes, NEW size \in Sizes, NEW out \in Outcomes(Heap, size)
  PROVE  OutcomeOf(Heap, owned, out, size)
<1>1. /\ Sound(Heap, owned) /\ Tight(Heap, owned) /\ free \subseteq Frames /\ owned \subseteq Frames
      /\ free \intersect owned = {}
  BY DEF Inv, Good
<1>2. free \subseteq Nat \ {0} /\ owned \in SUBSET Nat /\ size \in Nat
  BY <1>1, Constants
<1>3. Rounded(size) <= PAGE_SIZE - HEADER
  BY DEF SmallSizes
<1> QED BY <1>1, <1>2, <1>3, OutcomeIs

LEMMA OutcomeNone ==
  ASSUME NEW h, NEW own, NEW out, NEW size, OutcomeOf(h, own, out, size), out.area = NULL
  PROVE  out.pages = {} /\ out.heap = h
BY AreasDiffer DEF OutcomeOf

LEMMA KmallocStep ==
  ASSUME Inv, SmallSizes, NEW size \in Sizes, Kmalloc(size)
  PROVE  Inv'
<1>1. started = TRUE /\ started' = TRUE /\ Good(Heap, held, owned)
  BY DEF Kmalloc, Inv
<1>2. PICK out \in Outcomes(Heap, size) :
        /\ Becomes(out.heap) /\ TakePages(out.pages)
        /\ held' = IF out.area = NULL THEN held ELSE With(held, out.area, size)
  BY DEF Kmalloc
<1>3. OutcomeOf(Heap, owned, out, size)
  BY OutcomesHere
<1>4. CASE out.area = NULL
  <2>1. out.pages = {} /\ out.heap = Heap /\ held' = held
    BY <1>2, <1>3, <1>4, OutcomeNone
  <2>2. Heap' = Heap
    <3>1. IsHeap(out.heap)
      BY <2>1, HeapIs
    <3> QED BY <1>2, <2>1, <3>1, BecomesIs
  <2>3. free' = free /\ owned' = owned /\ lost' = lost
    BY <1>2, <2>1 DEF TakePages, pages
  <2> QED BY <1>1, <2>1, <2>2, <2>3 DEF Inv
<1>5. CASE out.area # NULL
  <2>1. PICK b \in Nat : /\ out.area = Area(b)
                         /\ Gained(Heap, out.heap, owned \union out.pages, b, size)
                         /\ out.pages = {} \/ \E p \in free : out.pages = {p}
    BY <1>3, <1>5 DEF OutcomeOf
  <2>2. /\ owned' = owned \union out.pages
        /\ free' \subseteq Frames /\ owned' \subseteq Frames /\ free' \intersect owned' = {} /\ lost' = {}
    BY <1>2, <2>1, PagesTaken
  <2>3. Heap' = out.heap
    BY <1>2, <2>1, BecomesIs DEF Gained, Sound
  <2>4. size # 0
    <3>1. size = 0 => out.area = NULL
      BY DEF Outcomes
    <3> QED BY <1>5, <3>1
  <2>5. Good(out.heap, With(held, Area(b), size), owned \union out.pages)
    BY <1>1, <2>1, <2>4, GoodGained
  <2>6. Good(Heap, held, owned)'
    BY <1>2, <1>5, <2>1, <2>2, <2>3, <2>5
  <2> QED BY <1>1, <2>2, <2>6 DEF Inv
<1> QED BY <1>4, <1>5

(* An area in use, its block, and the page they lie in.                      *)
LEMMA AreaOfBlock ==
  ASSUME NEW h, NEW areas, NEW own \in SUBSET Nat, Good(h, areas, own), NEW a \in DOMAIN areas
  PROVE  /\ BlockOf(a) \in Used(h.header) /\ Area(BlockOf(a)) = a
         /\ PageOf(a) = PageOf(BlockOf(a))
<1>1. PICK b \in Used(h.header) : a = Area(b)
  BY DEF Good
<1>2. Sound(h, own) /\ b \in DOMAIN h.header /\ b \in Nat
  BY UsedNat DEF Good
<1>3. BlockOf(a) = b
  BY <1>1, <1>2, AreasDiffer
<1>4. PageOf(a) = PageOf(b)
  <2>1. Within(h.header, b, own) /\ Typed(h.header)
    BY <1>2 DEF Sound, Placed
  <2> DEFINE f == PageOf(b)
             n == h.header[b].size
  <2>2. f \in Nat /\ Start(f) \in Nat /\ Start(f) <= b /\ b + HEADER + n <= Start(f) + PAGE_SIZE /\ n > 0
        /\ n \in Nat
    BY <1>2, <2>1, TypedFields, PagesNat, Starts DEF Within, Ends
  <2> HIDE DEF f, n
  <2>3. a = b + HEADER /\ HEADER \in Nat /\ PAGE_SIZE \in Nat
    BY <1>1, Constants DEF Area
  <2>4. a \in Nat /\ Start(f) <= a /\ a < Start(f) + PAGE_SIZE
    BY <1>2, <2>2, <2>3
  <2>5. PageOf(a) = f
    BY <2>2, <2>4, PageOfIs
  <2> QED BY <2>5 DEF f
<1> QED BY <1>1, <1>3, <1>4

LEMMA KfreeStep ==
  ASSUME Inv, Careful, NEW a \in DOMAIN held, Kfree(a)
  PROVE  Inv'
<1> DEFINE b == BlockOf(a)
           g == Released(Heap, b)
<1>1. /\ started' = started /\ free' = free /\ owned' = owned /\ lost' = lost
      /\ PageOf(a) = PageOf(heap_start) /\ Becomes(g) /\ held' = Without(held, a)
  BY DEF Kfree, pages
<1>2. Good(Heap, held, owned) /\ owned \in SUBSET Nat /\ DOMAIN held # {}
  BY Constants DEF Inv
<1>3. b \in Used(Heap.header) /\ Area(b) = a /\ PageOf(b) = PageOf(Heap.start)
  BY <1>1, <1>2, AreaOfBlock, HeapIs
<1> HIDE DEF b
<1>4. Good(g, Without(held, a), owned)
  BY <1>2, <1>3, GoodLost
<1> HIDE DEF g
<1>5. Heap' = g
  BY <1>1, <1>4, BecomesIs DEF Good, Sound
<1>6. Good(Heap, held, owned)'
  BY <1>1, <1>4, <1>5
<1>7. started # FALSE
  BY <1>3, HeapIs DEF Inv, Used
<1> QED BY <1>1, <1>6, <1>7 DEF Inv


(* krealloc releases only blocks of the first page: those outside it are as  *)
(* large as any size asked for.                                              *)
LEMMA KreallocStep ==
  ASSUME Inv, SmallSizes, NEW a \in DOMAIN held, NEW size \in Sizes, Krealloc(a, size)
  PROVE  Inv'
<1> DEFINE b == BlockOf(a)
<1>1. size > 0 /\ started' = started /\ Good(Heap, held, owned) /\ owned \in SUBSET Nat
  BY Constants DEF Krealloc, Inv
<1>2. b \in Used(Heap.header) /\ Area(b) = a /\ Sound(Heap, owned)
  BY <1>1, AreaOfBlock DEF Good
<1>3. b \in DOMAIN Heap.header /\ b \in Nat /\ Heap.header[b].size \in Nat /\ Heap.header = header
  BY <1>2, UsedNat, TypedFields, HeapIs DEF Sound
<1>4. started # FALSE
  BY <1>3 DEF Inv
<1> HIDE DEF b
<1>5. CASE header[b].size >= size
  <2>1. held' = With(held, a, size) /\ UNCHANGED <<heap, pages>>
    BY <1>5 DEF Krealloc, b
  <2>2. Heap' = Heap /\ free' = free /\ owned' = owned /\ lost' = lost
    BY <2>1 DEF heap, pages, Heap
  <2>3. DOMAIN With(held, a, size) = DOMAIN held
    BY DEF With
  <2>4. ASSUME NEW x \in Used(Heap.header)
        PROVE  /\ With(held, a, size)[Area(x)] \in Sizes \ {0}
               /\ With(held, a, size)[Area(x)] <= Heap.header[x].size
    <3>1. Area(x) \in DOMAIN held /\ held[Area(x)] \in Sizes \ {0} /\ held[Area(x)] <= Heap.header[x].size
      BY <1>1 DEF Good
    <3>2. CASE x = b
      <4>1. With(held, a, size)[Area(x)] = size
        BY <1>2, <3>2 DEF With
      <4>2. size \in Nat /\ size # 0 /\ size <= Heap.header[b].size
        BY <1>1, <1>3, <1>5, Constants
      <4> QED BY <3>2, <4>1, <4>2
    <3>3. CASE x # b
      <4>1. x \in Nat
        BY <1>2, UsedNat
      <4>2. Area(x) # a
        BY <1>2, <1>3, <3>3, <4>1, AreasDiffer
      <4>3. With(held, a, size)[Area(x)] = held[Area(x)]
        BY <3>1, <4>2 DEF With
      <4> QED BY <3>1, <4>3
    <3> QED BY <3>2, <3>3
  <2>5. Good(Heap, With(held, a, size), owned)
    BY <1>1, <2>3, <2>4 DEF Good
  <2>6. Good(Heap, held, owned)'
    BY <2>1, <2>2, <2>5
  <2> QED BY <1>1, <1>4, <2>2, <2>6 DEF Inv
<1>6. CASE ~(header[b].size >= size)
  <2>1. PICK out \in Outcomes(Heap, size) :
          /\ TakePages(out.pages)
          /\ IF out.area = NULL THEN UNCHANGED <<heap, held>>
             ELSE /\ Becomes(Released(out.heap, b))
                  /\ held' = With(Without(held, a), out.area, size)
    BY <1>6 DEF Krealloc, b
  <2>2. OutcomeOf(Heap, owned, out, size)
    BY OutcomesHere
  <2>3. CASE out.area = NULL
    <3>1. out.pages = {} /\ Heap' = Heap /\ held' = held
      BY <2>1, <2>2, <2>3, OutcomeNone DEF heap, Heap
    <3>2. free' = free /\ owned' = owned /\ lost' = lost
      BY <2>1, <3>1 DEF TakePages, pages
    <3> QED BY <1>1, <1>4, <3>1, <3>2 DEF Inv
  <2>4. CASE out.area # NULL
    <3>1. PICK c \in Nat : /\ out.area = Area(c)
                           /\ Gained(Heap, out.heap, owned \union out.pages, c, size)
                           /\ out.pages = {} \/ \E p \in free : out.pages = {p}
      BY <2>2, <2>4 DEF OutcomeOf
    <3>2. /\ owned' = owned \union out.pages
          /\ free' \subseteq Frames /\ owned' \subseteq Frames /\ free' \intersect owned' = {} /\ lost' = {}
      BY <2>1, <3>1, PagesTaken
    <3>3. owned' \in SUBSET Nat
      BY <3>2, Constants
    <3>4. Good(out.heap, With(held, Area(c), size), owned')
      BY <1>1, <3>1, <3>2, GoodGained
    <3>5. b \in Used(out.heap.header) /\ out.heap.start = Heap.start /\ c # b
      BY <1>2, <1>3, <3>1 DEF Gained
    <3>6. PageOf(b) = PageOf(Heap.start)
      <4> SUFFICES ASSUME PageOf(b) # PageOf(Heap.start) PROVE FALSE
        OBVIOUS
      <4>1. Whole(Heap.header, b)
        BY <1>2, <1>3 DEF Sound, Placed
      <4>2. header[b].size = PAGE_SIZE - HEADER
        BY <1>3, <4>1 DEF Whole
      <4>3. size \in Nat /\ Rounded(size) \in Nat /\ Rounded(size) >= size
        BY RoundedUp, Constants
      <4>4. Rounded(size) <= PAGE_SIZE - HEADER
        BY DEF SmallSizes
      <4> DEFINE r == Rounded(size)
                 n == header[b].size
      <4>5. r \in Nat /\ r >= size /\ r <= n /\ n \in Nat
        BY <1>3, <4>2, <4>3, <4>4
      <4>6. ~(n >= size)
        BY <1>6
      <4> HIDE DEF r, n
      <4> QED BY <4>3, <4>5, <4>6
    <3> DEFINE g == Released(out.heap, b)
               more == With(held, Area(c), size)
    <3>7. Good(g, Without(more, Area(b)), owned')
      <4>1. PageOf(b) = PageOf(out.heap.start)
        BY <3>5, <3>6
      <4> HIDE DEF g, more
      <4>2. Good(Released(out.heap, b), Without(more, Area(b)), owned')
        BY <3>3, <3>4, <3>5, <4>1, GoodLost DEF more
      <4> QED BY <4>2 DEF g
    <3>8. Without(more, a) = With(Without(held, a), Area(c), size)
      <4>1. Area(c) # a
        BY <1>2, <1>3, <3>1, <3>5, AreasDiffer
      <4> QED BY <4>1 DEF With, Without
    <3> HIDE DEF g, more
    <3>9. Heap' = g
      BY <2>1, <2>4, <3>7, BecomesIs DEF Good, Sound, g
    <3>10. held' = Without(more, Area(b))
      BY <1>2, <2>1, <2>4, <3>1, <3>8
    <3>11. Good(Heap, held, owned)'
      BY <3>7, <3>9, <3>10
    <3> QED BY <1>1, <1>4, <3>2, <3>11 DEF Inv
  <2> QED BY <2>3, <2>4
<1> QED BY <1>5, <1>6

LEMMA NextInv ==
  ASSUME Inv, Careful, SmallSizes, [Next]_vars
  PROVE  Inv'
<1>1. CASE KmallocInit
  BY <1>1, InitStep
<1>2. ASSUME NEW size \in Sizes, Kmalloc(size) PROVE Inv'
  BY <1>2, KmallocStep
<1>3. ASSUME NEW a \in DOMAIN held, Kfree(a) PROVE Inv'
  BY <1>3, KfreeStep
<1>4. ASSUME NEW a \in DOMAIN held, NEW size \in Sizes, Krealloc(a, size) PROVE Inv'
  BY <1>4, KreallocStep
<1>5. CASE UNCHANGED vars
  BY <1>5 DEF vars, heap, pages, Inv, Heap
<1> QED BY <1>1, <1>2, <1>3, <1>4, <1>5 DEF Next


-----------------------------------------------------------------------------
(* What the invariant says of the properties.                                *)
PageBytes(f) == f * PAGE_SIZE .. (f + 1) * PAGE_SIZE - 1

LEMMA BytesOfPage ==
  ASSUME NEW f \in Nat, NEW x \in Nat, Start(f) <= x, x < Start(f) + PAGE_SIZE
  PROVE  x \in PageBytes(f)
<1>1. /\ Start(f) \in Nat /\ Start(f + 1) = Start(f) + PAGE_SIZE
      /\ Start(f) = f * PAGE_SIZE /\ Start(f + 1) = (f + 1) * PAGE_SIZE /\ PAGE_SIZE \in Nat
  BY Starts, Constants DEF Start
<1> DEFINE m == f * PAGE_SIZE
           k == (f + 1) * PAGE_SIZE
<1>2. m \in Nat /\ k = m + PAGE_SIZE /\ m <= x /\ x < m + PAGE_SIZE /\ PAGE_SIZE \in Nat
  BY <1>1
<1> HIDE DEF m, k
<1>3. x \in m .. k - 1
  BY <1>2
<1> QED BY <1>3 DEF m, k, PageBytes

(* The bytes of a block are bytes of its page.                               *)
LEMMA BlockBytes ==
  ASSUME Inv, NEW b \in DOMAIN header, NEW x \in Nat, b <= x, x < Ends(header, b)
  PROVE  PageOf(b) \in owned /\ x \in PageBytes(PageOf(b))
<1>1. Typed(header) /\ Within(header, b, owned)
  BY HeapIs DEF Inv, Good, Sound, Placed
<1>2. b \in Nat /\ Ends(header, b) \in Nat
  BY <1>1, TypedFields
<1> DEFINE f == PageOf(b)
           e == Ends(header, b)
<1>3. f \in Nat /\ f \in owned /\ Start(f) \in Nat /\ Start(f) <= b /\ e <= Start(f) + PAGE_SIZE
      /\ e \in Nat /\ PAGE_SIZE \in Nat /\ x < e
  BY <1>1, <1>2, PagesNat, Starts, Constants DEF Within
<1> HIDE DEF f, e
<1>4. Start(f) <= x /\ x < Start(f) + PAGE_SIZE
  BY <1>2, <1>3
<1>5. x \in PageBytes(f)
  BY <1>3, <1>4, BytesOfPage
<1> QED BY <1>3, <1>5 DEF f

LEMMA BlockInBytes ==
  ASSUME Inv, NEW b \in DOMAIN header
  PROVE  b \in Bytes /\ Area(b) \in Bytes
<1>1. Typed(header) /\ Within(header, b, owned) /\ owned \subseteq Frames
  BY HeapIs DEF Inv, Good, Sound, Placed
<1> DEFINE n == header[b].size
           e == Ends(header, b)
<1>2. b \in Nat /\ n \in Nat /\ n > 0 /\ HEADER \in Nat /\ HEADER > 0
  BY <1>1, TypedFields, Constants DEF Within
<1>3. e = b + HEADER + n /\ Area(b) = b + HEADER
  BY DEF Ends, Area
<1> HIDE DEF n, e
<1>4. b < e /\ Area(b) \in Nat /\ b <= Area(b) /\ Area(b) < e
  BY <1>2, <1>3
<1>5. PageOf(b) \in owned /\ b \in PageBytes(PageOf(b)) /\ Area(b) \in PageBytes(PageOf(b))
  BY <1>2, <1>4, BlockBytes DEF e
<1> QED BY <1>1, <1>5 DEF Bytes, PageBytes

LEMMA InvTypeOK ==
  ASSUME Inv
  PROVE  TypeOK
<1>1. /\ started \in BOOLEAN /\ Good(Heap, held, owned)
      /\ free \subseteq Frames /\ owned \subseteq Frames /\ lost = {}
  BY DEF Inv
<1>2. Typed(header) /\ Listed(header, heap_start, heap_end)
  BY <1>1, HeapIs DEF Good, Sound
<1>3. DOMAIN header \subseteq Bytes
  BY BlockInBytes
<1>4. \A b \in DOMAIN header : header[b] \in [size : Nat, next : DOMAIN header \union {NULL},
                                             prev : DOMAIN header \union {NULL}, free : BOOLEAN]
  BY <1>2 DEF Typed, Block
<1>5. {heap_start, heap_end} \subseteq Bytes \union {NULL}
  <2>1. Linked(header, heap_start, heap_end)
    BY <1>2, ListLinked
  <2> QED BY <1>3, <2>1 DEF Linked
<1>6. ASSUME NEW a \in DOMAIN held PROVE a \in Bytes /\ held[a] \in Sizes \ {0}
  <2>1. PICK b \in Used(header) : a = Area(b)
    BY <1>1, HeapIs DEF Good
  <2>2. b \in DOMAIN header
    BY DEF Used
  <2>3. held[Area(b)] \in Sizes \ {0}
    BY <1>1, HeapIs DEF Good
  <2> QED BY <2>1, <2>2, <2>3, BlockInBytes
<1> QED BY <1>1, <1>3, <1>4, <1>5, <1>6 DEF TypeOK

(* The list is that of Blocks.                                               *)
LEMMA ListHere ==
  ASSUME Inv
  PROVE  /\ List \in Seq(DOMAIN header) /\ Len(List) \in Nat
         /\ ListIs(header, heap_start, heap_end, List, Len(List))
         /\ \A i \in 1..Len(List) : List[i] \in DOMAIN header
<1>1. Typed(Heap.header) /\ Listed(Heap.header, Heap.start, Heap.end)
  BY DEF Inv, Good, Sound
<1>2. /\ List \in Seq(DOMAIN header)
      /\ ListIs(header, heap_start, heap_end, List, Len(List))
  BY <1>1, HeapIs, BlocksAre DEF List
<1> QED BY <1>2, LenProperties, ElementOfSeq

LEMMA InvListIntact ==
  ASSUME Inv
  PROVE  BlockListIntact
<1> DEFINE n == Len(List)
<1>1. /\ List \in Seq(DOMAIN header) /\ n \in Nat
      /\ \A i \in 1..n : List[i] \in DOMAIN header
      /\ ListIs(header, heap_start, heap_end, List, n)
  BY ListHere
<1> HIDE DEF n
<1>2. /\ \A b \in DOMAIN header : \E i \in 1..n : List[i] = b
      /\ heap_end = IF n = 0 THEN NULL ELSE List[n]
      /\ \A i \in 1..n : header[List[i]].prev = IF i = 1 THEN NULL ELSE List[i - 1]
  BY <1>1 DEF ListIs
<1>3. DOMAIN held = {Area(b) : b \in Used(header)} /\ Used(header) \subseteq DOMAIN header
      /\ DOMAIN header \subseteq Nat
  BY HeapIs, UsedNat DEF Inv, Good
<1>4. heap_end = IF List = <<>> THEN NULL ELSE List[Len(List)]
  <2>1. List = <<>> <=> n = 0
    BY <1>1, EmptySeq DEF n
  <2> QED BY <1>2, <2>1 DEF n
<1>5. ASSUME NEW i \in 1..n PROVE ~header[List[i]].free <=> Area(List[i]) \in DOMAIN held
  <2> DEFINE b == List[i]
  <2>1. b \in DOMAIN header
    BY <1>1
  <2> HIDE DEF b
  <2>2. ~header[b].free <=> b \in Used(header)
    BY <2>1 DEF Used
  <2>3. Area(b) \in DOMAIN held => b \in Used(header)
    <3> SUFFICES ASSUME Area(b) \in DOMAIN held PROVE b \in Used(header)
      OBVIOUS
    <3>1. PICK c \in Used(header) : Area(b) = Area(c)
      BY <1>3
    <3>2. b \in Nat /\ c \in Nat
      BY <1>3, <2>1
    <3> QED BY <3>1, <3>2, AreasDiffer
  <2>4. b \in Used(header) => Area(b) \in DOMAIN held
    BY <1>3
  <2>5. ~header[b].free <=> Area(b) \in DOMAIN held
    BY <2>2, <2>3, <2>4
  <2> QED BY <2>5 DEF b
<1>6. ASSUME NEW a \in DOMAIN held PROVE \E i \in 1..n : a = Area(List[i])
  <2>1. PICK b \in Used(header) : a = Area(b)
    BY <1>3
  <2>2. PICK i \in 1..n : List[i] = b
    BY <1>2, <1>3
  <2> QED BY <2>1, <2>2
<1> QED BY <1>2, <1>4, <1>5, <1>6 DEF BlockListIntact, n

LEMMA ExtentIs ==
  ASSUME Inv, NEW b \in DOMAIN header
  PROVE  Extent(b) = b .. Ends(header, b) - 1
<1>1. Typed(header) /\ Good(Heap, held, owned)
  BY HeapIs DEF Inv, Good, Sound
<1> DEFINE n == header[b].size
           asked == IF Area(b) \in DOMAIN held THEN {held[Area(b)]} ELSE {}
<1>2. b \in Nat /\ n \in Nat
  BY <1>1, TypedFields
<1>3. \A m \in asked : m \in Nat /\ m <= n
  <2>1. CASE Area(b) \in DOMAIN held
    <3>1. BlockOf(Area(b)) \in Used(header) /\ owned \in SUBSET Nat
      BY <1>1, <2>1, AreaOfBlock, HeapIs, Constants DEF Inv
    <3>2. b \in Used(header)
      BY <1>2, <3>1, AreasDiffer
    <3>3. held[Area(b)] \in Sizes \ {0} /\ held[Area(b)] <= n
      BY <1>1, <3>2, HeapIs DEF Good
    <3> QED BY <2>1, <3>3, Constants
  <2>2. CASE Area(b) \notin DOMAIN held
    BY <2>2
  <2> QED BY <2>1, <2>2
<1> HIDE DEF asked
<1>4. Max({n} \union asked) = n
  <2> DEFINE T == {n} \union asked
  <2>1. n \in T /\ \A y \in T : n >= y
    BY <1>2, <1>3
  <2>2. \A x \in T : (\A y \in T : x >= y) => x = n
    BY <1>2, <1>3
  <2>3. Max(T) = CHOOSE x \in T : \A y \in T : x >= y
    BY DEF Max
  <2> HIDE DEF T
  <2>4. Max(T) = n
    BY <2>1, <2>2, <2>3
  <2> QED BY <2>4 DEF T
<1>5. Extent(b) = b .. (b + HEADER + Max({n} \union asked) - 1)
  BY DEF Extent, asked
<1>6. Extent(b) = b .. (b + HEADER + n - 1) /\ Ends(header, b) = b + HEADER + n
  BY <1>4, <1>5 DEF Ends
<1> DEFINE e == Ends(header, b)
<1>7. Extent(b) = b .. (b + HEADER + n - 1) /\ e = b + HEADER + n
  BY <1>6
<1> HIDE DEF e, n
<1>8. Extent(b) = b .. e - 1
  <2>1. b \in Nat /\ n \in Nat /\ HEADER \in Nat
    BY <1>2, Constants
  <2>2. b + HEADER + n - 1 = e - 1
    BY <1>7, <2>1
  <2> QED BY <1>7, <2>1, <2>2
<1> QED BY <1>8 DEF e

LEMMA InvAreasApart ==
  ASSUME Inv
  PROVE  AreasApart
<1> DEFINE n == Len(List)
<1>1. /\ n \in Nat /\ \A i \in 1..n : List[i] \in DOMAIN header
      /\ \A i, j \in 1..n : List[i] = List[j] => i = j
  BY ListHere DEF ListIs
<1> HIDE DEF n
<1>2. Typed(header) /\ Placed(header, PageOf(heap_start), owned)
  BY HeapIs DEF Inv, Good, Sound
<1>3. ASSUME NEW i \in 1..n, NEW j \in 1..n, i < j
      PROVE  Extent(List[i]) \intersect Extent(List[j]) = {}
  <2> DEFINE b == List[i]
             c == List[j]
  <2>1. b \in DOMAIN header /\ c \in DOMAIN header /\ b # c
    BY <1>1, <1>3
  <2> HIDE DEF b, c
  <2>2. Before(header, b, c) \/ Before(header, c, b)
    BY <1>2, <2>1 DEF Placed
  <2>3. b \in Nat /\ c \in Nat /\ Ends(header, b) \in Nat /\ Ends(header, c) \in Nat
    BY <1>2, <2>1, TypedFields
  <2>4. Extent(b) = b .. Ends(header, b) - 1 /\ Extent(c) = c .. Ends(header, c) - 1
    BY <2>1, ExtentIs
  <2>5. Extent(b) \intersect Extent(c) = {}
    BY <2>2, <2>3, <2>4 DEF Before
  <2> QED BY <2>5 DEF b, c
<1>4. ASSUME NEW i \in 1..n
      PROVE  Extent(List[i]) \subseteq UNION {f * PAGE_SIZE .. (f + 1) * PAGE_SIZE - 1 : f \in owned}
  <2> DEFINE b == List[i]
  <2>1. b \in DOMAIN header
    BY <1>1
  <2> HIDE DEF b
  <2>2. Extent(b) = b .. Ends(header, b) - 1 /\ b \in Nat /\ Ends(header, b) \in Nat
    BY <1>2, <2>1, ExtentIs, TypedFields
  <2>3. ASSUME NEW x \in Extent(b) PROVE x \in UNION {f * PAGE_SIZE .. (f + 1) * PAGE_SIZE - 1 : f \in owned}
    <3>1. x \in Nat /\ b <= x /\ x < Ends(header, b)
      BY <2>2
    <3>2. PageOf(b) \in owned /\ x \in PageBytes(PageOf(b))
      BY <2>1, <3>1, BlockBytes
    <3> QED BY <3>2 DEF PageBytes
  <2> QED BY <2>3 DEF b
<1> QED BY <1>3, <1>4 DEF AreasApart, n

LEMMA SpecInv ==
  ASSUME Careful, SmallSizes
  PROVE  Spec => []Inv
<1>1. Inv /\ [Next]_vars => Inv'
  BY NextInv
<1> QED BY <1>1, StartInv, PTL DEF Spec

(* Every variable keeps to its values in every state the program can reach,  *)
(* as long as callers ask for no more than fits into a page, and free areas  *)
(* of the first page only.                                                   *)
THEOREM KmallocTypeOK ==
  ASSUME Careful, SmallSizes
  PROVE  Spec => []TypeOK
<1>1. Inv => TypeOK
  BY InvTypeOK
<1> QED BY <1>1, SpecInv, PTL

(* Under the same assumptions, kmalloc, kfree and krealloc keep the list of  *)
(* blocks whole in both directions, and a block is marked as used exactly    *)
(* when its area is in use.                                                  *)
THEOREM KmallocBlockListIntact ==
  ASSUME Careful, SmallSizes
  PROVE  Spec => []BlockListIntact
<1>1. Inv => BlockListIntact
  BY InvListIntact
<1> QED BY <1>1, SpecInv, PTL

(* Under the same assumptions, no area reaches into another one, into a      *)
(* header or out of the pages of the heap, for every order of calls.         *)
THEOREM KmallocAreasApart ==
  ASSUME Careful, SmallSizes
  PROVE  Spec => []AreasApart
<1>1. Inv => AreasApart
  BY InvAreasApart
<1> QED BY <1>1, SpecInv, PTL

(* A sum over a finite set is the number of elements of a union of sets that *)
(* are as large as the summands and have nothing in common.                  *)
Some(s) == CHOOSE x \in s : TRUE

IsSum(sum, w, S) ==
  sum = [s \in SUBSET S |-> IF s = {} THEN 0 ELSE w[Some(s)] + sum[s \ {Some(s)}]]

Parts(C, w, S) ==
  /\ \A i \in S : w[i] \in Nat /\ IsFiniteSet(C[i]) /\ Cardinality(C[i]) = w[i]
  /\ \A i, j \in S : i # j => C[i] \intersect C[j] = {}

Joined(C, s) == UNION {C[i] : i \in s}

LEMMA JoinedMore ==
  ASSUME NEW S, NEW C, NEW w, Parts(C, w, S), NEW s \in SUBSET S, NEW x \in s,
         IsFiniteSet(Joined(C, s \ {x}))
  PROVE  /\ IsFiniteSet(Joined(C, s))
         /\ Cardinality(Joined(C, s)) = w[x] + Cardinality(Joined(C, s \ {x}))
<1>1. Joined(C, s) = C[x] \union Joined(C, s \ {x})
  BY DEF Joined
<1>2. C[x] \intersect Joined(C, s \ {x}) = {}
  BY DEF Joined, Parts
<1>3. IsFiniteSet(C[x]) /\ Cardinality(C[x]) = w[x] /\ w[x] \in Nat
  BY DEF Parts
<1>4. Cardinality({}) = 0
  BY FS_EmptySet
<1>5. /\ IsFiniteSet(Joined(C, s))
      /\ Cardinality(Joined(C, s)) = Cardinality(C[x]) + Cardinality(Joined(C, s \ {x})) - Cardinality({})
  <2> DEFINE A == C[x]
             B == Joined(C, s \ {x})
  <2>1. IsFiniteSet(A) /\ IsFiniteSet(B) /\ A \intersect B = {} /\ Joined(C, s) = A \union B
    BY <1>1, <1>2, <1>3
  <2> HIDE DEF A, B
  <2>2. /\ IsFiniteSet(A \union B)
        /\ Cardinality(A \union B) = Cardinality(A) + Cardinality(B) - Cardinality(A \intersect B)
    BY <2>1, FS_Union
  <2> QED BY <2>1, <2>2 DEF A, B
<1>6. Cardinality(Joined(C, s \ {x})) \in Nat
  BY FS_CardinalityType
<1> QED BY <1>3, <1>4, <1>5, <1>6

LEMMA JoinedFinite ==
  ASSUME NEW S, IsFiniteSet(S), NEW C, NEW w, Parts(C, w, S), NEW s \in SUBSET S
  PROVE  IsFiniteSet(Joined(C, s))
<1> DEFINE N == {n \in Nat : \A t \in SUBSET S : Cardinality(t) = n => IsFiniteSet(Joined(C, t))}
<1>1. \A t \in SUBSET S : IsFiniteSet(t) /\ Cardinality(t) \in Nat
  BY FS_Subset, FS_CardinalityType
<1>2. 0 \in N
  <2>1. ASSUME NEW t \in SUBSET S, Cardinality(t) = 0 PROVE IsFiniteSet(Joined(C, t))
    <3>1. t = {}
      BY <1>1, <2>1, FS_EmptySet
    <3>2. Joined(C, t) = {}
      BY <3>1 DEF Joined
    <3> QED BY <3>2, FS_EmptySet
  <2> QED BY <2>1
<1>3. ASSUME NEW n \in N PROVE n + 1 \in N
  <2>1. ASSUME NEW t \in SUBSET S, Cardinality(t) = n + 1 PROVE IsFiniteSet(Joined(C, t))
    <3>1. t # {}
      <4>1. n \in Nat /\ n + 1 # 0
        OBVIOUS
      <4> QED BY <2>1, <4>1, FS_EmptySet
    <3>2. PICK x \in t : TRUE
      BY <3>1
    <3>3. Cardinality(t \ {x}) = n /\ t \ {x} \in SUBSET S
      BY <1>1, <2>1, <3>2, FS_RemoveElement
    <3>4. IsFiniteSet(Joined(C, t \ {x}))
      BY <3>3
    <3> QED BY <3>2, <3>4, JoinedMore
  <2> QED BY <2>1
<1>4. N = Nat
  <2>1. N \in SUBSET Nat
    OBVIOUS
  <2> HIDE DEF N
  <2> QED BY <1>2, <1>3, <2>1, SetInduction
<1> QED BY <1>1, <1>4

LEMMA SumExists ==
  ASSUME NEW S, IsFiniteSet(S), NEW C, NEW w, Parts(C, w, S)
  PROVE  \E sum : IsSum(sum, w, S)
<1> DEFINE sum == [s \in SUBSET S |-> Cardinality(Joined(C, s))]
<1>1. ASSUME NEW s \in SUBSET S
      PROVE  Cardinality(Joined(C, s)) = IF s = {} THEN 0 ELSE w[Some(s)] + sum[s \ {Some(s)}]
  <2>1. CASE s = {}
    <3>1. Joined(C, s) = {}
      BY <2>1 DEF Joined
    <3> QED BY <2>1, <3>1, FS_EmptySet
  <2>2. CASE s # {}
    <3>1. Some(s) \in s
      BY <2>2 DEF Some
    <3>2. s \ {Some(s)} \in SUBSET S
      OBVIOUS
    <3>3. Cardinality(Joined(C, s)) = w[Some(s)] + Cardinality(Joined(C, s \ {Some(s)}))
      BY <3>1, <3>2, JoinedMore, JoinedFinite
    <3> QED BY <2>2, <3>2, <3>3
  <2> QED BY <2>1, <2>2
<1>2. IsSum(sum, w, S)
  BY <1>1 DEF IsSum
<1> QED BY <1>2

LEMMA SumIs ==
  ASSUME NEW S, IsFiniteSet(S), NEW C, NEW w, Parts(C, w, S), NEW sum, IsSum(sum, w, S)
  PROVE  sum[S] = Cardinality(Joined(C, S))
<1> DEFINE N == {n \in Nat : \A t \in SUBSET S : Cardinality(t) = n => sum[t] = Cardinality(Joined(C, t))}
<1>1. \A t \in SUBSET S : IsFiniteSet(t) /\ Cardinality(t) \in Nat
  BY FS_Subset, FS_CardinalityType
<1>2. \A t \in SUBSET S : sum[t] = IF t = {} THEN 0 ELSE w[Some(t)] + sum[t \ {Some(t)}]
  BY DEF IsSum
<1>3. 0 \in N
  <2>1. ASSUME NEW t \in SUBSET S, Cardinality(t) = 0 PROVE sum[t] = Cardinality(Joined(C, t))
    <3>1. t = {}
      BY <1>1, <2>1, FS_EmptySet
    <3>2. Joined(C, t) = {}
      BY <3>1 DEF Joined
    <3>3. sum[t] = 0
      BY <1>2, <3>1
    <3> QED BY <3>2, <3>3, FS_EmptySet
  <2> QED BY <2>1
<1>4. ASSUME NEW n \in N PROVE n + 1 \in N
  <2>1. ASSUME NEW t \in SUBSET S, Cardinality(t) = n + 1 PROVE sum[t] = Cardinality(Joined(C, t))
    <3> DEFINE x == Some(t)
    <3>1. t # {} /\ x \in t
      <4>1. t # {}
        <5>1. n \in Nat /\ n + 1 # 0
          OBVIOUS
        <5> QED BY <2>1, <5>1, FS_EmptySet
      <4> QED BY <4>1 DEF Some
    <3> HIDE DEF x
    <3>2. Cardinality(t \ {x}) = n /\ t \ {x} \in SUBSET S
      BY <1>1, <2>1, <3>1, FS_RemoveElement
    <3>3. sum[t \ {x}] = Cardinality(Joined(C, t \ {x}))
      BY <3>2
    <3>4. IsFiniteSet(Joined(C, t \ {x}))
      BY <3>2, JoinedFinite
    <3>5. Cardinality(Joined(C, t)) = w[x] + Cardinality(Joined(C, t \ {x}))
      BY <3>1, <3>4, JoinedMore
    <3>6. sum[t] = w[x] + sum[t \ {x}]
      BY <1>2, <3>1 DEF x
    <3> QED BY <3>3, <3>5, <3>6
  <2> QED BY <2>1
<1>5. N = Nat
  <2>1. N \in SUBSET Nat
    OBVIOUS
  <2> HIDE DEF N
  <2> QED BY <1>3, <1>4, <2>1, SetInduction
<1> QED BY <1>1, <1>5

(* The bytes of the blocks are the bytes of the pages.                       *)
PageBytesOf(own) == {x \in Nat : \E f \in own : Start(f) <= x /\ x < Start(f) + PAGE_SIZE}

LEMMA BytesCounted ==
  ASSUME NEW own \in SUBSET Nat, IsFiniteSet(own)
  PROVE  Cardinality(PageBytesOf(own)) = Cardinality(own) * PAGE_SIZE
<1> DEFINE O == 0 .. PAGE_SIZE - 1
           T == own \X O
           B == PageBytesOf(own)
           at == [t \in T |-> Start(t[1]) + t[2]]
<1>1. PAGE_SIZE \in Nat /\ PAGE_SIZE > 0 /\ \A f \in own : f \in Nat /\ Start(f) \in Nat
  BY Constants, Starts
<1>2. IsFiniteSet(O) /\ Cardinality(O) = PAGE_SIZE
  BY <1>1, FS_Interval
<1>3. IsFiniteSet(T) /\ Cardinality(T) = Cardinality(own) * PAGE_SIZE
  BY <1>2, FS_Product
<1>4. at \in [T -> B]
  <2> SUFFICES ASSUME NEW f \in own, NEW o \in O PROVE Start(f) + o \in B
    OBVIOUS
  <2> QED BY <1>1 DEF PageBytesOf
<1>5. ASSUME NEW b \in B PROVE \E t \in T : at[t] = b
  <2>1. PICK f \in own : Start(f) <= b /\ b < Start(f) + PAGE_SIZE
    BY DEF PageBytesOf
  <2>2. b - Start(f) \in O /\ b \in Nat
    BY <1>1, <2>1 DEF PageBytesOf
  <2>3. <<f, b - Start(f)>> \in T /\ at[<<f, b - Start(f)>>] = Start(f) + (b - Start(f))
    BY <2>2
  <2> QED BY <1>1, <2>2, <2>3
<1>6. ASSUME NEW t \in T, NEW u \in T, at[t] = at[u] PROVE t = u
  <2> DEFINE f == t[1]
             o == t[2]
             g == u[1]
             q == u[2]
  <2>1. f \in own /\ o \in O /\ t = <<f, o>>
    OBVIOUS
  <2>2. g \in own /\ q \in O /\ u = <<g, q>>
    OBVIOUS
  <2>3. Start(f) + o = Start(g) + q
    BY <1>6, <2>1, <2>2
  <2> HIDE DEF f, o, g, q
  <2>4. ~(f < g) /\ ~(g < f)
    BY <1>1, <2>1, <2>2, <2>3, StartsApart
  <2>5. f = g
    BY <1>1, <2>1, <2>2, <2>4
  <2> QED BY <1>1, <2>1, <2>2, <2>3, <2>5
<1> HIDE DEF at, T, B
<1>7. at \in Bijection(T, B)
  BY <1>4, <1>5, <1>6, Fun_IsBij
<1> QED BY <1>3, <1>7, FS_Bijection, Fun_ExistsBij DEF B

LEMMA InvSpaceKept ==
  ASSUME Inv, IsFiniteSet(Frames)
  PROVE  SpaceKept
<1> DEFINE n == Len(List)
           I == 1..n
           w == [i \in I |-> HEADER + header[List[i]].size]
           C == [i \in I |-> List[i] .. Ends(header, List[i]) - 1]
           step1(sum) == [s \in SUBSET I |-> IF s = {} THEN 0
                            ELSE (HEADER + header[List[Some(s)]].size) + sum[s \ {Some(s)}]]
           step2(sum) == [s \in SUBSET I |-> IF s = {} THEN 0 ELSE w[Some(s)] + sum[s \ {Some(s)}]]
           total == MapThenSumSet(LAMBDA i : HEADER + header[List[i]].size, I)
<1>1. /\ n \in Nat /\ \A i \in I : List[i] \in DOMAIN header
      /\ \A i, j \in I : List[i] = List[j] => i = j
      /\ \A b \in DOMAIN header : \E i \in I : List[i] = b
      /\ \A i \in I : header[List[i]].next = IF i = n THEN NULL ELSE List[i + 1]
  BY ListHere DEF ListIs
<1>2. /\ Typed(header) /\ Placed(header, PageOf(heap_start), owned) /\ Covers(header, owned)
      /\ \A x \in DOMAIN header : Alone(header, x)
      /\ owned \subseteq Frames /\ owned \in SUBSET Nat
  BY HeapIs, Constants DEF Inv, Good, Sound, Tight
<1>3. IsFiniteSet(I) /\ IsFiniteSet(owned)
  <2>1. n \in Nat /\ 1 \in Int /\ n \in Int
    BY <1>1
  <2> HIDE DEF n
  <2>2. IsFiniteSet(I)
    BY <2>1, FS_Interval
  <2>3. IsFiniteSet(owned)
    BY <1>2, FS_Subset
  <2> QED BY <2>2, <2>3
<1>4. Parts(C, w, I)
  <2>1. ASSUME NEW i \in I
        PROVE  w[i] \in Nat /\ IsFiniteSet(C[i]) /\ Cardinality(C[i]) = w[i]
    <3> DEFINE b == List[i]
               m == header[b].size
    <3>1. b \in DOMAIN header
      BY <1>1
    <3>2. b \in Nat /\ m \in Nat /\ HEADER \in Nat /\ HEADER > 0
      BY <1>2, <3>1, TypedFields, Constants
    <3>3. w[i] = HEADER + m /\ C[i] = b .. (b + HEADER + m) - 1
      BY DEF Ends
    <3> HIDE DEF b, m, w, C
    <3> QED BY <3>2, <3>3, FS_Interval
  <2>2. ASSUME NEW i \in I, NEW j \in I, i # j PROVE C[i] \intersect C[j] = {}
    <3> DEFINE b == List[i]
               c == List[j]
    <3>1. b \in DOMAIN header /\ c \in DOMAIN header /\ b # c
      BY <1>1, <2>2
    <3>2. C[i] = b .. Ends(header, b) - 1 /\ C[j] = c .. Ends(header, c) - 1
      OBVIOUS
    <3> HIDE DEF b, c, C
    <3>3. Before(header, b, c) \/ Before(header, c, b)
      BY <1>2, <3>1 DEF Placed
    <3>4. b \in Nat /\ c \in Nat /\ Ends(header, b) \in Nat /\ Ends(header, c) \in Nat
      BY <1>2, <3>1, TypedFields
    <3> QED BY <3>2, <3>3, <3>4 DEF Before
  <2> HIDE DEF C, w
  <2> QED BY <2>1, <2>2 DEF Parts
<1>5. Joined(C, I) = PageBytesOf(owned)
  <2>1. ASSUME NEW x \in Joined(C, I) PROVE x \in PageBytesOf(owned)
    <3>1. PICK i \in I : x \in C[i]
      BY DEF Joined
    <3> DEFINE b == List[i]
    <3>2. b \in DOMAIN header /\ C[i] = b .. Ends(header, b) - 1
      BY <1>1
    <3> HIDE DEF b, C
    <3>3. b \in Nat /\ Ends(header, b) \in Nat
      BY <1>2, <3>2, TypedFields
    <3>4. x \in Nat /\ b <= x /\ x < Ends(header, b)
      BY <3>1, <3>2, <3>3
    <3>5. Within(header, b, owned)
      BY <1>2, <3>2 DEF Placed
    <3>6. PageOf(b) \in owned /\ Start(PageOf(b)) <= x /\ x < Start(PageOf(b)) + PAGE_SIZE
      <4>1. PageOf(b) \in Nat /\ Start(PageOf(b)) \in Nat /\ PAGE_SIZE \in Nat
        BY <3>3, PagesNat, Starts, Constants
      <4> QED BY <3>3, <3>4, <3>5, <4>1 DEF Within
    <3> QED BY <3>4, <3>6 DEF PageBytesOf
  <2>2. ASSUME NEW x \in PageBytesOf(owned) PROVE x \in Joined(C, I)
    <3>1. PICK f \in owned : Start(f) <= x /\ x < Start(f) + PAGE_SIZE
      BY DEF PageBytesOf
    <3>2. x \in Nat
      BY DEF PageBytesOf
    <3>3. PICK b \in DOMAIN header : b <= x /\ x < Ends(header, b)
      BY <1>2, <3>1, <3>2 DEF Covers
    <3>4. PICK i \in I : List[i] = b
      BY <1>1
    <3>5. C[i] = b .. Ends(header, b) - 1
      BY <3>4
    <3>6. b \in Nat /\ Ends(header, b) \in Nat
      BY <1>2, TypedFields
    <3> HIDE DEF C
    <3>7. x \in C[i]
      BY <3>2, <3>3, <3>5, <3>6
    <3> QED BY <3>7 DEF Joined
  <2> QED BY <2>1, <2>2
<1>6. total = Cardinality(owned) * PAGE_SIZE
  <2>1. total = (CHOOSE sum : sum = step1(sum))[I]
    BY DEF MapThenSumSet, MapThenFoldSet, Some
  <2>2. ASSUME NEW sum PROVE step1(sum) = step2(sum)
    <3>1. \A s \in SUBSET I : s # {} => Some(s) \in I
      BY DEF Some
    <3>2. \A i \in I : w[i] = HEADER + header[List[i]].size
      OBVIOUS
    <3> HIDE DEF w, I
    <3> QED BY <3>1, <3>2
  <2>3. \A sum : IsSum(sum, w, I) <=> sum = step2(sum)
    BY DEF IsSum
  <2> HIDE DEF step1, step2, total, w, C, I
  <2>4. \E sum : IsSum(sum, w, I)
    BY <1>3, <1>4, SumExists
  <2>5. \A sum : IsSum(sum, w, I) <=> sum = step1(sum)
    BY <2>2, <2>3
  <2> DEFINE sum == CHOOSE sum : sum = step1(sum)
  <2>6. IsSum(sum, w, I)
    BY <2>4, <2>5
  <2> HIDE DEF sum
  <2>7. sum[I] = Cardinality(Joined(C, I))
    BY <1>3, <1>4, <2>6, SumIs
  <2>8. total = sum[I]
    BY <2>1 DEF sum
  <2>9. Cardinality(PageBytesOf(owned)) = Cardinality(owned) * PAGE_SIZE
    BY <1>2, <1>3, BytesCounted
  <2> QED BY <1>5, <2>7, <2>8, <2>9
<1>7. Cardinality(owned) * PAGE_SIZE = PAGE_SIZE * Cardinality(owned)
  BY <1>3, FS_CardinalityType, Constants
<1>8. ASSUME NEW i \in 2..n PROVE ~(header[List[i - 1]].free /\ header[List[i]].free)
  <2>1. i - 1 \in I /\ i - 1 # n /\ (i - 1) + 1 = i /\ i \in I
    BY <1>1
  <2>2. header[List[i - 1]].next = List[i] /\ List[i - 1] \in DOMAIN header /\ List[i] \in DOMAIN header
    BY <1>1, <2>1
  <2>3. List[i] # NULL
    BY <1>2, <2>2, TypedFields
  <2>4. Alone(header, List[i - 1])
    BY <1>2, <2>2
  <2> QED BY <2>2, <2>3, <2>4 DEF Alone
<1> HIDE DEF total
<1>9. total = PAGE_SIZE * Cardinality(owned)
  BY <1>6, <1>7
<1> QED BY <1>8, <1>9 DEF SpaceKept, total

(* Under the same assumptions, and with finitely many pages, no call loses   *)
(* space: the blocks add up to the pages the heap has taken, and what is     *)
(* freed next to a free block joins it.                                      *)
THEOREM KmallocSpaceKept ==
  ASSUME Careful, SmallSizes, IsFiniteSet(Frames)
  PROVE  Spec => []SpaceKept
<1>1. Inv => SpaceKept
  BY InvSpaceKept
<1> QED BY <1>1, SpecInv, PTL
=============================================================================
