------------------------------ MODULE PmmProofs ------------------------------
(***************************************************************************)
(* Proofs about the physical page allocator, for any machine size, memory  *)
(* maps and page contents.                                                 *)
(***************************************************************************)
EXTENDS Pmm, FiniteSetTheorems, TLAPS

(* The pages queued for pmm_init's inner loop lie inside the entry it just   *)
(* counted: what makes each of them fresh when it is pushed.                 *)
LoopInside ==
  at < stop => /\ entry > 1
               /\ at..(stop - 1) \subseteq EntryFrames(mmap[entry - 1])

IInv == TypeOK /\ FreeListIntact /\ PagesAccounted /\ LoopInside

-----------------------------------------------------------------------------
(* Facts about sequences: a head put in front of one, and its tail.          *)
LEMMA ConsSeq ==
  ASSUME NEW S, NEW s \in Seq(S), NEW e \in S
  PROVE  /\ <<e>> \o s \in Seq(S)
         /\ Len(<<e>> \o s) = Len(s) + 1
         /\ (<<e>> \o s)[1] = e
         /\ \A i \in 1..Len(s) : (<<e>> \o s)[i + 1] = s[i]
  OBVIOUS

(* A non-empty sequence without its head: one shorter, each element one      *)
(* down.                                                                     *)
LEMMA TailSeq ==
  ASSUME NEW S, NEW s \in Seq(S), s # <<>>
  PROVE  /\ Tail(s) \in Seq(S)
         /\ Len(Tail(s)) = Len(s) - 1
         /\ Len(s) \in Nat \ {0}
         /\ s[1] \in S
         /\ \A i \in 1..(Len(s) - 1) : Tail(s)[i] = s[i + 1]
  OBVIOUS

(* Rounding gives page numbers.                                              *)
LEMMA DivNat ==
  ASSUME NEW a \in Nat, NEW b \in Nat \ {0}
  PROVE  a \div b \in Nat
  OBVIOUS

(* The number of the last page frame is a natural number.                    *)
LEMMA LastFrameNat == LastFrame \in Nat
  BY PmmAssumption

(* Arithmetic of the counters, stated over constants: the next-state values  *)
(* are substituted for them.                                                 *)
LEMMA NatDiff ==
  ASSUME NEW a \in Nat, NEW b \in Nat, a <= b
  PROVE  b - a \in Nat
  OBVIOUS

(* A sum of natural numbers is one.                                          *)
LEMMA NatSum ==
  ASSUME NEW a \in Nat, NEW b \in Nat
  PROVE  a + b \in Nat
  OBVIOUS

(* A page counted on one side of a sum is counted in the sum.                *)
LEMMA OneMore ==
  ASSUME NEW n \in Nat, NEW m \in Nat, NEW n1, NEW m1, n1 = n + 1, m1 = m
  PROVE  n1 \in Nat /\ m1 \in Nat /\ n1 + m1 = n + m + 1
  OBVIOUS

(* A page that leaves the inner loop of pmm_init for the list stays counted. *)
LEMMA PageCounted ==
  ASSUME NEW n \in Nat, NEW m \in Nat, NEW n1 \in Nat, NEW m1 \in Nat,
         NEW a \in Nat, NEW s \in Nat, n1 + m1 = n + m + 1
  PROVE  n + m + (s - a) = n1 + m1 + (s - (a + 1))
  OBVIOUS

(* A usable entry of the memory map starts and ends on the machine.          *)
LEMMA EntryBounds ==
  ASSUME NEW m \in MemoryMaps, NEW i \in 1..Len(m)
  PROVE  /\ m[i] \in Entry
         /\ FirstFrame(m[i]) \in Nat
         /\ EndFrame(m[i]) \in 0..(LastFrame + 1)
         /\ EntryFrames(m[i]) = IF UsableEntry(m[i])
                                  THEN FirstFrame(m[i])..(EndFrame(m[i]) - 1) ELSE {}
<1>1. m[i] \in Entry
  BY PmmAssumption
<1>2. FirstFrame(m[i]) \in Nat
  <2>1. m[i].start + PAGE_SIZE - 1 \in Nat
    BY <1>1, PmmAssumption DEF Entry
  <2>2. QED
    BY <2>1, DivNat, PmmAssumption DEF FirstFrame
<1>3. EndFrame(m[i]) \in Nat
  <2>1. m[i].end \in Nat
    BY <1>1 DEF Entry
  <2>2. QED
    BY <2>1, DivNat, PmmAssumption DEF EndFrame
<1>4. EndFrame(m[i]) \in 0..(LastFrame + 1)
  <2>1. EndFrame(m[i]) <= LastFrame + 1
    BY PmmAssumption
  <2>2. QED
    BY <1>3, <2>1, PmmAssumption
<1>5. EntryFrames(m[i]) = IF UsableEntry(m[i])
                            THEN FirstFrame(m[i])..(EndFrame(m[i]) - 1) ELSE {}
  BY <1>2, <1>4, PmmAssumption DEF EntryFrames, UsableEntry, Frames
<1>6. QED
  BY <1>1, <1>2, <1>4, <1>5

-----------------------------------------------------------------------------
(* PushPage, used by pmm_init and by pmm_free_page, on a page that is on no  *)
(* list: the list stays intact and gains the page, unless it is page 0.      *)
LEMMA PushKeepsList ==
  ASSUME TypeOK, FreeListIntact, PagesAccounted,
         NEW p \in Frames, p \notin ListPages, PushPage(p)
  PROVE  /\ page' \in [Frames -> Header]
         /\ free_list' \in Frames
         /\ chain' \in Seq(Frames \ {NULL})
         /\ FreeListIntact'
         /\ ListPages' = IF p = NULL THEN {} ELSE ListPages \union {p}
         /\ lost' = IF p = NULL THEN lost \union ListPages \union {p} ELSE lost
         /\ \A i, j \in 1..Len(chain') : chain'[i] = chain'[j] => i = j
<1> DEFINE node == [next |-> free_list, prev |-> NULL, flags |-> 0]
<1>1. NULL \in Frames /\ node \in Header
  BY PmmAssumption DEF TypeOK, Frames, NULL, Header
<1>2. page' \in [Frames -> Header] /\ free_list' = p
  <2>1. [page EXCEPT ![p] = node] \in [Frames -> Header]
    BY <1>1 DEF TypeOK
  <2>2. \A f \in [Frames -> Header] : [f EXCEPT ![free_list].prev = p] \in [Frames -> Header]
    BY DEF TypeOK, Header
  <2>3. QED
    BY <2>1, <2>2 DEF PushPage
<1>3. CASE p = NULL
  <2>1. chain' = <<>> /\ lost' = lost \union ListPages \union {p}
    BY <1>3 DEF PushPage
  <2>2. ListPages' = {} /\ Len(chain') = 0
    BY <2>1 DEF ListPages
  <2>3. FreeListIntact'
    BY <1>2, <1>3, <2>1, <2>2 DEF FreeListIntact
  <2>4. QED
    BY <1>2, <1>3, <2>1, <2>2, <2>3
<1>4. CASE p # NULL
  <2>1. chain' = <<p>> \o chain /\ lost' = lost
    BY <1>4 DEF PushPage
  <2>2. /\ chain \in Seq(Frames \ {NULL})
        /\ p \in Frames \ {NULL}
    BY <1>4 DEF TypeOK
  <2>3. /\ chain' \in Seq(Frames \ {NULL})
        /\ Len(chain') = Len(chain) + 1
        /\ Len(chain) \in Nat
        /\ chain'[1] = p
        /\ \A k \in 1..Len(chain) : chain'[k + 1] = chain[k]
    BY <2>1, <2>2, ConsSeq
  <2>4. ListPages' = ListPages \union {p}
    <3>1. ASSUME NEW i \in 1..Len(chain') PROVE chain'[i] \in ListPages \union {p}
      <4>1. CASE i = 1
        BY <4>1, <2>3
      <4>2. CASE i # 1
        <5>1. PICK k \in 1..Len(chain) : i = k + 1
          BY <4>2, <2>3
        <5>2. QED
          BY <5>1, <2>3 DEF ListPages
      <4>3. QED
        BY <4>1, <4>2
    <3>2. ASSUME NEW k \in 1..Len(chain) PROVE chain[k] \in ListPages'
      <4>1. PICK i \in 1..Len(chain') : i = k + 1
        BY <2>3
      <4>2. QED
        BY <4>1, <2>3 DEF ListPages
    <3>3. p \in ListPages'
      <4>1. PICK i \in 1..Len(chain') : i = 1
        BY <2>3
      <4>2. QED
        BY <4>1, <2>3 DEF ListPages
    <3>4. ListPages' \subseteq ListPages \union {p}
      BY <3>1 DEF ListPages
    <3>5. ListPages \subseteq ListPages'
      BY <3>2 DEF ListPages
    <3>6. QED
      BY <3>3, <3>4, <3>5
  <2>5. \A i, j \in 1..Len(chain') : chain'[i] = chain'[j] => i = j
    <3>1. \A i \in 1..Len(chain) : chain[i] # p
      BY DEF ListPages
    <3>2. \A i, j \in 1..Len(chain) : chain[i] = chain[j] => i = j
      BY DEF PagesAccounted
    <3>3. SUFFICES ASSUME NEW i \in 1..Len(chain'), NEW j \in 1..Len(chain'),
                          chain'[i] = chain'[j], i # 1, j # 1
                   PROVE  i = j
      <4>1. ASSUME NEW i \in 1..Len(chain'), i # 1 PROVE chain'[i] # p
        <5>1. PICK k \in 1..Len(chain) : i = k + 1
          BY <4>1, <2>3
        <5>2. QED
          BY <5>1, <2>3, <3>1
      <4>2. QED
        BY <4>1, <2>3
    <3>4. PICK k \in 1..Len(chain) : i = k + 1
      BY <3>3, <2>3
    <3>5. PICK l \in 1..Len(chain) : j = l + 1
      BY <3>3, <2>3
    <3>6. chain[k] = chain[l]
      BY <3>3, <3>4, <3>5, <2>3
    <3>7. QED
      BY <3>2, <3>4, <3>5, <3>6
  <2>6. free_list = IF Len(chain) = 0 THEN NULL ELSE chain[1]
    BY <2>2 DEF FreeListIntact
  <2>7. \A i \in 1..Len(chain) : chain[i] \in Frames \ {NULL, p}
    BY <2>2 DEF ListPages
  <2>8. ASSUME NEW i \in 1..Len(chain')
        PROVE  /\ page'[chain'[i]].next = IF i = Len(chain') THEN NULL ELSE chain'[i + 1]
               /\ page'[chain'[i]].prev = IF i = 1 THEN NULL ELSE chain'[i - 1]
               /\ page'[chain'[i]].flags = 0
    <3>1. CASE Len(chain) = 0
      <4>1. i = 1 /\ i = Len(chain') /\ free_list = NULL
        BY <3>1, <2>3, <2>6
      <4>2. page' = [page EXCEPT ![p] = node]
        BY <4>1 DEF PushPage
      <4>3. page'[p] = node
        BY <4>2 DEF TypeOK
      <4>4. QED
        BY <4>1, <4>3, <2>3
    <3>2. CASE Len(chain) # 0
      <4>1. free_list = chain[1] /\ free_list # NULL /\ free_list # p /\ free_list \in Frames
        BY <3>2, <2>3, <2>6, <2>7
      <4>2. page' = [[page EXCEPT ![p] = node] EXCEPT ![free_list].prev = p]
        BY <4>1 DEF PushPage
      <4>3. page'[p] = node
        BY <4>1, <4>2 DEF TypeOK
      <4>4. page'[free_list] = [page[free_list] EXCEPT !.prev = p]
        BY <4>1, <4>2 DEF TypeOK
      <4>5. \A q \in Frames \ {p, free_list} : page'[q] = page[q]
        BY <4>1, <4>2 DEF TypeOK
      <4>6. CASE i = 1
        BY <4>6, <4>1, <4>3, <2>3, <3>2
      <4>7. CASE i # 1
        <5>1. PICK k \in 1..Len(chain) : i = k + 1
          BY <4>7, <2>3
        <5>2. /\ page[chain[k]].next = IF k = Len(chain) THEN NULL ELSE chain[k + 1]
              /\ page[chain[k]].prev = IF k = 1 THEN NULL ELSE chain[k - 1]
              /\ page[chain[k]].flags = 0
          BY DEF FreeListIntact
        <5>3. /\ chain'[i] = chain[k]
              /\ k = Len(chain) <=> i = Len(chain')
              /\ k # Len(chain) => chain'[i + 1] = chain[k + 1]
              /\ k = 1 => chain'[i - 1] = p
              /\ k # 1 => chain'[i - 1] = chain[k - 1]
          <6>1. chain'[i] = chain[k]
            BY <5>1, <2>3
          <6>2. k = Len(chain) <=> i = Len(chain')
            BY <5>1, <2>3
          <6>3. k # Len(chain) => chain'[i + 1] = chain[k + 1]
            BY <5>1, <2>3
          <6>4. k # 1 => chain'[i - 1] = chain[k - 1]
            <7>1. SUFFICES ASSUME k # 1 PROVE chain'[i - 1] = chain[k - 1]
              OBVIOUS
            <7>2. k - 1 \in 1..Len(chain) /\ i - 1 = (k - 1) + 1
              BY <7>1, <5>1, <2>3
            <7>3. QED
              BY <7>2, <2>3
          <6>5. QED
            BY <6>1, <6>2, <6>3, <6>4, <5>1, <2>3
        <5>4. CASE k = 1
          <6>1. chain[k] = free_list
            BY <4>1, <5>4
          <6>2. /\ page'[chain[k]].next = page[chain[k]].next
                /\ page'[chain[k]].prev = p
                /\ page'[chain[k]].flags = page[chain[k]].flags
            BY <6>1, <4>1, <4>4 DEF TypeOK, Header
          <6>3. QED
            BY <5>1, <5>2, <5>3, <5>4, <6>2
        <5>5. CASE k # 1
          <6>1. 1 \in 1..Len(chain)
            BY <2>3, <3>2
          <6>2. chain[k] # chain[1] /\ chain[k] \in Frames \ {p, free_list}
            BY <5>5, <6>1, <4>1, <2>7 DEF PagesAccounted
          <6>3. page'[chain[k]] = page[chain[k]]
            BY <4>5, <6>2
          <6>4. QED
            BY <5>1, <5>2, <5>3, <5>5, <6>3
        <5>6. QED
          BY <5>4, <5>5
      <4>8. QED
        BY <4>6, <4>7
    <3>3. QED
      BY <3>1, <3>2
  <2>9. FreeListIntact'
    BY <1>2, <2>1, <2>3, <2>8 DEF FreeListIntact
  <2>10. QED
    BY <1>2, <1>4, <2>1, <2>3, <2>4, <2>5, <2>9
<1>5. QED
  BY <1>3, <1>4

(* pmm_alloc_page takes the head off an intact list, and clears its links.   *)
LEMMA AllocKeepsList ==
  ASSUME TypeOK, FreeListIntact, PagesAccounted, AllocPage
  PROVE  /\ page' \in [Frames -> Header]
         /\ free_list' \in Frames
         /\ chain' \in Seq(Frames \ {NULL})
         /\ Len(chain) \in Nat \ {0} /\ Len(chain') = Len(chain) - 1
         /\ FreeListIntact'
         /\ free_list \in ListPages
         /\ ListPages' = ListPages \ {free_list}
         /\ \A i, j \in 1..Len(chain') : chain'[i] = chain'[j] => i = j
<1> DEFINE p == free_list
           rest == page[p].next
           node == [next |-> NULL, prev |-> NULL, flags |-> 1]
           unhooked == IF rest = NULL THEN page ELSE [page EXCEPT ![rest].prev = NULL]
<1>1. /\ chain \in Seq(Frames \ {NULL}) /\ Len(chain) \in Nat \ {0} /\ p = chain[1]
      /\ p \in Frames /\ p # NULL
  BY DEF TypeOK, FreeListIntact, AllocPage
<1>2. /\ chain' \in Seq(Frames \ {NULL})
      /\ Len(chain') = Len(chain) - 1
      /\ \A k \in 1..(Len(chain) - 1) : chain'[k] = chain[k + 1]
  <2>1. chain' = Tail(chain) /\ chain # <<>>
    BY <1>1 DEF AllocPage
  <2>2. QED
    BY <1>1, <2>1, TailSeq
<1>3. \A k \in 1..Len(chain) : chain[k] \in Frames \ {NULL}
  BY <1>1
<1>4. \A i, j \in 1..Len(chain) : chain[i] = chain[j] => i = j
  BY DEF PagesAccounted
<1>5. 1 \in 1..Len(chain) /\ p \in ListPages
  <2>1. PICK i \in 1..Len(chain) : i = 1
    BY <1>1
  <2>2. QED
    BY <1>1, <2>1 DEF ListPages
<1>6. \A k \in 1..(Len(chain) - 1) : k + 1 \in 1..Len(chain) /\ chain[k + 1] # p
  <2>1. SUFFICES ASSUME NEW k \in 1..(Len(chain) - 1)
                 PROVE  k + 1 \in 1..Len(chain) /\ chain[k + 1] # p
    OBVIOUS
  <2>2. PICK i \in 1..Len(chain) : i = k + 1
    BY <1>1
  <2>3. PICK j \in 1..Len(chain) : j = 1
    BY <1>5
  <2>4. chain[j] = p /\ i # j
    BY <1>1, <2>2, <2>3
  <2>5. chain[i] # p
    BY <1>4, <2>4
  <2>6. QED
    BY <2>2, <2>5
<1>7. rest = IF Len(chain) = 1 THEN NULL ELSE chain[2]
  <2>1. PICK k \in 1..Len(chain) : k = 1
    BY <1>5
  <2>2. page[chain[k]].next = IF k = Len(chain) THEN NULL ELSE chain[k + 1]
    BY DEF FreeListIntact
  <2>3. k + 1 = 2 /\ chain[k] = p
    BY <1>1, <2>1
  <2>4. QED
    BY <2>1, <2>2, <2>3
<1>8. ListPages' = ListPages \ {p}
  <2>1. ASSUME NEW k \in 1..Len(chain') PROVE chain'[k] \in ListPages \ {p}
    <3>1. k \in 1..(Len(chain) - 1)
      BY <1>2
    <3>2. chain'[k] = chain[k + 1] /\ k + 1 \in 1..Len(chain) /\ chain[k + 1] # p
      BY <3>1, <1>2, <1>6
    <3>3. QED
      BY <3>2 DEF ListPages
  <2>2. ASSUME NEW i \in 1..Len(chain), chain[i] # p PROVE chain[i] \in ListPages'
    <3>1. i # 1
      BY <2>2, <1>1
    <3>2. PICK k \in 1..(Len(chain) - 1) : i = k + 1
      BY <3>1, <1>1
    <3>3. chain'[k] = chain[i] /\ k \in 1..Len(chain')
      BY <3>2, <1>2
    <3>4. QED
      BY <3>3 DEF ListPages
  <2>3. ListPages' \subseteq ListPages \ {p}
    BY <2>1 DEF ListPages
  <2>4. ListPages \ {p} \subseteq ListPages'
    BY <2>2 DEF ListPages
  <2>5. QED
    BY <2>3, <2>4
<1>9. \A i, j \in 1..Len(chain') : chain'[i] = chain'[j] => i = j
  <2>1. SUFFICES ASSUME NEW i \in 1..Len(chain'), NEW j \in 1..Len(chain'),
                        chain'[i] = chain'[j]
                 PROVE  i = j
    OBVIOUS
  <2>2. i \in 1..(Len(chain) - 1) /\ j \in 1..(Len(chain) - 1)
    BY <1>2
  <2>3. chain[i + 1] = chain[j + 1] /\ i + 1 \in 1..Len(chain) /\ j + 1 \in 1..Len(chain)
    BY <2>1, <2>2, <1>2, <1>6
  <2>4. i + 1 = j + 1
    BY <2>3, <1>4
  <2>5. QED
    BY <2>2, <2>4
<1>10. /\ page' = [unhooked EXCEPT ![p] = node]
       /\ free_list' = rest
  BY DEF AllocPage
<1>11. node \in Header /\ NULL \in Frames
  BY PmmAssumption DEF Header, NULL, Frames
<1>12. unhooked \in [Frames -> Header]
  BY <1>11 DEF TypeOK, Header
<1>13. page' \in [Frames -> Header] /\ free_list' \in Frames
  BY <1>10, <1>11, <1>12, <1>1 DEF TypeOK, Header
<1>14. FreeListIntact'
  <2>1. free_list' = IF Len(chain') = 0 THEN NULL ELSE chain'[1]
    <3>1. CASE Len(chain) = 1
      BY <3>1, <1>10, <1>7, <1>2
    <3>2. CASE Len(chain) # 1
      <4>1. PICK k \in 1..(Len(chain) - 1) : k = 1
        <5>1. Len(chain) \in Nat \ {0}
          BY <1>1
        <5>2. Len(chain) >= 2
          BY <5>1, <3>2
        <5>3. 1 \in 1..(Len(chain) - 1)
          BY <5>1, <5>2
        <5>4. QED
          BY <5>3
      <4>2. chain'[k] = chain[k + 1] /\ k + 1 = 2
        BY <4>1, <1>2
      <4>3. QED
        BY <4>1, <4>2, <3>2, <1>1, <1>2, <1>7, <1>10
    <3>3. QED
      BY <3>1, <3>2
  <2>2. ASSUME NEW k \in 1..Len(chain')
        PROVE  /\ page'[chain'[k]].next = IF k = Len(chain') THEN NULL ELSE chain'[k + 1]
               /\ page'[chain'[k]].prev = IF k = 1 THEN NULL ELSE chain'[k - 1]
               /\ page'[chain'[k]].flags = 0
    <3>1. k \in 1..(Len(chain) - 1) /\ Len(chain) # 1
      BY <1>1, <1>2
    <3>2. PICK i \in 1..Len(chain) : i = k + 1
      BY <3>1, <1>6
    <3>3. chain'[k] = chain[i] /\ chain[i] # p /\ chain[i] \in Frames \ {NULL}
      BY <3>1, <3>2, <1>2, <1>6, <1>3
    <3>4. /\ page[chain[i]].next = IF i = Len(chain) THEN NULL ELSE chain[i + 1]
          /\ page[chain[i]].prev = IF i = 1 THEN NULL ELSE chain[i - 1]
          /\ page[chain[i]].flags = 0
      BY DEF FreeListIntact
    <3>5. i = Len(chain) <=> k = Len(chain')
      BY <1>2, <3>2, <1>1
    <3>6. i # Len(chain) => chain'[k + 1] = chain[i + 1]
      <4>1. SUFFICES ASSUME i # Len(chain) PROVE chain'[k + 1] = chain[i + 1]
        OBVIOUS
      <4>2. PICK n \in 1..(Len(chain) - 1) : n = k + 1
        BY <4>1, <3>2, <1>1
      <4>3. chain'[n] = chain[n + 1] /\ n + 1 = i + 1
        BY <4>2, <3>2, <1>2
      <4>4. QED
        BY <4>2, <4>3
    <3>7. page'[chain[i]] = unhooked[chain[i]]
      BY <3>3, <1>10, <1>12
    <3>8. CASE k = 1
      <4>1. rest = chain[i] /\ rest # NULL
        BY <3>8, <3>1, <3>2, <3>3, <1>7
      <4>2. unhooked[chain[i]] = [page[chain[i]] EXCEPT !.prev = NULL]
        BY <4>1, <3>3 DEF TypeOK
      <4>3. /\ page'[chain[i]].next = page[chain[i]].next
            /\ page'[chain[i]].prev = NULL
            /\ page'[chain[i]].flags = page[chain[i]].flags
        BY <4>2, <3>3, <3>7 DEF TypeOK, Header
      <4>4. QED
        BY <3>8, <4>3, <3>3, <3>4, <3>5, <3>6
    <3>9. CASE k # 1
      <4>1. rest # chain[i]
        <5>1. PICK j \in 1..Len(chain) : j = 2
          BY <3>1, <1>1
        <5>2. i # j
          BY <5>1, <3>2, <3>9
        <5>3. chain[i] # chain[j]
          BY <5>2, <1>4
        <5>4. QED
          BY <5>1, <5>3, <3>1, <1>7
      <4>2. page'[chain[i]] = page[chain[i]]
        BY <4>1, <3>3, <3>7 DEF TypeOK
      <4>3. chain'[k - 1] = chain[i - 1]
        <5>1. PICK n \in 1..(Len(chain) - 1) : n = k - 1
          BY <3>9, <3>1, <1>1
        <5>2. chain'[n] = chain[n + 1] /\ n + 1 = i - 1
          BY <5>1, <3>2, <3>1, <1>1, <1>2
        <5>3. QED
          BY <5>1, <5>2
      <4>4. i # 1
        BY <3>2, <3>1
      <4>5. QED
        BY <3>9, <4>2, <4>3, <4>4, <3>3, <3>4, <3>5, <3>6
    <3>10. QED
      BY <3>8, <3>9
  <2>3. QED
    BY <2>1, <2>2 DEF FreeListIntact
<1>15. QED
  BY <1>1, <1>2, <1>5, <1>8, <1>9, <1>13, <1>14

-----------------------------------------------------------------------------
(* The frames pmm_init has added stay the same when an entry is counted, and *)
(* grow by one when a page is pushed.                                        *)
LEMMA InitEntryDonated ==
  ASSUME TypeOK, LoopInside, InitEntry
  PROVE  /\ at' \in Nat /\ stop' \in 0..(LastFrame + 1) /\ at' <= stop'
         /\ entry' \in 1..(Len(mmap) + 1)
         /\ Donated' = Donated
         /\ LoopInside'
         /\ total_pages' = total_pages + (stop' - at')
         /\ free_pages' = free_pages + (stop' - at')
<1> DEFINE e == mmap[entry]
           before == UNION {EntryFrames(mmap[i]) : i \in 1..(entry - 1)}
<1>1. /\ mmap \in MemoryMaps /\ mmap' = mmap /\ Len(mmap) \in Nat
      /\ entry \in 1..Len(mmap) /\ entry' = entry + 1
      /\ at = stop /\ at \in Nat
  BY PmmAssumption DEF TypeOK, InitEntry
<1>2. /\ FirstFrame(e) \in Nat /\ EndFrame(e) \in 0..(LastFrame + 1)
      /\ EntryFrames(e) = IF UsableEntry(e) THEN FirstFrame(e)..(EndFrame(e) - 1) ELSE {}
  BY <1>1, EntryBounds
<1>3. Donated = before
  BY <1>1 DEF Donated
<1>4. before \intersect EntryFrames(e) = {}
  <2>1. \A i \in 1..(entry - 1) : EntryFrames(mmap[i]) \intersect EntryFrames(e) = {}
    <3>1. SUFFICES ASSUME NEW i \in 1..(entry - 1)
                   PROVE  EntryFrames(mmap[i]) \intersect EntryFrames(e) = {}
      OBVIOUS
    <3>2. i \in 1..Len(mmap) /\ i # entry
      BY <1>1
    <3>3. QED
      BY <1>1, <3>2, PmmAssumption
  <2>2. QED
    BY <2>1
<1>5. UNION {EntryFrames(mmap'[i]) : i \in 1..(entry' - 1)} = before \union EntryFrames(e)
  <2>1. 1..(entry' - 1) = 1..(entry - 1) \union {entry}
    BY <1>1
  <2>2. QED
    BY <1>1, <2>1
<1>6. CASE UsableEntry(e)
  <2>1. /\ at' = FirstFrame(e) /\ stop' = EndFrame(e) /\ at' < stop'
        /\ total_pages' = total_pages + (EndFrame(e) - FirstFrame(e))
        /\ free_pages' = free_pages + (EndFrame(e) - FirstFrame(e))
    BY <1>6 DEF InitEntry, UsableEntry
  <2>2. EntryFrames(e) = at'..(stop' - 1)
    BY <1>2, <1>6, <2>1
  <2>3. Donated' = before
    <3>1. Donated' = (UNION {EntryFrames(mmap'[i]) : i \in 1..(entry' - 1)}) \ (at'..(stop' - 1))
      BY DEF Donated
    <3>2. Donated' = (before \union EntryFrames(e)) \ EntryFrames(e)
      BY <3>1, <1>5, <2>2
    <3>3. QED
      BY <3>2, <1>4
  <2>4. LoopInside'
    <3>1. entry' > 1 /\ mmap'[entry' - 1] = e
      BY <1>1
    <3>2. EntryFrames(mmap'[entry' - 1]) = EntryFrames(e)
      BY <3>1 DEF EntryFrames
    <3>3. QED
      BY <3>1, <3>2, <2>2 DEF LoopInside
  <2>5. QED
    BY <1>1, <1>2, <1>3, <2>1, <2>3, <2>4, PmmAssumption
<1>7. CASE ~UsableEntry(e)
  <2>1. at' = at /\ stop' = stop /\ total_pages' = total_pages /\ free_pages' = free_pages
    BY <1>7 DEF InitEntry
  <2>2. at'..(stop' - 1) = {} /\ EntryFrames(e) = {}
    BY <2>1, <1>1, <1>2, <1>7
  <2>3. Donated' = before
    BY <1>5, <2>2 DEF Donated
  <2>4. LoopInside'
    BY <2>1, <1>1 DEF LoopInside
  <2>5. QED
    BY <1>1, <1>3, <2>1, <2>3, <2>4 DEF TypeOK
<1>8. QED
  BY <1>6, <1>7

(* The inner loop of pmm_init: the page that is pushed is new, and joins     *)
(* the donated ones.                                                         *)
LEMMA InitPageDonated ==
  ASSUME TypeOK, LoopInside, PagesAccounted, InitPage
  PROVE  /\ at \in Frames
         /\ at \notin Donated
         /\ Donated' = Donated \union {at}
         /\ LoopInside'
<1> DEFINE before == UNION {EntryFrames(mmap[i]) : i \in 1..(entry - 1)}
<1>1. /\ at \in Nat /\ stop \in Nat /\ at < stop /\ at' = at + 1
      /\ stop' = stop /\ entry' = entry /\ mmap' = mmap /\ entry \in Nat
  BY PmmAssumption DEF TypeOK, InitPage
<1>2. entry > 1 /\ at..(stop - 1) \subseteq EntryFrames(mmap[entry - 1])
  BY <1>1 DEF LoopInside
<1>3. at \in at..(stop - 1)
  BY <1>1
<1>4. at \in Frames
  BY <1>2, <1>3 DEF EntryFrames
<1>5. at \in before
  <2>1. entry - 1 \in 1..(entry - 1)
    BY <1>1, <1>2
  <2>2. QED
    BY <1>2, <1>3, <2>1
<1>6. at..(stop - 1) = at'..(stop' - 1) \union {at} /\ at \notin at'..(stop' - 1)
  BY <1>1
<1>7. Donated = before \ (at..(stop - 1)) /\ Donated' = before \ (at'..(stop' - 1))
  <2>1. Donated' = (UNION {EntryFrames(mmap'[i]) : i \in 1..(entry' - 1)}) \ (at'..(stop' - 1))
    BY DEF Donated
  <2>2. UNION {EntryFrames(mmap'[i]) : i \in 1..(entry' - 1)} = before
    BY <1>1
  <2>3. Donated' = before \ (at'..(stop' - 1))
    BY <2>1, <2>2, Zenon
  <2>4. QED
    BY <2>3 DEF Donated
<1>8. LoopInside'
  <2>1. EntryFrames(mmap[entry - 1])' = EntryFrames(mmap[entry - 1])
    BY <1>1 DEF EntryFrames
  <2>2. QED
    BY <1>1, <1>2, <1>6, <2>1 DEF LoopInside
<1>9. QED
  BY <1>3, <1>4, <1>5, <1>6, <1>7, <1>8

-----------------------------------------------------------------------------
(* What each operation does to the sets of pages, given that the invariant   *)
(* holds: used for the invariant, the counters and the refinement.           *)
LEMMA InitPageStep ==
  ASSUME IInv, InitPage
  PROVE  IInv' /\ at \notin Donated
<1>1. at \in Frames /\ at \notin Donated /\ Donated' = Donated \union {at} /\ LoopInside'
  BY InitPageDonated DEF IInv
<1>2. at \notin ListPages /\ PushPage(at)
  BY <1>1 DEF IInv, PagesAccounted, InitPage
<1>3. /\ page' \in [Frames -> Header]
      /\ free_list' \in Frames
      /\ chain' \in Seq(Frames \ {NULL})
      /\ FreeListIntact'
      /\ ListPages' = IF at = NULL THEN {} ELSE ListPages \union {at}
      /\ lost' = IF at = NULL THEN lost \union ListPages \union {at} ELSE lost
      /\ \A i, j \in 1..Len(chain') : chain'[i] = chain'[j] => i = j
  BY <1>1, <1>2, PushKeepsList DEF IInv
<1>4. /\ mmap' = mmap /\ total_pages' = total_pages /\ free_pages' = free_pages
      /\ entry' = entry /\ stop' = stop /\ owned' = owned /\ at' = at + 1 /\ at < stop
  BY DEF InitPage
<1>5. ListPages \subseteq Frames
  BY DEF IInv, TypeOK, ListPages
<1>6. TypeOK'
  BY <1>1, <1>3, <1>4, <1>5 DEF IInv, TypeOK
<1>7. PagesAccounted'
  BY <1>1, <1>3, <1>4 DEF IInv, PagesAccounted
<1>8. QED
  BY <1>1, <1>3, <1>6, <1>7 DEF IInv

(* The outer loop of pmm_init keeps the invariant and moves no page.         *)
LEMMA InitEntryStep ==
  ASSUME IInv, InitEntry
  PROVE  IInv'
<1>1. /\ at' \in Nat /\ stop' \in 0..(LastFrame + 1) /\ at' <= stop'
      /\ entry' \in 1..(Len(mmap) + 1)
      /\ Donated' = Donated /\ LoopInside'
      /\ total_pages' = total_pages + (stop' - at')
      /\ free_pages' = free_pages + (stop' - at')
  BY InitEntryDonated DEF IInv
<1>2. UNCHANGED <<mmap, page, free_list, chain, owned, lost>>
  BY DEF InitEntry
<1>3. total_pages' \in Nat /\ free_pages' \in Nat
  <2>1. stop' \in Nat /\ at' \in Nat /\ at' <= stop'
    BY <1>1, LastFrameNat
  <2>2. stop' - at' \in Nat
    BY <2>1, NatDiff
  <2>3. total_pages \in Nat /\ free_pages \in Nat
    BY DEF IInv, TypeOK
  <2>4. QED
    BY <1>1, <2>2, <2>3, NatSum
<1>4. TypeOK'
  BY <1>1, <1>2, <1>3 DEF IInv, TypeOK
<1>5. ListPages' = ListPages /\ FreeListIntact'
  BY <1>2 DEF IInv, FreeListIntact, ListPages
<1>6. PagesAccounted'
  BY <1>1, <1>2, <1>5 DEF IInv, PagesAccounted
<1>7. QED
  BY <1>1, <1>4, <1>5, <1>6 DEF IInv

(* A step that leaves the memory map and the loop alone donates nothing.     *)
LEMMA DonatedUnchanged ==
  ASSUME UNCHANGED <<mmap, loop>>, IInv
  PROVE  Donated' = Donated /\ LoopInside'
BY DEF loop, Donated, LoopInside, IInv, EntryFrames

(* pmm_alloc_page keeps the invariant and moves one page from free to held.  *)
LEMMA AllocStep ==
  ASSUME IInv, AllocPage, free_pages > 0
  PROVE  IInv'
<1>1. /\ page' \in [Frames -> Header]
      /\ free_list' \in Frames
      /\ chain' \in Seq(Frames \ {NULL})
      /\ FreeListIntact'
      /\ free_list \in ListPages
      /\ ListPages' = ListPages \ {free_list}
      /\ \A i, j \in 1..Len(chain') : chain'[i] = chain'[j] => i = j
  BY AllocKeepsList DEF IInv
<1>2. /\ UNCHANGED <<mmap, total_pages, loop, lost>>
      /\ owned' = owned \union {free_list} /\ free_pages' = free_pages - 1
  BY DEF AllocPage
<1>3. Donated' = Donated /\ LoopInside'
  BY <1>2, DonatedUnchanged
<1>4. TypeOK'
  BY <1>1, <1>2 DEF IInv, TypeOK, loop
<1>5. PagesAccounted'
  BY <1>1, <1>2, <1>3 DEF IInv, PagesAccounted
<1>6. QED
  BY <1>1, <1>3, <1>4, <1>5 DEF IInv

(* pmm_free_page keeps the invariant and moves one page from held to free.   *)
LEMMA FreeStep ==
  ASSUME IInv, NEW p \in Frames, FreePage(p)
  PROVE  IInv' /\ p # NULL /\ p \notin ListPages /\ PushPage(p)
<1>1. p \in owned /\ p # NULL /\ p \notin ListPages /\ PushPage(p)
  BY DEF IInv, PagesAccounted, FreePage
<1>2. /\ page' \in [Frames -> Header]
      /\ free_list' \in Frames
      /\ chain' \in Seq(Frames \ {NULL})
      /\ FreeListIntact'
      /\ ListPages' = ListPages \union {p} /\ lost' = lost
      /\ \A i, j \in 1..Len(chain') : chain'[i] = chain'[j] => i = j
  BY <1>1, PushKeepsList DEF IInv
<1>3. /\ UNCHANGED <<mmap, total_pages, loop>>
      /\ owned' = owned \ {p} /\ free_pages' = free_pages + 1
  BY DEF FreePage
<1>4. Donated' = Donated /\ LoopInside'
  BY <1>3, DonatedUnchanged
<1>5. TypeOK'
  BY <1>2, <1>3 DEF IInv, TypeOK, loop
<1>6. PagesAccounted'
  BY <1>1, <1>2, <1>3, <1>4 DEF IInv, PagesAccounted
<1>7. QED
  BY <1>1, <1>2, <1>4, <1>5, <1>6 DEF IInv

(* What a caller writes into a page it holds disturbs nothing.               *)
LEMMA ScribbleStep ==
  ASSUME IInv, NEW p \in Frames, Scribble(p)
  PROVE  IInv'
<1>1. PICK h \in Junk : page' = [page EXCEPT ![p] = h]
  BY DEF Scribble
<1>2. p \in owned /\ UNCHANGED <<mmap, allocator, loop, chain, owned, lost>>
  BY DEF Scribble
<1>3. ListPages' = ListPages /\ p \notin ListPages
  BY <1>2 DEF ListPages, IInv, PagesAccounted
<1>4. \A i \in 1..Len(chain) : page'[chain[i]] = page[chain[i]]
  BY <1>1, <1>3 DEF ListPages, IInv, TypeOK
<1>5. FreeListIntact'
  BY <1>2, <1>4 DEF IInv, FreeListIntact, allocator
<1>6. h \in Header
  BY PmmAssumption
<1>7. TypeOK'
  BY <1>1, <1>2, <1>6 DEF IInv, TypeOK, allocator, loop
<1>8. Donated' = Donated /\ LoopInside'
  BY <1>2, DonatedUnchanged
<1>9. PagesAccounted'
  BY <1>2, <1>3, <1>8 DEF IInv, PagesAccounted
<1>10. QED
  BY <1>5, <1>7, <1>8, <1>9 DEF IInv

(* Neither does a step that changes nothing.                                 *)
LEMMA StutterStep ==
  ASSUME IInv, UNCHANGED vars
  PROVE  IInv'
<1>1. Donated' = Donated /\ LoopInside'
  BY DonatedUnchanged DEF vars
<1>2. ListPages' = ListPages
  BY DEF vars, ListPages
<1>3. TypeOK' /\ FreeListIntact' /\ PagesAccounted'
  BY <1>1, <1>2 DEF vars, allocator, loop, IInv, TypeOK, FreeListIntact, PagesAccounted
<1>4. QED
  BY <1>1, <1>3 DEF IInv

-----------------------------------------------------------------------------
(* An intact list has as many nodes as it has pages, and the sets of pages   *)
(* are finite: what counting them rests on.                                  *)
LEMMA PagesFinite ==
  ASSUME IInv
  PROVE  /\ IsFiniteSet(ListPages) /\ Cardinality(ListPages) = Len(chain)
         /\ IsFiniteSet(lost) /\ Cardinality(lost) \in Nat
         /\ IsFiniteSet(Donated) /\ Cardinality(Donated) \in Nat
         /\ Len(chain) \in Nat
<1>1. chain \in Seq(Frames \ {NULL}) /\ Len(chain) \in Nat
  BY DEF IInv, TypeOK
<1>2. IsFiniteSet(1..Len(chain)) /\ Cardinality(1..Len(chain)) = Len(chain)
  BY <1>1, FS_Interval
<1>3. IsFiniteSet(ListPages) /\ Cardinality(ListPages) = Len(chain)
  <2> DEFINE f == [i \in 1..Len(chain) |-> chain[i]]
  <2>1. f \in Surjection(1..Len(chain), ListPages)
    BY DEF Surjection, ListPages
  <2>2. f \in Injection(1..Len(chain), ListPages)
    BY <2>1 DEF Surjection, Injection, IsInjective, IInv, PagesAccounted
  <2>3. QED
    BY <1>2, <2>1, <2>2, FS_Surjection
<1>4. IsFiniteSet(Frames)
  BY PmmAssumption, FS_Interval DEF Frames
<1>5. IsFiniteSet(lost)
  BY <1>4, FS_Subset DEF IInv, TypeOK
<1>6. Donated \subseteq Frames
  BY DEF Donated, EntryFrames
<1>7. IsFiniteSet(Donated)
  BY <1>4, <1>6, FS_Subset
<1>8. QED
  BY <1>1, <1>3, <1>5, <1>7, FS_CardinalityType

(* Each step keeps the counters in step with the sizes of the sets of pages. *)
LEMMA Counting ==
  ASSUME IInv, CountersExact, [Next]_vars
  PROVE  IInv' /\ CountersExact'
<1>1. /\ free_pages = Len(chain) + Cardinality(lost) + (stop - at)
      /\ total_pages = Cardinality(Donated) + (stop - at)
      /\ at \in Nat /\ stop \in Nat /\ at <= stop
  BY PmmAssumption DEF CountersExact, IInv, TypeOK
<1>2. /\ IsFiniteSet(ListPages) /\ Cardinality(ListPages) = Len(chain)
      /\ IsFiniteSet(lost) /\ Cardinality(lost) \in Nat
      /\ IsFiniteSet(Donated) /\ Cardinality(Donated) \in Nat
      /\ Len(chain) \in Nat
  BY PagesFinite
<1>3. CASE InitEntry
  <2>1. IInv'
    BY <1>3, InitEntryStep
  <2>2. /\ Donated' = Donated /\ lost' = lost /\ chain' = chain
        /\ total_pages' = total_pages + (stop' - at')
        /\ free_pages' = free_pages + (stop' - at')
        /\ at = stop
    BY <1>3, InitEntryDonated DEF IInv, InitEntry
  <2>3. stop' \in Nat /\ at' \in Nat /\ at' <= stop'
    BY <2>1, LastFrameNat DEF IInv, TypeOK
  <2>4. CountersExact'
    BY <1>1, <1>2, <2>2, <2>3 DEF CountersExact
  <2>5. QED
    BY <2>1, <2>4
<1>4. CASE InitPage
  <2>1. IInv' /\ at \notin Donated
    BY <1>4, InitPageStep
  <2>2. /\ Donated' = Donated \union {at} /\ at' = at + 1 /\ stop' = stop /\ at < stop
        /\ total_pages' = total_pages /\ free_pages' = free_pages
        /\ PushPage(at)
    BY <1>4, InitPageDonated DEF IInv, InitPage
  <2>3. Cardinality(Donated') = Cardinality(Donated) + 1
    BY <1>2, <2>1, <2>2, FS_AddElement
  <2>4. /\ Cardinality(lost') \in Nat /\ Len(chain') \in Nat
        /\ Len(chain') + Cardinality(lost') = Len(chain) + Cardinality(lost) + 1
    <3>1. at \notin ListPages /\ at \notin lost /\ lost \intersect ListPages = {}
      BY <2>1 DEF IInv, PagesAccounted
    <3>2. CASE at = NULL
      <4>1. chain' = <<>> /\ lost' = (lost \union ListPages) \union {at}
        BY <3>2, <2>2 DEF PushPage
      <4>2. /\ IsFiniteSet(lost \union ListPages)
            /\ Cardinality(lost \union ListPages) = Cardinality(lost) + Cardinality(ListPages)
        <5>1. Cardinality(lost \intersect ListPages) = 0
          BY <3>1, FS_EmptySet
        <5>2. /\ IsFiniteSet(lost \union ListPages)
              /\ Cardinality(lost \union ListPages) =
                   Cardinality(lost) + Cardinality(ListPages) - Cardinality(lost \intersect ListPages)
          BY <1>2, FS_Union
        <5>3. QED
          BY <5>1, <5>2, <1>2
      <4>3. Cardinality(lost') = Cardinality(lost \union ListPages) + 1
        BY <3>1, <4>1, <4>2, FS_AddElement
      <4>4. Len(chain') = 0
        BY <4>1
      <4>5. QED
        BY <1>2, <4>2, <4>3, <4>4
    <3>3. CASE at # NULL
      <4>1. chain' = <<at>> \o chain /\ lost' = lost
        BY <3>3, <2>2 DEF PushPage
      <4>2. chain \in Seq(Frames) /\ at \in Frames
        BY <1>4, InitPageDonated DEF IInv, TypeOK
      <4>3. Len(chain') = Len(chain) + 1
        BY <4>1, <4>2, ConsSeq
      <4>4. Cardinality(lost') = Cardinality(lost)
        BY <4>1
      <4>5. QED
        BY <1>2, <4>3, <4>4, OneMore
    <3>4. QED
      BY <3>2, <3>3
  <2>5. free_pages' = Len(chain') + Cardinality(lost') + (stop' - at')
    <3>1. Len(chain) + Cardinality(lost) + (stop - at)
            = Len(chain') + Cardinality(lost') + (stop - (at + 1))
      BY <1>1, <1>2, <2>4, PageCounted
    <3>2. QED
      BY <1>1, <2>2, <3>1
  <2>6. total_pages' = Cardinality(Donated') + (stop' - at')
    BY <1>1, <1>2, <2>2, <2>3
  <2>7. CountersExact'
    BY <2>5, <2>6 DEF CountersExact
  <2>8. QED
    BY <2>1, <2>7
<1>5. CASE AllocPage
  <2>1. Len(chain) > 0 /\ Len(chain') = Len(chain) - 1
    BY <1>5, AllocKeepsList DEF IInv
  <2>2. free_pages > 0
    BY <1>1, <1>2, <2>1
  <2>3. IInv'
    BY <1>5, <2>2, AllocStep
  <2>4. UNCHANGED <<mmap, total_pages, loop, lost>> /\ free_pages' = free_pages - 1
    BY <1>5 DEF AllocPage
  <2>5. Donated' = Donated
    BY <2>4, DonatedUnchanged
  <2>6. CountersExact'
    BY <1>1, <1>2, <2>1, <2>4, <2>5 DEF CountersExact, loop
  <2>7. QED
    BY <2>3, <2>6
<1>6. ASSUME NEW p \in Frames, FreePage(p)
      PROVE  IInv' /\ CountersExact'
  <2>1. IInv' /\ p # NULL /\ PushPage(p)
    BY <1>6, FreeStep
  <2>2. UNCHANGED <<mmap, total_pages, loop>> /\ free_pages' = free_pages + 1
    BY <1>6 DEF FreePage
  <2>3. chain' = <<p>> \o chain /\ lost' = lost
    BY <2>1 DEF PushPage
  <2>4. Len(chain') = Len(chain) + 1
    BY <2>3, ConsSeq DEF IInv, TypeOK
  <2>5. Donated' = Donated
    BY <2>2, DonatedUnchanged
  <2>6. CountersExact'
    BY <1>1, <1>2, <2>2, <2>3, <2>4, <2>5 DEF CountersExact, loop
  <2>7. QED
    BY <2>1, <2>6
<1>7. ASSUME NEW p \in Frames, Scribble(p)
      PROVE  IInv' /\ CountersExact'
  <2>1. IInv'
    BY <1>7, ScribbleStep
  <2>2. UNCHANGED <<mmap, allocator, loop, chain, owned, lost>>
    BY <1>7 DEF Scribble
  <2>3. Donated' = Donated
    BY <2>2, DonatedUnchanged
  <2>4. QED
    BY <2>1, <2>2, <2>3 DEF CountersExact, allocator, loop
<1>8. CASE UNCHANGED vars
  <2>1. IInv'
    BY <1>8, StutterStep
  <2>2. Donated' = Donated
    BY <1>8, DonatedUnchanged DEF vars
  <2>3. QED
    BY <1>8, <2>1, <2>2 DEF CountersExact, vars, allocator, loop
<1>9. QED
  BY <1>3, <1>4, <1>5, <1>6, <1>7, <1>8 DEF Next, AllocNone

(* The invariant holds before pmm_init has seen any entry.                   *)
LEMMA InitialInv == Init => IInv /\ CountersExact
<1> SUFFICES ASSUME Init PROVE IInv /\ CountersExact
  OBVIOUS
<1>1. /\ mmap \in MemoryMaps /\ page \in [Frames -> Junk]
      /\ free_list = NULL /\ total_pages = 0 /\ free_pages = 0
      /\ entry = 1 /\ at = 0 /\ stop = 0
      /\ chain = <<>> /\ owned = {} /\ lost = {}
  BY DEF Init
<1>2. Len(mmap) \in Nat /\ NULL \in Frames /\ LastFrame \in Nat /\ Junk \subseteq Header
  BY <1>1, PmmAssumption DEF NULL, Frames
<1>3. TypeOK
  BY <1>1, <1>2 DEF TypeOK
<1>4. Donated = {} /\ ListPages = {} /\ Len(chain) = 0
  BY <1>1 DEF Donated, ListPages
<1>5. IInv
  BY <1>1, <1>3, <1>4 DEF IInv, FreeListIntact, PagesAccounted, LoopInside
<1>6. CountersExact
  BY <1>1, <1>4, FS_EmptySet DEF CountersExact
<1>7. QED
  BY <1>5, <1>6

-----------------------------------------------------------------------------
(* Every variable keeps its type: frames stay on the machine, the counters   *)
(* of pmm.c stay natural numbers.                                            *)
THEOREM PmmTypeOK == Spec => []TypeOK
<1>1. IInv /\ CountersExact /\ [Next]_vars => IInv' /\ CountersExact'
  BY Counting
<1>2. IInv => TypeOK
  BY DEF IInv
<1>3. QED
  BY InitialInv, <1>1, <1>2, PTL DEF Spec

(* The free list of pmm.c is intact after every operation, whatever callers  *)
(* write into the pages they hold.                                           *)
THEOREM PmmFreeListIntact == Spec => []FreeListIntact
<1>1. IInv /\ CountersExact /\ [Next]_vars => IInv' /\ CountersExact'
  BY Counting
<1>2. IInv => FreeListIntact
  BY DEF IInv
<1>3. QED
  BY InitialInv, <1>1, <1>2, PTL DEF Spec

(* No page is handed out twice, and none that is not in the memory map.      *)
THEOREM PmmPagesAccounted == Spec => []PagesAccounted
<1>1. IInv /\ CountersExact /\ [Next]_vars => IInv' /\ CountersExact'
  BY Counting
<1>2. IInv => PagesAccounted
  BY DEF IInv
<1>3. QED
  BY InitialInv, <1>1, <1>2, PTL DEF Spec

(* The counters of pmm.c agree with the list.                                *)
THEOREM PmmCountersExact == Spec => []CountersExact
<1>1. IInv /\ CountersExact /\ [Next]_vars => IInv' /\ CountersExact'
  BY Counting
<1>2. QED
  BY InitialInv, <1>1, PTL DEF Spec

(* The free list implements the abstract allocator.                          *)
THEOREM PmmImplementsPageAllocator == Spec => ImplementsPageAllocator
<1>1. Init => Abstract!Init
  BY DEF Init, Abstract!Init, ListPages
<1>2. IInv /\ CountersExact /\ [Next]_vars => [Abstract!Next]_(Abstract!vars)
  <2> SUFFICES ASSUME IInv, CountersExact, [Next]_vars
               PROVE  [Abstract!Next]_(Abstract!vars)
    OBVIOUS
  <2>1. CASE InitPage
    <3>1. at \in Frames /\ at \notin ListPages \union owned \union lost /\ PushPage(at)
      BY <2>1, InitPageStep, InitPageDonated DEF IInv, PagesAccounted, InitPage
    <3>2. /\ ListPages' = IF at = NULL THEN {} ELSE ListPages \union {at}
          /\ lost' = IF at = NULL THEN lost \union ListPages \union {at} ELSE lost
      BY <3>1, PushKeepsList DEF IInv
    <3>3. owned' = owned
      BY <2>1 DEF InitPage
    <3>4. Abstract!Donate(at)
      BY <3>1, <3>2, <3>3 DEF Abstract!Donate
    <3>5. QED
      BY <3>1, <3>4 DEF Abstract!Next
  <2>2. CASE AllocPage
    <3>1. free_list \in ListPages /\ ListPages' = ListPages \ {free_list}
      BY <2>2, AllocKeepsList DEF IInv
    <3>2. owned' = owned \union {free_list} /\ lost' = lost /\ free_list \in Frames
      BY <2>2 DEF AllocPage, IInv, TypeOK
    <3>3. Abstract!Acquire(free_list)
      BY <3>1, <3>2 DEF Abstract!Acquire
    <3>4. QED
      BY <3>2, <3>3 DEF Abstract!Next
  <2>3. ASSUME NEW p \in Frames, FreePage(p)
        PROVE  [Abstract!Next]_(Abstract!vars)
    <3>1. p \notin ListPages /\ PushPage(p) /\ p # NULL
      BY <2>3, FreeStep
    <3>2. ListPages' = ListPages \union {p} /\ lost' = lost
      BY <3>1, PushKeepsList DEF IInv
    <3>3. p \in owned /\ owned' = owned \ {p}
      BY <2>3 DEF FreePage
    <3>4. Abstract!Release(p)
      BY <3>2, <3>3 DEF Abstract!Release
    <3>5. QED
      BY <3>4 DEF Abstract!Next
  <2>4. CASE UNCHANGED <<chain, owned, lost>>
    BY <2>4 DEF Abstract!vars, ListPages
  <2>5. QED
    BY <2>1, <2>2, <2>3, <2>4 DEF Next, InitEntry, AllocNone, Scribble, vars
<1>3. IInv /\ CountersExact /\ [Next]_vars => IInv' /\ CountersExact'
  BY Counting
<1>4. QED
  BY InitialInv, <1>1, <1>2, <1>3, PTL DEF Spec, Abstract!Spec, ImplementsPageAllocator
=============================================================================
