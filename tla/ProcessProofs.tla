---------------------------- MODULE ProcessProofs ----------------------------
(***************************************************************************)
(* Proofs about the process table and the scheduler, for any number of     *)
(* processes, threads and pages.                                           *)
(***************************************************************************)
EXTENDS Process, FiniteSetTheorems, TLAPS

(* destroy_process works on a process that is in use, on a thread it has or  *)
(* just behind its last one.                                                 *)
LoopOK ==
  /\ dying # Nobody => used[dying] /\ at <= thread_count[dying] + 1
  /\ dying = Nobody => at = 1

Used == {i \in Slots : used[i]}

TableInv == TypeOK /\ LoopOK /\ CountExact

-----------------------------------------------------------------------------
(* The table has a size.                                                     *)
LEMMA Sizes ==
  /\ MAX_PROCESSES \in Nat \ {0} /\ MAX_THREADS_PER_PROCESS \in Nat \ {0}
  /\ NULL \notin Pages
  BY ProcessAssumption

(* A thread is a slot and a place.                                           *)
LEMMA ThreadOf ==
  ASSUME NEW i \in Slots, NEW n \in Places
  PROVE  <<i, n>> \in Threads /\ <<i, n>> # None
  BY Sizes DEF Threads, None, Slots

(* No thread is None.                                                        *)
LEMMA NoneIsNoThread ==
  None \notin Threads /\ \A t \in Threads : t[1] \in Slots /\ t[2] \in Places /\ t = <<t[1], t[2]>>
  BY Sizes DEF Threads, None, Slots

(* Some of the slots are in use, and no more than there are.                 *)
LEMMA UsedBound ==
  ASSUME NEW U \in SUBSET Slots
  PROVE  IsFiniteSet(U) /\ Cardinality(U) \in 0..MAX_PROCESSES
<1>1. IsFiniteSet(Slots) /\ Cardinality(Slots) = MAX_PROCESSES
  BY Sizes, FS_Interval DEF Slots
<1>2. IsFiniteSet(U) /\ Cardinality(U) <= Cardinality(Slots)
  BY <1>1, FS_Subset
<1>3. QED
  BY <1>1, <1>2, FS_CardinalityType

-----------------------------------------------------------------------------
(* create_thread keeps the types, given a process it may be put in.          *)
LEMMA AddThreadTypes ==
  ASSUME TypeOK, NEW i \in Slots, NEW n \in Nat, n < MAX_THREADS_PER_PROCESS,
         NEW taken \in SUBSET Pages, AddThread(i, n, taken)
  PROVE  /\ thread_count' = [thread_count EXCEPT ![i] = n + 1]
         /\ thread_count' \in [Slots -> 0..MAX_THREADS_PER_PROCESS]
         /\ state' \in [Threads -> {"ready", "running"}]
         /\ next' \in [Threads -> Threads \union {None}]
         /\ prev' \in [Threads -> Threads \union {None}]
         /\ stack' \in [Threads -> Pages \union {NULL}]
         /\ ready_queue' \in Threads
         /\ running_thread' = running_thread /\ UNCHANGED <<dying, at>>
         /\ free' \subseteq Pages /\ owned' \subseteq Pages /\ lost' = lost
         /\ queue' \in Seq(Threads) /\ exited' = exited
         /\ refused' \in BOOLEAN
<1> DEFINE t == <<i, n + 1>>
<1>1. t \in Threads
  BY Sizes, ThreadOf DEF Places
<1>2. PICK s \in Obtained(taken) :
        /\ stack' = [stack EXCEPT ![t] = s]
        /\ free' = free \ (taken \union {s})
        /\ owned' = owned \union ((taken \union {s}) \ {NULL})
        /\ refused' = (refused \/ s = NULL)
  BY DEF AddThread
<1>3. s \in Pages \union {NULL}
  BY DEF Obtained, TypeOK
<1>4. /\ state' = [state EXCEPT ![t] = "ready"]
      /\ next' = [next EXCEPT ![t] = ready_queue]
      /\ prev' = IF ready_queue = None THEN [prev EXCEPT ![t] = None]
                 ELSE [prev EXCEPT ![t] = None, ![ready_queue] = t]
      /\ ready_queue' = t /\ thread_count' = [thread_count EXCEPT ![i] = n + 1]
      /\ UNCHANGED <<running_thread, lost, dying, at, exited>>
      /\ queue' = IF exited' THEN <<>> ELSE <<t>> \o queue
  BY DEF AddThread, Intend, loop
<1>5. /\ state' \in [Threads -> {"ready", "running"}]
      /\ next' \in [Threads -> Threads \union {None}]
      /\ prev' \in [Threads -> Threads \union {None}]
  BY <1>1, <1>4 DEF TypeOK
<1>6. stack' \in [Threads -> Pages \union {NULL}]
  BY <1>1, <1>2, <1>3 DEF TypeOK
<1>7. thread_count' \in [Slots -> 0..MAX_THREADS_PER_PROCESS]
  BY <1>4, Sizes DEF TypeOK
<1>8. queue' \in Seq(Threads)
  BY <1>1, <1>4 DEF TypeOK
<1>9. free' \subseteq Pages /\ owned' \subseteq Pages
  BY <1>2, <1>3 DEF TypeOK
<1>10. refused' \in BOOLEAN
  BY <1>2 DEF TypeOK
<1>11. QED
  BY <1>1, <1>4, <1>5, <1>6, <1>7, <1>8, <1>9, <1>10

(* The links a thread leaves behind are links.                               *)
LEMMA UnlinkTypes ==
  ASSUME TypeOK, NEW t \in Threads, Unlink(t)
  PROVE  /\ next' \in [Threads -> Threads \union {None}]
         /\ prev' \in [Threads -> Threads \union {None}]
         /\ state' = state
         /\ ready_queue' \in Threads \union {None}
         /\ running_thread' \in Threads \union {None}
  BY DEF TypeOK, Unlink

(* Taking a waiting thread out of the intended list.                         *)
LEMMA LeftSeq ==
  ASSUME queue \in Seq(Threads), NEW t \in Waiting
  PROVE  /\ Left(t) \in Seq(Threads)
         /\ \E k \in 1..Len(queue) :
              /\ queue[k] = t
              /\ Len(Left(t)) = Len(queue) - 1
              /\ \A i \in 1..(Len(queue) - 1) :
                   Left(t)[i] = IF i < k THEN queue[i] ELSE queue[i + 1]
<1> DEFINE k == CHOOSE j \in 1..Len(queue) : queue[j] = t
           f == [i \in 1..(Len(queue) - 1) |-> IF i < k THEN queue[i] ELSE queue[i + 1]]
<1>1. k \in 1..Len(queue) /\ queue[k] = t
  BY DEF Waiting
<1> HIDE DEF k
<1>2. Len(queue) - 1 \in Nat /\ \A i \in 1..(Len(queue) - 1) :
        (IF i < k THEN queue[i] ELSE queue[i + 1]) \in Threads
  BY <1>1
<1>3. f \in [1..(Len(queue) - 1) -> Threads]
  BY <1>2
<1>4. f \in Seq(Threads) /\ Len(f) = Len(queue) - 1
  BY <1>2, <1>3
<1>5. Left(t) = f
  BY DEF Left, k
<1>6. QED
  BY <1>1, <1>4, <1>5

(* What is left of the intended list is a list of threads.                   *)
LEMMA LeftType ==
  ASSUME queue \in Seq(Threads), NEW t
  PROVE  Left(t) \in Seq(Threads)
<1>1. CASE t \in Waiting
  BY <1>1, LeftSeq
<1>2. CASE t \notin Waiting
  BY <1>2 DEF Left
<1>3. QED
  BY <1>1, <1>2

-----------------------------------------------------------------------------
(* The table, its counter and the loop of destroy_process, step by step.     *)
LEMMA TableStep == TableInv /\ [Next]_vars => TableInv'
<1> SUFFICES ASSUME TableInv, [Next]_vars PROVE TableInv'
  OBVIOUS
<1> USE DEF TableInv
<1>1. CASE CreateProcess
  <2>1. PICK i \in Slots, root \in Obtained({}) :
          /\ ~used[i] /\ pid' = [pid EXCEPT ![i] = i] /\ used' = [used EXCEPT ![i] = TRUE]
          /\ page_table' = [page_table EXCEPT ![i] = root]
          /\ AddThread(i, 0, {root} \ {NULL})
    BY <1>1 DEF CreateProcess
  <2>2. root \in Pages \union {NULL} /\ {root} \ {NULL} \in SUBSET Pages
    BY DEF Obtained, TypeOK
  <2>3. dying = Nobody /\ process_count' = process_count + 1
    BY <1>1 DEF CreateProcess
  <2>4. Used' = Used \union {i} /\ i \notin Used /\ Used' \in SUBSET Slots /\ Used \in SUBSET Slots
    BY <2>1 DEF Used, TypeOK
  <2>5. Cardinality(Used') = Cardinality(Used) + 1 /\ Cardinality(Used') \in 0..MAX_PROCESSES
    BY <2>4, UsedBound, FS_AddElement
  <2>6. process_count' = Cardinality(Used') /\ process_count' \in 0..MAX_PROCESSES
    BY <2>3, <2>5 DEF CountExact, Used
  <2>7. /\ pid' \in [Slots -> 0..MAX_PROCESSES] /\ used' \in [Slots -> BOOLEAN]
        /\ page_table' \in [Slots -> Pages \union {NULL}]
    BY <2>1, <2>2 DEF TypeOK, Slots
  <2>8. TypeOK'
    BY <2>1, <2>2, <2>6, <2>7, AddThreadTypes, Sizes DEF TypeOK
  <2>9. CountExact'
    BY <2>1, <2>6 DEF CountExact, Used, TypeOK
  <2>10. dying' = dying /\ at' = at
    BY <2>1 DEF AddThread, loop
  <2>11. LoopOK'
    BY <2>3, <2>10 DEF LoopOK
  <2>12. QED
    BY <2>8, <2>9, <2>11
<1>2. ASSUME NEW i \in Slots, CreateThread(i) PROVE TableInv'
  <2>1. /\ dying = Nobody /\ thread_count[i] \in Nat
        /\ thread_count[i] < MAX_THREADS_PER_PROCESS /\ AddThread(i, thread_count[i], {})
        /\ UNCHANGED <<pid, used, page_table, process_count>>
    BY <1>2 DEF CreateThread, TypeOK
  <2>2. TypeOK'
    BY <2>1, AddThreadTypes, Sizes DEF TypeOK
  <2>3. dying' = dying /\ at' = at
    BY <2>1 DEF AddThread, loop
  <2>4. LoopOK' /\ CountExact'
    BY <2>1, <2>3 DEF LoopOK, CountExact
  <2>5. QED
    BY <2>2, <2>4
<1>3. ASSUME NEW i \in Slots, DestroyProcess(i) PROVE TableInv'
  <2>1. UNCHANGED <<table, lists, stack, process_count, pages, intended>> /\ used[i] /\ dying' = i /\ at' = 1
    BY <1>3 DEF DestroyProcess
  <2>2. TypeOK'
    BY <2>1, Sizes DEF TypeOK, table, lists, pages, intended
  <2>3. used' = used /\ pid' = pid /\ process_count' = process_count /\ thread_count' = thread_count
    BY <2>1 DEF table
  <2>4. LoopOK'
    <3>1. thread_count[i] \in Nat
      BY DEF TypeOK
    <3>2. QED
      BY <2>1, <2>3, <3>1 DEF LoopOK, Slots, Nobody
  <2>5. CountExact'
    BY <2>3 DEF CountExact
  <2>6. QED
    BY <2>2, <2>4, <2>5
<1>4. CASE DestroyThread
  <2> DEFINE t == <<dying, at>>
  <2>1. /\ dying \in Slots /\ at \in Places /\ at <= thread_count[dying] /\ at' = at + 1
        /\ Unlink(t) /\ exited' = (exited \/ running_thread = t) /\ Intend(Left(t))
        /\ UNCHANGED <<table, stack, process_count, pages, dying, refused>>
    BY <1>4, Sizes DEF DestroyThread, TypeOK, Places, Slots, Nobody
  <2>2. t \in Threads
    BY <2>1, ThreadOf
  <2>3. queue' \in Seq(Threads) /\ exited' \in BOOLEAN
    BY <2>1, LeftType DEF TypeOK, Intend
  <2>4. TypeOK'
    BY <2>1, <2>2, <2>3, UnlinkTypes, Sizes DEF TypeOK, table, pages, Places
  <2>5. LoopOK' /\ CountExact'
    BY <2>1 DEF LoopOK, CountExact, table, TypeOK, Nobody, Slots, Places
  <2>6. QED
    BY <2>4, <2>5
<1>5. CASE Destroyed
  <2>1. /\ dying \in Slots /\ used[dying] /\ dying' = Nobody /\ at' = 1
        /\ used' = [used EXCEPT ![dying] = FALSE] /\ pid' = [pid EXCEPT ![dying] = 0]
        /\ thread_count' = [thread_count EXCEPT ![dying] = 0]
        /\ process_count' = process_count - 1
        /\ UNCHANGED <<page_table, lists, stack, intended>>
    BY <1>5 DEF Destroyed, TypeOK, LoopOK
  <2>2. free' \subseteq Pages /\ owned' \subseteq Pages /\ lost' \subseteq Pages
    BY <1>5 DEF Destroyed, Pmm!Release, TypeOK, pages
  <2>3. Used' = Used \ {dying} /\ dying \in Used /\ Used \in SUBSET Slots /\ Used' \in SUBSET Slots
    BY <2>1 DEF Used, TypeOK
  <2>4. Cardinality(Used') = Cardinality(Used) - 1 /\ Cardinality(Used') \in 0..MAX_PROCESSES
    BY <2>3, UsedBound, FS_RemoveElement
  <2>5. process_count' = Cardinality(Used') /\ process_count' \in 0..MAX_PROCESSES
    BY <2>1, <2>4 DEF CountExact, Used
  <2>6. TypeOK'
    BY <2>1, <2>2, <2>5, Sizes DEF TypeOK, lists, intended
  <2>7. CountExact'
    BY <2>1, <2>5 DEF CountExact, Used, TypeOK
  <2>8. LoopOK'
    BY <2>1 DEF LoopOK
  <2>9. QED
    BY <2>6, <2>7, <2>8
<1>6. CASE Schedule
  <2>1. /\ ready_queue \in Threads /\ next[ready_queue] \in Threads \union {None}
        /\ UNCHANGED <<table, stack, process_count, pages, loop, exited, refused>>
    BY <1>6 DEF Schedule, TypeOK
  <2>2. /\ state' \in [Threads -> {"ready", "running"}]
        /\ next' \in [Threads -> Threads \union {None}]
        /\ prev' \in [Threads -> Threads \union {None}]
        /\ ready_queue' \in Threads \union {None} /\ running_thread' \in Threads
    BY <1>6, <2>1 DEF Schedule, TypeOK
  <2>3. queue' \in Seq(Threads)
    <3>1. Left(ready_queue) \in Seq(Threads)
      BY LeftType DEF TypeOK
    <3>2. running_thread \in Threads \/ running_thread = None
      BY DEF TypeOK
    <3>3. queue' = IF exited' THEN <<>> ELSE IF running_thread = None THEN Left(ready_queue)
                                             ELSE <<running_thread>> \o Left(ready_queue)
      BY <1>6 DEF Schedule, Intend
    <3>4. QED
      BY <3>1, <3>2, <3>3
  <2>4. TypeOK'
    BY <2>1, <2>2, <2>3 DEF TypeOK, table, pages, loop
  <2>5. LoopOK' /\ CountExact'
    BY <2>1 DEF LoopOK, CountExact, table, loop
  <2>6. QED
    BY <2>4, <2>5
<1>7. CASE UNCHANGED vars
  BY <1>7 DEF vars, table, lists, pages, loop, intended, TypeOK, LoopOK, CountExact
<1>8. QED
  BY <1>1, <1>2, <1>3, <1>4, <1>5, <1>6, <1>7 DEF Next

-----------------------------------------------------------------------------
(* Who is alive after each step.                                             *)
LEMMA LiveAfterCreateThread ==
  ASSUME TableInv, NEW i \in Slots, CreateThread(i)
  PROVE  /\ <<i, thread_count[i] + 1>> \in Threads \ Live
         /\ Live' = Live \union {<<i, thread_count[i] + 1>>}
<1>1. /\ dying = Nobody /\ dying' = dying /\ used[i] /\ used' = used
      /\ thread_count[i] \in Nat /\ thread_count[i] + 1 \in Places
      /\ thread_count' = [thread_count EXCEPT ![i] = thread_count[i] + 1]
  BY Sizes DEF CreateThread, AddThread, TableInv, TypeOK, loop, Places
<1>2. <<i, thread_count[i] + 1>> \in Threads \ Live
  BY <1>1, ThreadOf DEF Live
<1>3. \A t \in Threads : t \in Live' <=> t \in Live \/ t = <<i, thread_count[i] + 1>>
  <2> SUFFICES ASSUME NEW t \in Threads
               PROVE  t \in Live' <=> t \in Live \/ t = <<i, thread_count[i] + 1>>
    OBVIOUS
  <2>1. t[1] \in Slots /\ t[2] \in Nat /\ t = <<t[1], t[2]>> /\ t[1] # Nobody
    BY NoneIsNoThread, Sizes DEF Places, Slots, Nobody
  <2>2. thread_count \in [Slots -> Nat]
    BY DEF TableInv, TypeOK
  <2>3. CASE t[1] = i
    BY <1>1, <2>1, <2>2, <2>3 DEF Live
  <2>4. CASE t[1] # i
    BY <1>1, <2>1, <2>2, <2>4 DEF Live
  <2>5. QED
    BY <2>3, <2>4
<1>4. QED
  BY <1>2, <1>3 DEF Live

(* create_process adds the first thread of its process.                      *)
LEMMA LiveAfterCreateProcess ==
  ASSUME TableInv, NEW i \in Slots, NEW root, ~used[i], dying = Nobody,
         used' = [used EXCEPT ![i] = TRUE], AddThread(i, 0, {root} \ {NULL})
  PROVE  /\ <<i, 1>> \in Threads \ Live
         /\ Live' = Live \union {<<i, 1>>}
<1>1. /\ dying' = dying /\ 1 \in Places /\ thread_count' = [thread_count EXCEPT ![i] = 1]
  BY Sizes DEF AddThread, loop, Places
<1>2. <<i, 1>> \in Threads \ Live
  BY <1>1, ThreadOf DEF Live
<1>3. \A t \in Threads : t \in Live' <=> t \in Live \/ t = <<i, 1>>
  <2> SUFFICES ASSUME NEW t \in Threads
               PROVE  t \in Live' <=> t \in Live \/ t = <<i, 1>>
    OBVIOUS
  <2>1. t[1] \in Slots /\ t[2] \in Nat \ {0} /\ t = <<t[1], t[2]>> /\ t[1] # Nobody
    BY NoneIsNoThread, Sizes DEF Places, Slots, Nobody
  <2>2. thread_count \in [Slots -> Nat] /\ used \in [Slots -> BOOLEAN]
    BY DEF TableInv, TypeOK
  <2>3. CASE t[1] = i
    BY <1>1, <2>1, <2>2, <2>3 DEF Live
  <2>4. CASE t[1] # i
    BY <1>1, <2>1, <2>2, <2>4 DEF Live
  <2>5. QED
    BY <2>3, <2>4
<1>4. QED
  BY <1>2, <1>3 DEF Live

(* A round of destroy_process ends the life of one thread.                   *)
LEMMA LiveAfterDestroyThread ==
  ASSUME TableInv, DestroyThread
  PROVE  <<dying, at>> \in Live /\ Live' = Live \ {<<dying, at>>}
<1>1. /\ dying \in Slots /\ at \in Places /\ at <= thread_count[dying] /\ at' = at + 1
      /\ used[dying] /\ UNCHANGED <<used, thread_count, dying>>
  BY Sizes DEF DestroyThread, TableInv, TypeOK, LoopOK, Places, Slots, Nobody, table
<1>2. <<dying, at>> \in Live
  BY <1>1, ThreadOf DEF Live, Places
<1>3. \A t \in Threads : t \in Live' <=> t \in Live /\ t # <<dying, at>>
  <2> SUFFICES ASSUME NEW t \in Threads
               PROVE  t \in Live' <=> t \in Live /\ t # <<dying, at>>
    OBVIOUS
  <2>1. t[1] \in Slots /\ t[2] \in Nat /\ t = <<t[1], t[2]>> /\ at \in Nat
    BY <1>1, NoneIsNoThread DEF Places
  <2>2. t[2] >= at + 1 <=> t[2] >= at /\ t[2] # at
    BY <2>1
  <2>3. QED
    BY <1>1, <2>1, <2>2 DEF Live
<1>4. QED
  BY <1>2, <1>3 DEF Live

(* The other steps of destroy_process end no life.                           *)
LEMMA LiveKept ==
  ASSUME TableInv,
         (\E i \in Slots : DestroyProcess(i)) \/ Destroyed \/ Schedule \/ UNCHANGED vars
  PROVE  Live' = Live
<1>1. CASE \E i \in Slots : DestroyProcess(i)
  <2>1. PICK i \in Slots : /\ dying = Nobody /\ dying' = i /\ at' = 1
                           /\ UNCHANGED <<used, thread_count>>
    BY <1>1 DEF DestroyProcess, table
  <2>2. \A t \in Threads : t[1] # Nobody /\ t[2] >= 1
    BY NoneIsNoThread, Sizes DEF Slots, Places, Nobody
  <2>3. QED
    BY <2>1, <2>2 DEF Live
<1>2. CASE Destroyed
  <2>1. /\ dying \in Slots /\ dying' = Nobody /\ used' = [used EXCEPT ![dying] = FALSE]
        /\ thread_count' = [thread_count EXCEPT ![dying] = 0] /\ at > thread_count[dying]
    BY <1>2 DEF Destroyed, TableInv, TypeOK
  <2>2. used \in [Slots -> BOOLEAN] /\ thread_count \in [Slots -> Nat] /\ at \in Nat
    BY Sizes DEF TableInv, TypeOK
  <2>3. ASSUME NEW t \in Threads PROVE t \in Live' <=> t \in Live
    <3>1. t[1] \in Slots /\ t[2] \in Nat /\ t[1] # Nobody
      BY NoneIsNoThread, Sizes DEF Places, Slots, Nobody
    <3>2. CASE t[1] = dying
      <4>1. t \notin Live' BY <2>1, <2>2, <3>1, <3>2 DEF Live
      <4>2. t \notin Live BY <2>1, <2>2, <3>1, <3>2 DEF Live
      <4>3. QED BY <4>1, <4>2
    <3>3. CASE t[1] # dying
      BY <2>1, <2>2, <3>1, <3>3 DEF Live
    <3>4. QED
      BY <3>2, <3>3
  <2>4. QED
    BY <2>3 DEF Live
<1>3. CASE Schedule
  BY <1>3 DEF Schedule, Live, table, loop
<1>4. CASE UNCHANGED vars
  BY <1>4 DEF vars, Live, table, loop
<1>5. QED
  BY <1>1, <1>2, <1>3, <1>4

-----------------------------------------------------------------------------
(* The links: a thread is put at the head of the list.                       *)
LEMMA EnqueueLinks ==
  ASSUME TableInv, NoDeadThreadScheduled, NEW i \in Slots, NEW n \in Nat, NEW taken,
         AddThread(i, n, taken), <<i, n + 1>> \in Threads \ Live,
         Live' = Live \union {<<i, n + 1>>}
  PROVE  NoDeadThreadScheduled'
<1> DEFINE t == <<i, n + 1>>
<1>1. /\ state' = [state EXCEPT ![t] = "ready"]
      /\ next' = [next EXCEPT ![t] = ready_queue]
      /\ prev' = IF ready_queue = None THEN [prev EXCEPT ![t] = None]
                 ELSE [prev EXCEPT ![t] = None, ![ready_queue] = t]
      /\ ready_queue' = t
      /\ running_thread' = running_thread
  BY DEF AddThread
<1>2. t \in Threads \ Live /\ Live' = Live \union {t} /\ t # None
  BY NoneIsNoThread
<1> HIDE DEF t
<1>3. /\ state \in [Threads -> {"ready", "running"}]
      /\ next \in [Threads -> Threads \union {None}]
      /\ prev \in [Threads -> Threads \union {None}]
      /\ Live \subseteq Threads /\ None \notin Threads
  BY NoneIsNoThread DEF TableInv, TypeOK, Live
<1>4. Linked' = Linked \union {t} /\ t \notin Linked /\ Linked \subseteq Live
  BY <1>1, <1>2, <1>3 DEF Linked, NoDeadThreadScheduled
<1>5. running_thread' # None =>
        /\ running_thread' \in Live'
        /\ next'[running_thread'] = None /\ prev'[running_thread'] = None
  BY <1>1, <1>2, <1>3 DEF NoDeadThreadScheduled, Linked
<1>6. ready_queue' # None => ready_queue' \in Linked' /\ prev'[ready_queue'] = None
  BY <1>1, <1>2, <1>3, <1>4 DEF NoDeadThreadScheduled
<1>7. \A u \in Live' : state'[u] = "running" <=> u = running_thread'
  BY <1>1, <1>2, <1>3 DEF NoDeadThreadScheduled
<1>8. \A u \in Linked' : next'[u] # None => next'[u] \in Linked' /\ prev'[next'[u]] = u
  BY <1>1, <1>2, <1>3, <1>4 DEF NoDeadThreadScheduled
<1>9. \A u \in Linked' : prev'[u] # None => prev'[u] \in Linked' /\ next'[prev'[u]] = u
  BY <1>1, <1>2, <1>3, <1>4 DEF NoDeadThreadScheduled
<1>10. QED
  BY <1>5, <1>6, <1>7, <1>8, <1>9 DEF NoDeadThreadScheduled

(* The links: a thread leaves the list, or is the running one.               *)
LEMMA UnlinkLinks ==
  ASSUME TableInv, NoDeadThreadScheduled, NEW t \in Live, Unlink(t), Live' = Live \ {t}
  PROVE  NoDeadThreadScheduled'
<1>1. /\ state \in [Threads -> {"ready", "running"}]
      /\ next \in [Threads -> Threads \union {None}]
      /\ prev \in [Threads -> Threads \union {None}]
      /\ Live \subseteq Threads /\ None \notin Threads
  BY NoneIsNoThread DEF TableInv, TypeOK, Live
<1>2. /\ next' = IF prev[t] = None THEN next ELSE [next EXCEPT ![prev[t]] = next[t]]
      /\ ready_queue' = IF prev[t] = None THEN next[t] ELSE ready_queue
      /\ prev' = IF next[t] = None THEN prev ELSE [prev EXCEPT ![next[t]] = prev[t]]
      /\ running_thread' = IF state[t] = "running" THEN None ELSE running_thread
      /\ state' = state
  BY DEF Unlink
<1>3. Linked' = Linked \ {t} /\ Linked \subseteq Live
  BY <1>1, <1>2 DEF Linked, NoDeadThreadScheduled
<1>4. state[t] = "running" <=> t = running_thread
  BY DEF NoDeadThreadScheduled
<1>5. CASE t = running_thread
  <2>1. prev[t] = None /\ next[t] = None
    BY <1>1, <1>5 DEF NoDeadThreadScheduled
  <2>2. UNCHANGED <<next, prev, state>> /\ ready_queue' = None /\ running_thread' = None
    BY <1>2, <1>4, <1>5, <2>1
  <2>3. Linked' = Linked
    BY <1>3, <1>5 DEF Linked
  <2>4. QED
    BY <1>1, <1>4, <1>5, <2>2, <2>3 DEF NoDeadThreadScheduled
<1>6. CASE t # running_thread
  <2>1. running_thread' = running_thread /\ t \in Linked
    BY <1>2, <1>4, <1>6 DEF Linked
  <2>2. next[t] # None => next[t] \in Linked /\ prev[next[t]] = t
    BY <2>1 DEF NoDeadThreadScheduled
  <2>3. prev[t] # None => prev[t] \in Linked /\ next[prev[t]] = t
    BY <2>1 DEF NoDeadThreadScheduled
  <2>4. ready_queue = t => prev[t] = None
    BY <1>1 DEF NoDeadThreadScheduled
  <2>5. next[t] = t => prev[t] = t
    BY <1>1, <2>2
  <2>6. running_thread' # None =>
          /\ running_thread' \in Live'
          /\ next'[running_thread'] = None /\ prev'[running_thread'] = None
    BY <1>1, <1>2, <1>6, <2>1, <2>2, <2>3 DEF NoDeadThreadScheduled, Linked
  <2>7. ready_queue' # None => ready_queue' \in Linked' /\ prev'[ready_queue'] = None
    <3>1. CASE prev[t] = None
      BY <1>1, <1>2, <1>3, <2>2, <2>5, <3>1
    <3>2. CASE prev[t] # None
      <4>1. ready_queue' = ready_queue /\ ready_queue # t
        BY <1>1, <1>2, <2>4, <3>2
      <4>2. ready_queue # None => ready_queue \in Linked' /\ prev[ready_queue] = None
        BY <1>3, <4>1 DEF NoDeadThreadScheduled
      <4>3. next[t] # None => next[t] # ready_queue
        BY <1>1, <2>2, <4>2
      <4>4. QED
        BY <1>1, <1>2, <1>3, <4>1, <4>2, <4>3
    <3>3. QED
      BY <3>1, <3>2
  <2>8. \A u \in Live' : state'[u] = "running" <=> u = running_thread'
    BY <1>2, <2>1 DEF NoDeadThreadScheduled
  <2>9. \A u \in Linked' : next'[u] # None => next'[u] \in Linked' /\ prev'[next'[u]] = u
    <3> SUFFICES ASSUME NEW u \in Linked', next'[u] # None
                 PROVE  next'[u] \in Linked' /\ prev'[next'[u]] = u
      OBVIOUS
    <3>1. u \in Linked /\ u # t /\ u \in Threads
      BY <1>1, <1>3
    <3>2. next[u] # None => next[u] \in Linked /\ prev[next[u]] = u
      BY <3>1 DEF NoDeadThreadScheduled
    <3>3. CASE u = prev[t]
      BY <1>1, <1>2, <1>3, <2>1, <2>2, <2>3, <2>5, <3>1, <3>2, <3>3
    <3>4. CASE u # prev[t]
      <4>1. next'[u] = next[u]
        BY <1>1, <1>2, <3>1, <3>4
      <4>2. next[u] # t
        BY <1>1, <3>2, <3>4, <4>1
      <4>3. next[u] # next[t]
        BY <2>2, <3>1, <3>2, <4>1
      <4>4. QED
        BY <1>1, <1>2, <1>3, <3>2, <4>1, <4>2, <4>3
    <3>5. QED
      BY <3>3, <3>4
  <2>10. \A u \in Linked' : prev'[u] # None => prev'[u] \in Linked' /\ next'[prev'[u]] = u
    <3> SUFFICES ASSUME NEW u \in Linked', prev'[u] # None
                 PROVE  prev'[u] \in Linked' /\ next'[prev'[u]] = u
      OBVIOUS
    <3>1. u \in Linked /\ u # t /\ u \in Threads
      BY <1>1, <1>3
    <3>2. prev[u] # None => prev[u] \in Linked /\ next[prev[u]] = u
      BY <3>1 DEF NoDeadThreadScheduled
    <3>3. CASE u = next[t]
      BY <1>1, <1>2, <1>3, <2>1, <2>2, <2>3, <2>5, <3>1, <3>2, <3>3
    <3>4. CASE u # next[t]
      <4>1. prev'[u] = prev[u]
        BY <1>1, <1>2, <3>1, <3>4
      <4>2. prev[u] # t
        BY <1>1, <3>2, <3>4, <4>1
      <4>3. prev[u] # prev[t]
        BY <2>3, <3>1, <3>2, <4>1
      <4>4. QED
        BY <1>1, <1>2, <1>3, <3>2, <4>1, <4>2, <4>3
    <3>5. QED
      BY <3>3, <3>4
  <2>11. QED
    BY <2>6, <2>7, <2>8, <2>9, <2>10 DEF NoDeadThreadScheduled
<1>7. QED
  BY <1>5, <1>6

(* The links: the head of the list runs and the running thread goes there.   *)
LEMMA ScheduleLinks ==
  ASSUME TableInv, NoDeadThreadScheduled, Schedule, Live' = Live
  PROVE  NoDeadThreadScheduled'
<1> DEFINE new == ready_queue
           old == running_thread
           rest == next[new]
           back == [t \in Threads |-> IF t \in {new, rest} THEN None ELSE prev[t]]
<1>1. /\ state \in [Threads -> {"ready", "running"}]
      /\ next \in [Threads -> Threads \union {None}]
      /\ prev \in [Threads -> Threads \union {None}]
      /\ Live \subseteq Threads /\ None \notin Threads /\ Linked \subseteq Live
  BY NoneIsNoThread DEF TableInv, TypeOK, Live, Linked
<1>2. new \in Linked /\ prev[new] = None /\ new # old /\ new # None /\ old \notin Linked
  BY DEF Schedule, NoDeadThreadScheduled, Linked
<1>3. rest # None => rest \in Linked /\ prev[rest] = new /\ rest # new
  BY <1>1, <1>2 DEF NoDeadThreadScheduled
<1>4. old # None => old \in Live /\ next[old] = None /\ prev[old] = None
  BY DEF NoDeadThreadScheduled
<1>5. /\ running_thread' = new
      /\ old = None =>
           /\ state' = [state EXCEPT ![new] = "running"]
           /\ next' = [next EXCEPT ![new] = None]
           /\ prev' = back
           /\ ready_queue' = rest
      /\ old # None =>
           /\ state' = [state EXCEPT ![new] = "running", ![old] = "ready"]
           /\ next' = [next EXCEPT ![new] = None, ![old] = rest]
           /\ prev' = IF rest = None THEN back ELSE [back EXCEPT ![rest] = old]
           /\ ready_queue' = old
  BY <1>2 DEF Schedule
<1>6. \A u \in Linked : next[u] # None => next[u] \in Linked /\ prev[next[u]] = u
  BY DEF NoDeadThreadScheduled
<1>7. \A u \in Linked : prev[u] # None => prev[u] \in Linked /\ next[prev[u]] = u
  BY DEF NoDeadThreadScheduled
<1>8. \A u \in Live : state[u] = "running" <=> u = old
  BY DEF NoDeadThreadScheduled
<1>9. Linked' = Live \ {new}
  BY <1>5 DEF Linked
<1>10. Linked = Live \ {old}
  BY DEF Linked
<1> HIDE DEF new, old, rest
<1>11. new \in Threads /\ (old \in Threads \/ old = None) /\ (rest \in Threads \/ rest = None) /\ rest # new
  BY <1>1, <1>2, <1>3, <1>4
<1>12. \A u \in Threads : next'[u] = IF u = new THEN None ELSE IF u = old THEN rest ELSE next[u]
  BY <1>1, <1>2, <1>5, <1>11
<1>13. \A u \in Threads : prev'[u] = IF u = new THEN None ELSE IF u = rest THEN old ELSE prev[u]
  <2>1. \A u \in Threads : back[u] = IF u = new THEN None ELSE IF u = rest THEN None ELSE prev[u]
    OBVIOUS
  <2>2. back \in [Threads -> Threads \union {None}]
    BY <1>1
  <2> HIDE DEF back
  <2>3. CASE old = None
    BY <1>5, <2>1, <2>3
  <2>4. CASE old # None
    <3>1. CASE rest = None
      BY <1>1, <1>5, <2>1, <2>4, <3>1
    <3>2. CASE rest # None
      <4>1. prev' = [back EXCEPT ![rest] = old]
        BY <1>5, <2>4, <3>2
      <4>2. QED
        BY <1>11, <2>1, <2>2, <3>2, <4>1
    <3>3. QED
      BY <3>1, <3>2
  <2>5. QED
    BY <2>3, <2>4
<1>14. ready_queue' = IF old = None THEN rest ELSE old
  BY <1>5
<1>15. /\ running_thread' \in Live' /\ next'[running_thread'] = None
       /\ prev'[running_thread'] = None
  BY <1>1, <1>2, <1>5, <1>11, <1>12, <1>13
<1>16. old = None => \A u \in Linked' : u # old /\ u \in Linked
  BY <1>1, <1>9, <1>10
<1>17. old # None => rest # old /\ old \in Linked'
  BY <1>2, <1>3, <1>4, <1>9, <1>10
<1>18. ready_queue' # None => ready_queue' \in Linked' /\ prev'[ready_queue'] = None
  <2>1. CASE old = None
    BY <1>1, <1>3, <1>9, <1>10, <1>11, <1>13, <1>14, <2>1
  <2>2. CASE old # None
    BY <1>2, <1>4, <1>11, <1>13, <1>14, <1>17, <2>2
  <2>3. QED
    BY <2>1, <2>2
<1>19. \A u \in Live' : state'[u] = "running" <=> u = running_thread'
  BY <1>1, <1>2, <1>5, <1>8, <1>11
<1>20. ASSUME NEW u \in Linked', next'[u] # None
       PROVE  next'[u] \in Linked' /\ prev'[next'[u]] = u
  <2>1. u \in Threads /\ u # new /\ (u = old \/ u \in Linked)
    BY <1>1, <1>9, <1>10, <1>20
  <2>2. CASE u = old
    BY <1>3, <1>9, <1>10, <1>11, <1>12, <1>13, <1>20, <2>1, <2>2
  <2>3. CASE u # old
    <3>1. next'[u] = next[u] /\ next[u] \in Linked /\ prev[next[u]] = u
      BY <1>6, <1>12, <1>20, <2>1, <2>3
    <3>2. next[u] # new /\ next[u] # rest
      BY <1>1, <1>2, <1>3, <2>1, <3>1
    <3>3. QED
      BY <1>1, <1>9, <1>10, <1>13, <3>1, <3>2
  <2>4. QED
    BY <2>2, <2>3
<1>21. ASSUME NEW u \in Linked', prev'[u] # None
       PROVE  prev'[u] \in Linked' /\ next'[prev'[u]] = u
  <2>1. u \in Threads /\ u # new /\ (u = old \/ u \in Linked)
    BY <1>1, <1>9, <1>10, <1>21
  <2>2. CASE u = rest
    BY <1>4, <1>9, <1>11, <1>12, <1>13, <1>17, <1>21, <2>1, <2>2
  <2>3. CASE u # rest
    <3>1. prev'[u] = prev[u] /\ u # old
      BY <1>1, <1>4, <1>13, <1>21, <2>1, <2>3
    <3>2. prev[u] \in Linked /\ next[prev[u]] = u
      BY <1>7, <1>21, <2>1, <3>1
    <3>3. prev[u] # new
      BY <2>3, <3>2 DEF rest
    <3>4. QED
      BY <1>1, <1>2, <1>9, <1>10, <1>12, <3>1, <3>2, <3>3
  <2>4. QED
    BY <2>2, <2>3
<1>22. QED
  BY <1>15, <1>18, <1>19, <1>20, <1>21 DEF NoDeadThreadScheduled

(* No step schedules a dead thread.                                          *)
LEMMA LinksStep == TableInv /\ NoDeadThreadScheduled /\ [Next]_vars => NoDeadThreadScheduled'
<1> SUFFICES ASSUME TableInv, NoDeadThreadScheduled, [Next]_vars PROVE NoDeadThreadScheduled'
  OBVIOUS
<1>1. CASE CreateProcess
  <2>1. PICK i \in Slots, root \in Obtained({}) :
          /\ ~used[i] /\ used' = [used EXCEPT ![i] = TRUE]
          /\ AddThread(i, 0, {root} \ {NULL})
    BY <1>1 DEF CreateProcess
  <2>2. dying = Nobody
    BY <1>1 DEF CreateProcess
  <2>3. <<i, 1>> \in Threads \ Live /\ Live' = Live \union {<<i, 1>>}
    BY <2>1, <2>2, LiveAfterCreateProcess
  <2>4. 0 \in Nat /\ 0 + 1 = 1
    OBVIOUS
  <2>5. QED
    BY <2>1, <2>3, <2>4, EnqueueLinks
<1>2. ASSUME NEW i \in Slots, CreateThread(i) PROVE NoDeadThreadScheduled'
  <2>1. thread_count[i] \in Nat /\ AddThread(i, thread_count[i], {})
    BY <1>2 DEF CreateThread, TableInv, TypeOK
  <2>2. QED
    BY <1>2, <2>1, LiveAfterCreateThread, EnqueueLinks
<1>3. CASE DestroyThread
  <2>1. Unlink(<<dying, at>>)
    BY <1>3 DEF DestroyThread
  <2>2. QED
    BY <1>3, <2>1, LiveAfterDestroyThread, UnlinkLinks
<1>4. CASE Schedule
  BY <1>4, LiveKept, ScheduleLinks
<1>5. CASE (\E i \in Slots : DestroyProcess(i)) \/ Destroyed \/ UNCHANGED vars
  <2>1. Live' = Live
    BY <1>5, LiveKept
  <2>2. UNCHANGED lists
    BY <1>5 DEF DestroyProcess, Destroyed, vars
  <2>3. QED
    BY <2>1, <2>2 DEF NoDeadThreadScheduled, Linked, lists
<1>6. QED
  BY <1>1, <1>2, <1>3, <1>4, <1>5 DEF Next

-----------------------------------------------------------------------------
(* At the start no process is in use.                                        *)
LEMMA InitialTable == Init => TableInv /\ NoDeadThreadScheduled
<1> SUFFICES ASSUME Init PROVE TableInv /\ NoDeadThreadScheduled
  OBVIOUS
<1>1. Cardinality({i \in Slots : used[i]}) = 0
  BY FS_EmptySet DEF Init
<1>2. TypeOK
  <2>1. <<>> \in Seq(Threads)
    OBVIOUS
  <2>2. used \in [Slots -> BOOLEAN] /\ exited \in BOOLEAN
    BY DEF Init
  <2>3. /\ pid \in [Slots -> 0..MAX_PROCESSES]
        /\ thread_count \in [Slots -> 0..MAX_THREADS_PER_PROCESS]
        /\ process_count \in 0..MAX_PROCESSES /\ at \in 1..(MAX_THREADS_PER_PROCESS + 1)
    BY Sizes DEF Init
  <2>4. QED
    BY <2>1, <2>2, <2>3 DEF Init, TypeOK
<1>3. LoopOK /\ CountExact
  BY <1>1 DEF Init, LoopOK, CountExact
<1>4. Live = {}
  BY NoneIsNoThread DEF Init, Live
<1>5. NoDeadThreadScheduled
  BY <1>4 DEF Init, NoDeadThreadScheduled, Linked
<1>6. QED
  BY <1>2, <1>3, <1>5 DEF TableInv

(* The process table's variables stay in their types.                        *)
THEOREM ProcessTypeOK == Spec => []TypeOK
<1>1. TableInv => TypeOK
  BY DEF TableInv
<1>2. Init => TableInv
  BY InitialTable
<1>3. QED
  BY <1>1, <1>2, TableStep, PTL DEF Spec

(* process_count and the pids agree with the slots in use.                   *)
THEOREM ProcessCountExact == Spec => []CountExact
<1>1. TableInv => CountExact
  BY DEF TableInv
<1>2. Init => TableInv
  BY InitialTable
<1>3. QED
  BY <1>1, <1>2, TableStep, PTL DEF Spec

(* schedule never resumes a thread of a process that was destroyed, whichever*)
(* process is destroyed and when.                                            *)
THEOREM ProcessNoDeadThreadScheduled == Spec => []NoDeadThreadScheduled
<1>1. QED
  BY InitialTable, TableStep, LinksStep, PTL DEF Spec

-----------------------------------------------------------------------------
(* A head put in front of a sequence.                                        *)
LEMMA ConsSeq ==
  ASSUME NEW S, NEW s \in Seq(S), NEW e \in S
  PROVE  /\ <<e>> \o s \in Seq(S)
         /\ Len(<<e>> \o s) = Len(s) + 1
         /\ (<<e>> \o s)[1] = e
         /\ \A i \in 1..Len(s) : (<<e>> \o s)[i + 1] = s[i]
  OBVIOUS

(* What the list of links being a given sequence amounts to, without primes: *)
(* s is the list through n from the head h, and holds the members of W once. *)
ListIs(s, W, h, n) ==
  /\ {s[k] : k \in 1..Len(s)} = W
  /\ \A j, k \in 1..Len(s) : s[j] = s[k] => j = k
  /\ h = IF Len(s) = 0 THEN None ELSE s[1]
  /\ \A k \in 1..Len(s) : n[s[k]] = IF k = Len(s) THEN None ELSE s[k + 1]

(* A new head.                                                               *)
LEMMA ListCons ==
  ASSUME NEW s \in Seq(Threads), NEW W \in SUBSET Threads, NEW h, NEW n \in [Threads -> Threads \union {None}],
         NEW t \in Threads \ W, ListIs(s, W, h, n)
  PROVE  ListIs(<<t>> \o s, W \union {t}, t, [n EXCEPT ![t] = h])
<1> DEFINE q == <<t>> \o s
           m == [n EXCEPT ![t] = h]
<1>1. /\ Len(s) \in Nat /\ Len(q) = Len(s) + 1 /\ q[1] = t
      /\ \A i \in 1..Len(s) : q[i + 1] = s[i]
  BY ConsSeq
<1>2. \A k \in 1..Len(q) : k # 1 => k - 1 \in 1..Len(s) /\ q[k] = s[k - 1]
  BY <1>1
<1> HIDE DEF q
<1>3. \A k \in 1..Len(s) : s[k] \in W /\ s[k] # t /\ s[k] \in Threads
  BY DEF ListIs
<1>4. {q[k] : k \in 1..Len(q)} = W \union {t}
  <2>1. \A k \in 1..Len(q) : q[k] \in W \union {t}
    BY <1>1, <1>2, <1>3
  <2>2. t \in {q[k] : k \in 1..Len(q)}
    BY <1>1
  <2>3. \A w \in W : w \in {q[k] : k \in 1..Len(q)}
    <3> SUFFICES ASSUME NEW w \in W PROVE \E k \in 1..Len(q) : q[k] = w
      OBVIOUS
    <3>1. PICK k \in 1..Len(s) : s[k] = w
      BY DEF ListIs
    <3>2. k + 1 \in 1..Len(q) /\ q[k + 1] = w
      BY <1>1, <3>1
    <3>3. QED
      BY <3>2
  <2>4. QED
    BY <2>1, <2>2, <2>3
<1>5. \A j, k \in 1..Len(q) : q[j] = q[k] => j = k
  <2> SUFFICES ASSUME NEW j \in 1..Len(q), NEW k \in 1..Len(q), q[j] = q[k] PROVE j = k
    OBVIOUS
  <2>1. CASE j = 1 \/ k = 1
    BY <1>1, <1>2, <1>3, <2>1
  <2>2. CASE j # 1 /\ k # 1
    BY <1>1, <1>2, <2>2 DEF ListIs
  <2>3. QED
    BY <2>1, <2>2
<1>6. \A k \in 1..Len(q) : m[q[k]] = IF k = Len(q) THEN None ELSE q[k + 1]
  <2> SUFFICES ASSUME NEW k \in 1..Len(q) PROVE m[q[k]] = IF k = Len(q) THEN None ELSE q[k + 1]
    OBVIOUS
  <2>1. CASE k = 1
    <3>1. m[q[k]] = h
      BY <1>1, <2>1
    <3>2. CASE Len(s) = 0
      BY <1>1, <2>1, <3>1, <3>2 DEF ListIs
    <3>3. CASE Len(s) # 0
      <4>1. 1 \in 1..Len(s) /\ q[1 + 1] = s[1] /\ h = s[1]
        BY <1>1, <3>3 DEF ListIs
      <4>2. QED
        BY <1>1, <2>1, <3>1, <3>3, <4>1
    <3>4. QED
      BY <3>2, <3>3
  <2>2. CASE k # 1
    <3>1. PICK i \in 1..Len(s) : k = i + 1 /\ q[k] = s[i]
      BY <1>1, <1>2, <2>2
    <3>2. m[q[k]] = n[s[i]] /\ n[s[i]] = IF i = Len(s) THEN None ELSE s[i + 1]
      BY <1>3, <3>1 DEF ListIs
    <3>3. i # Len(s) => i + 1 \in 1..Len(s) /\ q[k + 1] = s[i + 1]
      BY <1>1, <3>1
    <3>4. QED
      BY <1>1, <3>1, <3>2, <3>3
  <2>3. QED
    BY <2>1, <2>2
<1>7. QED
  BY <1>1, <1>4, <1>5, <1>6 DEF ListIs, q

(* An element less: the one before it, if there is one, takes over its link. *)
LEMMA ListWithout ==
  ASSUME NEW s \in Seq(Threads), NEW W \in SUBSET Threads, NEW h, NEW n \in [Threads -> Threads \union {None}],
         ListIs(s, W, h, n), NEW k \in 1..Len(s),
         NEW q \in Seq(Threads), Len(q) = Len(s) - 1,
         \A i \in 1..(Len(s) - 1) : q[i] = IF i < k THEN s[i] ELSE s[i + 1],
         NEW m, NEW g,
         k = 1 => g = n[s[k]] /\ \A t \in W \ {s[k]} : m[t] = n[t],
         k > 1 => g = h /\ (\A t \in W \ {s[k]} : t # s[k - 1] => m[t] = n[t]) /\ m[s[k - 1]] = n[s[k]]
  PROVE  ListIs(q, W \ {s[k]}, g, m)
<1>1. Len(s) \in Nat /\ Len(q) \in Nat
  OBVIOUS
<1>2. \A i \in 1..Len(q) : \E j \in 1..Len(s) : /\ j # k /\ q[i] = s[j]
                                                /\ (i < k => j = i) /\ (i >= k => j = i + 1)
  <2> SUFFICES ASSUME NEW i \in 1..Len(q)
               PROVE  \E j \in 1..Len(s) : /\ j # k /\ q[i] = s[j]
                                           /\ (i < k => j = i) /\ (i >= k => j = i + 1)
    OBVIOUS
  <2>1. CASE i < k
    <3> WITNESS i \in 1..Len(s)
    <3> QED BY <2>1
  <2>2. CASE i >= k
    <3> i + 1 \in 1..Len(s)
      OBVIOUS
    <3> WITNESS i + 1 \in 1..Len(s)
    <3> QED BY <2>2
  <2>3. QED
    BY <2>1, <2>2
<1>3. \A i, j \in 1..Len(s) : s[i] = s[j] => i = j
  BY DEF ListIs
<1>4. \A j \in 1..Len(s) : s[j] \in W
  BY DEF ListIs
<1>5. {q[i] : i \in 1..Len(q)} = W \ {s[k]}
  <2>1. \A i \in 1..Len(q) : q[i] \in W \ {s[k]}
    BY <1>2, <1>3, <1>4
  <2>2. ASSUME NEW w \in W \ {s[k]} PROVE \E i \in 1..Len(q) : q[i] = w
    <3>1. PICK j \in 1..Len(s) : s[j] = w
      BY DEF ListIs
    <3>2. j # k
      BY <3>1
    <3>3. CASE j < k
      <4>1. j \in 1..Len(q) /\ q[j] = w
        BY <3>1, <3>3
      <4>2. QED BY <4>1
    <3>4. CASE j > k
      <4>1. j - 1 \in 1..Len(q) /\ q[j - 1] = w
        BY <3>1, <3>4
      <4>2. QED BY <4>1
    <3>5. QED
      BY <3>2, <3>3, <3>4
  <2>3. QED
    BY <2>1, <2>2
<1>6. \A i, j \in 1..Len(q) : q[i] = q[j] => i = j
  <2> SUFFICES ASSUME NEW i \in 1..Len(q), NEW j \in 1..Len(q), q[i] = q[j] PROVE i = j
    OBVIOUS
  <2>1. PICK a \in 1..Len(s) : a # k /\ q[i] = s[a] /\ (i < k => a = i) /\ (i >= k => a = i + 1)
    BY <1>2
  <2>2. PICK b \in 1..Len(s) : b # k /\ q[j] = s[b] /\ (j < k => b = j) /\ (j >= k => b = j + 1)
    BY <1>2
  <2>3. s[a] = s[b]
    BY <2>1, <2>2
  <2>4. a = b
    BY <1>3, <2>3
  <2>5. QED
    BY <2>1, <2>2, <2>4
<1>7. g = IF Len(q) = 0 THEN None ELSE q[1]
  <2>1. CASE k = 1
    <3>1. g = IF 1 = Len(s) THEN None ELSE s[1 + 1]
      BY <2>1 DEF ListIs
    <3>2. Len(q) # 0 => q[1] = s[1 + 1]
      BY <2>1
    <3>3. QED
      BY <3>1, <3>2
  <2>2. CASE k > 1
    <3>1. h = s[1] /\ Len(q) # 0 /\ q[1] = s[1]
      BY <2>2 DEF ListIs
    <3>2. QED
      BY <2>2, <3>1
  <2>3. QED
    BY <2>1, <2>2
<1>8. \A i \in 1..Len(q) : m[q[i]] = IF i = Len(q) THEN None ELSE q[i + 1]
  <2> SUFFICES ASSUME NEW i \in 1..Len(q) PROVE m[q[i]] = IF i = Len(q) THEN None ELSE q[i + 1]
    OBVIOUS
  <2>1. PICK a \in 1..Len(s) : a # k /\ q[i] = s[a] /\ (i < k => a = i) /\ (i >= k => a = i + 1)
    BY <1>2
  <2>2. s[a] \in W \ {s[k]}
    BY <1>3, <1>4, <2>1
  <2>3. \A j \in 1..Len(s) : n[s[j]] = IF j = Len(s) THEN None ELSE s[j + 1]
    BY DEF ListIs
  <2>4. CASE k > 1 /\ a = k - 1
    <3>1. m[q[i]] = n[s[k]]
      BY <2>1, <2>2, <2>4
    <3>2. i = k - 1
      BY <2>1, <2>4
    <3>3. n[s[k]] = IF k = Len(s) THEN None ELSE s[k + 1]
      BY <2>3
    <3>4. k # Len(s) => q[i + 1] = s[k + 1]
      BY <3>2
    <3>5. QED
      BY <3>1, <3>2, <3>3, <3>4
  <2>5. CASE ~(k > 1 /\ a = k - 1)
    <3>1. m[q[i]] = n[s[a]]
      <4>1. CASE k = 1
        BY <2>1, <2>2, <4>1
      <4>2. CASE k > 1
        <5>1. k - 1 \in 1..Len(s)
          BY <4>2
        <5>2. s[a] # s[k - 1]
          BY <1>3, <2>5, <4>2, <5>1
        <5>3. QED
          BY <2>1, <2>2, <4>2, <5>2
      <4>3. QED
        BY <4>1, <4>2
    <3>2. n[s[a]] = IF a = Len(s) THEN None ELSE s[a + 1]
      BY <2>3
    <3>3. (a = Len(s)) = (i = Len(q))
      BY <1>1, <2>1, <2>5
    <3>4. a # Len(s) => q[i + 1] = s[a + 1]
      BY <1>1, <2>1, <2>5
    <3>5. QED
      BY <3>1, <3>2, <3>3, <3>4
  <2>6. QED
    BY <2>4, <2>5
<1>9. QED
  BY <1>5, <1>6, <1>7, <1>8 DEF ListIs

ListInv == TableInv /\ NoDeadThreadScheduled /\ NoThreadForgotten

(* The invariant in the words of ListIs.                                     *)
LEMMA Forgotten == NoThreadForgotten <=> exited \/ ListIs(queue, Linked, ready_queue, next)
  BY DEF NoThreadForgotten, ListIs, Waiting

(* The same of the next state.                                               *)
LEMMA ForgottenNext ==
  NoThreadForgotten' <=> exited' \/ ListIs(queue', Linked', ready_queue', next')
  BY DEF NoThreadForgotten, ListIs, Waiting

(* A new thread waits at the head.                                           *)
LEMMA EnqueueForgotten ==
  ASSUME ListInv, NEW i \in Slots, NEW n \in Nat, NEW taken,
         AddThread(i, n, taken), <<i, n + 1>> \in Threads \ Live,
         Live' = Live \union {<<i, n + 1>>}, ~exited
  PROVE  /\ <<i, n + 1>> \notin Waiting /\ queue' = <<(<<i, n + 1>>)>> \o queue
         /\ ~exited' /\ NoThreadForgotten'
<1> DEFINE t == <<i, n + 1>>
<1>1. /\ next' = [next EXCEPT ![t] = ready_queue] /\ ready_queue' = t
      /\ running_thread' = running_thread /\ exited' = exited
      /\ queue' = <<t>> \o queue
  BY DEF AddThread, Intend
<1>2. ListIs(queue, Linked, ready_queue, next) /\ Waiting = Linked
  BY Forgotten DEF ListInv, NoThreadForgotten
<1>3. /\ queue \in Seq(Threads) /\ next \in [Threads -> Threads \union {None}]
      /\ t \in Threads \ Linked /\ Linked \in SUBSET Threads /\ t # None
  BY NoneIsNoThread DEF ListInv, TableInv, TypeOK, Linked, Live
<1>4. Linked' = Linked \union {t}
  <2>1. running_thread # t
    BY <1>3 DEF ListInv, NoDeadThreadScheduled
  <2>2. QED
    BY <1>1, <2>1 DEF Linked
<1>5. ListIs(<<t>> \o queue, Linked \union {t}, t, [next EXCEPT ![t] = ready_queue])
  BY <1>2, <1>3, ListCons
<1> HIDE DEF t
<1>6. ListIs(queue', Linked', ready_queue', next')
  BY <1>1, <1>4, <1>5
<1>7. NoThreadForgotten'
  BY <1>6, ForgottenNext
<1>8. QED
  BY <1>1, <1>2, <1>3, <1>7 DEF t

(* Where a waiting thread is in the list, and what it is linked to.          *)
LEMMA PlaceOf ==
  ASSUME ListInv, ~exited, NEW t \in Linked
  PROVE  \E k \in 1..Len(queue) :
           /\ queue[k] = t
           /\ Left(t) \in Seq(Threads) /\ Len(Left(t)) = Len(queue) - 1
           /\ \A i \in 1..(Len(queue) - 1) :
                Left(t)[i] = IF i < k THEN queue[i] ELSE queue[i + 1]
           /\ k = 1 => prev[t] = None /\ ready_queue = t
           /\ k > 1 => prev[t] = queue[k - 1] /\ prev[t] # None /\ prev[t] \in Linked
<1>1. Waiting = Linked /\ queue \in Seq(Threads)
  BY DEF ListInv, NoThreadForgotten, TableInv, TypeOK
<1>2. PICK k \in 1..Len(queue) :
           /\ queue[k] = t /\ Len(Left(t)) = Len(queue) - 1
           /\ \A i \in 1..(Len(queue) - 1) :
                Left(t)[i] = IF i < k THEN queue[i] ELSE queue[i + 1]
  BY <1>1, LeftSeq
<1>3. k = 1 => prev[t] = None /\ ready_queue = t
  <2> SUFFICES ASSUME k = 1 PROVE prev[t] = None /\ ready_queue = t
    OBVIOUS
  <2>1. ready_queue = t
    BY <1>2 DEF ListInv, NoThreadForgotten
  <2>2. ready_queue # None
    BY <2>1, NoneIsNoThread DEF Linked, Live
  <2>3. QED
    BY <2>1, <2>2 DEF ListInv, NoDeadThreadScheduled
<1>4. k > 1 => prev[t] = queue[k - 1] /\ prev[t] # None /\ prev[t] \in Linked
  <2> SUFFICES ASSUME k > 1 PROVE prev[t] = queue[k - 1] /\ prev[t] # None /\ prev[t] \in Linked
    OBVIOUS
  <2>1. k - 1 \in 1..Len(queue) /\ k - 1 # Len(queue) /\ (k - 1) + 1 = k
    BY <1>1
  <2>2. queue[k - 1] \in Linked
    BY <1>1, <2>1 DEF Waiting
  <2>3. next[queue[k - 1]] = t
    BY <1>2, <2>1 DEF ListInv, NoThreadForgotten
  <2>4. t # None /\ queue[k - 1] # None
    BY <2>2, NoneIsNoThread DEF Linked, Live
  <2>5. prev[t] = queue[k - 1]
    BY <2>2, <2>3, <2>4 DEF ListInv, NoDeadThreadScheduled
  <2>6. QED
    BY <2>2, <2>4, <2>5
<1>5. Left(t) \in Seq(Threads)
  BY <1>1, LeftType
<1>6. QED
  BY <1>2, <1>3, <1>4, <1>5

(* A thread that waits leaves the list; the others keep their order.         *)
LEMMA DestroyForgotten ==
  ASSUME ListInv, DestroyThread, ~exited'
  PROVE  /\ ~exited /\ running_thread' = running_thread
         /\ <<dying, at>> \in Linked /\ queue' = Left(<<dying, at>>)
         /\ NoThreadForgotten'
<1> DEFINE t == <<dying, at>>
<1>1. t \in Live /\ Live' = Live \ {t}
  BY LiveAfterDestroyThread DEF ListInv
<1>2. /\ Unlink(t) /\ exited' = (exited \/ running_thread = t) /\ Intend(Left(t))
  BY DEF DestroyThread
<1> HIDE DEF t
<1>3. ~exited /\ running_thread # t /\ t \in Linked /\ queue' = Left(t)
  BY <1>1, <1>2 DEF Linked, Intend
<1>4. state[t] # "running" /\ running_thread' = running_thread
  BY <1>1, <1>2, <1>3 DEF ListInv, NoDeadThreadScheduled, Unlink
<1>5. Linked' = Linked \ {t} /\ Linked \in SUBSET Threads /\ None \notin Threads
  BY <1>1, <1>4, NoneIsNoThread DEF Linked, Live
<1>6. PICK k \in 1..Len(queue) :
           /\ queue[k] = t
           /\ Left(t) \in Seq(Threads) /\ Len(Left(t)) = Len(queue) - 1
           /\ \A i \in 1..(Len(queue) - 1) :
                Left(t)[i] = IF i < k THEN queue[i] ELSE queue[i + 1]
           /\ k = 1 => prev[t] = None /\ ready_queue = t
           /\ k > 1 => prev[t] = queue[k - 1] /\ prev[t] # None /\ prev[t] \in Linked
  BY <1>3, PlaceOf
<1>7. next' = IF prev[t] = None THEN next ELSE [next EXCEPT ![prev[t]] = next[t]]
  BY <1>2 DEF Unlink
<1>8. ready_queue' = IF prev[t] = None THEN next[t] ELSE ready_queue
  BY <1>2 DEF Unlink
<1>9. next \in [Threads -> Threads \union {None}] /\ queue \in Seq(Threads)
  BY DEF ListInv, TableInv, TypeOK
<1>10. ListIs(queue, Linked, ready_queue, next)
  BY <1>3, Forgotten DEF ListInv
<1>11. k = 1 => ready_queue' = next[queue[k]] /\ \A u \in Linked \ {queue[k]} : next'[u] = next[u]
  BY <1>6, <1>7, <1>8
<1>12. k > 1 => /\ ready_queue' = ready_queue /\ next'[queue[k - 1]] = next[queue[k]]
                /\ \A u \in Linked \ {queue[k]} : u # queue[k - 1] => next'[u] = next[u]
  BY <1>5, <1>6, <1>7, <1>8, <1>9
<1>13. ListIs(Left(t), Linked \ {queue[k]}, ready_queue', next')
  <2> DEFINE q == Left(t)
             g == ready_queue'
             m == next'
  <2>1. /\ q \in Seq(Threads) /\ Len(q) = Len(queue) - 1
        /\ \A i \in 1..(Len(queue) - 1) : q[i] = IF i < k THEN queue[i] ELSE queue[i + 1]
    BY <1>6
  <2>2. k = 1 => g = next[queue[k]] /\ \A u \in Linked \ {queue[k]} : m[u] = next[u]
    BY <1>11
  <2>3. k > 1 => /\ g = ready_queue /\ m[queue[k - 1]] = next[queue[k]]
                 /\ \A u \in Linked \ {queue[k]} : u # queue[k - 1] => m[u] = next[u]
    BY <1>12
  <2>4. k \in 1..Len(queue) /\ Linked \in SUBSET Threads /\ queue \in Seq(Threads)
        /\ next \in [Threads -> Threads \union {None}]
    BY <1>5, <1>9
  <2> HIDE DEF q, g, m
  <2>5. ListIs(q, Linked \ {queue[k]}, g, m)
    <3>1. CASE k = 1
      <4>1. ~(k > 1)
        BY <3>1
      <4>2. g = next[queue[k]] /\ \A u \in Linked \ {queue[k]} : m[u] = next[u]
        BY <2>2, <3>1
      <4>3. QED
        BY <2>1, <2>4, <1>10, <4>1, <4>2, ListWithout
    <3>2. CASE k > 1
      <4>1. ~(k = 1)
        BY <3>2
      <4>2. QED
        BY <2>1, <2>3, <2>4, <1>10, <4>1, ListWithout
    <3>3. QED
      BY <2>4, <3>1, <3>2
  <2>6. QED
    BY <2>5 DEF q, g, m
<1>14. ListIs(queue', Linked', ready_queue', next')
  BY <1>3, <1>5, <1>6, <1>13
<1>15. QED
  BY <1>3, <1>4, <1>14, ForgottenNext DEF t

(* The head of the list runs; the thread that was running takes its place.   *)
LEMMA ScheduleForgotten ==
  ASSUME ListInv, Schedule, ~exited
  PROVE  /\ ~exited' /\ running_thread' = Head(queue) /\ queue # <<>>
         /\ queue' = IF running_thread = None THEN Tail(queue)
                     ELSE <<running_thread>> \o Tail(queue)
         /\ NoThreadForgotten'
<1> DEFINE new == ready_queue
           old == running_thread
           rest == next[new]
           middle == [next EXCEPT ![new] = None]
<1>1. /\ state \in [Threads -> {"ready", "running"}]
      /\ next \in [Threads -> Threads \union {None}]
      /\ None \notin Threads /\ queue \in Seq(Threads)
      /\ Linked \in SUBSET Threads /\ Live \in SUBSET Threads
  BY NoneIsNoThread DEF ListInv, TableInv, TypeOK, Linked, Live
<1>2. new \in Linked /\ prev[new] = None /\ new # old /\ new # None
  BY DEF Schedule, ListInv, NoDeadThreadScheduled, Linked
<1>3. old # None => old \in Live
  BY DEF ListInv, NoDeadThreadScheduled
<1>4. /\ running_thread' = new /\ exited' = exited
      /\ old = None => next' = middle /\ ready_queue' = rest /\ queue' = Left(new)
      /\ old # None => /\ next' = [next EXCEPT ![new] = None, ![old] = rest]
                       /\ ready_queue' = old /\ queue' = <<old>> \o Left(new)
  BY <1>2 DEF Schedule, Intend
<1>5. Live' = Live
  BY LiveKept DEF ListInv
<1>6. PICK k \in 1..Len(queue) :
           /\ queue[k] = new
           /\ Left(new) \in Seq(Threads) /\ Len(Left(new)) = Len(queue) - 1
           /\ \A i \in 1..(Len(queue) - 1) :
                Left(new)[i] = IF i < k THEN queue[i] ELSE queue[i + 1]
           /\ k > 1 => prev[new] # None
  BY <1>2, PlaceOf
<1> HIDE DEF new, old
<1>7. k = 1 /\ Len(queue) \in Nat \ {0}
  BY <1>1, <1>2, <1>6
<1>8. queue # <<>> /\ Head(queue) = new
  BY <1>1, <1>6, <1>7
<1>9. Left(new) = Tail(queue)
  <2>1. Len(Tail(queue)) = Len(queue) - 1 /\ Tail(queue) \in Seq(Threads)
    BY <1>1, <1>7, <1>8
  <2>2. \A i \in 1..(Len(queue) - 1) : Tail(queue)[i] = Left(new)[i]
    BY <1>1, <1>6, <1>7, <1>8
  <2>3. QED
    BY <1>6, <2>1, <2>2
<1>10. ListIs(queue, Linked, ready_queue, next)
  BY Forgotten DEF ListInv
<1>11. \A u \in Linked \ {queue[k]} : middle[u] = next[u]
  BY <1>1, <1>6
<1>12. ListIs(Left(new), Linked \ {new}, rest, middle)
  <2> DEFINE q == Left(new)
  <2>1. /\ q \in Seq(Threads) /\ Len(q) = Len(queue) - 1
        /\ \A i \in 1..(Len(queue) - 1) : q[i] = IF i < k THEN queue[i] ELSE queue[i + 1]
    BY <1>6
  <2>2. k = 1 => rest = next[queue[k]] /\ \A u \in Linked \ {queue[k]} : middle[u] = next[u]
    BY <1>6, <1>11
  <2>3. ~(k > 1) /\ k \in 1..Len(queue)
    BY <1>7
  <2> HIDE DEF q, rest, middle
  <2>4. ListIs(q, Linked \ {queue[k]}, rest, middle)
    BY <1>1, <1>10, <2>1, <2>2, <2>3, ListWithout
  <2>5. QED
    BY <1>6, <2>4 DEF q
<1>13. ListIs(queue', Linked', ready_queue', next')
  <2>1. CASE old = None
    <3>1. Linked' = Linked \ {new}
      BY <1>1, <1>3, <1>4, <1>5, <2>1 DEF Linked, old
    <3>2. QED
      BY <1>4, <1>12, <2>1, <3>1
  <2>2. CASE old # None
    <3>1. old \in Threads \ (Linked \ {new}) /\ old # new
      BY <1>1, <1>2, <1>3, <2>2 DEF Linked, old
    <3>2. Linked' = (Linked \ {new}) \union {old}
      BY <1>1, <1>2, <1>3, <1>4, <1>5, <2>2 DEF Linked, old
    <3>3. middle \in [Threads -> Threads \union {None}]
      BY <1>1
    <3>4. ListIs(<<old>> \o Left(new), (Linked \ {new}) \union {old}, old, [middle EXCEPT ![old] = rest])
      BY <1>1, <1>6, <1>12, <3>1, <3>3, ListCons
    <3>5. [middle EXCEPT ![old] = rest] = next'
      BY <1>1, <1>4, <2>2, <3>1
    <3>6. QED
      BY <1>4, <2>2, <3>2, <3>4, <3>5
  <2>3. QED
    BY <2>1, <2>2
<1>14. NoThreadForgotten'
  BY <1>13, ForgottenNext
<1>15. QED
  BY <1>4, <1>8, <1>9, <1>14 DEF old

(* No step loses a thread, unless it destroys the one that runs.             *)
LEMMA ForgottenStep == ListInv /\ [Next]_vars => NoThreadForgotten'
<1> SUFFICES ASSUME ListInv, [Next]_vars, ~exited' PROVE NoThreadForgotten'
  BY DEF NoThreadForgotten
<1>1. CASE CreateProcess
  <2>1. PICK i \in Slots, root \in Obtained({}) :
          /\ ~used[i] /\ used' = [used EXCEPT ![i] = TRUE]
          /\ AddThread(i, 0, {root} \ {NULL})
    BY <1>1 DEF CreateProcess
  <2>2. dying = Nobody
    BY <1>1 DEF CreateProcess
  <2>3. <<i, 1>> \in Threads \ Live /\ Live' = Live \union {<<i, 1>>}
    BY <2>1, <2>2, LiveAfterCreateProcess DEF ListInv
  <2>4. 0 \in Nat /\ 0 + 1 = 1
    OBVIOUS
  <2>5. ~exited
    BY <2>1 DEF AddThread
  <2>6. QED
    BY <2>1, <2>3, <2>4, <2>5, EnqueueForgotten
<1>2. ASSUME NEW i \in Slots, CreateThread(i) PROVE NoThreadForgotten'
  <2>1. thread_count[i] \in Nat /\ AddThread(i, thread_count[i], {})
    BY <1>2 DEF CreateThread, ListInv, TableInv, TypeOK
  <2>2. ~exited
    BY <2>1 DEF AddThread
  <2>3. QED
    BY <1>2, <2>1, <2>2, LiveAfterCreateThread, EnqueueForgotten DEF ListInv
<1>3. CASE DestroyThread
  BY <1>3, DestroyForgotten
<1>4. CASE Schedule
  <2>1. ~exited
    BY <1>4 DEF Schedule
  <2>2. QED
    BY <1>4, <2>1, ScheduleForgotten
<1>5. CASE (\E i \in Slots : DestroyProcess(i)) \/ Destroyed \/ UNCHANGED vars
  <2>1. Live' = Live
    BY <1>5, LiveKept DEF ListInv
  <2>2. UNCHANGED <<lists, intended>>
    BY <1>5 DEF DestroyProcess, Destroyed, vars
  <2>3. QED
    BY <2>1, <2>2 DEF ListInv, NoThreadForgotten, Linked, lists, intended, Waiting
<1>6. QED
  BY <1>1, <1>2, <1>3, <1>4, <1>5 DEF Next

(* create_thread, destroy_process and schedule lose no thread until the      *)
(* running process is destroyed: the list of links is the list of all that   *)
(* wait.                                                                     *)
THEOREM ProcessNoThreadForgotten == Spec => []NoThreadForgotten
<1>1. Init => ListInv
  <2>1. Init => NoThreadForgotten
    BY NoneIsNoThread DEF Init, NoThreadForgotten, Waiting, Linked, Live
  <2>2. QED
    BY <2>1, InitialTable DEF ListInv
<1>2. ListInv /\ [Next]_vars => ListInv'
  BY TableStep, LinksStep, ForgottenStep DEF ListInv
<1>3. ListInv => NoThreadForgotten
  BY DEF ListInv
<1>4. QED
  BY <1>1, <1>2, <1>3, PTL DEF Spec

-----------------------------------------------------------------------------
(* Pages in use are never free as well.                                      *)
PageInv == OneUser /\ free \intersect owned = {}

(* A thread that is made gets a stack or a refusal.                          *)
LEMMA BackedThread ==
  ASSUME ~refused => \A t \in Threads : Exists(t) => stack[t] # NULL,
         stack \in [Threads -> Pages \union {NULL}],
         NEW i \in Slots, NEW n \in Nat, NEW taken, AddThread(i, n, taken),
         <<i, n + 1>> \in Threads,
         \A t \in Threads : Exists(t)' => Exists(t) \/ t = <<i, n + 1>>
  PROVE  ~refused' => ~refused /\ \A t \in Threads : Exists(t)' => stack'[t] # NULL
<1>1. PICK s \in Obtained(taken) :
        /\ stack' = [stack EXCEPT ![<<i, n + 1>>] = s]
        /\ refused' = (refused \/ s = NULL)
  BY DEF AddThread
<1>2. QED
  BY <1>1

(* Whoever is without a page was refused one.                                *)
LEMMA BackedStep == TableInv /\ (~refused => Backed) /\ [Next]_vars => (~refused => Backed)'
<1> SUFFICES ASSUME TableInv, ~refused => Backed, [Next]_vars PROVE (~refused => Backed)'
  OBVIOUS
<1>1. /\ ~refused => \A t \in Threads : Exists(t) => stack[t] # NULL
      /\ stack \in [Threads -> Pages \union {NULL}]
      /\ used \in [Slots -> BOOLEAN] /\ page_table \in [Slots -> Pages \union {NULL}]
      /\ thread_count \in [Slots -> Nat]
  BY DEF TableInv, TypeOK, Backed
<1>2. CASE CreateProcess
  <2>1. PICK i \in Slots, root \in Obtained({}) :
          /\ ~used[i] /\ used' = [used EXCEPT ![i] = TRUE]
          /\ page_table' = [page_table EXCEPT ![i] = root]
          /\ AddThread(i, 0, {root} \ {NULL})
    BY <1>2 DEF CreateProcess
  <2>2. thread_count' = [thread_count EXCEPT ![i] = 1]
    BY <2>1 DEF AddThread
  <2>3. <<i, 1>> \in Threads /\ 0 \in Nat /\ 0 + 1 = 1
    BY Sizes, ThreadOf DEF Places
  <2>4. \A t \in Threads : Exists(t)' => Exists(t) \/ t = <<i, 1>>
    <3> SUFFICES ASSUME NEW t \in Threads, Exists(t)' PROVE Exists(t) \/ t = <<i, 1>>
      OBVIOUS
    <3>1. t[1] \in Slots /\ t[2] \in Nat \ {0} /\ t = <<t[1], t[2]>>
      BY NoneIsNoThread, Sizes DEF Places
    <3>2. QED
      BY <1>1, <2>1, <2>2, <3>1 DEF Exists
  <2>5. ~refused' => ~refused /\ \A t \in Threads : Exists(t)' => stack'[t] # NULL
    BY <1>1, <2>1, <2>3, <2>4, BackedThread
  <2>6. ~refused' => root # NULL
    <3>1. PICK s \in Obtained({root} \ {NULL}) : refused' = (refused \/ s = NULL)
      BY <2>1 DEF AddThread
    <3>2. root = NULL => free = {}
      BY Sizes DEF Obtained, TableInv, TypeOK
    <3>3. QED
      BY <3>1, <3>2 DEF Obtained
  <2>7. ~refused' => \A j \in Slots : used'[j] => page_table'[j] # NULL
    BY <1>1, <2>1, <2>5, <2>6 DEF Backed
  <2>8. QED
    BY <2>5, <2>7 DEF Backed
<1>3. ASSUME NEW i \in Slots, CreateThread(i) PROVE (~refused => Backed)'
  <2>1. /\ thread_count[i] \in Nat /\ AddThread(i, thread_count[i], {})
        /\ UNCHANGED <<used, page_table>>
        /\ thread_count' = [thread_count EXCEPT ![i] = thread_count[i] + 1]
    BY <1>1, <1>3 DEF CreateThread, AddThread
  <2>2. <<i, thread_count[i] + 1>> \in Threads
    BY <1>3, LiveAfterCreateThread
  <2>3. \A t \in Threads : Exists(t)' => Exists(t) \/ t = <<i, thread_count[i] + 1>>
    <3> SUFFICES ASSUME NEW t \in Threads, Exists(t)'
                 PROVE  Exists(t) \/ t = <<i, thread_count[i] + 1>>
      OBVIOUS
    <3>1. t[1] \in Slots /\ t[2] \in Nat /\ t = <<t[1], t[2]>>
      BY NoneIsNoThread DEF Places
    <3>2. QED
      BY <1>1, <2>1, <3>1 DEF Exists
  <2>4. ~refused' => ~refused /\ \A t \in Threads : Exists(t)' => stack'[t] # NULL
    BY <1>1, <2>1, <2>2, <2>3, BackedThread
  <2>5. QED
    BY <2>1, <2>4 DEF Backed
<1>4. CASE Destroyed
  <2>1. /\ used' = [used EXCEPT ![dying] = FALSE]
        /\ thread_count' = [thread_count EXCEPT ![dying] = 0]
        /\ dying \in Slots /\ UNCHANGED <<page_table, stack, refused>>
    BY <1>4 DEF Destroyed, intended, TableInv, TypeOK
  <2>2. \A j \in Slots : used'[j] => used[j] /\ j # dying
    BY <1>1, <2>1
  <2>3. \A t \in Threads : Exists(t)' => Exists(t)
    BY <1>1, <2>1, <2>2, NoneIsNoThread DEF Exists
  <2>4. QED
    BY <2>1, <2>2, <2>3 DEF Backed
<1>5. CASE UNCHANGED <<used, thread_count, page_table, stack, refused>>
  BY <1>5 DEF Backed, Exists
<1>6. QED
  BY <1>2, <1>3, <1>4, <1>5
  DEF Next, DestroyProcess, DestroyThread, Schedule, vars, table, intended

(* Pages in use and the new stack of one more thread.                        *)
LEMMA StackPages ==
  ASSUME TableInv, PageInv, dying = Nobody,
         NEW i \in Slots, NEW n \in Nat, NEW taken \in SUBSET free,
         AddThread(i, n, taken), <<i, n + 1>> \in Threads \ Live,
         Live' = Live \union {<<i, n + 1>>},
         \A j \in Tables' : \/ j \in Tables /\ page_table'[j] = page_table[j]
                            \/ page_table'[j] \in taken,
         \A j, k \in Tables' : j # k => page_table'[j] # page_table'[k]
  PROVE  PageInv'
<1> DEFINE t == <<i, n + 1>>
<1>1. PICK s \in Obtained(taken) :
        /\ stack' = [stack EXCEPT ![t] = s]
        /\ free' = free \ (taken \union {s})
        /\ owned' = owned \union ((taken \union {s}) \ {NULL})
  BY DEF AddThread
<1>2. s = NULL \/ s \in free \ taken
  BY DEF Obtained
<1>3. /\ stack \in [Threads -> Pages \union {NULL}] /\ free \subseteq Pages /\ owned \subseteq Pages
      /\ NULL \notin Pages
  BY Sizes DEF TableInv, TypeOK
<1>4. Users = {u \in Live : stack[u] # NULL}
  BY NoneIsNoThread, Sizes DEF Users, Exists, Live, Slots, Nobody
<1>5. Users' = {u \in Live' : stack'[u] # NULL}
  <2>1. dying' = Nobody
    BY DEF AddThread, loop
  <2>2. QED
    BY <2>1, NoneIsNoThread, Sizes DEF Users, Exists, Live, Slots, Nobody
<1> HIDE DEF t
<1>6. t \in Threads /\ t \notin Live /\ Live' = Live \union {t} /\ Live \subseteq Threads
  BY DEF t, Live
<1>7. \A u \in Users' : \/ u = t /\ stack'[u] = s /\ s # NULL
                        \/ u \in Users /\ u # t /\ stack'[u] = stack[u]
  <2> SUFFICES ASSUME NEW u \in Users'
               PROVE  \/ u = t /\ stack'[u] = s /\ s # NULL
                      \/ u \in Users /\ u # t /\ stack'[u] = stack[u]
    OBVIOUS
  <2>1. u \in Threads /\ (u \in Live \/ u = t) /\ stack'[u] # NULL
    BY <1>5, <1>6
  <2>2. CASE u = t
    BY <1>1, <1>3, <1>6, <2>1, <2>2
  <2>3. CASE u # t
    BY <1>1, <1>3, <1>4, <1>6, <2>1, <2>3
  <2>4. QED
    BY <2>2, <2>3
<1>8. owned \subseteq owned' /\ taken \subseteq owned' /\ (s # NULL => s \in owned')
  BY <1>1, <1>2, <1>3
<1>9. \A u \in Users : stack[u] \in owned
  BY DEF PageInv, OneUser
<1>10. \A j \in Tables : page_table[j] \in owned
  BY DEF PageInv, OneUser
<1>11. free \intersect owned = {}
  BY DEF PageInv
<1>12. \A u \in Users' : stack'[u] \in owned'
  BY <1>7, <1>8, <1>9
<1>13. \A j \in Tables' : page_table'[j] \in owned'
  BY <1>8, <1>10
<1>14. \A u, v \in Users' : u # v => stack'[u] # stack'[v]
  <2> SUFFICES ASSUME NEW u \in Users', NEW v \in Users', u # v PROVE stack'[u] # stack'[v]
    OBVIOUS
  <2>1. CASE u = t \/ v = t
    BY <1>2, <1>7, <1>9, <1>11, <2>1
  <2>2. CASE u # t /\ v # t
    BY <1>7, <2>2 DEF PageInv, OneUser
  <2>3. QED
    BY <2>1, <2>2
<1>15. \A u \in Users', j \in Tables' : stack'[u] # page_table'[j]
  <2> SUFFICES ASSUME NEW u \in Users', NEW j \in Tables' PROVE stack'[u] # page_table'[j]
    OBVIOUS
  <2>1. CASE u = t
    BY <1>2, <1>7, <1>10, <1>11, <2>1
  <2>2. CASE u # t
    BY <1>7, <1>9, <1>11, <2>2 DEF PageInv, OneUser
  <2>3. QED
    BY <2>1, <2>2
<1>16. free' \intersect owned' = {}
  BY <1>1, <1>3, <1>11
<1>17. QED
  BY <1>12, <1>13, <1>14, <1>15, <1>16 DEF PageInv, OneUser

(* No step gives a page in use to somebody else.                             *)
LEMMA PageStep == TableInv /\ PageInv /\ [Next]_vars => PageInv'
<1> SUFFICES ASSUME TableInv, PageInv, [Next]_vars PROVE PageInv'
  OBVIOUS
<1>1. CASE CreateProcess
  <2>1. PICK i \in Slots, root \in Obtained({}) :
          /\ ~used[i] /\ used' = [used EXCEPT ![i] = TRUE]
          /\ page_table' = [page_table EXCEPT ![i] = root]
          /\ AddThread(i, 0, {root} \ {NULL})
    BY <1>1 DEF CreateProcess
  <2>2. dying = Nobody
    BY <1>1 DEF CreateProcess
  <2>3. <<i, 1>> \in Threads \ Live /\ Live' = Live \union {<<i, 1>>}
    BY <2>1, <2>2, LiveAfterCreateProcess
  <2>4. 0 \in Nat /\ 0 + 1 = 1
    OBVIOUS
  <2>5. root = NULL \/ root \in free
    BY DEF Obtained
  <2>6. page_table \in [Slots -> Pages \union {NULL}] /\ used \in [Slots -> BOOLEAN]
    BY DEF TableInv, TypeOK
  <2>7. \A j \in Tables' : \/ j = i /\ page_table'[j] = root /\ root # NULL
                           \/ j # i /\ j \in Tables /\ page_table'[j] = page_table[j]
    BY <2>1, <2>6 DEF Tables
  <2>8. \A j \in Tables' : \/ j \in Tables /\ page_table'[j] = page_table[j]
                           \/ page_table'[j] \in {root} \ {NULL}
    BY <2>7
  <2>9. \A j, k \in Tables' : j # k => page_table'[j] # page_table'[k]
    <3> SUFFICES ASSUME NEW j \in Tables', NEW k \in Tables', j # k
                 PROVE  page_table'[j] # page_table'[k]
      OBVIOUS
    <3>1. \A l \in Tables : page_table[l] \in owned
      BY DEF PageInv, OneUser
    <3>2. CASE j = i \/ k = i
      BY <2>5, <2>7, <3>1, <3>2 DEF PageInv
    <3>3. CASE j # i /\ k # i
      BY <2>7, <3>3 DEF PageInv, OneUser
    <3>4. QED
      BY <3>2, <3>3
  <2>10. {root} \ {NULL} \in SUBSET free
    BY <2>5
  <2>11. QED
    BY <2>1, <2>2, <2>3, <2>4, <2>8, <2>9, <2>10, StackPages
<1>2. ASSUME NEW i \in Slots, CreateThread(i) PROVE PageInv'
  <2>1. /\ dying = Nobody /\ thread_count[i] \in Nat /\ AddThread(i, thread_count[i], {})
        /\ UNCHANGED <<used, page_table>>
    BY <1>2 DEF CreateThread, TableInv, TypeOK
  <2>2. Tables' = Tables
    BY <2>1 DEF Tables
  <2>3. \A j, k \in Tables' : j # k => page_table'[j] # page_table'[k]
    BY <2>1, <2>2 DEF PageInv, OneUser
  <2>4. \A j \in Tables' : j \in Tables /\ page_table'[j] = page_table[j]
    BY <2>1, <2>2
  <2>5. <<i, thread_count[i] + 1>> \in Threads \ Live
        /\ Live' = Live \union {<<i, thread_count[i] + 1>>}
    BY <1>2, LiveAfterCreateThread
  <2>6. {} \in SUBSET free
    OBVIOUS
  <2>7. QED
    BY <2>1, <2>3, <2>4, <2>5, <2>6, StackPages
<1>3. CASE Destroyed
  <2>1. /\ dying \in Slots /\ used[dying]
        /\ used' = [used EXCEPT ![dying] = FALSE]
        /\ thread_count' = [thread_count EXCEPT ![dying] = 0]
        /\ UNCHANGED <<page_table, stack>>
    BY <1>3 DEF Destroyed, TableInv, TypeOK, LoopOK
  <2>2. used \in [Slots -> BOOLEAN] /\ thread_count \in [Slots -> 0..MAX_THREADS_PER_PROCESS]
    BY DEF TableInv, TypeOK
  <2>3. Users' \subseteq Users /\ Tables' = Tables \ {dying}
    BY <2>1, <2>2, NoneIsNoThread DEF Users, Exists, Tables
  <2>4. \/ page_table[dying] # NULL /\ page_table[dying] \in owned
             /\ free' = free \union {page_table[dying]} /\ owned' = owned \ {page_table[dying]}
        \/ page_table[dying] = NULL /\ UNCHANGED <<free, owned>>
    BY <1>3 DEF Destroyed, Pmm!Release, pages
  <2>5. page_table[dying] # NULL => dying \in Tables
    BY <2>1 DEF Tables
  <2>6. free' \intersect owned' = {}
    BY <2>4 DEF PageInv
  <2>7. \A u \in Users' : stack[u] \in owned'
    BY <2>3, <2>4, <2>5 DEF PageInv, OneUser
  <2>8. \A j \in Tables' : page_table[j] \in owned'
    BY <2>3, <2>4, <2>5 DEF PageInv, OneUser
  <2>9. QED
    BY <2>1, <2>3, <2>6, <2>7, <2>8 DEF PageInv, OneUser
<1>4. CASE UNCHANGED <<table, stack, pages>>
  BY <1>4 DEF PageInv, OneUser, Users, Exists, Tables, table, pages
<1>5. QED
  BY <1>1, <1>2, <1>3, <1>4 DEF Next, DestroyProcess, DestroyThread, Schedule, vars

(* Whoever holds a page holds it alone, and whoever has none was refused     *)
(* one: what destroy_process frees is nobody else's page.                    *)
THEOREM ProcessPagesExclusive == Spec => []PagesExclusive
<1>1. Init => TableInv /\ PageInv
  BY InitialTable DEF Init, PageInv, OneUser, Users, Exists, Tables
<1>2. Init => (~refused => Backed)
  BY NoneIsNoThread, Sizes DEF Init, Backed, Exists, Places
<1>3. PageInv /\ (~refused => Backed) => PagesExclusive
  BY DEF PageInv, PagesExclusive
<1>4. QED
  BY <1>1, <1>2, <1>3, TableStep, PageStep, BackedStep, PTL DEF Spec

-----------------------------------------------------------------------------
(* The list of ready threads implements the stack RunQueue describes.        *)
THEOREM ProcessImplementsRunQueue == Spec => ImplementsRunQueue
<1>1. Init => Abstract!Init
  BY DEF Init, Abstract!Init
<1>2. ListInv /\ [Next]_vars => [Abstract!Next]_<<queue, running_thread, exited>>
  <2> SUFFICES ASSUME ListInv, [Next]_vars
               PROVE  [Abstract!Next]_<<queue, running_thread, exited>>
    OBVIOUS
  <2>1. CASE exited' /\ exited
    BY <2>1 DEF Abstract!Next
  <2>2. ASSUME ~exited, NEW i \in Slots, NEW n \in Nat, NEW taken, AddThread(i, n, taken),
               <<i, n + 1>> \in Threads \ Live, Live' = Live \union {<<i, n + 1>>}
        PROVE  Abstract!Next
    <3>1. /\ <<i, n + 1>> \notin Waiting /\ queue' = <<(<<i, n + 1>>)>> \o queue
          /\ running_thread' = running_thread /\ exited' = exited
      BY <2>2, EnqueueForgotten DEF AddThread
    <3>2. running_thread # <<i, n + 1>>
      BY <2>2, NoneIsNoThread DEF ListInv, NoDeadThreadScheduled
    <3>3. Abstract!Start(<<i, n + 1>>)
      BY <3>1, <3>2 DEF Abstract!Start, Abstract!Waiting, Waiting
    <3>4. QED
      BY <2>2, <3>1, <3>3 DEF Abstract!Next
  <2>3. CASE ~exited /\ CreateProcess
    <3>1. PICK i \in Slots, root \in Obtained({}) :
            /\ ~used[i] /\ used' = [used EXCEPT ![i] = TRUE]
            /\ AddThread(i, 0, {root} \ {NULL})
      BY <2>3 DEF CreateProcess
    <3>2. dying = Nobody
      BY <2>3 DEF CreateProcess
    <3>3. <<i, 1>> \in Threads \ Live /\ Live' = Live \union {<<i, 1>>}
      BY <3>1, <3>2, LiveAfterCreateProcess DEF ListInv
    <3>4. 0 \in Nat /\ 0 + 1 = 1
      OBVIOUS
    <3>5. QED
      BY <2>2, <2>3, <3>1, <3>3, <3>4
  <2>4. ASSUME ~exited, NEW i \in Slots, CreateThread(i) PROVE Abstract!Next
    <3>1. thread_count[i] \in Nat /\ AddThread(i, thread_count[i], {})
      BY <2>4 DEF CreateThread, ListInv, TableInv, TypeOK
    <3>2. QED
      BY <2>2, <2>4, <3>1, LiveAfterCreateThread DEF ListInv
  <2>5. CASE ~exited /\ DestroyThread
    <3> DEFINE t == <<dying, at>>
    <3>1. CASE ~exited'
      <4>1. t \in Linked /\ queue' = Left(t) /\ running_thread' = running_thread /\ exited' = exited
        BY <2>5, <3>1, DestroyForgotten, TableStep DEF ListInv, TableInv, TypeOK
      <4>2. t \in Waiting
        BY <2>5, <4>1 DEF ListInv, NoThreadForgotten
      <4>3. PICK k \in 1..Len(queue) : Left(t) = Abstract!Without(queue, k)
        <5>1. \E j \in 1..Len(queue) : queue[j] = t
          BY <4>2 DEF Waiting
        <5> DEFINE k == CHOOSE j \in 1..Len(queue) : queue[j] = t
        <5>2. k \in 1..Len(queue)
          BY <5>1
        <5>3. Left(t) = Abstract!Without(queue, k)
          BY <4>2 DEF Left, Abstract!Without
        <5>4. QED
          BY <5>2, <5>3
      <4>4. Abstract!End
        BY <4>1, <4>3 DEF Abstract!End
      <4>5. QED
        BY <2>5, <4>1, <4>4 DEF Abstract!Next
    <3>2. CASE exited'
      <4>1. running_thread = t /\ t \in Live
        BY <2>5, <3>2, LiveAfterDestroyThread DEF DestroyThread, ListInv
      <4>2. running_thread # None /\ state[t] = "running"
        BY <4>1, NoneIsNoThread DEF ListInv, NoDeadThreadScheduled, Live
      <4>3. running_thread' = None
        BY <2>5, <4>2 DEF DestroyThread, Unlink
      <4>4. QED
        BY <3>2, <4>2, <4>3 DEF Abstract!Next, Abstract!Exit
    <3>3. QED
      BY <3>1, <3>2
  <2>6. CASE ~exited /\ Schedule
    <3>1. /\ exited' = exited /\ running_thread' = Head(queue) /\ queue # <<>>
          /\ queue' = IF running_thread = None THEN Tail(queue)
                      ELSE <<running_thread>> \o Tail(queue)
      BY <2>6, ScheduleForgotten DEF Schedule
    <3>2. Abstract!Switch
      BY <3>1 DEF Abstract!Switch
    <3>3. QED
      BY <2>6, <3>1, <3>2 DEF Abstract!Next
  <2>7. CASE UNCHANGED <<queue, running_thread, exited>>
    BY <2>7
  <2>8. exited => exited'
    BY DEF Next, CreateProcess, CreateThread, AddThread, DestroyProcess, DestroyThread, Destroyed,
           Schedule, vars, intended
  <2>9. (\E i \in Slots : DestroyProcess(i)) \/ Destroyed \/ UNCHANGED vars
          => UNCHANGED <<queue, running_thread, exited>>
    BY DEF DestroyProcess, Destroyed, vars, lists, intended
  <2>10. QED
    BY <2>1, <2>3, <2>4, <2>5, <2>6, <2>7, <2>8, <2>9 DEF Next
<1>3. Init => ListInv
  <2>1. Init => NoThreadForgotten
    BY NoneIsNoThread DEF Init, NoThreadForgotten, Waiting, Linked, Live
  <2>2. QED
    BY <2>1, InitialTable DEF ListInv
<1>4. ListInv /\ [Next]_vars => ListInv'
  BY TableStep, LinksStep, ForgottenStep DEF ListInv
<1>5. QED
  BY <1>1, <1>2, <1>3, <1>4, PTL DEF Spec, Abstract!Spec, ImplementsRunQueue
=============================================================================
