------------------------------- MODULE Process -------------------------------
(***************************************************************************)
(* The process table and the scheduler, kernel/src/proc/process.c, on top  *)
(* of the page allocator.                                                  *)
(*                                                                         *)
(* A thread is <<slot of its process, its place in the process>>.  Ready   *)
(* threads form a doubly linked list through the table; threads that were  *)
(* destroyed keep their old links, and their places are used again.  The   *)
(* kernel is single-threaded: a call is one step, except destroy_process,  *)
(* which is one step per round of its loop, and nothing else runs until it *)
(* returns.                                                                *)
(***************************************************************************)
EXTENDS Integers, Sequences, FiniteSets

CONSTANTS
  MAX_PROCESSES,
  MAX_THREADS_PER_PROCESS,
  Pages,            (* the pages of the page allocator                         *)
  NULL              (* the page that means "none"                              *)

Slots   == 1..MAX_PROCESSES
Places  == 1..MAX_THREADS_PER_PROCESS
Threads == Slots \X Places
None    == <<0, 0>>
Nobody  == 0

ASSUME ProcessAssumption ==
  /\ MAX_PROCESSES \in Nat \ {0} /\ MAX_THREADS_PER_PROCESS \in Nat \ {0}
  /\ NULL \notin Pages

VARIABLES
  pid, used, page_table, thread_count,  (* the processes, by slot              *)
  state, next, prev, stack,             (* the threads                         *)
  process_count,
  ready_queue,      (* head of the list, or None                               *)
  running_thread,
  dying, at,        (* destroy_process: its process and the thread it is at    *)
  free, owned, lost,(* the page allocator                                      *)
  queue,            (* auxiliary: the threads the list should hold, head first *)
  exited,           (* auxiliary: a thread was destroyed while it ran          *)
  refused           (* auxiliary: pmm_alloc_page had no page for a caller here *)

table    == <<pid, used, page_table, thread_count>>
lists    == <<state, next, prev, ready_queue, running_thread>>
pages    == <<free, owned, lost>>
loop     == <<dying, at>>
intended == <<queue, exited, refused>>
vars     == <<table, lists, stack, process_count, pages, loop, intended>>

Pmm == INSTANCE PageAllocator WITH Frames <- Pages

(* proc_init.                                                                *)
Init ==
  /\ pid = [i \in Slots |-> 0] /\ used = [i \in Slots |-> FALSE]
  /\ page_table = [i \in Slots |-> NULL] /\ thread_count = [i \in Slots |-> 0]
  /\ state = [t \in Threads |-> "running"] /\ stack = [t \in Threads |-> NULL]
  /\ next = [t \in Threads |-> None] /\ prev = [t \in Threads |-> None]
  /\ process_count = 0 /\ ready_queue = None /\ running_thread = None
  /\ dying = Nobody /\ at = 1
  /\ free = Pages /\ owned = {} /\ lost = {}
  /\ queue = <<>> /\ exited = FALSE /\ refused = FALSE

(* Threads of processes that exist, but for those destroy_process has        *)
(* already taken off the list.                                               *)
Live == {t \in Threads : /\ used[t[1]] /\ t[2] <= thread_count[t[1]]
                         /\ t[1] = dying => t[2] >= at}

(* After a thread was destroyed while it ran nothing is said of the list.    *)
Intend(q) == queue' = IF exited' THEN <<>> ELSE q

(* pmm_alloc_page, whose result is not looked at: with no page left it is    *)
(* NULL, the page at address 0, and the caller goes on with that.            *)
Obtained(taken) == IF free \subseteq taken THEN {NULL} ELSE free \ taken

(* create_thread in a process that has n threads and room for one more, for  *)
(* a caller that has taken some pages before.                                *)
AddThread(i, n, taken) ==
  LET t == <<i, n + 1>> IN
  \E s \in Obtained(taken) :
    /\ state' = [state EXCEPT ![t] = "ready"]
    /\ next' = [next EXCEPT ![t] = ready_queue]
    /\ prev' = IF ready_queue = None THEN [prev EXCEPT ![t] = None]
               ELSE [prev EXCEPT ![t] = None, ![ready_queue] = t]
    /\ stack' = [stack EXCEPT ![t] = s]
    /\ ready_queue' = t
    /\ thread_count' = [thread_count EXCEPT ![i] = n + 1]
    /\ free' = free \ (taken \union {s})
    /\ owned' = owned \union ((taken \union {s}) \ {NULL})
    /\ UNCHANGED <<running_thread, lost, loop, exited>>
    /\ Intend(<<t>> \o queue)
    /\ refused' = (refused \/ s = NULL)

(* create_process in the first slot not in use, with its first thread, for a *)
(* caller that has just made a page table.                                   *)
CreateProcess ==
  /\ dying = Nobody
  /\ \E i \in Slots, root \in Obtained({}) :
       /\ ~used[i] /\ \A j \in 1..(i - 1) : used[j]
       /\ pid' = [pid EXCEPT ![i] = i] /\ used' = [used EXCEPT ![i] = TRUE]
       /\ page_table' = [page_table EXCEPT ![i] = root]
       /\ AddThread(i, 0, {root} \ {NULL})
  /\ process_count' = process_count + 1

CreateThread(i) ==
  /\ dying = Nobody
  /\ used[i] /\ thread_count[i] < MAX_THREADS_PER_PROCESS
  /\ AddThread(i, thread_count[i], {})
  /\ UNCHANGED <<pid, used, page_table, process_count>>

(* destroy_process is called for a process that is in use, the running one   *)
(* or another.                                                               *)
DestroyProcess(i) ==
  /\ dying = Nobody /\ used[i]
  /\ dying' = i /\ at' = 1
  /\ UNCHANGED <<table, lists, stack, process_count, pages, intended>>

(* Mutant: the thread behind keeps its link to the one that left.            *)
UnlinkOneWay(t) ==
  /\ next' = IF prev[t] = None THEN next ELSE [next EXCEPT ![prev[t]] = next[t]]
  /\ ready_queue' = IF prev[t] = None THEN next[t] ELSE ready_queue
  /\ running_thread' = IF state[t] = "running" THEN None ELSE running_thread
  /\ UNCHANGED <<state, prev>>

(* Mutant: the running thread stays the running one.                         *)
UnlinkStillRunning(t) ==
  /\ next' = IF prev[t] = None THEN next ELSE [next EXCEPT ![prev[t]] = next[t]]
  /\ ready_queue' = IF prev[t] = None THEN next[t] ELSE ready_queue
  /\ prev' = IF next[t] = None THEN prev ELSE [prev EXCEPT ![next[t]] = prev[t]]
  /\ UNCHANGED <<state, running_thread>>

(* Thread t leaves the list.  A thread without a predecessor is taken for    *)
(* the head of the list.                                                     *)
Unlink(t) ==
  /\ next' = IF prev[t] = None THEN next ELSE [next EXCEPT ![prev[t]] = next[t]]
  /\ ready_queue' = IF prev[t] = None THEN next[t] ELSE ready_queue
  /\ prev' = IF next[t] = None THEN prev ELSE [prev EXCEPT ![next[t]] = prev[t]]
  /\ running_thread' = IF state[t] = "running" THEN None ELSE running_thread
  /\ UNCHANGED state

Waiting == {queue[k] : k \in 1..Len(queue)}

(* The intended list without thread t.                                       *)
Left(t) ==
  LET k == CHOOSE j \in 1..Len(queue) : queue[j] = t
  IN  IF t \in Waiting
        THEN [i \in 1..(Len(queue) - 1) |-> IF i < k THEN queue[i] ELSE queue[i + 1]]
        ELSE queue

(* destroy_process, the body of its loop.                                    *)
DestroyThread ==
  /\ dying # Nobody /\ at <= thread_count[dying]
  /\ LET t == <<dying, at>> IN
     /\ Unlink(t)
     /\ exited' = (exited \/ running_thread = t)
     /\ Intend(Left(t))
  /\ at' = at + 1
  /\ UNCHANGED <<table, stack, process_count, pages, dying, refused>>

(* Mutant: the process is not counted out.                                   *)
DestroyedUncounted ==
  /\ dying # Nobody /\ at > thread_count[dying]
  /\ IF page_table[dying] # NULL THEN Pmm!Release(page_table[dying]) ELSE UNCHANGED pages
  /\ used' = [used EXCEPT ![dying] = FALSE] /\ pid' = [pid EXCEPT ![dying] = 0]
  /\ thread_count' = [thread_count EXCEPT ![dying] = 0]
  /\ dying' = Nobody /\ at' = 1
  /\ UNCHANGED <<page_table, lists, stack, intended, process_count>>

(* Mutant: the page table is freed, the rest of the work is left out.        *)
DestroyedHalfway ==
  /\ dying # Nobody /\ at > thread_count[dying]
  /\ page_table[dying] \in owned /\ Pmm!Release(page_table[dying])
  /\ dying' = Nobody /\ at' = 1
  /\ UNCHANGED <<table, lists, stack, intended, process_count>>

(* destroy_process, after its loop.                                          *)
Destroyed ==
  /\ dying # Nobody /\ at > thread_count[dying]
  /\ IF page_table[dying] # NULL THEN Pmm!Release(page_table[dying]) ELSE UNCHANGED pages
  /\ used' = [used EXCEPT ![dying] = FALSE] /\ pid' = [pid EXCEPT ![dying] = 0]
  /\ thread_count' = [thread_count EXCEPT ![dying] = 0]
  /\ process_count' = process_count - 1
  /\ dying' = Nobody /\ at' = 1
  /\ UNCHANGED <<page_table, lists, stack, intended>>

(* Mutant: the thread that was running is not put back.                      *)
ScheduleDropsOld ==
  /\ dying = Nobody /\ ready_queue # None
  /\ LET new  == ready_queue
         rest == next[new]
     IN  /\ state' = [state EXCEPT ![new] = "running"]
         /\ next' = [next EXCEPT ![new] = None]
         /\ prev' = [t \in Threads |-> IF t \in {new, rest} THEN None ELSE prev[t]]
         /\ ready_queue' = rest /\ running_thread' = new
  /\ UNCHANGED <<table, stack, process_count, pages, loop, exited, refused>>
  /\ Intend(Left(ready_queue))

(* schedule with a thread to run: it leaves the head of the list, and the    *)
(* one that was running goes there.                                          *)
Schedule ==
  /\ dying = Nobody /\ ready_queue # None
  /\ LET new  == ready_queue
         old  == running_thread
         rest == next[new]
         back == [t \in Threads |-> IF t \in {new, rest} THEN None ELSE prev[t]]
     IN  /\ running_thread' = new
         /\ IF old \in {None, new}
              THEN /\ state' = [state EXCEPT ![new] = "running"]
                   /\ next' = [next EXCEPT ![new] = None]
                   /\ prev' = back
                   /\ ready_queue' = rest
              ELSE /\ state' = [state EXCEPT ![new] = "running", ![old] = "ready"]
                   /\ next' = [next EXCEPT ![new] = None, ![old] = rest]
                   /\ prev' = IF rest = None THEN back ELSE [back EXCEPT ![rest] = old]
                   /\ ready_queue' = old
         /\ UNCHANGED exited
         /\ Intend(IF old = None THEN Left(new) ELSE <<old>> \o Left(new))
  /\ UNCHANGED <<table, stack, process_count, pages, loop, refused>>

Next ==
  \/ CreateProcess
  \/ \E i \in Slots : CreateThread(i) \/ DestroyProcess(i)
  \/ DestroyThread
  \/ Destroyed
  \/ Schedule

Spec == Init /\ [][Next]_vars

-----------------------------------------------------------------------------
TypeOK ==
  /\ pid \in [Slots -> 0..MAX_PROCESSES] /\ used \in [Slots -> BOOLEAN]
  /\ page_table \in [Slots -> Pages \union {NULL}]
  /\ thread_count \in [Slots -> 0..MAX_THREADS_PER_PROCESS]
  /\ state \in [Threads -> {"ready", "running"}]
  /\ next \in [Threads -> Threads \union {None}]
  /\ prev \in [Threads -> Threads \union {None}]
  /\ stack \in [Threads -> Pages \union {NULL}]
  /\ process_count \in 0..MAX_PROCESSES
  /\ ready_queue \in Threads \union {None} /\ running_thread \in Threads \union {None}
  /\ dying \in Slots \union {Nobody} /\ at \in 1..(MAX_THREADS_PER_PROCESS + 1)
  /\ free \subseteq Pages /\ owned \subseteq Pages /\ lost \subseteq Pages
  /\ queue \in Seq(Threads) /\ exited \in BOOLEAN /\ refused \in BOOLEAN

Linked == Live \ {running_thread}

(* schedule never comes to a thread whose process was destroyed, though its  *)
(* links stay in the table: whoever runs, heads the list, or is linked from  *)
(* a thread that is alive, is alive and does not run, and links agree in     *)
(* both directions.  It holds whichever process is destroyed.                *)
NoDeadThreadScheduled ==
  /\ running_thread # None =>
       /\ running_thread \in Live
       /\ next[running_thread] = None /\ prev[running_thread] = None
  /\ ready_queue # None => ready_queue \in Linked /\ prev[ready_queue] = None
  /\ \A t \in Live : state[t] = "running" <=> t = running_thread
  /\ \A t \in Linked : next[t] # None => next[t] \in Linked /\ prev[next[t]] = t
  /\ \A t \in Linked : prev[t] # None => prev[t] \in Linked /\ next[prev[t]] = t

(* A thread that exists runs or waits on the list: create, schedule and      *)
(* destroy lose none, in whatever order, until a process is destroyed while  *)
(* it runs.                                                                  *)
NoThreadForgotten ==
  exited \/
    /\ Waiting = Linked
    /\ \A j, k \in 1..Len(queue) : queue[j] = queue[k] => j = k
    /\ ready_queue = IF Len(queue) = 0 THEN None ELSE queue[1]
    /\ \A k \in 1..Len(queue) :
         next[queue[k]] = IF k = Len(queue) THEN None ELSE queue[k + 1]

Exists(t) == used[t[1]] /\ t[2] <= thread_count[t[1]]
Users     == {t \in Threads : Exists(t) /\ stack[t] # NULL}
Tables    == {i \in Slots : used[i] /\ page_table[i] # NULL}

(* Every thread has a stack and every process a page table.                  *)
Backed ==
  /\ \A t \in Threads : Exists(t) => stack[t] # NULL
  /\ \A i \in Slots : used[i] => page_table[i] # NULL

OneUser ==
  /\ \A t \in Users : stack[t] \in owned
  /\ \A i \in Tables : page_table[i] \in owned
  /\ \A t, u \in Users : t # u => stack[t] # stack[u]
  /\ \A i, j \in Tables : i # j => page_table[i] # page_table[j]
  /\ \A t \in Users, i \in Tables : stack[t] # page_table[i]

(* Until the allocator refuses a page, every thread has a stack and every    *)
(* process a page table, and each is theirs alone; what destroy_process      *)
(* frees is freed once and is nobody else's.  After a refusal that is said   *)
(* only of those who hold a page: the threads that were refused a stack all  *)
(* run on the page at address 0, and nothing is said of them.                *)
PagesExclusive == (~refused => Backed) /\ OneUser

(* process_count counts the slots in use; pids are unique.                   *)
CountExact ==
  /\ process_count = Cardinality({i \in Slots : used[i]})
  /\ \A i \in Slots : pid[i] = IF used[i] THEN i ELSE 0

Abstract == INSTANCE RunQueue WITH ready <- queue, running <- running_thread

(* The linked list, which by NoThreadForgotten is queue, behaves as a stack  *)
(* of threads.                                                               *)
ImplementsRunQueue == Abstract!Spec
=============================================================================
