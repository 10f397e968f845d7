------------------------------ MODULE RunQueue ------------------------------
(***************************************************************************)
(* What the scheduler's list of ready threads amounts to: a stack.  A new  *)
(* thread goes on top; the thread on top is the next to run; the one it    *)
(* replaces takes its place on top.                                        *)
(*                                                                         *)
(* The promise ends when a thread is ended while it runs: from then on the *)
(* order, and who is still waiting, is anybody's guess.                    *)
(***************************************************************************)
EXTENDS Integers, Sequences

CONSTANTS
  Threads,
  None       (* no thread                                                    *)

VARIABLES
  ready,     (* the threads that wait, the next to run first                 *)
  running,   (* the thread that runs, or None                                *)
  exited     (* a thread was ended while it ran                              *)

Init == ready = <<>> /\ running = None /\ exited = FALSE

Waiting == {ready[k] : k \in 1..Len(ready)}

Start(t) ==
  /\ t # running /\ t \notin Waiting
  /\ ready' = <<t>> \o ready
  /\ UNCHANGED running

Switch ==
  /\ ready # <<>>
  /\ running' = Head(ready)
  /\ ready' = IF running = None THEN Tail(ready) ELSE <<running>> \o Tail(ready)

Without(s, k) == [i \in 1..(Len(s) - 1) |-> IF i < k THEN s[i] ELSE s[i + 1]]

(* A waiting thread ends; those that stay keep their order.                  *)
End ==
  /\ \E k \in 1..Len(ready) : ready' = Without(ready, k)
  /\ UNCHANGED running

(* The running thread ends.                                                  *)
Exit == running # None /\ running' = None

Next ==
  \/ ~exited /\ UNCHANGED exited /\ ((\E t \in Threads : Start(t)) \/ Switch \/ End)
  \/ exited' /\ (exited \/ Exit)

Spec == Init /\ [][Next]_<<ready, running, exited>>
=============================================================================
