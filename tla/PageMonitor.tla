---------------------------- MODULE PageMonitor ----------------------------
(***************************************************************************)
(* What the page lock and its waitqueue (core/vsm.c) promise, and what Vsm *)
(* assumes of them: one holder at a time; a proc that arrives is appended  *)
(* to the queue and its bringer becomes the holder if the page is free;    *)
(* the holder serves procs in order of arrival and can leave only when     *)
(* none is waiting.                                                        *)
(***************************************************************************)
EXTENDS Naturals, Sequences

CONSTANTS Cpus, Rx, Free, MaxProcs

VARIABLES holder, queue, arrived, served

Init ==
  /\ holder = Free
  /\ queue = <<>>
  /\ arrived = 0
  /\ served = 0

Acquire(c) ==
  /\ holder = Free
  /\ holder' = c
  /\ UNCHANGED <<queue, arrived, served>>

\* procs are numbered in order of arrival
Arrive ==
  /\ arrived < MaxProcs
  /\ arrived' = arrived + 1
  /\ queue' = Append(queue, arrived + 1)
  /\ holder' = IF holder = Free THEN Rx ELSE holder
  /\ UNCHANGED served

Serve ==
  /\ holder # Free
  /\ queue # <<>>
  /\ Head(queue) = served + 1
  /\ queue' = Tail(queue)
  /\ served' = served + 1
  /\ UNCHANGED <<holder, arrived>>

Release ==
  /\ holder # Free
  /\ queue = <<>>
  /\ holder' = Free
  /\ UNCHANGED <<queue, arrived, served>>

Next == (\E c \in Cpus : Acquire(c)) \/ Arrive \/ Serve \/ Release

Spec == Init /\ [][Next]_<<holder, queue, arrived, served>>
=============================================================================
