------------------------------ MODULE TaskQueue ------------------------------
(***************************************************************************)
(* What the ready rings promise: each worker has a first-in first-out      *)
(* queue of tasks, and runs the tasks of its own queue one at a time, each *)
(* as often as it was put in.                                              *)
(***************************************************************************)
EXTENDS Naturals, Sequences

CONSTANTS Workers, Tasks, Idle, Room

VARIABLES
  queue,    \* the ready tasks of each worker
  running   \* the task each worker runs, or Idle

qvars == <<queue, running>>

QInit ==
  /\ queue = [w \in Workers |-> <<>>]
  /\ running = [w \in Workers |-> Idle]

Enqueue(w, x) ==
  /\ Len(queue[w]) < Room
  /\ queue' = [queue EXCEPT ![w] = Append(@, x)]
  /\ UNCHANGED running

Start(w) ==
  /\ running[w] = Idle /\ queue[w] # <<>>
  /\ running' = [running EXCEPT ![w] = Head(queue[w])]
  /\ queue' = [queue EXCEPT ![w] = Tail(@)]

Finish(w) ==
  /\ running[w] # Idle
  /\ running' = [running EXCEPT ![w] = Idle]
  /\ UNCHANGED queue

\* A task that is suspended goes to the end of its own worker's queue.
Requeue(w) ==
  /\ running[w] # Idle /\ Len(queue[w]) < Room
  /\ queue' = [queue EXCEPT ![w] = Append(@, running[w])]
  /\ running' = [running EXCEPT ![w] = Idle]

Reset ==
  /\ running = [w \in Workers |-> Idle]
  /\ queue' = [w \in Workers |-> <<>>]
  /\ UNCHANGED running

QNext ==
  \/ \E w \in Workers : Start(w) \/ Finish(w) \/ Requeue(w)
                        \/ \E x \in Tasks : Enqueue(w, x)
  \/ Reset

QSpec == QInit /\ [][QNext]_qvars
=============================================================================
