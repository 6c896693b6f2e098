------------------------------ MODULE TaskPool ------------------------------
(***************************************************************************)
(* What a pool of worker threads promises to the code that calls           *)
(* pool_add_task: a first-in first-out list of tasks, each taken by one    *)
(* idle worker, run once, and never run before it was submitted.           *)
(*                                                                         *)
(* The module is abstract: no mutex, no condition variable, no sleeping    *)
(* thread.  ThreadPool.tla models thread_pool.c and implements it;         *)
(* TxPipeline.tla uses its actions as the behaviour of pool 2.             *)
(***************************************************************************)
EXTENDS Naturals, Sequences

CONSTANTS
  Workers,   \* the pool's threads
  Tasks,     \* the values a submitted task may have
  NoTask     \* what an idle worker runs (no member of Tasks)

VARIABLES
  queue,     \* the task list, head first
  running    \* the task each worker has taken off the list, or NoTask

poolVars == <<queue, running>>

PoolTypeOK ==
  /\ queue \in Seq(Tasks)
  /\ running \in [Workers -> Tasks \union {NoTask}]

PoolInit ==
  /\ queue = << >>
  /\ running = [w \in Workers |-> NoTask]

SubmitAtHead(t) ==     \* mutant: the newest task is taken first
  /\ queue' = <<t>> \o queue
  /\ UNCHANGED running

\* A caller appends a task to the list.
Submit(t) ==
  /\ queue' = Append(queue, t)
  /\ UNCHANGED running

\* An idle worker takes the oldest task.
Start(w) ==
  /\ running[w] = NoTask
  /\ queue # << >>
  /\ running' = [running EXCEPT ![w] = Head(queue)]
  /\ queue' = Tail(queue)

\* A worker returns from the task function.
Finish(w) ==
  /\ running[w] # NoTask
  /\ running' = [running EXCEPT ![w] = NoTask]
  /\ UNCHANGED queue

PoolNext ==
  \/ \E t \in Tasks : Submit(t)
  \/ \E w \in Workers : Start(w) \/ Finish(w)

PoolSpec == PoolInit /\ [][PoolNext]_poolVars

=============================================================================
