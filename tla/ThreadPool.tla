----------------------------- MODULE ThreadPool -----------------------------
(***************************************************************************)
(* thread_pool.c: a task list guarded by one mutex, worker threads that    *)
(* sleep on one condition variable, and pool_destroy, which writes isClose *)
(* WITHOUT taking the mutex.                                               *)
(*                                                                         *)
(* A step is what happens between two points where another thread can      *)
(* interfere.  A critical section is one step, except the worker's test of *)
(* isClose and its call of pthread_cond_wait: pool_destroy can run between *)
(* them, because it does not take the mutex.                               *)
(***************************************************************************)
EXTENDS Naturals, Sequences, FiniteSets

CONSTANTS
  Workers,        \* the threads pool_init created
  Submitters,     \* the threads that call pool_add_task
  TasksPerThread, \* how many tasks each of them adds
  NoTask,         \* a worker's curTask while it has none
  NoThread        \* the owner of a free mutex

Tasks == Submitters \X (1 .. TasksPerThread)

ASSUME ThreadPoolAssumption ==
  /\ Workers # {} /\ IsFiniteSet(Workers)
  /\ IsFiniteSet(Submitters)
  /\ TasksPerThread \in Nat
  /\ NoTask \notin Tasks
  /\ NoThread \notin Workers

VARIABLES
  queue,     \* the list that starts at taskHead
  running,   \* worker -> curTask
  isClose,   \* the closing flag
  mutex,     \* the worker that holds the mutex across steps, or NoThread
  wpc,       \* worker -> where it is in thread_run
  added,     \* submitter -> how many tasks it has put on the list
  spc,       \* submitter -> "idle", or "signal" between unlock and cond_signal
  dpc        \* where the caller of pool_destroy is

vars == <<queue, running, isClose, mutex, wpc, added, spc, dpc>>

Pool == INSTANCE TaskPool

(***************************************************************************)
(* Worker states: "lock" before pthread_mutex_lock (also where a thread    *)
(* waking up in pthread_cond_wait re-acquires it), "check" at the while    *)
(* test, "wait" after the test and before pthread_cond_wait has released   *)
(* the mutex, "asleep" inside it, "run" inside the task, "exited".         *)
(***************************************************************************)
WorkerStates == {"lock", "check", "wait", "asleep", "run", "exited"}

Holding(w) == wpc[w] \in {"check", "wait"}
Asleep     == {w \in Workers : wpc[w] = "asleep"}
OnTheWay   == {w \in Workers : wpc[w] \in {"lock", "check"}}
Signals    == {s \in Submitters : spc[s] = "signal"}

Init ==
  /\ Pool!PoolInit
  /\ isClose = FALSE
  /\ mutex = NoThread
  /\ wpc = [w \in Workers |-> "lock"]
  /\ added = [s \in Submitters |-> 0]
  /\ spc = [s \in Submitters |-> "idle"]
  /\ dpc = "idle"

WakeOnly(ws) == wpc' = [w \in Workers |-> IF w \in ws THEN "lock" ELSE wpc[w]]

-----------------------------------------------------------------------------
(* pool_add_task *)

AddTaskAtHead(s) ==      \* mutant: the new task becomes taskHead
  /\ spc[s] = "idle" /\ added[s] < TasksPerThread /\ dpc = "idle"
  /\ mutex = NoThread
  /\ added' = [added EXCEPT ![s] = @ + 1]
  /\ queue' = << <<s, added[s] + 1>> >> \o queue
  /\ spc' = [spc EXCEPT ![s] = "signal"]
  /\ UNCHANGED <<running, isClose, mutex, wpc, dpc>>

\* Lock, append at the tail, unlock.  main() adds its tasks before it
\* destroys a pool, hence dpc = "idle".
AddTask(s) ==
  /\ spc[s] = "idle" /\ added[s] < TasksPerThread /\ dpc = "idle"
  /\ mutex = NoThread
  /\ added' = [added EXCEPT ![s] = @ + 1]
  /\ queue' = Append(queue, <<s, added[s] + 1>>)
  /\ spc' = [spc EXCEPT ![s] = "signal"]
  /\ UNCHANGED <<running, isClose, mutex, wpc, dpc>>

SignalOnlyFirst(s) ==    \* mutant: signal only when the list was empty
  /\ spc[s] = "signal"
  /\ spc' = [spc EXCEPT ![s] = "idle"]
  /\ IF Asleep = {} \/ Len(queue) > 1
       THEN UNCHANGED wpc
       ELSE \E w \in Asleep : WakeOnly({w})
  /\ UNCHANGED <<queue, running, isClose, mutex, added, dpc>>

\* pthread_cond_signal, after the mutex was released: it wakes one sleeping
\* worker, and is forgotten when there is none.
Signal(s) ==
  /\ spc[s] = "signal"
  /\ spc' = [spc EXCEPT ![s] = "idle"]
  /\ \/ Asleep = {} /\ UNCHANGED wpc
     \/ \E w \in Asleep : WakeOnly({w})
  /\ UNCHANGED <<queue, running, isClose, mutex, added, dpc>>

-----------------------------------------------------------------------------
(* thread_run *)

Lock(w) ==
  /\ wpc[w] = "lock"
  /\ mutex = NoThread
  /\ mutex' = w
  /\ wpc' = [wpc EXCEPT ![w] = "check"]
  /\ UNCHANGED <<queue, running, isClose, added, spc, dpc>>

\* The while test holds: the worker is going to call pthread_cond_wait.
DecideToWait(w) ==
  /\ wpc[w] = "check"
  /\ ~isClose /\ queue = << >>
  /\ wpc' = [wpc EXCEPT ![w] = "wait"]
  /\ UNCHANGED <<queue, running, isClose, mutex, added, spc, dpc>>

CondWaitKeepsMutex(w) ==   \* mutant: sleeping with the mutex held
  /\ wpc[w] = "wait"
  /\ wpc' = [wpc EXCEPT ![w] = "asleep"]
  /\ UNCHANGED <<queue, running, isClose, mutex, added, spc, dpc>>

\* pthread_cond_wait releases the mutex and sleeps in one step.
CondWait(w) ==
  /\ wpc[w] = "wait"
  /\ wpc' = [wpc EXCEPT ![w] = "asleep"]
  /\ mutex' = NoThread
  /\ UNCHANGED <<queue, running, isClose, added, spc, dpc>>

\* POSIX lets pthread_cond_wait return without a signal.
SpuriousWakeup(w) ==
  /\ wpc[w] = "asleep"
  /\ WakeOnly({w})
  /\ UNCHANGED <<queue, running, isClose, mutex, added, spc, dpc>>

ExitWhenClosed(w) ==     \* mutant: the list is not tested before exiting
  /\ wpc[w] = "check"
  /\ isClose
  /\ wpc' = [v \in Workers |-> IF v = w THEN "exited"
                               ELSE IF v \in Asleep THEN "lock" ELSE wpc[v]]
  /\ mutex' = NoThread
  /\ UNCHANGED <<queue, running, isClose, added, spc, dpc>>

\* Closed and nothing left: broadcast, unlock, pthread_exit.
Exit(w) ==
  /\ wpc[w] = "check"
  /\ isClose /\ queue = << >>
  /\ wpc' = [v \in Workers |-> IF v = w THEN "exited"
                               ELSE IF v \in Asleep THEN "lock" ELSE wpc[v]]
  /\ mutex' = NoThread
  /\ UNCHANGED <<queue, running, isClose, added, spc, dpc>>

\* Take the head of the list, unlock, call the task.
Take(w) ==
  /\ wpc[w] = "check"
  /\ queue # << >>
  /\ running' = [running EXCEPT ![w] = Head(queue)]
  /\ queue' = Tail(queue)
  /\ wpc' = [wpc EXCEPT ![w] = "run"]
  /\ mutex' = NoThread
  /\ UNCHANGED <<isClose, added, spc, dpc>>

\* The task returns; free(curTask); back to the lock.
Return(w) ==
  /\ wpc[w] = "run"
  /\ running' = [running EXCEPT ![w] = NoTask]
  /\ wpc' = [wpc EXCEPT ![w] = "lock"]
  /\ UNCHANGED <<queue, isClose, mutex, added, spc, dpc>>

-----------------------------------------------------------------------------
(* pool_destroy, called once, by the thread that added the pool's tasks *)

Close ==
  /\ dpc = "idle"
  /\ \A s \in Submitters : added[s] = TasksPerThread /\ spc[s] = "idle"
  /\ isClose' = TRUE
  /\ dpc' = "broadcast"
  /\ UNCHANGED <<queue, running, mutex, wpc, added, spc>>

Broadcast ==
  /\ dpc = "broadcast"
  /\ WakeOnly(Asleep)
  /\ dpc' = "join"
  /\ UNCHANGED <<queue, running, isClose, mutex, added, spc>>

\* Every pthread_join has returned; the rest of the list and the pool are
\* freed.
JoinAndFree ==
  /\ dpc = "join"
  /\ \A w \in Workers : wpc[w] = "exited"
  /\ queue' = << >>
  /\ dpc' = "freed"
  /\ UNCHANGED <<running, isClose, mutex, wpc, added, spc>>

-----------------------------------------------------------------------------
Worker(w) ==
  \/ Lock(w) \/ DecideToWait(w) \/ CondWait(w) \/ SpuriousWakeup(w)
  \/ Exit(w) \/ Take(w) \/ Return(w)

Submitter(s) == AddTask(s) \/ Signal(s)

Destroyer == Close \/ Broadcast \/ JoinAndFree

Next ==
  \/ \E w \in Workers : Worker(w)
  \/ \E s \in Submitters : Submitter(s)
  \/ Destroyer

\* Every thread that can take a step of its own eventually takes it: the
\* kernel runs each runnable thread, and a task returns.  Spurious wakeups
\* are never promised, and nothing forces the program to destroy the pool.
Fairness ==
  /\ \A w \in Workers :
       /\ SF_vars(Lock(w))
       /\ WF_vars(DecideToWait(w) \/ CondWait(w) \/ Exit(w) \/ Take(w) \/ Return(w))
  /\ \A s \in Submitters : WF_vars(Signal(s))
  /\ WF_vars(Broadcast \/ JoinAndFree)

Spec == Init /\ [][Next]_vars

FairSpec == Spec /\ Fairness

-----------------------------------------------------------------------------
\* The variables have their types; a worker holds the mutex exactly while it
\* is inside its critical section, and has a task exactly while it runs one.
TypeOK ==
  /\ queue \in Seq(Tasks)
  /\ running \in [Workers -> Tasks \union {NoTask}]
  /\ isClose \in BOOLEAN
  /\ mutex \in Workers \union {NoThread}
  /\ wpc \in [Workers -> WorkerStates]
  /\ added \in [Submitters -> 0 .. TasksPerThread]
  /\ spc \in [Submitters -> {"idle", "signal"}]
  /\ dpc \in {"idle", "broadcast", "join", "freed"}
  /\ \A w \in Workers : Holding(w) <=> mutex = w
  /\ \A w \in Workers : wpc[w] = "run" <=> running[w] # NoTask

\* One cond_signal per task, sent outside the mutex, is enough: whenever a
\* worker sleeps, every listed task already has a worker on its way to the
\* list or a signal about to be sent.
WorkConserving ==
  \/ Asleep = {}
  \/ Len(queue) <= Cardinality(OnTheWay) + Cardinality(Signals)

\* pool_destroy discards no task: no thread has exited while a task is
\* listed, so the list the destructor frees is empty.
NothingDiscarded == (\E w \in Workers : wpc[w] = "exited") => isClose /\ queue = << >>

\* The pool implements the abstract FIFO task pool: a task is run by one
\* worker, once, after it was added and after all those listed before it
\* were taken.
ImplementsTaskPool == Pool!PoolSpec

\* Every task that was added is taken by a worker, also when the pool is
\* being destroyed.
EveryTaskStarts ==
  \A t \in Tasks :
    (\E i \in DOMAIN queue : queue[i] = t) ~> (\E w \in Workers : running[w] = t)

\* "Wake up all waiting threads, then destroy the thread pool"
\* (thread_pool.c:87): once pool_destroy has been called, it returns.
DestroyReturns == (dpc = "broadcast") ~> (dpc = "freed")

=============================================================================
