-------------------------- MODULE ThreadPool_proofs --------------------------
(***************************************************************************)
(* ThreadPool, for any number of workers, submitters and tasks: the mutex  *)
(* is held by one worker at a time, no signal is missed, pool_destroy      *)
(* discards no task, and the pool implements the FIFO pool of TaskPool.    *)
(***************************************************************************)
EXTENDS ThreadPool, FiniteSetTheorems, TLAPS

\* The flag is set by the first step of pool_destroy and never reset.
ClosedOnce == isClose <=> dpc # "idle"

\* A worker between its test of the list and its sleep saw an empty list, and
\* nobody can add a task before it sleeps: it holds the mutex.
SawNothing == \A w \in Workers : wpc[w] = "wait" => queue = << >>

\* The inductive invariant.
PoolInv == TypeOK /\ ClosedOnce /\ SawNothing /\ NothingDiscarded

-----------------------------------------------------------------------------
(* The mutex, the list and the flag *)

\* A fresh pool: empty list, open, every worker at the start of its loop.
LEMMA PoolInvInit == Init => PoolInv
  <1> SUFFICES ASSUME Init PROVE PoolInv
    OBVIOUS
  <1> USE ThreadPoolAssumption DEF Init, Pool!PoolInit
  <1>1. TypeOK
    <2>1. queue \in Seq(Tasks) /\ running \in [Workers -> Tasks \union {NoTask}]
      OBVIOUS
    <2>2. isClose \in BOOLEAN
      OBVIOUS
    <2>3. /\ wpc \in [Workers -> WorkerStates]
          /\ added \in [Submitters -> 0 .. TasksPerThread]
          /\ spc \in [Submitters -> {"idle", "signal"}]
          /\ dpc \in {"idle", "broadcast", "join", "freed"}
          /\ mutex \in Workers \union {NoThread}
      BY DEF WorkerStates, ThreadPoolAssumption
    <2>4. \A w \in Workers : /\ Holding(w) <=> mutex = w
                             /\ wpc[w] = "run" <=> running[w] # NoTask
      BY DEF Holding, ThreadPoolAssumption
    <2> QED
      BY <2>1, <2>2, <2>3, <2>4 DEF TypeOK
  <1>2. ClosedOnce /\ SawNothing /\ NothingDiscarded
    BY DEF ClosedOnce, SawNothing, NothingDiscarded
  <1> QED
    BY <1>1, <1>2 DEF PoolInv

\* What another thread does to a sleeping worker leaves the mutex alone.
LEMMA WakeType ==
  ASSUME TypeOK, NEW ws \in SUBSET Asleep, WakeOnly(ws)
  PROVE  /\ wpc' \in [Workers -> WorkerStates]
         /\ \A w \in Workers : Holding(w)' <=> Holding(w)
         /\ \A w \in Workers : wpc'[w] = "run" <=> wpc[w] = "run"
         /\ \A w \in Workers : wpc'[w] = "wait" <=> wpc[w] = "wait"
         /\ \A w \in Workers : wpc'[w] = "exited" <=> wpc[w] = "exited"
  BY DEF TypeOK, WakeOnly, Asleep, Holding, WorkerStates

\* pool_add_task keeps the invariant.
LEMMA SubmitterInv ==
  ASSUME PoolInv, NEW s \in Submitters, Submitter(s)
  PROVE  PoolInv'
  <1> USE ThreadPoolAssumption DEF PoolInv
  <1>1. CASE AddTask(s)
    <2>1. <<s, added[s] + 1>> \in Tasks
      BY <1>1 DEF AddTask, Tasks, TypeOK
    <2>2. TypeOK'
      BY <1>1, <2>1 DEF AddTask, TypeOK, Holding
    <2>3. SawNothing'
      BY <1>1 DEF AddTask, SawNothing, TypeOK, Holding
    <2>4. ClosedOnce' /\ NothingDiscarded'
      BY <1>1 DEF AddTask, ClosedOnce, NothingDiscarded
    <2> QED
      BY <2>2, <2>3, <2>4
  <1>2. CASE Signal(s)
    <2>1. PICK ws \in SUBSET Asleep : wpc' = wpc \/ WakeOnly(ws)
      <3>1. CASE UNCHANGED wpc
        BY <3>1
      <3>2. CASE \E w \in Asleep : WakeOnly({w})
        BY <3>2
      <3> QED
        BY <1>2, <3>1, <3>2 DEF Signal
    <2>2. /\ wpc' \in [Workers -> WorkerStates]
          /\ \A w \in Workers : Holding(w)' <=> Holding(w)
          /\ \A w \in Workers : wpc'[w] = "run" <=> wpc[w] = "run"
          /\ \A w \in Workers : wpc'[w] = "wait" <=> wpc[w] = "wait"
          /\ \A w \in Workers : wpc'[w] = "exited" <=> wpc[w] = "exited"
      BY <2>1, WakeType DEF TypeOK, Holding
    <2>3. TypeOK'
      BY <1>2, <2>2 DEF Signal, TypeOK
    <2>4. ClosedOnce' /\ SawNothing' /\ NothingDiscarded'
      BY <1>2, <2>2 DEF Signal, ClosedOnce, SawNothing, NothingDiscarded
    <2> QED
      BY <2>3, <2>4
  <1> QED
    BY <1>1, <1>2 DEF Submitter

\* So does thread_run.
LEMMA WorkerInv ==
  ASSUME PoolInv, NEW w \in Workers, Worker(w)
  PROVE  PoolInv'
  <1> USE ThreadPoolAssumption
      DEF PoolInv, TypeOK, ClosedOnce, SawNothing, NothingDiscarded, Holding, WorkerStates
  <1>1. CASE Lock(w)
    BY <1>1 DEF Lock
  <1>2. CASE DecideToWait(w)
    BY <1>2 DEF DecideToWait
  <1>3. CASE CondWait(w)
    BY <1>3 DEF CondWait
  <1>4. CASE SpuriousWakeup(w)
    BY <1>4 DEF SpuriousWakeup, WakeOnly
  <1>5. CASE Exit(w)
    BY <1>5 DEF Exit, Asleep
  <1>6. CASE Take(w)
    BY <1>6 DEF Take
  <1>7. CASE Return(w)
    BY <1>7 DEF Return
  <1> QED
    BY <1>1, <1>2, <1>3, <1>4, <1>5, <1>6, <1>7 DEF Worker

\* And pool_destroy.
LEMMA DestroyerInv == PoolInv /\ Destroyer => PoolInv'
  <1> SUFFICES ASSUME PoolInv, Destroyer PROVE PoolInv'
    OBVIOUS
  <1> USE ThreadPoolAssumption
      DEF PoolInv, TypeOK, ClosedOnce, SawNothing, NothingDiscarded, Holding, WorkerStates
  <1>1. CASE Close
    BY <1>1 DEF Close
  <1>2. CASE Broadcast
    BY <1>2 DEF Broadcast, WakeOnly, Asleep
  <1>3. CASE JoinAndFree
    BY <1>3 DEF JoinAndFree
  <1> QED
    BY <1>1, <1>2, <1>3 DEF Destroyer

\* Every step of a submitter, a worker or the destroyer keeps the invariant.
LEMMA PoolInvStep == PoolInv /\ [Next]_vars => PoolInv'
  <1> SUFFICES ASSUME PoolInv, [Next]_vars PROVE PoolInv'
    OBVIOUS
  <1>1. CASE Next
    BY <1>1, SubmitterInv, WorkerInv, DestroyerInv DEF Next
  <1>2. CASE UNCHANGED vars
    BY <1>2 DEF vars, PoolInv, TypeOK, ClosedOnce, SawNothing, NothingDiscarded, Holding
  <1> QED
    BY <1>1, <1>2

\* The mutex, the flag and the list of thread_pool.c stay consistent in every
\* interleaving of submitters, workers and the destroyer.
THEOREM PoolInvariant == Spec => []PoolInv
  BY PoolInvInit, PoolInvStep, PTL DEF Spec

\* The mutex excludes: types, and who holds it.
THEOREM TypeCorrect == Spec => []TypeOK
  <1>1. PoolInv => TypeOK
    BY DEF PoolInv
  <1> QED
    BY <1>1, PoolInvariant, PTL

\* No thread exits, and nothing is freed, while a task is listed.
THEOREM DestroyDiscardsNothing == Spec => []NothingDiscarded
  <1>1. PoolInv => NothingDiscarded
    BY DEF PoolInv
  <1> QED
    BY <1>1, PoolInvariant, PTL

-----------------------------------------------------------------------------
(* No signal is missed *)

\* The sets WorkConserving counts are finite.
LEMMA FiniteThreads ==
  ASSUME ThreadPoolAssumption
  PROVE  /\ IsFiniteSet(OnTheWay) /\ Cardinality(OnTheWay) \in Nat
         /\ IsFiniteSet(Signals) /\ Cardinality(Signals) \in Nat
  BY FS_Subset, FS_CardinalityType DEF ThreadPoolAssumption, OnTheWay, Signals

\* A worker that comes to the list makes room for one more listed task.
LEMMA OneMoreOnTheWay ==
  ASSUME NEW w \in Workers, w \notin OnTheWay, OnTheWay' = OnTheWay \cup {w}
  PROVE  Cardinality(OnTheWay)' = Cardinality(OnTheWay) + 1
  BY FiniteThreads, ThreadPoolAssumption, FS_AddElement

\* A worker that takes a task is no longer on its way.
LEMMA OneLessOnTheWay ==
  ASSUME NEW w \in Workers, w \in OnTheWay, OnTheWay' = OnTheWay \ {w}
  PROVE  Cardinality(OnTheWay)' = Cardinality(OnTheWay) - 1
  BY FiniteThreads, ThreadPoolAssumption, FS_RemoveElement

\* pool_add_task signals for the task it adds.
LEMMA SubmitterConserves ==
  ASSUME PoolInv, WorkConserving, NEW s \in Submitters, Submitter(s)
  PROVE  WorkConserving'
  <1>0. /\ Cardinality(OnTheWay) \in Nat /\ Cardinality(Signals) \in Nat
        /\ IsFiniteSet(Signals) /\ Len(queue) \in Nat
    BY FiniteThreads, ThreadPoolAssumption DEF PoolInv, TypeOK
  <1>1. CASE AddTask(s)
    <2>1. Signals' = Signals \cup {s} /\ s \notin Signals
      BY <1>1 DEF AddTask, Signals, PoolInv, TypeOK
    <2>2. Cardinality(Signals)' = Cardinality(Signals) + 1
      BY <1>0, <2>1, FS_AddElement
    <2>3. Len(queue)' = Len(queue) + 1
      BY <1>1 DEF AddTask, PoolInv, TypeOK
    <2>4. OnTheWay' = OnTheWay /\ Asleep' = Asleep
      BY <1>1 DEF AddTask, OnTheWay, Asleep
    <2> QED
      BY <1>0, <2>2, <2>3, <2>4 DEF WorkConserving
  <1>2. CASE Signal(s)
    <2>1. Signals' = Signals \ {s} /\ s \in Signals
      BY <1>2 DEF Signal, Signals, PoolInv, TypeOK
    <2>2. Cardinality(Signals)' = Cardinality(Signals) - 1
      BY <1>0, <2>1, FS_RemoveElement
    <2>3. UNCHANGED queue
      BY <1>2 DEF Signal
    <2>4. CASE Asleep = {} /\ UNCHANGED wpc
      BY <2>4 DEF WorkConserving, Asleep
    <2>5. ASSUME NEW w \in Asleep, WakeOnly({w})
          PROVE  WorkConserving'
      <3>1. w \in Workers /\ w \notin OnTheWay /\ OnTheWay' = OnTheWay \cup {w}
        BY <2>5 DEF WakeOnly, OnTheWay, Asleep, PoolInv, TypeOK
      <3>2. Cardinality(OnTheWay)' = Cardinality(OnTheWay) + 1
        BY <3>1, OneMoreOnTheWay
      <3>3. Len(queue) <= Cardinality(OnTheWay) + Cardinality(Signals)
        BY <2>5 DEF WorkConserving
      <3> QED
        BY <1>0, <2>2, <2>3, <3>2, <3>3 DEF WorkConserving
    <2> QED
      BY <1>2, <2>4, <2>5 DEF Signal
  <1> QED
    BY <1>1, <1>2 DEF Submitter

\* thread_run: a worker leaves those on their way with a task, or when there is
\* none to take.
LEMMA WorkerConserves ==
  ASSUME PoolInv, WorkConserving, NEW w \in Workers, Worker(w)
  PROVE  WorkConserving'
  <1>0. /\ Cardinality(OnTheWay) \in Nat /\ Cardinality(Signals) \in Nat
        /\ Len(queue) \in Nat
    BY FiniteThreads, ThreadPoolAssumption DEF PoolInv, TypeOK
  <1>00. Cardinality(OnTheWay)' \in Nat /\ Cardinality(Signals)' \in Nat
    <2>1. IsFiniteSet(OnTheWay') /\ IsFiniteSet(Signals')
      BY ThreadPoolAssumption, FS_Subset DEF ThreadPoolAssumption, OnTheWay, Signals
    <2> QED
      BY <2>1, FS_CardinalityType
  <1>1. CASE Lock(w)
    <2>1. OnTheWay' = OnTheWay /\ Asleep' = Asleep /\ Signals' = Signals
      BY <1>1 DEF Lock, OnTheWay, Asleep, Signals, PoolInv, TypeOK
    <2> QED
      BY <1>1, <2>1 DEF Lock, WorkConserving
  <1>2. CASE DecideToWait(w)
    <2>1. queue' = << >>
      BY <1>2 DEF DecideToWait
    <2> QED
      BY <1>00, <2>1 DEF WorkConserving
  <1>3. CASE CondWait(w)
    <2>1. queue' = << >>
      BY <1>3 DEF CondWait, PoolInv, SawNothing
    <2> QED
      BY <1>00, <2>1 DEF WorkConserving
  <1>4. CASE SpuriousWakeup(w)
    <2>1. w \notin OnTheWay /\ OnTheWay' = OnTheWay \cup {w} /\ w \in Asleep
      BY <1>4 DEF SpuriousWakeup, WakeOnly, OnTheWay, Asleep, PoolInv, TypeOK
    <2>2. Cardinality(OnTheWay)' = Cardinality(OnTheWay) + 1
      BY <2>1, OneMoreOnTheWay
    <2>3. UNCHANGED <<queue, Signals>>
      BY <1>4 DEF SpuriousWakeup, Signals
    <2> QED
      BY <1>0, <2>1, <2>2, <2>3 DEF WorkConserving
  <1>5. CASE Exit(w)
    <2>1. Asleep' = {}
      BY <1>5 DEF Exit, Asleep, PoolInv, TypeOK
    <2> QED
      BY <2>1 DEF WorkConserving
  <1>6. CASE Take(w)
    <2>1. w \in OnTheWay /\ OnTheWay' = OnTheWay \ {w} /\ Asleep' = Asleep
      BY <1>6 DEF Take, OnTheWay, Asleep, PoolInv, TypeOK
    <2>2. Cardinality(OnTheWay)' = Cardinality(OnTheWay) - 1
      BY <2>1, OneLessOnTheWay
    <2>3. Len(queue)' = Len(queue) - 1 /\ UNCHANGED Signals
      BY <1>6 DEF Take, Signals, PoolInv, TypeOK
    <2> QED
      BY <1>0, <2>1, <2>2, <2>3 DEF WorkConserving
  <1>7. CASE Return(w)
    <2>1. w \notin OnTheWay /\ OnTheWay' = OnTheWay \cup {w} /\ Asleep' = Asleep
      BY <1>7 DEF Return, OnTheWay, Asleep, PoolInv, TypeOK
    <2>2. Cardinality(OnTheWay)' = Cardinality(OnTheWay) + 1
      BY <2>1, OneMoreOnTheWay
    <2>3. UNCHANGED <<queue, Signals>>
      BY <1>7 DEF Return, Signals
    <2> QED
      BY <1>0, <2>1, <2>2, <2>3 DEF WorkConserving
  <1> QED
    BY <1>1, <1>2, <1>3, <1>4, <1>5, <1>6, <1>7 DEF Worker

\* pool_destroy: after the broadcast nobody sleeps, and nothing else it does
\* touches list or workers.
LEMMA DestroyerConserves ==
  ASSUME PoolInv, WorkConserving, Destroyer
  PROVE  WorkConserving'
  <1>1. CASE Close
    BY <1>1 DEF Close, WorkConserving, OnTheWay, Asleep, Signals
  <1>2. CASE Broadcast
    <2>1. Asleep' = {}
      BY <1>2 DEF Broadcast, WakeOnly, Asleep, PoolInv, TypeOK
    <2> QED
      BY <2>1 DEF WorkConserving
  <1>3. CASE JoinAndFree
    <2>1. Asleep' = {}
      BY <1>3 DEF JoinAndFree, Asleep
    <2> QED
      BY <2>1 DEF WorkConserving
  <1> QED
    BY <1>1, <1>2, <1>3 DEF Destroyer

\* Whenever a worker sleeps, each listed task has a worker on its way to the
\* list or a signal about to be sent.
THEOREM NoSignalMissed == Spec => []WorkConserving
  <1>1. Init => WorkConserving
    BY DEF Init, WorkConserving, Asleep
  <1>2. PoolInv /\ WorkConserving /\ [Next]_vars => WorkConserving'
    <2> SUFFICES ASSUME PoolInv, WorkConserving, [Next]_vars PROVE WorkConserving'
      OBVIOUS
    <2>1. CASE Next
      BY <2>1, SubmitterConserves, WorkerConserves, DestroyerConserves DEF Next
    <2>2. CASE UNCHANGED vars
      BY <2>2 DEF vars, WorkConserving, OnTheWay, Asleep, Signals
    <2> QED
      BY <2>1, <2>2
  <1> QED
    BY <1>1, <1>2, PoolInvariant, PTL DEF Spec

-----------------------------------------------------------------------------
(* The pool of thread_pool.c implements the abstract pool *)

\* Each step of thread_pool.c is a step of the abstract pool, or none.
LEMMA StepImplements == PoolInv /\ [Next]_vars => [Pool!PoolNext]_(Pool!poolVars)
  <1> SUFFICES ASSUME PoolInv, [Next]_vars
               PROVE  Pool!PoolNext \/ UNCHANGED <<queue, running>>
    BY DEF Pool!poolVars
  <1> USE ThreadPoolAssumption DEF PoolInv
  <1>1. ASSUME NEW s \in Submitters, Submitter(s)
        PROVE  Pool!PoolNext \/ UNCHANGED <<queue, running>>
    <2>1. <<s, added[s] + 1>> \in Tasks \/ ~AddTask(s)
      BY DEF AddTask, Tasks, TypeOK
    <2>2. CASE AddTask(s)
      BY <2>1, <2>2 DEF AddTask, Pool!PoolNext, Pool!Submit
    <2>3. CASE Signal(s)
      BY <2>3 DEF Signal
    <2> QED
      BY <1>1, <2>2, <2>3 DEF Submitter
  <1>2. ASSUME NEW w \in Workers, Worker(w)
        PROVE  Pool!PoolNext \/ UNCHANGED <<queue, running>>
    <2>1. CASE Take(w)
      <3>1. running[w] = NoTask
        BY <2>1 DEF Take, TypeOK
      <3> QED
        BY <2>1, <3>1 DEF Take, Pool!PoolNext, Pool!Start
    <2>2. CASE Return(w)
      <3>1. running[w] # NoTask
        BY <2>2 DEF Return, TypeOK
      <3> QED
        BY <2>2, <3>1 DEF Return, Pool!PoolNext, Pool!Finish
    <2>3. CASE Lock(w) \/ DecideToWait(w) \/ CondWait(w) \/ SpuriousWakeup(w) \/ Exit(w)
      BY <2>3 DEF Lock, DecideToWait, CondWait, SpuriousWakeup, Exit
    <2> QED
      BY <1>2, <2>1, <2>2, <2>3 DEF Worker
  <1>3. ASSUME Destroyer
        PROVE  UNCHANGED <<queue, running>>
    <2>1. CASE JoinAndFree
      BY <2>1 DEF JoinAndFree, NothingDiscarded
    <2>2. CASE Close \/ Broadcast
      BY <2>2 DEF Close, Broadcast
    <2> QED
      BY <1>3, <2>1, <2>2 DEF Destroyer
  <1>4. CASE UNCHANGED vars
    BY <1>4 DEF vars
  <1> QED
    BY <1>1, <1>2, <1>3, <1>4 DEF Next

\* Every task is run once, by one worker, in the order of the list.
THEOREM Implements == Spec => ImplementsTaskPool
  <1>1. Init => Pool!PoolInit
    BY DEF Init
  <1> QED
    BY <1>1, StepImplements, PoolInvariant, PTL DEF Spec, ImplementsTaskPool, Pool!PoolSpec

=============================================================================
