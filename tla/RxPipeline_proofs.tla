-------------------------- MODULE RxPipeline_proofs --------------------------
(***************************************************************************)
(* The receiver's pipeline, for any number of slots, carrier blocks,       *)
(* layers, code blocks, packets and workers, and any number of lost        *)
(* packets: startNum_rx drifts by the lost headers and last packets, the   *)
(* three stages of a slot do not overlap, no wakeup is missed.  While      *)
(* nothing is lost, no complete frame is overwritten, and with one worker  *)
(* no sample that is still needed; the two counters implement FrameBuffer. *)
(*                                                                         *)
(* The invariant says of each slot in which of seven phases it is, and in  *)
(* each phase where its tasks are: finished (counted by ServiceEN_rx or    *)
(* BERsignal), listed or running; and, while nothing is lost, that the     *)
(* frames still being estimated are the youngest ones, in their order.     *)
(***************************************************************************)
EXTENDS RxPipeline, TaskCounting

\* The three counters of lost packets change together.
USE DEF lossVars

CodeBlocks == LayerNum * CbMax

ChestTask(n) == <<"chest_calsym", n>>
DermTask(n)  == <<"derm_crc", n>>
CheckTask(n) == <<"crc_check", n>>

Chest(n) == Outstanding(ChestTask(n))
Derm(n)  == Outstanding(DermTask(n))
Check(n) == Outstanding(CheckTask(n))

-----------------------------------------------------------------------------
(* The inductive invariant: the phases of a slot *)

AddStates == {"addChest", "addDerm", "addCheck"}

\* The scheduler is not in the middle of a stage of slot n.
Polled(n) == ~(slot = n /\ tpc \in AddStates)

\* No task of a stage is counted, listed or running.
NoChest(n) == estimated[n] = 0 /\ Chest(n) = 0
NoDerm(n)  == decoded[n] = 0 /\ Derm(n) = 0
NoCheck(n) == BERsignal[n] = 0 /\ Check(n) = 0

\* Free for a frame.
Idle(n) ==
  /\ Polled(n) /\ gate[n] = LayerNum
  /\ NoChest(n) /\ NoDerm(n) /\ NoCheck(n)

\* The scheduler is adding the slot's chest_calsym tasks.
AddingChest(n) ==
  /\ slot = n /\ tpc = "addChest" /\ gate[n] = LayerNum
  /\ estimated[n] + Chest(n) = submitted /\ submitted < SBNum
  /\ NoDerm(n) /\ NoCheck(n)

\* Every chest_calsym task is finished, listed or running.
Estimating(n) ==
  /\ Polled(n) /\ gate[n] = 0
  /\ estimated[n] + Chest(n) = SBNum
  /\ NoDerm(n) /\ NoCheck(n)

\* The scheduler is adding the slot's derm_crc tasks.
AddingDerm(n) ==
  /\ slot = n /\ tpc = "addDerm" /\ gate[n] = 0
  /\ estimated[n] = SBNum /\ Chest(n) = 0
  /\ decoded[n] + Derm(n) = submitted /\ submitted < cbtaskNum[n]
  /\ NoCheck(n)

\* Every derm_crc task is finished, listed or running.
Decoding(n) ==
  /\ Polled(n) /\ gate[n] = 0
  /\ NoChest(n)
  /\ decoded[n] + Derm(n) = cbtaskNum[n] /\ cbtaskNum[n] # 0
  /\ NoCheck(n)

\* The scheduler is adding the slot's crc_check tasks.
AddingCheck(n) ==
  /\ slot = n /\ tpc = "addCheck" /\ gate[n] = 0
  /\ NoChest(n)
  /\ decoded[n] = cbtaskNum[n] /\ Derm(n) = 0
  /\ BERsignal[n] + Check(n) = submitted /\ submitted < LayerNum

\* Every crc_check task is finished, listed or running.
Checking(n) ==
  /\ Polled(n) /\ gate[n] = 0
  /\ NoChest(n) /\ NoDerm(n)
  /\ BERsignal[n] + Check(n) = LayerNum

Phase(n) ==
  \/ Idle(n)
  \/ AddingChest(n) \/ Estimating(n)
  \/ AddingDerm(n) \/ Decoding(n)
  \/ AddingCheck(n) \/ Checking(n)

Phases == \A n \in Slots : Phase(n)

\* The types, without the bounds that follow from the other conjuncts.
Types ==
  /\ startNum_rx \in Int /\ readyNum_rx \in Int
  /\ cache_rx \in 0 .. SEM_VALUE_MAX
  /\ notFull \in 0 .. SEM_VALUE_MAX
  /\ gate \in [Slots -> {0, LayerNum}]
  /\ estimated \in [Slots -> Nat]
  /\ decoded \in [Slots -> Nat]
  /\ BERsignal \in [Slots -> Nat]
  /\ cbtaskNum \in [Slots -> 0 .. CodeBlocks]
  /\ frameOf \in [Slots -> Ring]
  /\ index_rx_write \in Ring /\ index_rx_read \in Ring
  /\ queue \in Seq(Tasks)
  /\ running \in [Workers -> Tasks \union {NoTask}]
  /\ tpc \in SchedulerStates /\ slot \in Slots
  /\ submitted \in Nat
  /\ cpc \in ConsumerStates
  /\ position \in 0 .. FramePackets - 1
  /\ lost \in 0 .. MaxLost /\ lostHeaders \in Nat /\ lostLasts \in Nat
  /\ force_quit \in BOOLEAN

-----------------------------------------------------------------------------
(* The inductive invariant: the counters *)

Card == Cardinality(BusySlots)

\* The frame being received.
Receiving == IF position > 0 THEN 1 ELSE 0

\* By how much startNum_rx is too large.
Drift == startNum_rx - (Card + readyNum_rx + Receiving)

\* startNum_rx drifts with lost headers and lost last packets only; while nothing is lost the indices
\* are as far apart as readyNum_rx says.
Counters ==
  /\ Drift = lostLasts - lostHeaders
  /\ lostHeaders + lostLasts <= lost
  /\ startNum_rx <= PACK_CACHE
  /\ readyNum_rx >= 0
  /\ tpc = "addChest" => readyNum_rx > 0 /\ frameOf[slot] = index_rx_read
  /\ lost = 0 => index_rx_write \in {index_rx_read + readyNum_rx,
                                     index_rx_read + readyNum_rx - PACK_CACHE}

RxInv == Types /\ Phases /\ Counters

-----------------------------------------------------------------------------
(* The inductive invariant: the order of the frames *)

OneWorker == \A v, w \in Workers : v = w

\* Slots whose frame is taken and still being estimated.
Late == {n \in Slots : gate[n] = 0 /\ Chest(n) # 0}

\* How many frames ago the frame of slot n was taken; 0 while it is being taken.
Age(n) == IF gate[n] # 0 THEN 0
          ELSE IF frameOf[n] < index_rx_read THEN index_rx_read - frameOf[n]
          ELSE index_rx_read - frameOf[n] + PACK_CACHE

\* Tasks of an older frame are run first.
Ordered ==
  \A m, n \in Slots :
    /\ \A i, j \in DOMAIN queue :
         (i < j /\ queue[i] = ChestTask(m) /\ queue[j] = ChestTask(n)) => Age(m) >= Age(n)
    /\ \A w \in Workers, j \in DOMAIN queue :
         (running[w] = ChestTask(m) /\ queue[j] = ChestTask(n)) => Age(m) >= Age(n)

\* The frames still being estimated are the last ones taken.
Youngest ==
  /\ \A m, n \in Late : Age(m) = Age(n) => m = n
  /\ \A n \in Late : \A a \in 1 .. Age(n) : \E m \in Late : Age(m) = a

FrameOrder == lost = 0 => Ordered /\ Youngest

-----------------------------------------------------------------------------
(* Outstanding tasks *)

\* A subframe has at least as many code blocks as layers.
LEMMA CodeBlocksBound == CodeBlocks \in Nat /\ LayerNum <= CodeBlocks
  BY RxAssumption DEF RxAssumption, CodeBlocks

\* Outstanding tasks, in the terms of TaskCounting.
LEMMA OutstandingIs ==
  ASSUME NEW t
  PROVE  /\ Outstanding(t) = Load(queue, running, Workers, t)
         /\ Outstanding(t)' = Load(queue', running', Workers, t)
  BY DEF Outstanding, Listed, InExecution, Load, CountIn, CountOn, Places, Runners

\* They can be counted.
LEMMA OutstandingType ==
  ASSUME queue \in Seq(Tasks), NEW t
  PROVE  Outstanding(t) \in Nat
  BY OutstandingIs, LoadType, RxAssumption DEF RxAssumption

\* The tasks of the three stages of a slot.
LEMMA StageTasks ==
  ASSUME NEW n \in Slots
  PROVE  ChestTask(n) \in Tasks /\ DermTask(n) \in Tasks /\ CheckTask(n) \in Tasks
  BY DEF ChestTask, DermTask, CheckTask, Tasks, Stages

\* The tasks of a slot can be counted.
LEMMA StageCounts ==
  ASSUME Types, NEW n
  PROVE  Chest(n) \in Nat /\ Derm(n) \in Nat /\ Check(n) \in Nat
  BY OutstandingType DEF Types, Chest, Derm, Check

\* A step outside the pool changes none of them.
LEMMA QuietPool ==
  ASSUME UNCHANGED poolVars, NEW n
  PROVE  Chest(n)' = Chest(n) /\ Derm(n)' = Derm(n) /\ Check(n)' = Check(n)
  BY DEF poolVars, Chest, Derm, Check, ChestTask, DermTask, CheckTask, Outstanding, Listed,
         InExecution

\* pool_add_task: one more outstanding task.
LEMMA SubmitCounts ==
  ASSUME queue \in Seq(Tasks), NEW u \in Tasks, Pool!Submit(u), NEW t
  PROVE  Outstanding(t)' = IF u = t THEN Outstanding(t) + 1 ELSE Outstanding(t)
  <1>1. queue' = Append(queue, u) /\ running' = running /\ IsFiniteSet(Workers)
    BY RxAssumption DEF RxAssumption, Pool!Submit
  <1>2. Load(Append(queue, u), running, Workers, t)
          = Load(queue, running, Workers, t) + Same(u, t)
    BY <1>1, LoadAppend
  <1>3. Outstanding(t)' = Outstanding(t) + Same(u, t) /\ Outstanding(t) \in Nat
    BY <1>1, <1>2, OutstandingIs, OutstandingType
  <1> QED
    BY <1>3 DEF Same

\* A task added for one stage of one slot is none of another stage or slot.
LEMMA SubmitStage ==
  ASSUME Types, NEW k \in Stages, NEW m \in Slots, Pool!Submit(<<k, m>>), NEW n \in Slots
  PROVE  /\ Chest(n)' = IF k = "chest_calsym" /\ m = n THEN Chest(n) + 1 ELSE Chest(n)
         /\ Derm(n)' = IF k = "derm_crc" /\ m = n THEN Derm(n) + 1 ELSE Derm(n)
         /\ Check(n)' = IF k = "crc_check" /\ m = n THEN Check(n) + 1 ELSE Check(n)
  <1>1. <<k, m>> \in Tasks /\ queue \in Seq(Tasks)
    BY DEF Types, Tasks
  <1>2. ASSUME NEW l
        PROVE  Outstanding(<<l, n>>)' = IF k = l /\ m = n THEN Outstanding(<<l, n>>) + 1
                                                        ELSE Outstanding(<<l, n>>)
    BY <1>1, SubmitCounts
  <1> QED
    BY <1>2 DEF Chest, Derm, Check, ChestTask, DermTask, CheckTask

\* A worker that takes a task off the list runs it.
LEMMA StartCounts ==
  ASSUME Types, NEW w \in Workers, Pool!Start(w), NEW n \in Slots
  PROVE  Chest(n)' = Chest(n) /\ Derm(n)' = Derm(n) /\ Check(n)' = Check(n)
  <1>1. ASSUME NEW t \in Tasks PROVE Outstanding(t)' = Outstanding(t)
    <2>1. /\ queue # << >> /\ queue' = Tail(queue) /\ running'[w] = Head(queue)
          /\ \A x \in Workers : x # w => running'[x] = running[x]
          /\ running[w] # t /\ IsFiniteSet(Workers) /\ queue \in Seq(Tasks)
      BY RxAssumption DEF RxAssumption, Types, Pool!Start
    <2>2. Load(Tail(queue), running', Workers, t) = Load(queue, running, Workers, t)
      BY <2>1, LoadStart
    <2> QED
      BY <2>1, <2>2, OutstandingIs
  <1> QED
    BY <1>1, StageTasks DEF Chest, Derm, Check, ChestTask, DermTask, CheckTask

\* A task that returns is no longer outstanding.
LEMMA FinishCounts ==
  ASSUME Types, NEW w \in Workers, Pool!Finish(w), NEW t \in Tasks
  PROVE  Outstanding(t)' = Outstanding(t) - Same(running[w], t)
  <1>1. /\ queue' = queue /\ running'[w] # t /\ IsFiniteSet(Workers)
        /\ \A x \in Workers : x # w => running'[x] = running[x]
        /\ queue \in Seq(Tasks)
    BY RxAssumption DEF RxAssumption, Types, Pool!Finish
  <1>2. Load(queue, running', Workers, t)
          = Load(queue, running, Workers, t) - Same(running[w], t)
    BY <1>1, LoadFinish
  <1> QED
    BY <1>1, <1>2, OutstandingIs

-----------------------------------------------------------------------------
(* Phases *)

\* Where the scheduler is tells the phase of the slot it serves.
LEMMA PhaseServed ==
  ASSUME Types, Phases
  PROVE  /\ tpc = "addChest" => AddingChest(slot)
         /\ tpc = "addDerm"  => AddingDerm(slot)
         /\ tpc = "addCheck" => AddingCheck(slot)
  <1>1. Phase(slot)
    BY DEF Types, Phases
  <1> QED
    BY <1>1 DEF Phase, Polled, AddStates, Idle, AddingChest, Estimating, AddingDerm, Decoding,
                AddingCheck, Checking

\* What a step does not touch in slot n.
SameCounts(n) ==
  /\ gate'[n] = gate[n] /\ cbtaskNum'[n] = cbtaskNum[n]
  /\ estimated'[n] = estimated[n] /\ decoded'[n] = decoded[n] /\ BERsignal'[n] = BERsignal[n]
  /\ Chest(n)' = Chest(n) /\ Derm(n)' = Derm(n) /\ Check(n)' = Check(n)

\* Then the slot stays in its phase, between two stages of it.
LEMMA PhaseKept ==
  ASSUME NEW n \in Slots, Phase(n), SameCounts(n),
         (Polled(n) /\ Polled(n)') \/ UNCHANGED <<tpc, slot, submitted>>
  PROVE  Phase(n)'
  <1> USE DEF SameCounts, Phase, Idle, AddingChest, Estimating, AddingDerm, Decoding,
              AddingCheck, Checking, NoChest, NoDerm, NoCheck
  <1>1. CASE Polled(n) /\ Polled(n)'
    BY <1>1 DEF Polled, AddStates
  <1>2. CASE UNCHANGED <<tpc, slot, submitted>>
    BY <1>2 DEF Polled, AddStates
  <1> QED
    BY <1>1, <1>2

\* A step that leaves the gates and the pool alone.
LEMMA CountsKept ==
  ASSUME UNCHANGED <<gateVars, poolVars>>, NEW n
  PROVE  SameCounts(n)
  BY QuietPool DEF SameCounts, gateVars

\* The scheduler between two stages: no slot is in the middle of one.
LEMMA BetweenStages ==
  ASSUME Phases, UNCHANGED <<gateVars, poolVars>>, tpc \notin AddStates, tpc' \notin AddStates
  PROVE  Phases'
  <1> SUFFICES ASSUME NEW n \in Slots PROVE Phase(n)'
    BY DEF Phases
  <1>1. Polled(n) /\ Polled(n)'
    BY DEF Polled
  <1> QED
    BY <1>1, CountsKept, PhaseKept DEF Phases

\* A step of the consumer, of the network, of the signal handler, or none.
LEMMA OutsidePhases ==
  ASSUME Phases, UNCHANGED <<schedVars, gateVars, poolVars>>
  PROVE  Phases'
  <1> SUFFICES ASSUME NEW n \in Slots PROVE Phase(n)'
    BY DEF Phases
  <1> QED
    BY CountsKept, PhaseKept DEF Phases, schedVars

-----------------------------------------------------------------------------
(* Each step keeps the phases *)

\* A free slot takes a frame.
LEMMA TakeFramePhases == Types /\ Phases /\ TakeFrame => Phases'
  <1> SUFFICES ASSUME Types, Phases, TakeFrame, NEW n \in Slots PROVE Phase(n)'
    BY DEF Phases
  <1>1. SameCounts(n) /\ Phase(n)
    BY CountsKept DEF TakeFrame, Phases
  <1>2. CASE n = slot
    <2>1. Idle(n)
      BY <1>1, <1>2, RxAssumption
         DEF RxAssumption, Phase, TakeFrame, Idle, AddingChest, Estimating, AddingDerm,
             Decoding, AddingCheck, Checking
    <2>2. AddingChest(n)'
      BY <1>1, <1>2, <2>1, RxAssumption
         DEF RxAssumption, Types, TakeFrame, Idle, AddingChest, SameCounts, NoChest, NoDerm,
             NoCheck, gateVars
    <2> QED
      BY <2>2 DEF Phase
  <1>3. CASE n # slot
    BY <1>1, <1>3, PhaseKept DEF Polled, TakeFrame
  <1> QED
    BY <1>2, <1>3

\* The last chest_calsym task of a slot closes its gate.
LEMMA AddChestPhases == Types /\ Phases /\ AddChest => Phases'
  <1> SUFFICES ASSUME Types, Phases, AddChest, NEW n \in Slots PROVE Phase(n)'
    BY DEF Phases
  <1>1. /\ slot \in Slots /\ Pool!Submit(<<"chest_calsym", slot>>)
        /\ "chest_calsym" \in Stages
    BY DEF Types, AddChest, Stages
  <1>2. CASE n = slot
    <2>1. AddingChest(n)
      BY <1>2, PhaseServed DEF AddChest
    <2>2. Chest(n)' = Chest(n) + 1 /\ Derm(n)' = Derm(n) /\ Check(n)' = Check(n)
      BY <1>1, <1>2, SubmitStage
    <2>3. Chest(n) \in Nat /\ estimated[n] \in Nat /\ submitted \in Nat
      BY StageCounts DEF Types
    <2>4. CASE submitted + 1 = SBNum
      <3>1. Estimating(n)'
        BY <1>2, <2>1, <2>2, <2>3, <2>4
           DEF Types, AddChest, AddingChest, Estimating, Polled, AddStates, NoDerm, NoCheck
      <3> QED
        BY <3>1 DEF Phase
    <2>5. CASE submitted + 1 # SBNum
      <3>1. AddingChest(n)'
        BY <1>2, <2>1, <2>2, <2>3, <2>5, RxAssumption
           DEF RxAssumption, Types, AddChest, AddingChest, NoDerm, NoCheck
      <3> QED
        BY <3>1 DEF Phase
    <2> QED
      BY <2>4, <2>5
  <1>3. CASE n # slot
    <2>1. SameCounts(n)
      BY <1>1, <1>3, SubmitStage DEF Types, AddChest, SameCounts
    <2> QED
      BY <1>3, <2>1, PhaseKept DEF Phases, Polled, AddChest
  <1> QED
    BY <1>2, <1>3

\* Stage 2 opens only on a slot whose chest_calsym tasks are all finished.
LEMMA OpenDermPhases == Types /\ Phases /\ OpenDerm => Phases'
  <1> SUFFICES ASSUME Types, Phases, OpenDerm, NEW n \in Slots PROVE Phase(n)'
    BY DEF Phases
  <1>1. Chest(n)' = Chest(n) /\ Derm(n)' = Derm(n) /\ Check(n)' = Check(n)
    BY QuietPool DEF OpenDerm
  <1>2. CASE n = slot
    <2>1. Estimating(n) /\ Chest(n) = 0
      <3>1. Phase(n) /\ Chest(n) \in Nat
        BY StageCounts DEF Phases
      <3> QED
        BY <1>2, <3>1, RxAssumption
           DEF RxAssumption, Phase, OpenDerm, Idle, AddingChest, Estimating, AddingDerm,
               Decoding, AddingCheck, Checking, NoChest
    <2>2. PICK c \in LayerNum .. LayerNum * CbMax : cbtaskNum' = [cbtaskNum EXCEPT ![slot] = c]
      BY DEF OpenDerm
    <2>3. cbtaskNum'[n] = c /\ 0 < c
      BY <1>2, <2>2, RxAssumption DEF RxAssumption, Types
    <2>4. AddingDerm(n)'
      BY <1>1, <1>2, <2>1, <2>3, RxAssumption
         DEF RxAssumption, Types, OpenDerm, Estimating, AddingDerm, NoDerm, NoCheck
    <2> QED
      BY <2>4 DEF Phase
  <1>3. CASE n # slot
    <2>1. SameCounts(n)
      BY <1>1, <1>3 DEF Types, OpenDerm, SameCounts
    <2> QED
      BY <1>3, <2>1, PhaseKept DEF Phases, Polled, OpenDerm
  <1> QED
    BY <1>2, <1>3

\* The last derm_crc task of a slot resets the count of stage 1.
LEMMA AddDermPhases == Types /\ Phases /\ AddDerm => Phases'
  <1> SUFFICES ASSUME Types, Phases, AddDerm, NEW n \in Slots PROVE Phase(n)'
    BY DEF Phases
  <1>1. /\ slot \in Slots /\ Pool!Submit(<<"derm_crc", slot>>)
        /\ "derm_crc" \in Stages
    BY DEF Types, AddDerm, Stages
  <1>2. CASE n = slot
    <2>1. AddingDerm(n)
      BY <1>2, PhaseServed DEF AddDerm
    <2>2. Chest(n)' = Chest(n) /\ Derm(n)' = Derm(n) + 1 /\ Check(n)' = Check(n)
      BY <1>1, <1>2, SubmitStage
    <2>3. Derm(n) \in Nat /\ decoded[n] \in Nat /\ submitted \in Nat /\ cbtaskNum[n] \in Nat
      <3>1. cbtaskNum[n] \in 0 .. CodeBlocks /\ decoded[n] \in Nat /\ submitted \in Nat
        BY DEF Types
      <3>2. Derm(n) \in Nat
        BY StageCounts
      <3>3. cbtaskNum[n] \in Nat
        BY <3>1, CodeBlocksBound
      <3> QED
        BY <3>1, <3>2, <3>3
    <2>4. CASE submitted + 1 = cbtaskNum[slot]
      <3>1. Decoding(n)'
        BY <1>2, <2>1, <2>2, <2>3, <2>4
           DEF Types, AddDerm, AddingDerm, Decoding, Polled, AddStates, NoChest, NoCheck
      <3> QED
        BY <3>1 DEF Phase
    <2>5. CASE submitted + 1 # cbtaskNum[slot]
      <3>1. AddingDerm(n)'
        BY <1>2, <2>1, <2>2, <2>3, <2>5 DEF Types, AddDerm, AddingDerm, NoCheck
      <3> QED
        BY <3>1 DEF Phase
    <2> QED
      BY <2>4, <2>5
  <1>3. CASE n # slot
    <2>1. SameCounts(n)
      BY <1>1, <1>3, SubmitStage DEF Types, AddDerm, SameCounts
    <2> QED
      BY <1>3, <2>1, PhaseKept DEF Phases, Polled, AddDerm
  <1> QED
    BY <1>2, <1>3

\* Stage 3 opens only on a slot whose derm_crc tasks are all finished.
LEMMA OpenCheckPhases == Types /\ Phases /\ OpenCheck => Phases'
  <1> SUFFICES ASSUME Types, Phases, OpenCheck, NEW n \in Slots PROVE Phase(n)'
    BY DEF Phases
  <1>1. SameCounts(n) /\ Phase(n)
    BY CountsKept DEF OpenCheck, Phases
  <1>2. CASE n = slot
    <2>1. Decoding(n) /\ Derm(n) = 0
      <3>1. Derm(n) \in Nat /\ cbtaskNum[n] \in 0 .. CodeBlocks
        BY StageCounts DEF Types
      <3> QED
        BY <1>1, <1>2, <3>1, RxAssumption
           DEF RxAssumption, Phase, OpenCheck, CheckReady, Idle, AddingChest, Estimating,
               AddingDerm, Decoding, AddingCheck, Checking, NoDerm
    <2>2. AddingCheck(n)'
      BY <1>1, <1>2, <2>1, RxAssumption
         DEF RxAssumption, Types, OpenCheck, CheckReady, SameCounts, Decoding, AddingCheck,
             NoChest, NoCheck
    <2> QED
      BY <2>2 DEF Phase
  <1>3. CASE n # slot
    BY <1>1, <1>3, PhaseKept DEF Polled, OpenCheck
  <1> QED
    BY <1>2, <1>3

\* The last crc_check task of a slot resets the count of stage 2.
LEMMA AddCheckPhases == Types /\ Phases /\ AddCheck => Phases'
  <1> SUFFICES ASSUME Types, Phases, AddCheck, NEW n \in Slots PROVE Phase(n)'
    BY DEF Phases
  <1>1. /\ slot \in Slots /\ Pool!Submit(<<"crc_check", slot>>)
        /\ "crc_check" \in Stages
    BY DEF Types, AddCheck, Stages
  <1>2. CASE n = slot
    <2>1. AddingCheck(n)
      BY <1>2, PhaseServed DEF AddCheck
    <2>2. Chest(n)' = Chest(n) /\ Derm(n)' = Derm(n) /\ Check(n)' = Check(n) + 1
      BY <1>1, <1>2, SubmitStage
    <2>3. Check(n) \in Nat /\ BERsignal[n] \in Nat /\ submitted \in Nat
      BY StageCounts DEF Types
    <2>4. CASE submitted + 1 = LayerNum
      <3>1. Checking(n)'
        BY <1>2, <2>1, <2>2, <2>3, <2>4
           DEF Types, AddCheck, AddingCheck, Checking, Polled, AddStates, NoChest, NoDerm
      <3> QED
        BY <3>1 DEF Phase
    <2>5. CASE submitted + 1 # LayerNum
      <3>1. submitted + 1 < LayerNum
        BY <2>1, <2>3, <2>5, RxAssumption DEF RxAssumption, AddingCheck
      <3>2. UNCHANGED <<tpc, slot, gate, estimated, decoded, BERsignal, cbtaskNum>>
        BY <2>5 DEF AddCheck
      <3>3. AddingCheck(n)'
        BY <1>2, <2>1, <2>2, <2>3, <3>1, <3>2 DEF AddCheck, AddingCheck, NoChest
      <3> QED
        BY <3>3 DEF Phase
    <2> QED
      BY <2>4, <2>5
  <1>3. CASE n # slot
    <2>1. SameCounts(n)
      BY <1>1, <1>3, SubmitStage DEF Types, AddCheck, SameCounts
    <2> QED
      BY <1>3, <2>1, PhaseKept DEF Phases, Polled, AddCheck
  <1> QED
    BY <1>2, <1>3

\* The statistics are taken of a slot whose tasks are all finished.
LEMMA Finished ==
  ASSUME Types, Phases, FinishFrame
  PROVE  Checking(slot) /\ Check(slot) = 0
  <1>1. Phase(slot) /\ Check(slot) \in Nat
    BY StageCounts DEF Types, Phases
  <1> QED
    BY <1>1, RxAssumption
       DEF RxAssumption, Phase, FinishFrame, Idle, AddingChest, Estimating, AddingDerm,
           Decoding, AddingCheck, Checking, NoCheck

\* A finished slot is free again.
LEMMA FinishFramePhases == Types /\ Phases /\ FinishFrame => Phases'
  <1> SUFFICES ASSUME Types, Phases, FinishFrame, NEW n \in Slots PROVE Phase(n)'
    BY DEF Phases
  <1>1. Chest(n)' = Chest(n) /\ Derm(n)' = Derm(n) /\ Check(n)' = Check(n)
    BY QuietPool DEF FinishFrame
  <1>2. CASE n = slot
    <2>1. Idle(n)'
      BY <1>1, <1>2, Finished
         DEF Types, FinishFrame, Checking, Idle, Polled, AddStates, NoChest, NoDerm, NoCheck
    <2> QED
      BY <2>1 DEF Phase
  <1>3. CASE n # slot
    <2>1. SameCounts(n)
      BY <1>1, <1>3 DEF Types, FinishFrame, SameCounts
    <2> QED
      BY <1>3, <2>1, PhaseKept DEF Phases, Polled, FinishFrame
  <1> QED
    BY <1>2, <1>3

\* Taking a task off the list changes no phase.
LEMMA StartTaskPhases ==
  ASSUME Types, Phases, NEW w \in Workers, StartTask(w)
  PROVE  Phases'
  <1> SUFFICES ASSUME NEW n \in Slots PROVE Phase(n)'
    BY DEF Phases
  <1>1. SameCounts(n) /\ UNCHANGED <<tpc, slot, submitted>>
    BY StartCounts DEF StartTask, SameCounts, gateVars, schedVars
  <1> QED
    BY <1>1, PhaseKept DEF Phases

\* A finished task moves from outstanding to counted.
LEMMA FinishMoves ==
  ASSUME Types, Types', NEW w \in Workers, FinishTask(w), NEW n \in Slots
  PROVE  /\ estimated'[n] + Chest(n)' = estimated[n] + Chest(n)
         /\ decoded'[n] + Derm(n)' = decoded[n] + Derm(n)
         /\ BERsignal'[n] + Check(n)' = BERsignal[n] + Check(n)
         /\ Chest(n) = 0 => Chest(n)' = 0 /\ estimated'[n] = estimated[n]
         /\ Derm(n) = 0 => Derm(n)' = 0 /\ decoded'[n] = decoded[n]
         /\ Check(n) = 0 => Check(n)' = 0 /\ BERsignal'[n] = BERsignal[n]
  <1> DEFINE t == running[w]
             k == t[1]
             m == t[2]
  <1>1. t \in Tasks /\ Pool!Finish(w)
    BY DEF Types, FinishTask, Pool!Finish
  <1>2. k \in Stages /\ m \in Slots /\ t = <<k, m>>
    BY <1>1 DEF Tasks
  <1>3. /\ Chest(n)' = Chest(n) - Same(t, ChestTask(n))
        /\ Derm(n)' = Derm(n) - Same(t, DermTask(n))
        /\ Check(n)' = Check(n) - Same(t, CheckTask(n))
    BY <1>1, FinishCounts, StageTasks
       DEF Chest, Derm, Check, ChestTask, DermTask, CheckTask
  <1>4. /\ Same(t, ChestTask(n)) = IF k = "chest_calsym" /\ m = n THEN 1 ELSE 0
        /\ Same(t, DermTask(n)) = IF k = "derm_crc" /\ m = n THEN 1 ELSE 0
        /\ Same(t, CheckTask(n)) = IF k = "crc_check" /\ m = n THEN 1 ELSE 0
    BY <1>2 DEF Same, ChestTask, DermTask, CheckTask
  <1>5. /\ Chest(n) \in Nat /\ Derm(n) \in Nat /\ Check(n) \in Nat
        /\ Chest(n)' \in Nat /\ Derm(n)' \in Nat /\ Check(n)' \in Nat
    <2>1. queue' \in Seq(Tasks) /\ IsFiniteSet(Workers)
      BY RxAssumption DEF RxAssumption, Types
    <2>2. \A u : Outstanding(u)' \in Nat
      BY <2>1, OutstandingIs, LoadType
    <2> QED
      BY <2>2, StageCounts DEF Chest, Derm, Check, ChestTask, DermTask, CheckTask
  <1>6. \/ /\ k = "chest_calsym" /\ decoded' = decoded /\ BERsignal' = BERsignal
           /\ estimated' = [estimated EXCEPT ![m] = @ + 1]
        \/ /\ k = "derm_crc" /\ estimated' = estimated /\ BERsignal' = BERsignal
           /\ decoded' = [decoded EXCEPT ![m] = @ + 1]
        \/ /\ k = "crc_check" /\ estimated' = estimated /\ decoded' = decoded
           /\ BERsignal' = [BERsignal EXCEPT ![m] = @ + 1]
    BY DEF FinishTask
  <1>7. /\ estimated \in [Slots -> Nat] /\ decoded \in [Slots -> Nat]
        /\ BERsignal \in [Slots -> Nat]
    BY DEF Types
  <1> HIDE DEF t, k, m
  <1>8. /\ estimated'[n] = estimated[n] + Same(t, ChestTask(n))
        /\ decoded'[n] = decoded[n] + Same(t, DermTask(n))
        /\ BERsignal'[n] = BERsignal[n] + Same(t, CheckTask(n))
    BY <1>4, <1>6, <1>7
  <1>9. /\ Same(t, ChestTask(n)) \in Nat /\ Same(t, DermTask(n)) \in Nat
        /\ Same(t, CheckTask(n)) \in Nat
        /\ estimated[n] \in Nat /\ decoded[n] \in Nat /\ BERsignal[n] \in Nat
    BY <1>4, <1>7
  <1> QED
    BY <1>3, <1>5, <1>8, <1>9

\* A task that finishes moves within the phase of its slot.
LEMMA FinishTaskPhases ==
  ASSUME Types, Types', Phases, NEW w \in Workers, FinishTask(w)
  PROVE  Phases'
  <1> SUFFICES ASSUME NEW n \in Slots PROVE Phase(n)'
    BY DEF Phases
  <1>1. Phase(n)
    BY DEF Phases
  <1>2. UNCHANGED <<tpc, slot, submitted>> /\ gate' = gate /\ cbtaskNum' = cbtaskNum
    BY DEF FinishTask, schedVars
  <1> USE DEF NoChest, NoDerm, NoCheck, Polled, AddStates
  <1>3. CASE Idle(n)
    BY <1>2, <1>3, FinishMoves DEF Phase, Idle
  <1>4. CASE AddingChest(n)
    BY <1>2, <1>4, FinishMoves DEF Phase, AddingChest
  <1>5. CASE Estimating(n)
    BY <1>2, <1>5, FinishMoves DEF Phase, Estimating
  <1>6. CASE AddingDerm(n)
    BY <1>2, <1>6, FinishMoves DEF Phase, AddingDerm
  <1>7. CASE Decoding(n)
    BY <1>2, <1>7, FinishMoves DEF Phase, Decoding
  <1>8. CASE AddingCheck(n)
    BY <1>2, <1>8, FinishMoves DEF Phase, AddingCheck
  <1>9. CASE Checking(n)
    BY <1>2, <1>9, FinishMoves DEF Phase, Checking
  <1> QED
    BY <1>1, <1>3, <1>4, <1>5, <1>6, <1>7, <1>8, <1>9 DEF Phase

\* Every step leaves each slot in a phase.
LEMMA PhasesStep == Types /\ Types' /\ Phases /\ [Next]_vars => Phases'
  <1> SUFFICES ASSUME Types, Types', Phases, [Next]_vars PROVE Phases'
    OBVIOUS
  <1>1. CASE TakeFrame \/ AddChest \/ OpenDerm \/ AddDerm \/ OpenCheck \/ AddCheck
             \/ FinishFrame
    BY <1>1, TakeFramePhases, AddChestPhases, OpenDermPhases, AddDermPhases,
       OpenCheckPhases, AddCheckPhases, FinishFramePhases
  <1>2. CASE FirstFrame \/ SkipFrame \/ SkipDerm \/ SkipCheck \/ SkipFinish \/ PostRoom
             \/ ExitScheduler
    BY <1>2, BetweenStages
       DEF FirstFrame, SkipFrame, SkipDerm, SkipCheck, SkipFinish, PostRoom, ExitScheduler,
           AddStates
  <1>3. ASSUME NEW w \in Workers, Worker(w) PROVE Phases'
    BY <1>3, StartTaskPhases, FinishTaskPhases DEF Worker
  <1>4. CASE Consumer \/ LosePacket \/ SignalHandler \/ UNCHANGED vars
    BY <1>4, OutsidePhases
       DEF Consumer, TestRoom, RoomPosted, PollNothing, Depackage, DepackageFirst,
           DepackageMiddle, DepackageLast, PostFrame, ExitConsumer, LosePacket,
           SignalHandler, vars
  <1> QED
    BY <1>1, <1>2, <1>3, <1>4 DEF Next, Scheduler

-----------------------------------------------------------------------------
(* Each step keeps the types *)

\* An index moves on by one, and wraps at PACK_CACHE.
LEMMA AdvanceIs ==
  ASSUME NEW i \in Ring
  PROVE  /\ Advance(i) \in Ring
         /\ Advance(i) = IF i + 1 = PACK_CACHE THEN 0 ELSE i + 1
  BY RxAssumption DEF RxAssumption, Advance, Ring

\* The scheduler serves the slots in turn.
LEMMA SlotsAre ==
  ASSUME slot \in Slots
  PROVE  NextSlot \in Slots
  BY RxAssumption DEF RxAssumption, NextSlot, Slots

\* sem_post leaves the semaphore positive, and within SEM_VALUE_MAX.
LEMMA PostIs ==
  ASSUME NEW v \in 0 .. SEM_VALUE_MAX
  PROVE  Post(v) \in 0 .. SEM_VALUE_MAX /\ Post(v) > 0
  BY RxAssumption DEF RxAssumption, Post

\* The network's position in a frame stays in the frame: a header, and at least
\* one packet of samples and one of data.
LEMMA PositionIs ==
  ASSUME position \in 0 .. FramePackets - 1
  PROVE  /\ FramePackets \in Nat /\ FramePackets >= 3
         /\ AfterPosition \in 0 .. FramePackets - 1
         /\ AfterPosition = IF position + 1 = FramePackets THEN 0 ELSE position + 1
  BY RxAssumption DEF RxAssumption, AfterPosition, FramePackets

\* pool_add_task keeps the list a list of tasks.
LEMMA SubmitTypes ==
  ASSUME Types, NEW k \in Stages, Pool!Submit(<<k, slot>>)
  PROVE  queue' \in Seq(Tasks) /\ running' = running
  <1>1. <<k, slot>> \in Tasks /\ queue \in Seq(Tasks)
    BY DEF Types, Tasks
  <1> QED
    BY <1>1 DEF Pool!Submit

\* A worker that finishes changes one count, of the slot its task is for.
LEMMA FinishTypes ==
  ASSUME Types, NEW w \in Workers, FinishTask(w)
  PROVE  /\ estimated' \in [Slots -> Nat] /\ decoded' \in [Slots -> Nat]
         /\ BERsignal' \in [Slots -> Nat]
  <1> DEFINE m == running[w][2]
  <1>1. \/ estimated' = [estimated EXCEPT ![m] = @ + 1] /\ UNCHANGED <<decoded, BERsignal>>
        \/ decoded' = [decoded EXCEPT ![m] = @ + 1] /\ UNCHANGED <<estimated, BERsignal>>
        \/ BERsignal' = [BERsignal EXCEPT ![m] = @ + 1] /\ UNCHANGED <<estimated, decoded>>
    BY DEF FinishTask
  <1>2. /\ estimated \in [Slots -> Nat] /\ decoded \in [Slots -> Nat]
        /\ BERsignal \in [Slots -> Nat]
    BY DEF Types
  <1> HIDE DEF m
  <1> QED
    BY <1>1, <1>2

\* Every step keeps the types.
LEMMA TypesStep == Types /\ [Next]_vars => Types'
  <1> SUFFICES ASSUME Types, [Next]_vars PROVE Types'
    OBVIOUS
  <1> USE DEF schedVars, gateVars, poolVars, consumerVars, semVars, countVars
  <1>1. CASE FirstFrame
    BY <1>1, RxAssumption DEF RxAssumption, FirstFrame, Types, SchedulerStates
  <1>2. CASE TakeFrame
    BY <1>2 DEF TakeFrame, Types, SchedulerStates
  <1>3. CASE SkipFrame \/ SkipDerm \/ SkipCheck
    BY <1>3 DEF SkipFrame, SkipDerm, SkipCheck, Types, SchedulerStates
  <1>4. CASE AddChest
    <2>1. queue' \in Seq(Tasks) /\ running' = running
      BY <1>4, SubmitTypes DEF AddChest, Stages
    <2>2. submitted' \in Nat /\ readyNum_rx' \in Int /\ gate' \in [Slots -> {0, LayerNum}]
      <3>1. /\ submitted' = submitted + 1
            /\ gate' = [gate EXCEPT ![slot] = 0] \/ gate' = gate
            /\ readyNum_rx' = readyNum_rx - 1 \/ readyNum_rx' = readyNum_rx
        BY <1>4 DEF AddChest
      <3>2. gate \in [Slots -> {0, LayerNum}] /\ submitted \in Nat /\ readyNum_rx \in Int
        BY DEF Types
      <3> QED
        BY <3>1, <3>2
    <2>3. index_rx_read' \in Ring
      BY <1>4, AdvanceIs DEF AddChest, Types
    <2> QED
      BY <1>4, <2>1, <2>2, <2>3 DEF AddChest, Types, SchedulerStates
  <1>5. CASE OpenDerm
    <2>1. cbtaskNum' \in [Slots -> 0 .. CodeBlocks]
      BY <1>5, RxAssumption, CodeBlocksBound
         DEF RxAssumption, OpenDerm, Types, CodeBlocks
    <2> QED
      BY <1>5, <2>1 DEF OpenDerm, Types, SchedulerStates
  <1>6. CASE AddDerm
    <2>1. queue' \in Seq(Tasks) /\ running' = running
      BY <1>6, SubmitTypes DEF AddDerm, Stages
    <2>2. submitted' \in Nat /\ estimated' \in [Slots -> Nat]
      <3>1. /\ submitted' = submitted + 1
            /\ estimated' = [estimated EXCEPT ![slot] = 0] \/ estimated' = estimated
        BY <1>6 DEF AddDerm
      <3>2. estimated \in [Slots -> Nat] /\ submitted \in Nat
        BY DEF Types
      <3> QED
        BY <3>1, <3>2
    <2> QED
      BY <1>6, <2>1, <2>2 DEF AddDerm, Types, SchedulerStates
  <1>7. CASE OpenCheck
    BY <1>7 DEF OpenCheck, Types, SchedulerStates
  <1>8. CASE AddCheck
    <2>1. queue' \in Seq(Tasks) /\ running' = running
      BY <1>8, SubmitTypes DEF AddCheck, Stages
    <2>2. /\ submitted' \in Nat /\ decoded' \in [Slots -> Nat]
          /\ cbtaskNum' \in [Slots -> 0 .. CodeBlocks]
      <3>1. /\ submitted' = submitted + 1
            /\ decoded' = [decoded EXCEPT ![slot] = 0] \/ decoded' = decoded
            /\ cbtaskNum' = [cbtaskNum EXCEPT ![slot] = 0] \/ cbtaskNum' = cbtaskNum
        BY <1>8 DEF AddCheck
      <3>2. /\ decoded \in [Slots -> Nat] /\ submitted \in Nat
            /\ cbtaskNum \in [Slots -> 0 .. CodeBlocks] /\ 0 \in 0 .. CodeBlocks
        BY CodeBlocksBound DEF Types
      <3> QED
        BY <3>1, <3>2
    <2> QED
      BY <1>8, <2>1, <2>2 DEF AddCheck, Types, SchedulerStates
  <1>9. CASE FinishFrame
    BY <1>9 DEF FinishFrame, Types, SchedulerStates
  <1>10. CASE SkipFinish
    BY <1>10, SlotsAre DEF SkipFinish, Types, SchedulerStates
  <1>11. CASE PostRoom
    BY <1>11, SlotsAre, PostIs DEF PostRoom, Types, SchedulerStates
  <1>12. CASE ExitScheduler
    BY <1>12, PostIs DEF ExitScheduler, Types, SchedulerStates
  <1>13. ASSUME NEW w \in Workers, StartTask(w) PROVE Types'
    <2>1. Head(queue) \in Tasks /\ Tail(queue) \in Seq(Tasks)
      BY <1>13 DEF StartTask, Pool!Start, Types
    <2> QED
      BY <1>13, <2>1 DEF StartTask, Pool!Start, Types
  <1>14. ASSUME NEW w \in Workers, FinishTask(w) PROVE Types'
    <2>1. running' \in [Workers -> Tasks \union {NoTask}] /\ queue' = queue
      BY <1>14 DEF FinishTask, Pool!Finish, Types
    <2> QED
      BY <1>14, <2>1, FinishTypes DEF FinishTask, Types
  <1>15. CASE TestRoom \/ PollNothing
    BY <1>15 DEF TestRoom, PollNothing, Types, ConsumerStates
  <1>16. CASE RoomPosted
    BY <1>16, RxAssumption DEF RxAssumption, RoomPosted, Types, ConsumerStates
  <1>17. CASE DepackageFirst \/ DepackageMiddle
    <2>1. position' \in 0 .. FramePackets - 1
      BY <1>17, PositionIs DEF DepackageFirst, DepackageMiddle, Types
    <2>2. startNum_rx' \in Int /\ readyNum_rx' = readyNum_rx
      BY <1>17 DEF DepackageFirst, DepackageMiddle, Types
    <2> QED
      BY <1>17, <2>1, <2>2 DEF DepackageFirst, DepackageMiddle, Types, ConsumerStates
  <1>18. CASE DepackageLast
    BY <1>18, PositionIs, AdvanceIs DEF DepackageLast, Types, ConsumerStates
  <1>19. CASE PostFrame \/ ExitConsumer
    BY <1>19, PostIs DEF PostFrame, ExitConsumer, Types, ConsumerStates
  <1>20. CASE LosePacket
    BY <1>20, PositionIs, RxAssumption DEF RxAssumption, LosePacket, Types
  <1>21. CASE SignalHandler \/ UNCHANGED vars
    BY <1>21 DEF SignalHandler, vars, Types
  <1> QED
    BY <1>1, <1>2, <1>3, <1>4, <1>5, <1>6, <1>7, <1>8, <1>9, <1>10, <1>11, <1>12, <1>13,
       <1>14, <1>15, <1>16, <1>17, <1>18, <1>19, <1>20, <1>21
       DEF Next, Scheduler, Worker, Consumer, Depackage

-----------------------------------------------------------------------------
(* Each step keeps the counters *)

\* Busy slots can be counted.
LEMMA BusyType == IsFiniteSet(BusySlots) /\ Card \in Nat
  <1>1. IsFiniteSet(Slots)
    BY FS_Interval, RxAssumption DEF RxAssumption, Slots
  <1> QED
    BY <1>1, FS_Subset, FS_CardinalityType DEF BusySlots, Card

\* A busy slot is counted.
LEMMA BusyCounts ==
  ASSUME NEW n \in Slots, gate[n] = 0
  PROVE  Card >= 1
  <1>1. BusySlots # {}
    BY DEF BusySlots
  <1> QED
    BY <1>1, BusyType, FS_EmptySet DEF Card

\* No slot is taken or freed.
LEMMA BusyKept == gate' = gate => Card' = Card
  BY DEF BusySlots, Card

\* A slot whose gate is closed becomes busy.
LEMMA TakenBusy ==
  ASSUME Types, gate[slot] = LayerNum, gate' = [gate EXCEPT ![slot] = 0]
  PROVE  Card' = Card + 1
  <1>1. slot \notin BusySlots
    BY RxAssumption DEF RxAssumption, BusySlots
  <1>2. BusySlots' = BusySlots \union {slot}
    BY DEF Types, BusySlots
  <1>3. Card' = Cardinality(BusySlots')
    BY DEF Card
  <1> QED
    BY <1>1, <1>2, <1>3, BusyType, FS_AddElement DEF Card

\* A slot whose gate is opened is busy no longer.
LEMMA FreedBusy ==
  ASSUME Types, gate[slot] = 0, gate' = [gate EXCEPT ![slot] = LayerNum]
  PROVE  Card' = Card - 1
  <1>1. slot \in BusySlots
    BY DEF Types, BusySlots
  <1>2. BusySlots' = BusySlots \ {slot}
    BY RxAssumption DEF RxAssumption, Types, BusySlots
  <1>3. Card' = Cardinality(BusySlots')
    BY DEF Card
  <1> QED
    BY <1>1, <1>2, <1>3, BusyType, FS_RemoveElement DEF Card

\* The types of the numbers the counters are about.
LEMMA NumberTypes ==
  ASSUME Types
  PROVE  /\ startNum_rx \in Int /\ readyNum_rx \in Int /\ Card \in Nat /\ Receiving \in {0, 1}
         /\ lost \in Nat /\ lostHeaders \in Nat /\ lostLasts \in Nat /\ PACK_CACHE \in Nat /\ PACK_CACHE > 0
         /\ index_rx_write \in 0 .. PACK_CACHE - 1 /\ index_rx_read \in 0 .. PACK_CACHE - 1
  BY BusyType, RxAssumption DEF RxAssumption, Types, Receiving, Ring

\* A step that leaves every number of Counters as it is.
LEMMA CountersKept ==
  ASSUME Counters, gate' = gate, position' = position, UNCHANGED lossVars,
         UNCHANGED <<startNum_rx, readyNum_rx, index_rx_write, index_rx_read, frameOf>>,
         UNCHANGED <<tpc, slot>> \/ tpc' # "addChest"
  PROVE  Counters'
  <1>1. Card' = Card /\ Receiving' = Receiving
    BY BusyKept DEF Receiving
  <1>2. Drift' = Drift
    BY <1>1 DEF Drift
  <1> QED
    BY <1>2 DEF Counters

\* While nothing is lost, the complete frames and the frames at work fit in the ring.
LEMMA ReadyBound ==
  ASSUME Types, Counters, lost = 0
  PROVE  /\ readyNum_rx \in 0 .. PACK_CACHE
         /\ startNum_rx = Card + readyNum_rx + Receiving
  BY NumberTypes DEF Counters, Drift

\* A frame is taken from the ring when its last chest_calsym task is added.
LEMMA AddChestCounters == Types /\ Phases /\ Counters /\ AddChest => Counters'
  <1> SUFFICES ASSUME Types, Phases, Counters, AddChest PROVE Counters'
    OBVIOUS
  <1>1. CASE submitted + 1 # SBNum
    BY <1>1, CountersKept DEF AddChest, consumerVars
  <1>2. CASE submitted + 1 = SBNum
    <2>1. /\ tpc = "addChest" /\ tpc' = "derm" /\ gate' = [gate EXCEPT ![slot] = 0]
          /\ readyNum_rx' = readyNum_rx - 1 /\ index_rx_read' = Advance(index_rx_read)
          /\ UNCHANGED <<startNum_rx, position, lossVars, index_rx_write>>
      BY <1>2 DEF AddChest, consumerVars
    <2>2. gate[slot] = LayerNum
      BY <2>1, PhaseServed DEF AddingChest
    <2>3. Card' = Card + 1 /\ Receiving' = Receiving
      BY <2>1, <2>2, TakenBusy DEF Receiving
    <2>4. Drift' = Drift
      BY <2>1, <2>3, NumberTypes DEF Drift
    <2>5. readyNum_rx' >= 0 /\ readyNum_rx > 0
      BY <2>1, NumberTypes DEF Counters
    <2>6. ASSUME lost = 0
          PROVE  index_rx_write \in {index_rx_read' + readyNum_rx',
                                     index_rx_read' + readyNum_rx' - PACK_CACHE}
      <3>1. index_rx_read' = IF index_rx_read + 1 = PACK_CACHE THEN 0 ELSE index_rx_read + 1
        BY <2>1, AdvanceIs DEF Types
      <3>2. index_rx_write \in {index_rx_read + readyNum_rx,
                                index_rx_read + readyNum_rx - PACK_CACHE}
        BY <2>6 DEF Counters
      <3> QED
        BY <2>1, <2>5, <2>6, <3>1, <3>2, ReadyBound, NumberTypes
    <2> QED
      BY <2>1, <2>4, <2>5, <2>6 DEF Counters
  <1> QED
    BY <1>1, <1>2

\* A frame is complete when its last packet comes.
LEMMA DepackageLastCounters == Types /\ Counters /\ DepackageLast => Counters'
  <1> SUFFICES ASSUME Types, Counters, DepackageLast PROVE Counters'
    OBVIOUS
  <1>1. /\ startNum_rx < PACK_CACHE
        /\ readyNum_rx' = readyNum_rx + 1 /\ index_rx_write' = Advance(index_rx_write)
        /\ position + 1 = FramePackets /\ position' = AfterPosition
        /\ UNCHANGED <<startNum_rx, lossVars, index_rx_read, gate, tpc, slot, frameOf>>
    BY DEF DepackageLast, HasRoom, schedVars, gateVars
  <1>2. Receiving = 1 /\ Receiving' = 0 /\ Card' = Card
    BY <1>1, PositionIs, BusyKept DEF Types, Receiving
  <1>3. Drift' = Drift
    BY <1>1, <1>2, NumberTypes DEF Drift
  <1>4. ASSUME lost = 0
        PROVE  index_rx_write' \in {index_rx_read + readyNum_rx',
                                    index_rx_read + readyNum_rx' - PACK_CACHE}
    <2>1. index_rx_write' = IF index_rx_write + 1 = PACK_CACHE THEN 0 ELSE index_rx_write + 1
      BY <1>1, AdvanceIs DEF Types
    <2>2. /\ index_rx_write \in {index_rx_read + readyNum_rx,
                                 index_rx_read + readyNum_rx - PACK_CACHE}
          /\ readyNum_rx \in 0 .. PACK_CACHE - 1
      BY <1>1, <1>2, <1>4, ReadyBound, NumberTypes DEF Counters
    <2> QED
      BY <1>1, <2>1, <2>2, NumberTypes
  <1>5. readyNum_rx' >= 0 /\ (tpc = "addChest" => readyNum_rx' > 0)
    BY <1>1, NumberTypes DEF Counters
  <1> QED
    BY <1>1, <1>3, <1>4, <1>5 DEF Counters

\* A lost header makes startNum_rx one too small, a lost last packet one too
\* large, any other lost packet changes nothing.
LEMMA LosePacketCounters == Types /\ Counters /\ LosePacket => Counters'
  <1> SUFFICES ASSUME Types, Counters, LosePacket PROVE Counters'
    OBVIOUS
  <1>1. /\ lost' = lost + 1 /\ position' = AfterPosition
        /\ lostHeaders' = (IF position = 0 THEN lostHeaders + 1 ELSE lostHeaders)
        /\ lostLasts' = (IF position + 1 = FramePackets THEN lostLasts + 1 ELSE lostLasts)
        /\ UNCHANGED <<startNum_rx, readyNum_rx, index_rx_write, index_rx_read, gate, tpc,
                       slot, frameOf>>
    BY DEF LosePacket, schedVars, gateVars, countVars
  <1>2. Card' = Card
    BY <1>1, BusyKept
  <1>3. /\ position = 0 => Receiving = 0 /\ Receiving' = 1 /\ position + 1 # FramePackets
        /\ position + 1 = FramePackets => Receiving = 1 /\ Receiving' = 0
        /\ position # 0 /\ position + 1 # FramePackets => Receiving = 1 /\ Receiving' = 1
    BY <1>1, PositionIs, RxAssumption DEF RxAssumption, Types, Receiving, FramePackets
  <1>4. Drift' = (Drift + Receiving) - Receiving' /\ Drift \in Int
    BY <1>1, <1>2, <1>3, NumberTypes DEF Drift
  <1>5. /\ Drift' = lostLasts' - lostHeaders'
        /\ lostHeaders' + lostLasts' <= lost'
    BY <1>1, <1>3, <1>4, NumberTypes DEF Counters
  <1>6. lost' # 0
    BY <1>1, NumberTypes
  <1> QED
    BY <1>1, <1>5, <1>6 DEF Counters

\* Every step keeps the counters exact but for the losses.
LEMMA CountersStep == Types /\ Phases /\ Counters /\ [Next]_vars => Counters'
  <1> SUFFICES ASSUME Types, Phases, Counters, [Next]_vars PROVE Counters'
    OBVIOUS
  <1>1. CASE AddChest \/ DepackageLast \/ LosePacket
    BY <1>1, AddChestCounters, DepackageLastCounters, LosePacketCounters
  <1>2. CASE TakeFrame
    <2>1. /\ tpc' = "addChest" /\ readyNum_rx > 0 /\ frameOf'[slot'] = index_rx_read'
          /\ UNCHANGED <<startNum_rx, readyNum_rx, position, lossVars, index_rx_write,
                         index_rx_read, gate>>
      BY <1>2 DEF TakeFrame, Types, gateVars, countVars, consumerVars
    <2>2. Drift' = Drift
      BY <2>1, BusyKept DEF Drift, Receiving
    <2> QED
      BY <2>1, <2>2 DEF Counters
  <1>3. CASE FinishFrame
    <2>1. /\ tpc' = "post" /\ startNum_rx' = startNum_rx - 1
          /\ gate' = [gate EXCEPT ![slot] = LayerNum]
          /\ UNCHANGED <<readyNum_rx, position, lossVars, index_rx_write, index_rx_read>>
      BY <1>3 DEF FinishFrame, consumerVars
    <2>2. Card' = Card - 1 /\ Receiving' = Receiving
      BY <1>3, <2>1, Finished, FreedBusy DEF Checking, Receiving
    <2>3. Drift' = Drift /\ startNum_rx' <= PACK_CACHE
      BY <2>1, <2>2, NumberTypes DEF Drift, Counters
    <2> QED
      BY <2>1, <2>3 DEF Counters
  <1>4. CASE DepackageFirst
    <2>1. /\ startNum_rx < PACK_CACHE /\ startNum_rx' = startNum_rx + 1
          /\ position = 0 /\ position' = AfterPosition
          /\ UNCHANGED <<readyNum_rx, lossVars, index_rx_write, index_rx_read, gate, tpc, slot,
                         frameOf>>
      BY <1>4 DEF DepackageFirst, HasRoom, schedVars, gateVars
    <2>2. Receiving = 0 /\ Receiving' = 1 /\ Card' = Card
      BY <2>1, PositionIs, BusyKept DEF Types, Receiving
    <2>3. Drift' = Drift /\ startNum_rx' <= PACK_CACHE
      BY <2>1, <2>2, NumberTypes DEF Drift
    <2> QED
      BY <2>1, <2>3 DEF Counters
  <1>5. CASE DepackageMiddle
    <2>1. /\ position > 0 /\ position' = AfterPosition /\ position + 1 < FramePackets
          /\ UNCHANGED <<startNum_rx, readyNum_rx, lossVars, index_rx_write, index_rx_read, gate,
                         tpc, slot, frameOf>>
      BY <1>5 DEF DepackageMiddle, schedVars, gateVars, countVars
    <2>2. Receiving' = Receiving /\ Card' = Card
      BY <2>1, PositionIs, BusyKept DEF Types, Receiving
    <2>3. Drift' = Drift
      BY <2>1, <2>2 DEF Drift
    <2> QED
      BY <2>1, <2>3 DEF Counters
  <1>6. CASE FirstFrame \/ SkipFrame \/ OpenDerm \/ SkipDerm \/ AddDerm \/ OpenCheck
             \/ SkipCheck \/ AddCheck \/ SkipFinish \/ PostRoom \/ ExitScheduler
    BY <1>6, CountersKept
       DEF FirstFrame, SkipFrame, OpenDerm, SkipDerm, AddDerm, OpenCheck, SkipCheck, AddCheck,
           SkipFinish, PostRoom, ExitScheduler, gateVars, consumerVars, countVars
  <1>7. ASSUME NEW w \in Workers, Worker(w) PROVE Counters'
    BY <1>7, CountersKept
       DEF Worker, StartTask, FinishTask, schedVars, gateVars, consumerVars, countVars
  <1>8. CASE TestRoom \/ RoomPosted \/ PollNothing \/ PostFrame \/ ExitConsumer
             \/ SignalHandler \/ UNCHANGED vars
    BY <1>8, CountersKept
       DEF TestRoom, RoomPosted, PollNothing, PostFrame, ExitConsumer, SignalHandler, vars,
           schedVars, gateVars, consumerVars, countVars
  <1> QED
    BY <1>1, <1>2, <1>3, <1>4, <1>5, <1>6, <1>7, <1>8
       DEF Next, Scheduler, Consumer, Depackage

-----------------------------------------------------------------------------
(* The invariant *)

\* Nothing is outstanding when the program starts.
LEMMA InitQuiet == Init => \A t \in Tasks : Outstanding(t) = 0
  <1> SUFFICES ASSUME Init, NEW t \in Tasks PROVE Outstanding(t) = 0
    OBVIOUS
  <1>1. /\ queue = << >> /\ running = [w \in Workers |-> NoTask]
        /\ t # NoTask
    BY RxAssumption DEF RxAssumption, Init, Pool!PoolInit
  <1>2. Load(queue, running, Workers, t) = 0
    BY <1>1, LoadIdle
  <1> QED
    BY <1>2, OutstandingIs

\* Every slot starts free and every counter at 0; cbtaskNum may hold anything.
LEMMA InitInv == Init => RxInv
  <1> SUFFICES ASSUME Init PROVE RxInv
    OBVIOUS
  <1>1. Types
    <2>1. queue \in Seq(Tasks) /\ running \in [Workers -> Tasks \union {NoTask}]
      BY DEF Init, Pool!PoolInit
    <2>2. /\ slot \in Slots /\ index_rx_write \in Ring /\ index_rx_read \in Ring
          /\ lost \in 0 .. MaxLost /\ lostHeaders \in Nat /\ lostLasts \in Nat
          /\ submitted \in Nat /\ startNum_rx \in Int /\ readyNum_rx \in Int
          /\ cache_rx \in 0 .. SEM_VALUE_MAX /\ notFull \in 0 .. SEM_VALUE_MAX
      BY RxAssumption DEF RxAssumption, Init, Slots, Ring
    <2>3. position \in 0 .. FramePackets - 1
      BY RxAssumption DEF RxAssumption, Init, FramePackets
    <2>4. /\ gate \in [Slots -> {0, LayerNum}] /\ estimated \in [Slots -> Nat]
          /\ decoded \in [Slots -> Nat] /\ BERsignal \in [Slots -> Nat]
          /\ cbtaskNum \in [Slots -> 0 .. CodeBlocks] /\ frameOf \in [Slots -> Ring]
      BY <2>2 DEF Init, CodeBlocks
    <2> QED
      BY <2>1, <2>2, <2>3, <2>4 DEF Init, Types, SchedulerStates, ConsumerStates
  <1>2. Phases
    <2>1. SUFFICES ASSUME NEW n \in Slots PROVE Idle(n)
      BY DEF Phases, Phase
    <2> QED
      BY InitQuiet, StageTasks
         DEF Init, Idle, Polled, AddStates, NoChest, NoDerm, NoCheck, Chest, Derm, Check
  <1>3. Counters
    <2>1. BusySlots = {}
      BY RxAssumption DEF RxAssumption, Init, BusySlots
    <2>2. Card = 0 /\ Receiving = 0
      BY <2>1, FS_EmptySet DEF Card, Init, Receiving
    <2> QED
      BY <2>2, RxAssumption DEF RxAssumption, Init, Counters, Drift
  <1> QED
    BY <1>1, <1>2, <1>3 DEF RxInv

\* Every step keeps the invariant.
LEMMA StepInv == RxInv /\ [Next]_vars => RxInv'
  BY TypesStep, PhasesStep, CountersStep DEF RxInv

\* The gates, the task lists and the counters of the code (ServiceEN_rx,
\* BERsignal, pool 3, startNum_rx, readyNum_rx) stay consistent in every
\* interleaving and whatever is lost.
THEOREM Invariance == Spec => []RxInv
  BY InitInv, StepInv, PTL DEF Spec

-----------------------------------------------------------------------------
(* What it implies *)

\* What the drift leaves for the two counters.
LEMMA CounterBounds ==
  ASSUME RxInv
  PROVE  /\ startNum_rx \in -MaxLost .. PACK_CACHE
         /\ readyNum_rx \in 0 .. PACK_CACHE + MaxLost
         /\ lostHeaders \in 0 .. MaxLost /\ lostLasts \in 0 .. MaxLost
  <1>1. /\ startNum_rx \in Int /\ readyNum_rx \in Int /\ Card \in Nat /\ Receiving \in {0, 1}
        /\ lost \in 0 .. MaxLost /\ MaxLost \in Nat /\ PACK_CACHE \in Nat
    BY NumberTypes, RxAssumption DEF RxAssumption, RxInv, Types
  <1>2. /\ startNum_rx - (Card + readyNum_rx + Receiving) = lostLasts - lostHeaders
        /\ lostHeaders + lostLasts <= lost /\ lostHeaders \in Nat /\ lostLasts \in Nat
        /\ startNum_rx <= PACK_CACHE /\ readyNum_rx >= 0
    BY NumberTypes DEF RxInv, Counters, Drift
  <1> QED
    BY <1>1, <1>2

\* Every variable stays in its range: the counters of frames leave theirs by no
\* more than the packets lost, and the gates of ServiceEN_rx and BERsignal never
\* pass the number of tasks of their stage.
THEOREM TypeCorrect == Spec => []TypeOK
  <1>1. RxInv => TypeOK
    <2> SUFFICES ASSUME RxInv PROVE TypeOK
      OBVIOUS
    <2>1. Types
      BY DEF RxInv
    <2>2. ASSUME NEW n \in Slots
          PROVE  /\ estimated[n] \in 0 .. SBNum /\ decoded[n] \in 0 .. CodeBlocks
                 /\ BERsignal[n] \in 0 .. LayerNum
      <3>1. /\ Chest(n) \in Nat /\ Derm(n) \in Nat /\ Check(n) \in Nat
            /\ estimated[n] \in Nat /\ decoded[n] \in Nat /\ BERsignal[n] \in Nat
            /\ cbtaskNum[n] \in 0 .. CodeBlocks /\ submitted \in Nat
            /\ CodeBlocks \in Nat /\ SBNum \in Nat /\ LayerNum \in Nat
        BY <2>1, StageCounts, CodeBlocksBound, RxAssumption DEF RxAssumption, Types
      <3>2. Phase(n)
        BY DEF RxInv, Phases
      <3>3. estimated[n] <= SBNum
        BY <3>1, <3>2 DEF Phase, Idle, AddingChest, Estimating, AddingDerm, Decoding,
                          AddingCheck, Checking, NoChest
      <3>4. decoded[n] <= CodeBlocks
        BY <3>1, <3>2 DEF Phase, Idle, AddingChest, Estimating, AddingDerm, Decoding,
                          AddingCheck, Checking, NoDerm
      <3>5. BERsignal[n] <= LayerNum
        BY <3>1, <3>2 DEF Phase, Idle, AddingChest, Estimating, AddingDerm, Decoding,
                          AddingCheck, Checking, NoCheck
      <3> QED
        BY <3>1, <3>3, <3>4, <3>5
    <2>3. /\ estimated \in [Slots -> 0 .. SBNum]
          /\ decoded \in [Slots -> 0 .. CodeBlocks]
          /\ BERsignal \in [Slots -> 0 .. LayerNum]
      BY <2>1, <2>2 DEF Types
    <2> QED
      BY <2>1, <2>3, CounterBounds DEF Types, TypeOK, CodeBlocks
  <1> QED
    BY <1>1, Invariance, PTL

\* startNum_rx is too large by the lost last packets and too small by the lost
\* headers, exactly: no other lost packet, no interleaving of the consumer and the
\* scheduler and no end of a slot adds to the drift.
THEOREM DriftIsLosses == Spec => []AccountingDrift
  <1>1. RxInv => AccountingDrift
    BY DEF RxInv, Counters, Drift, Card, Receiving, AccountingDrift
  <1> QED
    BY <1>1, Invariance, PTL

\* No task of a stage is listed or running when the scheduler resets the stage's
\* counter or gives the slot's buffers to another frame.
THEOREM Quiescent == Spec => []StagesQuiescent
  <1>1. RxInv => StagesQuiescent
    <2> SUFFICES ASSUME RxInv PROVE StagesQuiescent
      OBVIOUS
    <2>1. tpc = "addDerm" => Chest(slot) = 0
      BY PhaseServed DEF RxInv, AddingDerm
    <2>2. tpc = "addCheck" => Derm(slot) = 0
      BY PhaseServed DEF RxInv, AddingCheck
    <2>3. ASSUME NEW n \in Slots, n \notin Readers
          PROVE  Chest(n) = 0 /\ Derm(n) = 0 /\ Check(n) = 0
      BY <2>3 DEF RxInv, Phases, Phase, Readers, Idle, AddingChest, Estimating, AddingDerm,
                  Decoding, AddingCheck, Checking, NoChest, NoDerm, NoCheck
    <2> QED
      BY <2>1, <2>2, <2>3
         DEF StagesQuiescent, Stages, Chest, Derm, Check, ChestTask, DermTask, CheckTask
  <1> QED
    BY <1>1, Invariance, PTL

\* While nothing is lost, a packet never goes into a complete frame that waits
\* for a slot, although the consumer looks at startNum_rx without a lock.
THEOREM ReadySafe == Spec => []ReadyFramesIntact
  <1>1. RxInv => ReadyFramesIntact
    <2> SUFFICES ASSUME RxInv, lost = 0, startNum_rx < PACK_CACHE,
                        index_rx_write \in ReadyWindow
                 PROVE  FALSE
      BY DEF ReadyFramesIntact, MayWrite, HasRoom
    <2>1. PICK j \in 0 .. readyNum_rx - 1 :
             index_rx_write = index_rx_read + j \/ index_rx_write = index_rx_read + j - PACK_CACHE
      BY DEF ReadyWindow
    <2>2. readyNum_rx \in 0 .. PACK_CACHE - 1
      BY ReadyBound, NumberTypes DEF RxInv
    <2>3. \/ index_rx_write = index_rx_read + readyNum_rx
          \/ index_rx_write = index_rx_read + readyNum_rx - PACK_CACHE
      BY DEF RxInv, Counters
    <2> QED
      BY <2>1, <2>2, <2>3, NumberTypes DEF RxInv
  <1> QED
    BY <1>1, Invariance, PTL

\* No wakeup of the consumer is lost: while it waits for rx_buff_is_not_full and
\* there is room, there is a post to take, or the scheduler is about to post.
THEOREM NoRoomMissed == Spec => []NoMissedRoom
  <1>1. Init => NoMissedRoom
    BY DEF Init, NoMissedRoom
  <1>2. RxInv /\ NoMissedRoom /\ [Next]_vars => NoMissedRoom'
    <2> SUFFICES ASSUME RxInv, NoMissedRoom, [Next]_vars PROVE NoMissedRoom'
      OBVIOUS
    <2> USE DEF NoMissedRoom, schedVars, countVars, consumerVars, semVars
    <2>1. CASE FirstFrame \/ TakeFrame \/ SkipFrame \/ AddChest \/ OpenDerm \/ SkipDerm
               \/ AddDerm \/ OpenCheck \/ SkipCheck \/ AddCheck \/ SkipFinish
      BY <2>1 DEF FirstFrame, TakeFrame, SkipFrame, AddChest, OpenDerm, SkipDerm, AddDerm,
                  OpenCheck, SkipCheck, AddCheck, SkipFinish
    <2>2. CASE FinishFrame
      BY <2>2 DEF FinishFrame
    <2>3. CASE PostRoom \/ ExitScheduler
      <3>1. notFull' > 0
        BY <2>3, PostIs DEF PostRoom, ExitScheduler, RxInv, Types
      <3> QED
        BY <3>1
    <2>4. ASSUME NEW w \in Workers, Worker(w) PROVE NoMissedRoom'
      BY <2>4 DEF Worker, StartTask, FinishTask
    <2>5. CASE TestRoom
      BY <2>5, NumberTypes DEF TestRoom, RxInv
    <2>6. CASE RoomPosted \/ PollNothing \/ Depackage \/ PostFrame \/ ExitConsumer
      BY <2>6 DEF RoomPosted, PollNothing, Depackage, DepackageFirst, DepackageMiddle,
                  DepackageLast, PostFrame, ExitConsumer
    <2>7. CASE LosePacket \/ SignalHandler \/ UNCHANGED vars
      BY <2>7 DEF LosePacket, SignalHandler, vars
    <2> QED
      BY <2>1, <2>2, <2>3, <2>4, <2>5, <2>6, <2>7 DEF Next, Scheduler, Consumer
  <1> QED
    BY <1>1, <1>2, Invariance, PTL DEF Spec

\* On a link that loses nothing, startNum_rx and readyNum_rx are a bounded buffer
\* of PACK_CACHE frames: a header reserves, the last packet commits, the last
\* chest_calsym task takes, the statistics release.
THEOREM Implements ==
  ASSUME MaxLost = 0
  PROVE  Spec => ImplementsFrameBuffer
  <1>1. Init => Frames!Init
    BY DEF Init, Frames!Init
  <1>2. RxInv /\ [Next]_vars => [Frames!Next]_<<startNum_rx, readyNum_rx>>
    <2> SUFFICES ASSUME RxInv, [Next]_vars
                 PROVE  Frames!Next \/ UNCHANGED <<startNum_rx, readyNum_rx>>
      OBVIOUS
    <2>1. /\ startNum_rx = Card + readyNum_rx + Receiving /\ Types
          /\ startNum_rx \in Int /\ readyNum_rx \in Int /\ Card \in Nat /\ Receiving \in {0, 1}
      <3>1. Types /\ Counters /\ lost = 0
        BY DEF RxInv, Types
      <3> QED
        BY <3>1, ReadyBound, NumberTypes
    <2> USE DEF countVars
    <2>2. CASE DepackageFirst
      BY <2>2 DEF DepackageFirst, HasRoom, Frames!Next, Frames!Reserve
    <2>3. CASE DepackageLast
      <3>1. Receiving = 1
        BY <2>1, <2>3, PositionIs DEF DepackageLast, Types, Receiving
      <3> QED
        BY <2>1, <2>3, <3>1 DEF DepackageLast, Frames!Next, Frames!Commit
    <2>4. CASE AddChest
      <3>1. readyNum_rx > 0
        BY <2>4 DEF AddChest, RxInv, Counters
      <3> QED
        BY <2>4, <3>1 DEF AddChest, Frames!Next, Frames!Take
    <2>5. CASE FinishFrame
      <3>1. Card >= 1
        BY <2>5, Finished, BusyCounts DEF RxInv, Types, Checking
      <3> QED
        BY <2>1, <2>5, <3>1 DEF FinishFrame, Frames!Next, Frames!Release
    <2>6. CASE FirstFrame \/ TakeFrame \/ SkipFrame \/ OpenDerm \/ SkipDerm \/ AddDerm
               \/ OpenCheck \/ SkipCheck \/ AddCheck \/ SkipFinish \/ PostRoom
               \/ ExitScheduler
      BY <2>6 DEF FirstFrame, TakeFrame, SkipFrame, OpenDerm, SkipDerm, AddDerm, OpenCheck,
                  SkipCheck, AddCheck, SkipFinish, PostRoom, ExitScheduler
    <2>7. ASSUME NEW w \in Workers, Worker(w)
          PROVE  UNCHANGED <<startNum_rx, readyNum_rx>>
      BY <2>7 DEF Worker, StartTask, FinishTask
    <2>8. CASE TestRoom \/ RoomPosted \/ PollNothing \/ DepackageMiddle \/ PostFrame
               \/ ExitConsumer \/ LosePacket \/ SignalHandler \/ UNCHANGED vars
      BY <2>8 DEF TestRoom, RoomPosted, PollNothing, DepackageMiddle, PostFrame,
                  ExitConsumer, LosePacket, SignalHandler, vars
    <2> QED
      BY <2>2, <2>3, <2>4, <2>5, <2>6, <2>7, <2>8 DEF Next, Scheduler, Consumer, Depackage
  <1> QED
    BY <1>1, <1>2, Invariance, PTL DEF Spec, ImplementsFrameBuffer, Frames!Spec

-----------------------------------------------------------------------------
(* The order of the frames *)

\* A chest_calsym task in the pool is of a slot whose frame is being taken or
\* estimated.
LEMMA ChestPlaces ==
  ASSUME RxInv, NEW n \in Slots,
         \/ \E k \in DOMAIN queue : queue[k] = ChestTask(n)
         \/ \E w \in Workers : running[w] = ChestTask(n)
  PROVE  Chest(n) # 0 /\ (n \in Late \/ (slot = n /\ tpc = "addChest" /\ gate[n] = LayerNum))
  <1>1. queue \in Seq(Tasks) /\ IsFiniteSet(Workers)
    BY RxAssumption DEF RxAssumption, RxInv, Types
  <1>2. Load(queue, running, Workers, ChestTask(n)) # 0
    BY <1>1, LoadPositive
  <1>3. Chest(n) # 0
    BY <1>2, OutstandingIs DEF Chest
  <1>4. AddingChest(n) \/ Estimating(n)
    BY <1>3 DEF RxInv, Phases, Phase, Idle, AddingDerm, Decoding, AddingCheck, Checking,
                NoChest
  <1> QED
    BY <1>3, <1>4 DEF Late, AddingChest, Estimating

\* An outstanding chest_calsym task is in the pool.
LEMMA ChestSomewhere ==
  ASSUME Types, NEW n \in Slots, Chest(n) # 0
  PROVE  \/ \E k \in DOMAIN queue : queue[k] = ChestTask(n)
         \/ \E w \in Workers : running[w] = ChestTask(n)
  <1>1. queue \in Seq(Tasks) /\ IsFiniteSet(Workers)
    BY RxAssumption DEF RxAssumption, Types
  <1>2. Load(queue, running, Workers, ChestTask(n)) # 0
    BY OutstandingIs DEF Chest
  <1> QED
    BY <1>1, <1>2, LoadSomewhere

\* An age tells the frame.
LEMMA AgeType ==
  ASSUME Types, NEW n \in Slots
  PROVE  /\ Age(n) \in 0 .. PACK_CACHE
         /\ gate[n] = 0 => Age(n) > 0
         /\ gate[n] = LayerNum => Age(n) = 0
  <1>1. /\ frameOf[n] \in 0 .. PACK_CACHE - 1 /\ gate[n] \in {0, LayerNum} /\ LayerNum # 0
        /\ index_rx_read \in 0 .. PACK_CACHE - 1 /\ PACK_CACHE \in Nat
    BY RxAssumption DEF RxAssumption, Types, Ring
  <1> QED
    BY <1>1 DEF Age

\* The frames still being estimated are no older than there are slots at work.
LEMMA AgeBound ==
  ASSUME Types, Youngest, NEW n \in Late
  PROVE  Age(n) \in 1 .. Card
  <1> DEFINE S == 1 .. Age(n)
             f == [a \in S |-> CHOOSE m \in Late : Age(m) = a]
  <1>1. Age(n) \in Nat /\ Age(n) > 0
    BY AgeType, RxAssumption DEF RxAssumption, Late
  <1>2. \A a \in S : f[a] \in BusySlots /\ Age(f[a]) = a
    BY DEF Youngest, Late, BusySlots
  <1>3. f \in Injection(S, BusySlots)
    BY <1>2 DEF Injection, IsInjective
  <1>4. Cardinality(S) <= Card
    BY <1>3, BusyType, FS_Injection DEF ExistsInjection, Card
  <1>5. Cardinality(S) = Age(n)
    BY <1>1, FS_Interval
  <1> QED
    BY <1>1, <1>4, <1>5, BusyType

\* A step that leaves the pool alone, and the age of every slot that has
\* chest_calsym tasks.
LEMMA OrderKept ==
  ASSUME RxInv, Ordered, Youngest, UNCHANGED poolVars,
         \A n \in Slots : Chest(n) # 0 => gate'[n] = gate[n] /\ Age(n)' = Age(n)
  PROVE  Ordered' /\ Youngest'
  <1>1. \A n : Chest(n)' = Chest(n)
    BY QuietPool
  <1>2. Late' = Late /\ \A n \in Late : Age(n)' = Age(n)
    BY <1>1 DEF Late
  <1>3. Youngest'
    BY <1>2 DEF Youngest
  <1>4. queue' = queue /\ running' = running
    BY DEF poolVars
  <1>5. \A n \in Slots :
          (\E k \in DOMAIN queue : queue[k] = ChestTask(n)) \/
          (\E w \in Workers : running[w] = ChestTask(n)) => Age(n)' = Age(n)
    BY ChestPlaces
  <1>6. Ordered'
    <2> SUFFICES ASSUME NEW m \in Slots, NEW n \in Slots
                 PROVE  /\ \A i, j \in DOMAIN queue :
                             (i < j /\ queue[i] = ChestTask(m) /\ queue[j] = ChestTask(n)) =>
                               Age(m)' >= Age(n)'
                        /\ \A w \in Workers, j \in DOMAIN queue :
                             (running[w] = ChestTask(m) /\ queue[j] = ChestTask(n)) =>
                               Age(m)' >= Age(n)'
      BY <1>4 DEF Ordered, ChestTask
    <2> QED
      BY <1>5 DEF Ordered
  <1> QED
    BY <1>3, <1>6

\* A task of a later stage joins the list: the frames' order is that of their
\* chest_calsym tasks.
LEMMA SubmitLater ==
  ASSUME RxInv, Ordered, Youngest, NEW k \in {"derm_crc", "crc_check"},
         Pool!Submit(<<k, slot>>), UNCHANGED <<gate, frameOf, index_rx_read>>
  PROVE  Ordered' /\ Youngest'
  <1>1. \A n : Age(n)' = Age(n)
    BY DEF Age
  <1>2. \A n \in Slots : Chest(n)' = Chest(n)
    BY SubmitStage DEF RxInv, Types, Stages
  <1>3. Late' = Late
    BY <1>2 DEF Late
  <1>4. Youngest'
    BY <1>1, <1>3 DEF Youngest
  <1>5. queue \in Seq(Tasks) /\ queue' = Append(queue, <<k, slot>>) /\ running' = running
    BY DEF RxInv, Types, Pool!Submit
  <1>6. ASSUME NEW n, NEW j \in DOMAIN queue', queue'[j] = ChestTask(n)
        PROVE  j \in DOMAIN queue /\ queue[j] = ChestTask(n)
    BY <1>5, <1>6 DEF ChestTask
  <1>7. Ordered'
    <2> SUFFICES ASSUME NEW m \in Slots, NEW n \in Slots
                 PROVE  /\ \A i, j \in DOMAIN queue' :
                             (i < j /\ queue'[i] = ChestTask(m) /\ queue'[j] = ChestTask(n)) =>
                               Age(m) >= Age(n)
                        /\ \A w \in Workers, j \in DOMAIN queue' :
                             (running'[w] = ChestTask(m) /\ queue'[j] = ChestTask(n)) =>
                               Age(m) >= Age(n)
      BY <1>1 DEF Ordered, ChestTask
    <2> QED
      BY <1>5, <1>6 DEF Ordered
  <1> QED
    BY <1>4, <1>7

\* The worker takes the oldest task.
LEMMA StartOrder ==
  ASSUME RxInv, Ordered, Youngest, NEW w \in Workers, StartTask(w)
  PROVE  Ordered' /\ Youngest'
  <1>1. \A n : Age(n)' = Age(n)
    BY DEF StartTask, schedVars, gateVars, Age
  <1>2. \A n \in Slots : Chest(n)' = Chest(n)
    BY StartCounts DEF RxInv, StartTask
  <1>3. Late' = Late
    BY <1>2 DEF Late, StartTask, gateVars
  <1>4. Youngest'
    BY <1>1, <1>3 DEF Youngest
  <1>5. /\ queue \in Seq(Tasks) /\ queue # << >> /\ queue' = Tail(queue)
        /\ running' = [running EXCEPT ![w] = queue[1]]
        /\ running \in [Workers -> Tasks \union {NoTask}]
    BY DEF RxInv, Types, StartTask, Pool!Start
  <1>6. ASSUME NEW j \in DOMAIN queue'
        PROVE  j + 1 \in DOMAIN queue /\ 1 \in DOMAIN queue /\ 1 < j + 1
               /\ queue'[j] = queue[j + 1]
    BY <1>5, <1>6
  <1>7. Ordered'
    <2> SUFFICES ASSUME NEW m \in Slots, NEW n \in Slots
                 PROVE  /\ \A i, j \in DOMAIN queue' :
                             (i < j /\ queue'[i] = ChestTask(m) /\ queue'[j] = ChestTask(n)) =>
                               Age(m) >= Age(n)
                        /\ \A v \in Workers, j \in DOMAIN queue' :
                             (running'[v] = ChestTask(m) /\ queue'[j] = ChestTask(n)) =>
                               Age(m) >= Age(n)
      BY <1>1 DEF Ordered, ChestTask
    <2>1. ASSUME NEW i \in DOMAIN queue', NEW j \in DOMAIN queue', i < j,
                 queue'[i] = ChestTask(m), queue'[j] = ChestTask(n)
          PROVE  Age(m) >= Age(n)
      <3>1. i + 1 < j + 1
        BY <1>5, <2>1
      <3> QED
        BY <1>6, <2>1, <3>1 DEF Ordered
    <2>2. ASSUME NEW v \in Workers, NEW j \in DOMAIN queue',
                 running'[v] = ChestTask(m), queue'[j] = ChestTask(n)
          PROVE  Age(m) >= Age(n)
      <3>1. CASE v = w
        <4>1. queue[1] = ChestTask(m)
          BY <1>5, <2>2, <3>1
        <4> QED
          BY <1>6, <2>2, <4>1 DEF Ordered
      <3>2. CASE v # w
        <4>1. running[v] = ChestTask(m)
          BY <1>5, <2>2, <3>2
        <4> QED
          BY <1>6, <2>2, <4>1 DEF Ordered
      <3> QED
        BY <3>1, <3>2
    <2> QED
      BY <2>1, <2>2
  <1> QED
    BY <1>4, <1>7

\* The one worker finishes the frames in the order in which they were taken:
\* when the last chest_calsym task of a frame returns, no older one is waiting.
LEMMA FinishOrder ==
  ASSUME OneWorker, RxInv, Types', Ordered, Youngest, NEW w \in Workers, FinishTask(w)
  PROVE  Ordered' /\ Youngest'
  <1>1. \A n : Age(n)' = Age(n)
    BY DEF FinishTask, schedVars, Age
  <1>2. /\ queue' = queue /\ running' = [running EXCEPT ![w] = NoTask]
        /\ running \in [Workers -> Tasks \union {NoTask}]
    BY DEF RxInv, Types, FinishTask, Pool!Finish
  <1>3. ASSUME NEW v \in Workers, NEW n \in Slots
        PROVE  running'[v] # ChestTask(n)
    <2>1. NoTask # ChestTask(n)
      BY StageTasks, RxAssumption DEF RxAssumption
    <2> QED
      BY <1>2, <2>1 DEF OneWorker
  <1>4. Ordered'
    <2> SUFFICES ASSUME NEW m \in Slots, NEW n \in Slots
                 PROVE  /\ \A i, j \in DOMAIN queue :
                             (i < j /\ queue[i] = ChestTask(m) /\ queue[j] = ChestTask(n)) =>
                               Age(m) >= Age(n)
                        /\ \A v \in Workers, j \in DOMAIN queue :
                             (running'[v] = ChestTask(m) /\ queue[j] = ChestTask(n)) =>
                               Age(m) >= Age(n)
      BY <1>1, <1>2 DEF Ordered, ChestTask
    <2> QED
      BY <1>3 DEF Ordered
  <1>5. ASSUME NEW n \in Slots
        PROVE  /\ gate'[n] = gate[n]
               /\ Chest(n)' # 0 => Chest(n) # 0
               /\ Chest(n) # 0 /\ Chest(n)' = 0 => running[w] = ChestTask(n)
    <2>1. Chest(n)' = Chest(n) - Same(running[w], ChestTask(n)) /\ Chest(n) \in Nat
      BY FinishCounts, StageTasks, StageCounts DEF RxInv, FinishTask, Chest, ChestTask
    <2>2. Chest(n) = 0 => Chest(n)' = 0
      BY FinishMoves DEF RxInv
    <2> QED
      BY <2>1, <2>2 DEF FinishTask, Same
  <1>6. Late' \subseteq Late /\ \A n \in Late \ Late' : running[w] = ChestTask(n)
    BY <1>5 DEF Late
  <1>7. ASSUME NEW n \in Late', NEW o \in Late \ Late'
        PROVE  Age(n) < Age(o)
    <2>1. n \in Slots /\ o \in Slots /\ n \in Late /\ n # o
      BY <1>6 DEF Late
    <2>2. PICK j \in DOMAIN queue : queue[j] = ChestTask(n)
      <3>1. Chest(n)' # 0
        BY DEF Late
      <3>2. Load(queue, running', Workers, ChestTask(n)) # 0
        BY <1>2, <3>1, OutstandingIs DEF Chest, ChestTask
      <3>3. queue \in Seq(Tasks) /\ IsFiniteSet(Workers)
        BY RxAssumption DEF RxAssumption, RxInv, Types
      <3>4. \/ \E k \in DOMAIN queue : queue[k] = ChestTask(n)
            \/ \E v \in Workers : running'[v] = ChestTask(n)
        BY <3>2, <3>3, LoadSomewhere
      <3> QED
        BY <1>3, <2>1, <3>4
    <2>3. Age(o) >= Age(n)
      BY <1>6, <2>1, <2>2 DEF Ordered
    <2>4. Age(o) # Age(n)
      BY <2>1 DEF Youngest
    <2>5. Age(n) \in Int /\ Age(o) \in Int
      BY <2>1, AgeType, RxAssumption DEF RxAssumption, RxInv
    <2> QED
      BY <2>3, <2>4, <2>5
  <1>8. Youngest'
    <2>1. \A m, n \in Late' : Age(m) = Age(n) => m = n
      BY <1>6 DEF Youngest
    <2>2. ASSUME NEW n \in Late', NEW a \in 1 .. Age(n)
          PROVE  \E m \in Late' : Age(m) = a
      <3>1. PICK m \in Late : Age(m) = a
        BY <1>6 DEF Youngest
      <3>2. Age(n) \in Int
        BY <1>6, AgeType, RxAssumption DEF RxAssumption, RxInv, Late
      <3>3. m \in Late'
        BY <1>7, <3>1, <3>2
      <3> QED
        BY <3>1, <3>3
    <2> QED
      BY <1>1, <2>1, <2>2 DEF Youngest
  <1> QED
    BY <1>4, <1>8

\* A chest_calsym task joins the list behind the tasks of the older frames; with
\* the last one the frame is taken, and every other is one frame older.
LEMMA AddChestOrder ==
  ASSUME RxInv, lost = 0, Ordered, Youngest, AddChest
  PROVE  Ordered' /\ Youngest'
  <1>0. PICK s \in Slots : s = slot
    BY DEF RxInv, Types
  <1> DEFINE last == IF submitted + 1 = SBNum THEN 1 ELSE 0
             taken == IF submitted + 1 = SBNum THEN {s} ELSE {}
  <1>1. /\ tpc = "addChest" /\ Pool!Submit(ChestTask(s)) /\ s \in Slots
        /\ gate[s] = LayerNum /\ Types /\ frameOf' = frameOf
    BY <1>0, PhaseServed DEF RxInv, Types, AddChest, AddingChest, ChestTask
  <1>2. /\ frameOf[s] = index_rx_read /\ readyNum_rx > 0
        /\ startNum_rx <= PACK_CACHE /\ startNum_rx = Card + readyNum_rx + Receiving
    BY <1>0, <1>1, ReadyBound DEF RxInv, Counters
  <1>3. ASSUME NEW n \in Slots
        PROVE  /\ n # s => Chest(n)' = Chest(n) /\ gate'[n] = gate[n]
               /\ Chest(s)' # 0
               /\ gate'[s] = IF submitted + 1 = SBNum THEN 0 ELSE LayerNum
    <2>1. Chest(n)' = IF s = n THEN Chest(n) + 1 ELSE Chest(n)
      BY <1>1, SubmitStage DEF Stages, ChestTask
    <2>2. Chest(s)' = Chest(s) + 1 /\ Chest(s) \in Nat
      BY <1>1, SubmitStage, StageCounts DEF Stages, ChestTask
    <2>3. gate' = IF submitted + 1 = SBNum THEN [gate EXCEPT ![s] = 0] ELSE gate
      BY <1>0 DEF AddChest
    <2>4. n # s => Chest(n)' = Chest(n)
      BY <2>1
    <2>5. Chest(s)' # 0
      BY <2>2
    <2>6. gate \in [Slots -> {0, LayerNum}]
      BY <1>1 DEF Types
    <2>7. n # s => gate'[n] = gate[n]
      BY <2>3, <2>6
    <2>8. gate'[s] = IF submitted + 1 = SBNum THEN 0 ELSE LayerNum
      BY <1>1, <2>3, <2>6
    <2> QED
      BY <2>4, <2>5, <2>7, <2>8
  <1>4. Late' = Late \union taken
    BY <1>1, <1>3, RxAssumption DEF RxAssumption, Late
  <1>5. ASSUME NEW n \in Late \union {s}
        PROVE  Age(n)' = Age(n) + last /\ Age(n) \in Nat
    <2>1. n \in Slots /\ Age(n) \in Nat
      BY <1>1, AgeType, RxAssumption DEF RxAssumption, Late
    <2>2. CASE submitted + 1 # SBNum
      <3>1. Age(n)' = Age(n)
        BY <2>2 DEF AddChest, Age
      <3> QED
        BY <2>1, <2>2, <3>1
    <2>3. CASE submitted + 1 = SBNum
      <3> DEFINE r == index_rx_read
                 f == frameOf[n]
                 q == index_rx_read'
      <3>1. /\ r \in 0 .. PACK_CACHE - 1 /\ f \in 0 .. PACK_CACHE - 1
            /\ q = (IF r + 1 = PACK_CACHE THEN 0 ELSE r + 1)
            /\ frameOf'[n] = f /\ PACK_CACHE \in Nat
        BY <1>1, <2>1, <2>3, AdvanceIs, NumberTypes DEF AddChest, Types, Ring
      <3>2. gate'[n] = 0
        BY <1>3, <1>4, <2>1, <2>3 DEF Late
      <3>3. Age(n)' = IF f < q THEN q - f ELSE q - f + PACK_CACHE
        BY <3>1, <3>2 DEF Age
      <3>4. CASE n = s
        <4>1. f = r /\ Age(n) = 0
          BY <1>1, <1>2, <3>4, AgeType
        <4> HIDE DEF f, r, q
        <4> QED
          BY <2>3, <3>1, <3>3, <4>1
      <3>5. CASE n # s
        <4>1. n \in Late
          BY <3>5
        <4>2. Age(n) < PACK_CACHE
          BY <1>1, <1>2, <4>1, AgeBound, NumberTypes
        <4>3. Age(n) = IF f < r THEN r - f ELSE r - f + PACK_CACHE
          BY <4>1 DEF Late, Age
        <4> HIDE DEF f, r, q
        <4> QED
          BY <2>3, <3>1, <3>3, <4>2, <4>3
      <3> QED
        BY <3>4, <3>5
    <2> QED
      BY <2>2, <2>3
  <1>6. Age(s) = 0 /\ last \in {0, 1}
    BY <1>1, AgeType
  <1>7. Youngest'
    <2>1. ASSUME NEW m \in Late', NEW n \in Late', Age(m)' = Age(n)'
          PROVE  m = n
      <3>1. /\ m \in Late \union {s} /\ n \in Late \union {s}
            /\ Age(m) \in Nat /\ Age(n) \in Nat
        BY <1>4, <1>5
      <3>2. Age(m) = Age(n)
        BY <1>5, <1>6, <2>1, <3>1
      <3>3. s \notin Late /\ \A o \in Late : Age(o) # 0
        BY <1>1, AgeType, RxAssumption DEF RxAssumption, Late
      <3> QED
        BY <1>6, <3>1, <3>2, <3>3 DEF Youngest
    <2>2. ASSUME NEW n \in Late', NEW a \in 1 .. Age(n)'
          PROVE  \E m \in Late' : Age(m)' = a
      <3>1. n \in Late \union {s} /\ Age(n)' = Age(n) + last /\ Age(n) \in Nat
        BY <1>4, <1>5
      <3>2. CASE a - last \in 1 .. Age(n)
        <4>1. n \in Late
          BY <1>6, <3>1, <3>2
        <4>2. PICK m \in Late : Age(m) = a - last
          BY <3>2, <4>1 DEF Youngest
        <4>3. Age(m)' = a /\ m \in Late'
          BY <1>4, <1>5, <1>6, <4>2
        <4> QED
          BY <4>3
      <3>3. CASE a - last \notin 1 .. Age(n)
        <4>1. a = 1 /\ last = 1
          BY <1>6, <2>2, <3>1, <3>3
        <4>2. s \in Late' /\ Age(s)' = 1
          BY <1>4, <1>5, <1>6, <4>1
        <4> QED
          BY <4>1, <4>2
      <3> QED
        BY <3>2, <3>3
    <2> QED
      BY <2>1, <2>2 DEF Youngest
  <1>8. Ordered'
    <2>1. queue \in Seq(Tasks) /\ queue' = Append(queue, ChestTask(s)) /\ running' = running
      BY <1>1 DEF Types, Pool!Submit
    <2>2. ASSUME NEW n \in Slots, NEW j \in DOMAIN queue', queue'[j] = ChestTask(n)
          PROVE  (j \in DOMAIN queue /\ queue[j] = ChestTask(n)) \/ (n = s /\ j = Len(queue) + 1)
      BY <2>1, <2>2 DEF ChestTask
    <2>3. ASSUME NEW n \in Slots,
                 \/ \E k \in DOMAIN queue : queue[k] = ChestTask(n)
                 \/ \E w \in Workers : running[w] = ChestTask(n)
          PROVE  Age(n)' = Age(n) + last /\ Age(n) \in Nat
      BY <1>0, <1>5, <2>3, ChestPlaces
    <2>4. Age(s)' = last
      BY <1>5, <1>6
    <2> SUFFICES ASSUME NEW m \in Slots, NEW n \in Slots
                 PROVE  /\ \A i, j \in DOMAIN queue' :
                             (i < j /\ queue'[i] = ChestTask(m) /\ queue'[j] = ChestTask(n)) =>
                               Age(m)' >= Age(n)'
                        /\ \A w \in Workers, j \in DOMAIN queue' :
                             (running'[w] = ChestTask(m) /\ queue'[j] = ChestTask(n)) =>
                               Age(m)' >= Age(n)'
      BY DEF Ordered, ChestTask
    <2>5. ASSUME NEW i \in DOMAIN queue', NEW j \in DOMAIN queue', i < j,
                 queue'[i] = ChestTask(m), queue'[j] = ChestTask(n)
          PROVE  Age(m)' >= Age(n)'
      <3>1. i \in DOMAIN queue /\ queue[i] = ChestTask(m)
        BY <2>1, <2>2, <2>5
      <3>2. Age(m)' = Age(m) + last /\ Age(m) \in Nat
        BY <2>3, <3>1
      <3>3. CASE j \in DOMAIN queue /\ queue[j] = ChestTask(n)
        <4>1. Age(m) >= Age(n)
          BY <2>5, <3>1, <3>3 DEF Ordered
        <4>2. Age(n)' = Age(n) + last /\ Age(n) \in Nat
          BY <2>3, <3>3
        <4> QED
          BY <1>6, <3>2, <4>1, <4>2
      <3>4. CASE n = s
        BY <1>6, <2>4, <3>2, <3>4
      <3> QED
        BY <2>2, <2>5, <3>3, <3>4
    <2>6. ASSUME NEW w \in Workers, NEW j \in DOMAIN queue',
                 running'[w] = ChestTask(m), queue'[j] = ChestTask(n)
          PROVE  Age(m)' >= Age(n)'
      <3>1. running[w] = ChestTask(m)
        BY <2>1, <2>6
      <3>2. Age(m)' = Age(m) + last /\ Age(m) \in Nat
        BY <2>3, <3>1
      <3>3. CASE j \in DOMAIN queue /\ queue[j] = ChestTask(n)
        <4>1. Age(m) >= Age(n)
          BY <3>1, <3>3 DEF Ordered
        <4>2. Age(n)' = Age(n) + last /\ Age(n) \in Nat
          BY <2>3, <3>3
        <4> QED
          BY <1>6, <3>2, <4>1, <4>2
      <3>4. CASE n = s
        BY <1>6, <2>4, <3>2, <3>4
      <3> QED
        BY <2>2, <2>6, <3>3, <3>4
    <2> QED
      BY <2>5, <2>6
  <1> QED
    BY <1>7, <1>8

\* Every step of a receiver with one worker keeps the order of the frames.
LEMMA FrameOrderStep ==
  ASSUME OneWorker, RxInv, RxInv', FrameOrder, [Next]_vars
  PROVE  FrameOrder'
  <1> SUFFICES ASSUME lost' = 0 PROVE Ordered' /\ Youngest'
    BY DEF FrameOrder
  <1>1. lost = 0
    <2>1. lost' = lost \/ lost' = lost + 1
      BY DEF Next, Consumer, TestRoom, RoomPosted, PollNothing, Depackage, DepackageFirst,
             DepackageMiddle, DepackageLast, PostFrame, ExitConsumer, LosePacket, Scheduler,
             FirstFrame, TakeFrame, SkipFrame, AddChest, OpenDerm, SkipDerm, AddDerm,
             OpenCheck, SkipCheck, AddCheck, FinishFrame, SkipFinish, PostRoom, ExitScheduler,
             Worker, StartTask, FinishTask, SignalHandler, vars, consumerVars
    <2> QED
      BY <2>1, NumberTypes DEF RxInv
  <1>2. Ordered /\ Youngest
    BY <1>1 DEF FrameOrder
  <1>3. CASE AddChest
    BY <1>1, <1>2, <1>3, AddChestOrder
  <1>4. CASE AddDerm \/ AddCheck
    BY <1>2, <1>4, SubmitLater DEF AddDerm, AddCheck
  <1>5. ASSUME NEW w \in Workers, Worker(w) PROVE Ordered' /\ Youngest'
    BY <1>2, <1>5, StartOrder, FinishOrder DEF RxInv, Worker
  <1>6. CASE TakeFrame
    <2>1. /\ gate[slot] = LayerNum /\ gate' = gate /\ index_rx_read' = index_rx_read
          /\ UNCHANGED poolVars /\ frameOf' = [frameOf EXCEPT ![slot] = index_rx_read]
      BY <1>6 DEF TakeFrame, gateVars
    <2>2. \A n \in Slots : Age(n)' = Age(n)
      BY <2>1, RxAssumption DEF RxAssumption, RxInv, Types, Age
    <2> QED
      BY <1>2, <2>1, <2>2, OrderKept
  <1>7. CASE FinishFrame
    <2>1. /\ gate' = [gate EXCEPT ![slot] = LayerNum]
          /\ UNCHANGED <<frameOf, index_rx_read, poolVars>>
      BY <1>7 DEF FinishFrame
    <2>2. Chest(slot) = 0
      BY <1>7, Finished DEF RxInv, Checking, NoChest
    <2>3. \A n \in Slots : Chest(n) # 0 => gate'[n] = gate[n] /\ Age(n)' = Age(n)
      BY <2>1, <2>2 DEF RxInv, Types, Age
    <2> QED
      BY <1>2, <2>1, <2>3, OrderKept
  <1>8. CASE \/ FirstFrame \/ SkipFrame \/ OpenDerm \/ SkipDerm \/ OpenCheck \/ SkipCheck
             \/ SkipFinish \/ PostRoom \/ ExitScheduler
             \/ Consumer \/ LosePacket \/ SignalHandler \/ UNCHANGED vars
    <2>1. UNCHANGED <<gate, frameOf, index_rx_read, poolVars>>
      BY <1>8 DEF FirstFrame, SkipFrame, OpenDerm, SkipDerm, OpenCheck, SkipCheck, SkipFinish,
                  PostRoom, ExitScheduler, Consumer, TestRoom, RoomPosted, PollNothing,
                  Depackage, DepackageFirst, DepackageMiddle, DepackageLast, PostFrame,
                  ExitConsumer, LosePacket, SignalHandler, vars, schedVars, gateVars
    <2>2. \A n \in Slots : gate'[n] = gate[n] /\ Age(n)' = Age(n)
      BY <2>1 DEF Age
    <2> QED
      BY <1>2, <2>1, <2>2, OrderKept
  <1> QED
    BY <1>3, <1>4, <1>5, <1>6, <1>7, <1>8 DEF Next, Scheduler

\* No frame is being estimated when the program starts.
LEMMA InitOrder == Init => FrameOrder
  <1> SUFFICES ASSUME Init PROVE Ordered /\ Youngest
    BY DEF FrameOrder
  <1>1. Late = {}
    BY RxAssumption DEF RxAssumption, Init, Late
  <1>2. queue = << >>
    BY DEF Init, Pool!PoolInit
  <1> QED
    BY <1>1, <1>2 DEF Ordered, Youngest

\* With the one worker of pool 3 (threadNum_rx is 1 in main.c), and
\* while nothing is lost, no sample is overwritten before the channel of its
\* frame is estimated: a frame that has still to be estimated is one of the
\* youngest ones, so the ring cannot have come round to it.
THEOREM SamplesSafe ==
  ASSUME OneWorker
  PROVE  Spec => []SamplesInPlace
  <1>1. RxInv /\ FrameOrder => SamplesInPlace
    <2> SUFFICES ASSUME RxInv, FrameOrder, lost = 0, startNum_rx < PACK_CACHE,
                        position \in 1 .. SamplePackets,
                        NEW n \in Slots, frameOf[n] = index_rx_write
                 PROVE  Chest(n) = 0 /\ ~(slot = n /\ tpc = "addChest")
      BY DEF SamplesInPlace, MayWrite, HasRoom, Chest, ChestTask
    <2>1. /\ Types /\ Counters /\ Youngest /\ Receiving = 1
      BY DEF RxInv, FrameOrder, Receiving
    <2>2. Card + readyNum_rx + 1 < PACK_CACHE /\ readyNum_rx \in Nat
      BY <2>1, ReadyBound, NumberTypes
    <2>3. index_rx_write \in {index_rx_read + readyNum_rx,
                              index_rx_read + readyNum_rx - PACK_CACHE}
      BY <2>1 DEF Counters
    <2>4. ~(slot = n /\ tpc = "addChest")
      <3> SUFFICES ASSUME frameOf[n] = index_rx_read, readyNum_rx > 0 PROVE FALSE
        BY <2>1 DEF Counters
      <3> QED
        BY <2>1, <2>2, <2>3, NumberTypes
    <2>5. Chest(n) = 0
      <3> SUFFICES ASSUME Chest(n) # 0 PROVE FALSE
        OBVIOUS
      <3>1. Estimating(n)
        BY <2>4 DEF RxInv, Phases, Phase, Idle, AddingChest, AddingDerm, Decoding,
                    AddingCheck, Checking, NoChest
      <3>2. n \in Late
        BY <3>1 DEF Estimating, Late
      <3>3. Age(n) \in 1 .. Card
        BY <2>1, <3>2, AgeBound
      <3>4. \/ index_rx_write = index_rx_read - Age(n)
            \/ index_rx_write = index_rx_read - Age(n) + PACK_CACHE
        BY <2>1, <3>2, NumberTypes DEF Late, Age
      <3> QED
        BY <2>1, <2>2, <2>3, <3>3, <3>4, NumberTypes
    <2> QED
      BY <2>4, <2>5
  <1>2. RxInv /\ RxInv' /\ FrameOrder /\ [Next]_vars => FrameOrder'
    BY FrameOrderStep
  <1> QED
    BY <1>1, <1>2, InitOrder, Invariance, PTL DEF Spec

=============================================================================
