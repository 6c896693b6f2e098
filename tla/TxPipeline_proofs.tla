-------------------------- MODULE TxPipeline_proofs --------------------------
(***************************************************************************)
(* The sender's pipeline, for any number of slots, layers, code blocks,    *)
(* frames and workers: the counters are exact, the stages of a slot do not *)
(* overlap, the scheduler's unlocked resets lose no increment, the ring is *)
(* not overwritten, no wakeup of the producer is missed, and the two       *)
(* counters implement FrameBuffer.                                         *)
(*                                                                         *)
(* The invariant says of each slot in which of five phases it is, and in   *)
(* each phase where its tasks are: finished (counted by a gate), listed or *)
(* running.                                                                *)
(***************************************************************************)
EXTENDS TxPipeline, TaskCounting

CodeBlocks == LayerNum * CbMax

Segm(n) == Outstanding(<<"crc_cbsegm", n>>)
Mod(n)  == Outstanding(<<"crc_mod", n>>)

-----------------------------------------------------------------------------
(* The inductive invariant *)

\* The scheduler is not in the middle of a stage of slot n.
Polled(n) == ~(slot = n /\ tpc \in {"addSegm", "addMod", "packing"})

\* Free: no subframe, nothing counted, nothing outstanding.
Idle(n) ==
  /\ Polled(n) /\ gate[n] = 1
  /\ segmented[n] = 0 /\ modulated[n] = 0
  /\ Segm(n) = 0 /\ Mod(n) = 0

\* The scheduler is adding the slot's crc_cbsegm tasks.
AddingSegm(n) ==
  /\ slot = n /\ tpc = "addSegm" /\ gate[n] = 1
  /\ segmented[n] + Segm(n) = submitted /\ submitted < LayerNum
  /\ modulated[n] = 0 /\ Mod(n) = 0

\* Every crc_cbsegm task is finished, listed or running.
Segmenting(n) ==
  /\ Polled(n) /\ gate[n] = 0
  /\ segmented[n] + Segm(n) = LayerNum
  /\ modulated[n] = 0 /\ Mod(n) = 0

\* The scheduler is adding the slot's crc_mod tasks.
AddingMod(n) ==
  /\ slot = n /\ tpc = "addMod" /\ gate[n] = 0
  /\ segmented[n] = LayerNum /\ Segm(n) = 0
  /\ modulated[n] + Mod(n) = submitted /\ submitted < cbtaskNum[n]

\* Every crc_mod task is finished, listed or running; all are finished when the
\* frame is packed.
Modulating(n) ==
  /\ Polled(n) \/ (slot = n /\ tpc = "packing" /\ Mod(n) = 0)
  /\ gate[n] = 0
  /\ segmented[n] = 0 /\ Segm(n) = 0
  /\ modulated[n] + Mod(n) = cbtaskNum[n] /\ cbtaskNum[n] # 0

Phase(n) == Idle(n) \/ AddingSegm(n) \/ Segmenting(n) \/ AddingMod(n) \/ Modulating(n)

Phases == \A n \in Slots : Phase(n)

\* The types, without the bounds that follow from the other conjuncts.
Types ==
  /\ startNum_tx \in Int /\ readyNum_tx \in Int
  /\ cache_tx \in 0 .. SEM_VALUE_MAX
  /\ gate \in [Slots -> {0, 1}]
  /\ segmented \in [Slots -> Nat]
  /\ modulated \in [Slots -> Nat]
  /\ cbtaskNum \in [Slots -> 0 .. CodeBlocks]
  /\ index_tx_write \in 0 .. PACK_CACHE - 1
  /\ index_tx_read \in 0 .. PACK_CACHE - 1
  /\ queue \in Seq(Tasks)
  /\ running \in [Workers -> Tasks \union {NoTask}]
  /\ tpc \in SchedulerStates
  /\ slot \in Slots
  /\ submitted \in 0 .. CodeBlocks
  /\ ppc \in ProducerStates
  /\ packet \in 0 .. FramePackets - 1
  /\ force_quit \in BOOLEAN

\* The frames between the read and the write index: the one just announced is
\* counted as ready before the write index moves on.
Between == readyNum_tx - (IF tpc = "post" THEN 1 ELSE 0)

\* The counters are exact, and the indices are as far apart as they say.
Counters ==
  /\ FrameAccounting
  /\ readyNum_tx >= 0
  /\ startNum_tx <= PACK_CACHE
  /\ index_tx_write \in {index_tx_read + Between,
                         index_tx_read + Between - PACK_CACHE,
                         index_tx_read + Between + PACK_CACHE}

TxInv == Types /\ Phases /\ Counters

-----------------------------------------------------------------------------
(* Outstanding tasks *)

\* A subframe has at least as many code blocks as layers.
LEMMA CodeBlocksBound == CodeBlocks \in Nat /\ LayerNum <= CodeBlocks
  BY TxAssumption DEF TxAssumption, CodeBlocks

\* Outstanding tasks, in the terms of TaskCounting.
LEMMA OutstandingIs ==
  ASSUME NEW t
  PROVE  /\ Outstanding(t) = Load(queue, running, Workers, t)
         /\ Outstanding(t)' = Load(queue', running', Workers, t)
  BY DEF Outstanding, Listed, InExecution, Load, CountIn, CountOn, Places, Runners

\* They can be counted.
LEMMA OutstandingType ==
  ASSUME queue \in Seq(Tasks), NEW t
  PROVE  Outstanding(t) \in Nat
  BY OutstandingIs, LoadType, TxAssumption DEF TxAssumption

\* A step outside the pool changes none of them.
LEMMA QuietPool ==
  ASSUME UNCHANGED poolVars, NEW t
  PROVE  Outstanding(t)' = Outstanding(t)
  BY DEF poolVars, Outstanding, Listed, InExecution

\* pool_add_task: one more outstanding task.
LEMMA SubmitCounts ==
  ASSUME queue \in Seq(Tasks), NEW u \in Tasks, Pool!Submit(u), NEW t
  PROVE  Outstanding(t)' = Outstanding(t) + Same(u, t)
  <1>1. queue' = Append(queue, u) /\ running' = running /\ IsFiniteSet(Workers)
    BY TxAssumption DEF TxAssumption, Pool!Submit
  <1>2. Load(Append(queue, u), running, Workers, t)
          = Load(queue, running, Workers, t) + Same(u, t)
    BY <1>1, LoadAppend
  <1> QED
    BY <1>1, <1>2, OutstandingIs

\* A worker that takes a task off the list runs it.
LEMMA StartCounts ==
  ASSUME queue \in Seq(Tasks), running \in [Workers -> Tasks \union {NoTask}],
         NEW w \in Workers, Pool!Start(w), NEW t \in Tasks
  PROVE  Outstanding(t)' = Outstanding(t)
  <1>1. /\ queue # << >> /\ queue' = Tail(queue) /\ running'[w] = Head(queue)
        /\ \A x \in Workers : x # w => running'[x] = running[x]
        /\ running[w] # t /\ IsFiniteSet(Workers)
    BY TxAssumption DEF TxAssumption, Pool!Start
  <1>2. Load(Tail(queue), running', Workers, t) = Load(queue, running, Workers, t)
    BY <1>1, LoadStart
  <1> QED
    BY <1>1, <1>2, OutstandingIs

\* A task that returns is no longer outstanding.
LEMMA FinishCounts ==
  ASSUME queue \in Seq(Tasks), running \in [Workers -> Tasks \union {NoTask}],
         NEW w \in Workers, Pool!Finish(w), NEW t \in Tasks
  PROVE  Outstanding(t)' = Outstanding(t) - Same(running[w], t)
  <1>1. /\ queue' = queue /\ running'[w] # t /\ IsFiniteSet(Workers)
        /\ \A x \in Workers : x # w => running'[x] = running[x]
    BY TxAssumption DEF TxAssumption, Pool!Finish
  <1>2. Load(queue, running', Workers, t)
          = Load(queue, running, Workers, t) - Same(running[w], t)
    BY <1>1, LoadFinish
  <1> QED
    BY <1>1, <1>2, OutstandingIs

-----------------------------------------------------------------------------
(* Phases *)

\* The tasks of the two stages of a slot.
LEMMA StageTasks == \A n \in Slots : <<"crc_cbsegm", n>> \in Tasks /\ <<"crc_mod", n>> \in Tasks
  BY DEF Tasks, Stages

\* Where the scheduler is tells the phase of the slot it serves.
LEMMA PhaseServed ==
  ASSUME Types, Phases
  PROVE  /\ tpc = "addSegm" => AddingSegm(slot)
         /\ tpc = "addMod"  => AddingMod(slot)
         /\ tpc = "packing" => Modulating(slot) /\ Mod(slot) = 0
         /\ Segm(slot) \in Nat /\ Mod(slot) \in Nat
  <1>1. Phase(slot) /\ slot \in Slots /\ Segm(slot) \in Nat /\ Mod(slot) \in Nat
    BY OutstandingType DEF Types, Phases, Segm, Mod
  <1> QED
    BY <1>1 DEF Phase, Polled, Idle, AddingSegm, Segmenting, AddingMod, Modulating

\* What a step does not touch in slot n, and between two stages of it.
SameCounts(n) ==
  /\ gate'[n] = gate[n] /\ cbtaskNum'[n] = cbtaskNum[n]
  /\ segmented'[n] = segmented[n] /\ modulated'[n] = modulated[n]
  /\ Segm(n)' = Segm(n) /\ Mod(n)' = Mod(n)

\* Then the slot stays in its phase.
LEMMA PhaseKept ==
  ASSUME NEW n \in Slots, Phase(n), SameCounts(n),
         (Polled(n) /\ Polled(n)') \/ UNCHANGED schedVars
  PROVE  Phase(n)'
  <1>1. CASE Polled(n) /\ Polled(n)'
    BY <1>1 DEF SameCounts, Phase, Polled, Idle, AddingSegm, Segmenting, AddingMod, Modulating
  <1>2. CASE UNCHANGED schedVars
    BY <1>2 DEF SameCounts, Phase, Polled, Idle, AddingSegm, Segmenting, AddingMod,
                Modulating, schedVars
  <1> QED
    BY <1>1, <1>2

\* A step that leaves the gates and the pool alone.
LEMMA CountsKept ==
  ASSUME UNCHANGED <<gateVars, poolVars>>, NEW n
  PROVE  SameCounts(n)
  BY QuietPool DEF SameCounts, gateVars, Segm, Mod

\* The scheduler between two stages: no slot is in the middle of one.
LEMMA BetweenStages ==
  ASSUME Phases, UNCHANGED <<gateVars, poolVars>>,
         tpc \notin {"addSegm", "addMod", "packing"},
         tpc' \notin {"addSegm", "addMod", "packing"}
  PROVE  Phases'
  <1> SUFFICES ASSUME NEW n \in Slots PROVE Phase(n)'
    BY DEF Phases
  <1> QED
    BY CountsKept, PhaseKept DEF Phases, Polled

-----------------------------------------------------------------------------
(* Each step keeps the phases *)

\* A task added for one stage of one slot is none of any other.
LEMMA SubmitSegm ==
  ASSUME Types, NEW m \in Slots, Pool!Submit(<<"crc_cbsegm", m>>), NEW n \in Slots
  PROVE  /\ Mod(n)' = Mod(n)
         /\ n # m => Segm(n)' = Segm(n)
         /\ n = m => Segm(n)' = Segm(n) + 1
  <1>1. Same(<<"crc_cbsegm", m>>, <<"crc_mod", n>>) = 0
    BY DEF Same
  <1>2. Same(<<"crc_cbsegm", m>>, <<"crc_cbsegm", n>>) = IF m = n THEN 1 ELSE 0
    BY DEF Same
  <1>3. Mod(n)' = Mod(n) + 0
    BY <1>1, SubmitCounts, StageTasks DEF Types, Mod
  <1>4. Segm(n)' = Segm(n) + (IF m = n THEN 1 ELSE 0)
    BY <1>2, SubmitCounts, StageTasks DEF Types, Segm
  <1>5. Segm(n) \in Nat /\ Mod(n) \in Nat
    BY OutstandingType DEF Types, Segm, Mod
  <1> QED
    BY <1>3, <1>4, <1>5

\* The same for a crc_mod task.
LEMMA SubmitMod ==
  ASSUME Types, NEW m \in Slots, Pool!Submit(<<"crc_mod", m>>), NEW n \in Slots
  PROVE  /\ Segm(n)' = Segm(n)
         /\ n # m => Mod(n)' = Mod(n)
         /\ n = m => Mod(n)' = Mod(n) + 1
  <1>1. Same(<<"crc_mod", m>>, <<"crc_cbsegm", n>>) = 0
    BY DEF Same
  <1>2. Same(<<"crc_mod", m>>, <<"crc_mod", n>>) = IF m = n THEN 1 ELSE 0
    BY DEF Same
  <1>3. Segm(n)' = Segm(n) + 0
    BY <1>1, SubmitCounts, StageTasks DEF Types, Segm
  <1>4. Mod(n)' = Mod(n) + (IF m = n THEN 1 ELSE 0)
    BY <1>2, SubmitCounts, StageTasks DEF Types, Mod
  <1>5. Segm(n) \in Nat /\ Mod(n) \in Nat
    BY OutstandingType DEF Types, Segm, Mod
  <1> QED
    BY <1>3, <1>4, <1>5

\* A free slot takes a subframe.
LEMMA GeneratePhases == Types /\ Phases /\ Generate => Phases'
  <1> SUFFICES ASSUME Types, Phases, Generate, NEW n \in Slots PROVE Phase(n)'
    BY DEF Phases
  <1>1. SameCounts(n)
    BY CountsKept DEF Generate
  <1>2. CASE n = slot
    <2>1. Idle(n)
      BY <1>2 DEF Phases, Phase, Generate, Idle, AddingSegm, Segmenting, AddingMod, Modulating
    <2>2. AddingSegm(n)'
      BY <1>1, <1>2, <2>1, TxAssumption
         DEF TxAssumption, Types, Generate, Idle, AddingSegm, SameCounts
    <2> QED
      BY <2>2 DEF Phase
  <1>3. CASE n # slot
    BY <1>1, <1>3, PhaseKept DEF Phases, Polled, Generate
  <1> QED
    BY <1>2, <1>3

\* The last crc_cbsegm task of a slot closes its gate.
LEMMA AddSegmPhases == Types /\ Phases /\ AddSegm => Phases'
  <1> SUFFICES ASSUME Types, Phases, AddSegm, NEW n \in Slots PROVE Phase(n)'
    BY DEF Phases
  <1>1. slot \in Slots /\ Pool!Submit(<<"crc_cbsegm", slot>>)
    BY DEF Types, AddSegm
  <1>2. CASE n = slot
    <2>1. AddingSegm(n) /\ Segm(n) \in Nat
      BY <1>2, PhaseServed DEF AddSegm
    <2>2. Segm(n)' = Segm(n) + 1 /\ Mod(n)' = Mod(n)
      BY <1>1, <1>2, SubmitSegm
    <2>3. CASE submitted + 1 = LayerNum
      <3>1. /\ Polled(n)' /\ gate'[n] = 0
            /\ segmented' = segmented /\ modulated' = modulated
        BY <1>2, <2>3 DEF Types, AddSegm, Polled
      <3>2. segmented[n] \in Nat /\ segmented[n] + Segm(n) + 1 = LayerNum
        BY <1>2, <2>1, <2>3 DEF Types, AddingSegm
      <3>3. Segmenting(n)'
        BY <2>1, <2>2, <3>1, <3>2 DEF AddingSegm, Segmenting
      <3> QED
        BY <3>3 DEF Phase
    <2>4. CASE submitted + 1 # LayerNum
      <3>1. AddingSegm(n)'
        BY <1>2, <2>1, <2>2, <2>4, TxAssumption
           DEF TxAssumption, Types, AddSegm, AddingSegm
      <3> QED
        BY <3>1 DEF Phase
    <2> QED
      BY <2>3, <2>4
  <1>3. CASE n # slot
    <2>1. SameCounts(n)
      BY <1>1, <1>3, SubmitSegm DEF Types, AddSegm, SameCounts
    <2> QED
      BY <1>3, <2>1, PhaseKept DEF Phases, Polled, AddSegm
  <1> QED
    BY <1>2, <1>3

\* Stage 2 opens only on a slot whose crc_cbsegm tasks are all finished.
LEMMA ModulatePhases == Types /\ Phases /\ Modulate => Phases'
  <1> SUFFICES ASSUME Types, Phases, Modulate, NEW n \in Slots PROVE Phase(n)'
    BY DEF Phases
  <1>1. Segm(n)' = Segm(n) /\ Mod(n)' = Mod(n)
    BY QuietPool DEF Modulate, Segm, Mod
  <1>2. CASE n = slot
    <2>1. Segmenting(n) /\ Segm(n) \in Nat /\ Mod(n) \in Nat
      BY <1>2, PhaseServed, TxAssumption
         DEF TxAssumption, Phases, Phase, Modulate, Idle, AddingSegm, Segmenting, AddingMod,
             Modulating
    <2>2. PICK c \in LayerNum .. LayerNum * CbMax : cbtaskNum' = [cbtaskNum EXCEPT ![slot] = c]
      BY DEF Modulate
    <2>3. cbtaskNum'[n] = c /\ 0 < c
      BY <1>2, <2>2, TxAssumption DEF TxAssumption, Types
    <2>4. AddingMod(n)'
      BY <1>1, <1>2, <2>1, <2>3, TxAssumption
         DEF TxAssumption, Types, Modulate, Segmenting, AddingMod
    <2> QED
      BY <2>4 DEF Phase
  <1>3. CASE n # slot
    <2>1. SameCounts(n)
      BY <1>1, <1>3 DEF Types, Modulate, SameCounts
    <2> QED
      BY <1>3, <2>1, PhaseKept DEF Phases, Polled, Modulate
  <1> QED
    BY <1>2, <1>3

\* The last crc_mod task of a slot resets the count of stage 1.
LEMMA AddModPhases == Types /\ Phases /\ AddMod => Phases'
  <1> SUFFICES ASSUME Types, Phases, AddMod, NEW n \in Slots PROVE Phase(n)'
    BY DEF Phases
  <1>1. slot \in Slots /\ Pool!Submit(<<"crc_mod", slot>>)
    BY DEF Types, AddMod
  <1>2. CASE n = slot
    <2>1. AddingMod(n) /\ Mod(n) \in Nat
      BY <1>2, PhaseServed DEF AddMod
    <2>2. Mod(n)' = Mod(n) + 1 /\ Segm(n)' = Segm(n)
      BY <1>1, <1>2, SubmitMod
    <2>3. CASE submitted + 1 = cbtaskNum[slot]
      <3>1. Modulating(n)'
        BY <1>2, <2>1, <2>2, <2>3, CodeBlocksBound
           DEF Types, AddMod, AddingMod, Modulating, Polled
      <3> QED
        BY <3>1 DEF Phase
    <2>4. CASE submitted + 1 # cbtaskNum[slot]
      <3>1. AddingMod(n)'
        BY <1>2, <2>1, <2>2, <2>4, CodeBlocksBound DEF Types, AddMod, AddingMod
      <3> QED
        BY <3>1 DEF Phase
    <2> QED
      BY <2>3, <2>4
  <1>3. CASE n # slot
    <2>1. SameCounts(n)
      BY <1>1, <1>3, SubmitMod DEF Types, AddMod, SameCounts
    <2> QED
      BY <1>3, <2>1, PhaseKept DEF Phases, Polled, AddMod
  <1> QED
    BY <1>2, <1>3

\* Stage 3 opens only on a slot whose crc_mod tasks are all finished.
LEMMA BeginPackPhases == Types /\ Phases /\ BeginPack => Phases'
  <1> SUFFICES ASSUME Types, Phases, BeginPack, NEW n \in Slots PROVE Phase(n)'
    BY DEF Phases
  <1>1. SameCounts(n)
    BY CountsKept DEF BeginPack
  <1>2. CASE n = slot
    <2>1. Modulating(n) /\ Mod(n) \in Nat
      BY <1>2, PhaseServed
         DEF Types, Phases, Phase, BeginPack, PackReady, Idle, AddingSegm, Segmenting,
             AddingMod, Modulating
    <2>2. Mod(n) = 0
      BY <1>2, <2>1 DEF Types, BeginPack, PackReady, Modulating
    <2>3. Modulating(n)'
      BY <1>1, <1>2, <2>1, <2>2 DEF BeginPack, SameCounts, Modulating
    <2> QED
      BY <2>3 DEF Phase
  <1>3. CASE n # slot
    BY <1>1, <1>3, PhaseKept DEF Phases, Polled, BeginPack
  <1> QED
    BY <1>2, <1>3

\* A packed slot is free again.
LEMMA EndPackPhases == Types /\ Phases /\ EndPack => Phases'
  <1> SUFFICES ASSUME Types, Phases, EndPack, NEW n \in Slots PROVE Phase(n)'
    BY DEF Phases
  <1>1. Segm(n)' = Segm(n) /\ Mod(n)' = Mod(n)
    BY QuietPool DEF EndPack, Segm, Mod
  <1>2. CASE n = slot
    <2>1. Modulating(n) /\ Mod(n) = 0
      BY <1>2, PhaseServed DEF EndPack
    <2>2. Idle(n)'
      BY <1>1, <1>2, <2>1 DEF Types, EndPack, Modulating, Idle, Polled
    <2> QED
      BY <2>2 DEF Phase
  <1>3. CASE n # slot
    <2>1. SameCounts(n)
      BY <1>1, <1>3 DEF Types, EndPack, SameCounts
    <2> QED
      BY <1>3, <2>1, PhaseKept DEF Phases, Polled, EndPack
  <1> QED
    BY <1>2, <1>3

\* Taking a task off the list changes no phase.
LEMMA StartTaskPhases ==
  ASSUME Types, Phases, NEW w \in Workers, StartTask(w)
  PROVE  Phases'
  <1> SUFFICES ASSUME NEW n \in Slots PROVE Phase(n)'
    BY DEF Phases
  <1>1. Segm(n)' = Segm(n) /\ Mod(n)' = Mod(n)
    BY StartCounts, StageTasks DEF Types, StartTask, Segm, Mod
  <1>2. SameCounts(n) /\ UNCHANGED schedVars
    BY <1>1 DEF StartTask, SameCounts, gateVars
  <1> QED
    BY <1>2, PhaseKept DEF Phases

\* A finished task moves from outstanding to counted.
LEMMA FinishMoves ==
  ASSUME Types, Types', NEW w \in Workers, FinishTask(w), NEW n \in Slots
  PROVE  /\ segmented'[n] + Segm(n)' = segmented[n] + Segm(n)
         /\ modulated'[n] + Mod(n)' = modulated[n] + Mod(n)
         /\ Segm(n) = 0 => Segm(n)' = 0 /\ segmented'[n] = segmented[n]
         /\ Mod(n) = 0 => Mod(n)' = 0 /\ modulated'[n] = modulated[n]
  <1> DEFINE t == running[w]
  <1>1. t \in Tasks /\ Pool!Finish(w)
    BY DEF Types, FinishTask, Pool!Finish
  <1>2. t[1] \in Stages /\ t[2] \in Slots /\ t = <<t[1], t[2]>>
    BY <1>1 DEF Tasks
  <1>3. /\ Segm(n)' = Segm(n) - Same(t, <<"crc_cbsegm", n>>)
        /\ Mod(n)' = Mod(n) - Same(t, <<"crc_mod", n>>)
    BY <1>1, FinishCounts, StageTasks DEF Types, Segm, Mod
  <1>4. Segm(n) \in Nat /\ Mod(n) \in Nat /\ Segm(n)' \in Nat /\ Mod(n)' \in Nat
    <2>1. \A u : Outstanding(u) \in Nat
      BY OutstandingType DEF Types
    <2>2. \A u : Outstanding(u)' \in Nat
      <3>1. queue' \in Seq(Tasks) /\ IsFiniteSet(Workers)
        BY TxAssumption DEF TxAssumption, Types
      <3> QED
        BY <3>1, OutstandingIs, LoadType
    <2> QED
      BY <2>1, <2>2 DEF Segm, Mod
  <1> DEFINE k == t[1]
             m == t[2]
  <1>5. /\ Same(t, <<"crc_cbsegm", n>>) = IF k = "crc_cbsegm" /\ m = n THEN 1 ELSE 0
        /\ Same(t, <<"crc_mod", n>>) = IF k = "crc_mod" /\ m = n THEN 1 ELSE 0
    BY <1>2 DEF Same
  <1>6. \/ /\ k = "crc_cbsegm" /\ modulated' = modulated
           /\ segmented' = [segmented EXCEPT ![m] = @ + 1]
        \/ /\ k = "crc_mod" /\ segmented' = segmented
           /\ modulated' = [modulated EXCEPT ![m] = @ + 1]
    BY DEF FinishTask
  <1>7. segmented \in [Slots -> Nat] /\ modulated \in [Slots -> Nat]
    BY DEF Types
  <1> HIDE DEF t, k, m
  <1>8. /\ segmented'[n] = segmented[n] + Same(t, <<"crc_cbsegm", n>>)
        /\ modulated'[n] = modulated[n] + Same(t, <<"crc_mod", n>>)
    BY <1>5, <1>6, <1>7
  <1>9. /\ Same(t, <<"crc_cbsegm", n>>) \in Nat /\ Same(t, <<"crc_mod", n>>) \in Nat
        /\ segmented[n] \in Nat /\ modulated[n] \in Nat
    BY <1>7 DEF Same
  <1> QED
    BY <1>3, <1>4, <1>8, <1>9

\* A task that finishes moves within the phase of its slot.
LEMMA FinishTaskPhases ==
  ASSUME Types, Types', Phases, NEW w \in Workers, FinishTask(w)
  PROVE  Phases'
  <1> SUFFICES ASSUME NEW n \in Slots PROVE Phase(n)'
    BY DEF Phases
  <1>1. Phase(n)
    BY DEF Phases
  <1>2. UNCHANGED schedVars /\ gate' = gate /\ cbtaskNum' = cbtaskNum
    BY DEF FinishTask
  <1>3. CASE Idle(n)
    BY <1>2, <1>3, FinishMoves DEF Phase, Idle, Polled, schedVars
  <1>4. CASE AddingSegm(n)
    BY <1>2, <1>4, FinishMoves DEF Phase, AddingSegm, schedVars
  <1>5. CASE Segmenting(n)
    BY <1>2, <1>5, FinishMoves DEF Phase, Segmenting, Polled, schedVars
  <1>6. CASE AddingMod(n)
    BY <1>2, <1>6, FinishMoves DEF Phase, AddingMod, schedVars
  <1>7. CASE Modulating(n)
    BY <1>2, <1>7, FinishMoves DEF Phase, Modulating, Polled, schedVars
  <1> QED
    BY <1>1, <1>3, <1>4, <1>5, <1>6, <1>7 DEF Phase

\* A step of the producer, of the signal handler, or none.
LEMMA OutsidePhases ==
  ASSUME Phases, UNCHANGED <<schedVars, gateVars, poolVars>>
  PROVE  Phases'
  <1> SUFFICES ASSUME NEW n \in Slots PROVE Phase(n)'
    BY DEF Phases
  <1>1. SameCounts(n)
    BY CountsKept
  <1> QED
    BY <1>1, PhaseKept DEF Phases

-----------------------------------------------------------------------------
(* Each step keeps the types *)

\* An index moves on by one, and wraps at PACK_CACHE.
LEMMA AdvanceIs ==
  ASSUME NEW i \in 0 .. PACK_CACHE - 1
  PROVE  /\ Advance(i) \in 0 .. PACK_CACHE - 1
         /\ Advance(i) = i + 1 \/ Advance(i) = i + 1 - PACK_CACHE
  BY TxAssumption DEF TxAssumption, Advance

\* The scheduler serves the slots in turn.
LEMMA SlotsAre ==
  ASSUME slot \in Slots
  PROVE  NextSlot \in Slots
  BY TxAssumption DEF TxAssumption, NextSlot, Slots

\* sem_post leaves the semaphore positive, and within SEM_VALUE_MAX.
LEMMA PostIs ==
  ASSUME cache_tx \in 0 .. SEM_VALUE_MAX
  PROVE  Post(cache_tx) \in 0 .. SEM_VALUE_MAX /\ Post(cache_tx) > 0
  BY TxAssumption DEF TxAssumption, Post

\* pool_add_task keeps the list a list of tasks.
LEMMA SubmitTypes ==
  ASSUME queue \in Seq(Tasks), NEW u \in Tasks, Pool!Submit(u)
  PROVE  queue' \in Seq(Tasks) /\ running' = running
  BY DEF Pool!Submit

\* A worker that finishes changes one count, of the slot its task is for.
LEMMA FinishTypes ==
  ASSUME Types, NEW w \in Workers, FinishTask(w)
  PROVE  segmented' \in [Slots -> Nat] /\ modulated' \in [Slots -> Nat]
  <1> DEFINE m == running[w][2]
  <1>1. \/ segmented' = [segmented EXCEPT ![m] = @ + 1] /\ modulated' = modulated
        \/ modulated' = [modulated EXCEPT ![m] = @ + 1] /\ segmented' = segmented
    BY DEF FinishTask
  <1>2. segmented \in [Slots -> Nat] /\ modulated \in [Slots -> Nat]
    BY DEF Types
  <1> HIDE DEF m
  <1> QED
    BY <1>1, <1>2

\* Every step keeps the types.
LEMMA TypesStep == Types /\ Phases /\ [Next]_vars => Types'
  <1> SUFFICES ASSUME Types, Phases, [Next]_vars PROVE Types'
    OBVIOUS
  <1> USE DEF schedVars, gateVars, poolVars, producerVars, countVars
  <1>1. CASE Generate
    BY <1>1, CodeBlocksBound DEF Generate, Types, SchedulerStates
  <1>2. CASE SkipGenerate
    BY <1>2 DEF SkipGenerate, Types, SchedulerStates
  <1>3. CASE AddSegm
    <2>1. submitted + 1 \in 0 .. CodeBlocks
      BY <1>3, PhaseServed, CodeBlocksBound, TxAssumption
         DEF TxAssumption, AddSegm, AddingSegm, Types
    <2>2. queue' \in Seq(Tasks) /\ running' = running
      BY <1>3, StageTasks, SubmitTypes DEF AddSegm, Types
    <2> QED
      BY <1>3, <2>1, <2>2 DEF AddSegm, Types, SchedulerStates
  <1>4. CASE Modulate
    <2>1. cbtaskNum' \in [Slots -> 0 .. CodeBlocks]
      BY <1>4, TxAssumption, CodeBlocksBound
         DEF TxAssumption, Modulate, Types, CodeBlocks
    <2> QED
      BY <1>4, <2>1, CodeBlocksBound DEF Modulate, Types, SchedulerStates
  <1>5. CASE SkipModulate
    BY <1>5 DEF SkipModulate, Types, SchedulerStates
  <1>6. CASE AddMod
    <2>1. submitted + 1 \in 0 .. CodeBlocks
      BY <1>6, PhaseServed, CodeBlocksBound DEF AddMod, AddingMod, Types
    <2>2. queue' \in Seq(Tasks) /\ running' = running
      BY <1>6, StageTasks, SubmitTypes DEF AddMod, Types
    <2> QED
      BY <1>6, <2>1, <2>2, SMTT(30) DEF AddMod, Types, SchedulerStates
  <1>7. CASE BeginPack
    BY <1>7 DEF BeginPack, Types, SchedulerStates
  <1>8. CASE SkipPack
    BY <1>8, SlotsAre DEF SkipPack, Types, SchedulerStates
  <1>9. CASE EndPack
    <2>1. gate[slot] = 0
      BY <1>9, PhaseServed DEF EndPack, Modulating
    <2> QED
      BY <1>9, <2>1, CodeBlocksBound DEF EndPack, Types, SchedulerStates
  <1>10. CASE PostFrame
    BY <1>10, SlotsAre, PostIs, AdvanceIs DEF PostFrame, Types, SchedulerStates
  <1>11. CASE ExitScheduler
    BY <1>11 DEF ExitScheduler, Types, SchedulerStates
  <1>12. ASSUME NEW w \in Workers, StartTask(w) PROVE Types'
    <2>1. Head(queue) \in Tasks /\ Tail(queue) \in Seq(Tasks)
      BY <1>12 DEF StartTask, Pool!Start, Types
    <2> QED
      BY <1>12, <2>1 DEF StartTask, Pool!Start, Types
  <1>13. ASSUME NEW w \in Workers, FinishTask(w) PROVE Types'
    <2>1. running' \in [Workers -> Tasks \union {NoTask}] /\ queue' = queue
      BY <1>13 DEF FinishTask, Pool!Finish, Types
    <2>2. segmented' \in [Slots -> Nat] /\ modulated' \in [Slots -> Nat]
      BY <1>13, FinishTypes
    <2> QED
      BY <1>13, <2>1, <2>2 DEF FinishTask, Types
  <1>14. CASE Poll \/ SendNothing
    BY <1>14 DEF Poll, SendNothing, Types, ProducerStates
  <1>15. CASE Awake \/ SendPacket \/ SendLast
    <2>1. CASE Awake
      BY <1>15, <2>1, TxAssumption DEF TxAssumption, Awake, Types, ProducerStates
    <2>2. CASE SendPacket
      BY <1>15, <2>2, TxAssumption DEF TxAssumption, SendPacket, Types, ProducerStates
    <2>3. CASE SendLast
      <3>1. packet' \in 0 .. FramePackets - 1 /\ readyNum_tx' \in Int
        BY <2>3, TxAssumption DEF TxAssumption, SendLast, Types
      <3>2. index_tx_read' \in 0 .. PACK_CACHE - 1
        BY <2>3, AdvanceIs DEF SendLast, Types
      <3> QED
        BY <2>3, <3>1, <3>2 DEF SendLast, Types, ProducerStates
    <2> QED
      BY <1>15, <2>1, <2>2, <2>3
  <1>16. CASE Release
    BY <1>16 DEF Release, Types, ProducerStates
  <1>17. CASE SignalHandler
    BY <1>17 DEF SignalHandler, Types
  <1>18. CASE UNCHANGED vars
    BY <1>18 DEF vars, Types
  <1> QED
    BY <1>1, <1>2, <1>3, <1>4, <1>5, <1>6, <1>7, <1>8, <1>9, <1>10, <1>11, <1>12, <1>13,
       <1>14, <1>15, <1>16, <1>17, <1>18
       DEF Next, Scheduler, Worker, Producer

\* Every step leaves each slot in a phase.
LEMMA PhasesStep == Types /\ Types' /\ Phases /\ [Next]_vars => Phases'
  <1> SUFFICES ASSUME Types, Types', Phases, [Next]_vars PROVE Phases'
    OBVIOUS
  <1>1. CASE Generate \/ AddSegm \/ Modulate \/ AddMod \/ BeginPack \/ EndPack
    BY <1>1, GeneratePhases, AddSegmPhases, ModulatePhases, AddModPhases, BeginPackPhases,
       EndPackPhases
  <1>2. CASE SkipGenerate \/ SkipModulate \/ SkipPack \/ PostFrame \/ ExitScheduler
    BY <1>2, BetweenStages
       DEF SkipGenerate, SkipModulate, SkipPack, PostFrame, ExitScheduler
  <1>3. ASSUME NEW w \in Workers, Worker(w) PROVE Phases'
    BY <1>3, StartTaskPhases, FinishTaskPhases DEF Worker
  <1>4. CASE Producer \/ SignalHandler \/ UNCHANGED vars
    BY <1>4, OutsidePhases
       DEF Producer, Poll, Awake, SendNothing, SendPacket, SendLast, Release, SignalHandler,
           vars
  <1> QED
    BY <1>1, <1>2, <1>3, <1>4 DEF Next, Scheduler

-----------------------------------------------------------------------------
(* Each step keeps the counters *)

Card == Cardinality(BusySlots)

\* Busy slots can be counted.
LEMMA BusyType == IsFiniteSet(BusySlots) /\ Card \in Nat
  <1>1. IsFiniteSet(Slots)
    BY FS_Interval, TxAssumption DEF TxAssumption, Slots
  <1> QED
    BY <1>1, FS_Subset, FS_CardinalityType DEF BusySlots, Card

\* A busy slot is counted.
LEMMA BusyCounts ==
  ASSUME NEW n \in Slots, Busy(n)
  PROVE  Card >= 1
  <1>1. BusySlots # {}
    BY DEF BusySlots
  <1> QED
    BY <1>1, BusyType, FS_EmptySet DEF Card

\* No slot is taken or freed.
LEMMA BusyKept ==
  ASSUME gate' = gate,
         UNCHANGED <<tpc, slot>> \/ (tpc # "addSegm" /\ tpc' # "addSegm")
  PROVE  Card' = Card
  <1>1. BusySlots' = BusySlots
    BY DEF BusySlots, Busy
  <1> QED
    BY <1>1 DEF Card

\* Generate makes a slot busy.
LEMMA GenerateBusy == Types /\ Generate => Card' = Card + 1
  <1> SUFFICES ASSUME Types, Generate PROVE Card' = Card + 1
    OBVIOUS
  <1>1. slot \notin BusySlots
    BY DEF Types, Generate, BusySlots, Busy
  <1>2. BusySlots' = BusySlots \union {slot}
    BY DEF Types, Generate, BusySlots, Busy, gateVars
  <1>3. Card' = Cardinality(BusySlots')
    BY DEF Card
  <1> QED
    BY <1>1, <1>2, <1>3, BusyType, FS_AddElement DEF Card

\* Closing the gate takes over from the scheduler being there.
LEMMA AddSegmBusy == Types /\ AddSegm => Card' = Card
  <1> SUFFICES ASSUME Types, AddSegm PROVE BusySlots' = BusySlots
    BY DEF Card
  <1>1. slot \in Slots /\ tpc = "addSegm" /\ slot' = slot /\ gate \in [Slots -> {0, 1}]
    BY DEF Types, AddSegm
  <1>2. \/ tpc' = "modulate" /\ gate' = [gate EXCEPT ![slot] = 0]
        \/ tpc' = tpc /\ gate' = gate
    BY DEF AddSegm
  <1> QED
    BY <1>1, <1>2 DEF BusySlots, Busy

\* A packed slot is not busy any more.
LEMMA EndPackBusy == Types /\ Phases /\ EndPack => Card' = Card - 1
  <1> SUFFICES ASSUME Types, Phases, EndPack PROVE Card' = Card - 1
    OBVIOUS
  <1>1. gate[slot] = 0
    BY PhaseServed DEF EndPack, Modulating
  <1>2. slot \in BusySlots
    BY <1>1 DEF Types, BusySlots, Busy
  <1>3. BusySlots' = BusySlots \ {slot}
    BY <1>1 DEF Types, EndPack, BusySlots, Busy
  <1>4. Card' = Cardinality(BusySlots')
    BY DEF Card
  <1> QED
    BY <1>2, <1>3, <1>4, BusyType, FS_RemoveElement DEF Card

\* One frame more or fewer in the counts.
Releasing == IF ppc = "release" THEN 1 ELSE 0

\* FrameAccounting, with names for its numbers.
LEMMA AccountingIs == FrameAccounting <=> startNum_tx = Card + readyNum_tx + Releasing
  BY DEF FrameAccounting, Card, Releasing

\* A step that leaves every number of Counters as it is.
LEMMA CountersKept ==
  ASSUME Counters, Card' = Card, Releasing' = Releasing, Between' = Between,
         UNCHANGED <<startNum_tx, readyNum_tx, index_tx_write, index_tx_read>>
  PROVE  Counters'
  <1>1. FrameAccounting' <=> startNum_tx' = Card' + readyNum_tx' + Releasing'
    BY DEF FrameAccounting, Card, Releasing
  <1>2. FrameAccounting'
    BY <1>1, AccountingIs DEF Counters
  <1> QED
    BY <1>2 DEF Counters

\* Every step keeps the counters exact and the indices as far apart as they say.
LEMMA CountersStep == Types /\ Types' /\ Phases /\ Counters /\ [Next]_vars => Counters'
  <1> SUFFICES ASSUME Types, Types', Phases, Counters, [Next]_vars PROVE Counters'
    OBVIOUS
  <1>1. startNum_tx = Card + readyNum_tx + Releasing /\ Card \in Nat /\ Releasing \in {0, 1}
    BY AccountingIs, BusyType DEF Counters, Releasing
  <1>2. FrameAccounting' <=> startNum_tx' = Card' + readyNum_tx' + Releasing'
    BY DEF FrameAccounting, Card, Releasing
  <1>3. CASE Generate
    <2>1. /\ Card' = Card + 1 /\ Releasing' = Releasing /\ Between' = Between
          /\ startNum_tx < PACK_CACHE /\ startNum_tx' = startNum_tx + 1
          /\ UNCHANGED <<readyNum_tx, index_tx_write, index_tx_read>>
      BY <1>3, GenerateBusy DEF Generate, producerVars, Releasing, Between
    <2>2. startNum_tx' <= PACK_CACHE
      BY <2>1, TxAssumption DEF TxAssumption, Types
    <2>3. FrameAccounting'
      BY <1>1, <1>2, <2>1 DEF Types
    <2> QED
      BY <2>1, <2>2, <2>3 DEF Counters
  <1>4. CASE AddSegm
    <2>1. Card' = Card
      BY <1>4, AddSegmBusy
    <2> QED
      BY <1>4, <2>1, CountersKept DEF AddSegm, producerVars, countVars, Releasing, Between
  <1>5. CASE EndPack
    <2>1. /\ Card' = Card - 1 /\ Releasing' = Releasing
          /\ readyNum_tx' = readyNum_tx + 1 /\ tpc = "packing" /\ tpc' = "post"
          /\ UNCHANGED <<startNum_tx, index_tx_write, index_tx_read>>
      BY <1>5, EndPackBusy DEF EndPack, producerVars, Releasing
    <2>2. Between' = Between
      BY <2>1 DEF Types, Between
    <2>3. FrameAccounting'
      BY <1>1, <1>2, <2>1 DEF Types
    <2>4. readyNum_tx' >= 0
      BY <2>1 DEF Types, Counters
    <2> QED
      BY <2>1, <2>2, <2>3, <2>4 DEF Counters
  <1>6. CASE PostFrame
    <2>1. /\ Card' = Card /\ Releasing' = Releasing
          /\ tpc = "post" /\ tpc' = "generate"
          /\ index_tx_write' = Advance(index_tx_write)
          /\ UNCHANGED <<startNum_tx, readyNum_tx, index_tx_read>>
      BY <1>6, BusyKept DEF PostFrame, producerVars, gateVars, Releasing
    <2>2. FrameAccounting'
      BY <1>1, <1>2, <2>1
    <2>3. Between' = Between + 1 /\ Between \in Int
      BY <2>1 DEF Types, Between
    <2>4. Between >= 0 - 1 /\ Between + 1 <= PACK_CACHE
      BY <1>1, <2>1, TxAssumption DEF TxAssumption, Types, Counters, Between
    <2> DEFINE b == Between
               r == index_tx_read
               w == index_tx_write
               v == index_tx_write'
    <2>5. /\ w \in 0 .. PACK_CACHE - 1 /\ r \in 0 .. PACK_CACHE - 1
          /\ v \in 0 .. PACK_CACHE - 1
          /\ v = w + 1 \/ v = w + 1 - PACK_CACHE
          /\ w = r + b \/ w = r + b - PACK_CACHE \/ w = r + b + PACK_CACHE
      BY <2>1, AdvanceIs DEF Types, Counters
    <2> HIDE DEF b, r, w, v
    <2>6. v \in {r + (b + 1), r + (b + 1) - PACK_CACHE, r + (b + 1) + PACK_CACHE}
      <3>1. b \in Int /\ b >= 0 - 1 /\ b + 1 <= PACK_CACHE
        BY <2>3, <2>4 DEF b
      <3>2. PACK_CACHE \in Nat \ {0}
        BY TxAssumption DEF TxAssumption
      <3>3. \/ v = r + (b + 1)
            \/ v = r + (b + 1) - PACK_CACHE
            \/ v = r + (b + 1) + PACK_CACHE
        BY <2>5, <3>1, <3>2
      <3> QED
        BY <3>3
    <2> QED
      BY <2>1, <2>2, <2>3, <2>6 DEF Counters, b, r, v
  <1>7. CASE SendLast
    <2>1. /\ Card' = Card /\ Releasing' = 1 /\ Releasing = 0
          /\ readyNum_tx > 0 /\ readyNum_tx' = readyNum_tx - 1 /\ tpc' = tpc
          /\ index_tx_read' = Advance(index_tx_read)
          /\ UNCHANGED <<startNum_tx, index_tx_write>>
      BY <1>7, BusyKept DEF SendLast, schedVars, gateVars, Releasing
    <2>2. FrameAccounting' /\ readyNum_tx' >= 0
      BY <1>1, <1>2, <2>1 DEF Types
    <2>3. Between' = Between - 1 /\ Between \in Int
      BY <2>1 DEF Types, Between
    <2>4. Between >= 0 /\ Between <= PACK_CACHE
      <3>1. readyNum_tx \in 1 .. PACK_CACHE
        BY <1>1, <2>1, TxAssumption DEF TxAssumption, Types, Counters
      <3> QED
        BY <3>1, TxAssumption DEF TxAssumption, Between
    <2> DEFINE b == Between
               r == index_tx_read
               w == index_tx_write
               q == index_tx_read'
    <2>5. /\ w \in 0 .. PACK_CACHE - 1 /\ r \in 0 .. PACK_CACHE - 1
          /\ q \in 0 .. PACK_CACHE - 1
          /\ q = r + 1 \/ q = r + 1 - PACK_CACHE
          /\ w \in {r + b, r + b - PACK_CACHE, r + b + PACK_CACHE}
      BY <2>1, AdvanceIs DEF Types, Counters
    <2> HIDE DEF b, r, w, q
    <2>6. w \in {q + (b - 1), q + (b - 1) - PACK_CACHE, q + (b - 1) + PACK_CACHE}
      <3>1. b \in Int /\ b >= 0 /\ b <= PACK_CACHE
        BY <2>3, <2>4 DEF b
      <3> QED
        BY <2>5, <3>1, TxAssumption DEF TxAssumption
    <2> QED
      BY <2>1, <2>2, <2>3, <2>6 DEF Counters, b, q, w
  <1>8. CASE Release
    <2>1. /\ Card' = Card /\ Releasing' = 0 /\ Releasing = 1
          /\ startNum_tx' = startNum_tx - 1 /\ Between' = Between
          /\ UNCHANGED <<readyNum_tx, index_tx_write, index_tx_read>>
      BY <1>8, BusyKept DEF Release, schedVars, gateVars, Releasing, Between
    <2>2. FrameAccounting'
      BY <1>1, <1>2, <2>1 DEF Types
    <2>3. startNum_tx' <= PACK_CACHE
      BY <2>1, TxAssumption DEF TxAssumption, Types, Counters
    <2> QED
      BY <2>1, <2>2, <2>3 DEF Counters
  <1>9. CASE SkipGenerate \/ Modulate \/ SkipModulate \/ AddMod \/ BeginPack \/ SkipPack
             \/ ExitScheduler
    <2>1. Card' = Card
      BY <1>9, BusyKept
         DEF SkipGenerate, Modulate, SkipModulate, AddMod, BeginPack, SkipPack,
             ExitScheduler, gateVars
    <2> QED
      BY <1>9, <2>1, CountersKept
         DEF SkipGenerate, Modulate, SkipModulate, AddMod, BeginPack, SkipPack,
             ExitScheduler, producerVars, countVars, Releasing, Between
  <1>10. ASSUME NEW w \in Workers, Worker(w) PROVE Counters'
    <2>1. Card' = Card
      BY <1>10, BusyKept DEF Worker, StartTask, FinishTask, schedVars, gateVars
    <2> QED
      BY <1>10, <2>1, CountersKept
         DEF Worker, StartTask, FinishTask, schedVars, producerVars, countVars, Releasing,
             Between
  <1>11. CASE Poll \/ Awake \/ SendNothing \/ SendPacket \/ SignalHandler \/ UNCHANGED vars
    <2>1. Card' = Card
      BY <1>11, BusyKept
         DEF Poll, Awake, SendNothing, SendPacket, SignalHandler, vars, schedVars, gateVars
    <2> QED
      BY <1>11, <2>1, CountersKept
         DEF Poll, Awake, SendNothing, SendPacket, SignalHandler, vars, schedVars,
             producerVars, countVars, Releasing, Between
  <1> QED
    BY <1>3, <1>4, <1>5, <1>6, <1>7, <1>8, <1>9, <1>10, <1>11
       DEF Next, Scheduler, Producer

-----------------------------------------------------------------------------
(* The invariant *)

\* Every slot starts free and every counter at 0.
LEMMA InitInv == Init => TxInv
  <1> SUFFICES ASSUME Init PROVE TxInv
    OBVIOUS
  <1>1. queue = << >> /\ running = [w \in Workers |-> NoTask]
    BY DEF Init, Pool!PoolInit
  <1>2. Types
    <2>1. queue \in Seq(Tasks) /\ running \in [Workers -> Tasks \union {NoTask}]
      BY <1>1
    <2>2. slot \in Slots /\ submitted \in 0 .. CodeBlocks
      BY CodeBlocksBound, TxAssumption DEF TxAssumption, Init, Slots
    <2>3. /\ index_tx_write \in 0 .. PACK_CACHE - 1 /\ index_tx_read \in 0 .. PACK_CACHE - 1
          /\ packet \in 0 .. FramePackets - 1 /\ cache_tx \in 0 .. SEM_VALUE_MAX
      BY TxAssumption DEF TxAssumption, Init
    <2>4. /\ gate \in [Slots -> {0, 1}] /\ segmented \in [Slots -> Nat]
          /\ modulated \in [Slots -> Nat] /\ cbtaskNum \in [Slots -> 0 .. CodeBlocks]
      BY DEF Init, CodeBlocks
    <2> QED
      BY <2>1, <2>2, <2>3, <2>4 DEF Init, Types, SchedulerStates, ProducerStates
  <1>3. Phases
    <2>1. SUFFICES ASSUME NEW n \in Slots PROVE Idle(n)
      BY DEF Phases, Phase
    <2>2. ASSUME NEW t \in Tasks PROVE Outstanding(t) = 0
      <3>1. t # NoTask
        BY TxAssumption DEF TxAssumption
      <3>2. Load(queue, running, Workers, t) = 0
        BY <1>1, <3>1, LoadIdle
      <3> QED
        BY <3>2, OutstandingIs
    <2> QED
      BY <2>2, StageTasks DEF Init, Idle, Polled, Segm, Mod
  <1>4. Counters
    <2>1. BusySlots = {}
      BY DEF Init, BusySlots, Busy
    <2>2. FrameAccounting
      BY <2>1, FS_EmptySet DEF Init, FrameAccounting
    <2> QED
      BY <2>2, TxAssumption DEF TxAssumption, Init, Counters, Between
  <1> QED
    BY <1>2, <1>3, <1>4 DEF TxInv

\* Every step keeps the invariant.
LEMMA StepInv == TxInv /\ [Next]_vars => TxInv'
  BY TypesStep, PhasesStep, CountersStep DEF TxInv

\* The gates, the task lists and the counters of the code (ServiceEN_tx, pool 2,
\* startNum_tx, readyNum_tx) stay consistent in every interleaving.
THEOREM Invariance == Spec => []TxInv
  BY InitInv, StepInv, PTL DEF Spec

-----------------------------------------------------------------------------
(* What it implies *)

\* What the counters imply for the frames in the ring.
LEMMA FrameBounds ==
  ASSUME TxInv
  PROVE  /\ readyNum_tx \in 0 .. PACK_CACHE /\ startNum_tx \in 0 .. PACK_CACHE
         /\ readyNum_tx <= startNum_tx
         /\ ppc = "release" => readyNum_tx < startNum_tx
         /\ tpc = "packing" => readyNum_tx < startNum_tx
  <1>1. startNum_tx = Card + readyNum_tx + Releasing /\ Card \in Nat
    BY AccountingIs, BusyType DEF TxInv, Counters
  <1>2. tpc = "packing" => Card >= 1
    BY PhaseServed, BusyCounts DEF TxInv, Types, Modulating, Busy
  <1>3. Releasing \in {0, 1} /\ (ppc = "release" => Releasing = 1)
    BY DEF Releasing
  <1> QED
    BY <1>1, <1>2, <1>3, TxAssumption DEF TxAssumption, TxInv, Types, Counters

\* Every variable stays in its range: the counters between 0 and PACK_CACHE, the
\* gates of ServiceEN_tx up to the number of tasks of their stage.
THEOREM TypeCorrect == Spec => []TypeOK
  <1>1. TxInv => TypeOK
    <2> SUFFICES ASSUME TxInv PROVE TypeOK
      OBVIOUS
    <2>1. Types
      BY DEF TxInv
    <2>2. \A n \in Slots : segmented[n] \in 0 .. LayerNum /\ modulated[n] \in 0 .. CodeBlocks
      <3> SUFFICES ASSUME NEW n \in Slots
                   PROVE  segmented[n] \in 0 .. LayerNum /\ modulated[n] \in 0 .. CodeBlocks
        OBVIOUS
      <3>1. /\ Segm(n) \in Nat /\ Mod(n) \in Nat
            /\ segmented[n] \in Nat /\ modulated[n] \in Nat
            /\ cbtaskNum[n] \in 0 .. CodeBlocks /\ submitted \in 0 .. CodeBlocks
        BY <2>1, OutstandingType DEF Types, Segm, Mod
      <3>2. Phase(n)
        BY DEF TxInv, Phases
      <3>3. segmented[n] <= LayerNum /\ modulated[n] <= CodeBlocks
        BY <3>1, <3>2, CodeBlocksBound, TxAssumption
           DEF TxAssumption, Phase, Idle, AddingSegm, Segmenting, AddingMod, Modulating
      <3> QED
        BY <3>1, <3>3, CodeBlocksBound, TxAssumption DEF TxAssumption
    <2>3. /\ segmented \in [Slots -> 0 .. LayerNum]
          /\ modulated \in [Slots -> 0 .. CodeBlocks]
      BY <2>1, <2>2 DEF Types
    <2> QED
      BY <2>1, <2>3, FrameBounds DEF Types, TypeOK, CodeBlocks
  <1> QED
    BY <1>1, Invariance, PTL

\* startNum_tx counts exactly the subframes at work, the frames in the ring and
\* the one being released.
THEOREM Accounting == Spec => []FrameAccounting
  <1>1. TxInv => FrameAccounting
    BY DEF TxInv, Counters
  <1> QED
    BY <1>1, Invariance, PTL

\* A slot that is free or being packed has no task listed or running.
THEOREM Quiescent == Spec => []SlotQuiescent
  <1>1. TxInv => SlotQuiescent
    <2> SUFFICES ASSUME TxInv, NEW n \in Slots,
                        ~Busy(n) \/ (tpc = "packing" /\ slot = n)
                 PROVE  Segm(n) = 0 /\ Mod(n) = 0
      BY DEF SlotQuiescent, Stages, Segm, Mod
    <2>1. CASE tpc = "packing" /\ slot = n
      BY <2>1, PhaseServed DEF TxInv, Modulating
    <2>2. CASE ~Busy(n)
      BY <2>2 DEF TxInv, Phases, Phase, Busy, Idle, AddingSegm, Segmenting, AddingMod,
                  Modulating
    <2> QED
      BY <2>1, <2>2
  <1> QED
    BY <1>1, Invariance, PTL

\* The scheduler's unlocked resets of ServiceEN_tx lose no worker's increment.
THEOREM NoIncrementLost == Spec => []NoLostIncrement
  <1>1. TxInv => NoLostIncrement
    <2> SUFFICES ASSUME TxInv PROVE NoLostIncrement
      OBVIOUS
    <2>1. tpc = "addMod" => Segm(slot) = 0 /\ segmented[slot] = LayerNum
      BY PhaseServed DEF TxInv, AddingMod
    <2>2. tpc = "packing" => modulated[slot] = cbtaskNum[slot]
      BY PhaseServed DEF TxInv, Types, Modulating
    <2> QED
      BY <2>1, <2>2 DEF NoLostIncrement, Segm
  <1> QED
    BY <1>1, Invariance, PTL

\* The scheduler packs no frame over one the producer has still to send.
THEOREM RingSafe == Spec => []NoOverwrite
  <1>1. TxInv => NoOverwrite
    <2> SUFFICES ASSUME TxInv, tpc = "packing", index_tx_write \in ReadyWindow PROVE FALSE
      BY DEF NoOverwrite
    <2>1. PICK j \in 0 .. readyNum_tx - 1 :
             index_tx_write = index_tx_read + j \/ index_tx_write = index_tx_read + j - PACK_CACHE
      BY DEF ReadyWindow
    <2>2. /\ readyNum_tx \in 0 .. PACK_CACHE /\ startNum_tx \in 0 .. PACK_CACHE
          /\ readyNum_tx < startNum_tx
      BY FrameBounds
    <2>3. \/ index_tx_write = index_tx_read + readyNum_tx
          \/ index_tx_write = index_tx_read + readyNum_tx - PACK_CACHE
          \/ index_tx_write = index_tx_read + readyNum_tx + PACK_CACHE
      BY <2>2 DEF TxInv, Counters, Between
    <2>4. index_tx_read \in 0 .. PACK_CACHE - 1
      BY DEF TxInv, Types
    <2> QED
      BY <2>1, <2>2, <2>3, <2>4, TxAssumption DEF TxAssumption
  <1> QED
    BY <1>1, Invariance, PTL

\* No wakeup of the producer is lost: while it waits for cache_tx with a frame
\* ready there is a post to take, or the scheduler is about to post.
THEOREM NoFrameMissed == Spec => []NoMissedFrame
  <1>1. Init => NoMissedFrame
    BY DEF Init, NoMissedFrame
  <1>2. TxInv /\ NoMissedFrame /\ [Next]_vars => NoMissedFrame'
    <2> SUFFICES ASSUME TxInv, NoMissedFrame, [Next]_vars PROVE NoMissedFrame'
      OBVIOUS
    <2> USE DEF NoMissedFrame, schedVars, countVars, producerVars
    <2>1. CASE Generate \/ SkipGenerate \/ AddSegm \/ Modulate \/ SkipModulate \/ AddMod
               \/ BeginPack \/ SkipPack \/ ExitScheduler
      BY <2>1 DEF Generate, SkipGenerate, AddSegm, Modulate, SkipModulate, AddMod, BeginPack,
                  SkipPack, ExitScheduler
    <2>2. CASE EndPack
      BY <2>2 DEF EndPack
    <2>3. CASE PostFrame
      <3>1. cache_tx' > 0
        BY <2>3, PostIs DEF PostFrame, TxInv, Types
      <3> QED
        BY <3>1
    <2>4. ASSUME NEW w \in Workers, Worker(w) PROVE NoMissedFrame'
      BY <2>4 DEF Worker, StartTask, FinishTask
    <2>5. CASE Poll
      BY <2>5 DEF Poll, TxInv, Types
    <2>6. CASE Awake \/ SendNothing \/ SendPacket \/ SendLast \/ Release
      BY <2>6 DEF Awake, SendNothing, SendPacket, SendLast, Release
    <2>7. CASE SignalHandler \/ UNCHANGED vars
      BY <2>7 DEF SignalHandler, vars
    <2> QED
      BY <2>1, <2>2, <2>3, <2>4, <2>5, <2>6, <2>7 DEF Next, Scheduler, Producer
  <1> QED
    BY <1>1, <1>2, Invariance, PTL DEF Spec

\* startNum_tx and readyNum_tx are a bounded buffer of PACK_CACHE frames:
\* Generate reserves, EndPack commits, SendLast takes, Release releases, and
\* every other step leaves the buffer alone.
THEOREM Implements == Spec => ImplementsFrameBuffer
  <1>1. Init => Frames!Init
    BY DEF Init, Frames!Init
  <1>2. TxInv /\ [Next]_vars => [Frames!Next]_<<startNum_tx, readyNum_tx>>
    <2> SUFFICES ASSUME TxInv, [Next]_vars
                 PROVE  Frames!Next \/ UNCHANGED <<startNum_tx, readyNum_tx>>
      OBVIOUS
    <2> USE DEF countVars
    <2>1. CASE Generate
      BY <2>1 DEF Generate, Frames!Next, Frames!Reserve
    <2>2. CASE EndPack
      BY <2>2, FrameBounds DEF EndPack, Frames!Next, Frames!Commit
    <2>3. CASE SendLast
      BY <2>3 DEF SendLast, Frames!Next, Frames!Take
    <2>4. CASE Release
      BY <2>4, FrameBounds DEF Release, Frames!Next, Frames!Release
    <2>5. CASE SkipGenerate \/ AddSegm \/ Modulate \/ SkipModulate \/ AddMod
               \/ BeginPack \/ SkipPack \/ PostFrame \/ ExitScheduler
      BY <2>5 DEF SkipGenerate, AddSegm, Modulate, SkipModulate, AddMod, BeginPack,
                  SkipPack, PostFrame, ExitScheduler
    <2>6. ASSUME NEW w \in Workers, Worker(w)
          PROVE  UNCHANGED <<startNum_tx, readyNum_tx>>
      BY <2>6 DEF Worker, StartTask, FinishTask
    <2>7. CASE Poll \/ Awake \/ SendNothing \/ SendPacket \/ SignalHandler \/ UNCHANGED vars
      BY <2>7 DEF Poll, Awake, SendNothing, SendPacket, SignalHandler, vars
    <2> QED
      BY <2>1, <2>2, <2>3, <2>4, <2>5, <2>6, <2>7 DEF Next, Scheduler, Producer
  <1> QED
    BY <1>1, <1>2, Invariance, PTL DEF Spec, ImplementsFrameBuffer, Frames!Spec

=============================================================================
