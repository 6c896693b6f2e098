----------------------------- MODULE RxPipeline -----------------------------
(***************************************************************************)
(* The receiver's processing chain: the consumer lcore reassembles packets *)
(* into frames of the ring package_rx, and TaskScheduler_rx polls          *)
(* PARA_NUM_RX subframe slots, feeds the tasks of three stages to the      *)
(* workers of pool 3 and gathers the error statistics.                     *)
(*                                                                         *)
(* A slot works on its frame IN PLACE: chest_calsym and the statistics     *)
(* read package_rx through pointers taken when the slot was opened, while  *)
(* the consumer goes on writing the ring.  What keeps the two apart is     *)
(* startNum_rx, which the consumer increments on the first packet of a     *)
(* frame and the scheduler decrements after the statistics.                *)
(*                                                                         *)
(* Packets arrive in the order they were sent; up to MaxLost of them are   *)
(* lost on the way.                                                        *)
(***************************************************************************)
EXTENDS Integers, Sequences, FiniteSets

CONSTANTS
  PARA_NUM_RX,     \* subframes processed at once
  PACK_CACHE,      \* frames the ring package_rx holds
  SBNum,           \* chest_calsym tasks of a subframe
  LayerNum,        \* layers: crc_check tasks of a subframe
  CbMax,           \* the most code blocks one layer can have
  SamplePackets,   \* packets of a frame that carry samples (type 1)
  DataPackets,     \* packets of a frame that carry the sent bits (types 2 to 9)
  MaxLost,         \* how many packets the network loses
  SEM_VALUE_MAX,   \* where sem_post stops counting
  Workers,         \* the threads of pool 3
  NoTask           \* what an idle worker runs

Slots  == 0 .. PARA_NUM_RX - 1
Stages == {"chest_calsym", "derm_crc", "crc_check"}
Tasks  == Stages \X Slots
Ring   == 0 .. PACK_CACHE - 1

\* A frame is a header (type 0), its samples, and the bits that were sent.
FramePackets == 1 + SamplePackets + DataPackets

ASSUME RxAssumption ==
  /\ PARA_NUM_RX \in Nat \ {0}
  /\ PACK_CACHE \in Nat \ {0}
  /\ SBNum \in Nat \ {0}
  /\ LayerNum \in Nat \ {0}
  /\ CbMax \in Nat \ {0}
  /\ SamplePackets \in Nat \ {0}
  /\ DataPackets \in Nat \ {0}
  /\ MaxLost \in Nat
  /\ SEM_VALUE_MAX \in Nat \ {0}
  /\ IsFiniteSet(Workers)
  /\ NoTask \notin Tasks

VARIABLES
  startNum_rx,     \* frames whose first packet came, minus frames finished
  readyNum_rx,     \* complete frames no slot has taken
  cache_rx,        \* value of the semaphore the scheduler first waits for
  notFull,         \* value of the semaphore rx_buff_is_not_full
  gate,            \* ServiceEN_rx[n, 1]: LayerNum when slot n may take a frame
  estimated,       \* ServiceEN_rx[n, 2]: finished chest_calsym tasks
  decoded,         \* ServiceEN_rx[n, 3]: finished derm_crc tasks
  BERsignal,       \* slot -> finished crc_check tasks
  cbtaskNum,       \* slot -> code blocks of its subframe
  frameOf,         \* slot -> the ring position its pointers refer to
  index_rx_write,  \* where the consumer writes
  index_rx_read,   \* the next frame a slot takes
  queue, running,  \* pool 3
  tpc,             \* where the scheduler is
  slot,            \* n, the slot it is serving
  submitted,       \* tasks it has added in the current stage
  cpc,             \* where the consumer is
  position,        \* the packet of the frame the network delivers next
  lost,            \* packets lost so far
  lostHeaders,     \* history: how many of them were headers,
  lostLasts,       \* and how many the last packet of a frame
  force_quit

schedVars    == <<tpc, slot, submitted, index_rx_read, frameOf>>
gateVars     == <<gate, estimated, decoded, BERsignal, cbtaskNum>>
poolVars     == <<queue, running>>
lossVars     == <<lost, lostHeaders, lostLasts>>
consumerVars == <<cpc, position, lossVars, index_rx_write>>
semVars      == <<cache_rx, notFull>>
countVars    == <<startNum_rx, readyNum_rx>>
vars == <<schedVars, gateVars, poolVars, consumerVars, semVars, countVars, force_quit>>

Pool == INSTANCE TaskPool

Frames == INSTANCE FrameBuffer
            WITH start <- startNum_rx, ready <- readyNum_rx, Capacity <- PACK_CACHE

SchedulerStates ==
  {"wait", "estimate", "addChest", "derm", "addDerm", "check", "addCheck",
   "finish", "post", "exited"}

ConsumerStates == {"loop", "blocked", "poll", "post", "exited"}

\* cbtaskNum is a local array of TaskScheduler_rx that nothing initializes: each
\* entry starts with whatever the stack holds.
Init ==
  /\ startNum_rx = 0 /\ readyNum_rx = 0
  /\ cache_rx = 0 /\ notFull = 0
  /\ gate = [n \in Slots |-> LayerNum]
  /\ estimated = [n \in Slots |-> 0]
  /\ decoded = [n \in Slots |-> 0]
  /\ BERsignal = [n \in Slots |-> 0]
  /\ cbtaskNum \in [Slots -> 0 .. LayerNum * CbMax]
  /\ frameOf = [n \in Slots |-> 0]
  /\ index_rx_write = 0 /\ index_rx_read = 0
  /\ Pool!PoolInit
  /\ tpc = "wait" /\ slot = 0 /\ submitted = 0
  /\ cpc = "loop" /\ position = 0
  /\ lost = 0 /\ lostHeaders = 0 /\ lostLasts = 0
  /\ force_quit = FALSE

\* An index of package_rx moves on by one and wraps at PACK_CACHE.
Advance(i) == IF i + 1 >= PACK_CACHE THEN 0 ELSE i + 1

\* sem_post: the count stays at SEM_VALUE_MAX, and no caller looks at the error.
Post(v) == IF v < SEM_VALUE_MAX THEN v + 1 ELSE v

NextSlot == IF slot + 1 < PARA_NUM_RX THEN slot + 1 ELSE 0

-----------------------------------------------------------------------------
(* l2fwd_main_consumer and depackage *)

AfterPosition == IF position + 1 >= FramePackets THEN 0 ELSE position + 1

\* The loop test, then the unlocked look at startNum_rx.
TestRoom ==
  /\ cpc = "loop" /\ ~force_quit
  /\ cpc' = IF startNum_rx >= PACK_CACHE THEN "blocked" ELSE "poll"
  /\ UNCHANGED <<position, lossVars, index_rx_write, schedVars, gateVars, poolVars,
                 semVars, countVars, force_quit>>

\* sem_wait(&rx_buff_is_not_full) returns.
RoomPosted ==
  /\ cpc = "blocked"
  /\ notFull > 0
  /\ notFull' = notFull - 1
  /\ cpc' = "poll"
  /\ UNCHANGED <<position, lossVars, index_rx_write, schedVars, gateVars, poolVars,
                 cache_rx, countVars, force_quit>>

\* Still full, or ring_receive is empty.
PollNothing ==
  /\ cpc = "poll"
  /\ cpc' = "loop"
  /\ UNCHANGED <<position, lossVars, index_rx_write, schedVars, gateVars, poolVars,
                 semVars, countVars, force_quit>>

RoomNotTested == TRUE    \* mutant: startNum_rx is not tested again after the wait

HasRoom == startNum_rx < PACK_CACHE

\* A packet of type 0 opens a frame.
DepackageFirst ==
  /\ cpc = "poll" /\ HasRoom
  /\ position = 0
  /\ startNum_rx' = startNum_rx + 1
  /\ position' = AfterPosition
  /\ cpc' = "loop"
  /\ UNCHANGED <<lossVars, index_rx_write, schedVars, gateVars, poolVars, semVars,
                 readyNum_rx, force_quit>>

\* A packet of samples or data is copied into package_rx[index_rx_write].
DepackageMiddle ==
  /\ cpc = "poll" /\ HasRoom
  /\ position > 0 /\ position + 1 < FramePackets
  /\ position' = AfterPosition
  /\ cpc' = "loop"
  /\ UNCHANGED <<lossVars, index_rx_write, schedVars, gateVars, poolVars, semVars,
                 countVars, force_quit>>

\* The last packet of type 9 completes the frame, whatever came before it.
DepackageLast ==
  /\ cpc = "poll" /\ HasRoom
  /\ position + 1 = FramePackets
  /\ index_rx_write' = Advance(index_rx_write)
  /\ readyNum_rx' = readyNum_rx + 1
  /\ position' = AfterPosition
  /\ cpc' = "post"
  /\ UNCHANGED <<lossVars, schedVars, gateVars, poolVars, semVars, startNum_rx, force_quit>>

\* sem_post(&cache_rx).
PostFrame ==
  /\ cpc = "post"
  /\ cache_rx' = Post(cache_rx)
  /\ cpc' = "loop"
  /\ UNCHANGED <<position, lossVars, index_rx_write, schedVars, gateVars, poolVars,
                 notFull, countVars, force_quit>>

ExitConsumerSilently ==   \* mutant: the last sem_post(&cache_rx) is missing
  /\ cpc = "loop" /\ force_quit
  /\ cpc' = "exited"
  /\ UNCHANGED <<position, lossVars, index_rx_write, schedVars, gateVars, poolVars,
                 semVars, countVars, force_quit>>

\* After the loop the consumer wakes the scheduler.
ExitConsumer ==
  /\ cpc = "loop" /\ force_quit
  /\ cache_rx' = Post(cache_rx)
  /\ cpc' = "exited"
  /\ UNCHANGED <<position, lossVars, index_rx_write, schedVars, gateVars, poolVars,
                 notFull, countVars, force_quit>>

\* The network, a NIC queue or a ring drops the packet that was due.
LosePacket ==
  /\ lost < MaxLost
  /\ lost' = lost + 1
  /\ lostHeaders' = IF position = 0 THEN lostHeaders + 1 ELSE lostHeaders
  /\ lostLasts' = IF position + 1 = FramePackets THEN lostLasts + 1 ELSE lostLasts
  /\ position' = AfterPosition
  /\ UNCHANGED <<cpc, index_rx_write, schedVars, gateVars, poolVars, semVars,
                 countVars, force_quit>>

Depackage == DepackageFirst \/ DepackageMiddle \/ DepackageLast

Consumer ==
  TestRoom \/ RoomPosted \/ PollNothing \/ Depackage \/ PostFrame \/ ExitConsumer

-----------------------------------------------------------------------------
(* TaskScheduler_rx *)

MaySchedule == slot # 0 \/ ~force_quit

\* sem_wait(&cache_rx), once, before the loop.
FirstFrame ==
  /\ tpc = "wait"
  /\ cache_rx > 0
  /\ cache_rx' = cache_rx - 1
  /\ tpc' = "estimate"
  /\ UNCHANGED <<slot, submitted, index_rx_read, frameOf, gateVars, poolVars,
                 consumerVars, notFull, countVars, force_quit>>

\* Stage 1 opens: the slot's pointers are set to the frame at the read index.
TakeFrame ==
  /\ tpc = "estimate" /\ MaySchedule
  /\ gate[slot] = LayerNum /\ readyNum_rx > 0
  /\ frameOf' = [frameOf EXCEPT ![slot] = index_rx_read]
  /\ submitted' = 0
  /\ tpc' = "addChest"
  /\ UNCHANGED <<slot, index_rx_read, gateVars, poolVars, consumerVars, semVars,
                 countVars, force_quit>>

SkipFrame ==
  /\ tpc = "estimate" /\ MaySchedule
  /\ ~(gate[slot] = LayerNum /\ readyNum_rx > 0)
  /\ tpc' = "derm"
  /\ UNCHANGED <<slot, submitted, index_rx_read, frameOf, gateVars, poolVars,
                 consumerVars, semVars, countVars, force_quit>>

AddChestKeepsReady ==    \* mutant: readyNum_rx-- is missing
  /\ tpc = "addChest"
  /\ Pool!Submit(<<"chest_calsym", slot>>)
  /\ submitted' = submitted + 1
  /\ IF submitted + 1 = SBNum
       THEN /\ tpc' = "derm"
            /\ gate' = [gate EXCEPT ![slot] = 0]
            /\ index_rx_read' = Advance(index_rx_read)
       ELSE UNCHANGED <<tpc, gate, index_rx_read>>
  /\ UNCHANGED <<slot, frameOf, estimated, decoded, BERsignal, cbtaskNum, consumerVars,
                 semVars, countVars, force_quit>>

\* One pool_add_task(chest_calsym); after the last one the gate is closed, the
\* frame is no longer ready and the read index moves on.
AddChest ==
  /\ tpc = "addChest"
  /\ Pool!Submit(<<"chest_calsym", slot>>)
  /\ submitted' = submitted + 1
  /\ IF submitted + 1 = SBNum
       THEN /\ tpc' = "derm"
            /\ gate' = [gate EXCEPT ![slot] = 0]
            /\ readyNum_rx' = readyNum_rx - 1
            /\ index_rx_read' = Advance(index_rx_read)
       ELSE UNCHANGED <<tpc, gate, readyNum_rx, index_rx_read>>
  /\ UNCHANGED <<slot, frameOf, estimated, decoded, BERsignal, cbtaskNum, consumerVars,
                 semVars, startNum_rx, force_quit>>

\* Stage 2 opens: every block of carriers is estimated.
OpenDerm ==
  /\ tpc = "derm"
  /\ estimated[slot] = SBNum
  /\ \E c \in LayerNum .. LayerNum * CbMax : cbtaskNum' = [cbtaskNum EXCEPT ![slot] = c]
  /\ submitted' = 0
  /\ tpc' = "addDerm"
  /\ UNCHANGED <<slot, index_rx_read, frameOf, gate, estimated, decoded, BERsignal,
                 poolVars, consumerVars, semVars, countVars, force_quit>>

SkipDerm ==
  /\ tpc = "derm"
  /\ estimated[slot] # SBNum
  /\ tpc' = "check"
  /\ UNCHANGED <<slot, submitted, index_rx_read, frameOf, gateVars, poolVars,
                 consumerVars, semVars, countVars, force_quit>>

AddDerm ==
  /\ tpc = "addDerm"
  /\ Pool!Submit(<<"derm_crc", slot>>)
  /\ submitted' = submitted + 1
  /\ IF submitted + 1 = cbtaskNum[slot]
       THEN tpc' = "check" /\ estimated' = [estimated EXCEPT ![slot] = 0]
       ELSE UNCHANGED <<tpc, estimated>>
  /\ UNCHANGED <<slot, index_rx_read, frameOf, gate, decoded, BERsignal, cbtaskNum,
                 consumerVars, semVars, countVars, force_quit>>

CheckReadyEarly ==       \* mutant: one code block too early
  decoded[slot] + 1 >= cbtaskNum[slot] /\ cbtaskNum[slot] # 0

CheckReady == decoded[slot] = cbtaskNum[slot] /\ cbtaskNum[slot] # 0

\* Stage 3 opens: every code block is decoded.
OpenCheck ==
  /\ tpc = "check"
  /\ CheckReady
  /\ submitted' = 0
  /\ tpc' = "addCheck"
  /\ UNCHANGED <<slot, index_rx_read, frameOf, gateVars, poolVars, consumerVars,
                 semVars, countVars, force_quit>>

SkipCheck ==
  /\ tpc = "check"
  /\ ~CheckReady
  /\ tpc' = "finish"
  /\ UNCHANGED <<slot, submitted, index_rx_read, frameOf, gateVars, poolVars,
                 consumerVars, semVars, countVars, force_quit>>

AddCheck ==
  /\ tpc = "addCheck"
  /\ Pool!Submit(<<"crc_check", slot>>)
  /\ submitted' = submitted + 1
  /\ IF submitted + 1 = LayerNum
       THEN /\ tpc' = "finish"
            /\ decoded' = [decoded EXCEPT ![slot] = 0]
            /\ cbtaskNum' = [cbtaskNum EXCEPT ![slot] = 0]
       ELSE UNCHANGED <<tpc, decoded, cbtaskNum>>
  /\ UNCHANGED <<slot, index_rx_read, frameOf, gate, estimated, BERsignal,
                 consumerVars, semVars, countVars, force_quit>>

FinishFrameKeepsGate ==  \* mutant: the gate of stage 1 is not opened again
  /\ tpc = "finish"
  /\ BERsignal[slot] = LayerNum
  /\ BERsignal' = [BERsignal EXCEPT ![slot] = 0]
  /\ startNum_rx' = startNum_rx - 1
  /\ tpc' = "post"
  /\ UNCHANGED <<slot, submitted, index_rx_read, frameOf, gate, estimated, decoded,
                 cbtaskNum, poolVars, consumerVars, semVars, readyNum_rx, force_quit>>

\* Stage 4: every layer is checked; the statistics are taken, the slot and the
\* frame's place in the ring are free.
FinishFrame ==
  /\ tpc = "finish"
  /\ BERsignal[slot] = LayerNum
  /\ BERsignal' = [BERsignal EXCEPT ![slot] = 0]
  /\ gate' = [gate EXCEPT ![slot] = LayerNum]
  /\ startNum_rx' = startNum_rx - 1
  /\ tpc' = "post"
  /\ UNCHANGED <<slot, submitted, index_rx_read, frameOf, estimated, decoded, cbtaskNum,
                 poolVars, consumerVars, semVars, readyNum_rx, force_quit>>

SkipFinish ==
  /\ tpc = "finish"
  /\ BERsignal[slot] # LayerNum
  /\ tpc' = "estimate"
  /\ slot' = NextSlot
  /\ UNCHANGED <<submitted, index_rx_read, frameOf, gateVars, poolVars, consumerVars,
                 semVars, countVars, force_quit>>

PostRoomOnlyWhenFull ==  \* mutant: a post only when the ring is seen full
  /\ tpc = "post"
  /\ notFull' = IF startNum_rx >= PACK_CACHE THEN Post(notFull) ELSE notFull
  /\ tpc' = "estimate"
  /\ slot' = NextSlot
  /\ UNCHANGED <<submitted, index_rx_read, frameOf, gateVars, poolVars, consumerVars,
                 cache_rx, countVars, force_quit>>

\* sem_post(&rx_buff_is_not_full).
PostRoom ==
  /\ tpc = "post"
  /\ notFull' = Post(notFull)
  /\ tpc' = "estimate"
  /\ slot' = NextSlot
  /\ UNCHANGED <<submitted, index_rx_read, frameOf, gateVars, poolVars, consumerVars,
                 cache_rx, countVars, force_quit>>

\* force_quit was seen: the consumer is woken, the scheduler returns.
ExitScheduler ==
  /\ tpc = "estimate" /\ ~MaySchedule
  /\ notFull' = Post(notFull)
  /\ tpc' = "exited"
  /\ UNCHANGED <<slot, submitted, index_rx_read, frameOf, gateVars, poolVars,
                 consumerVars, cache_rx, countVars, force_quit>>

Scheduler ==
  \/ FirstFrame
  \/ TakeFrame \/ SkipFrame \/ AddChest
  \/ OpenDerm \/ SkipDerm \/ AddDerm
  \/ OpenCheck \/ SkipCheck \/ AddCheck
  \/ FinishFrame \/ SkipFinish \/ PostRoom
  \/ ExitScheduler

-----------------------------------------------------------------------------
(* pool 3 *)

StartTask(w) ==
  /\ Pool!Start(w)
  /\ UNCHANGED <<schedVars, gateVars, consumerVars, semVars, countVars, force_quit>>

\* The task's last statement: its counter is incremented under its mutex.
FinishTask(w) ==
  /\ Pool!Finish(w)
  /\ LET n == running[w][2]
     IN \/ /\ running[w][1] = "chest_calsym"
           /\ estimated' = [estimated EXCEPT ![n] = @ + 1]
           /\ UNCHANGED <<decoded, BERsignal>>
        \/ /\ running[w][1] = "derm_crc"
           /\ decoded' = [decoded EXCEPT ![n] = @ + 1]
           /\ UNCHANGED <<estimated, BERsignal>>
        \/ /\ running[w][1] = "crc_check"
           /\ BERsignal' = [BERsignal EXCEPT ![n] = @ + 1]
           /\ UNCHANGED <<estimated, decoded>>
  /\ UNCHANGED <<schedVars, gate, cbtaskNum, consumerVars, semVars, countVars, force_quit>>

Worker(w) == StartTask(w) \/ FinishTask(w)

\* signal_handler, on SIGINT or SIGTERM.
SignalHandler ==
  /\ ~force_quit
  /\ force_quit' = TRUE
  /\ UNCHANGED <<schedVars, gateVars, poolVars, consumerVars, semVars, countVars>>

-----------------------------------------------------------------------------
Next ==
  \/ Consumer
  \/ LosePacket
  \/ Scheduler
  \/ \E w \in Workers : Worker(w)
  \/ SignalHandler

Spec == Init /\ [][Next]_vars

\* The consumer, the scheduler and the workers run on cores of their own.  The
\* sender keeps sending, so a consumer that polls again and again finds a
\* packet again and again.
Fairness ==
  /\ WF_vars(Consumer)
  /\ SF_vars(Depackage)
  /\ WF_vars(Scheduler)
  /\ \A w \in Workers : WF_vars(Worker(w))

FairSpec == Spec /\ Fairness

-----------------------------------------------------------------------------
(* Vocabulary of the properties *)

\* Slot n works on a frame that readyNum_rx no longer counts.
BusySlots == {n \in Slots : gate[n] = 0}

\* Slots whose pointers into package_rx are in use.
Readers == {n \in Slots : gate[n] = 0 \/ (slot = n /\ tpc = "addChest")}

Listed(t)      == Cardinality({i \in DOMAIN queue : queue[i] = t})
InExecution(t) == Cardinality({w \in Workers : running[w] = t})
Outstanding(t) == Listed(t) + InExecution(t)

\* The complete frames no slot has taken yet.
ReadyWindow ==
  {i \in Ring : \E j \in 0 .. readyNum_rx - 1 :
                  i = index_rx_read + j \/ i = index_rx_read + j - PACK_CACHE}

\* The consumer may write the packet that is due into package_rx[index_rx_write].
MayWrite == cpc = "poll" /\ HasRoom

-----------------------------------------------------------------------------
\* Every variable stays in its range; no counter passes the tasks of its stage.
TypeOK ==
  /\ startNum_rx \in -MaxLost .. PACK_CACHE
  /\ readyNum_rx \in 0 .. PACK_CACHE + MaxLost
  /\ cache_rx \in 0 .. SEM_VALUE_MAX
  /\ notFull \in 0 .. SEM_VALUE_MAX
  /\ gate \in [Slots -> {0, LayerNum}]
  /\ estimated \in [Slots -> 0 .. SBNum]
  /\ decoded \in [Slots -> 0 .. LayerNum * CbMax]
  /\ BERsignal \in [Slots -> 0 .. LayerNum]
  /\ cbtaskNum \in [Slots -> 0 .. LayerNum * CbMax]
  /\ frameOf \in [Slots -> Ring]
  /\ index_rx_write \in Ring /\ index_rx_read \in Ring
  /\ queue \in Seq(Tasks)
  /\ running \in [Workers -> Tasks \union {NoTask}]
  /\ tpc \in SchedulerStates /\ slot \in Slots
  /\ submitted \in Nat
  /\ cpc \in ConsumerStates
  /\ position \in 0 .. FramePackets - 1
  /\ lost \in 0 .. MaxLost /\ lostHeaders \in 0 .. MaxLost /\ lostLasts \in 0 .. MaxLost
  /\ force_quit \in BOOLEAN

\* startNum_rx counts the slots at work, the complete frames and the frame being
\* received; each lost header makes it one too small for ever, each lost last
\* packet one too large, and nothing else shifts it: no other lost packet, and no
\* interleaving of the consumer's increments with the scheduler's decrements.
AccountingDrift ==
  LET frames == Cardinality(BusySlots) + readyNum_rx + (IF position > 0 THEN 1 ELSE 0)
  IN startNum_rx - frames = lostLasts - lostHeaders

\* While no packet is lost, the consumer never writes into a complete frame that
\* no slot has taken, although it looks at startNum_rx only.
ReadyFramesIntact ==
  (lost = 0 /\ MayWrite) => index_rx_write \notin ReadyWindow

\* Nor does it write samples into a frame whose channel is still being
\* estimated from them: the pool's one worker estimates frames in their order,
\* so when a later frame is finished this one is estimated.
SamplesInPlace ==
  (lost = 0 /\ MayWrite /\ position \in 1 .. SamplePackets) =>
    \A n \in Slots :
      frameOf[n] = index_rx_write =>
        /\ Outstanding(<<"chest_calsym", n>>) = 0
        /\ ~(slot = n /\ tpc = "addChest")

\* The sent bits of a frame stay in place until the statistics have compared
\* them: "PACK_CACHE 20" (config.h:44, "cache") frames are to be kept apart by
\* the test startNum_rx < PACK_CACHE.
TestDataInPlace ==
  (MayWrite /\ position > SamplePackets) =>
    \A n \in Readers : frameOf[n] # index_rx_write

\* The scheduler resets its counters without the workers' mutexes and reuses
\* the buffers of a slot: no task of a stage is listed or running when the
\* stage is over, and none at all when the slot is free.
StagesQuiescent ==
  /\ \A n \in Slots : n \notin Readers => \A k \in Stages : Outstanding(<<k, n>>) = 0
  /\ tpc = "addDerm"  => Outstanding(<<"chest_calsym", slot>>) = 0
  /\ tpc = "addCheck" => Outstanding(<<"derm_crc", slot>>) = 0

\* A consumer that waits although there is room has a post to wake it, or one
\* coming.
NoMissedRoom ==
  (cpc = "blocked" /\ startNum_rx < PACK_CACHE) =>
    (notFull > 0 \/ tpc = "post")

\* While no packet is lost, startNum_rx and readyNum_rx implement the bounded
\* buffer of frames.
ImplementsFrameBuffer == Frames!Spec

\* Reception never stops: the packet that is due is taken, until the program
\* is told to stop.
ReceptionGoesOn ==
  \A p \in 0 .. FramePackets - 1 : (position = p) ~> (position # p \/ force_quit)

\* Every frame a slot takes is finished and its place in the ring freed.
SubframesComplete == \A n \in Slots : (gate[n] = 0) ~> (gate[n] # 0 \/ force_quit)

\* "wake up when finished" (main.c:989) and the post before "Rx exit": after a
\* signal the consumer and the scheduler wake each other and both return.
BothExit == force_quit ~> (cpc = "exited" /\ tpc = "exited")

=============================================================================
