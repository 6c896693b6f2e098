----------------------------- MODULE TxPipeline -----------------------------
(***************************************************************************)
(* The sender's processing chain: TaskScheduler_tx polls PARA_NUM_TX       *)
(* subframe slots, feeds the tasks of each stage to the workers of pool 2, *)
(* and packs finished subframes into the ring package_tx; the producer     *)
(* lcore cuts the frames of the ring into packets.                         *)
(*                                                                         *)
(* The threads share only counters: startNum_tx and readyNum_tx (one       *)
(* mutex each), the semaphore cache_tx, the gates ServiceEN_tx, which      *)
(* workers increment under a mutex and the scheduler tests and resets      *)
(* without one, and the flag force_quit.  The samples a stage computes are *)
(* abstracted to how many of its tasks are done; the pool is the abstract  *)
(* one of TaskPool.tla, which ThreadPool.tla implements.                   *)
(***************************************************************************)
EXTENDS Integers, Sequences, FiniteSets

CONSTANTS
  PARA_NUM_TX,     \* subframes processed at once
  PACK_CACHE,      \* frames the ring package_tx holds
  LayerNum,        \* layers of a subframe: crc_cbsegm tasks of stage 1
  CbMax,           \* the most code blocks one layer can have
  FramePackets,    \* packets the producer cuts a frame into
  SEM_VALUE_MAX,   \* where sem_post stops counting
  Workers,         \* the threads of pool 2
  NoTask           \* what an idle worker runs

Slots  == 0 .. PARA_NUM_TX - 1
Stages == {"crc_cbsegm", "crc_mod"}
Tasks  == Stages \X Slots

ASSUME TxAssumption ==
  /\ PARA_NUM_TX \in Nat \ {0}
  /\ PACK_CACHE \in Nat \ {0}
  /\ LayerNum \in Nat \ {0}
  /\ CbMax \in Nat \ {0}
  /\ FramePackets \in Nat \ {0}
  /\ SEM_VALUE_MAX \in Nat \ {0}
  /\ IsFiniteSet(Workers)
  /\ NoTask \notin Tasks

VARIABLES
  startNum_tx,     \* frames started and not yet sent
  readyNum_tx,     \* frames in package_tx and not yet sent
  gate,            \* ServiceEN_tx[n, 1]: 1 when slot n may take a new subframe
  segmented,       \* ServiceEN_tx[n, 2]: finished crc_cbsegm tasks
  modulated,       \* ServiceEN_tx[n, 3]: finished crc_mod tasks
  cbtaskNum,       \* slot -> code blocks of its subframe
  index_tx_write,  \* where the scheduler packs the next frame
  index_tx_read,   \* the frame the producer sends
  cache_tx,        \* value of the semaphore
  queue, running,  \* pool 2
  tpc,             \* where the scheduler is
  slot,            \* n, the slot it is serving
  submitted,       \* tasks it has added in the current stage
  ppc,             \* where the producer is
  packet,          \* packets of the current frame already sent: (type, num)
  force_quit

schedVars    == <<tpc, slot, submitted>>
gateVars     == <<gate, segmented, modulated, cbtaskNum>>
poolVars     == <<queue, running>>
producerVars == <<ppc, packet, index_tx_read>>
countVars    == <<startNum_tx, readyNum_tx, cache_tx>>
vars == <<schedVars, gateVars, poolVars, producerVars, countVars,
          index_tx_write, force_quit>>

Pool == INSTANCE TaskPool

Frames == INSTANCE FrameBuffer
            WITH start <- startNum_tx, ready <- readyNum_tx, Capacity <- PACK_CACHE

-----------------------------------------------------------------------------
(* Where the threads are *)

SchedulerStates ==
  {"generate", "addSegm", "modulate", "addMod", "pack", "packing", "post", "exited"}

ProducerStates == {"loop", "blocked", "send", "release", "exited"}

\* cbtaskNum is a local array of TaskScheduler_tx that nothing initializes: each
\* entry starts with whatever the stack holds.
Init ==
  /\ startNum_tx = 0 /\ readyNum_tx = 0 /\ cache_tx = 0
  /\ gate = [n \in Slots |-> 1]
  /\ segmented = [n \in Slots |-> 0]
  /\ modulated = [n \in Slots |-> 0]
  /\ cbtaskNum \in [Slots -> 0 .. LayerNum * CbMax]
  /\ index_tx_write = 0 /\ index_tx_read = 0
  /\ Pool!PoolInit
  /\ tpc = "generate" /\ slot = 0 /\ submitted = 0
  /\ ppc = "loop" /\ packet = 0
  /\ force_quit = FALSE

\* An index of package_tx moves on by one and wraps at PACK_CACHE.
Advance(i) == IF i + 1 >= PACK_CACHE THEN 0 ELSE i + 1

\* sem_post: the count stays at SEM_VALUE_MAX, and no caller looks at the error.
Post(v) == IF v < SEM_VALUE_MAX THEN v + 1 ELSE v

NextSlot == IF slot + 1 < PARA_NUM_TX THEN slot + 1 ELSE 0

-----------------------------------------------------------------------------
(* TaskScheduler_tx *)

\* for (n = 0; ...) inside while (!force_quit): the flag is read before slot 0.
MaySchedule == slot # 0 \/ ~force_quit

GenerateUnbounded ==   \* mutant: startNum_tx is not compared with PACK_CACHE
  /\ tpc = "generate" /\ MaySchedule
  /\ gate[slot] = 1
  /\ startNum_tx' = startNum_tx + 1
  /\ submitted' = 0
  /\ tpc' = "addSegm"
  /\ UNCHANGED <<slot, gateVars, poolVars, producerVars, readyNum_tx, cache_tx,
                 index_tx_write, force_quit>>

GenerateAnySlot ==     \* mutant: the gate of the slot is not tested
  /\ tpc = "generate" /\ MaySchedule
  /\ startNum_tx < PACK_CACHE
  /\ startNum_tx' = startNum_tx + 1
  /\ submitted' = 0
  /\ tpc' = "addSegm"
  /\ UNCHANGED <<slot, gateVars, poolVars, producerVars, readyNum_tx, cache_tx,
                 index_tx_write, force_quit>>

\* Stage 1 opens: room in the ring and a free slot; new source data is drawn.
Generate ==
  /\ tpc = "generate" /\ MaySchedule
  /\ startNum_tx < PACK_CACHE /\ gate[slot] = 1
  /\ startNum_tx' = startNum_tx + 1
  /\ submitted' = 0
  /\ tpc' = "addSegm"
  /\ UNCHANGED <<slot, gateVars, poolVars, producerVars, readyNum_tx, cache_tx,
                 index_tx_write, force_quit>>

SkipGenerate ==
  /\ tpc = "generate" /\ MaySchedule
  /\ ~(startNum_tx < PACK_CACHE /\ gate[slot] = 1)
  /\ tpc' = "modulate"
  /\ UNCHANGED <<slot, submitted, gateVars, poolVars, producerVars, countVars,
                 index_tx_write, force_quit>>

\* One pool_add_task(crc_cbsegm); after the last one the gate is closed.
AddSegm ==
  /\ tpc = "addSegm"
  /\ Pool!Submit(<<"crc_cbsegm", slot>>)
  /\ submitted' = submitted + 1
  /\ IF submitted + 1 = LayerNum
       THEN tpc' = "modulate" /\ gate' = [gate EXCEPT ![slot] = 0]
       ELSE UNCHANGED <<tpc, gate>>
  /\ UNCHANGED <<slot, segmented, modulated, cbtaskNum, producerVars, countVars,
                 index_tx_write, force_quit>>

ModulateEarly ==       \* mutant: stage 2 opens one crc_cbsegm task too early
  /\ tpc = "modulate"
  /\ segmented[slot] = LayerNum - 1 /\ gate[slot] = 0 /\ cbtaskNum[slot] = 0
  /\ \E c \in LayerNum .. LayerNum * CbMax : cbtaskNum' = [cbtaskNum EXCEPT ![slot] = c]
  /\ submitted' = 0
  /\ tpc' = "addMod"
  /\ UNCHANGED <<slot, gate, segmented, modulated, poolVars, producerVars, countVars,
                 index_tx_write, force_quit>>

\* Stage 2 opens: every layer is segmented, and its number of code blocks,
\* between 1 and CbMax, is known.
Modulate ==
  /\ tpc = "modulate"
  /\ segmented[slot] = LayerNum
  /\ \E c \in LayerNum .. LayerNum * CbMax : cbtaskNum' = [cbtaskNum EXCEPT ![slot] = c]
  /\ submitted' = 0
  /\ tpc' = "addMod"
  /\ UNCHANGED <<slot, gate, segmented, modulated, poolVars, producerVars, countVars,
                 index_tx_write, force_quit>>

SkipModulate ==
  /\ tpc = "modulate"
  /\ segmented[slot] # LayerNum
  /\ tpc' = "pack"
  /\ UNCHANGED <<slot, submitted, gateVars, poolVars, producerVars, countVars,
                 index_tx_write, force_quit>>

AddModKeepsGate ==     \* mutant: ServiceEN_tx[n, 2] is not reset
  /\ tpc = "addMod"
  /\ Pool!Submit(<<"crc_mod", slot>>)
  /\ submitted' = submitted + 1
  /\ IF submitted + 1 = cbtaskNum[slot] THEN tpc' = "pack" ELSE UNCHANGED tpc
  /\ UNCHANGED <<slot, gateVars, producerVars, countVars, index_tx_write, force_quit>>

\* One pool_add_task(crc_mod); after the last one the count of stage 1 is reset.
AddMod ==
  /\ tpc = "addMod"
  /\ Pool!Submit(<<"crc_mod", slot>>)
  /\ submitted' = submitted + 1
  /\ IF submitted + 1 = cbtaskNum[slot]
       THEN tpc' = "pack" /\ segmented' = [segmented EXCEPT ![slot] = 0]
       ELSE UNCHANGED <<tpc, segmented>>
  /\ UNCHANGED <<slot, gate, modulated, cbtaskNum, producerVars, countVars,
                 index_tx_write, force_quit>>

PackReady == modulated[slot] = cbtaskNum[slot] /\ cbtaskNum[slot] # 0

BeginPackEarly ==      \* mutant: stage 3 does not wait for the last code block
  /\ tpc = "pack"
  /\ modulated[slot] + 1 >= cbtaskNum[slot] /\ cbtaskNum[slot] # 0
  /\ tpc' = "packing"
  /\ UNCHANGED <<slot, submitted, gateVars, poolVars, producerVars, countVars,
                 index_tx_write, force_quit>>

\* Stage 3 opens: from here package_tx[index_tx_write] is being written.
BeginPack ==
  /\ tpc = "pack"
  /\ PackReady
  /\ tpc' = "packing"
  /\ UNCHANGED <<slot, submitted, gateVars, poolVars, producerVars, countVars,
                 index_tx_write, force_quit>>

SkipPack ==
  /\ tpc = "pack"
  /\ ~PackReady
  /\ tpc' = "generate"
  /\ slot' = NextSlot
  /\ UNCHANGED <<submitted, gateVars, poolVars, producerVars, countVars,
                 index_tx_write, force_quit>>

EndPackKeepsCount ==   \* mutant: ServiceEN_tx[n, 3] is not reset
  /\ tpc = "packing"
  /\ cbtaskNum' = [cbtaskNum EXCEPT ![slot] = 0]
  /\ gate' = [gate EXCEPT ![slot] = @ + 1]
  /\ readyNum_tx' = readyNum_tx + 1
  /\ tpc' = "post"
  /\ UNCHANGED <<slot, submitted, segmented, modulated, poolVars, producerVars,
                 startNum_tx, cache_tx, index_tx_write, force_quit>>

\* The frame is packed: the slot is free again and the frame is announced.
EndPack ==
  /\ tpc = "packing"
  /\ modulated' = [modulated EXCEPT ![slot] = 0]
  /\ cbtaskNum' = [cbtaskNum EXCEPT ![slot] = 0]
  /\ gate' = [gate EXCEPT ![slot] = @ + 1]
  /\ readyNum_tx' = readyNum_tx + 1
  /\ tpc' = "post"
  /\ UNCHANGED <<slot, submitted, segmented, poolVars, producerVars, startNum_tx,
                 cache_tx, index_tx_write, force_quit>>

PostNothing ==         \* mutant: sem_post is missing
  /\ tpc = "post"
  /\ index_tx_write' = Advance(index_tx_write)
  /\ tpc' = "generate"
  /\ slot' = NextSlot
  /\ UNCHANGED <<submitted, gateVars, poolVars, producerVars, countVars, force_quit>>

\* sem_post(&cache_tx), and the write index moves on.
PostFrame ==
  /\ tpc = "post"
  /\ cache_tx' = Post(cache_tx)
  /\ index_tx_write' = Advance(index_tx_write)
  /\ tpc' = "generate"
  /\ slot' = NextSlot
  /\ UNCHANGED <<submitted, gateVars, poolVars, producerVars, startNum_tx,
                 readyNum_tx, force_quit>>

\* force_quit was seen: sem_post(&tx_can_be_destroyed) and return.
ExitScheduler ==
  /\ tpc = "generate" /\ ~MaySchedule
  /\ tpc' = "exited"
  /\ UNCHANGED <<slot, submitted, gateVars, poolVars, producerVars, countVars,
                 index_tx_write, force_quit>>

Scheduler ==
  \/ Generate \/ SkipGenerate \/ AddSegm
  \/ Modulate \/ SkipModulate \/ AddMod
  \/ BeginPack \/ SkipPack \/ EndPack \/ PostFrame
  \/ ExitScheduler

-----------------------------------------------------------------------------
(* pool 2 *)

StartTask(w) ==
  /\ Pool!Start(w)
  /\ UNCHANGED <<schedVars, gateVars, producerVars, countVars, index_tx_write, force_quit>>

\* The task's last statement: ServiceEN_tx[ServiceEN_index]++ under its mutex.
FinishTask(w) ==
  /\ Pool!Finish(w)
  /\ LET n == running[w][2]
     IN \/ /\ running[w][1] = "crc_cbsegm"
           /\ segmented' = [segmented EXCEPT ![n] = @ + 1]
           /\ UNCHANGED modulated
        \/ /\ running[w][1] = "crc_mod"
           /\ modulated' = [modulated EXCEPT ![n] = @ + 1]
           /\ UNCHANGED segmented
  /\ UNCHANGED <<schedVars, gate, cbtaskNum, producerVars, countVars,
                 index_tx_write, force_quit>>

Worker(w) == StartTask(w) \/ FinishTask(w)

-----------------------------------------------------------------------------
(* l2fwd_main_producer *)

\* The loop test, then the unlocked look at readyNum_tx.
Poll ==
  /\ ppc = "loop"
  /\ ppc' = IF force_quit THEN "exited"
            ELSE IF readyNum_tx <= 0 THEN "blocked" ELSE "send"
  /\ UNCHANGED <<packet, index_tx_read, schedVars, gateVars, poolVars, countVars,
                 index_tx_write, force_quit>>

\* sem_wait(&cache_tx) returns.
Awake ==
  /\ ppc = "blocked"
  /\ cache_tx > 0
  /\ cache_tx' = cache_tx - 1
  /\ ppc' = "send"
  /\ UNCHANGED <<packet, index_tx_read, schedVars, gateVars, poolVars, startNum_tx,
                 readyNum_tx, index_tx_write, force_quit>>

\* No frame, no credit (send_token = 0), or no mbuf: nothing is sent.
SendNothing ==
  /\ ppc = "send"
  /\ ppc' = "loop"
  /\ UNCHANGED <<packet, index_tx_read, schedVars, gateVars, poolVars, countVars,
                 index_tx_write, force_quit>>

\* A packet of the frame, not its last one.
SendPacket ==
  /\ ppc = "send" /\ readyNum_tx > 0
  /\ packet + 1 < FramePackets
  /\ packet' = packet + 1
  /\ ppc' = "loop"
  /\ UNCHANGED <<index_tx_read, schedVars, gateVars, poolVars, countVars,
                 index_tx_write, force_quit>>

\* The last packet: the read index moves on and the frame is no longer ready.
SendLast ==
  /\ ppc = "send" /\ readyNum_tx > 0
  /\ packet + 1 >= FramePackets
  /\ packet' = 0
  /\ index_tx_read' = Advance(index_tx_read)
  /\ readyNum_tx' = readyNum_tx - 1
  /\ ppc' = "release"
  /\ UNCHANGED <<schedVars, gateVars, poolVars, startNum_tx, cache_tx,
                 index_tx_write, force_quit>>

\* startNum_tx--: the scheduler may start another frame.
Release ==
  /\ ppc = "release"
  /\ startNum_tx' = startNum_tx - 1
  /\ ppc' = "loop"
  /\ UNCHANGED <<packet, index_tx_read, schedVars, gateVars, poolVars, readyNum_tx,
                 cache_tx, index_tx_write, force_quit>>

Producer == Poll \/ Awake \/ SendNothing \/ SendPacket \/ SendLast \/ Release

\* signal_handler, on SIGINT or SIGTERM.
SignalHandler ==
  /\ ~force_quit
  /\ force_quit' = TRUE
  /\ UNCHANGED <<schedVars, gateVars, poolVars, producerVars, countVars, index_tx_write>>

-----------------------------------------------------------------------------
Next ==
  \/ Scheduler
  \/ \E w \in Workers : Worker(w)
  \/ Producer
  \/ SignalHandler

Spec == Init /\ [][Next]_vars

\* The scheduler, the workers and the producer are threads pinned to cores of
\* their own, so each runs whenever it can.  The strong fairness of sending says that the
\* credits come back again and again, so that a producer that keeps finding a frame
\* ready does not send nothing for ever: that holds while the receiver has room for
\* frames again and again and fewer packets fail than there are credits
\* (CreditFlow.tla, CreditsReturn), and not beyond.
Fairness ==
  /\ WF_vars(Scheduler)
  /\ \A w \in Workers : WF_vars(Worker(w))
  /\ WF_vars(Producer)
  /\ SF_vars(SendPacket) /\ SF_vars(SendLast)

FairSpec == Spec /\ Fairness

-----------------------------------------------------------------------------
(* Vocabulary of the properties *)

\* Slot n has a subframe in the making.
Busy(n) == gate[n] = 0 \/ (slot = n /\ tpc = "addSegm")

BusySlots == {n \in Slots : Busy(n)}

\* Tasks t that are listed or run.
Listed(t)      == Cardinality({i \in DOMAIN queue : queue[i] = t})
InExecution(t) == Cardinality({w \in Workers : running[w] = t})
Outstanding(t) == Listed(t) + InExecution(t)

\* The ring positions the producer has sent, is sending or is going to send.
ReadyWindow ==
  {i \in 0 .. PACK_CACHE - 1 :
     \E j \in 0 .. readyNum_tx - 1 :
       i = index_tx_read + j \/ i = index_tx_read + j - PACK_CACHE}

-----------------------------------------------------------------------------
\* Every variable stays in its range; the gates of a slot never count past the
\* number of tasks of their stage.
TypeOK ==
  /\ startNum_tx \in 0 .. PACK_CACHE
  /\ readyNum_tx \in 0 .. PACK_CACHE
  /\ cache_tx \in 0 .. SEM_VALUE_MAX
  /\ gate \in [Slots -> {0, 1}]
  /\ segmented \in [Slots -> 0 .. LayerNum]
  /\ modulated \in [Slots -> 0 .. LayerNum * CbMax]
  /\ cbtaskNum \in [Slots -> 0 .. LayerNum * CbMax]
  /\ index_tx_write \in 0 .. PACK_CACHE - 1
  /\ index_tx_read \in 0 .. PACK_CACHE - 1
  /\ queue \in Seq(Tasks)
  /\ running \in [Workers -> Tasks \union {NoTask}]
  /\ tpc \in SchedulerStates
  /\ slot \in Slots
  /\ submitted \in 0 .. LayerNum * CbMax
  /\ ppc \in ProducerStates
  /\ packet \in 0 .. FramePackets - 1
  /\ force_quit \in BOOLEAN

\* startNum_tx, the only bound on the frames in the system, counts exactly the
\* slots at work, the frames in the ring and the frame being released: no
\* interleaving of the two unlocked tests loses or invents a frame.
FrameAccounting ==
  startNum_tx = Cardinality(BusySlots) + readyNum_tx + (IF ppc = "release" THEN 1 ELSE 0)

\* The source data, code blocks and symbols of a slot are shared with the
\* workers without a lock: a slot that is free, or that is being packed, has no
\* task listed or running.
SlotQuiescent ==
  \A n \in Slots :
    (~Busy(n) \/ (tpc = "packing" /\ slot = n)) =>
      \A k \in Stages : Outstanding(<<k, n>>) = 0

\* The scheduler resets a gate without its mutex, which is safe only when no
\* worker can still increment it; and stage 2 reads the segmentation of a layer
\* only when all its layers are segmented.
NoLostIncrement ==
  /\ tpc = "addMod" => /\ Outstanding(<<"crc_cbsegm", slot>>) = 0
                       /\ segmented[slot] = LayerNum
  /\ tpc = "packing" => modulated[slot] = cbtaskNum[slot]

\* The scheduler writes a ring position only when it is outside the window the
\* producer reads, although it never looks at readyNum_tx or index_tx_read.
NoOverwrite == tpc = "packing" => index_tx_write \notin ReadyWindow

\* A producer that waits for cache_tx while a frame is ready has a post to
\* wake it, or one coming.
NoMissedFrame ==
  (ppc = "blocked" /\ readyNum_tx > 0) => (cache_tx > 0 \/ tpc = "post")

\* startNum_tx and readyNum_tx implement the bounded buffer of frames.
ImplementsFrameBuffer == Frames!Spec

\* The frame at the read index is sent completely, unless the program is told
\* to stop: no wakeup is lost between the scheduler and the producer.
FramesAreSent ==
  \A i \in 0 .. PACK_CACHE - 1 :
    (readyNum_tx > 0 /\ index_tx_read = i) ~> (index_tx_read # i \/ force_quit)

\* A subframe that was started reaches the ring: its slot becomes free again.
SubframesComplete ==
  \A n \in Slots : (gate[n] = 0) ~> (gate[n] = 1 \/ force_quit)

\* "Signal %d received, preparing to exit..." (main.c, signal_handler): the
\* producer's loop ends after a signal, so that main's wait for the lcores ends.
ProducerExits == force_quit ~> (ppc = "exited")

=============================================================================
