# Verification of the NCRL data processing server

TLA+ models of the two programs of `src/workspace/dp_DPDK2.2_debug/`, checked
with TLC and, but for liveness, proved with TLAPS. This directory holds the modules, the
TLC configurations and `PROJECT.json`, which lists runs, mutants, findings,
hazards, theorems and, for every definition that models code, the lines it
models.

Below `S/` stands for `src/workspace/dp_DPDK2.2_debug/dataProcess_send/` and
`R/` for `.../dataProcess_receive/`.

## 1. Inventory

The repository holds an LTE/5G baseband chain at several stages of its life: a
single-threaded simulation (`single/`), the same chain on thread pools in one
process (`multi/`, `multi_old/`), five successive pairs of DPDK programs
(`workspace/dp_DPDK*`), link tests (`workspace/server_test`), the examples of
the DPDK distribution, an LDPC experiment, and plots. The latest pair, version
2.2, contains all the mechanisms of the others and is the one modelled. Each of
its programs is one process of pinned threads:

```
 SENDER                                                        RECEIVER
 TaskScheduler_tx (pool 0)                                     TaskScheduler_rx (pool 1)
   | crc_cbsegm, crc_mod        package_tx                       ^ package_rx   | chest_calsym,
   v tasks                     (PACK_CACHE frames)               | (in place)   v derm_crc, crc_check
 pool 2 workers   ---->  l2fwd_main_producer             l2fwd_main_consumer   pool 3 worker
                            | ring_send                          ^ ring_receive
                            v                                    |
                        l2fwd_main_loop_send  == Ethernet ==> l2fwd_main_loop_receive
                        l2fwd_main_loop_receive <== feedback == l2fwd_main_loop_send
                            send_token++                        ^ ring_send
                                                        l2fwd_main_producer (one feedback
                                                        per packet the consumer unpacked)
```

| Component | Code | State | Operations | Hard behaviour | Correct when |
|---|---|---|---|---|---|
| Thread pool | `S/thread_pool.c` (same file in `R/`) | task list, `isClose`, mutex, condition variable | `pool_init`, `pool_add_task`, `thread_run`, `pool_destroy` | signals outside the mutex, spurious wakeups, close without the mutex | a task is run once, in order, and soon; destroying the pool ends |
| Transmit scheduler | `S/TaskScheduler.c:70-668` | gates `ServiceEN_tx[n,1..3]`, `cbtaskNum[n]`, `startNum_tx`, `readyNum_tx`, `index_tx_write` | three polled stages per slot | gates are incremented by workers under a mutex and reset without it; counters tested without their mutex | stages of a slot do not overlap; no frame is overwritten before it is sent; every subframe is finished |
| Frame producer | `S/main.c:666-818` | `index_tx_read`, packet `(type, num)` | wait for a frame, send a packet, release the frame | test-then-wait on `cache_tx`, two counters under two mutexes | every ready frame is sent; the program can stop |
| Frame consumer | `R/main.c:463-648, 917-993` | `index_rx_write`, `startNum_rx`, `readyNum_rx`, `rx_buff_is_not_full` | wait for room, unpack a packet, announce a frame | lost packets, test-then-wait, frames counted and not named | a frame in use is not overwritten; reception goes on |
| Receive scheduler | `R/TaskScheduler.c:659-1336` | gates `ServiceEN_rx`, `BERsignal[n]`, `cbtaskNum[n]`, pointers into `package_rx`, `index_rx_read` | four polled stages per slot | works in place on the ring, frames finish out of order | as for the sender, and the statistics compare what was received |
| Credit flow control | `S/main.c:624-664, 735-809`, `R/main.c:753-789, 865-915, 967-971` | `send_token` of both programs, the rings | take a credit, send, unpack, give the credit back | unlocked test, unchecked enqueue, losses | credits are conserved; rings never overflow; the sender gets credits again while the receiver has room |
| Packets | `package` in `S/main.c:344-523`, `depackage` in `R/main.c:480-648` | `type_pre`, `num_pre`, `err_count` | build and parse a packet | losses, foreign packets, a prediction that is never resynchronised | damage stays inside the frame that lost packets; only lost last packets stop reception; the statistic shows the loss |
| lcore loops | `S/main.c:526-664`, `R/main.c:651-790` | rings, transmit buffer, mbufs | drain, flush, receive a burst | mbuf ownership | partly modelled (credits and start-up only) |
| Start and stop | `main` of both | `lcore_*_prepared`, `*_prepared`, `force_quit`, `*_can_be_destroyed` | launch, handshake, signal, join | everyone waits for everyone, packets that arrive before the ring exists | all lcores reach their loops; nobody touches a ring before it is set up; partly modelled (start-up and exits) |
| Segmentation, rate matching | `S/cbsegm.c`, `S/crc_mod.c`, `R/derm_crc.c` | records of the tasks | segment, place symbols and bytes | two sides compute the same offsets in different ways | blocks tile the transport block and the symbols, and come back where they were; rate matching not modelled |
| Numeric kernels | turbo code, channel estimation, QAM, CRC | none shared | floating point, SIMD | - | not modelled: outside TLC's reach |
| `Tx_buff`, `Rx_buff` | `S/`, `R/TaskScheduler.c` (end) | flat buffers | copying tasks | - | not modelled: nothing schedules them in 2.2 |
| Older versions, simulations, LDPC, DPDK examples, MATLAB | elsewhere | - | - | - | not modelled: superseded, vendored or stand-alone |

How the components interact:

* `TaskScheduler_*` calls `pool_add_task` (pool 2 on the sender, pool 3 on the
  receiver); a task's last statement increments a gate of its slot under a
  mutex, and the scheduler polls the gates without it.
* The scheduler and the producer (consumer) share the frame ring through two
  counters and one semaphore per direction: `startNum`, `readyNum`, `cache_tx`
  (`cache_rx`, `rx_buff_is_not_full`).
* The lcores of a program share `ring_send`, `ring_receive` and `send_token`;
  the two programs share nothing but packets.
* `signal_handler` sets `force_quit`, which every loop polls, except where a
  thread waits on a semaphore.

The hazards this code is exposed to are listed in `PROJECT.json`, each at its
line, with the properties that watch it or the reason why none does yet.

## 2. Modules

| Module | Models | Kind |
|---|---|---|
| `TaskPool` | what the pool promises its callers: a FIFO list, each task taken once | abstract |
| `ThreadPool` | `thread_pool.c`: mutex, condition variable, closing | detailed, implements `TaskPool` |
| `ThreadPool_proofs` | theorems about `ThreadPool` | proofs |
| `FrameBuffer` | what `startNum` and `readyNum` promise: a bounded buffer of frames | abstract |
| `TxPipeline` | sender: scheduler, pool 2, producer | composes `TaskPool`, implements `FrameBuffer` |
| `RxPipeline` | receiver: consumer, scheduler, pool 3, lossy network | composes `TaskPool`, implements `FrameBuffer` while nothing is lost |
| `StartUp` | launch of the lcores, `lcore_*_prepared`, `tx_prepared`, `rx_prepared` | a part of `CreditFlow` |
| `CreditFlow` | credits through both programs and the link, from the launch on | composes `StartUp` |
| `CreditFlow_proofs` | theorems about `CreditFlow` | proofs |
| `TaskCounting` | lemmas: how often a task is listed or run (`Load`) when a list grows, shrinks, or a worker changes its task | proofs |
| `TxPipeline_proofs` | theorems about `TxPipeline` | proofs |
| `RxPipeline_proofs` | theorems about `RxPipeline` | proofs |
| `Packets` | numbering, loss, checking and placing of packets, `err_count.txt` | detailed |
| `Packets_proofs` | theorems about `Packets` | proofs |
| `CodeBlocks` | segmentation, task records and offsets of both schedulers, `crc_mod`, `derm_crc` | detailed |
| `CodeBlocks_proofs` | theorems about `CodeBlocks` | proofs |
| `MCCodeBlocks` | the sizes for TLC and initial states with one layer free | model checking |

The pipelines use the actions of `TaskPool`, not those of `ThreadPool`: the
latter is shown to implement the former (by TLC and by proof), so the hazards of
the mutex and the condition variable are examined once, and the pipelines stay
small enough to be checked with several slots. For liveness the pipelines use
that an idle worker takes a listed task, which is `EveryTaskStarts` of
`ThreadPool`. In the same way `CreditsReturn` of `CreditFlow` is the reason why
the producer of `TxPipeline` does not lack credits for ever, under the conditions
named there: the receiver has room for frames again and again, and fewer packets fail
than there are credits. That it has room again and again is `ReceptionGoesOn` of
`RxPipeline` while nothing is lost. With losses it may be false (`rx_shutdown_lossy`),
so `CreditFlow` assumes nothing about it: `room` is set again by `FrameFinished`,
which has no fairness.

### How state and actions correspond to the code

A step is what happens between two points where another thread can interfere
with what the step reads or writes. A critical section of a mutex is one step;
the parts of a loop body that touch only the thread's own data are folded into
the neighbouring shared access. An unlocked test of a shared counter is a step of its
own where another thread can make it wrong before it is used: the tests before the
waits (`Poll`, `TestRoom`) and `TestToken`. Where no thread can, test
and use are one step: `startNum_tx < PACK_CACHE` in `Generate`, `readyNum_tx > 0` in
`SendPacket` and `SendLast`, `startNum_rx < PACK_CACHE` in `HasRoom`. Each of these
counters is incremented by one thread and decremented by one other, and the thread
that does not test moves it only the way that keeps the test true.

* **`ThreadPool`.** `wpc[w]` is the place in `thread_run`. The test of `isClose`
  (`DecideToWait`) and the entry into `pthread_cond_wait` (`CondWait`) are two
  steps although the mutex is held, because `pool_destroy` (`Close`,
  `Broadcast`) runs without it. `Signal` is apart from `AddTask`, since the code
  signals after the unlock. `SpuriousWakeup` is what POSIX allows.
* **`TxPipeline`.** `tpc`, `slot` and `submitted` are the place in
  `TaskScheduler_tx`: for each slot stage 1 (`Generate`, one `AddSegm` per
  layer), stage 2 (`Modulate`, one `AddMod` per code block), stage 3
  (`BeginPack` .. `EndPack`, `PostFrame`), with a `Skip` action for each closed
  gate. Workers take and finish tasks between any two of them. The number of
  code blocks a layer has is drawn when stage 2 opens, since it depends on the
  channel quality read from a file. `ppc` is the place in
  `l2fwd_main_producer`; `SendNothing` stands for a missing credit or an empty
  mbuf pool. `cbtaskNum` starts with any values: the local array is not
  initialised in the code.
* **`RxPipeline`.** `position` is the packet that the network delivers next: the
  packets of a frame come in the order the sender numbers them, a header (type
  0), the samples (type 1), the sent bits (types 2 to 9). `LosePacket` skips
  one. `frameOf[n]` is the ring place slot `n` has pointers into. The consumer
  tests `startNum_rx` twice per packet (`TestRoom`, then `HasRoom`), as the code
  does.
* **`StartUp`.** `stage[p][l]` is the place of lcore `l` of program `p` between its
  launch and its loop. The four lcores and the scheduler of a program run in any
  order. `CreditFlow` guards the traffic of an lcore with `InLoop`; an lcore deeper
  in its loop has another place of its own (`ppc`, `cpc`).
* **`Packets`.** A frame is a set of parts, one for each `(type, num)`; a place of
  `package_rx` maps each part to the frame that wrote it. `SendPacket` numbers as
  the producer does; `Depackage` is the whole of `depackage` with the dequeue before
  it: the check `err_flag`, `startNum_rx++` for a header, the copy, the completion
  by the last packet, the comparison with the prediction, and the prediction's
  advance with its line in `err_count.txt`. The shared counters are changed by one
  step each; their interleaving inside `depackage` is the subject of `RxPipeline`.
  `TakeFrame` and `FinishFrame` are what the scheduler does to the ring. `Strays` are
  foreign frames that `depackage` rejects; those whose bytes happen to be in range,
  which it would unpack, are left out (section 6).
* **`CodeBlocks`.** `pc`, `i`, `r` are the place in the loops of stage 2 on either
  side, `s` and `c` the running offsets of those loops. The records
  `crc_mod_args` and `derm_crc_args` are functions from record number to record;
  `Read` and `Write` are the bytes that the tasks `crc_mod` and `derm_crc` touch,
  computed from their record alone, as in the code.
* **`CreditFlow`.** Packets are counted, not named: all packets are alike as
  far as credits go. `StrayArrives` puts a foreign packet on the link of either
  direction; both programs count it as one of their own. `room` is the
  consumer's test `startNum_rx < PACK_CACHE`: any packet it unpacks may take the last
  place, and `FrameFinished` gives one back. `Flush` may drop any number of buffered packets, which is
  what `rte_eth_tx_buffer_flush` does through the error callback.

Definitions whose comment starts with `mutant:` are not part of any
specification. Each is one definition of the model changed as a plausible
mistake in the code would change it; substituting it must make a property fail,
which shows that the property depends on that line of the code.

## 3. Runs

| Run | Question | Bounds | Result |
|---|---|---|---|
| `thread_pool` | does `thread_pool.c` implement a FIFO pool that starts every task and drops none? | 3 workers, 2 submitters with 2 tasks each | holds |
| `thread_pool_destroy` | does `pool_destroy` always return? | 1 worker, 1 task | **violated** |
| `tx_pipeline` | are stages apart, counters exact, the ring safe? | 2 slots, 2 frames, 2 layers of 1..2 code blocks, 2 workers, 2 packets per frame | holds |
| `tx_pipeline_live` | as long as credits return, is every subframe finished and every frame sent? | 2 slots, 2 frames, 2 layers, 1 worker | holds |
| `tx_shutdown` | does the producer exit after a signal? | everything 1 | **violated** |
| `rx_pipeline` | are frames in use safe, stages apart, and is `startNum_rx` off by exactly the lost last packets less the lost headers? | 2 slots, 3 frames, 2 estimation tasks, 1 worker, 1 loss | holds |
| `rx_statistics` | do the error statistics compare against the right bits? | 2 slots, 3 frames, no loss | **violated** |
| `rx_pipeline_live` | without loss, does reception go on, do subframes finish and both sides exit? | 2 slots, 2 frames, no loss | holds |
| `rx_shutdown_lossy` | do both sides exit after a signal when packets were lost? | 2 slots, 2 frames, 1 loss | **violated** |
| `credit_flow` | do both programs come up in any order; are credits conserved, rings never full, credits returned while the receiver has room? | 2 credits, rings of 3, bursts of 2, 1 loss, 1 foreign packet | holds |
| `packets` | what do losses and a rejected foreign packet do to frames, ring and statistic? | 3 frames of 6 packets, ring of 2, 1 slot, up to 6 losses, 1 foreign packet | holds |
| `code_blocks` | do segmentation and offsets of both sides agree, for every size? | all 10797 sizes of the second of 2 layers, 14400 symbols | holds |

Why these bounds are enough to make the interesting cases happen:

* **Workers.** Three workers let one sleep, one be on its way and one run. The
  receiver's pool 3 really has one thread (`threadNum_rx = 1`, `R/main.c:57`).
  That number matters: with two workers `SamplesInPlace` fails for
  `PACK_CACHE = 3` and `SBNum = 2`, because a later frame may then be finished
  while a task of an earlier one still runs.
* **Slots and frames.** Two slots on a ring of two places wrap the ring, fill
  it, and finish subframes out of order. On the receiver a header uses up the
  last place of the ring before its frame is complete, so the usable capacity
  is `PACK_CACHE - 1` and a ring of one place stops for ever after the first
  header: `rx_pipeline` uses three places. `rx_statistics` needs one slot to be
  overtaken by two later frames.
* **Semaphores.** `SEM_VALUE_MAX` of 1 or 2 makes a semaphore saturate, so that
  a property cannot hold merely because posts accumulate.
* **Code blocks and layers.** Two layers of one or two code blocks tell apart
  "all layers", "all code blocks" and "one of them".
* **Losses.** `MaxLost` bounds the packets lost; one loss of each kind of packet
  is reached, and one lost last packet stops a ring of two frames.
* **Credits.** Two credits and a foreign packet put up to three packets on their way,
  as many as the rings hold and more than a burst; one of the two credits may fail, so
  that a credit is left. `CreditFlow_proofs` covers every other number.
* **Packets.** A frame of a header, one packet of samples and two layers of two
  packets has each kind of boundary the numbering knows: from one type to the next
  with and without several numbers, and from the last type to the header. Six
  losses are as many as a frame has packets, which is where `FewLost` ends; three
  frames wrap the ring of two. Foreign packets are numbered just behind each range,
  behind the last type, or look like an empty header. One packet at a time is on the
  link: its order is kept anyway, and what a longer queue would add is only when it
  is read.
* **Code blocks.** These are the real numbers: the table of 188 sizes, 14400 symbols,
  24 bits of checksum. Only the number of layers is smaller (two instead of eight):
  the first layer shows what is carried over to the next, its own size being fixed.

The conditions of three properties are needed, as TLC shows by a counterexample
without them: `StatisticSeesLoss` and `OutOfStepForEver` without `FewLost` (a burst
of exactly one frame shifts nothing, and a foreign packet in the place of a lost one
keeps the count), `ReadyFramesKept` without "no header was lost".

`CHECK_DEADLOCK FALSE` is set where the program may stop: all tasks of the pool
model are done, every thread has exited after a signal, all frames are sent, or the
subframe is through.

### What the runs say about losses

`packets` confirms that a loss cannot spread through the frames: a packet goes where
its own `(type, num)` says, so a completed frame lacks just its own lost packets and
shows older contents there. What it completes is still announced as ready. The
statistic in `err_count.txt` is weaker than its name: the first line with an error
marks the loss, but the prediction is not resynchronised and every later line shows
all packets of a frame as wrong (`OutOfStepForEver`). A lost header is the one loss
that endangers frames in the ring: `startNum_rx` is then too small for ever, and the
consumer may write over a complete frame. A lost last packet makes `startNum_rx` too
large for ever; after `PACK_CACHE - 1` of them (19, fewer than the 32 credits) the next
header takes the last place, reception stops, and no credit goes back to the sender any
more. Nothing else stops it (`StopsOnlyByLosses`). Lost packets of samples and data
shift no counter (`AccountingDrift`). All this is about losses and rejected foreign
frames: a foreign frame that happens to be in range is taken for one of the sender's.

### What the violated runs show

* `DestroyReturns`. `thread_pool.c:87`: "唤醒所有等待线程，然后销毁线程池" (wake up
  all waiting threads, then destroy the pool). `isClose` is written and the
  broadcast sent without the mutex: a worker between the `while` test and
  `pthread_cond_wait` misses the only wakeup and `pthread_join` never returns.
* `ProducerExits`. The producer waits on `cache_tx` without a look at
  `force_quit`, and the scheduler that leaves its loop posts only
  `tx_can_be_destroyed`: `main` waits for the producer's lcore for ever. The
  receiver has the post the sender lacks (`R/main.c:989-992`, "wake up when
  finished").
* `TestDataInPlace`. `startNum_rx` counts frames, but places of the ring are
  freed in the order frames finish, while the consumer fills them in the order
  of the ring. When two later frames finish first, the consumer overwrites the
  sent bits that a slow slot compares in its statistics: bit errors are counted
  that never happened. The samples are safe (`SamplesInPlace`), because the
  pool's single worker estimates frames in order.
* `BothExit`. When the last packets of `PACK_CACHE - 1` frames are lost and the next
  header comes, `startNum_rx` is full with no frame ready; the consumer waits for the
  scheduler and the scheduler for the consumer, and a signal ends neither.

## 4. Fairness

Every scheduler, producer, consumer and worker is a thread on a core of its own
(`stick_this_thread_to_core`, `rte_eal_remote_launch`), so weak fairness of each
thread is justified. Beyond that:

* `ThreadPool`: strong fairness of `Lock`: a thread that tries to get the mutex
  again and again gets it, as the futex wait queue provides. `SpuriousWakeup`,
  `AddTask` and `Close` have no fairness: nothing promises them.
* `TxPipeline`: strong fairness of `SendPacket` and `SendLast`: a producer that
  keeps finding a frame ready has a credit and an mbuf again and again. The code
  provides that only while `CreditsReturn` does: reception goes on, and fewer packets
  fail than there are credits. After 32 failures, or 19 lost last packets, the sender
  stops, and `tx_pipeline_live` says nothing about it.
* `RxPipeline`: strong fairness of `Depackage`: the sender keeps sending, so a
  consumer that polls for ever finds packets. Losses have no fairness.
* `CreditFlow`: weak fairness of the start of every lcore and scheduler, since each is a
  thread that has been launched, and of every polling loop; failures (`AllocFails`,
  `LosePacket`, drops in `Flush`) never have to happen. The consumer moves on only when
  it has `room`; its fairness then rests on `NoMissedRoom` of `RxPipeline`, which holds
  whatever is lost. `FrameFinished` has no fairness, and `CreditsReturn` has the
  condition `[]<>room` instead.

## 5. Proofs

Every theorem holds for all values of the constants allowed by the assumption of
its module, which the code justifies:

| Assumption | Says | Because |
|---|---|---|
| `ThreadPoolAssumption` | finitely many workers, at least one, and submitters; the markers for "no task" and "nobody" are no task and no worker | `pool_init` creates `threadNum` threads |
| `CreditAssumption` | 0 < `TokenInit`, `TokenInit + MaxStray <= RingSize`, bursts of at least one | `SEND_TOKEN_INIT` is 32 (`S/main.c:97`), the rings have 1024 places (`S/main.c:991`, `R/main.c:1126`); that few foreign frames arrive is an assumption about the link |
| `TxAssumption`, `RxAssumption` | slots, ring places, layers, code blocks, packets per frame and `SEM_VALUE_MAX` are positive, finitely many workers | the macros of `S/config.h` and `R/config.h` |
| `PacketsAssumption` | the same for the numbers of `Packets`; losses and foreign frames are bounded by any number | as above |
| `CodeBlocksAssumption` | a transport block and its checksum are whole bytes and fit the symbols of a layer | the sizes are those of `S/TaskScheduler.c`, made from the channel quality |
| `RecordsAssumption` | `(MAX_SYMBOL_NUM * MAX_CQI_MOD - 1) \div 6120 <= (MAX_SYMBOL_NUM * MAX_CQI_MOD) \div 6144`: the records of a layer suffice for its code blocks | 14400 symbols of 6 bits: both quotients are 14. It is a condition on the macros, and not empty: with 12246 bits, for example, a layer could have three blocks and two records |

Two theorems need one thing more, which their statements say. `RxPipeline_proofs!Implements`
assumes `MaxLost = 0`: with one lost header the last packet of its frame commits what was
never reserved, as TLC shows in six states. `SamplesSafe` assumes `OneWorker`, which is how `main` sets up pool 3
(`threadNum_rx = 1`, `R/main.c:57`); with two workers it is false, as said in section 3.

**`CreditFlow_proofs`** (`TypeCorrect`, `Conservation`, `NoRingOverflows`, `StartOrder`). The
inductive invariant is `CreditInv == TypeOK /\ TokenStillThere /\
CreditConservation`. `TypeOK` says `send_token` is never negative, which does not
follow from itself: the producer tests the counter without the mutex and
decrements it later. `TokenStillThere` (a producer that saw a credit still finds
it) holds because only its own thread spends credits. That the rings never
overflow is arithmetic on the conservation law and `TokenInit + MaxStray <= RingSize`.
`StartOrder` rests on `StartUpInv == StartTypeOK /\ Posted /\ Working`: what an lcore
may conclude from a wait is what was true of the post (`Posted`), so the invariant
speaks of the semaphores and not only of who has arrived; `Working` ties the places
inside the loops to `InLoop`.

**`ThreadPool_proofs`** (`TypeCorrect`, `DestroyDiscardsNothing`,
`NoSignalMissed`, `Implements`). `PoolInv == TypeOK /\ ClosedOnce /\ SawNothing
/\ NothingDiscarded`. `NothingDiscarded` needs to know that `isClose` is set by
the destroyer alone (`ClosedOnce`), whose caller adds no more tasks; and
`SawNothing` says that a worker about to sleep really saw an empty list, since it
holds the mutex. `WorkConserving` is
inductive relative to `PoolInv`; its steps compare the sizes of two finite sets,
the workers on their way to the list and the submitters about to signal.

**`TxPipeline_proofs`** (`TypeCorrect`, `Accounting`, `Quiescent`,
`NoIncrementLost`, `RingSafe`, `NoFrameMissed`, `Implements`). `TxInv == Types /\
Phases /\ Counters`.

* `Phases` is the strengthening the properties need. None of `SlotQuiescent`
  and `NoLostIncrement` is inductive: they say that tasks are finished at one
  moment, and why they are is the history of the slot. `Phases` says that each
  slot is in one of five phases (`Idle`, `AddingSegm`, `Segmenting`,
  `AddingMod`, `Modulating`) and in each phase where its tasks are: the count in
  the gate plus the tasks listed and running is the number submitted. A
  finished task moves from the second part to the first, so the sum stays
  (`FinishMoves`); a gate at its full count therefore leaves nothing outstanding,
  and the unlocked reset is safe.
* `Counters` holds `FrameAccounting` and the distance of the two ring indices,
  which is `readyNum_tx` up to the ring size, less one between the announcement
  of a frame and the step of the write index (`Between`). It may be -1 for a
  moment, when the producer sends the frame in that gap. `NoOverwrite` follows
  with the bound `readyNum_tx < startNum_tx <= PACK_CACHE` of a slot being packed.
* `NoMissedFrame` is inductive once the types are known.
* `Implements`: `Generate`, `EndPack`, `SendLast` and `Release` are `Reserve`,
  `Commit`, `Take` and `Release` of `FrameBuffer`; all other steps stutter.

`TaskCounting` holds the lemmas on which `Phases` rests, here and in
`RxPipeline_proofs`: the number of places of a task in a list and of the workers
that run it, when a task is appended, the head is taken, or a worker changes its
task.

**`RxPipeline_proofs`** (`TypeCorrect`, `DriftIsLosses`, `Quiescent`, `ReadySafe`,
`NoRoomMissed`, `SamplesSafe`, `Implements`). `RxInv == Types /\ Phases /\ Counters`.

* `Phases` is as on the sender, with seven phases for the three stages of a slot.
* `Counters` says what the drift of `startNum_rx` is: `Drift = lostLasts - lostHeaders`,
  two counts of losses the model keeps as history variables, which no action reads. The
  bounds of `TypeOK` on `readyNum_rx` and `startNum_rx` after losses come out of it, as
  both counts together are at most `lost`. While nothing is lost it also fixes the
  distance of the ring indices, from which `ReadySafe` follows.
* `SamplesSafe` needs a second invariant, `FrameOrder`. That `startNum_rx` has room says
  how many frames are in use, not which. `Ordered` says that the single worker runs
  the tasks of an older frame first, `Youngest` that the frames still being estimated
  are the last ones taken from the ring, without a gap; so the oldest of them is no
  further back than there are busy slots, and the ring cannot have come round to it.
* `Implements`: the header, the last packet, the last `chest_calsym` task and the
  statistics are `Reserve`, `Commit`, `Take` and `Release` of `FrameBuffer`.

**`Packets_proofs`** (`TypeCorrect`, `StopsByLosses`, `OrderKept`, `ReadyFramesSafe`,
`LossSeen`, `NeverInStepAgain`). `depackage` never learns which frame a packet belongs
to, so what it does right it does right by the order of the packets, and no property
is inductive without it. `PktInv` numbers all packets through (`Serial`, the packets of
earlier frames plus the place in the frame) and says of every packet numbered so far
whether it is lost, on the wire, or in the set `Arrived` (`Link`: numbers grow along the
wire, and all that has arrived is older than all that is on it). Then

* `Contents`: what the ring holds has arrived, and the packets of the frame being
  filled lie in its place; with `Link` this gives, at the last packet of a frame, that
  the place differs from the frame exactly where packets were lost (`WrongAreLost`);
* `Deliveries`: every frame whose last packet has arrived is in `delivered`, in order;
* `Rooms`: `startNum_rx - working - readyNum_rx` is the headers arrived less the last
  packets arrived. A frame whose last packet arrives without its header lost a header
  (`NoMoreLasts`), so without lost headers `readyNum_rx < PACK_CACHE` whenever the
  consumer has room, and the place it writes is not a complete one;
  The same equation gives `StopsByLosses`: with no frame complete or at work,
  `startNum_rx` counts the frames whose header has come and whose last packet has not,
  and all of these but the one being received have lost theirs (`Unfinished`);
* `Counted`: while nothing foreign has come, the prediction is the number of packets
  taken, and a packet on the wire is ahead of it by the losses before it;
* `Statistic`: so a packet meets the prediction exactly if nothing, or a multiple of a
  whole frame, was lost before it; with fewer losses than `FramePackets` the prediction
  agrees until the first loss passes and never again.

**`CodeBlocks_proofs`** (`TypeCorrect`, `Mirrored`, `SymbolsUsedOnce`, `BytesTaken`).
`CbInv == Loops /\ Sides /\ Filled(..) /\ Filled(..)`: where the loops of the two
schedulers stand (the running offsets are the sums of the shares and pieces behind
them), that both sides have segmented the same sizes, and that every block behind the
loops, and no other, has its record. The rest is arithmetic on `srslte_cbsegm`: the table
of block lengths is described by its four steps of 8, 16, 32 and 64 bits instead of its
188 numbers, which gives that the filler bits fit the first block and are whole bytes,
and that the pieces add up.

## 6. What is only model-checked, and what is not modelled

Only model-checked:

* every liveness property (`EveryTaskStarts`, `SubframesComplete` of both pipelines,
  `FramesAreSent`, `CreditsReturn`, `AllStart`, `ReceptionGoesOn`, `BothExit`): the proof
  system has no rule for fairness and ENABLED. Every invariant, action property and
  refinement that a passing run checks is also proved;
* the properties a run shows violated, of course.

None of the modules declares a RECURSIVE operator, and no theorem needs an
induction over data, which the provers in use could not do.

Not modelled: the components listed as such in the inventory, for the reasons
given there. Inside the modelled parts these are left out:

* the length field of packets, by which `depackage` multiplies `num` and which it
  checks for the header only: it is taken to be the 1200 the sender always passes;
* foreign frames that `depackage` accepts: it looks at three bytes and asks neither
  where a frame comes from nor, for types 1 to 9, how long it says it is. The
  properties of `Packets` and `RxPipeline` are about losses, and assume that no such
  frame comes; that the literals 896 and 72 of the check (`R/main.c:498-500`) agree
  with the sizes of the buffers is a fact about constants that no run examines;
* a transport block of length 0 and a failed `srslte_cbsegm`, for which a stage
  would have no task to wait for;
* the float arithmetic of `ceilf((float) B / 6120)`: the model rounds the exact
  quotient up, which is the same, as `B` is a multiple of 8 and a float tells a
  quotient of 15 from one that is larger by 8/6120;
* rate matching inside a code block and the bits themselves;
* mbufs: `loop_send` frees an mbuf right after `rte_eth_tx_buffer` has stored it. What
  that leads to depends on the reference counts and per-core caches of the DPDK
  mempool, whose code is not in the repository;
* `pthread_create` failing, and a second `pool_destroy`;
* the end of `main`: `rte_eal_wait_lcore`, `*_can_be_destroyed`, closing the ports.
  What blocks there is blocked in the threads whose exits are modelled;
* weak memory: every read sees the last write. The flags and counters are plain or
  `volatile` variables in the code; the loops that poll them call functions of other
  translation units, so that the compiler reads them anew.

## 7. Plan

Done: `TaskPool`, `ThreadPool`, `FrameBuffer`, `TxPipeline`, `RxPipeline`, `StartUp`,
`CreditFlow`, `Packets`, `CodeBlocks`, and proofs about all of them.

Next, in this order:

1. The conditional theorems, made sharper where the code allows it: what remains of
   `ReadyFramesIntact` and `SamplesInPlace` after losses that do not include a header.
2. Safety facts on which the liveness properties rest (that some action is open whenever
   work is left), stated without ENABLED, so that they can be proved for every number
   of slots and credits.
3. `System`: credits, sender and receiver composed over the lossy link, with an
   abstract specification of the whole (every frame generated is received once,
   in order, while nothing is lost).
