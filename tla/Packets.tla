------------------------------ MODULE Packets ------------------------------
(***************************************************************************)
(* What becomes of the frames when their packets are numbered, lost and    *)
(* unpacked.  The sender's producer numbers the packets of a frame by      *)
(* (type, num): type 0 is the header with block sizes, channel qualities   *)
(* and SNR, type 1 the received samples, types 2 and up the sent bits of   *)
(* one layer each (package, S/main.c).  The link keeps the order, may lose *)
(* packets, and, as the port is promiscuous, may bring frames of other     *)
(* traffic, which depackage rejects (see Strays). The receiver's depackage *)
(* puts each packet where its (type, num) says, completes a frame with the *)
(* last packet whatever came before, and keeps a prediction (type_pre,     *)
(* num_pre) of what comes next, by which it counts wrong packets in        *)
(* err_count.txt.                                                          *)
(*                                                                         *)
(* Room and readiness are as in RxPipeline, without its semaphores; here   *)
(* packets have contents: the frame they were cut from.                    *)
(***************************************************************************)
EXTENDS Integers, Sequences, FiniteSets, SequencesExt

CONSTANTS
  PACK_CACHE,     \* places in the ring package_rx
  MAX_BEAM,       \* layers whose sent bits a frame carries
  SamplePackets,  \* packets of type 1 (896)
  DataPackets,    \* packets of each later type (72)
  PARA_NUM_RX,    \* slots of the receive scheduler
  MaxFrames,      \* frames the sender sends
  MaxLost,        \* packets the link loses
  MaxStray,       \* frames of other traffic
  Window          \* packets between the programs at a time

ASSUME PacketsAssumption ==
  /\ PACK_CACHE \in Nat \ {0} /\ MAX_BEAM \in Nat \ {0} /\ PARA_NUM_RX \in Nat \ {0}
  /\ SamplePackets \in Nat \ {0} /\ DataPackets \in Nat \ {0}
  /\ MaxFrames \in Nat /\ MaxLost \in Nat /\ MaxStray \in Nat
  /\ Window \in Nat \ {0}

VARIABLES
  frame_tx, type, num,   \* sender: frame at package_tx[index_tx_read], next packet
  wire,                  \* packets on their way, in order
  package_rx,            \* ring place -> part -> the frame that wrote it (0: none)
  index_rx_write, startNum_rx, readyNum_rx,
  index_rx_read, working,           \* the scheduler: next frame, slots at work
  type_pre, num_pre, err_count,     \* the prediction, and errors since its wrap
  lines,                 \* the lines of err_count.txt
  lost,                  \* history: <<frame, part>> of the lost packets
  strays,                \* history: number of foreign packets
  delivered              \* history: completed frames, with their wrong parts

txVars    == <<frame_tx, type, num>>
placeVars == <<package_rx, index_rx_write, startNum_rx, readyNum_rx, delivered>>
schedVars == <<index_rx_read, working>>
statVars  == <<type_pre, num_pre, err_count, lines>>
linkVars  == <<wire, lost, strays>>
vars      == <<txVars, placeVars, schedVars, statVars, linkVars>>

-----------------------------------------------------------------------------
(* Numbering *)

Frames == 1 .. MaxFrames
Ring   == 0 .. PACK_CACHE - 1
Types  == 0 .. 1 + MAX_BEAM

\* Packets of a type in one frame.
Count(t) == IF t = 0 THEN 1 ELSE IF t = 1 THEN SamplePackets ELSE DataPackets

\* The parts of a frame's buffers (block sizes, samples, the bits of each layer), each
\* one packet long.
Parts        == UNION {{t} \X (0 .. Count(t) - 1) : t \in Types}
LastPart     == <<1 + MAX_BEAM, DataPackets - 1>>
FramePackets == 1 + SamplePackets + MAX_BEAM * DataPackets

\* The sender numbers its next packet.
NextType == IF num + 1 < Count(type) THEN type ELSE (type + 1) % (2 + MAX_BEAM)
NextNum  == IF num + 1 < Count(type) THEN num + 1 ELSE 0

\* The receiver predicts the next packet from its last prediction, not from
\* the packet it has got.
PredictedType == IF num_pre + 1 < Count(type_pre) THEN type_pre
                                                  ELSE (type_pre + 1) % (2 + MAX_BEAM)
PredictedNum  == IF num_pre + 1 < Count(type_pre) THEN num_pre + 1 ELSE 0

Packet(f, t, n) == [frame |-> f, type |-> t, num |-> n, sized |-> TRUE]

\* Foreign frames that the check of depackage rejects: a short frame padded with
\* zeros looks like a header of length 0; the others are numbered just outside the
\* range of each type.  (Nothing checks where a frame comes from: foreign bytes that
\* happen to be in range are unpacked like a packet of the sender, with whatever
\* length they state.  Such frames are not modelled.)
Strays ==
  {[frame |-> 0, type |-> 0, num |-> 0, sized |-> FALSE]} \union
  {Packet(0, t, Count(t)) : t \in Types} \union {Packet(0, 2 + MAX_BEAM, 0)}

Init ==
  /\ frame_tx = 1 /\ type = 0 /\ num = 0
  /\ wire = <<>>
  /\ package_rx = [i \in Ring |-> [p \in Parts |-> 0]]
  /\ index_rx_write = 0 /\ startNum_rx = 0 /\ readyNum_rx = 0
  /\ index_rx_read = 0 /\ working = 0
  /\ type_pre = 0 /\ num_pre = 0 /\ err_count = 0 /\ lines = <<>>
  /\ lost = {} /\ strays = 0 /\ delivered = <<>>

-----------------------------------------------------------------------------
(* The sender and the link *)

\* l2fwd_main_producer packs the next packet; with the last of a frame it goes
\* on to the next frame of its ring.
SendPacket ==
  /\ frame_tx \in Frames
  /\ Len(wire) < Window
  /\ wire' = Append(wire, Packet(frame_tx, type, num))
  /\ type' = NextType /\ num' = NextNum
  /\ frame_tx' = IF <<type, num>> = LastPart THEN frame_tx + 1 ELSE frame_tx
  /\ UNCHANGED <<placeVars, schedVars, statVars, lost, strays>>

\* A packet is lost on the link, in a port, or in a full ring.
Lose ==
  /\ Cardinality(lost) < MaxLost
  /\ \E i \in DOMAIN wire :
       /\ wire[i].frame \in Frames
       /\ lost' = lost \union {<<wire[i].frame, <<wire[i].type, wire[i].num>>>>}
       /\ wire' = RemoveAt(wire, i)
  /\ UNCHANGED <<txVars, placeVars, schedVars, statVars, strays>>

\* Somebody else's frame arrives.
StrayArrives ==
  /\ strays < MaxStray
  /\ Len(wire) < Window
  /\ \E p \in Strays : wire' = Append(wire, p)
  /\ strays' = strays + 1
  /\ UNCHANGED <<txVars, placeVars, schedVars, statVars, lost>>

-----------------------------------------------------------------------------
(* l2fwd_main_consumer and depackage *)

RoomNotTested == TRUE                 \* mutant: startNum_rx is not tested

HasRoom == startNum_rx < PACK_CACHE

\* err_flag = 0
Accepted(p) ==
  \/ p.type = 0 /\ p.num = 0 /\ p.sized
  \/ p.type = 1 /\ p.num \in 0 .. SamplePackets - 1
  \/ p.type \in 2 .. 1 + MAX_BEAM /\ p.num \in 0 .. DataPackets - 1

WriteAsPredicted(p) ==                \* mutant: the packet goes where the next one was expected
  package_rx' = [package_rx EXCEPT ![index_rx_write][<<type_pre, num_pre>>] = p.frame]

\* The packet is copied to its place in the frame.
Write(p) ==
  package_rx' = [package_rx EXCEPT ![index_rx_write][<<p.type, p.num>>] = p.frame]

CountFirstSample(p) ==              \* mutant: a frame is counted by its first sample
  startNum_rx' = IF p.type = 1 /\ p.num = 0 THEN startNum_rx + 1 ELSE startNum_rx

\* startNum_rx++ for a header.
CountHeader(p) ==
  startNum_rx' = IF p.type = 0 THEN startNum_rx + 1 ELSE startNum_rx

\* The parts of place i that frame f did not write.
WrongParts(i, f) == {q \in Parts : package_rx'[i][q] # f}

\* The last packet makes the frame ready, whatever came before it.
Complete(p) ==
  IF <<p.type, p.num>> = LastPart
    THEN /\ index_rx_write' = (index_rx_write + 1) % PACK_CACHE
         /\ readyNum_rx' = readyNum_rx + 1
         /\ delivered' = Append(delivered, [frame |-> p.frame,
                                            wrong |-> WrongParts(index_rx_write, p.frame)])
    ELSE UNCHANGED <<index_rx_write, readyNum_rx, delivered>>

MismatchOfBoth(p) == p.type # type_pre /\ p.num # num_pre    \* mutant: && for ||

Mismatch(p) == p.type # type_pre \/ p.num # num_pre

\* The packet is compared with the prediction, which then moves on by one,
\* whatever has come; when it wraps, the errors go into a line of the file.
Predict(p) ==
  LET errors == err_count + (IF Mismatch(p) THEN 1 ELSE 0)
  IN /\ type_pre' = PredictedType /\ num_pre' = PredictedNum
     /\ IF PredictedType = 0
          THEN lines' = Append(lines, errors) /\ err_count' = 0
          ELSE err_count' = errors /\ UNCHANGED lines

\* The consumer dequeues a packet when there is room and unpacks it.
Depackage ==
  /\ HasRoom
  /\ wire # <<>>
  /\ wire' = Tail(wire)
  /\ LET p == Head(wire)
     IN /\ Predict(p)
        /\ IF Accepted(p) THEN CountHeader(p) /\ Write(p) /\ Complete(p)
                          ELSE UNCHANGED placeVars
  /\ UNCHANGED <<txVars, schedVars, lost, strays>>

-----------------------------------------------------------------------------
(* TaskScheduler_rx, as far as the ring goes *)

\* A free slot takes the oldest complete frame.
TakeFrame ==
  /\ readyNum_rx > 0 /\ working < PARA_NUM_RX
  /\ readyNum_rx' = readyNum_rx - 1
  /\ index_rx_read' = (index_rx_read + 1) % PACK_CACHE
  /\ working' = working + 1
  /\ UNCHANGED <<txVars, package_rx, index_rx_write, startNum_rx, delivered, statVars,
                 linkVars>>

FinishFrameKeepsPlace ==            \* mutant: startNum_rx-- is missing
  /\ working > 0
  /\ working' = working - 1
  /\ UNCHANGED <<txVars, package_rx, index_rx_write, startNum_rx, readyNum_rx, delivered,
                 index_rx_read, statVars, linkVars>>

\* The frame of a slot is finished: its place may be written again.
FinishFrame ==
  /\ working > 0
  /\ working' = working - 1
  /\ startNum_rx' = startNum_rx - 1
  /\ UNCHANGED <<txVars, package_rx, index_rx_write, readyNum_rx, delivered,
                 index_rx_read, statVars, linkVars>>

-----------------------------------------------------------------------------
Next == SendPacket \/ Lose \/ StrayArrives \/ Depackage \/ TakeFrame \/ FinishFrame

Spec == Init /\ [][Next]_vars

-----------------------------------------------------------------------------
(* Vocabulary of the properties *)

\* The complete frames no slot has taken yet.
ReadyWindow == {(index_rx_read + j) % PACK_CACHE : j \in 0 .. readyNum_rx - 1}

LostOf(f)  == {q \in Parts : <<f, q>> \in lost}
Whole(d)   == d.wrong = {}

\* The statistic can tell: less than a frame's worth of packets is missing, and
\* nothing came in between that could make up for them.
FewLost == strays = 0 /\ Cardinality(lost) < FramePackets

\* An error is counted, in a line or on the way to one.
Noticed == err_count > 0 \/ \E l \in DOMAIN lines : lines[l] > 0

-----------------------------------------------------------------------------
TypeOK ==
  /\ frame_tx \in 1 .. MaxFrames + 1 /\ <<type, num>> \in Parts
  /\ wire \in Seq([frame : 0 .. MaxFrames, type : 0 .. 2 + MAX_BEAM, num : Nat, sized : BOOLEAN])
  /\ Len(wire) <= Window
  /\ package_rx \in [Ring -> [Parts -> 0 .. MaxFrames]]
  /\ index_rx_write \in Ring /\ index_rx_read \in Ring
  /\ startNum_rx \in -MaxLost .. PACK_CACHE
  /\ readyNum_rx \in 0 .. MaxFrames
  /\ working \in 0 .. PARA_NUM_RX
  /\ <<type_pre, num_pre>> \in Parts
  /\ err_count \in 0 .. FramePackets - 1
  /\ lines \in Seq(0 .. FramePackets)
  /\ lost \in SUBSET (Frames \X Parts)
  /\ strays \in 0 .. MaxStray
  /\ delivered \in Seq([frame : Frames, wrong : SUBSET Parts])

\* Reception comes to a stop (no room for another frame, none complete and none at
\* work, so that nothing will make room) only when the last packets of PACK_CACHE - 1
\* frames are lost: the frame being received takes the last place.  No other loss, no
\* rejected packet and no order of the steps leaves a place taken for ever.
StopsOnlyByLosses ==
  (startNum_rx >= PACK_CACHE /\ readyNum_rx = 0 /\ working = 0) =>
    Cardinality({f \in Frames : LastPart \in LostOf(f)}) >= PACK_CACHE - 1

\* A loss damages exactly what it hits: a completed frame lacks just its own
\* lost packets, frames come in the order they were sent, and one is missing
\* only if its last packet was lost.  Nothing is ever put into a wrong part or a
\* neighbouring frame, although depackage does not know which frame a packet
\* belongs to.
FramesAsSent ==
  /\ \A k \in DOMAIN delivered : delivered[k].wrong = LostOf(delivered[k].frame)
  /\ \A k \in 1 .. Len(delivered) - 1 : delivered[k].frame < delivered[k + 1].frame
  /\ \A f \in Frames, k \in DOMAIN delivered :
       (f < delivered[k].frame /\ LastPart \notin LostOf(f)) =>
         \E j \in 1 .. k : delivered[j].frame = f

\* A complete frame that no slot has taken is not written to, as long as no
\* header was lost: other losses make startNum_rx too large, never too small.
ReadyFramesKept ==
  [][ (\A f \in Frames : <<0, 0>> \notin LostOf(f)) =>
        \A i \in ReadyWindow : package_rx'[i] = package_rx[i] ]_vars

\* While FewLost holds, a line 0 of err_count.txt certifies its frame, and no
\* damaged frame is handed on without an error counted before.  (A burst of
\* exactly FramePackets, or a foreign frame in the place of a lost packet, goes
\* unnoticed: the prediction only counts packets.)
StatisticSeesLoss ==
  FewLost =>
    /\ \A l \in DOMAIN lines :
         lines[l] = 0 => /\ l \in DOMAIN delivered
                         /\ delivered[l].frame = l /\ Whole(delivered[l])
    /\ (\E k \in DOMAIN delivered : ~Whole(delivered[k]) \/ delivered[k].frame # k) => Noticed

\* The prediction is not resynchronised: after the first line with an error
\* every packet counts as wrong, so only that line says anything about a loss.
OutOfStepForEver ==
  FewLost =>
    \A l, m \in DOMAIN lines : (lines[l] > 0 /\ l < m) => lines[m] = FramePackets

=============================================================================
