----------------------------- MODULE CreditFlow -----------------------------
(***************************************************************************)
(* Flow control between the two programs.  The sender starts with          *)
(* TokenInit credits (send_token).  Its producer spends one per data       *)
(* packet; the receiver's consumer gains one when it has unpacked that     *)
(* packet, the receiver's producer spends it on a feedback packet, and the *)
(* sender gains it back when the feedback arrives.  Nothing else bounds    *)
(* the packets in flight: loop_receive ignores the result of               *)
(* rte_ring_mp_enqueue, and there is no retransmission.                    *)
(*                                                                         *)
(* Each program has a producer lcore that tests send_token WITHOUT its     *)
(* mutex, a ring ring_send, and a lcore loop_send that moves packets from  *)
(* the ring to the buffer of the Ethernet port and flushes it.  The network *)
(* and the ports may drop packets, and the mbuf pool may be empty: at most *)
(* MaxLost of these failures happen, and at most MaxStray packets come from *)
(* elsewhere.  Contents of packets are left out.                           *)
(*                                                                         *)
(* An lcore takes part when it has come through its start-up (StartUp), so *)
(* that packets arrive before their consumer may touch the ring of frames. *)
(***************************************************************************)
EXTENDS StartUp

CONSTANTS
  TokenInit,   \* SEND_TOKEN_INIT of the sender
  RingSize,    \* the packets ring_send and ring_receive can hold
  Burst,       \* the packets loop_send dequeues between two flushes
  MaxLost,     \* how many packets fail
  MaxStray     \* how many packets come from elsewhere

ASSUME CreditAssumption ==
  /\ TokenInit \in Nat \ {0}
  /\ RingSize \in Nat /\ MaxStray \in Nat /\ TokenInit + MaxStray <= RingSize
  /\ Burst \in Nat \ {0}
  /\ MaxLost \in Nat

VARIABLES
  send_token,    \* program -> its credits
  ppc,           \* program -> where its producer is
  ring_send,     \* program -> packets in the ring
  tx_buffer,     \* program -> packets waiting for the flush
  wire,          \* program -> packets on the link behind it
  ring_receive,  \* the receiver's packets waiting for the consumer
  cpc,           \* where the receiver's consumer is
  room,          \* startNum_rx < PACK_CACHE: the consumer may take a packet
  lost,          \* packets that failed, each with its credit
  strays         \* packets that came from elsewhere, each a credit

trafficVars ==
  <<send_token, ppc, ring_send, tx_buffer, wire, ring_receive, cpc, room,
    lost, strays>>

vars == <<startVars, trafficVars>>

ProducerStates == {"test", "take", "alloc", "enqueue"}

Init ==
  /\ InitStart
  /\ send_token = [p \in Programs |-> IF p = "sender" THEN TokenInit ELSE 0]
  /\ ppc = [p \in Programs |-> "test"]
  /\ ring_send = [p \in Programs |-> 0]
  /\ tx_buffer = [p \in Programs |-> 0]
  /\ wire = [p \in Programs |-> 0]
  /\ ring_receive = 0
  /\ cpc = "poll" /\ room = TRUE
  /\ lost = 0 /\ strays = 0

-----------------------------------------------------------------------------
(* l2fwd_main_producer, of either program *)

TestNothing(p) ==     \* mutant: send_token is not tested
  /\ InLoop(p, "p") /\ ppc[p] = "test"
  /\ ppc' = [ppc EXCEPT ![p] = "take"]
  /\ UNCHANGED <<startVars, send_token, ring_send, tx_buffer, wire, ring_receive,
                 cpc, room, lost, strays>>

\* The unlocked test; the sender's producer also needs a frame that is ready.
TestToken(p) ==
  /\ InLoop(p, "p") /\ ppc[p] = "test"
  /\ send_token[p] > 0
  /\ ppc' = [ppc EXCEPT ![p] = "take"]
  /\ UNCHANGED <<startVars, send_token, ring_send, tx_buffer, wire, ring_receive,
                 cpc, room, lost, strays>>

TakeNoToken(p) ==     \* mutant: send_token-- is missing
  /\ ppc[p] = "take"
  /\ ppc' = [ppc EXCEPT ![p] = "alloc"]
  /\ UNCHANGED <<startVars, send_token, ring_send, tx_buffer, wire, ring_receive,
                 cpc, room, lost, strays>>

\* send_token-- under mutex_send_token.
TakeToken(p) ==
  /\ ppc[p] = "take"
  /\ send_token' = [send_token EXCEPT ![p] = @ - 1]
  /\ ppc' = [ppc EXCEPT ![p] = "alloc"]
  /\ UNCHANGED <<startVars, ring_send, tx_buffer, wire, ring_receive, cpc, room,
                 lost, strays>>

\* rte_pktmbuf_alloc and package.
Package(p) ==
  /\ ppc[p] = "alloc"
  /\ ppc' = [ppc EXCEPT ![p] = "enqueue"]
  /\ UNCHANGED <<startVars, send_token, ring_send, tx_buffer, wire, ring_receive,
                 cpc, room, lost, strays>>

\* rte_pktmbuf_alloc returns NULL: continue, without giving the credit back.
AllocFails(p) ==
  /\ ppc[p] = "alloc"
  /\ lost < MaxLost
  /\ lost' = lost + 1
  /\ ppc' = [ppc EXCEPT ![p] = "test"]
  /\ UNCHANGED <<startVars, send_token, ring_send, tx_buffer, wire, ring_receive,
                 cpc, room, strays>>

\* rte_ring_mp_enqueue, repeated while the ring is full.
Enqueue(p) ==
  /\ ppc[p] = "enqueue"
  /\ ring_send[p] < RingSize
  /\ ring_send' = [ring_send EXCEPT ![p] = @ + 1]
  /\ ppc' = [ppc EXCEPT ![p] = "test"]
  /\ UNCHANGED <<startVars, send_token, tx_buffer, wire, ring_receive, cpc, room,
                 lost, strays>>

-----------------------------------------------------------------------------
(* l2fwd_main_loop_send, of either program *)

\* One of the Burst dequeues of a drain.
Dequeue(p) ==
  /\ InLoop(p, "send")
  /\ ring_send[p] > 0 /\ tx_buffer[p] < Burst
  /\ ring_send' = [ring_send EXCEPT ![p] = @ - 1]
  /\ tx_buffer' = [tx_buffer EXCEPT ![p] = @ + 1]
  /\ UNCHANGED <<startVars, send_token, ppc, wire, ring_receive, cpc, room, lost,
                 strays>>

\* rte_eth_tx_buffer_flush: the port takes k packets, the others are dropped.
Flush(p) ==
  /\ InLoop(p, "send")
  /\ tx_buffer[p] > 0
  /\ \E k \in 0 .. tx_buffer[p] :
       /\ lost + tx_buffer[p] - k <= MaxLost
       /\ lost' = lost + tx_buffer[p] - k
       /\ wire' = [wire EXCEPT ![p] = @ + k]
  /\ tx_buffer' = [tx_buffer EXCEPT ![p] = 0]
  /\ UNCHANGED <<startVars, send_token, ppc, ring_send, ring_receive, cpc, room,
                 strays>>

\* The link or the other port drops a packet.
LosePacket(p) ==
  /\ wire[p] > 0 /\ lost < MaxLost
  /\ wire' = [wire EXCEPT ![p] = @ - 1]
  /\ lost' = lost + 1
  /\ UNCHANGED <<startVars, send_token, ppc, ring_send, tx_buffer, ring_receive,
                 cpc, room, strays>>

-----------------------------------------------------------------------------
(* What arrives *)

\* Foreign traffic on the link behind program p: the ports are promiscuous, and
\* neither program asks where a packet comes from before it counts it.
StrayArrives(p) ==
  /\ strays < MaxStray
  /\ strays' = strays + 1
  /\ wire' = [wire EXCEPT ![p] = @ + 1]
  /\ UNCHANGED <<startVars, send_token, ppc, ring_send, tx_buffer, ring_receive,
                 cpc, room, lost>>

\* The receiver's loop_receive: a packet that finds ring_receive full is gone,
\* because nobody looks at the result of the enqueue.
DataArrives ==
  /\ InLoop("receiver", "receive")
  /\ wire["sender"] > 0
  /\ wire' = [wire EXCEPT !["sender"] = @ - 1]
  /\ IF ring_receive < RingSize
       THEN ring_receive' = ring_receive + 1 /\ UNCHANGED lost
       ELSE lost' = lost + 1 /\ UNCHANGED ring_receive
  /\ UNCHANGED <<startVars, send_token, ppc, ring_send, tx_buffer, cpc, room,
                 strays>>

\* The consumer, while there is room for frames, dequeues a packet and unpacks it:
\* the packet may be the header that takes the last place.
Consume ==
  /\ InLoop("receiver", "c")
  /\ cpc = "poll"
  /\ room
  /\ ring_receive > 0
  /\ ring_receive' = ring_receive - 1
  /\ room' \in BOOLEAN
  /\ cpc' = "credit"
  /\ UNCHANGED <<startVars, send_token, ppc, ring_send, tx_buffer, wire, lost, strays>>

\* The receiver's scheduler finishes a frame: startNum_rx-- and sem_post.
FrameFinished ==
  /\ ~room
  /\ room' = TRUE
  /\ UNCHANGED <<startVars, send_token, ppc, ring_send, tx_buffer, wire, ring_receive,
                 cpc, lost, strays>>

CreditTwice ==        \* mutant: the consumer gains two credits per packet
  /\ cpc = "credit"
  /\ send_token' = [send_token EXCEPT !["receiver"] = @ + 2]
  /\ cpc' = "poll"
  /\ UNCHANGED <<startVars, ppc, ring_send, tx_buffer, wire, ring_receive, room,
                 lost, strays>>

\* The consumer's send_token++.
Credit ==
  /\ cpc = "credit"
  /\ send_token' = [send_token EXCEPT !["receiver"] = @ + 1]
  /\ cpc' = "poll"
  /\ UNCHANGED <<startVars, ppc, ring_send, tx_buffer, wire, ring_receive, room,
                 lost, strays>>

FeedbackIgnored ==    \* mutant: the sender's send_token++ is missing
  /\ InLoop("sender", "receive")
  /\ wire["receiver"] > 0
  /\ wire' = [wire EXCEPT !["receiver"] = @ - 1]
  /\ UNCHANGED <<startVars, send_token, ppc, ring_send, tx_buffer, ring_receive,
                 cpc, room, lost, strays>>

\* The sender's loop_receive: every packet that arrives is a credit.
FeedbackArrives ==
  /\ InLoop("sender", "receive")
  /\ wire["receiver"] > 0
  /\ wire' = [wire EXCEPT !["receiver"] = @ - 1]
  /\ send_token' = [send_token EXCEPT !["sender"] = @ + 1]
  /\ UNCHANGED <<startVars, ppc, ring_send, tx_buffer, ring_receive, cpc, room,
                 lost, strays>>

-----------------------------------------------------------------------------
Producer(p) == TestToken(p) \/ TakeToken(p) \/ Package(p) \/ AllocFails(p) \/ Enqueue(p)

LoopSend(p) == Dequeue(p) \/ Flush(p)

\* The lcores and schedulers come up.
Start == (\E p \in Programs : StartStep(p)) /\ UNCHANGED trafficVars

Next ==
  \/ Start
  \/ \E p \in Programs : Producer(p) \/ LoopSend(p) \/ LosePacket(p) \/ StrayArrives(p)
  \/ DataArrives \/ Consume \/ FrameFinished \/ Credit \/ FeedbackArrives

Spec == Init /\ [][Next]_vars

\* Every lcore and scheduler is a thread that starts and then polls for ever on
\* a core of its own; failures never have to happen.  A consumer that has room is
\* never left waiting (RxPipeline.tla, NoMissedRoom, whatever is lost), and only its
\* own step takes the room away.  Nothing is assumed of FrameFinished: after the
\* loss of the last packets of PACK_CACHE - 1 frames there may be no frame to finish
\* any more (Packets.tla, StopsOnlyByLosses).
Fairness ==
  /\ \A p \in Programs :
       /\ \A l \in Lcores : WF_vars(StartLcore(p, l) /\ UNCHANGED trafficVars)
       /\ WF_vars(SchedulerPrepared(p) /\ UNCHANGED trafficVars)
       /\ WF_vars(WaitRing(p) /\ UNCHANGED trafficVars)
  /\ \A p \in Programs :
       /\ WF_vars(TestToken(p) \/ TakeToken(p) \/ Package(p) \/ Enqueue(p))
       /\ WF_vars(Dequeue(p)) /\ WF_vars(Flush(p))
  /\ WF_vars(DataArrives) /\ WF_vars(Consume \/ Credit) /\ WF_vars(FeedbackArrives)

FairSpec == Spec /\ Fairness

-----------------------------------------------------------------------------
(* Vocabulary of the properties *)

\* The credit the producer has taken and not yet put into the ring.
InHand(p) == IF ppc[p] \in {"alloc", "enqueue"} THEN 1 ELSE 0

\* The credits program p holds, in its counter or as packets on their way out.
Held(p) == send_token[p] + InHand(p) + ring_send[p] + tx_buffer[p] + wire[p]

\* The data packets the receiver has and has not acknowledged.
Unacknowledged == ring_receive + (IF cpc = "credit" THEN 1 ELSE 0)

-----------------------------------------------------------------------------
\* The counters are never negative: a producer that saw a credit without the
\* mutex still finds it when it takes it.
TypeOK ==
  /\ StartTypeOK
  /\ send_token \in [Programs -> Nat]
  /\ ppc \in [Programs -> ProducerStates]
  /\ ring_send \in [Programs -> Nat]
  /\ tx_buffer \in [Programs -> 0 .. Burst]
  /\ wire \in [Programs -> Nat]
  /\ ring_receive \in Nat
  /\ cpc \in {"poll", "credit"} /\ room \in BOOLEAN
  /\ lost \in Nat /\ strays \in 0 .. MaxStray

\* A credit disappears only with a packet that failed, and is made only by a
\* packet from elsewhere, which both programs take for one of their own: wherever
\* they are, the credits and the failures add up to TokenInit and the strays.
CreditConservation ==
  Held("sender") + Held("receiver") + Unacknowledged + lost = TokenInit + strays

\* The rings are larger than the number of credits, foreign ones included, so a
\* packet always finds room: no arriving packet is dropped by the enqueue whose result loop_receive
\* ignores, and no producer spins on a full ring.
RingsHaveRoom ==
  /\ wire["sender"] > 0 => ring_receive < RingSize
  /\ \A p \in Programs : ppc[p] = "enqueue" => ring_send[p] < RingSize

\* Nobody touches a ring of frames before its scheduler has set it up, and no
\* lcore is in its loop before its partner runs: a packet may wait in
\* ring_receive for a consumer that is not allowed to unpack it yet.
StartedInOrder ==
  /\ \A p \in Programs, l \in Lcores : InLoop(p, l) => stage[p][Partner(l)] # "launched"
  /\ ppc["sender"] \in {"alloc", "enqueue"} => ring_exists["sender"]
  /\ cpc = "credit" => ring_exists["receiver"]

\* Both programs come up whatever the order in which their threads start: no
\* lcore waits for a post that has been taken by another.
AllStart == <>(\A p \in Programs, l \in Lcores : InLoop(p, l))

\* As long as fewer packets fail than there were credits and the receiver finds
\* room for frames again and again, the sender gets credits again and again.  A
\* receiver that loses the last packets of PACK_CACHE - 1 frames finds none (fewer
\* than the credits, SEND_TOKEN_INIT is 32), and then no credit comes back either.
CreditsReturn == []<>room => []<>(send_token["sender"] > 0)

=============================================================================
