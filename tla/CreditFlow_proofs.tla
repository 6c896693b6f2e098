-------------------------- MODULE CreditFlow_proofs --------------------------
(***************************************************************************)
(* CreditFlow: the credits are conserved and no ring is ever full, for any *)
(* number of credits, any ring that holds them, and any number of losses;  *)
(* and no lcore works before what it relies on has been started.           *)
(***************************************************************************)
EXTENDS CreditFlow, TLAPS

\* A producer that is about to take a credit still finds one: the credits of a
\* program are taken by its producer alone.
TokenStillThere == \A p \in Programs : ppc[p] = "take" => send_token[p] > 0

\* The inductive invariant.  Conservation alone does not keep send_token from
\* becoming negative, and the types alone do not bound the rings.
CreditInv == TypeOK /\ TokenStillThere /\ CreditConservation

\* Every credit starts in a send_token.
LEMMA InitInv == Init => CreditInv
  <1> SUFFICES ASSUME Init PROVE CreditInv
    OBVIOUS
  <1> USE CreditAssumption DEF Init, Programs
  <1>0. StartTypeOK
    BY DEF InitStart, StartTypeOK, Stages, Lcores
  <1>1. TypeOK
    BY <1>0 DEF TypeOK, ProducerStates
  <1>2. TokenStillThere
    BY DEF TokenStillThere
  <1>3. CreditConservation
    BY DEF CreditConservation, Held, InHand, Unacknowledged
  <1> QED
    BY <1>1, <1>2, <1>3 DEF CreditInv

\* The traffic leaves the start-up alone.
LEMMA StartTypeKept == StartTypeOK /\ UNCHANGED startVars => StartTypeOK'
  BY DEF StartTypeOK, startVars

\* A semaphore is decremented only when it is positive, so its value is natural.
LEMMA StartType ==
  ASSUME StartTypeOK, NEW p \in Programs, StartStep(p)
  PROVE  StartTypeOK'
  <1> USE DEF StartTypeOK, Stages
  <1>1. ASSUME NEW l \in Lcores, PostPrepared(p, l) PROVE StartTypeOK'
    BY <1>1 DEF PostPrepared
  <1>2. ASSUME NEW l \in Lcores, WaitPartner(p, l) PROVE StartTypeOK'
    <2>1. Partner(l) \in Lcores
      BY DEF Partner, Lcores
    <2> QED
      BY <1>2, <2>1 DEF WaitPartner
  <1>3. CASE SchedulerPrepared(p)
    BY <1>3 DEF SchedulerPrepared
  <1>4. CASE WaitRing(p)
    <2>1. RingUser(p) \in Lcores
      BY DEF RingUser, Lcores
    <2> QED
      BY <1>4, <2>1 DEF WaitRing
  <1> QED
    BY <1>1, <1>2, <1>3, <1>4 DEF StartStep, StartLcore

\* The producers keep the invariant.
LEMMA ProducerInv ==
  ASSUME CreditInv, NEW p \in Programs, Producer(p)
  PROVE  CreditInv'
  <1> USE CreditAssumption DEF CreditInv, Programs, TypeOK, ProducerStates, TokenStillThere,
          CreditConservation, Held, InHand, Unacknowledged
  <1>0. UNCHANGED startVars => StartTypeOK'
    BY StartTypeKept
  <1>1. CASE TestToken(p)
    BY <1>0, <1>1 DEF TestToken, startVars
  <1>2. CASE TakeToken(p)
    BY <1>0, <1>2 DEF TakeToken, startVars
  <1>3. CASE Package(p)
    BY <1>0, <1>3 DEF Package, startVars
  <1>4. CASE AllocFails(p)
    <2>1. TypeOK' /\ TokenStillThere'
      BY <1>0, <1>4 DEF AllocFails, startVars
    <2>2. InHand(p)' + lost' = InHand(p) + lost
      BY <1>4 DEF AllocFails
    <2>3. CreditConservation'
      BY <1>4, <2>2 DEF AllocFails
    <2> QED
      BY <2>1, <2>3
  <1>5. CASE Enqueue(p)
    BY <1>0, <1>5 DEF Enqueue, startVars
  <1> QED
    BY <1>1, <1>2, <1>3, <1>4, <1>5 DEF Producer

\* So do loop_send and the link.
LEMMA LinkInv ==
  ASSUME CreditInv, NEW p \in Programs, LoopSend(p) \/ LosePacket(p) \/ StrayArrives(p)
  PROVE  CreditInv'
  <1> USE CreditAssumption DEF CreditInv, Programs, TypeOK, ProducerStates, TokenStillThere,
          CreditConservation, Held, InHand, Unacknowledged
  <1>0. UNCHANGED startVars => StartTypeOK'
    BY StartTypeKept
  <1>1. CASE Dequeue(p)
    BY <1>0, <1>1 DEF Dequeue, startVars
  <1>2. CASE Flush(p)
    <2>1. PICK k \in 0 .. tx_buffer[p] :
            /\ lost' = lost + tx_buffer[p] - k
            /\ wire' = [wire EXCEPT ![p] = @ + k]
      BY <1>2 DEF Flush
    <2> QED
      BY <1>0, <1>2, <2>1 DEF Flush, startVars
  <1>3. CASE LosePacket(p)
    BY <1>0, <1>3, SMTT(30) DEF LosePacket, startVars
  <1>4. CASE StrayArrives(p)
    BY <1>0, <1>4 DEF StrayArrives, startVars
  <1> QED
    BY <1>1, <1>2, <1>3, <1>4 DEF LoopSend

\* And what the two programs do with arriving packets.
LEMMA ArrivalInv ==
  ASSUME CreditInv, DataArrives \/ Consume \/ FrameFinished \/ Credit \/ FeedbackArrives
  PROVE  CreditInv'
  <1> USE CreditAssumption DEF CreditInv, Programs, TypeOK, ProducerStates, TokenStillThere,
          CreditConservation, Held, InHand, Unacknowledged
  <1>0. UNCHANGED startVars => StartTypeOK'
    BY StartTypeKept
  <1>1. CASE DataArrives
    BY <1>0, <1>1 DEF DataArrives, startVars
  <1>2. CASE Consume
    BY <1>0, <1>2 DEF Consume, startVars
  <1>3. CASE FrameFinished
    BY <1>0, <1>3 DEF FrameFinished, startVars
  <1>4. CASE Credit
    BY <1>0, <1>4 DEF Credit, startVars
  <1>5. CASE FeedbackArrives
    BY <1>0, <1>5 DEF FeedbackArrives, startVars
  <1> QED
    BY <1>1, <1>2, <1>3, <1>4, <1>5

\* The start-up leaves the credits alone.
LEMMA StartInv ==
  ASSUME CreditInv, Start
  PROVE  CreditInv'
  <1>1. StartTypeOK'
    BY StartType DEF Start, CreditInv, TypeOK
  <1> QED
    BY <1>1 DEF Start, trafficVars, CreditInv, TypeOK, TokenStillThere, CreditConservation,
                Held, InHand, Unacknowledged

\* Every step of either program, of the link or of its failures keeps the invariant.
LEMMA StepInv == CreditInv /\ [Next]_vars => CreditInv'
  <1> SUFFICES ASSUME CreditInv, [Next]_vars PROVE CreditInv'
    OBVIOUS
  <1>1. CASE Next
    BY <1>1, StartInv, ProducerInv, LinkInv, ArrivalInv DEF Next
  <1>2. CASE UNCHANGED vars
    BY <1>2, StartTypeKept DEF vars, trafficVars, CreditInv, TypeOK, TokenStillThere, CreditConservation, Held,
                InHand, Unacknowledged
  <1> QED
    BY <1>1, <1>2

\* The credit invariant holds in every interleaving of both programs and the link.
THEOREM Inductive == Spec => []CreditInv
  BY InitInv, StepInv, PTL DEF Spec

\* The counters are never negative, although they are tested without a lock.
THEOREM TypeCorrect == Spec => []TypeOK
  <1>1. CreditInv => TypeOK
    BY DEF CreditInv
  <1> QED
    BY <1>1, Inductive, PTL

\* Credits and failures always add up to TokenInit and the foreign packets.
THEOREM Conservation == Spec => []CreditConservation
  <1>1. CreditInv => CreditConservation
    BY DEF CreditInv
  <1> QED
    BY <1>1, Inductive, PTL

\* No ring is full when a packet comes to it.
THEOREM NoRingOverflows == Spec => []RingsHaveRoom
  <1>1. CreditInv => RingsHaveRoom
    BY CreditAssumption DEF CreditInv, RingsHaveRoom, TypeOK, Programs, CreditConservation,
       Held, InHand, Unacknowledged
  <1> QED
    BY <1>1, Inductive, PTL

-----------------------------------------------------------------------------
(* The start-up *)

\* Where a post comes from and what it allows: a positive lcore_*_prepared was
\* posted by its lcore, a positive tx_prepared (rx_prepared) by a scheduler
\* whose ring is set up, and the traffic of an lcore begins in its loop.
Posted ==
  /\ \A p \in Programs, l \in Lcores : lcore_prepared[p][l] > 0 => stage[p][l] # "launched"
  /\ \A p \in Programs, l \in Lcores :
       stage[p][l] \in {"paired", "loop"} => stage[p][Partner(l)] # "launched"
  /\ \A p \in Programs : ring_prepared[p] > 0 => ring_exists[p]
  /\ \A p \in Programs : stage[p][RingUser(p)] = "loop" => ring_exists[p]

Working ==
  /\ ppc \in [Programs -> ProducerStates]
  /\ \A p \in Programs : ppc[p] # "test" => InLoop(p, "p")
  /\ cpc # "poll" => InLoop("receiver", "c")

StartUpInv == StartTypeOK /\ Posted /\ Working

\* No step of the start-up breaks Posted: an lcore posts before it waits, and the
\* scheduler posts when the ring is set up.
LEMMA PostedKept ==
  ASSUME StartTypeOK, Posted, NEW p \in Programs, StartStep(p)
  PROVE  Posted'
  <1>0. \A l \in Lcores : Partner(l) \in Lcores
    BY DEF Partner, Lcores
  <1>1. ASSUME NEW l \in Lcores, PostPrepared(p, l) PROVE Posted'
    BY <1>0, <1>1 DEF PostPrepared, Posted, StartTypeOK, Stages, RingUser, Lcores
  <1>2. ASSUME NEW l \in Lcores, WaitPartner(p, l) PROVE Posted'
    <2>1. PICK m \in Lcores : m = Partner(l)
      BY <1>0
    <2>2. stage' = [stage EXCEPT ![p][l] = IF l = RingUser(p) THEN "paired" ELSE "loop"]
          /\ lcore_prepared' = [lcore_prepared EXCEPT ![p][m] = @ - 1]
          /\ stage[p][l] = "posted" /\ stage[p][m] # "launched"
      BY <1>2, <2>1 DEF WaitPartner, Posted
    <2> QED
      BY <1>0, <1>2, <2>1, <2>2 DEF WaitPartner, Posted, StartTypeOK, Stages
  <1>3. CASE SchedulerPrepared(p)
    BY <1>3 DEF SchedulerPrepared, Posted, StartTypeOK
  <1>4. CASE WaitRing(p)
    BY <1>0, <1>4 DEF WaitRing, Posted, StartTypeOK, RingUser, Lcores, Stages
  <1> QED
    BY <1>1, <1>2, <1>3, <1>4 DEF StartStep, StartLcore

\* An lcore in its loop stays there.
LEMMA LoopKept ==
  ASSUME StartTypeOK, NEW p \in Programs, StartStep(p), NEW q \in Programs, NEW k \in Lcores,
         InLoop(q, k)
  PROVE  InLoop(q, k)'
  BY DEF StartTypeOK, Stages, StartStep, StartLcore, PostPrepared, WaitPartner,
         SchedulerPrepared, WaitRing, InLoop, RingUser, Lcores

\* At the launch nobody has passed a wait (sem_init with 0, main).
LEMMA StartUpInit == Init => StartUpInv
  <1> SUFFICES ASSUME Init PROVE StartUpInv
    OBVIOUS
  <1>1. StartTypeOK
    BY InitInv DEF CreditInv, TypeOK
  <1>2. Posted
    BY DEF Init, InitStart, Posted, Programs, Lcores, RingUser
  <1> QED
    BY <1>1, <1>2 DEF Init, Working, StartUpInv, Programs, ProducerStates

\* No step of start-up or traffic lets an lcore work before its partner and its
\* ring are there.
LEMMA StartUpStep == StartUpInv /\ [Next]_vars => StartUpInv'
  <1> SUFFICES ASSUME StartUpInv, [Next]_vars PROVE StartUpInv'
    OBVIOUS
  <1> USE DEF StartUpInv
  <1>1. CASE Start
    <2>1. PICK p \in Programs : StartStep(p)
      BY <1>1 DEF Start
    <2>2. StartTypeOK' /\ Posted'
      BY <2>1, StartType, PostedKept
    <2>3. Working'
      BY <1>1, <2>1, LoopKept DEF Start, trafficVars, Working, Lcores, Programs
    <2> QED
      BY <2>2, <2>3
  <1>2. ASSUME UNCHANGED startVars, Working' PROVE StartUpInv'
    BY <1>2, StartTypeKept DEF startVars, Posted
  <1>3. ASSUME NEW p \in Programs, Producer(p) \/ LoopSend(p) \/ LosePacket(p) \/ StrayArrives(p)
        PROVE  StartUpInv'
    <2>1. CASE Producer(p)
      <3>1. UNCHANGED <<startVars, cpc>> /\ (ppc[p] # "test" \/ InLoop(p, "p"))
        BY <2>1 DEF Producer, TestToken, TakeToken, Package, AllocFails, Enqueue
      <3>2. PICK x \in ProducerStates : ppc' = [ppc EXCEPT ![p] = x]
        BY <2>1 DEF Producer, TestToken, TakeToken, Package, AllocFails, Enqueue,
           ProducerStates
      <3>3. Working'
        BY <3>1, <3>2 DEF startVars, Working, InLoop
      <3> QED
        BY <1>2, <3>1, <3>3
    <2>2. CASE LoopSend(p) \/ LosePacket(p) \/ StrayArrives(p)
      <3>1. UNCHANGED <<startVars, ppc, cpc>>
        BY <2>2 DEF LoopSend, Dequeue, Flush, LosePacket, StrayArrives
      <3>2. Working'
        BY <3>1 DEF startVars, Working, InLoop
      <3> QED
        BY <1>2, <3>1, <3>2
    <2> QED
      BY <1>3, <2>1, <2>2
  <1>4. CASE DataArrives \/ Consume \/ FrameFinished \/ Credit \/ FeedbackArrives
    BY <1>2, <1>4 DEF DataArrives, Consume, FrameFinished, Credit, FeedbackArrives, startVars,
       Working, InLoop
  <1>5. CASE UNCHANGED vars
    BY <1>2, <1>5 DEF vars, trafficVars, startVars, Working, InLoop
  <1> QED
    BY <1>1, <1>3, <1>4, <1>5 DEF Next

\* Nobody touches a ring of frames that is not set up, and no lcore is in its
\* loop before its partner runs, in whatever order the threads start.
THEOREM StartOrder == Spec => []StartedInOrder
  <1>1. StartUpInv => StartedInOrder
    BY DEF StartUpInv, Posted, Working, StartedInOrder, InLoop, RingUser, Programs, Lcores
  <1>2. Spec => []StartUpInv
    BY StartUpInit, StartUpStep, PTL DEF Spec
  <1> QED
    BY <1>1, <1>2, PTL

=============================================================================
