------------------------------ MODULE StartUp ------------------------------
(***************************************************************************)
(* How the two programs start.  Each main function queues its scheduler    *)
(* and launches four lcores: the producer (p), the consumer (c),           *)
(* loop_send (send) and loop_receive (receive).  An lcore first posts its  *)
(* own semaphore lcore_*_prepared and then waits for its partner's; the    *)
(* lcore that works on the ring of frames (the sender's producer, the      *)
(* receiver's consumer) also waits for the scheduler, which posts          *)
(* tx_prepared (rx_prepared) when it has set the ring up.  CreditFlow      *)
(* composes these steps with the traffic of the lcores.                    *)
(***************************************************************************)
EXTENDS Integers

VARIABLES
  stage,              \* program -> lcore -> how far it has come
  lcore_prepared,     \* program -> lcore -> the value of lcore_*_prepared
  ring_prepared,      \* program -> the value of tx_prepared, rx_prepared
  ring_exists         \* program -> the scheduler has set up its ring of frames

startVars == <<stage, lcore_prepared, ring_prepared, ring_exists>>

Programs == {"sender", "receiver"}
Lcores   == {"p", "c", "send", "receive"}
Stages   == {"launched", "posted", "paired", "loop"}

PartnerCrossed(l) ==    \* mutant: producer and consumer wait for each other
  CASE l = "p"       -> "c"
    [] l = "c"       -> "p"
    [] l = "send"    -> "p"
    [] l = "receive" -> "c"

\* Whose semaphore an lcore waits for.
Partner(l) ==
  CASE l = "p"       -> "send"
    [] l = "send"    -> "p"
    [] l = "c"       -> "receive"
    [] l = "receive" -> "c"

\* The lcore that works on the ring of frames.
RingUser(p) == IF p = "sender" THEN "p" ELSE "c"

InitStart ==
  /\ stage = [p \in Programs |-> [l \in Lcores |-> "launched"]]
  /\ lcore_prepared = [p \in Programs |-> [l \in Lcores |-> 0]]
  /\ ring_prepared = [p \in Programs |-> 0]
  /\ ring_exists = [p \in Programs |-> FALSE]

\* An lcore initialises what is its own and posts its semaphore.
PostPrepared(p, l) ==
  /\ stage[p][l] = "launched"
  /\ stage' = [stage EXCEPT ![p][l] = "posted"]
  /\ lcore_prepared' = [lcore_prepared EXCEPT ![p][l] = @ + 1]
  /\ UNCHANGED <<ring_prepared, ring_exists>>

\* It waits for its partner.
WaitPartner(p, l) ==
  /\ stage[p][l] = "posted"
  /\ lcore_prepared[p][Partner(l)] > 0
  /\ lcore_prepared' = [lcore_prepared EXCEPT ![p][Partner(l)] = @ - 1]
  /\ stage' = [stage EXCEPT ![p][l] = IF l = RingUser(p) THEN "paired" ELSE "loop"]
  /\ UNCHANGED <<ring_prepared, ring_exists>>

\* The scheduler has set up the ring and posts tx_prepared (rx_prepared) twice.
SchedulerPrepared(p) ==
  /\ ~ring_exists[p]
  /\ ring_exists' = [ring_exists EXCEPT ![p] = TRUE]
  /\ ring_prepared' = [ring_prepared EXCEPT ![p] = @ + 2]
  /\ UNCHANGED <<stage, lcore_prepared>>

DoNotWaitForRing(p) ==  \* mutant: sem_wait(&tx_prepared) is missing
  /\ stage[p][RingUser(p)] = "paired"
  /\ stage' = [stage EXCEPT ![p][RingUser(p)] = "loop"]
  /\ UNCHANGED <<lcore_prepared, ring_prepared, ring_exists>>

\* The user of the ring waits for the scheduler.
WaitRing(p) ==
  /\ stage[p][RingUser(p)] = "paired"
  /\ ring_prepared[p] > 0
  /\ ring_prepared' = [ring_prepared EXCEPT ![p] = @ - 1]
  /\ stage' = [stage EXCEPT ![p][RingUser(p)] = "loop"]
  /\ UNCHANGED <<lcore_prepared, ring_exists>>

StartLcore(p, l) == PostPrepared(p, l) \/ WaitPartner(p, l)

StartStep(p) == (\E l \in Lcores : StartLcore(p, l)) \/ SchedulerPrepared(p) \/ WaitRing(p)

\* Lcore l of program p is in its while (!force_quit) loop.
InLoop(p, l) == stage[p][l] = "loop"

-----------------------------------------------------------------------------
StartTypeOK ==
  /\ stage \in [Programs -> [Lcores -> Stages]]
  /\ lcore_prepared \in [Programs -> [Lcores -> Nat]]
  /\ ring_prepared \in [Programs -> Nat]
  /\ ring_exists \in [Programs -> BOOLEAN]

=============================================================================
