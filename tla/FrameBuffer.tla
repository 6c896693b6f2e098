---------------------------- MODULE FrameBuffer ----------------------------
(***************************************************************************)
(* What the pair of counters (startNum, readyNum) promises on either side  *)
(* of the link: a bounded buffer of Capacity frames.  A frame is reserved  *)
(* when work on it starts, committed when it is complete, taken by its     *)
(* reader, and released when the reader needs its place no longer.         *)
(*                                                                         *)
(* Sender:   the scheduler reserves and commits, the producer takes and    *)
(*           releases (TxPipeline.tla implements this module).             *)
(* Receiver: the consumer reserves and commits, the scheduler takes and    *)
(*           releases (RxPipeline.tla implements this module while no      *)
(*           packet is lost).                                              *)
(***************************************************************************)
EXTENDS Naturals

CONSTANT Capacity

VARIABLES
  start,    \* frames reserved and not yet released
  ready     \* of those, the ones committed and not yet taken

Init == start = 0 /\ ready = 0

Reserve == start < Capacity /\ start' = start + 1 /\ UNCHANGED ready

Commit  == ready < start /\ ready' = ready + 1 /\ UNCHANGED start

Take    == ready > 0 /\ ready' = ready - 1 /\ UNCHANGED start

Release == ready < start /\ start' = start - 1 /\ UNCHANGED ready

Next == Reserve \/ Commit \/ Take \/ Release

Spec == Init /\ [][Next]_<<start, ready>>

=============================================================================
