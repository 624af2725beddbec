----------------------------- MODULE MCFastLoad -----------------------------
(***************************************************************************)
(* Small instances of FastLoad for TLC.                                    *)
(***************************************************************************)
EXTENDS FastLoad, SequencesExt

\* Chunk c weighs c, a damaged chunk nothing, the call frame 5.
MCSum(r) == 5 + FoldSeq(LAMBDA c, acc : acc + c, 0, r)

\* The genuine image, chunks 1 .. NPackets in order.
MCImageSum == MCSum([i \in 1 .. NPackets |-> i])

\* What the theorem about failures presumes of the host's checksum holds here.
ASSUME MCSumIsRight == SumIsRight
=============================================================================
