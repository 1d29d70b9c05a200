-------------------------- MODULE MCScheduledSend --------------------------
(* ScheduledSend for TLC: interchangeable rows.                            *)
EXTENDS ScheduledSend, TLC

RowSymmetry == Permutations(Ids)
=============================================================================
