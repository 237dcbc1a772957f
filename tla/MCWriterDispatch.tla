--------------------------- MODULE MCWriterDispatch ---------------------------
(***************************************************************************)
(* WriterDispatch with tasks that compete for the reservation.             *)
(***************************************************************************)
EXTENDS WriterDispatch, TLC

TaskSymmetry == Permutations(Tasks)
=============================================================================
