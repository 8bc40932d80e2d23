------------------------------ MODULE MCIslip -------------------------------
(* Islip with traffic for every pair. *)
EXTENDS Islip

AllPairs == Ports \X Ports
=============================================================================
