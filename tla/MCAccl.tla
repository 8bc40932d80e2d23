------------------------------- MODULE MCAccl -------------------------------
(* Accl on pools small enough to run dry at several levels.                *)
EXTENDS Accl

SmallPools == <<2, 2, 3, 2, 3>>
=============================================================================
