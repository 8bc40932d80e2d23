----------------------------- MODULE MCVoqCBar ------------------------------
EXTENDS VoqCBar

\* All pairs of the switch.
AllPairs == (0 .. 3) \X (0 .. 3)
=============================================================================
