----------------------------- MODULE MCFlowARQ ------------------------------
(***************************************************************************)
(* FlowARQ for TLC.  One clock tick stands for 5 ms, the NACK cadence.     *)
(***************************************************************************)
EXTENDS FlowARQ

CONSTANT Horizon     \* the last instant of a run

MCModes == {[timing |-> "source", noRecovery |-> FALSE]}

MCPayloads == 1 .. MaxPushes

EveryInstant == 0 .. Horizon

SparseInstants == {0, 6, Horizon}

=============================================================================
