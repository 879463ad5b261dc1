--------------------------- MODULE MCLossRecovery ---------------------------
(* Small instances of LossRecovery.                                        *)
EXTENDS LossRecovery
=============================================================================
