----------------------------- MODULE MCStoreLocks -----------------------------
(* Instances of StoreLocks for TLC.                                        *)
EXTENDS StoreLocks, TLC

=============================================================================
