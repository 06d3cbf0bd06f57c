----------------------- MODULE MCInvalidJobAttemptMgr -----------------------
(* Model-checking instance of InvalidJobAttemptMgr.                        *)
EXTENDS InvalidJobAttemptMgr
=============================================================================
