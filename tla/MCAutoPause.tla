----------------------------- MODULE MCAutoPause -----------------------------
(* Small instances of AutoPause for TLC; the cfg files give the constants.   *)
EXTENDS AutoPause
=============================================================================
