-------------------------------- MODULE MCMcp --------------------------------
(* Small instances of Mcp for TLC; the cfg files give the constants.         *)
EXTENDS Mcp
=============================================================================
