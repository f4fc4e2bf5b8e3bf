--------------------------- MODULE MCOracleBridge ----------------------------
(* OracleBridge on small instances. *)
EXTENDS OracleBridge

CONSTANTS listener, caller
=============================================================================
