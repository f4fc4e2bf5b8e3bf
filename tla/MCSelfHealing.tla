---------------------------- MODULE MCSelfHealing ----------------------------
(* SelfHealing on small instances. *)
EXTENDS SelfHealing

CONSTANTS c1, k1, k2
=============================================================================
