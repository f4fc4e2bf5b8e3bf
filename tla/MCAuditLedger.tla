--------------------------- MODULE MCAuditLedger ----------------------------
(* AuditLedger on small instances: batches of two rows, a few messages. *)
EXTENDS AuditLedger
=============================================================================
