----------------------------- MODULE MCAuditGate -----------------------------
(* Two concurrent requests to AuditGate about one repository.               *)
EXTENDS AuditGate

CONSTANTS c1, c2, old, new, photos
==============================================================================
