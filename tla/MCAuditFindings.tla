-------------------------- MODULE MCAuditFindings --------------------------
(* Instances of AuditFindings for TLC.                                     *)
EXTENDS AuditFindings

CONSTANTS r1, r2, c1, c2, system, script

\* c1 applies to every type, c2 to systems only.
MCAppliesTo == [c \in Conventions |-> IF c = c1 THEN Types ELSE {system}]

=============================================================================
