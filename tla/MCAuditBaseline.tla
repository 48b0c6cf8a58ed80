--------------------------- MODULE MCAuditBaseline ---------------------------
(* Three kinds of convention: one for every repository, one that needs the  *)
(* hosts of a system, one that is left to scheduled sweeps.                 *)
EXTENDS AuditBaseline

CONSTANTS general, hosted, scheduled, system, component

MCAppliesTo ==
    [c \in {general, hosted, scheduled} |->
        IF c = hosted THEN {system} ELSE {system, component, Unconfigured, NoType}]
==============================================================================
