--------------------------- MODULE FindingsTable ---------------------------
(***************************************************************************)
(* What the findings table promises to those who read it while sweeps are  *)
(* cut short, repeated and mixed with reruns: a row changes only when its  *)
(* check is recorded anew, and rows go only at the end of a sweep that has *)
(* recorded every check of its scope, and then only those not recorded     *)
(* since it began.                                                         *)
(***************************************************************************)
CONSTANTS
    Checks,     \* what a row can be about
    Reruns      \* may a check be recorded outside a sweep, or its scope?

VARIABLES
    sweep,      \* "idle", "begun", "running" once the scope is known, "done"
    scope,      \* the checks the sweep is about
    table,      \* the rows
    recorded    \* the checks recorded since the latest sweep began

vars == <<sweep, scope, table, recorded>>

Init ==
    /\ sweep = "idle" /\ scope = {}
    /\ table = <<>> /\ recorded = {}

Begin ==
    /\ sweep = "idle"
    /\ sweep' = "begun"
    /\ recorded' = {}
    /\ UNCHANGED <<scope, table>>

SetScope ==
    /\ sweep = "begun"
    /\ sweep' = "running"
    /\ scope' \in SUBSET Checks
    /\ UNCHANGED <<table, recorded>>

(* A result of check k replaces the row it had, and touches no other.       *)
Record(k) ==
    /\ Reruns \/ (sweep = "running" /\ k \in scope)
    /\ DOMAIN table' = DOMAIN table \cup {k}
    /\ \A j \in DOMAIN table \ {k} : table'[j] = table[j]
    /\ recorded' = recorded \cup {k}
    /\ UNCHANGED <<sweep, scope>>

Complete ==
    /\ sweep = "running"
    /\ scope \subseteq recorded
    /\ sweep' = "done"
    /\ table' = [k \in DOMAIN table \cap recorded |-> table[k]]
    /\ UNCHANGED <<scope, recorded>>

(* The sweep ends: early, without deleting anything, or after Complete.     *)
End ==
    /\ sweep # "idle"
    /\ sweep' = "idle" /\ scope' = {}
    /\ UNCHANGED <<table, recorded>>

Next == Begin \/ SetScope \/ (\E k \in Checks : Record(k)) \/ Complete \/ End

Spec == Init /\ [][Next]_vars
=============================================================================
