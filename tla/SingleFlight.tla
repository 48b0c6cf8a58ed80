---------------------------- MODULE SingleFlight ----------------------------
(***************************************************************************)
(* What a sweeper promises to whoever triggers it: its sweeps follow one   *)
(* another and never overlap, and the result it shows is that of the sweep *)
(* that ended last in the life of the process.                             *)
(***************************************************************************)
CONSTANT ShowsFailure   \* whether a failed sweep replaces the result shown

VARIABLES
    sweep,      \* "idle", "running", or how the sweep that just ended did
    result      \* the result shown

vars == <<sweep, result>>

Init == sweep = "idle" /\ result = "none"

Begin ==
    /\ sweep = "idle"
    /\ sweep' = "running"
    /\ UNCHANGED result

End(outcome) ==
    /\ sweep = "running"
    /\ sweep' = outcome
    /\ UNCHANGED result

Show ==
    /\ sweep \in {"ok", "failed"}
    /\ sweep' = "idle"
    /\ result' = IF sweep = "failed" /\ ~ShowsFailure THEN result ELSE sweep

(* The process dies, and with it the sweep and all memory of the last.      *)
Die == sweep' = "idle" /\ result' = "none"

Next == Begin \/ End("ok") \/ End("failed") \/ Show \/ Die

Spec == Init /\ [][Next]_vars
=============================================================================
