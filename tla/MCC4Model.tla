------------------------------ MODULE MCC4Model ------------------------------
(* Model values for model checking C4Model: loganne, another system that    *)
(* depends on loganne and on something unknown, and a script.               *)
EXTENDS C4Model

CONSTANTS loganne, sys, script

MCDependsOn == [s \in Systems |-> IF s = sys THEN {loganne, script} \cap Names ELSE {sys}]
==============================================================================
