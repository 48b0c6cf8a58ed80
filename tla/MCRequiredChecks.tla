-------------------------- MODULE MCRequiredChecks --------------------------
(* A small repository for model checking RequiredChecks: one orb job that   *)
(* CircleCI reports in the legacy format, one plain job, two languages.     *)
EXTENDS RequiredChecks

CONSTANTS orb, plain, legacy, go, py, analyzeGo, analyzePy

MCAnalyze == [l \in Langs |-> IF l = go THEN analyzeGo ELSE analyzePy]
MCTrim    == [n \in Names |-> IF n = legacy THEN plain ELSE n]
MCBare    == [n \in Names |-> IF n = orb THEN plain ELSE n]
MCContext == [j \in Jobs |-> legacy]

Everywhere == [name |-> orb, ignore |-> {}, filtered |-> FALSE, only |-> {}]
OnlyMain   == [Everywhere EXCEPT !.filtered = TRUE, !.only = {Main}]
NotMain    == [Everywhere EXCEPT !.ignore = {Main}]

Healthy == [circleci |-> "ok", jobs |-> {Everywhere}, dependabot |-> TRUE,
            codeql |-> "ok", onPR |-> TRUE, settings |-> TRUE, explicit |-> {go}]
MCTrees == {Healthy,
            [Healthy EXCEPT !.jobs = {OnlyMain}, !.onPR = FALSE],
            [Healthy EXCEPT !.jobs = {NotMain}, !.settings = FALSE, !.explicit = {py}],
            [Healthy EXCEPT !.circleci = "broken", !.jobs = {}, !.codeql = "broken",
                            !.explicit = {}, !.dependabot = FALSE]}

MCRequired == {{}, {legacy}, {legacy, analyzeGo}}
==============================================================================
