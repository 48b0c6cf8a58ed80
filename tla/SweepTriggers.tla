---------------------------- MODULE SweepTriggers ----------------------------
(***************************************************************************)
(* How sweeps are started and how they end: AuditSweeper (audit.go) and    *)
(* PRSweeper (pr_dashboard.go), which share the process.  The loop of      *)
(* Start, its ticker and the handlers of POST /api/sweep and /api/pr-sweep *)
(* all call TriggerSweep; an accepted trigger spawns a goroutine that runs *)
(* the sweep.  What a sweep does is left to AuditFindings; here it only    *)
(* ends, well or badly.  One step is one critical section of the mutex of  *)
(* the sweeper concerned.                                                  *)
(***************************************************************************)
EXTENDS Naturals

CONSTANTS
    Goroutines,     \* bound: the goroutines a sweeper may have at the same time
    MaxCrashes      \* bound: how often the process dies

ASSUME ConstantsAssumption == MaxCrashes \in Nat

Jobs == {"audit", "pr"}

VARIABLES
    sweepInProgress,        \* the flag of each sweeper
    lastSweepCompletedAt,   \* audit: whether a sweep of this process succeeded
    lastSweepErr,           \* audit: whether the last one failed
    data,                   \* pr: whether there is dashboard data
    goroutine,              \* what each goroutine of each sweeper does
    crashes                 \* how often the process has died

vars == <<sweepInProgress, lastSweepCompletedAt, lastSweepErr, data,
          goroutine, crashes>>

Stages == {"none",        \* no such goroutine
           "spawned",     \* accepted, not yet running
           "sweeping",    \* inside sweep(), or runSweep() of the PRSweeper
           "ok",          \* the sweep came to its end
           "failed",      \* the sweep returned an error
           "clearing",    \* pr: data published, flag still set
           "reporting"}   \* audit: flag cleared, posting to the tracker

Does(g, j, stage) == goroutine[j][g] = stage

Enters(g, j, stage) == goroutine' = [goroutine EXCEPT ![j][g] = stage]

Exits(g, j) == Enters(g, j, "none")

Init ==
    /\ sweepInProgress = [j \in Jobs |-> FALSE]
    /\ lastSweepCompletedAt = FALSE
    /\ lastSweepErr = FALSE
    /\ data = FALSE
    /\ goroutine = [j \in Jobs |-> [g \in Goroutines |-> "none"]]
    /\ crashes = 0

-----------------------------------------------------------------------------
(* TriggerSweep.  A trigger that finds the flag set returns false, which    *)
(* the handler answers with 409: it changes nothing.                        *)
TriggerSweep_Mutant(j, g) ==
    /\ Does(g, j, "none")
    /\ sweepInProgress' = [sweepInProgress EXCEPT ![j] = TRUE]
    /\ Enters(g, j, "spawned")
    /\ UNCHANGED <<lastSweepCompletedAt, lastSweepErr, data, crashes>>

TriggerSweep(j, g) ==
    /\ ~sweepInProgress[j]
    /\ Does(g, j, "none")
    /\ sweepInProgress' = [sweepInProgress EXCEPT ![j] = TRUE]
    /\ Enters(g, j, "spawned")
    /\ UNCHANGED <<lastSweepCompletedAt, lastSweepErr, data, crashes>>

(* The goroutine is scheduled and the sweep begins.                         *)
RunSweep(j, g) ==
    /\ Does(g, j, "spawned")
    /\ Enters(g, j, "sweeping")
    /\ UNCHANGED <<sweepInProgress, lastSweepCompletedAt, lastSweepErr, data, crashes>>

(* The sweep comes to its end or gives up.                                  *)
SweepEnds(j, g, outcome) ==
    /\ Does(g, j, "sweeping")
    /\ Enters(g, j, outcome)
    /\ UNCHANGED <<sweepInProgress, lastSweepCompletedAt, lastSweepErr, data, crashes>>

(* AuditSweeper.runSweep records the outcome and clears the flag in one     *)
(* critical section, and reports after that.                                *)
AuditFails(g) ==
    /\ Does(g, "audit", "failed")
    /\ lastSweepErr' = TRUE
    /\ sweepInProgress' = [sweepInProgress EXCEPT !["audit"] = FALSE]
    /\ Enters(g, "audit", "reporting")
    /\ UNCHANGED <<lastSweepCompletedAt, data, crashes>>

AuditSucceeds_Mutant(g) ==
    /\ Does(g, "audit", "ok")
    /\ lastSweepCompletedAt' = TRUE
    /\ sweepInProgress' = [sweepInProgress EXCEPT !["audit"] = FALSE]
    /\ Enters(g, "audit", "reporting")
    /\ UNCHANGED <<lastSweepErr, data, crashes>>

AuditSucceeds(g) ==
    /\ Does(g, "audit", "ok")
    /\ lastSweepCompletedAt' = TRUE
    /\ lastSweepErr' = FALSE
    /\ sweepInProgress' = [sweepInProgress EXCEPT !["audit"] = FALSE]
    /\ Enters(g, "audit", "reporting")
    /\ UNCHANGED <<data, crashes>>

(* The post to the schedule tracker returns; its error is only logged.      *)
ReportToScheduleTracker(g) ==
    /\ Does(g, "audit", "reporting")
    /\ Exits(g, "audit")
    /\ UNCHANGED <<sweepInProgress, lastSweepCompletedAt, lastSweepErr, data, crashes>>

(* PRSweeper.runSweep publishes the data in one critical section and clears *)
(* the flag in another, deferred, one; a sweep that fails only clears it.   *)
PRPublishes(g) ==
    /\ Does(g, "pr", "ok")
    /\ data' = TRUE
    /\ Enters(g, "pr", "clearing")
    /\ UNCHANGED <<sweepInProgress, lastSweepCompletedAt, lastSweepErr, crashes>>

PRClears(g) ==
    /\ Does(g, "pr", "clearing")
    /\ sweepInProgress' = [sweepInProgress EXCEPT !["pr"] = FALSE]
    /\ Exits(g, "pr")
    /\ UNCHANGED <<lastSweepCompletedAt, lastSweepErr, data, crashes>>

PRFails_Mutant(g) ==
    /\ Does(g, "pr", "failed")
    /\ Exits(g, "pr")
    /\ UNCHANGED <<sweepInProgress, lastSweepCompletedAt, lastSweepErr, data, crashes>>

PRFails(g) ==
    /\ Does(g, "pr", "failed")
    /\ sweepInProgress' = [sweepInProgress EXCEPT !["pr"] = FALSE]
    /\ Exits(g, "pr")
    /\ UNCHANGED <<lastSweepCompletedAt, lastSweepErr, data, crashes>>

(* The process dies; nothing of this state is kept anywhere.                *)
Crash ==
    /\ crashes < MaxCrashes
    /\ crashes' = crashes + 1
    /\ sweepInProgress' = [j \in Jobs |-> FALSE]
    /\ lastSweepCompletedAt' = FALSE
    /\ lastSweepErr' = FALSE
    /\ data' = FALSE
    /\ goroutine' = [j \in Jobs |-> [g \in Goroutines |-> "none"]]

-----------------------------------------------------------------------------
Trigger(j) == \E g \in Goroutines : TriggerSweep(j, g)

AuditStep(g) == AuditFails(g) \/ AuditSucceeds(g) \/ ReportToScheduleTracker(g)

PRStep(g) == PRPublishes(g) \/ PRClears(g) \/ PRFails(g)

GoroutineStep(j, g) ==
    \/ RunSweep(j, g)
    \/ \E outcome \in {"ok", "failed"} : SweepEnds(j, g, outcome)
    \/ j = "audit" /\ AuditStep(g)
    \/ j = "pr" /\ PRStep(g)

Next ==
    \/ \E j \in Jobs : Trigger(j)
    \/ \E j \in Jobs, g \in Goroutines : GoroutineStep(j, g)
    \/ Crash

Spec == Init /\ [][Next]_vars

(* The loop of Start triggers each sweeper again and again; a goroutine is  *)
(* scheduled, and each call it makes returns.                               *)
Fairness ==
    /\ \A j \in Jobs : WF_vars(Trigger(j))
    /\ \A j \in Jobs, g \in Goroutines : WF_vars(GoroutineStep(j, g))

FairSpec == Spec /\ Fairness

-----------------------------------------------------------------------------
(* Whether a sweep of job j is under way, and how far it is.                *)
Running(j) == \E g \in Goroutines : Does(g, j, "sweeping")

Progress(j) ==
    IF Running(j) THEN "running"
    ELSE IF \E g \in Goroutines : Does(g, j, "ok") THEN "ok"
    ELSE IF \E g \in Goroutines : Does(g, j, "failed") THEN "failed"
    ELSE "idle"

(* What Status() and Data() let their readers conclude about the last       *)
(* sweep.                                                                   *)
AuditResult ==
    IF lastSweepErr THEN "failed" ELSE IF lastSweepCompletedAt THEN "ok" ELSE "none"

PRResult == IF data THEN "ok" ELSE "none"

Audit == INSTANCE SingleFlight
         WITH sweep <- Progress("audit"), result <- AuditResult, ShowsFailure <- TRUE

PR == INSTANCE SingleFlight
      WITH sweep <- Progress("pr"), result <- PRResult, ShowsFailure <- FALSE

(* The types of the variables.                                              *)
TypeOK ==
    /\ sweepInProgress \in [Jobs -> BOOLEAN]
    /\ lastSweepCompletedAt \in BOOLEAN
    /\ lastSweepErr \in BOOLEAN
    /\ data \in BOOLEAN
    /\ goroutine \in [Jobs -> [Goroutines -> Stages]]
    /\ crashes \in 0..MaxCrashes

(* The stages a goroutine goes through with its sweeper's flag set.         *)
Holds(g, j) == goroutine[j][g] \in {"spawned", "sweeping", "ok", "failed", "clearing"}

(* The flag of a sweeper is held by exactly one goroutine: a second trigger *)
(* cannot start a second sweep next to it, and no flag stays set with       *)
(* nobody left to clear it (TriggerSweep, runSweep).                        *)
FlagHeld ==
    \A j \in Jobs :
        /\ sweepInProgress[j] => \E g \in Goroutines : Holds(g, j)
        /\ \A g, h \in Goroutines : Holds(g, j) /\ Holds(h, j) => g = h
        /\ \A g \in Goroutines : Holds(g, j) => sweepInProgress[j]

(* However triggers, ticks, slow reports and crashes interleave, the audit  *)
(* sweeps follow one another and Status() tells the outcome of the last.    *)
AuditSingleFlight == Audit!Spec

(* The same for PR sweeps, whose dashboard shows the last that succeeded.   *)
PRSingleFlight == PR!Spec

(* Each sweeper sweeps again and again, whatever became of the sweep        *)
(* before: no outcome leaves the flag set (the ticker of Start).            *)
SweepsRecur == \A j \in Jobs : []<>Running(j) /\ []<>~Running(j)
=============================================================================
