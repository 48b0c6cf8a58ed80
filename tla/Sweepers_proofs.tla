--------------------------- MODULE Sweepers_proofs ---------------------------
(***************************************************************************)
(* What is proved of the two sweepers.                                     *)
(*                                                                         *)
(* SweepTriggers, for any number of goroutines: the flag of a sweeper      *)
(* admits one sweep at a time, and each sweeper implements SingleFlight.   *)
(* FlagHeld is inductive together with the types, so it needs no           *)
(* strengthening; the refinement uses it to know that the goroutine that   *)
(* steps is the only one whose stage SingleFlight can see.                 *)
(*                                                                         *)
(* PRDashboard, for any size of a page and any number of failures: what a  *)
(* sweep counts is what was open.  CountedOnce speaks of the end of a      *)
(* repository; CountInv speaks of every point on the way there, of what is *)
(* listed so far (Listing) and counted so far (Counting).                  *)
(***************************************************************************)
EXTENDS SweepTriggers, PRDashboard, SequenceTheorems, TLAPS

FlagInv == TypeOK /\ FlagHeld

(* The step of a goroutine of sweeper j to a given stage changes nothing of *)
(* any other goroutine.                                                     *)
LEMMA EntersOne ==
    ASSUME TypeOK, NEW j \in Jobs, NEW g \in Goroutines, NEW s \in Stages,
           Enters(g, j, s)
    PROVE  /\ goroutine' \in [Jobs -> [Goroutines -> Stages]]
           /\ goroutine'[j][g] = s
           /\ \A h \in Goroutines \ {g} : goroutine'[j][h] = goroutine[j][h]
           /\ \A i \in Jobs \ {j} : goroutine'[i] = goroutine[i]
BY DEF Enters, TypeOK

(* A step that keeps the flag and moves a goroutine between stages that     *)
(* hold it, or between stages that do not, keeps FlagHeld.                  *)
LEMMA FlagKept ==
    ASSUME FlagInv, NEW j \in Jobs, NEW g \in Goroutines, NEW s \in Stages,
           Enters(g, j, s), UNCHANGED sweepInProgress,
           (s \in {"spawned", "sweeping", "ok", "failed", "clearing"}) <=> Holds(g, j)
    PROVE  FlagHeld'
<1>1. \A h \in Goroutines, i \in Jobs : Holds(h, i)' <=> Holds(h, i)
  BY EntersOne DEF FlagInv, Holds
<1> QED
  BY <1>1 DEF FlagInv, FlagHeld

(* A step in which the goroutine that holds the flag clears it and moves to *)
(* a stage that does not hold it keeps FlagHeld.                            *)
LEMMA FlagCleared ==
    ASSUME FlagInv, NEW j \in Jobs, NEW g \in Goroutines,
           NEW s \in {"none", "reporting"},
           Enters(g, j, s), Holds(g, j),
           sweepInProgress' = [sweepInProgress EXCEPT ![j] = FALSE]
    PROVE  FlagHeld'
<1>1. s \in Stages
  BY DEF Stages
<1>2. /\ ~Holds(g, j)'
      /\ \A h \in Goroutines \ {g} : Holds(h, j)' <=> Holds(h, j)
      /\ \A h \in Goroutines, i \in Jobs \ {j} : Holds(h, i)' <=> Holds(h, i)
  BY <1>1, EntersOne DEF FlagInv, Holds
<1>3. \A h \in Goroutines : ~Holds(h, j)'
  BY <1>2 DEF FlagInv, FlagHeld
<1>4. /\ ~sweepInProgress'[j]
      /\ \A i \in Jobs \ {j} : sweepInProgress'[i] = sweepInProgress[i]
  BY DEF FlagInv, TypeOK
<1> QED
  BY <1>2, <1>3, <1>4 DEF FlagInv, FlagHeld

(* An accepted trigger found the flag clear, so nobody holds it, and makes  *)
(* the goroutine it spawns its only holder.                                 *)
LEMMA FlagTaken ==
    ASSUME FlagInv, NEW j \in Jobs, NEW g \in Goroutines, TriggerSweep(j, g)
    PROVE  FlagHeld'
<1>1. "spawned" \in Stages /\ Enters(g, j, "spawned")
  BY DEF TriggerSweep, Stages
<1>2. /\ Holds(g, j)'
      /\ \A h \in Goroutines \ {g} : Holds(h, j)' <=> Holds(h, j)
      /\ \A h \in Goroutines, i \in Jobs \ {j} : Holds(h, i)' <=> Holds(h, i)
  BY <1>1, EntersOne DEF FlagInv, Holds
<1>3. \A h \in Goroutines : ~Holds(h, j)
  BY DEF TriggerSweep, FlagInv, FlagHeld
<1>4. /\ sweepInProgress'[j]
      /\ \A i \in Jobs \ {j} : sweepInProgress'[i] = sweepInProgress[i]
  BY DEF TriggerSweep, FlagInv, TypeOK
<1> QED
  BY <1>2, <1>3, <1>4 DEF FlagInv, FlagHeld

(* The variables keep their types.                                          *)
LEMMA TypeStep == TypeOK /\ [Next]_vars => TypeOK'
<1> SUFFICES ASSUME TypeOK, [Next]_vars PROVE TypeOK'
  OBVIOUS
<1> USE DEF Stages, Jobs
<1>1. ASSUME NEW j \in Jobs, NEW g \in Goroutines, TriggerSweep(j, g)
      PROVE  TypeOK'
  BY <1>1, EntersOne DEF TriggerSweep, TypeOK
<1>2. ASSUME NEW j \in Jobs, NEW g \in Goroutines, GoroutineStep(j, g)
      PROVE  TypeOK'
  <2>1. CASE RunSweep(j, g)
    BY <2>1, EntersOne DEF RunSweep, TypeOK
  <2>2. CASE \E outcome \in {"ok", "failed"} : SweepEnds(j, g, outcome)
    BY <2>2, EntersOne DEF SweepEnds, TypeOK
  <2>3. CASE AuditFails(g)
    BY <2>3, EntersOne DEF AuditFails, TypeOK
  <2>4. CASE AuditSucceeds(g)
    BY <2>4, EntersOne DEF AuditSucceeds, TypeOK
  <2>5. CASE ReportToScheduleTracker(g)
    BY <2>5, EntersOne DEF ReportToScheduleTracker, Exits, TypeOK
  <2>6. CASE PRPublishes(g)
    BY <2>6, EntersOne DEF PRPublishes, TypeOK
  <2>7. CASE PRClears(g)
    BY <2>7, EntersOne DEF PRClears, Exits, TypeOK
  <2>8. CASE PRFails(g)
    BY <2>8, EntersOne DEF PRFails, Exits, TypeOK
  <2> QED
    BY <1>2, <2>1, <2>2, <2>3, <2>4, <2>5, <2>6, <2>7, <2>8
    DEF GoroutineStep, AuditStep, PRStep
<1>3. CASE Crash
  <2>1. crashes' \in 0..MaxCrashes
    BY <1>3, ConstantsAssumption DEF Crash, TypeOK
  <2> HIDE DEF Stages, Jobs
  <2>2. "none" \in Stages
    BY DEF Stages
  <2>3. goroutine' \in [Jobs -> [Goroutines -> Stages]]
    BY <1>3, <2>2 DEF Crash
  <2>4. sweepInProgress' \in [Jobs -> BOOLEAN]
    BY <1>3 DEF Crash
  <2> QED
    BY <1>3, <2>1, <2>3, <2>4 DEF Crash, TypeOK
<1>4. CASE UNCHANGED vars
  BY <1>4 DEF vars, TypeOK
<1> QED
  BY <1>1, <1>2, <1>3, <1>4 DEF Next, Trigger

(* FlagHeld is inductive.                                                   *)
LEMMA FlagStep == FlagInv /\ [Next]_vars => FlagInv'
<1> SUFFICES ASSUME FlagInv, [Next]_vars PROVE FlagHeld'
  BY TypeStep DEF FlagInv
<1>a. "audit" \in Jobs /\ "pr" \in Jobs
  BY DEF Jobs
<1>1. ASSUME NEW j \in Jobs, NEW g \in Goroutines, GoroutineStep(j, g)
      PROVE  FlagHeld'
  <2>1. CASE RunSweep(j, g)
    BY <2>1, FlagKept DEF RunSweep, Does, Holds, Stages
  <2>2. CASE \E outcome \in {"ok", "failed"} : SweepEnds(j, g, outcome)
    BY <2>2, FlagKept DEF SweepEnds, Does, Holds, Stages
  <2>3. CASE AuditFails(g)
    BY <1>a, <2>3, FlagCleared DEF AuditFails, Does, Holds
  <2>4. CASE AuditSucceeds(g)
    BY <1>a, <2>4, FlagCleared DEF AuditSucceeds, Does, Holds
  <2>5. CASE ReportToScheduleTracker(g)
    BY <1>a, <2>5, FlagKept DEF ReportToScheduleTracker, Exits, Does, Holds, Stages
  <2>6. CASE PRPublishes(g)
    BY <1>a, <2>6, FlagKept DEF PRPublishes, Does, Holds, Stages
  <2>7. CASE PRClears(g)
    BY <1>a, <2>7, FlagCleared DEF PRClears, Exits, Does, Holds
  <2>8. CASE PRFails(g)
    BY <1>a, <2>8, FlagCleared DEF PRFails, Exits, Does, Holds
  <2> QED
    BY <1>1, <2>1, <2>2, <2>3, <2>4, <2>5, <2>6, <2>7, <2>8
    DEF GoroutineStep, AuditStep, PRStep
<1>2. CASE Crash
  <2>1. \A j \in Jobs : ~sweepInProgress'[j]
    BY <1>2 DEF Crash
  <2>2. \A j \in Jobs : \A g \in Goroutines : goroutine'[j][g] = "none"
    BY <1>2 DEF Crash
  <2>3. \A g \in Goroutines, j \in Jobs : ~Holds(g, j)'
    BY <2>2 DEF Holds
  <2> QED
    BY <2>1, <2>3 DEF FlagHeld
<1>3. CASE UNCHANGED vars
  BY <1>3 DEF vars, FlagInv, FlagHeld, Holds
<1> QED
  BY <1>1, <1>2, <1>3, FlagTaken DEF Next, Trigger

(* Nobody holds a flag at the start.                                        *)
LEMMA FlagInit == Init => FlagInv
<1> SUFFICES ASSUME Init PROVE FlagInv
  OBVIOUS
<1>1. TypeOK
  <2>1. "none" \in Stages
    BY DEF Stages
  <2>2. goroutine \in [Jobs -> [Goroutines -> Stages]]
    BY <2>1 DEF Init
  <2>3. sweepInProgress \in [Jobs -> BOOLEAN]
    BY DEF Init
  <2>4. /\ lastSweepCompletedAt \in BOOLEAN
        /\ lastSweepErr \in BOOLEAN
        /\ data \in BOOLEAN
    BY DEF Init
  <2>5. crashes \in 0..MaxCrashes
    BY ConstantsAssumption DEF Init
  <2> QED
    BY <2>2, <2>3, <2>4, <2>5 DEF TypeOK
<1>2. FlagHeld
  <2>1. \A j \in Jobs : ~sweepInProgress[j]
    BY DEF Init
  <2>2. \A j \in Jobs : \A g \in Goroutines : goroutine[j][g] = "none"
    BY DEF Init
  <2>3. \A g \in Goroutines, j \in Jobs : ~Holds(g, j)
    BY <2>2 DEF Holds
  <2> QED
    BY <2>1, <2>3 DEF FlagHeld
<1> QED
  BY <1>1, <1>2 DEF FlagInv

(* What SingleFlight sees of sweeper j is the stage of the goroutine that   *)
(* holds its flag.                                                          *)
Seen(stage) == IF stage = "sweeping" THEN "running"
               ELSE IF stage \in {"ok", "failed"} THEN stage
               ELSE "idle"

LEMMA ProgressOfHolder ==
    ASSUME FlagInv, NEW j \in Jobs, NEW g \in Goroutines, Holds(g, j)
    PROVE  Progress(j) = Seen(goroutine[j][g])
<1>1. \A h \in Goroutines \ {g} : ~Holds(h, j)
  BY DEF FlagInv, FlagHeld
<1> QED
  BY <1>1 DEF Progress, Running, Does, Holds, Seen

(* Without a holder the sweeper is idle.                                    *)
LEMMA ProgressIdle ==
    ASSUME NEW j \in Jobs, \A g \in Goroutines : ~Holds(g, j)
    PROVE  Progress(j) = "idle"
BY DEF Progress, Running, Does, Holds

(* A step that leaves the goroutines of sweeper j alone changes nothing     *)
(* that SingleFlight sees of its progress.                                  *)
LEMMA ProgressSame ==
    ASSUME NEW j \in Jobs, goroutine'[j] = goroutine[j]
    PROVE  Progress(j)' = Progress(j)
BY DEF Progress, Running, Does
-----------------------------------------------------------------------------
(* A flag is held by one goroutine, for any number of them.                 *)
THEOREM FlagAlwaysHeld == Spec => []FlagHeld
<1> QED
  BY FlagInit, FlagStep, PTL DEF Spec, FlagInv

(* The initial states of the sweepers are those of SingleFlight.            *)
LEMMA InitImplements == Init => Audit!Init /\ PR!Init
<1> SUFFICES ASSUME Init PROVE Audit!Init /\ PR!Init
  OBVIOUS
<1>1. \A j \in Jobs : \A g \in Goroutines : goroutine[j][g] = "none"
  BY DEF Init
<1>2. \A j \in Jobs : Progress(j) = "idle"
  BY <1>1 DEF Progress, Running, Does
<1>3. AuditResult = "none" /\ PRResult = "none"
  BY DEF Init, AuditResult, PRResult
<1> QED
  BY <1>2, <1>3 DEF Audit!Init, PR!Init, Jobs

(* A death of the process is one of SingleFlight.                           *)
LEMMA CrashImplements == Crash => Audit!Die /\ PR!Die
<1> SUFFICES ASSUME Crash PROVE Audit!Die /\ PR!Die
  OBVIOUS
<1>1. \A j \in Jobs : \A g \in Goroutines : goroutine'[j][g] = "none"
  BY DEF Crash
<1>2. \A j \in Jobs : Progress(j)' = "idle"
  BY <1>1 DEF Progress, Running, Does
<1>3. AuditResult' = "none" /\ PRResult' = "none"
  BY DEF Crash, AuditResult, PRResult
<1> QED
  BY <1>2, <1>3 DEF Audit!Die, PR!Die, Jobs

(* How the progress of sweeper j changes when one of its goroutines steps   *)
(* from one stage that holds the flag to another stage.                     *)
LEMMA ProgressStep ==
    ASSUME FlagInv, FlagHeld', NEW j \in Jobs, NEW g \in Goroutines,
           NEW s \in Stages, Enters(g, j, s), Holds(g, j)
    PROVE  /\ Progress(j) = Seen(goroutine[j][g])
           /\ Progress(j)' = Seen(s)
<1>1. /\ goroutine'[j][g] = s
      /\ \A h \in Goroutines \ {g} : goroutine'[j][h] = goroutine[j][h]
  BY EntersOne DEF FlagInv
<1>2. \A h \in Goroutines \ {g} : ~Holds(h, j)
  BY DEF FlagInv, FlagHeld
<1>3. \A h \in Goroutines \ {g} : goroutine'[j][h] \notin {"sweeping", "ok", "failed"}
  BY <1>1, <1>2 DEF Holds
<1>4. Progress(j)' = Seen(s)
  BY <1>1, <1>3 DEF Progress, Running, Does, Seen
<1> QED
  BY <1>4, ProgressOfHolder

(* A trigger, a report or the clearing of the flag after the data was       *)
(* published moves a goroutine between stages SingleFlight does not see.    *)
LEMMA ProgressUnseen ==
    ASSUME TypeOK, NEW j \in Jobs, NEW g \in Goroutines, NEW s \in Stages,
           Enters(g, j, s),
           {goroutine[j][g], s} \cap {"sweeping", "ok", "failed"} = {}
    PROVE  Progress(j)' = Progress(j)
<1>1. /\ goroutine'[j][g] = s
      /\ \A h \in Goroutines \ {g} : goroutine'[j][h] = goroutine[j][h]
  BY EntersOne
<1>2. \A stage \in {"sweeping", "ok", "failed"}, h \in Goroutines :
         Does(h, j, stage)' <=> Does(h, j, stage)
  BY <1>1 DEF Does
<1> QED
  BY <1>2 DEF Progress, Running

(* Every step of the detailed system is a step, or a stutter, of the audit  *)
(* sweeper's SingleFlight.                                                  *)
LEMMA AuditStepImplements == FlagInv /\ [Next]_vars => [Audit!Next]_(Audit!vars)
<1> SUFFICES ASSUME FlagInv, [Next]_vars PROVE [Audit!Next]_(Audit!vars)
  OBVIOUS
<1>0. /\ FlagHeld' /\ TypeOK
      /\ "audit" \in Jobs /\ "pr" \in Jobs
      /\ {"none", "spawned", "sweeping", "ok", "failed", "clearing", "reporting"} = Stages
  BY FlagStep DEF FlagInv, Jobs, Stages
<1>1. ASSUME UNCHANGED <<lastSweepCompletedAt, lastSweepErr>>,
             Progress("audit")' = Progress("audit")
      PROVE  UNCHANGED Audit!vars
  BY <1>1 DEF Audit!vars, AuditResult
<1>2. ASSUME NEW j \in Jobs, NEW g \in Goroutines, TriggerSweep(j, g)
      PROVE  UNCHANGED Audit!vars
  <2>1. CASE j = "audit"
    BY <1>0, <1>1, <1>2, <2>1, ProgressUnseen DEF TriggerSweep, Does
  <2>2. CASE j # "audit"
    BY <1>0, <1>1, <1>2, <2>2, EntersOne, ProgressSame DEF TriggerSweep
  <2> QED
    BY <2>1, <2>2
<1>3. ASSUME NEW g \in Goroutines, GoroutineStep("pr", g)
      PROVE  UNCHANGED Audit!vars
  <2>1. /\ UNCHANGED <<lastSweepCompletedAt, lastSweepErr>>
        /\ \E s \in Stages : Enters(g, "pr", s)
    BY <1>0, <1>3
    DEF GoroutineStep, RunSweep, SweepEnds, PRStep, PRPublishes, PRClears, PRFails, Exits
  <2> QED
    BY <1>0, <1>1, <2>1, EntersOne, ProgressSame
<1>4. ASSUME NEW g \in Goroutines, GoroutineStep("audit", g)
      PROVE  [Audit!Next]_(Audit!vars)
  <2>1. CASE RunSweep("audit", g)
    <3>1. Progress("audit") = "idle" /\ Progress("audit")' = "running"
      BY <1>0, <2>1, ProgressStep DEF RunSweep, Does, Holds, Seen
    <3>2. UNCHANGED AuditResult
      BY <2>1 DEF RunSweep, AuditResult
    <3> QED
      BY <3>1, <3>2 DEF Audit!Next, Audit!Begin
  <2>2. CASE \E outcome \in {"ok", "failed"} : SweepEnds("audit", g, outcome)
    <3>1. PICK outcome \in {"ok", "failed"} : SweepEnds("audit", g, outcome)
      BY <2>2
    <3>2. Progress("audit") = "running" /\ Progress("audit")' = outcome
      BY <1>0, <3>1, ProgressStep DEF SweepEnds, Does, Holds, Seen
    <3>3. UNCHANGED AuditResult
      BY <3>1 DEF SweepEnds, AuditResult
    <3> QED
      BY <3>1, <3>2, <3>3 DEF Audit!Next, Audit!End
  <2>3. CASE AuditFails(g)
    <3>1. Progress("audit") = "failed" /\ Progress("audit")' = "idle"
      BY <1>0, <2>3, ProgressStep DEF AuditFails, Does, Holds, Seen
    <3>2. AuditResult' = "failed"
      BY <2>3 DEF AuditFails, AuditResult
    <3> QED
      BY <3>1, <3>2 DEF Audit!Next, Audit!Show
  <2>4. CASE AuditSucceeds(g)
    <3>1. Progress("audit") = "ok" /\ Progress("audit")' = "idle"
      BY <1>0, <2>4, ProgressStep DEF AuditSucceeds, Does, Holds, Seen
    <3>2. AuditResult' = "ok"
      BY <2>4 DEF AuditSucceeds, AuditResult
    <3> QED
      BY <3>1, <3>2 DEF Audit!Next, Audit!Show
  <2>5. CASE ReportToScheduleTracker(g)
    BY <1>0, <1>1, <2>5, ProgressUnseen DEF ReportToScheduleTracker, Exits, Does
  <2> QED
    BY <1>4, <2>1, <2>2, <2>3, <2>4, <2>5 DEF GoroutineStep, AuditStep
<1>5. CASE Crash
  BY <1>5, CrashImplements DEF Audit!Next
<1>6. CASE UNCHANGED vars
  <2>1. Progress("audit")' = Progress("audit")
    BY <1>6, <1>0, ProgressSame DEF vars
  <2> QED
    BY <1>1, <1>6, <2>1 DEF vars
<1> QED
  BY <1>2, <1>3, <1>4, <1>5, <1>6 DEF Next, Trigger, Jobs
(* The same for the PR sweeper, whose step from published data to a cleared *)
(* flag SingleFlight does not see.                                          *)
LEMMA PRStepImplements == FlagInv /\ [Next]_vars => [PR!Next]_(PR!vars)
<1> SUFFICES ASSUME FlagInv, [Next]_vars PROVE [PR!Next]_(PR!vars)
  OBVIOUS
<1>0. /\ FlagHeld' /\ TypeOK
      /\ "audit" \in Jobs /\ "pr" \in Jobs
      /\ {"none", "spawned", "sweeping", "ok", "failed", "clearing", "reporting"} = Stages
  BY FlagStep DEF FlagInv, Jobs, Stages
<1>1. ASSUME UNCHANGED data, Progress("pr")' = Progress("pr")
      PROVE  UNCHANGED PR!vars
  BY <1>1 DEF PR!vars, PRResult
<1>2. ASSUME NEW j \in Jobs, NEW g \in Goroutines, TriggerSweep(j, g)
      PROVE  UNCHANGED PR!vars
  <2>1. CASE j = "pr"
    BY <1>0, <1>1, <1>2, <2>1, ProgressUnseen DEF TriggerSweep, Does
  <2>2. CASE j # "pr"
    BY <1>0, <1>1, <1>2, <2>2, EntersOne, ProgressSame DEF TriggerSweep
  <2> QED
    BY <2>1, <2>2
<1>3. ASSUME NEW g \in Goroutines, GoroutineStep("audit", g)
      PROVE  UNCHANGED PR!vars
  <2>1. /\ UNCHANGED data
        /\ \E s \in Stages : Enters(g, "audit", s)
    BY <1>0, <1>3
    DEF GoroutineStep, RunSweep, SweepEnds, AuditStep, AuditFails, AuditSucceeds,
        ReportToScheduleTracker, Exits
  <2> QED
    BY <1>0, <1>1, <2>1, EntersOne, ProgressSame
<1>4. ASSUME NEW g \in Goroutines, GoroutineStep("pr", g)
      PROVE  [PR!Next]_(PR!vars)
  <2>1. CASE RunSweep("pr", g)
    <3>1. Progress("pr") = "idle" /\ Progress("pr")' = "running"
      BY <1>0, <2>1, ProgressStep DEF RunSweep, Does, Holds, Seen
    <3>2. UNCHANGED PRResult
      BY <2>1 DEF RunSweep, PRResult
    <3> QED
      BY <3>1, <3>2 DEF PR!Next, PR!Begin
  <2>2. CASE \E outcome \in {"ok", "failed"} : SweepEnds("pr", g, outcome)
    <3>1. PICK outcome \in {"ok", "failed"} : SweepEnds("pr", g, outcome)
      BY <2>2
    <3>2. Progress("pr") = "running" /\ Progress("pr")' = outcome
      BY <1>0, <3>1, ProgressStep DEF SweepEnds, Does, Holds, Seen
    <3>3. UNCHANGED PRResult
      BY <3>1 DEF SweepEnds, PRResult
    <3> QED
      BY <3>1, <3>2, <3>3 DEF PR!Next, PR!End
  <2>3. CASE PRPublishes(g)
    <3>1. Progress("pr") = "ok" /\ Progress("pr")' = "idle"
      BY <1>0, <2>3, ProgressStep DEF PRPublishes, Does, Holds, Seen
    <3>2. PRResult' = "ok"
      BY <2>3 DEF PRPublishes, PRResult
    <3> QED
      BY <3>1, <3>2 DEF PR!Next, PR!Show
  <2>4. CASE PRClears(g)
    BY <1>0, <1>1, <2>4, ProgressUnseen DEF PRClears, Exits, Does
  <2>5. CASE PRFails(g)
    <3>1. Progress("pr") = "failed" /\ Progress("pr")' = "idle"
      BY <1>0, <2>5, ProgressStep DEF PRFails, Exits, Does, Holds, Seen
    <3>2. UNCHANGED PRResult
      BY <2>5 DEF PRFails, PRResult
    <3> QED
      BY <3>1, <3>2 DEF PR!Next, PR!Show
  <2> QED
    BY <1>4, <2>1, <2>2, <2>3, <2>4, <2>5 DEF GoroutineStep, PRStep
<1>5. CASE Crash
  BY <1>5, CrashImplements DEF PR!Next
<1>6. CASE UNCHANGED vars
  <2>1. Progress("pr")' = Progress("pr")
    BY <1>6, <1>0, ProgressSame DEF vars
  <2> QED
    BY <1>1, <1>6, <2>1 DEF vars
<1> QED
  BY <1>2, <1>3, <1>4, <1>5, <1>6 DEF Next, Trigger, Jobs

(* The audit sweeper keeps the promise of SingleFlight: no two sweeps at    *)
(* once, and Status() shows how the last one ended.                         *)
THEOREM AuditRefines == Spec => AuditSingleFlight
<1> QED
  BY FlagInit, FlagStep, InitImplements, AuditStepImplements, PTL
  DEF Spec, AuditSingleFlight, Audit!Spec

(* So does the PR sweeper, whose dashboard shows the last one that did not  *)
(* fail.                                                                    *)
THEOREM PRRefines == Spec => PRSingleFlight
<1> QED
  BY FlagInit, FlagStep, InitImplements, PRStepImplements, PTL
  DEF Spec, PRSingleFlight, PR!Spec

-----------------------------------------------------------------------------
(* A pull request is in one of the states of PRState.                       *)
LEMMA ClassifyState ==
    ASSUME NEW r PROVE Classify(r) \in States
BY DEF Classify, CheckState, ReviewState, States

(* Without the reviews there are none.                                      *)
LEMMA UnreadReviews ==
    ASSUME NEW r, "reviews" \in r.failed PROVE ReviewState(r) = "NoReviews"
<1>1. \A who : LatestReview(<<>>, who) = "none"
  BY DEF LatestReview
<1>2. ToSet(<<>>) = {}
  BY DEF ToSet
<1> QED
  BY <1>1, <1>2 DEF ReviewState

(* Whichever request failed, apart from the one for the check runs, the     *)
(* classification is the true one or asks for more than it.                 *)
LEMMA Flattery == ASSUME DashboardTypeOK PROVE NoFlattery
<1> DEFINE truth == [read EXCEPT !.failed = {}]
<1>0. read \in Readings
  BY DEF DashboardTypeOK, SweepTyped
<1>1. SUFFICES ASSUME "runs" \notin read.failed,
                      Classify(read) \notin {"FailingChecks", "PendingChecks"}
               PROVE  \/ Classify(read) = Classify(truth)
                      \/ Classify(read) = "NoReviews" /\ CheckState(truth) = "passing"
  BY DEF NoFlattery
<1>2. CheckState(read) = "passing" /\ Classify(read) = ReviewState(read)
  BY <1>1 DEF Classify, CheckState
<1>3. /\ truth.statuses = read.statuses /\ truth.runs = read.runs
      /\ truth.reviews = read.reviews /\ truth.failed = {}
  BY <1>0 DEF Readings
<1>4. "statuses" \notin read.failed
  BY <1>2 DEF CheckState
<1>5. CheckState(truth) = "passing"
  BY <1>1, <1>2, <1>3, <1>4 DEF CheckState
<1>6. CASE "reviews" \in read.failed
  BY <1>2, <1>5, <1>6, UnreadReviews
<1>7. CASE "reviews" \notin read.failed
  <2>1. ReviewState(truth) = ReviewState(read)
    BY <1>3, <1>7 DEF ReviewState
  <2> QED
    BY <1>2, <1>5, <2>1 DEF Classify
<1> QED
  BY <1>6, <1>7

-----------------------------------------------------------------------------
(* One more in one state is one more in total.                              *)
LEMMA TotalCounts ==
    ASSUME NEW c \in Counts, NEW s \in States
    PROVE  /\ [c EXCEPT ![s] = @ + 1] \in Counts
           /\ Total([c EXCEPT ![s] = @ + 1]) = Total(c) + 1
           /\ Total(c) \in Nat
BY DEF Total, Counts, States

LEMMA NothingCounted == NoCounts \in Counts /\ Total(NoCounts) = 0
BY DEF NoCounts, Total, Counts, States

(* The page of a listing that follows its first elements, and what it adds  *)
(* to them.                                                                 *)
PageAfter(seq, from, size) ==
    SubSeq(seq, from + 1, IF Len(seq) < from + size THEN Len(seq) ELSE from + size)

LEMMA PageOfListing ==
    ASSUME NEW S, NEW seq \in Seq(S), NEW from \in Nat, NEW size \in Nat \ {0}
    PROVE  /\ PageAfter(seq, from, size) \in Seq(S)
           /\ from <= Len(seq) =>
                 IF Len(PageAfter(seq, from, size)) < size
                 THEN SubSeq(seq, 1, from) \o PageAfter(seq, from, size) = seq
                 ELSE /\ from + size <= Len(seq)
                      /\ SubSeq(seq, 1, from) \o PageAfter(seq, from, size)
                            = SubSeq(seq, 1, from + size)
<1> DEFINE to == IF Len(seq) < from + size THEN Len(seq) ELSE from + size
           pagePRs == PageAfter(seq, from, size)
<1>0. pagePRs = SubSeq(seq, from + 1, to)
  BY DEF PageAfter
<1>1. to \in Int /\ from + 1 \in Int /\ Len(seq) \in Nat
  OBVIOUS
<1>2. \A i \in from + 1 .. to : seq[i] \in S
  OBVIOUS
<1>3. /\ pagePRs \in Seq(S)
      /\ Len(pagePRs) = IF from + 1 <= to THEN to - (from + 1) + 1 ELSE 0
  BY <1>0, <1>1, <1>2, SubSeqProperties
<1>4. ASSUME from <= Len(seq)
      PROVE  SubSeq(seq, 1, from) \o pagePRs = SubSeq(seq, 1, to)
  <2>1. from \in 0 .. Len(seq) /\ to \in from .. Len(seq) /\ 1 \in 1 .. Len(seq) + 1
    BY <1>4
  <2>2. from \in 1 - 1 .. Len(seq)
    BY <2>1
  <2> QED
    BY <1>0, <2>1, <2>2, ConcatAdjacentSubSeq
<1>5. SubSeq(seq, 1, Len(seq)) = seq
  BY SubSeqFull
<1> HIDE DEF pagePRs
<1>6. ASSUME from <= Len(seq), Len(pagePRs) < size
      PROVE  to = Len(seq)
  BY <1>1, <1>3, <1>6
<1>7. ASSUME from <= Len(seq), ~ Len(pagePRs) < size
      PROVE  to = from + size /\ to <= Len(seq)
  BY <1>1, <1>3, <1>7
<1>8. /\ pagePRs \in Seq(S)
      /\ from <= Len(seq) =>
            IF Len(pagePRs) < size
            THEN SubSeq(seq, 1, from) \o pagePRs = seq
            ELSE /\ from + size <= Len(seq)
                 /\ SubSeq(seq, 1, from) \o pagePRs = SubSeq(seq, 1, from + size)
  <2> HIDE DEF to
  <2> QED
    BY <1>3, <1>4, <1>5, <1>6, <1>7
<1> QED
  BY <1>8 DEF pagePRs

(* A list from which one is removed, or to which one is added.              *)
LEMMA RemovedAt ==
    ASSUME NEW S, NEW seq \in Seq(S), NEW i \in DOMAIN seq
    PROVE  RemoveAt(seq, i) \in Seq(S)
<1>1. SubSeq(seq, 1, i - 1) \in Seq(S) /\ SubSeq(seq, i + 1, Len(seq)) \in Seq(S)
  BY SubSeqProperties
<1> QED
  BY <1>1, ConcatProperties DEF RemoveAt
-----------------------------------------------------------------------------
(* The sweep is at a repository it has taken off its list, and before one   *)
(* starts there are no results.                                             *)
AtRepo ==
    /\ pc \in {"pulls"} \cup Classifying => repo \in Repos \ todo
    /\ pc = "idle" => results = {} /\ ~calm
    /\ pc = "pulls" => at = 1

(* As long as nothing was opened or closed, what is listed so far are the   *)
(* first pages of what was open; in the end it is all of it.                *)
FirstPages ==
    /\ (page - 1) * PageSize <= Len(open[repo])
    /\ listed = SubSeq(open[repo], 1, (page - 1) * PageSize)

Listing ==
    calm =>
        /\ pc = "pulls" => snapshot = open[repo] /\ FirstPages
        /\ pc \in Classifying \/ (pc = "next" /\ listed # <<>>) => listed = snapshot

(* Whatever happens meanwhile, as many are counted as have been classified, *)
(* and a repository has a line only when all that were listed are counted.  *)
Counting ==
    /\ pc = "pulls" => Total(counts) = 0
    /\ pc \in Classifying => Total(counts) = at - 1
    /\ \A l \in results :
          /\ l.repo \notin todo
          /\ pc \in {"pulls"} \cup Classifying => l.repo # repo
          /\ pc = "next" /\ l.repo = repo /\ listed # <<>> =>
                Total(l.counts) = Len(listed)

CountInv == DashboardTypeOK /\ AtRepo /\ Listing /\ Counting

LEMMA CountInvShows == CountInv => CountedOnce
BY DEF CountInv, Listing, Counting, CountedOnce

-----------------------------------------------------------------------------
(* The types, one lemma per group of actions.                               *)
LEMMA TypeGithub ==
    ASSUME DashboardTypeOK, NEW p \in PRs, Opens(p) \/ Closes(p) \/ Ages(p)
    PROVE  DashboardTypeOK'
<1>0. /\ Home[p] \in Repos /\ open[Home[p]] \in Seq(PRs)
      /\ MaxEvents \in Nat
  BY DashboardAssumption DEF DashboardTypeOK, GithubTyped
<1>1. events' \in 0..MaxEvents
  BY <1>0 DEF Changes, Opens, Closes, Ages, DashboardTypeOK, GithubTyped
<1>2. UNCHANGED <<failures, sweep, published, snapshot>>
  BY DEF Opens, Closes, Ages
<1>3. calm' \in BOOLEAN
  BY DEF Opens, Closes, Ages, DashboardTypeOK, SweepTyped
<1>4. open' \in [Repos -> Seq(PRs)]
  <2>1. CASE Opens(p)
    <3>1. <<p>> \o open[Home[p]] \in Seq(PRs)
      BY <1>0
    <3> QED
      BY <1>0, <2>1, <3>1 DEF Opens, DashboardTypeOK, GithubTyped
  <2>2. CASE Closes(p)
    BY <1>0, <2>2, RemovedAt DEF Closes, DashboardTypeOK, GithubTyped
  <2>3. CASE Ages(p)
    BY <2>3 DEF Ages, DashboardTypeOK, GithubTyped
  <2> QED
    BY <2>1, <2>2, <2>3
<1>5. old' \subseteq PRs
  BY DEF Opens, Closes, Ages, DashboardTypeOK, GithubTyped
<1> QED
  BY <1>1, <1>2, <1>3, <1>4, <1>5
  DEF sweep, DashboardTypeOK, GithubTyped, SweepTyped, ResultsTyped

LEMMA TypeForget ==
    ASSUME DashboardTypeOK, Publish \/ Restart PROVE DashboardTypeOK'
<1>1. NoCounts \in Counts /\ <<>> \in Seq(PRs) /\ MaxEvents \in Nat
  BY NothingCounted, DashboardAssumption
<1>2. Unread \in Readings
  BY DEF Unread, Readings
<1>3. Forget
  BY DEF Publish, Restart
<1>4. GithubTyped'
  BY <1>1 DEF Publish, Restart, Changes, github, DashboardTypeOK, GithubTyped
<1>5. SweepTyped'
  <2>1. calm' \in BOOLEAN
    BY <1>3, Zenon DEF Forget
  <2>2. /\ pc' \in {"idle", "next", "pulls"} \cup Classifying /\ pc' \notin Classifying
        /\ todo' \subseteq Repos /\ repo' \in Repos \cup {"none"} /\ page' \in Nat \ {0}
        /\ at' \in Nat \ {0}
    BY <1>3 DEF Forget, Classifying
  <2>3. /\ listed' \in Seq(PRs) /\ snapshot' \in Seq(PRs)
        /\ read' \in Readings /\ counts' \in Counts
    BY <1>1, <1>2, <1>3 DEF Forget
  <2> QED
    BY <2>1, <2>2, <2>3, Zenon DEF SweepTyped
<1>6. ResultsTyped'
  <2>1. CASE Publish
    <3>1. published' = [fetched |-> TRUE, repos |-> results, stale |-> stale]
      BY <2>1 DEF Publish
    <3>2. published'.fetched \in BOOLEAN /\ published'.stale = stale /\ published'.repos = results
      BY <3>1
    <3> QED
      BY <1>3, <3>2 DEF Forget, DashboardTypeOK, ResultsTyped
  <2>2. CASE Restart
    <3>1. published' = [fetched |-> FALSE, repos |-> {}, stale |-> {}]
      BY <2>2 DEF Restart
    <3>2. published'.fetched \in BOOLEAN /\ published'.stale = {} /\ published'.repos = {}
      BY <3>1
    <3> QED
      BY <1>3, <3>2 DEF Forget, DashboardTypeOK, ResultsTyped
  <2> QED
    BY <2>1, <2>2
<1> QED
  BY <1>4, <1>5, <1>6 DEF DashboardTypeOK

(* A page that is answered is the last one, and completes the listing, or   *)
(* adds a page to it.                                                       *)
LEMMA PageStep ==
    ASSUME DashboardTypeOK, AtRepo, FetchPage, Answered
    PROVE  /\ listed' \in Seq(PRs)
           /\ \/ /\ page' = page
                 /\ pc' = IF listed' = <<>> THEN "next" ELSE "statuses"
                 /\ FirstPages => listed' = open[repo]
              \/ /\ page' = page + 1
                 /\ pc' = "pulls"
                 /\ FirstPages => FirstPages'
<1> DEFINE from == (page - 1) * PageSize
           pagePRs == PageAfter(open[repo], from, PageSize)
<1>1. /\ PageSize \in Nat \ {0} /\ page \in Nat \ {0}
      /\ open[repo] \in Seq(PRs) /\ listed \in Seq(PRs)
  BY DashboardAssumption
  DEF FetchPage, AtRepo, DashboardTypeOK, GithubTyped, SweepTyped
<1>2. from \in Nat /\ page * PageSize = from + PageSize
  BY <1>1
<1>3. ~Failed
  BY DEF Failed, Answered, DashboardTypeOK, GithubTyped
<1>4. /\ listed' = listed \o pagePRs
      /\ IF Len(pagePRs) < PageSize
         THEN pc' = (IF listed' = <<>> THEN "next" ELSE "statuses") /\ UNCHANGED page
         ELSE page' = page + 1 /\ UNCHANGED pc
      /\ pc = "pulls" /\ UNCHANGED <<open, repo>>
  BY <1>2, <1>3 DEF FetchPage, Github, github, PageAfter
<1> HIDE DEF from
<1>6. /\ pagePRs \in Seq(PRs)
      /\ from <= Len(open[repo]) =>
            IF Len(pagePRs) < PageSize
            THEN SubSeq(open[repo], 1, from) \o pagePRs = open[repo]
            ELSE /\ from + PageSize <= Len(open[repo])
                 /\ SubSeq(open[repo], 1, from) \o pagePRs
                       = SubSeq(open[repo], 1, from + PageSize)
  BY <1>1, <1>2, PageOfListing
<1> HIDE DEF pagePRs
<1>7. listed' \in Seq(PRs)
  BY <1>1, <1>4, <1>6
<1>8. FirstPages => from <= Len(open[repo]) /\ listed = SubSeq(open[repo], 1, from)
  BY DEF FirstPages, from
<1>9. CASE Len(pagePRs) < PageSize
  BY <1>4, <1>6, <1>7, <1>8, <1>9
<1>10. CASE ~ Len(pagePRs) < PageSize
  <2>1. page' = page + 1 /\ pc' = "pulls"
    BY <1>4, <1>10
  <2>2. (page' - 1) * PageSize = from + PageSize
    BY <1>1, <1>2, <2>1
  <2>3. ASSUME FirstPages PROVE FirstPages'
    BY <1>4, <1>6, <1>8, <1>10, <2>2, <2>3 DEF FirstPages
  <2> QED
    BY <1>7, <2>1, <2>3
<1> QED
  BY <1>9, <1>10

LEMMA TypeList ==
    ASSUME DashboardTypeOK, AtRepo,
           StartSweep \/ FetchPage \/ \E r \in Repos : NextRepo(r)
    PROVE  DashboardTypeOK'
<1>1. NoCounts \in Counts /\ <<>> \in Seq(PRs) /\ MaxFailures \in Nat /\ PageSize \in Nat \ {0}
  BY NothingCounted, DashboardAssumption
<1>2. Unread \in Readings
  BY DEF Unread, Readings
<1>3. CASE StartSweep
  BY <1>1, <1>3
  DEF StartSweep, Failed, Answered, Github, github, Classifying,
      DashboardTypeOK, GithubTyped, SweepTyped, ResultsTyped
<1>4. ASSUME NEW r \in Repos, NextRepo(r) PROVE DashboardTypeOK'
  BY <1>1, <1>2, <1>4
  DEF NextRepo, github, Classifying, DashboardTypeOK, GithubTyped, SweepTyped, ResultsTyped
<1>5. CASE FetchPage
  <2>1. GithubTyped' /\ ResultsTyped'
    BY <1>1, <1>5
    DEF FetchPage, Failed, Answered, Github, github, DashboardTypeOK, GithubTyped, ResultsTyped
  <2>2. UNCHANGED <<todo, repo, at, read, counts, calm, snapshot>>
    BY <1>5 DEF FetchPage, Github
  <2>3. CASE Failed /\ pc' = "next" /\ listed' = <<>> /\ UNCHANGED page
    BY <1>1, <2>1, <2>2, <2>3 DEF Classifying, DashboardTypeOK, SweepTyped
  <2>4. CASE Answered
    <3>1. /\ listed' \in Seq(PRs) /\ page' \in Nat \ {0}
          /\ pc' \in {"pulls", "next", "statuses"}
          /\ pc' \in Classifying => listed' # <<>>
      BY <1>5, <2>4, PageStep DEF Classifying, DashboardTypeOK, SweepTyped
    <3>2. at = 1
      BY <1>5 DEF FetchPage, AtRepo
    <3>3. pc' \in Classifying => at' <= Len(listed')
      BY <2>2, <3>1, <3>2
    <3> QED
      BY <2>1, <2>2, <3>1, <3>3 DEF Classifying, DashboardTypeOK, SweepTyped
  <2> QED
    BY <1>5, <2>3, <2>4 DEF FetchPage
<1> QED
  BY <1>3, <1>4, <1>5

-----------------------------------------------------------------------------
(* CountInv is inductive: the steps of GitHub, of the listing, and of the   *)
(* classification.  Only the listing depends on what is open.               *)
LEMMA CountGithub ==
    ASSUME CountInv, NEW p \in PRs, Opens(p) \/ Closes(p) \/ Ages(p)
    PROVE  CountInv'
<1>1. DashboardTypeOK'
  BY TypeGithub DEF CountInv
<1>2. UNCHANGED <<sweep, snapshot>> /\ PageSize \in Nat
  BY DashboardAssumption DEF Opens, Closes, Ages
<1>3. Counting'
  BY <1>2 DEF CountInv, Counting, sweep
<1>4. AtRepo'
  <2>1. ~calm => ~calm'
    BY Zenon DEF Opens, Closes, Ages
  <2>2. UNCHANGED <<pc, repo, todo, results, at>>
    BY <1>2 DEF sweep
  <2> QED
    BY <2>1, <2>2 DEF CountInv, AtRepo
<1>5. Listing'
  <2>1. CASE Ages(p)
    BY <1>2, <2>1 DEF CountInv, Listing, FirstPages, Ages, sweep
  <2>2. CASE ~Ages(p)
    <3>1. calm' => calm /\ ~(pc = "pulls" /\ repo = Home[p])
      BY <2>2 DEF Opens, Closes
    <3>2. \A r \in Repos \ {Home[p]} : open'[r] = open[r]
      BY <2>2 DEF Opens, Closes, CountInv, DashboardTypeOK, GithubTyped
    <3>3. calm' /\ pc = "pulls" => open'[repo] = open[repo]
      BY <3>1, <3>2 DEF CountInv, AtRepo
    <3> QED
      BY <1>2, <3>1, <3>3 DEF CountInv, Listing, FirstPages, sweep
  <2> QED
    BY <2>1, <2>2
<1> QED
  BY <1>1, <1>3, <1>4, <1>5 DEF CountInv

LEMMA CountForget == ASSUME CountInv, Publish \/ Restart PROVE CountInv'
<1>1. DashboardTypeOK'
  BY TypeForget DEF CountInv
<1>2. pc' = "idle" /\ results' = {} /\ calm' = FALSE
  BY DEF Publish, Restart, Forget
<1> QED
  BY <1>1, <1>2 DEF CountInv, AtRepo, Listing, Counting, Classifying

LEMMA CountList ==
    ASSUME CountInv, StartSweep \/ FetchPage \/ \E r \in Repos : NextRepo(r)
    PROVE  CountInv'
<1>1. DashboardTypeOK'
  BY TypeList DEF CountInv
<1>2. CASE StartSweep
  <2>1. /\ pc = "idle" /\ results' = {} /\ pc' \in {"idle", "next"}
        /\ UNCHANGED <<calm, listed, snapshot, repo>>
        /\ results = {} /\ ~calm
    BY <1>2 DEF StartSweep, Github, CountInv, AtRepo
  <2> QED
    BY <1>1, <2>1 DEF CountInv, AtRepo, Listing, Counting, Classifying
<1>3. ASSUME NEW r \in Repos, NextRepo(r) PROVE CountInv'
  <2>1. AtRepo'
    BY <1>3 DEF NextRepo, AtRepo
  <2>2. Listing'
    <3>1. /\ PageSize \in Nat \ {0} /\ open[r] \in Seq(PRs)
          /\ pc' = "pulls" /\ repo' = r /\ page' = 1 /\ listed' = <<>>
          /\ snapshot' = open[r] /\ open' = open
      BY <1>3, DashboardAssumption
      DEF NextRepo, github, CountInv, DashboardTypeOK, GithubTyped
    <3>2. (page' - 1) * PageSize = 0 /\ Len(open[r]) \in Nat
      BY <3>1
    <3>3. SubSeq(open[r], 1, 0) = <<>>
      BY SubSeqEmpty
    <3> QED
      BY <3>1, <3>2, <3>3 DEF Listing, FirstPages, Classifying
  <2>3. Counting'
    BY <1>3, NothingCounted DEF NextRepo, CountInv, Counting, Classifying
  <2> QED
    BY <1>1, <2>1, <2>2, <2>3 DEF CountInv
<1>4. CASE FetchPage
  <2>1. /\ pc = "pulls" /\ at = 1
        /\ UNCHANGED <<open, todo, repo, at, counts, results, calm, snapshot>>
    BY <1>4 DEF FetchPage, Github, github, CountInv, AtRepo
  <2>2. CASE Failed /\ pc' = "next" /\ listed' = <<>>
    BY <1>1, <2>1, <2>2 DEF CountInv, AtRepo, Listing, Counting, Classifying
  <2>3. CASE Answered
    <3>1. /\ \/ /\ page' = page
                /\ pc' = IF listed' = <<>> THEN "next" ELSE "statuses"
                /\ FirstPages => listed' = open[repo]
             \/ /\ page' = page + 1
                /\ pc' = "pulls"
                /\ FirstPages => FirstPages'
      BY <1>4, <2>3, PageStep DEF CountInv
    <3>2. AtRepo'
      BY <2>1, <3>1 DEF CountInv, AtRepo, Classifying
    <3>3. Listing'
      BY <2>1, <3>1 DEF CountInv, Listing, Classifying
    <3>4. Counting'
      BY <2>1, <3>1 DEF CountInv, Counting, Classifying
    <3> QED
      BY <1>1, <3>2, <3>3, <3>4 DEF CountInv
  <2> QED
    BY <1>4, <2>2, <2>3 DEF FetchPage
<1> QED
  BY <1>2, <1>3, <1>4

LEMMA CountAsks ==
    ASSUME CountInv, pc \in Classifying, InRepo, Answered \/ Failed,
           NEW r \in Readings, NEW request \in Classifying, AsksNext(request, r)
    PROVE  CountInv'
<1>1. failures' \in 0..MaxFailures
  BY DashboardAssumption DEF Answered, Failed, CountInv, DashboardTypeOK, GithubTyped
<1>2. /\ UNCHANGED <<open, old, events, todo, repo, page, listed, published, calm, snapshot>>
      /\ UNCHANGED <<counts, stale, at, results>>
      /\ pc' \in Classifying /\ read' \in Readings
  BY DEF InRepo, Github, github, AsksNext
<1>3. GithubTyped' /\ ResultsTyped'
  BY <1>1, <1>2 DEF CountInv, DashboardTypeOK, GithubTyped, ResultsTyped
<1>4. SweepTyped'
  BY <1>2 DEF CountInv, DashboardTypeOK, SweepTyped
<1>5. AtRepo' /\ Listing' /\ Counting'
  BY <1>2 DEF CountInv, AtRepo, Listing, FirstPages, Counting, Classifying
<1> QED
  BY <1>3, <1>4, <1>5 DEF CountInv, DashboardTypeOK

LEMMA CountCounts ==
    ASSUME CountInv, pc \in Classifying, InRepo, Answered \/ Failed,
           NEW r \in Readings, Count(r)
    PROVE  CountInv'
<1>1. failures' \in 0..MaxFailures
  BY DashboardAssumption DEF Answered, Failed, CountInv, DashboardTypeOK, GithubTyped
<1>2. /\ UNCHANGED <<open, old, events, todo, repo, page, listed, published, calm, snapshot>>
      /\ read' \in Readings
  BY DEF InRepo, Github, github, Count
<1>3. /\ counts \in Counts /\ at \in Nat \ {0} /\ at <= Len(listed)
      /\ repo \in Repos \ todo /\ Total(counts) = at - 1
      /\ Len(listed) \in Nat
  BY DEF CountInv, DashboardTypeOK, SweepTyped, AtRepo, Counting
<1>4. counts' \in Counts /\ Total(counts') = at
  <2>1. counts' = [counts EXCEPT ![Classify(r)] = @ + 1]
    BY DEF Count
  <2>2. Classify(r) \in States
    BY ClassifyState
  <2>3. counts' \in Counts /\ Total(counts') = Total(counts) + 1
    BY <1>3, <2>1, <2>2, TotalCounts
  <2> QED
    BY <1>3, <2>3
<1>5. GithubTyped'
  BY <1>1, <1>2 DEF CountInv, DashboardTypeOK, GithubTyped
<1>6. stale' \subseteq Dependabots
  BY DEF Count, CountInv, DashboardTypeOK, ResultsTyped
<1>7. CASE at = Len(listed)
  <2> DEFINE line == [repo |-> repo, counts |-> counts']
  <2>1. pc' = "next" /\ results' = results \cup {line} /\ at' = at
    BY <1>7 DEF Count
  <2>2. line \in Lines
    BY <1>3, <1>4 DEF Lines
  <2>3. SweepTyped'
    BY <1>2, <1>4, <2>1 DEF CountInv, DashboardTypeOK, SweepTyped, Classifying
  <2>4. ResultsTyped'
    BY <1>2, <1>6, <2>1, <2>2 DEF CountInv, DashboardTypeOK, ResultsTyped
  <2>5. AtRepo' /\ Listing'
    BY <1>2, <2>1 DEF CountInv, AtRepo, Listing, Classifying
  <2>6. Counting'
    <3>1. ASSUME NEW l \in results'
          PROVE  l.repo \notin todo /\ (l.repo = repo => Total(l.counts) = Len(listed))
      <4>1. CASE l = line
        BY <1>3, <1>4, <1>7, <4>1
      <4>2. CASE l \in results
        BY <4>2 DEF CountInv, Counting
      <4> QED
        BY <2>1, <4>1, <4>2
    <3> QED
      BY <1>2, <2>1, <3>1 DEF Counting, Classifying
  <2> QED
    BY <1>5, <2>3, <2>4, <2>5, <2>6 DEF CountInv, DashboardTypeOK
<1>8. CASE at # Len(listed)
  <2>1. pc' = "statuses" /\ results' = results /\ at' = at + 1
    BY <1>8 DEF Count
  <2>2. SweepTyped'
    BY <1>2, <1>3, <1>4, <1>8, <2>1 DEF CountInv, DashboardTypeOK, SweepTyped, Classifying
  <2>3. ResultsTyped'
    BY <1>2, <1>6, <2>1 DEF CountInv, DashboardTypeOK, ResultsTyped
  <2>4. AtRepo' /\ Listing'
    BY <1>2, <2>1 DEF CountInv, AtRepo, Listing, Classifying
  <2>5. Counting'
    BY <1>2, <1>3, <1>4, <2>1 DEF CountInv, Counting, Classifying
  <2> QED
    BY <1>5, <2>2, <2>3, <2>4, <2>5 DEF CountInv, DashboardTypeOK
<1> QED
  BY <1>7, <1>8

LEMMA CountReads ==
    ASSUME CountInv, ReadStatuses \/ ReadRuns \/ ReadReviews PROVE CountInv'
<1>1. /\ pc \in Classifying /\ InRepo /\ read \in Readings
  BY DEF ReadStatuses, ReadRuns, ReadReviews, Classifying, CountInv, DashboardTypeOK, SweepTyped
<1>2. CASE ReadStatuses
  <2>1. PICK s \in Checks :
            \/ Failed /\ Count([Unread EXCEPT !.statuses = s, !.failed = {"statuses"}])
            \/ Answered /\ AsksNext("runs", [Unread EXCEPT !.statuses = s])
    BY <1>2 DEF ReadStatuses
  <2>2. /\ [Unread EXCEPT !.statuses = s, !.failed = {"statuses"}] \in Readings
        /\ [Unread EXCEPT !.statuses = s] \in Readings
        /\ "runs" \in Classifying
    BY DEF Unread, Readings, Classifying
  <2> QED
    BY <1>1, <2>1, <2>2, CountAsks, CountCounts
<1>3. CASE ReadRuns
  <2>1. PICK c \in Checks :
            LET ok == [read EXCEPT !.runs = c]
                r  == IF failures' = failures THEN ok ELSE [ok EXCEPT !.failed = {"runs"}]
            IN  /\ Answered \/ Failed
                /\ IF CheckState(r) = "passing" THEN AsksNext("reviews", r) ELSE Count(r)
    BY <1>3 DEF ReadRuns
  <2> DEFINE ok == [read EXCEPT !.runs = c]
             r  == IF failures' = failures THEN ok ELSE [ok EXCEPT !.failed = {"runs"}]
  <2>2. r \in Readings /\ "reviews" \in Classifying
    BY <1>1 DEF Readings, Classifying
  <2>3. /\ Answered \/ Failed
        /\ AsksNext("reviews", r) \/ Count(r)
    BY <2>1
  <2> HIDE DEF r
  <2> QED
    BY <1>1, <2>2, <2>3, CountAsks, CountCounts
<1>4. CASE ReadReviews
  <2>1. PICK v \in ReviewLists :
            \/ Failed /\ Count([read EXCEPT !.reviews = v, !.failed = @ \cup {"reviews"}])
            \/ Answered /\ Count([read EXCEPT !.reviews = v])
    BY <1>4 DEF ReadReviews
  <2>2. /\ [read EXCEPT !.reviews = v, !.failed = @ \cup {"reviews"}] \in Readings
        /\ [read EXCEPT !.reviews = v] \in Readings
    BY <1>1 DEF Readings
  <2> QED
    BY <1>1, <2>1, <2>2, CountCounts
<1> QED
  BY <1>2, <1>3, <1>4

LEMMA CountStep == CountInv /\ [DashboardNext]_dashboardVars => CountInv'
<1> SUFFICES ASSUME CountInv, [DashboardNext]_dashboardVars PROVE CountInv'
  OBVIOUS
<1>1. CASE UNCHANGED dashboardVars
  BY <1>1
  DEF dashboardVars, github, sweep, CountInv, DashboardTypeOK, GithubTyped, SweepTyped,
      ResultsTyped, AtRepo, Listing, FirstPages, Counting
<1>2. CASE DashboardNext
  BY <1>2, CountGithub, CountForget, CountList, CountReads DEF DashboardNext, Step
<1> QED
  BY <1>1, <1>2

LEMMA CountInit == DashboardInit => CountInv
<1> SUFFICES ASSUME DashboardInit PROVE CountInv
  OBVIOUS
<1>1. GithubTyped
  BY DashboardAssumption DEF DashboardInit, GithubTyped
<1>2. SweepTyped
  <2>1. calm \in BOOLEAN
    BY Zenon DEF DashboardInit
  <2>2. Unread \in Readings
    BY DEF Unread, Readings
  <2>3. /\ pc \in {"idle", "next", "pulls"} \cup Classifying /\ pc \notin Classifying
        /\ todo \subseteq Repos /\ repo \in Repos \cup {"none"} /\ page \in Nat \ {0}
        /\ at \in Nat \ {0}
    BY DEF DashboardInit, Classifying
  <2>4. /\ listed \in Seq(PRs) /\ snapshot \in Seq(PRs)
        /\ read \in Readings /\ counts \in Counts
    BY <2>2, NothingCounted DEF DashboardInit
  <2> QED
    BY <2>1, <2>3, <2>4, Zenon DEF SweepTyped
<1>3. ResultsTyped
  <2>1. published.fetched \in BOOLEAN /\ published.stale = {} /\ published.repos = {}
    BY DEF DashboardInit
  <2> QED
    BY <2>1 DEF DashboardInit, ResultsTyped
<1>4. AtRepo /\ Listing /\ Counting
  BY DEF DashboardInit, AtRepo, Listing, Counting, Classifying
<1> QED
  BY <1>1, <1>2, <1>3, <1>4 DEF CountInv, DashboardTypeOK

-----------------------------------------------------------------------------
(* The types of the sweep of pull requests, whatever the size of a page and *)
(* however many requests fail.                                              *)
THEOREM DashboardTyped == DashboardSpec => []DashboardTypeOK
<1> QED
  BY CountInit, CountStep, PTL DEF DashboardSpec, CountInv

(* A repository that was left alone while its pull requests were listed has *)
(* a line that counts each of them once, whatever the size of a page        *)
(* (fetchRepoPRCounts).                                                     *)
THEOREM EachIsCountedOnce == DashboardSpec => []CountedOnce
<1> QED
  BY CountInit, CountStep, CountInvShows, PTL DEF DashboardSpec

(* No failed request, but the one for the check runs, makes a pull request  *)
(* look better than it is (classifyPR).                                     *)
THEOREM FailuresDoNotFlatter == DashboardSpec => []NoFlattery
<1>1. CountInv => NoFlattery
  BY Flattery DEF CountInv
<1> QED
  BY <1>1, CountInit, CountStep, PTL DEF DashboardSpec
=============================================================================
