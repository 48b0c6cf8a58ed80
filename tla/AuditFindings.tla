--------------------------- MODULE AuditFindings ---------------------------
(***************************************************************************)
(* The scheduled audit sweep of lucos_repos (src/audit.go), the GitHub     *)
(* issues it raises and closes (src/github_issues.go), the findings table  *)
(* it writes (src/database.go) and the POST /api/rerun handler that writes *)
(* the same table while a sweep is running (src/rerun_handler.go).         *)
(*                                                                         *)
(* A "check" is one convention applied to one repository.  Whether a       *)
(* repository complies, is archived, or is classified differently in       *)
(* configy changes at any time; people close and reopen issues; every API  *)
(* call and every database write may fail; the process may crash between   *)
(* any two steps, which keeps the database and GitHub and loses the rest.  *)
(***************************************************************************)
EXTENDS Integers, Sequences, FiniteSets

CONSTANTS
  Repos,          \* repositories of the GitHub account
  Conventions,    \* registered conventions
  Types,          \* repository types configy can give
  AppliesTo,      \* AppliesTo[c]: the types convention c applies to
  NoIssues,       \* repositories whose issue tracker is disabled
  Handlers,       \* HTTP requests that may be inside POST /api/rerun at once
  Production,     \* ENVIRONMENT == "production"
  DbWritesFail,   \* may a database write fail (SQLITE_BUSY, disk full)?
  MaxEvents,      \* bound on changes made by people and on rerun requests
  MaxFaults,      \* bound on failed calls, failed writes and crashes
  NoPair,         \* no check in hand
  NoType          \* no type known

Checks == Repos \X Conventions

ASSUME ConstantsAssumption ==
  /\ AppliesTo \in [Conventions -> SUBSET Types]
  /\ NoIssues \subseteq Repos
  /\ Production \in BOOLEAN
  /\ DbWritesFail \in BOOLEAN
  /\ MaxEvents \in Nat
  /\ MaxFaults \in Nat
  /\ NoPair \notin Checks
  /\ NoType \notin Types

VARIABLES
  \* The world outside: GitHub and configy.
  compliant,   \* the checks whose repository complies right now
  flipped,     \* history: the checks whose compliance has ever changed
  archived,    \* the archived repositories
  repoType,    \* the type configy gives each repository
  issues,      \* issues[k]: the issues ever raised for check k, oldest first
  \* The SQLite database, which survives a crash.
  findings,    \* the findings table: a row for each check in its domain
  dbType,      \* the repos table: the type recorded for each repository
  \* The goroutine running sweep().
  pc,          \* where it is
  listed,      \* repos it fetched and will audit
  seenType,    \* repoInfos, the types it fetched
  todo,        \* repositories of the loop not yet reached
  batch,       \* checks not yet run of this repository, or of the retry tail
  pending,     \* pendingRetries
  tail,        \* in the retry-tail pass?
  skipped,     \* skippedCount > 0
  cur,         \* the check whose result is being processed
  verdict,     \* result.Pass of that check
  issue,       \* number of the issue in hand, 0 for none
  \* The rerun requests in progress.
  rerun,
  \* Bounds.
  events, faults

world     == <<compliant, flipped, archived, repoType>>
database  == <<findings, dbType>>
sweeper   == <<pc, listed, seenType, todo, batch, pending, tail, skipped,
               cur, verdict, issue>>
vars      == <<world, issues, database, sweeper, rerun, events, faults>>

-----------------------------------------------------------------------------
(* Data.                                                                   *)

\* State of an issue: open since the audit raised it, closed, or reopened by
\* a person after it had been closed.
IssueStates == {"open", "closed", "reopened"}

\* A row of the findings table.  url is the number of the linked issue (0 for
\* NULL); fresh says that updated_at is not before the start of the latest
\* sweep, which is all that DeleteStaleFindings asks of it.
Row == [pass : BOOLEAN, url : Nat, fresh : BOOLEAN]

PCs == {"idle", "listing", "typing", "repos", "checks", "ensure", "create",
        "unneeded", "save", "wrapup", "c4"}

\* A rerun request: the issue URLs (0 where there is no row) and types it read
\* from the database, the checks it was asked for and then those left to run,
\* and the check and result it is about to save.
Request == [pc : {"none", "types", "checks", "save"}, urls : [Checks -> Nat],
            types : [Repos -> Types \cup {NoType}], todo : SUBSET Checks,
            cur : Checks \cup {NoPair}, pass : BOOLEAN]
NoRequest == [pc |-> "none", urls |-> [k \in Checks |-> 0],
              types |-> [r \in Repos |-> NoType],
              todo |-> {}, cur |-> NoPair, pass |-> TRUE]

\* Mutant: the list call asks for state=closed.
OpenIssues_Mutant(k) == {n \in DOMAIN issues[k] : issues[k][n] = "closed"}

\* The open issues of check k (the audit-finding label and the title prefix
\* "[Convention] <id>:" identify them), whoever opened them last.
OpenIssues(k) == {n \in DOMAIN issues[k] : issues[k][n] # "closed"}

\* SaveFinding: INSERT ... ON CONFLICT(repo, convention) DO UPDATE.
SaveFinding(k, pass, url) ==
  findings' = [j \in DOMAIN findings \cup {k} |->
                 IF j = k THEN [pass |-> pass, url |-> url, fresh |-> TRUE]
                 ELSE findings[j]]

\* Mutant: only failing rows are cleaned up.
DeleteStaleFindings_Mutant ==
  findings' = [k \in {j \in DOMAIN findings : findings[j].fresh \/ findings[j].pass}
                 |-> findings[k]]

\* DeleteStaleFindings: DELETE FROM findings WHERE updated_at < start.
DeleteStaleFindings ==
  findings' = [k \in {j \in DOMAIN findings : findings[j].fresh} |-> findings[k]]

\* The checks that a repository list and a type map put in scope.
InScope(repos, type) == {k \in Checks : k[1] \in repos /\ type[k[1]] \in AppliesTo[k[2]]}

\* GetStatusReport: the repositories with findings (no others are in it), and
\* the issue URL of each finding.
ReportedRepos == {k[1] : k \in DOMAIN findings}
ReportedUrls  == [k \in Checks |-> IF k \in DOMAIN findings THEN findings[k].url ELSE 0]

\* What the sweep in progress regards as its scope.
Scope == InScope(listed, seenType)

Fault   == faults < MaxFaults /\ faults' = faults + 1
DbFault == DbWritesFail /\ Fault
Event   == events < MaxEvents /\ events' = events + 1
-----------------------------------------------------------------------------
\* A first start: an empty database, no issue raised yet.
SweepAtRest ==
  /\ pc = "idle" /\ listed = {} /\ seenType = [r \in Repos |-> NoType]
  /\ todo = {} /\ batch = {} /\ pending = {} /\ tail = FALSE /\ skipped = FALSE
  /\ cur = NoPair /\ verdict = TRUE /\ issue = 0

Init ==
  /\ compliant \in SUBSET Checks
  /\ flipped = {}
  /\ archived = {}
  /\ repoType \in [Repos -> Types]
  /\ issues = [k \in Checks |-> <<>>]
  /\ findings = <<>>
  /\ dbType = [r \in Repos |-> NoType]
  /\ SweepAtRest
  /\ rerun = [h \in Handlers |-> NoRequest]
  /\ events = 0
  /\ faults = 0

-----------------------------------------------------------------------------
(* sweep(): the lists it starts from.                                      *)

\* TriggerSweep, runSweep and the first line of sweep(): every row written so
\* far is now older than start.
StartSweep ==
  /\ pc = "idle"
  /\ pc' = "listing"
  /\ findings' = [k \in DOMAIN findings |-> [findings[k] EXCEPT !.fresh = FALSE]]
  /\ UNCHANGED <<world, issues, dbType, listed, seenType, todo, batch, pending,
                 tail, skipped, cur, verdict, issue, rerun, events, faults>>

\* fetchRepos; archived repositories are left out of the loop.
FetchRepos ==
  /\ pc = "listing"
  /\ pc' = "typing"
  /\ listed' = Repos \ archived
  /\ todo' = Repos \ archived
  /\ UNCHANGED <<world, issues, database, seenType, batch, pending, tail,
                 skipped, cur, verdict, issue, rerun, events, faults>>

\* fetchRepoTypes.
FetchTypes ==
  /\ pc = "typing"
  /\ pc' = "repos"
  /\ seenType' = repoType
  /\ UNCHANGED <<world, issues, database, listed, todo, batch, pending, tail,
                 skipped, cur, verdict, issue, rerun, events, faults>>

\* What is left in memory when sweep() returns or the process dies.
SweepForgotten ==
  /\ pc' = "idle" /\ listed' = {} /\ seenType' = [r \in Repos |-> NoType]
  /\ todo' = {} /\ batch' = {} /\ pending' = {} /\ tail' = FALSE /\ skipped' = FALSE
  /\ cur' = NoPair /\ verdict' = TRUE /\ issue' = 0

\* The early returns: no token, no repository list, no configy data, or no
\* token for the next repository.
AbortSweep ==
  /\ \/ pc \in {"listing", "typing"}
     \/ pc = "repos" /\ todo # {}
  /\ Fault
  /\ SweepForgotten
  /\ UNCHANGED <<world, issues, database, rerun, events>>

-----------------------------------------------------------------------------
(* sweep(): the loop over repositories and conventions.                    *)

\* UpsertRepo and the conventions that apply to the type the sweep fetched.
BeginRepo(r) ==
  /\ pc = "repos"
  /\ r \in todo
  /\ todo' = todo \ {r}
  /\ dbType' = [dbType EXCEPT ![r] = seenType[r]]
  /\ batch' = {k \in Scope : k[1] = r}
  /\ pc' = "checks"
  /\ UNCHANGED <<world, issues, findings, listed, seenType, pending, tail,
                 skipped, cur, verdict, issue, rerun, events, faults>>

\* UpsertRepo fails: the repository is passed over, and not counted as skipped.
BeginRepoFails(r) ==
  /\ pc = "repos"
  /\ r \in todo
  /\ DbFault
  /\ todo' = todo \ {r}
  /\ UNCHANGED <<world, issues, database, pc, listed, seenType, batch, pending,
                 tail, skipped, cur, verdict, issue, rerun, events>>

\* convention.Check determines compliance; processCheckResult is entered.
CheckDecides(k) ==
  /\ pc = "checks"
  /\ k \in batch
  /\ batch' = batch \ {k}
  /\ cur' = k
  /\ verdict' = (k \in compliant)
  /\ pc' = IF ~Production THEN "save"
           ELSE IF k \in compliant THEN "unneeded" ELSE "ensure"
  /\ UNCHANGED <<world, issues, database, listed, seenType, todo, pending, tail,
                 skipped, issue, rerun, events, faults>>

\* Mutant: a result with Err, whose Pass is false, is processed as a failure.
CheckUndecided_Mutant(k) ==
  /\ pc = "checks" /\ k \in batch /\ Fault
  /\ batch' = batch \ {k}
  /\ cur' = k /\ verdict' = FALSE
  /\ pc' = IF Production THEN "ensure" ELSE "save"
  /\ UNCHANGED <<world, issues, database, listed, seenType, todo, pending, tail,
                 skipped, issue, rerun, events>>

\* Mutant: a check that fails again in the retry tail is not counted.
CheckUncounted_Mutant(k) ==
  /\ pc = "checks" /\ k \in batch /\ Fault
  /\ batch' = batch \ {k}
  /\ pending' = IF tail THEN pending ELSE pending \cup {k}
  /\ UNCHANGED <<world, issues, database, pc, listed, seenType, todo, tail, skipped, cur,
                 verdict, issue, rerun, events>>

\* convention.Check returns Err: put off to the tail, or skipped for good.
CheckUndecided(k) ==
  /\ pc = "checks"
  /\ k \in batch
  /\ Fault
  /\ batch' = batch \ {k}
  /\ pending' = IF tail THEN pending ELSE pending \cup {k}
  /\ skipped' = (skipped \/ tail)
  /\ UNCHANGED <<world, issues, database, pc, listed, seenType, todo, tail, cur,
                 verdict, issue, rerun, events>>

\* The last convention of a repository, or of the retry tail, is done.
EndBatch ==
  /\ pc = "checks"
  /\ batch = {}
  /\ pc' = IF tail THEN "wrapup" ELSE "repos"
  /\ UNCHANGED <<world, issues, database, listed, seenType, todo, batch, pending,
                 tail, skipped, cur, verdict, issue, rerun, events, faults>>

\* Mutant: the pending checks are dropped instead of run once more.
EndLoop_Mutant ==
  /\ pc = "repos" /\ todo = {}
  /\ pending' = {} /\ pc' = "wrapup"
  /\ UNCHANGED <<world, issues, database, listed, seenType, todo, batch, tail, skipped,
                 cur, verdict, issue, rerun, events, faults>>

\* The loop is over: wait and run the pending checks once more, if any.
EndLoop ==
  /\ pc = "repos"
  /\ todo = {}
  /\ tail' = (pending # {})
  /\ batch' = pending
  /\ pending' = {}
  /\ pc' = IF pending = {} THEN "wrapup" ELSE "checks"
  /\ UNCHANGED <<world, issues, database, listed, seenType, todo, skipped, cur,
                 verdict, issue, rerun, events, faults>>

-----------------------------------------------------------------------------
(* processCheckResult of a failing check: EnsureIssueExists.               *)

\* Mutant: issueURL is declared again in the inner block (:=), and lost.
ProceedToSave_Mutant(n) == pc' = "save" /\ issue' = 0

\* On to SaveFinding, with issue number n in hand.
ProceedToSave(n) == pc' = "save" /\ issue' = n

\* findOpenIssue: the first match is linked; without one an issue is created.
\* A disabled tracker answers 410, which leaves the finding without a link.
FindOpenIssue ==
  /\ pc = "ensure"
  /\ \/ cur[1] \in NoIssues /\ ProceedToSave(0)
     \/ cur[1] \notin NoIssues /\ \E n \in OpenIssues(cur) : ProceedToSave(n)
     \/ /\ cur[1] \notin NoIssues
        /\ OpenIssues(cur) = {}
        /\ pc' = "create"
        /\ UNCHANGED issue
  /\ UNCHANGED <<world, issues, database, listed, seenType, todo, batch, pending,
                 tail, skipped, cur, verdict, rerun, events, faults>>

\* The list call fails (counted), or answers a 403 that is not a rate limit.
FindOpenIssueFails ==
  /\ pc = "ensure"
  /\ Fault
  /\ skipped' \in {skipped, TRUE}
  /\ ProceedToSave(0)
  /\ UNCHANGED <<world, issues, database, listed, seenType, todo, batch, pending,
                 tail, cur, verdict, rerun, events>>

Raised == issues' = [issues EXCEPT ![cur] = Append(@, "open")]

\* createIssue; an archived repository is read-only and answers 403.
CreateIssue ==
  /\ pc = "create"
  /\ IF cur[1] \in archived
       THEN ProceedToSave(0) /\ UNCHANGED issues
       ELSE ProceedToSave(Len(issues[cur]) + 1) /\ Raised
  /\ UNCHANGED <<world, database, listed, seenType, todo, batch, pending, tail,
                 skipped, cur, verdict, rerun, events, faults>>

\* The create call fails, before GitHub acted or after (the reply is lost).
CreateIssueFails ==
  /\ pc = "create"
  /\ Fault
  /\ skipped' = TRUE
  /\ ProceedToSave(0)
  /\ \/ UNCHANGED issues
     \/ cur[1] \notin archived /\ Raised
  /\ UNCHANGED <<world, database, listed, seenType, todo, batch, pending, tail,
                 cur, verdict, rerun, events>>

-----------------------------------------------------------------------------
(* processCheckResult of a passing check: CloseIssueIfOpen.  None of its   *)
(* errors is counted.                                                      *)

\* findOpenIssueObject: the first match is to be closed; none is a no-op.
FindIssueToClose ==
  /\ pc = "unneeded"
  /\ issue = 0
  /\ \/ /\ cur[1] \notin NoIssues
        /\ issue' \in OpenIssues(cur)
        /\ UNCHANGED pc
     \/ /\ cur[1] \in NoIssues \/ OpenIssues(cur) = {}
        /\ ProceedToSave(0)
  /\ UNCHANGED <<world, issues, database, listed, seenType, todo, batch, pending,
                 tail, skipped, cur, verdict, rerun, events, faults>>

FindIssueToCloseFails ==
  /\ pc = "unneeded"
  /\ issue = 0
  /\ Fault
  /\ ProceedToSave(0)
  /\ UNCHANGED <<world, issues, database, listed, seenType, todo, batch, pending,
                 tail, skipped, cur, verdict, rerun, events>>

Closed(n) == issues' = [issues EXCEPT ![cur] = [@ EXCEPT ![n] = "closed"]]

\* postIssueComment and closeIssue; an archived repository answers 403.
CloseIssue ==
  /\ pc = "unneeded"
  /\ issue # 0
  /\ ProceedToSave(0)
  /\ IF cur[1] \in archived THEN UNCHANGED issues ELSE Closed(issue)
  /\ UNCHANGED <<world, database, listed, seenType, todo, batch, pending, tail,
                 skipped, cur, verdict, rerun, events, faults>>

CloseIssueFails ==
  /\ pc = "unneeded"
  /\ issue # 0
  /\ Fault
  /\ ProceedToSave(0)
  /\ \/ UNCHANGED issues
     \/ cur[1] \notin archived /\ Closed(issue)
  /\ UNCHANGED <<world, database, listed, seenType, todo, batch, pending, tail,
                 skipped, cur, verdict, rerun, events>>

-----------------------------------------------------------------------------
(* The end of processCheckResult, and of sweep().                          *)

\* The next check starts with nothing in hand.
ResultProcessed == pc' = "checks" /\ cur' = NoPair /\ verdict' = TRUE /\ issue' = 0

SaveResult ==
  /\ pc = "save"
  /\ SaveFinding(cur, verdict, issue)
  /\ ResultProcessed
  /\ UNCHANGED <<world, issues, dbType, listed, seenType, todo, batch, pending,
                 tail, skipped, rerun, events, faults>>

\* SaveFinding fails: logged, and not counted as skipped.
SaveResultFails ==
  /\ pc = "save"
  /\ DbFault
  /\ ResultProcessed
  /\ UNCHANGED <<world, issues, database, listed, seenType, todo, batch, pending,
                 tail, skipped, rerun, events>>

\* Mutant: sweepInProgress is not cleared when sweep() fails.
EndIncomplete_Mutant == pc = "wrapup" /\ skipped /\ UNCHANGED vars

\* Some check was skipped: sweep() returns an error and deletes nothing.
EndIncomplete ==
  /\ pc = "wrapup"
  /\ skipped
  /\ SweepForgotten
  /\ UNCHANGED <<world, issues, database, rerun, events, faults>>

\* Mutant: rows are cleaned up although checks were skipped.
CleanUp_Mutant ==
  /\ pc = "wrapup"
  /\ DeleteStaleFindings
  /\ pc' = "c4"
  /\ UNCHANGED <<world, issues, dbType, listed, seenType, todo, batch, pending,
                 tail, skipped, cur, verdict, issue, rerun, events, faults>>

\* Every check was processed: the rows that this sweep did not write go.
CleanUp ==
  /\ pc = "wrapup"
  /\ ~skipped
  /\ DeleteStaleFindings
  /\ pc' = "c4"
  /\ UNCHANGED <<world, issues, dbType, listed, seenType, todo, batch, pending,
                 tail, skipped, cur, verdict, issue, rerun, events, faults>>

\* DeleteStaleFindings fails: logged only.
CleanUpFails ==
  /\ pc = "wrapup"
  /\ ~skipped
  /\ DbFault
  /\ pc' = "c4"
  /\ UNCHANGED <<world, issues, database, listed, seenType, todo, batch, pending,
                 tail, skipped, cur, verdict, issue, rerun, events>>

\* generateAndCommitC4, whose outcome does not change the sweep's; sweep()
\* then returns nil.
EndComplete ==
  /\ pc = "c4"
  /\ SweepForgotten
  /\ UNCHANGED <<world, issues, database, rerun, events, faults>>

-----------------------------------------------------------------------------
(* POST /api/rerun.                                                        *)

\* ?repo, ?convention, or both.
RerunRequests ==
  {{r} \X Conventions : r \in Repos} \cup {Repos \X {c} : c \in Conventions}
    \cup {{k} : k \in Checks}

\* GetStatusReport.  A repository without findings is not in the report: 404
\* when it was asked for by name.
RerunBegins(h, wanted) ==
  /\ rerun[h].pc = "none"
  /\ Event
  /\ LET asked == {k \in wanted : k[1] \in ReportedRepos}
     IN  /\ asked # {}
         /\ rerun' = [rerun EXCEPT ![h] =
              [pc |-> "types", urls |-> ReportedUrls, types |-> dbType,
               todo |-> asked, cur |-> NoPair, pass |-> TRUE]]
  /\ UNCHANGED <<world, issues, database, sweeper, faults>>

\* The token and fetchRepoTypesFrom; when configy does not answer, the types
\* recorded in the database are used.
RerunTypes(h) ==
  /\ rerun[h].pc = "types"
  /\ \E live \in BOOLEAN :
       LET type == IF live THEN repoType ELSE rerun[h].types
       IN  /\ IF live THEN UNCHANGED faults ELSE Fault
           /\ rerun' = [rerun EXCEPT ![h].pc = "checks",
                ![h].todo = {k \in @ : type[k[1]] \in AppliesTo[k[2]]}]
  /\ UNCHANGED <<world, issues, database, sweeper, events>>

\* convention.Check with a plain client.
RerunCheck(h, k) ==
  /\ rerun[h].pc = "checks"
  /\ k \in rerun[h].todo
  /\ rerun' = [rerun EXCEPT ![h].pc = "save", ![h].todo = @ \ {k},
                            ![h].cur = k, ![h].pass = (k \in compliant)]
  /\ UNCHANGED <<world, issues, database, sweeper, events, faults>>

\* Err: nothing is saved.
RerunCheckUndecided(h, k) ==
  /\ rerun[h].pc = "checks"
  /\ k \in rerun[h].todo
  /\ Fault
  /\ rerun' = [rerun EXCEPT ![h].todo = @ \ {k}]
  /\ UNCHANGED <<world, issues, database, sweeper, events>>

\* SaveFinding; a failing row gets the URL the request read at its start.
RerunUrl(h) == IF rerun[h].pass THEN 0 ELSE rerun[h].urls[rerun[h].cur]

RerunSave(h) ==
  /\ rerun[h].pc = "save"
  /\ \/ SaveFinding(rerun[h].cur, rerun[h].pass, RerunUrl(h)) /\ UNCHANGED faults
     \/ DbFault /\ UNCHANGED findings
  /\ rerun' = [rerun EXCEPT ![h].pc = "checks", ![h].cur = NoPair, ![h].pass = TRUE]
  /\ UNCHANGED <<world, issues, dbType, sweeper, events>>

\* The response is written; or the token could not be had (500).
RerunEnds(h) ==
  /\ \/ rerun[h].pc = "checks" /\ rerun[h].todo = {} /\ UNCHANGED faults
     \/ rerun[h].pc = "types" /\ Fault
  /\ rerun' = [rerun EXCEPT ![h] = NoRequest]
  /\ UNCHANGED <<world, issues, database, sweeper, events>>

-----------------------------------------------------------------------------
(* The world, and the process as a whole.                                  *)

\* A repository starts or stops complying with a convention.
Flip(k) ==
  /\ Event
  /\ compliant' = IF k \in compliant THEN compliant \ {k} ELSE compliant \cup {k}
  /\ flipped' = flipped \cup {k}
  /\ UNCHANGED <<archived, repoType, issues, database, sweeper, rerun, faults>>

\* A repository is archived or unarchived.
ToggleArchived(r) ==
  /\ Event
  /\ archived' = IF r \in archived THEN archived \ {r} ELSE archived \cup {r}
  /\ UNCHANGED <<compliant, flipped, repoType, issues, database, sweeper, rerun, faults>>

\* configy reclassifies a repository.
Reclassify(r, t) ==
  /\ Event
  /\ repoType' = [repoType EXCEPT ![r] = t]
  /\ UNCHANGED <<compliant, flipped, archived, issues, database, sweeper, rerun, faults>>

\* A person closes an open issue, or reopens a closed one.
PersonTogglesIssue(k, n) ==
  /\ Event
  /\ k[1] \notin archived
  /\ issues' = [issues EXCEPT ![k][n] = IF @ = "closed" THEN "reopened" ELSE "closed"]
  /\ UNCHANGED <<world, database, sweeper, rerun, faults>>

\* The process dies, and is restarted by docker with an empty memory.
Crash ==
  /\ Fault
  /\ SweepForgotten
  /\ rerun' = [h \in Handlers |-> NoRequest]
  /\ UNCHANGED <<world, issues, database, events>>

SweepStep ==
  \/ StartSweep \/ FetchRepos \/ FetchTypes \/ AbortSweep
  \/ \E r \in Repos : BeginRepo(r) \/ BeginRepoFails(r)
  \/ \E k \in Checks : CheckDecides(k) \/ CheckUndecided(k)
  \/ EndBatch \/ EndLoop
  \/ FindOpenIssue \/ FindOpenIssueFails \/ CreateIssue \/ CreateIssueFails
  \/ FindIssueToClose \/ FindIssueToCloseFails \/ CloseIssue \/ CloseIssueFails
  \/ SaveResult \/ SaveResultFails
  \/ EndIncomplete \/ CleanUp \/ CleanUpFails \/ EndComplete

RerunStep ==
  \E h \in Handlers :
    \/ \E wanted \in RerunRequests : RerunBegins(h, wanted)
    \/ RerunTypes(h) \/ RerunSave(h) \/ RerunEnds(h)
    \/ \E k \in Checks : RerunCheck(h, k) \/ RerunCheckUndecided(h, k)

WorldStep ==
  \/ \E k \in Checks : Flip(k) \/ \E n \in DOMAIN issues[k] : PersonTogglesIssue(k, n)
  \/ \E r \in Repos : ToggleArchived(r) \/ \E t \in Types : Reclassify(r, t)

Next == SweepStep \/ RerunStep \/ WorldStep \/ Crash

\* The ticker keeps starting sweeps, and a started sweep keeps running; nothing
\* is assumed of rerun requests or of people.
Spec == Init /\ [][Next]_vars
FairSpec == Spec /\ WF_vars(SweepStep)

-----------------------------------------------------------------------------
(* Properties.                                                             *)

\* Types of all variables, in parts.
WorldTypeOK ==
  /\ compliant \subseteq Checks
  /\ flipped \subseteq Checks
  /\ archived \subseteq Repos
  /\ repoType \in [Repos -> Types]
  /\ issues \in [Checks -> Seq(IssueStates)]

DatabaseTypeOK ==
  /\ DOMAIN findings \subseteq Checks
  /\ findings \in [DOMAIN findings -> Row]
  /\ dbType \in [Repos -> Types \cup {NoType}]

SweeperTypeOK ==
  /\ pc \in PCs
  /\ listed \subseteq Repos
  /\ todo \subseteq listed
  /\ seenType \in [Repos -> Types \cup {NoType}]
  /\ batch \subseteq Checks
  /\ pending \subseteq Checks
  /\ tail \in BOOLEAN /\ skipped \in BOOLEAN /\ verdict \in BOOLEAN
  /\ cur \in Checks \cup {NoPair}
  /\ issue \in Nat

\* In processCheckResult there is a check in hand, and a number found for it.
InHandOK ==
  /\ (pc \in {"ensure", "create", "unneeded", "save"}) => cur \in Checks
  /\ (pc = "unneeded" /\ issue # 0) => issue \in DOMAIN issues[cur]
  /\ issue # 0 => pc \in {"unneeded", "save"}

RerunTypeOK ==
  /\ rerun \in [Handlers -> Request]
  /\ \A h \in Handlers : rerun[h].pc = "save" => rerun[h].cur \in Checks

BoundsOK == events \in 0..MaxEvents /\ faults \in 0..MaxFaults

TypeOK == WorldTypeOK /\ DatabaseTypeOK /\ SweeperTypeOK /\ InHandOK /\ RerunTypeOK /\ BoundsOK

\* At most one issue per convention and repository stands open as the audit
\* raised it, whatever sweeps crashed after creating it, replies were lost or
\* issues were reopened by hand (findOpenIssueObject relies on it when it reads
\* one page and takes the first match).
AtMostOneOpenIssue ==
  \A k \in Checks : \A m, n \in DOMAIN issues[k] :
    issues[k][m] = "open" /\ issues[k][n] = "open" => m = n

\* What makes AtMostOneOpenIssue inductive: when the sweep is about to create an
\* issue, none stands open for the check, because nothing else raises issues
\* between findOpenIssue and createIssue.
CreatesAlone ==
  pc = "create" => \A n \in DOMAIN issues[cur] : issues[cur][n] # "open"

\* Failed calls never turn into verdicts: while a check has never changed, its
\* row says what is true of it, and no issue has been raised if it complies
\* (sweep() and the rerun handler drop results with Err).
NoFalseVerdict ==
  \A k \in Checks \ flipped :
    /\ k \in DOMAIN findings => findings[k].pass = (k \in compliant)
    /\ k \in compliant => issues[k] = <<>>

\* What makes NoFalseVerdict inductive: results on their way to the table are
\* true too, and an issue is only about to be raised for a failing check.
ResultsInHandTrue ==
  /\ pc \in {"ensure", "create", "save", "unneeded"} /\ cur \notin flipped =>
       verdict = (cur \in compliant)
  /\ pc \in {"ensure", "create"} => ~verdict
  /\ \A h \in Handlers : rerun[h].pc = "save" /\ rerun[h].cur \notin flipped =>
       rerun[h].pass = (rerun[h].cur \in compliant)

\* Every row of the findings table belongs to a repository with a row in the
\* repos table: the FOREIGN KEY of the schema, which SQLite does not enforce
\* here (GetStatusReport joins the two in memory).
FindingsHaveRepo == \A k \in DOMAIN findings : dbType[k[1]] # NoType

\* What makes FindingsHaveRepo inductive: UpsertRepo has run for whatever may
\* still be written, and the repos table never loses a row.
WorkHasRepo ==
  /\ pc \notin {"idle", "listing", "typing"} => seenType \in [Repos -> Types]
  /\ \A k \in batch \cup pending \cup ({cur} \ {NoPair}) : dbType[k[1]] # NoType
  /\ \A h \in Handlers : \A k \in rerun[h].todo \cup ({rerun[h].cur} \ {NoPair}) :
       dbType[k[1]] # NoType

\* The checks of the sweep that still have a result to come.
Unsettled == {k \in Scope : k[1] \in todo} \cup batch \cup pending \cup {cur}

\* No check of the sweep's scope is forgotten: it is still to be done, or has
\* been counted as skipped, or has a row written since the sweep began.  It is
\* what lets DeleteStaleFindings take every older row for out of scope.
NoCheckForgotten ==
  pc \notin {"idle", "listing", "typing"} =>
    \/ skipped
    \/ \A k \in Scope \ Unsettled : k \in DOMAIN findings /\ findings[k].fresh

\* What makes NoCheckForgotten inductive: where the sweep's work lists are empty.
SweepShape ==
  /\ pc \notin {"ensure", "create", "unneeded", "save"} => cur = NoPair
  /\ pc \in {"idle", "listing", "typing", "repos", "wrapup"} => batch = {}
  /\ pc \in {"idle", "listing", "typing"} => ~tail
  /\ pc = "typing" => todo = listed
  /\ tail \/ pc = "wrapup" => todo = {} /\ pending = {}

\* What makes OnlyScopeSurvives inductive: the sweep works on checks of its scope
\* only, and starts with nothing to do and no types known.
WorkInScope ==
  /\ pc \in {"idle", "listing", "typing"} =>
       /\ batch = {} /\ pending = {} /\ cur = NoPair
       /\ seenType = [r \in Repos |-> NoType]
  /\ batch \cup pending \cup ({cur} \ {NoPair}) \subseteq Scope

\* Without reruns, what was written since the sweep began is in its scope.
FreshInScope ==
  pc # "idle" => \A k \in DOMAIN findings : findings[k].fresh => k \in Scope

\* A row of the findings table is deleted only if its check is out of the scope
\* of the sweep that deletes it (audit.go:478, database.go:164: cleaning up
\* never removes findings that were merely skipped).
OnlyOutOfScopeDeleted ==
  [][\A k \in DOMAIN findings \ DOMAIN findings' : k \notin Scope]_vars

\* A successful sweep leaves rows for the checks of its scope only (audit.go:292:
\* stale findings are deleted on a fully successful sweep).
OnlyScopeSurvives ==
  [][CleanUp => DOMAIN findings' \subseteq Scope]_vars

\* What readers of the findings table can tell of the sweep, and of a row: its
\* result and link, and whether it was written since the sweep began.
SweepSeen == CASE pc = "idle" -> "idle"
               [] pc \in {"listing", "typing"} -> "begun"
               [] pc = "c4" -> "done"
               [] OTHER -> "running"
TableSeen == [k \in DOMAIN findings |->
                [pass |-> findings[k].pass, url |-> findings[k].url]]
Recorded  == {k \in DOMAIN findings : findings[k].fresh}

Table == INSTANCE FindingsTable
           WITH Reruns <- Handlers # {}, sweep <- SweepSeen, scope <- Scope,
                table <- TableSeen, recorded <- Recorded

\* The sweep, the rerun handler and the database together keep the promise of
\* FindingsTable: only a sweep that recorded its whole scope deletes rows, those
\* it did not record, and every other row changes only by being recorded anew
\* (audit.go:292, database.go:163).
TableRefined == Table!Spec

\* Once the world stands still, the table holds exactly the checks in scope with
\* their true results, an issue is open exactly for the failing ones, and their
\* rows link to an open issue.
Consistent ==
  /\ DOMAIN findings = InScope(Repos \ archived, repoType)
  /\ \A k \in DOMAIN findings :
       /\ findings[k].pass = (k \in compliant)
       /\ Production /\ k[1] \notin NoIssues =>
            IF k \in compliant THEN OpenIssues(k) = {}
                               ELSE findings[k].url \in OpenIssues(k)

\* Finitely many changes and failures are always recovered from: sweep after
\* sweep brings the dashboard and the issues in line with the repositories.
Converges == <>[]Consistent

\* A sweep that has begun ends.
SweepEnds == pc # "idle" ~> pc = "idle"
=============================================================================
