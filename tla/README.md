# Verification of lucos_repos

lucos_repos audits every repository of a GitHub account against a set of
conventions. A scheduled sweep runs every convention on every repository, keeps
the results in SQLite, raises a GitHub issue for each failing check and closes it
when the check passes; a complete sweep then derives a C4 model of the estate and
commits it to a repository of its own. A second sweeper feeds a dashboard of open
pull requests. HTTP endpoints start sweeps, run single checks again, and audit a
branch for CI.

This directory holds TLA+ modules that model the stateful core of that program,
TLC configurations that check them on small instances, and proofs that TLAPS
checks for every value of the constants. Each module is translated from the code;
`PROJECT.json` maps its definitions to source lines.

- [Inventory](#inventory)
- [Modules and the code](#modules-and-the-code)
- [Runs, bounds and what they show](#runs-bounds-and-what-they-show)
- [Fairness](#fairness)
- [Proofs](#proofs)
- [Disagreements between code and comments](#disagreements-between-code-and-comments)
- [What the models assume and leave out](#what-the-models-assume-and-leave-out)
- [Plan](#plan)

## Inventory

| Component | State | Operations | What makes it correct |
|---|---|---|---|
| Audit sweep (`audit.go`) | locals of one goroutine: lists, pending retries, `skippedCount` | `sweep`, `processCheckResult`, cleanup | no verdict from failed calls; no check forgotten; cleanup deletes only what left the scope; converges after the last fault |
| Issue lifecycle (`github_issues.go`) | issues on GitHub | `EnsureIssueExists`, `CloseIssueIfOpen`, `findOpenIssuesByIDPrefix` | one open issue per check, across lost replies and crashes |
| Findings database (`database.go`) | tables `repos`, `findings` | `UpsertRepo`, `SaveFinding`, `DeleteStaleFindings`, `GetStatusReport` | rows belong to known repositories and to the scope |
| Rerun endpoint (`rerun_handler.go`) | what the request read at its start | `POST /api/rerun` | does not interfere with a sweep |
| Sweep triggers (`audit.go`, `pr_dashboard.go`, handlers) | `sweepInProgress`, last results | `TriggerSweep`, `runSweep`, `Start`, `Status`, `Data` | one sweep at a time; the flag is always cleared; sweeps recur |
| HTTP transports (`conventions/*_transport.go`, `httpcache.go`) | last slot, response cache | `RoundTrip` of throttle, rate limit, cache | requests spaced; waits bounded; one answer per URL and sweep |
| GitHub App token (`github_auth.go`) | cached token, mutex | `GetInstallationToken` | no token expires in use; every caller is served |
| C4 estate model (`c4.go`) | artifacts and issues on GitHub | `generateAndCommitC4`, `routeC4DivergencesToIssues` | success means fresh artifacts; issues follow divergences |
| Configy lists (`audit.go`) | none | three requests and a paged list | one classification per repository |
| Rate-limit waits of direct calls (`ratelimit.go`) | none | wait and retry once | bounded, at most one retry |
| PR dashboard (`pr_dashboard.go`) | published data | `runSweep`, `fetchRepoPRCounts`, `classifyPR`, `getCheckStatus` | each PR counted once; failed requests do not flatter a PR; the health check follows the truth |
| Audit API and limiter (`audit_api.go`) | timestamps per repository | `POST /api/audit` | at most the limit in any window; a branch is blamed for what it breaks, and for nothing else |
| OIDC validation (`oidc.go`) | cached keys, a lock held across fetches | `ValidateToken`, `getKeys`, `refreshKeys` | withdrawn keys are soon refused; a rotation shuts nobody out; everyone is answered |
| Dry run and diff (`cmd_audit*.go`) | the report being made, pending retries | `audit --dry-run`, `audit diff` | exit code 0 means complete; the diff is what the pull request changes |
| Conventions (`conventions/`) | what a check has read so far | ~30 checks and helpers | an API error never becomes a verdict; what is held against a repository is true of it; conventions do not contradict each other |
| Rendering, wiring (`dashboard.go`, `main.go`) | none | formatting, start-up | – |

How they interact. `main` starts both sweepers; each has a loop with a ticker,
and the handlers call the same `TriggerSweep`, so the single-flight flag is all
that keeps two sweeps apart. The sweep gets its token from the shared
`GitHubAuthClient`, reads configy and GitHub, and hands each convention a client
that is a stack of transports, shared by everything the sweep does. Results go to
GitHub (issues) and SQLite (findings). Reruns write the same findings table while
a sweep is on. The end of a sweep reports to the schedule tracker, and a complete
one runs the C4 stage first, which uses the same issue client and reports under a
name of its own.

What is hard. Every step between two calls is a place for a crash, a lost reply
or a person's edit; the sweep reads lists once and works on them for minutes
(stale state); "could not be decided" must stay distinct from "failed" through
many early returns; two writers share the findings table; deletion is by
timestamp, so whatever is not written again is deleted; transports and the token
are shared by goroutines that sleep; rate limits stretch every deadline.
`PROJECT.json` lists these hazards with their lines.

## Modules and the code

| Module | Models |
|---|---|
| `AuditFindings` | the audit sweep, its issues, the findings and repos tables, concurrent reruns, GitHub and configy changing underneath, crashes |
| `HttpTransports` | the transport stack, one `RoundTrip` per goroutine at a time |
| `FindingsTable` | the abstract promise of the findings table: when a row may change, and when it may go. `AuditFindings` implements it |
| `SingleFlight` | the abstract promise of a sweeper: sweeps do not overlap, and the shown result is that of the last |
| `SweepTriggers` | both sweepers' flags, goroutines, outcomes; implements two instances of `SingleFlight` |
| `InstallationToken` | the token cache and its mutex, exchanges, and callers that use a token for a while |
| `C4Model` | the C4 stage: reads, divergences, issue reconciliation, artifacts |
| `RequiredChecks` | the five conventions about required status checks, request by request, while main moves and CI reports |
| `PRDashboard` | the sweep of open pull requests, its classification and counts, the health check made from them |
| `AuditGate` | what lets a request to `/api/audit` in: key cache and rate limiter, concurrent requests, key rotation |
| `AuditBaseline` | the findings table as baseline: a sweep writing it, the audit of a branch, the dry run and its diff |
| `MC*` | model values and the definitions a `.cfg` gives to constants |
| `*_proofs` | theorems and their inductive invariants; `Sweepers_proofs` has those of `SweepTriggers` and of `PRDashboard`, whose specification is called `DashboardSpec` so that one module can extend both |

**AuditFindings.** The sweeper is a program counter with the locals of `sweep()`:
`listed`/`seenType` (the lists), `todo` (repositories of the loop), `batch`
(checks of this repository), `pending` (`pendingRetries`), `tail` (the retry
pass), `skipped` (`skippedCount > 0`), `cur`/`verdict`/`issue` (one call of
`processCheckResult`). One action is one call that leaves the process, with what
the code does until the next one: `FetchRepos`, `FetchTypes`, `BeginRepo`
(token and `UpsertRepo`), `CheckDecides`/`CheckUndecided`, `FindOpenIssue`,
`CreateIssue`, `FindIssueToClose`, `CloseIssue`, `SaveResult`, `CleanUp`; each
has its failing twin, where a call that changes GitHub may fail after it took
effect. Early returns are `AbortSweep`, `BeginRepoFails` and `EndIncomplete`.
`SaveFinding` and `DeleteStaleFindings` are the SQL statements; a row's
`updated_at` is reduced to `fresh`, whether it is at or after the start of the
latest sweep, which is all the DELETE asks. `RerunBegins` … `RerunEnds` are the
handler, with what it read at its start in `rerun[h]`.

**FindingsTable.** What the readers of the table (dashboard, status report, audit API)
may count on, without issues, retries or GitHub: a sweep begins, learns its scope,
records checks of it, and only once it has recorded them all deletes the rows that it
did not record; a rerun records a check at any time. `AuditFindings` maps its stages to
these four (`SweepSeen`), its rows to their result and link (`TableSeen`), and `fresh`
to `recorded`. With a database that refuses writes the promise does not hold (`BusyDb`).

**HttpTransports.** `call[c]` is one goroutine's `RoundTrip`: `Lookup` (cache),
`Reserve` (a slot, under the throttle's mutex), `Send` (after the sleep, which
may end late), then by the answer `PassOn`, `GiveUp` or `WaitForReset` and
`Retry`, and `Store`. Time is an integer clock that cannot pass a deadline by
more than `MaxOversleep`.

**SweepTriggers.** One step per critical section of a sweeper's mutex. What a
sweep does is left to `AuditFindings`. The refinement mapping reads the abstract
`sweep` off the goroutines (`Progress`) and the abstract `result` off the fields
that `Status()` and `Data()` return.

**InstallationToken.** `stage[c]` says where a caller is; `Exchange`, `Mint` (on
GitHub's side) and `Receive` are the request, so that a token ages on its way
back. The local clock is off GitHub's by `skew`. The sweep keeps the tokens of
the checks it put off (`kept`) and uses them again in `Retry`.

**C4Model.** `FetchSystems`, `FetchWebhooks`, `FetchList`, `ProbeProducers` and
`ProbeInfo` fill `model` and `valid` one request at a time, while
`ConfigyChanges`, `SystemChanges` and `GitHubEdited` go on. `Reconcile`,
`NextRepo`, `EnsureIssueExists`, `ListOpen`, `CloseIssueIfOpen` are
`routeC4DivergencesToIssues`; `Authorise`, `FetchFile`, `PutFile`, `Finish` the
write-back, where a PUT is a compare-and-set on the file's SHA. `Rendered` says
what each artifact shows: nodes, edges, divergences. `Truth` is the model one
would get by reading everything at once; properties compare with it.

**RequiredChecks.** `trees` is the history of main, `reported` what CI has said of
each commit so far. `conv`, `pc` and `seen` are the check: which convention, the
request it is about to send, and what the answers so far have told it. Each request
resolves `heads/main` when it is sent, so a push between two of them mixes commits.
`circleci-jobs` goes through `CircleConfig`, `CircleRequired`, `CircleSuggest`; the
two CodeQL conventions through `CodeQLLanguages`, `HasCodeQLFile` or `SettingsFile`
and `SettingsRequired`; `infra-repos` through two requests; `coherent` through
`CoherentRequired`, `HeadStatuses`, `HeadRuns`, the look at the parent, the CodeQL
matrix and Dependabot's pull requests. The rules themselves (`MissingJobs`,
`Suggestions`, `Stale`, `Mismatched`, `Unsatisfiable`, …) are operators on what was
read. A failing request ends the check in an error, or in a sub-check that is left
out, or in nothing learnt of the parent, as the code of that request has it. Names
are values; `Trim` and `Bare` are the two ways in which the code shortens one.

**PRDashboard.** `open` and `old` are GitHub's side. The sweep is at a repository
(`repo`), at a page of its listing (`FetchPage`), then at the `at`-th of the pull
requests `listed`: `ReadStatuses`, `ReadRuns`, `ReadReviews`. `read` keeps what was
true at each request next to which of them failed, so that `NoFlattery` can compare
the classification with the one the truth would have given. `Publish` is the
critical section at the end, `Restart` loses what was published.

**AuditGate.** `stage[c]` is one handler. `CachedKeys`, `Fetch`, `Fetched` and
`FetchFails` are `getKeys` and `refreshKeys`, with the lock held (`holder`) from
`Fetch` on; `Lookup` is the key function given to the JWT library. `Allow` and
`Refuse` are the limiter's critical section. `allowed`, `withdrawn`, `absent` and
`fetchFailed` are history, for the properties.

**AuditBaseline.** One repository. A verdict carries the state of the default
branch it is about (`of`), which no step reads. The sweep is reduced to what it
does to the table (`UpsertRepo`, `SaveFinding`, `DeleteStaleFindings`, and skipped
checks, which keep the cleanup away). `ReadRecords` and `ReadFindings` are the two
queries of `GetStatusReport`; `FetchTypes`/`FetchTypesFails`, `AuditChecks` and
`Answer` the handler; `DryRunBegins`, `DryRunChecks`, `DryRunRetries` the dry run;
`FetchBaseline` the end of it and the workflow's fetch of the baseline. `NewFailures`
and `ResolvedFailures` are `ComputeAuditDiff`.

How the modules fit together. `SweepTriggers` says when a sweep runs;
`AuditFindings`, `C4Model` and `PRDashboard` say what it does. `AuditFindings` takes
a check as decided or undecided: `RequiredChecks` shows where that comes from,
`HttpTransports` and `InstallationToken` which of its requests fail. `AuditGate`
hands its requests to `AuditBaseline`, whose sweep is `AuditFindings` seen from the
table. They are not composed into one state machine: each boundary is an interface
of two or three outcomes, and the product would only multiply states.

## Runs, bounds and what they show

Bounds: `MaxEvents` counts changes by people (and rerun requests),
`MaxFaults` failed calls and crashes, `MaxCalls`/`MaxTime` the length of a run of
the transports, `MaxCrashes` restarts of the sweepers. Each is a guard of the
model and named in its `CONSTANTS`.

| Run | Question | Bounds |
|---|---|---|
| `FindingsLive` | no duplicate issue, no false verdict; sweeps end; table and issues converge | 1 check, 1 rerun, 3 events, 2 faults, database writes may fail |
| `FindingsScope` | no check forgotten, cleanup deletes what left the scope and nothing else, `FindingsTable` implemented, while database writes succeed and nobody reruns | 2 repositories (one without issues) × 2 checks, 1 event, 2 faults |
| `HttpTransports` | requests spaced, no slot lost, cached answers agree, a rate-limit 403 gets out only after its wait, every round trip ends | 2 goroutines, 3 calls, 2 contents, late sleepers, waits past, short and too long |
| `SweepTriggers` | single flight (twice a refinement), sweeps recur | 3 goroutines per sweeper, 2 crashes |
| `TokenInUse` | no token expires in use; whoever asks is served | 3 callers, lifetime 6, margin 2, time for a second token |
| `C4Estate` | issues told true in undisturbed runs, diagrams closed, success means fresh; issues and artifacts converge, commits cease | 2 systems, 2 changes, 1 fault |
| `RequiredChecks` | nothing false is held against a repository, a pass is earned, there is something all five accept, advice works | 1 orb job reported under its old name, 2 languages, 4 trees, 3 commits, 1 failure |
| `PRDashboard` | each PR counted once, not flattered by failures, the health check follows | 2 repositories, 3 PRs on pages of one, 2 changes or restarts, 1 failure |
| `AuditGate` | limit kept in any window, keys recent, nobody shut out, everyone answered | 2 callers, 3 requests, limit 1, 1 rotation, 2 ticks with window and cache of 2 |
| `AuditBaseline` | regressions real and found, dry run complete, diff exact | 3 kinds of convention, 1 change, 2 faults, 1 sweep, 1 client |
| `BusyDb`, `C4UnreachableCloses` | a sentence of the code or its docs that the code does not keep | as small as shows it |

Why they are enough to show something. The interesting cases need one fault and
one or two changes: a check in each of the sweep's branches, a change between the
lists and the loop, a lost reply before a save, a rerun that spans a cleanup, one
caller late and one in time. Two conventions or two repositories are needed for
one check to be put off while another is processed; two goroutines for a race;
two lifetimes for a token renewed; three commits for a parent that is not the
first and a push during the check; pages of one pull request for a last page that
is full; a window and a cache that end within the clock for their edges. The
invariants are proved without these bounds. Every property is broken by at least one mutation of the
code's definitions under the same configuration (`PROJECT.json`, "mutants"; their
definitions end in `_Mutant` or name the change).

`CHECK_DEADLOCK FALSE` in the configurations of `HttpTransports`, `AuditGate` and
`AuditBaseline`: their bounds on calls, requests and clients let the model stop when
all are done. Everywhere else a deadlock would be an error.

## Fairness

- `AuditFindings!FairSpec`, `C4Model!FairSpec`: a sweep that has a next step takes
  it, and sweeps come again, by the ticker of `Start`. That calls return is an
  assumption: configy, `/_info` and artifact requests have timeouts, the GitHub
  calls of `audit.go` and `github_issues.go` use `http.DefaultClient` and have none
  (listed as a hazard). Faults and people's changes are not fair: they are bounded
  and may not happen at all, and what converges does so after the last of them.
- `HttpTransports!FairSpec`: time passes, and a sleeper whose time has come runs.
- `SweepTriggers!FairSpec`: the loop of each sweeper triggers again and again, and
  a goroutine that can go on does. A trigger that finds the flag set is no step.
- `InstallationToken!FairSpec`: an exchange returns (with a token or an error), and
  strong fairness of taking the mutex, because `sync.Mutex` hands over to a waiter
  that has waited for more than a millisecond.

- `PRDashboard!FairDashboardSpec`: the ticker starts sweeps, and a sweep that has a next step
  takes it; requests return, with the same reservation as above.
- `AuditGate!FairSpec`: each handler goes on. That a fetch of keys returns is not an
  assumption here: its client has a timeout of ten seconds. That a handler gets the
  lock follows from weak fairness because requests, and so waiters, are bounded.

## Proofs

All are for arbitrary constants subject to each module's `ConstantsAssumption` (types
of the constants; `DashboardAssumption` in `PRDashboard`) and these: for the token,
`MarginAssumption`; in `HttpTransports`, `NothingAssumption`, that no response is the
value for having none; in `RequiredChecks`, `TreesAssumption` (a file that cannot be
parsed has no contents) and `NamesAssumption`: a job is reported under a name that the
convention's rules take for it, job names do not start with the prefix the code trims,
and `Analyze (X)` tells its language X.

| Theorem | Says | Rests on |
|---|---|---|
| `TypeCorrect` | `[]TypeOK` of AuditFindings | one lemma per group of actions |
| `OneOpenIssue` | `[]AtMostOneOpenIssue` | `CreatesAlone`: while the sweep is about to create an issue, none is open that the audit raised; people only reopen, which is told apart |
| `VerdictsTrue` | `[]NoFalseVerdict` | `ResultsInHandTrue`: results on their way to the table or to GitHub are true as well, in the sweep and in every rerun |
| `NothingForgotten` | `[]NoCheckForgotten` while database writes succeed | `SweepShape`: where each of the sweep's work lists is empty |
| `ScopeKept` | `OnlyOutOfScopeDeleted`, same premise | `NoCheckForgotten` in the step that cleans up |
| `ScopeSurvives` | `OnlyScopeSurvives`, without reruns | `WorkInScope` (the sweep has nothing in hand that is out of its scope) and `FreshInScope` (so what it wrote is in its scope); no premise on the database is needed |
| `TableIsRefined` | AuditFindings implements `FindingsTable`, while database writes succeed, reruns or not | `NoCheckForgotten` in the step that cleans up, `WorkInScope` in the one that saves; every other step is a stutter, or one of the sweep's four stages |
| `ForeignKeyHolds` | `[]FindingsHaveRepo` | `WorkHasRepo`: whatever may still be written has its repository already |
| `NoSlotIsLost` | `[]NoSlotLost` | `SlotsUsed`: from any time on, `last` is at most an interval further for each goroutine that holds a slot after that time; of the present alone it would not be inductive |
| `CacheAgrees` | `[]Agreement` | `CacheInv`: in sequential use the entry of a URL is the response last handed out for it, or empty |
| `TransportsTyped`, `ThrottleSpaces` | `SpacedApart` for any number of goroutines | `SlotsApart` (reserved slots are `MinInterval` apart), `SlotsAhead` (`last` is the latest), `StartsBehind` (the latest start is at most an oversleep behind its slot) |
| `LimitIsMetTwice` | `LimitMetTwice` | `MetInv`: a rate-limit 403 that is past the retry transport is of a second attempt |
| `FlagAlwaysHeld` | `[]FlagHeld` | inductive with `TypeOK` |
| `AuditRefines`, `PRRefines` | each sweeper implements `SingleFlight` | `FlagHeld`: with one holder of the flag, each step maps to a step or a stutter |
| `TokensTyped`, `TokenLive` | `[]LiveInUse` | `LivesOn`: a token in use outlives the work that is left, one on its way outlives the rest of its exchange and that work |
| `C4Typed` | `[]TypeOK` of C4Model | – |
| `SuccessTold` | `[]SuccessIsFresh` | `ReadsTrue` (in an undisturbed run, what has been read is the truth) and `Written` (artifacts left behind in the loop are as rendered, or the error is kept) |
| `IssuesToldTrue` | `IssuesTrue` | `ReadsTrue` and `BatchTrue` (issues in hand to close are of no current divergence) |
| `DiagramsClosed` | `[]EdgesDeclared` | `ModelClosed`: edges read so far lead to declared elements, however torn the reads |
| `ChecksTyped`, `StaleIsStale` | `[]NoFalseStale` | `CIRight`: CI reports only what it runs and, unless commits outrun it, all of it on every commit but the last; `ParentRead`: what has been read of the parent's statuses is all there are |
| `UnsatisfiableIsTrue` | `[]NoFalseUnsatisfiable` | `CIRight` and `BaseRead`: what was read of the base runs on it |
| `ConventionsAgree` | `[]Fixable` | no invariant but the types: requiring what CI reports on main satisfies all five |
| `SuggestionsMend` | `[]SuggestionsWork` | `CIRight`, and that a check under way has no verdict (`Undecided`). The suggestion is made from one state of HEAD and read in a later one, so the step that makes it carries the proof |
| `PassIsEarned` | `[]PassEarned` | `CIRight`; `RecentRead` (what has been read of HEAD ran on a recent commit); `EarnedSoFar`: each part of the pass holds, or has been skipped, from the request on that settles it |
| `DashboardTyped`, `EachIsCountedOnce` | `[]CountedOnce` of PRDashboard | `Listing`: unless pull requests were opened or closed meanwhile, what is listed so far are the first pages of what was open; `Counting`: as many are counted as have been classified, and a repository gets its line only after its last one. `CountedOnce` speaks of the end only and is not inductive without them |
| `FailuresDoNotFlatter` | `[]NoFlattery` | the types: it is a fact about `Classify` for every reading |
| `GateTyped`, `LimitKept` | `[]WithinLimit` | `StampsKept`: the limiter forgets stamps, and what it has forgotten is out of every window still to come. `WithinLimit` is about all windows, past and present, and is not inductive without it |
| `RefusalsJustified` | `RefusedWhenFull` | `StampsKept`: the stamps that count are the requests let through in the window that ends now |
| `KeysRecent` | `[]AcceptedKeyRecent` | `Timely` (history is not ahead of the clock), `CacheTrue` (a cached key is published, or was withdrawn after the fetch), `GotRecent` |
| `RotationShutsNobodyOut` | `[]NotShutOut` | `Noticed`: a request whose key is not published knows that it was absent |
| `BaselineTyped`, `BlameIsDeserved` | `[]RegressionsReal` | `PlainInv` and `SeenInv`: a verdict kept in the table, the sweep, the request or the dry run was true of the state of the default branch that it is about, as that branch stood or with the pull request; `ScopeInv`: a request has details for exactly what is in its scope and no longer to do |
| `BreakageIsFound` | `[]RegressionsFound` | the same |
| `DryRunIsComplete`, `DiffIsExact` | `[]DryRunComplete`, `[]DiffExact` | `DryInv`: the report has what is in scope and neither to do nor put off; with `PlainInv` and `SeenInv` two verdicts on one state differ by what the pull request touches |

Every invariant and every action property of a passing run is a theorem. Only `TLC`
looks at what needs fairness (`Converges`, `SweepEnds`, `CallsReturn`, `SweepsRecur`,
`TokensArrive`, `IssuesConverge`, `ModelConverges`, `CommitsCease`, `HealthFollows`,
`RequestsAnswered`), because the proof system handles neither liveness under fairness
nor `ENABLED`, and at the two runs that must be violated. Type invariants are proved and
not run. Nothing here needs a recursive definition (the counts of `PRDashboard` are six
numbers, the latest review an index); what a recursion computes for every input would be
beyond the prover too.

## Disagreements between code and comments

Each of the first two is a run that TLC must find violated, and an entry under
"findings" with the lines it contradicts.

1. `BusyDb`: a failed `SaveFinding` or `UpsertRepo` is not counted as skipped, so
   the cleanup deletes the row the check had.
2. `C4UnreachableCloses`: a probe that fails closes the issues of the divergences
   it would have found, saying that they now pass; the next good probe raises a
   new issue.

Others met on the way, which the properties make room for or the models include:

- The response to the retry after a rate limit is not looked at, so a second
  rate-limit 403 is passed on and cached for the rest of the sweep
  (`ratelimit_transport.go:134`; lines 35–36 there and `audit.go:303` say that they
  never are). `LimitMetTwice` only says that such a 403 had its wait.
- A check put off to the retry tail is run again with the token of its first pass
  (`audit.go:457`), which may have expired (`audit.go:366` says that the token is
  fetched anew for each repository because one "can expire mid-loop").
  `LiveInUse` leaves the stage `retrying` out.
- When configy cannot be asked, the audit handler falls back to the type of the
  last sweep, "degraded, not broken" (`audit_api.go:134`), but the hosts stay empty,
  and a convention that compares with them reports a regression that is none.
  `RegressionsReal` excepts that case (`degraded`). The rerun handler does the same
  (`rerun_handler.go:118`).
- When its check runs cannot be read a pull request counts as passing
  (`pr_dashboard.go:365`), although `pr_dashboard.go:353` treats an error as pending
  "to avoid false negatives". `NoFlattery` excepts that case.
- `coherent` says that the required checks are valid on HEAD also when HEAD has
  reported nothing, and that there is "no recent Dependabot PR" when the listing was
  refused. `PassEarned` allows for both.
- A job that runs on main only: `circleci-jobs` wants it required, `coherent` objects
  because Dependabot's pull requests never report it. `Fixable` is for repositories
  without such jobs.
- The dry run counts a repository as compliant although checks of it were skipped
  (`cmd_audit.go:244`), which `DryRunComplete` therefore says only of exit code 0;
  and ADR-0003 has exit code 2 still post the diff, while the workflow's step fails
  on it (`.github/workflows/audit-dry-run.yml:40`), so that the later ones do not run.
- `GetStatusReport` reads repositories and findings in two queries
  (`database.go:303`): a repository swept for the first time in between has
  findings and no type. `AuditBaseline` has both queries.

- A rerun in progress writes a row for a pair that has left the scope, and the
  sweep's cleanup keeps it (`rerun_handler.go:34`: "The re-run does not interfere
  with the scheduled sweep"). So `OnlyScopeSurvives` is checked without reruns;
  `Converges`, with them, says that the next sweep removes the row.
- A rerun writes the issue link it read at its start over one that a sweep stored
  meanwhile (`rerun_handler.go:161`: "Preserve the existing issue URL"). The next
  sweep restores it, by `Converges`.
- `MinInterval` is kept between reserved slots, not between starts
  (`throttle_transport.go:30`): `SpacedApart` allows for one late sleeper.
- Two concurrent cache misses may store different responses (`httpcache.go:27`
  calls them identical). A sweep runs its checks one after another, so `Agreement`
  is checked for sequential use.
- Issues of divergences on systems no longer in configy are never closed
  (`c4.go:796`): `IssuesConverge` speaks of the systems that configy lists.
- The C4 stage touches issues outside production too, unlike the sweep
  (`audit.go:516`).

## What the models assume and leave out

- GitHub has handled a request by the time its client sees the connection drop:
  a lost reply is of a request that took effect before the next call, never after.
- The clock of the process does not step back, and SQLite's stored timestamps
  compare as they were taken.
- In `AuditFindings` the list of repositories, the types and the status report are
  each read in one step; checks judge the repository as it is at that moment;
  repositories and conventions are taken in any order; forks, which the code
  leaves out like archived repositories, are not told apart.
- A convention check is what it decides, or that it could not, except in
  `RequiredChecks`.
- `RequiredChecks`: CI reports each check of a commit once, all of them if given
  time, and what runs is what the tree says; the branch protection may change
  between any two checks; a pull request starts from a commit of main, and its base
  is known. Patterns in branch filters stand for the branches they match. A job
  is reported under one name, which the convention's rules for names can take for it
  (`NamesAssumption`).
- `AuditBaseline`: `AppliesToRepo` is part of `AppliesTo`; the pull request of the
  dry run changes what checks find (`touched`), on the default branch.
- `AuditGate`: a token is good if its key is among those fetched, and its other
  claims hold. `PRDashboard`: pull requests are not reopened, and what statuses
  and check runs hold does not change while one is being classified.
- `HttpTransports` leaves out the time requests are in flight; the throttle spaces
  their starts. `MaxTime` is larger than any run of `MaxCalls` calls takes.
- `InstallationToken`: work with a token takes at most `MaxWork`, an exchange
  `MaxExchange`, and `MaxWork + MaxSkew <= Margin`. A rate-limit wait of up to 30
  minutes inside the checks of one repository breaks this, and with it
  `LiveInUse`: the margin of five minutes is right only without such waits.
- `C4Model`: at most one issue is open per divergence (what `AtMostOneOpenIssue`
  shows for the same client); the SHA of a file stands for its content; a system's
  `dependsOn` does not change; event types, names in DSL form (two ids that differ
  in `-` and `_` only) and layout are abstracted. `EdgesDeclared` excepts loganne
  itself: if configy does not list it, its edges have no declared end. Without the
  writer's credentials (`WriteAuth = FALSE`) a run ends in an error; the proofs cover
  that case, the runs the other.
- Not modelled: rendering and wiring, which keep no state; signature checking and
  SQLite, which are libraries; the text of issues, comments and logs. Of the
  conventions, those that scan the text of one or two files
  (`env-var-passthrough.go`, `standard-env-vars.go`, the `dockerfile-*` and
  `docker-*` ones, `dependabot-auto-merge-workflow.go` and the like): they make one or two
  requests, keep nothing, and what could be wrong with them is in the parsing of
  shell, YAML and Dockerfiles, which a model would have to spell out character by
  character. Nor the waits of `ratelimit.go`, the protocol of `RateLimitTransport`
  once more for calls that are made one at a time; nor what a torn read of configy's
  three lists or of the pages of repositories does to a sweep.

## Plan

Done, in this order: the audit sweep and its data, the transports, triggers, token
and the C4 stage; then the conventions about required checks, the pull request
dashboard, the gate of the audit API, and the baseline with the dry run and its diff;
then the proofs of every invariant and action property.
What would come next:

1. The three lists of configy and the pages of repositories, read while they change,
   composed with the scope of `AuditFindings`: what one torn read may do to the
   cleanup.
2. An abstract specification of a check's issue (what may happen to it between two
   sweeps), next to that of its row in `FindingsTable`, and refined by `AuditFindings`
   and by the reconciliation of `C4Model`.
3. The Dependabot conventions (`dependabot-auto-merge-workflow.go` and the secrets
   they need) next to `RequiredChecks`.
