--------------------------- MODULE RequiredChecks ---------------------------
(***************************************************************************)
(* The conventions about the status checks that the branch protection of   *)
(* main requires: circleci-jobs-in-required-checks, has-codeql-workflow,   *)
(* codeql-workflow-security-settings, required-status-checks-coherent and  *)
(* no-stale-codeql-requirement-on-infra-repos.  A check of one of them is  *)
(* a series of GitHub requests (conventions.go), one action each, while    *)
(* commits are pushed to main and CI reports on them; any request may      *)
(* fail.                                                                   *)
(***************************************************************************)
EXTENDS Integers, Sequences, FiniteSets

CONSTANTS
    Names,          \* names of status checks
    Jobs,           \* ... that are names of CircleCI jobs in config.yml
    Langs,          \* languages that CodeQL supports
    Main,           \* the branch main, as CircleCI's filters see it
    PRBranch,       \* ... and the branch of a pull request
    Trees,          \* what a commit may contain
    RequiredSets,   \* what the branch protection may require
    Analyze,        \* the check that CodeQL reports for each language
    Trim,           \* a name without its "ci/circleci: " prefix
    Bare,           \* a name without what precedes its last slash
    Context,        \* the name under which CircleCI reports each job
    MaxFailures,    \* bound: requests of a check that fail
    MaxCommits      \* bound: commits on main

Branches == {Main, PRBranch}
Runs == {Analyze[l] : l \in Langs}

(* The name a job is reported under is one that the convention takes for it; *)
(* no job has a name with the prefix; CodeQL's name tells its language.      *)
ASSUME NamesAssumption ==
    /\ Trim \in [Names -> Names] /\ Bare \in [Names -> Names]
    /\ Analyze \in [Langs -> Names] /\ Jobs \subseteq Names
    /\ \A l, m \in Langs : Analyze[l] = Analyze[m] => l = m
    /\ \A n \in Names : Bare[Bare[n]] = Bare[n]
    /\ \A j \in Jobs : Trim[j] = j
    /\ Context \in [Jobs -> Names \ Runs]
    /\ \A j \in Jobs : Trim[Context[j]] \in {j, Bare[j]}
    /\ RequiredSets \subseteq SUBSET Names
    /\ Main # PRBranch /\ MaxCommits \in Nat \ {0} /\ MaxFailures \in Nat

(* An entry for a test or build job in .circleci/config.yml: the branches    *)
(* that its filters match, a pattern standing for those it matches.          *)
JobEntries == [name : Jobs, ignore : SUBSET Branches, filtered : BOOLEAN, only : SUBSET Branches]

(* A file is absent, cannot be parsed, or can.  A workflow has a             *)
(* pull_request trigger or not, the other security settings or not, and      *)
(* perhaps an explicit language matrix.                                      *)
Files == {"absent", "broken", "ok"}
Contents == [circleci : Files, jobs : SUBSET JobEntries, dependabot : BOOLEAN,
             codeql : Files, onPR : BOOLEAN, settings : BOOLEAN, explicit : SUBSET Langs]

ASSUME TreesAssumption ==
    /\ Trees \subseteq Contents
    /\ \A t \in Trees : /\ t.circleci = "ok" \/ t.jobs = {}
                        /\ t.codeql = "ok" \/ t.explicit = {}

VARIABLES
    trees,      \* the commits on main, oldest first
    reported,   \* the names CI has reported on each of them so far
    rushed,     \* history: a commit was pushed before CI was done with its parent
    conv,       \* the convention being checked
    pc,         \* the request it is about to send
    seen,       \* what the answers so far have told it
    issues,     \* what it holds against the repository
    skipped,    \* sub-checks it will say it did not carry out
    verdict,    \* what it returned
    failed,     \* history: its requests that failed
    since       \* history: which commit was HEAD when it began

github == <<trees, reported, rushed>>
check  == <<conv, pc, seen, issues, skipped, verdict, failed, since>>
vars   == <<github, check>>

Conventions == {"circleci-jobs", "has-codeql", "codeql-settings", "infra-repos", "coherent"}
HEAD == Len(trees)

----------------------------------------------------------------------------
(* What GitHub, CircleCI and CodeQL do. *)

(* RunsOnBranch: "ignore" wins, an "only" that matches nothing excludes all. *)
RunsOnBranch(entry, branch) ==
    /\ branch \notin entry.ignore
    /\ entry.filtered => branch \in entry.only

JobsOn(t, branch) == {e.name : e \in {x \in t.jobs : RunsOnBranch(x, branch)}}

(* The checks that run for a commit of main and for a pull request.          *)
Fires(t) == {Context[j] : j \in JobsOn(t, Main)} \cup {Analyze[l] : l \in t.explicit}

PRFires(t) ==
    {Context[j] : j \in JobsOn(t, PRBranch)}
       \cup {Analyze[l] : l \in {x \in t.explicit : t.onPR}}

(* Bound: main changes before and during a check.  After one it need not: a  *)
(* check starts from every state of main that is reached before the first.   *)
MainMoves == pc # "done"

Push(t) ==
    /\ MainMoves
    /\ HEAD < MaxCommits
    /\ trees' = Append(trees, t)
    /\ reported' = Append(reported, {})
    /\ rushed' = (rushed \/ reported[HEAD] # Fires(trees[HEAD]))
    /\ UNCHANGED check

(* CI reports a check on a commit, which it does once. *)
Report(c, n) ==
    /\ MainMoves
    /\ n \in Fires(trees[c]) \ reported[c]
    /\ reported' = [reported EXCEPT ![c] = @ \cup {n}]
    /\ UNCHANGED <<trees, rushed, check>>

----------------------------------------------------------------------------
(* The rules, each a function of what a check has read. *)

MissingJobs_Mutant(jobs, required) == jobs \ {Trim[n] : n \in required}

(* circleci-jobs: the jobs on main that no required check stands for.        *)
MissingJobs(jobs, required) ==
    {j \in jobs : {j, Bare[j]} \cap {Trim[n] : n \in required} = {}}

Suggestions_Mutant(j, contexts) ==
    LET For(key) == {n \in contexts : key \in {Trim[n], Bare[Trim[n]]}}
    IN  IF For(j) # {} THEN For(j) ELSE {j}

(* resolveCheckNames: the context that HEAD reports for a job, if there is   *)
(* one for its name or else for the last segment of its name.                *)
Suggestions(j, contexts) ==
    LET For(key) == {n \in contexts : key \in {Trim[n], Bare[Trim[n]]}}
    IN  IF For(j) # {} THEN For(j) ELSE IF For(Bare[j]) # {} THEN For(Bare[j]) ELSE {j}

(* The required checks that are "Analyze (X)" (analyzeLanguageRe), and those *)
(* with an X not in the matrix.  codeql-settings objects to them even if     *)
(* there is no matrix; coherent looks only if there is one.                  *)
Analyzed(required) == required \cap Runs
Uncovered(required, matrix) == Analyzed(required) \ {Analyze[l] : l \in matrix}
Mismatched(required, matrix) == IF matrix = {} THEN {} ELSE Uncovered(required, matrix)

(* coherent, step 2: not on HEAD, though something is, nor on its parent.    *)
MissingOnHead(required, head) == IF head = {} THEN {} ELSE required \ head
Stale(required, head, parent) == MissingOnHead(required, head) \ parent

Unsatisfiable_Mutant(required, prHead, prBase) == required \ prHead

(* coherent, step 4: on the commit Dependabot's branch started from, but not *)
(* on its head.                                                              *)
Unsatisfiable(required, prHead, prBase) == (required \ prHead) \cap prBase

----------------------------------------------------------------------------
(* The requests of a check. *)

Unread == [required |-> {}, head |-> {}, parent |-> 0, before |-> {}, codeQL |-> FALSE, jobs |-> {},
           matrix |-> {}, suggested |-> {}, base |-> 0, prHead |-> {}, prBase |-> {}]

FirstRequest == [c \in Conventions |->
    CASE c = "circleci-jobs" -> "config"
      [] c \in {"has-codeql", "codeql-settings"} -> "languages"
      [] c \in {"infra-repos", "coherent"} -> "required"]

Start(c) ==
    /\ pc \in {"idle", "done"}
    /\ conv' = c /\ pc' = FirstRequest[c] /\ since' = HEAD
    /\ seen' = Unread /\ issues' = {} /\ skipped' = {} /\ failed' = {} /\ verdict' = "none"
    /\ UNCHANGED github

At(c, request) == conv = c /\ pc = request /\ UNCHANGED <<github, conv, since>>

(* How a step ends: with the next request, with a verdict, or with an error. *)
Continue(request) == pc' = request /\ UNCHANGED verdict
Return(v) == pc' = "done" /\ verdict' = v
Judge(found, skips) ==
    /\ issues' = found /\ skipped' = skips
    /\ Return(IF found = {} THEN "pass" ELSE "fail")

Answered == UNCHANGED failed
Failed == Cardinality(failed) < MaxFailures /\ failed' = failed \cup {pc}
Silent == UNCHANGED <<issues, skipped>>
Err == Failed /\ Return("error") /\ UNCHANGED seen /\ Silent

Found(kind, names) == {<<kind, n>> : n \in names}

(* circleci-jobs-in-required-checks.                                         *)
CircleConfig ==
    /\ At("circleci-jobs", "config")
    /\ \/ Err
       \/ trees[HEAD].circleci = "broken" /\ Answered /\ Return("error") /\ UNCHANGED seen /\ Silent
       \/ /\ trees[HEAD].circleci # "broken"
          /\ Answered /\ Silent
          /\ seen' = [seen EXCEPT !.jobs = JobsOn(trees[HEAD], Main)]
          /\ IF seen'.jobs = {} THEN Return("pass") ELSE Continue("required")

CircleRequired ==
    /\ At("circleci-jobs", "required")
    /\ \/ Err
       \/ \E R \in RequiredSets :
             /\ Answered /\ UNCHANGED skipped
             /\ seen' = [seen EXCEPT !.required = R]
             /\ issues' = Found("missing", MissingJobs(seen.jobs, R))
             /\ IF issues' = {} THEN Return("pass") ELSE Continue("statuses")

(* Only the wording of the verdict depends on this request.                  *)
CircleSuggest ==
    /\ At("circleci-jobs", "statuses")
    /\ LET missing == MissingJobs(seen.jobs, seen.required)
       IN  \/ Failed /\ seen' = [seen EXCEPT !.suggested = missing]
           \/ /\ Answered
              /\ \E f \in [missing -> Names] :
                    /\ \A j \in missing : f[j] \in Suggestions(j, reported[HEAD] \ Runs)
                    /\ seen' = [seen EXCEPT !.head = reported[HEAD] \ Runs,
                                             !.suggested = {f[j] : j \in missing}]
    /\ Silent /\ Return("fail")

(* has-codeql-workflow and codeql-workflow-security-settings.                *)
CodeQLLanguages(c) ==
    /\ At(c, "languages") /\ c \in {"has-codeql", "codeql-settings"}
    /\ \/ Err
       \/ \E L \in BOOLEAN :
             /\ Answered /\ Silent
             /\ seen' = [seen EXCEPT !.codeQL = L]
             /\ IF ~L THEN Return("pass") ELSE Continue("workflow")

HasCodeQLFile ==
    /\ At("has-codeql", "workflow")
    /\ \/ Err
       \/ /\ Answered /\ UNCHANGED seen
          /\ Judge(IF trees[HEAD].codeql = "absent" THEN {<<"absent">>} ELSE {}, {})

SettingsFile ==
    /\ At("codeql-settings", "workflow")
    /\ \/ Err
       \/ /\ trees[HEAD].codeql # "ok"
          /\ Answered /\ UNCHANGED seen
          /\ Judge(IF trees[HEAD].codeql = "broken" THEN {<<"unparsable">>} ELSE {}, {})
       \/ LET w == trees[HEAD] IN
             /\ w.codeql = "ok"
             /\ Answered /\ UNCHANGED skipped /\ Continue("required")
             /\ seen' = [seen EXCEPT !.matrix = w.explicit]
             /\ issues' = (IF w.onPR THEN {} ELSE {<<"trigger">>})
                             \cup (IF w.settings THEN {} ELSE {<<"settings">>})

SettingsRequired ==
    /\ At("codeql-settings", "required")
    /\ \/ Failed /\ UNCHANGED seen /\ Judge(issues, {"matrix"})
       \/ \E R \in RequiredSets :
             /\ Answered
             /\ seen' = [seen EXCEPT !.required = R]
             /\ Judge(issues \cup Found("uncovered", Uncovered(R, seen.matrix)), {})

(* no-stale-codeql-requirement-on-infra-repos.                               *)
InfraRequired ==
    /\ At("infra-repos", "required")
    /\ \/ Err
       \/ \E R \in RequiredSets :
             /\ Answered /\ Silent
             /\ seen' = [seen EXCEPT !.required = R]
             /\ IF Analyzed(R) = {} THEN Return("pass") ELSE Continue("languages")

InfraLanguages ==
    /\ At("infra-repos", "languages")
    /\ \/ Err
       \/ \E L \in BOOLEAN :
             /\ Answered
             /\ seen' = [seen EXCEPT !.codeQL = L]
             /\ Judge(IF L THEN {}
                      ELSE Found("infra", Analyzed(seen.required)), {})

----------------------------------------------------------------------------
(* required-status-checks-coherent. *)

CoherentRequired ==
    /\ At("coherent", "required")
    /\ \/ Err
       \/ \E R \in RequiredSets :
             /\ Answered /\ Silent
             /\ seen' = [seen EXCEPT !.required = R]
             /\ IF R = {} THEN Return("pass") ELSE Continue("statuses")

(* Each request resolves heads/main anew.                                    *)
HeadStatuses ==
    /\ At("coherent", "statuses")
    /\ \/ Err
       \/ /\ Answered /\ Silent /\ Continue("runs")
          /\ seen' = [seen EXCEPT !.head = reported[HEAD] \ Runs]

HeadRuns ==
    /\ At("coherent", "runs")
    /\ \/ Err
       \/ /\ Answered /\ Silent
          /\ seen' = [seen EXCEPT !.head = @ \cup (reported[HEAD] \cap Runs)]
          /\ Continue(IF MissingOnHead(seen.required, seen'.head) = {}
                      THEN "languages" ELSE "parents")

FlagStale(before) ==
    /\ issues' = issues \cup Found("stale", Stale(seen.required, seen.head, before))
    /\ UNCHANGED skipped /\ Continue("languages")

(* A look at the parent that fails tells nothing of it: all are stale.       *)
Parents ==
    /\ At("coherent", "parents")
    /\ \/ Failed /\ UNCHANGED seen /\ FlagStale({})
       \/ HEAD = 1 /\ Answered /\ UNCHANGED seen /\ FlagStale({})
       \/ /\ HEAD > 1
          /\ Answered /\ Silent /\ Continue("parent statuses")
          /\ seen' = [seen EXCEPT !.parent = HEAD - 1]

ParentStatuses ==
    /\ At("coherent", "parent statuses")
    /\ Silent /\ Continue("parent runs")
    /\ \/ Failed /\ UNCHANGED seen
       \/ Answered /\ seen' = [seen EXCEPT !.before = reported[seen.parent] \ Runs]

ParentRuns_Mutant ==
    /\ At("coherent", "parent runs")
    /\ \/ Failed /\ UNCHANGED seen
       \/ Answered /\ seen' = [seen EXCEPT !.before = reported[seen.parent] \cap Runs]
    /\ FlagStale(seen'.before)

ParentRuns ==
    /\ At("coherent", "parent runs")
    /\ \/ Failed /\ UNCHANGED seen
       \/ Answered /\ seen' = [seen EXCEPT !.before = @ \cup (reported[seen.parent] \cap Runs)]
    /\ FlagStale(seen'.before)

CoherentLanguages ==
    /\ At("coherent", "languages")
    /\ \/ Err
       \/ \E L \in BOOLEAN :
             /\ Answered /\ UNCHANGED skipped
             /\ seen' = [seen EXCEPT !.codeQL = L]
             /\ issues' = issues \cup (IF L /\ Analyzed(seen.required) = {}
                                       THEN {<<"codeql">>} ELSE {})
             /\ Continue(IF ~L THEN "dependabot" ELSE "workflow")

CoherentWorkflow ==
    /\ At("coherent", "workflow")
    /\ Continue("dependabot")
    /\ LET w == trees[HEAD] IN
       \/ Failed /\ UNCHANGED <<seen, issues>> /\ skipped' = {"matrix"}
       \/ w.codeql = "broken" /\ Answered /\ UNCHANGED <<seen, issues>> /\ skipped' = {"matrix"}
       \/ /\ w.codeql # "broken"
          /\ Answered /\ UNCHANGED <<seen, skipped>>
          /\ issues' = issues \cup Found("mismatch", Mismatched(seen.required, w.explicit))

DependabotFile ==
    /\ At("coherent", "dependabot")
    /\ \/ Err
       \/ /\ Answered /\ UNCHANGED seen
          /\ IF trees[HEAD].dependabot THEN Silent /\ Continue("closed pulls")
             ELSE Judge(issues, skipped)

NextListing_Mutant ==
    /\ UNCHANGED seen
    /\ IF pc \in {"closed pulls", "closed pull"}
       THEN Silent /\ Continue("open pulls")
       ELSE Judge(issues, skipped)

(* GitHubRecentDependabotPRInfoFromBase: closed pull requests, then open     *)
(* ones; when neither has one to look at, that sub-check is skipped.         *)
NextListing ==
    /\ UNCHANGED seen
    /\ IF pc \in {"closed pulls", "closed pull"}
       THEN Silent /\ Continue("open pulls")
       ELSE Judge(issues, skipped \cup {"dependabot"})

(* Only a request that gets no answer at all is an error here.               *)
ListPulls ==
    /\ \/ At("coherent", "closed pulls") /\ Continue("closed pull")
       \/ At("coherent", "open pulls") /\ Continue("open pull")
    /\ Answered /\ UNCHANGED seen /\ Silent

ListFails ==
    /\ At("coherent", "closed pulls") \/ At("coherent", "open pulls")
    /\ Err \/ (Failed /\ NextListing)

(* The next Dependabot pull request of the listing, or none is left; it      *)
(* started from some commit of main, and CI may still be at work on it.  One *)
(* on which CI has reported nothing is passed over.                          *)
PickPull ==
    /\ At("coherent", "closed pull") \/ At("coherent", "open pull")
    /\ \/ Err
       \/ Answered /\ NextListing
       \/ \E b \in DOMAIN trees : \E S \in (SUBSET PRFires(trees[b])) \ {{}} :
             /\ Answered /\ Silent /\ Continue("base runs")
             /\ seen' = [seen EXCEPT !.base = b, !.prHead = S]

BaseRuns ==
    /\ At("coherent", "base runs")
    /\ \/ Err
       \/ /\ Answered /\ Silent /\ Continue("base statuses")
          /\ seen' = [seen EXCEPT !.prBase = reported[seen.base] \cap Runs]

BaseStatuses ==
    /\ At("coherent", "base statuses")
    /\ \/ Err
       \/ /\ Answered
          /\ seen' = [seen EXCEPT !.prBase = @ \cup (reported[seen.base] \ Runs)]
          /\ Judge(issues \cup Found("unsatisfiable",
                       Unsatisfiable(seen.required, seen.prHead, seen'.prBase)), skipped)

----------------------------------------------------------------------------
Init ==
    /\ \E t \in Trees : trees = <<t>> /\ reported = <<Fires(t)>>
    /\ rushed = FALSE
    /\ conv = "coherent" /\ pc = "idle" /\ since = 1
    /\ seen = Unread /\ issues = {} /\ skipped = {} /\ failed = {} /\ verdict = "none"

Circle   == CircleConfig \/ CircleRequired \/ CircleSuggest
Settings == HasCodeQLFile \/ SettingsFile \/ SettingsRequired
Infra    == InfraRequired \/ InfraLanguages
OnHead   == CoherentRequired \/ HeadStatuses \/ HeadRuns
OnParent == Parents \/ ParentStatuses \/ ParentRuns
CodeQL   == CoherentLanguages \/ CoherentWorkflow
OnPulls  == DependabotFile \/ ListPulls \/ ListFails \/ PickPull \/ BaseRuns \/ BaseStatuses

Next ==
    \/ \E t \in Trees : Push(t)
    \/ \E c \in DOMAIN trees, n \in Names : Report(c, n)
    \/ \E c \in Conventions : Start(c) \/ CodeQLLanguages(c)
    \/ Circle \/ Settings \/ Infra
    \/ OnHead \/ OnParent \/ CodeQL \/ OnPulls

Spec == Init /\ [][Next]_vars

----------------------------------------------------------------------------
(* Types.                                                                    *)
Requests == {"idle", "done", "config", "required", "languages", "workflow", "statuses", "runs",
             "parents", "parent statuses", "parent runs", "dependabot",
             "closed pulls", "closed pull", "open pulls", "open pull",
             "base runs", "base statuses"}
Issues == {<<"absent">>, <<"unparsable">>, <<"trigger">>, <<"settings">>, <<"codeql">>}
             \cup ({"missing", "uncovered", "infra", "stale", "mismatch", "unsatisfiable"} \X Names)

TypeOK ==
    /\ trees \in Seq(Trees) /\ HEAD \in 1..MaxCommits
    /\ reported \in Seq(SUBSET Names) /\ Len(reported) = HEAD
    /\ rushed \in BOOLEAN
    /\ conv \in Conventions /\ pc \in Requests
    /\ seen \in [required : SUBSET Names, head : SUBSET Names, parent : 0..HEAD,
                 before : SUBSET Names, codeQL : BOOLEAN, jobs : SUBSET Jobs,
                 matrix : SUBSET Langs, suggested : SUBSET Names,
                 base : 0..HEAD, prHead : SUBSET Names, prBase : SUBSET Names]
    /\ pc \in {"parent statuses", "parent runs"} => seen.parent # 0
    /\ pc \in {"base runs", "base statuses"} => seen.base # 0
    /\ issues \subseteq Issues /\ skipped \subseteq {"matrix", "dependabot"}
    /\ verdict \in {"none", "pass", "fail", "error"}
    /\ failed \subseteq Requests /\ since \in 1..HEAD

(* A required check that the parent of HEAD runs is not called stale, though *)
(* HEAD moves between the requests and CI is still at work on it: that is    *)
(* what the look at the parent is for.  It fails when a request about the    *)
(* parent fails, and when commits follow each other faster than CI.          *)
NoFalseStale ==
    \A n \in Names : <<"stale", n>> \in issues =>
        \/ failed \cap {"parents", "parent statuses", "parent runs"} # {}
        \/ rushed
        \/ seen.parent = 0
        \/ n \notin Fires(trees[seen.parent])

(* A required check that is held against Dependabot's pull requests runs on  *)
(* main but not on them, unless CI was still at work on the one looked at.   *)
NoFalseUnsatisfiable ==
    \A n \in Names : <<"unsatisfiable", n>> \in issues =>
        LET t == trees[seen.base]
        IN  n \in Fires(t) /\ (n \in PRFires(t) => seen.prHead # PRFires(t))

(* What coherent may pass: every required check ran on a commit that was at  *)
(* the head of main during the check, or on the one before, if HEAD reports  *)
(* anything; CodeQL is required and can run in every required language; and  *)
(* checks on Dependabot's commit include the required ones its base has.     *)
Recent == UNION {Fires(trees[c]) : c \in {x \in 1..HEAD : x >= since - 1}}

RequiredRan    == seen.head = {} \/ seen.required \subseteq Recent
CodeQLRequired == seen.codeQL => \E l \in Langs : Analyze[l] \in seen.required

MatrixCovers ==
    seen.codeQL =>
        \/ "matrix" \in skipped
        \/ \E c \in since..HEAD :
              \/ trees[c].explicit = {}
              \/ \A l \in Langs : Analyze[l] \in seen.required => l \in trees[c].explicit

PullsReport ==
    \/ "dependabot" \in skipped
    \/ \E c \in since..HEAD : ~trees[c].dependabot
    \/ /\ seen.prHead # {}
       /\ \A n \in seen.required : n \in seen.prBase => n \in seen.prHead

PassEarned ==
    conv = "coherent" /\ verdict = "pass" /\ seen.required # {} =>
        RequiredRan /\ CodeQLRequired /\ MatrixCovers /\ PullsReport

(* All five conventions, once CI is done and languages do not change.        *)
Satisfies(t, required) ==
    /\ MissingJobs(JobsOn(t, Main), required) = {}
    /\ Analyzed(required) # {}
    /\ Uncovered(required, t.explicit) = {}
    /\ Mismatched(required, t.explicit) = {}
    /\ Stale(required, Fires(t), {}) = {}
    /\ Unsatisfiable(required, PRFires(t), Fires(t)) = {}

(* The conventions do not contradict each other: there is something to       *)
(* require that they all accept, for a repository whose jobs on main also    *)
(* run on pull requests and whose CodeQL workflow is as they ask.            *)
Fixable ==
    LET t == trees[HEAD]
    IN  /\ t.codeql = "ok" /\ t.onPR /\ t.explicit # {}
        /\ JobsOn(t, Main) \subseteq JobsOn(t, PRBranch)
        => \E R \in SUBSET Names : Satisfies(t, R)

(* The names circleci-jobs says to add do satisfy it, and are names under    *)
(* which CircleCI reports, for the jobs it has reported; as long as no two   *)
(* jobs share the last segment of their names and are reported with more.    *)
SuggestionsWork ==
    /\ conv = "circleci-jobs" /\ verdict = "fail" /\ "statuses" \notin failed
    /\ \A j, k \in Jobs : Bare[j] = Bare[k] => Trim[Context[j]] \in {k, Bare[k]}
    => /\ MissingJobs(seen.jobs, seen.required \cup seen.suggested) = {}
       /\ \A j \in MissingJobs(seen.jobs, seen.required) :
             Context[j] \in seen.head => MissingJobs({j}, seen.suggested \cap seen.head) = {}
====
