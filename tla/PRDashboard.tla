----------------------------- MODULE PRDashboard -----------------------------
(***************************************************************************)
(* A sweep of the open pull requests (pr_dashboard.go, PRSweeper.runSweep): *)
(* it lists the pull requests of each repository page by page, classifies  *)
(* each by its checks and reviews, and publishes the counts, and which of  *)
(* Dependabot's have been open too long, in one step at the end.  Pull     *)
(* requests are opened and closed meanwhile and requests fail.  /_info     *)
(* (main.go) reports what was published last.  When a sweep may start is   *)
(* the subject of SweepTriggers.                                           *)
(***************************************************************************)
EXTENDS Integers, Sequences, FiniteSets, SequencesExt

CONSTANTS
    Repos,          \* repositories of the organisation, neither archived nor forks
    PRs,            \* pull requests there may be
    Home,           \* the repository of each
    Dependabots,    \* those whose author is Dependabot
    Bots, Owner,    \* the logins of the code reviewer, and lucas42
    Checks,         \* what its statuses, or check runs, may hold besides successes
    ReviewLists,    \* the reviews a pull request may have, oldest first
    Initially,      \* what is open, and what is old, when the program starts
    PageSize,       \* pull requests on a page of the listing
    MaxEvents,      \* bound: changes of the pull requests, and restarts
    MaxFailures     \* bound: requests that fail

ASSUME DashboardAssumption ==
    /\ Home \in [PRs -> Repos] /\ Dependabots \subseteq PRs
    /\ Initially \subseteq [Repos -> Seq(PRs)] \X SUBSET PRs
    /\ Checks \subseteq SUBSET {"failed", "pending"}
    /\ PageSize \in Nat \ {0} /\ MaxEvents \in Nat /\ MaxFailures \in Nat

VARIABLES
    open,       \* each repository's open pull requests, newest first
    old,        \* pull requests opened more than six hours ago
    events,     \* bound: changes so far
    failures,   \* bound: failed requests so far
    pc,         \* the sweep's next request
    todo,       \* repositories it has yet to look at
    repo,       \* the one it is at
    page,       \* the page of its listing
    listed,     \* prs: what its pages have held so far
    at,         \* which of these is being classified
    read,       \* what is true of it at each request, and which were answered
    counts,     \* counts: how many of this repository are in each state
    results,    \* results: the counts of the repositories that have any
    stale,      \* staleDependabotPRs of this sweep
    published,  \* what the last complete sweep published
    snapshot,   \* history: open[repo] when the listing began
    calm        \* history: ... and it has not changed during the listing

github == <<open, old, events>>
sweep  == <<pc, todo, repo, page, listed, at, read, counts, results, stale>>
dashboardVars == <<github, failures, sweep, published, snapshot, calm>>

(* PRState of pr_dashboard.go.                                               *)
States == {"FailingChecks", "PendingChecks", "NoReviews", "ChangesRequested",
           "BotApprovedOnly", "FullyApproved"}
NoCounts == [s \in States |-> 0]

Unread == [statuses |-> {}, runs |-> {}, reviews |-> <<>>, failed |-> {}]

----------------------------------------------------------------------------
(* GitHub. *)

Changes == events < MaxEvents /\ events' = events + 1

Opens(p) ==
    /\ Changes
    /\ p \notin old \cup ToSet(open[Home[p]])
    /\ open' = [open EXCEPT ![Home[p]] = <<p>> \o @]
    /\ calm' = (calm /\ ~(pc = "pulls" /\ repo = Home[p]))
    /\ UNCHANGED <<old, failures, sweep, published, snapshot>>

(* Merged or closed, and not opened again.                                   *)
Closes(p) ==
    /\ Changes
    /\ \E i \in DOMAIN open[Home[p]] :
          /\ open[Home[p]][i] = p
          /\ open' = [open EXCEPT ![Home[p]] = RemoveAt(@, i)]
    /\ old' = old \cup {p}
    /\ calm' = (calm /\ ~(pc = "pulls" /\ repo = Home[p]))
    /\ UNCHANGED <<failures, sweep, published, snapshot>>

Ages(p) ==
    /\ Changes
    /\ p \in ToSet(open[Home[p]]) \ old
    /\ old' = old \cup {p}
    /\ UNCHANGED <<open, failures, sweep, published, snapshot, calm>>

----------------------------------------------------------------------------
(* The classification of a pull request from what was read. *)

CheckState_Mutant(r) ==
    LET seen == UNION ({r.statuses : x \in {"statuses"} \ r.failed}
                          \cup {r.runs : x \in {"runs"} \ r.failed})
    IN  IF "failed" \in seen THEN "FailingChecks"
        ELSE IF "pending" \in seen THEN "PendingChecks"
        ELSE "passing"

(* getCheckStatus: statuses that cannot be read count as pending; check runs *)
(* that cannot be read do not count.                                         *)
CheckState(r) ==
    LET seen == r.statuses \cup (IF "runs" \in r.failed THEN {} ELSE r.runs)
    IN  IF "statuses" \in r.failed THEN "PendingChecks"
        ELSE IF "failed" \in seen THEN "FailingChecks"
        ELSE IF "pending" \in seen THEN "PendingChecks"
        ELSE "passing"

(* The last word of each reviewer, comments and dismissed reviews aside.     *)
LatestReview(reviews, who) ==
    LET own == {i \in DOMAIN reviews :
                   /\ reviews[i].by = who
                   /\ reviews[i].state \notin {"COMMENTED", "DISMISSED"}}
    IN  IF own = {} THEN "none" ELSE reviews[Max(own)].state

ReviewState(r) ==
    LET reviews == IF "reviews" \in r.failed THEN <<>> ELSE r.reviews
        Latest(who) == LatestReview(reviews, who)
        botApproved == \E b \in Bots : Latest(b) = "APPROVED"
    IN  IF \E v \in ToSet(reviews) : Latest(v.by) = "CHANGES_REQUESTED" THEN "ChangesRequested"
        ELSE IF botApproved /\ Latest(Owner) = "APPROVED" THEN "FullyApproved"
        ELSE IF botApproved THEN "BotApprovedOnly"
        ELSE "NoReviews"

(* classifyPR.                                                               *)
Classify(r) == IF CheckState(r) = "passing" THEN ReviewState(r) ELSE CheckState(r)

----------------------------------------------------------------------------
(* The sweep.  A request fails, or GitHub's answer is not the JSON expected. *)

Github == UNCHANGED <<github, snapshot>>
Answered == UNCHANGED failures
Failed == failures < MaxFailures /\ failures' = failures + 1

(* The local variables of runSweep end with it.                              *)
Forget ==
    /\ pc' = "idle" /\ todo' = {} /\ results' = {} /\ stale' = {}
    /\ repo' = "none" /\ page' = 1 /\ listed' = <<>> /\ at' = 1
    /\ read' = Unread /\ counts' = NoCounts /\ snapshot' = <<>> /\ calm' = FALSE

(* The installation token and the list of repositories; without either the   *)
(* sweep ends and what was published before stays.                           *)
StartSweep ==
    /\ pc = "idle"
    /\ Github /\ UNCHANGED <<repo, page, listed, at, read, counts, published, calm>>
    /\ \/ Failed /\ UNCHANGED <<pc, todo, results, stale>>
       \/ Answered /\ pc' = "next" /\ todo' = Repos /\ UNCHANGED <<results, stale>>

NextRepo(r) ==
    /\ pc = "next" /\ r \in todo
    /\ pc' = "pulls" /\ todo' = todo \ {r} /\ repo' = r
    /\ page' = 1 /\ listed' = <<>> /\ at' = 1 /\ counts' = NoCounts /\ read' = Unread
    /\ snapshot' = open[r] /\ calm' = TRUE
    /\ UNCHANGED <<github, failures, results, stale, published>>

FetchPage_Mutant ==
    /\ pc = "pulls"
    /\ Github /\ UNCHANGED <<todo, repo, at, read, counts, results, stale, published, calm>>
    /\ \/ Failed /\ pc' = "next" /\ listed' = <<>> /\ UNCHANGED page
       \/ LET first == (page - 1) * PageSize + 1
              pagePRs == SubSeq(open[repo], first, IF Len(open[repo]) < page * PageSize
                                                   THEN Len(open[repo]) ELSE page * PageSize)
          IN  /\ Answered
              /\ listed' = listed \o pagePRs
              /\ IF Len(pagePRs) <= PageSize
                 THEN pc' = (IF listed' = <<>> THEN "next" ELSE "statuses") /\ UNCHANGED page
                 ELSE page' = page + 1 /\ UNCHANGED pc

(* One page of fetchRepoPRCounts: a page that is not full is the last one.   *)
(* If one fails, the repository has no pull requests as far as the sweep is  *)
(* concerned, not even those on the pages before.                            *)
FetchPage ==
    /\ pc = "pulls"
    /\ Github /\ UNCHANGED <<todo, repo, at, read, counts, results, stale, published, calm>>
    /\ \/ Failed /\ pc' = "next" /\ listed' = <<>> /\ UNCHANGED page
       \/ LET first == (page - 1) * PageSize + 1
              pagePRs == SubSeq(open[repo], first, IF Len(open[repo]) < page * PageSize
                                                   THEN Len(open[repo]) ELSE page * PageSize)
          IN  /\ Answered
              /\ listed' = listed \o pagePRs
              /\ IF Len(pagePRs) < PageSize
                 THEN pc' = (IF listed' = <<>> THEN "next" ELSE "statuses") /\ UNCHANGED page
                 ELSE page' = page + 1 /\ UNCHANGED pc

(* What fetchRepoPRCounts does with the pull request it has classified, and  *)
(* runSweep with the repository after the last one.                          *)
Count(r) ==
    LET p == listed[at] IN
    /\ read' = r
    /\ counts' = [counts EXCEPT ![Classify(r)] = @ + 1]
    /\ stale' = stale \cup ({p} \cap Dependabots \cap old)
    /\ IF at = Len(listed)
       THEN /\ pc' = "next" /\ results' = results \cup {[repo |-> repo, counts |-> counts']}
            /\ UNCHANGED at
       ELSE pc' = "statuses" /\ at' = at + 1 /\ UNCHANGED results

AsksNext(request, r) ==
    /\ pc' = request /\ read' = r
    /\ UNCHANGED <<counts, stale, at, results>>

InRepo == Github /\ UNCHANGED <<todo, repo, page, listed, published, calm>>

ReadStatuses ==
    /\ pc = "statuses"
    /\ InRepo
    /\ \E s \in Checks :
          \/ Failed /\ Count([Unread EXCEPT !.statuses = s, !.failed = {"statuses"}])
          \/ Answered /\ AsksNext("runs", [Unread EXCEPT !.statuses = s])

ReadRuns ==
    /\ pc = "runs"
    /\ InRepo
    /\ \E c \in Checks :
          LET ok == [read EXCEPT !.runs = c]
              r  == IF failures' = failures THEN ok ELSE [ok EXCEPT !.failed = {"runs"}]
          IN  /\ Answered \/ Failed
              /\ IF CheckState(r) = "passing" THEN AsksNext("reviews", r) ELSE Count(r)

ReadReviews ==
    /\ pc = "reviews"
    /\ InRepo
    /\ \E v \in ReviewLists :
          \/ Failed /\ Count([read EXCEPT !.reviews = v, !.failed = @ \cup {"reviews"}])
          \/ Answered /\ Count([read EXCEPT !.reviews = v])

Publish_Mutant ==
    /\ pc = "next" /\ todo = {}
    /\ published' = [fetched |-> TRUE, repos |-> results, stale |-> published.stale \cup stale]
    /\ Forget
    /\ UNCHANGED <<github, failures>>

Publish ==
    /\ pc = "next" /\ todo = {}
    /\ published' = [fetched |-> TRUE, repos |-> results, stale |-> stale]
    /\ Forget
    /\ UNCHANGED <<github, failures>>

(* What the dashboard shows is in memory only.                               *)
Restart ==
    /\ Changes
    /\ published' = [fetched |-> FALSE, repos |-> {}, stale |-> {}]
    /\ Forget
    /\ UNCHANGED <<open, old, failures>>

----------------------------------------------------------------------------
(* The check of /_info for stale Dependabot pull requests.                   *)
HealthOK == ~published.fetched \/ published.stale = {}

DashboardInit ==
    /\ \E i \in Initially : open = i[1] /\ old = i[2]
    /\ events = 0 /\ failures = 0
    /\ pc = "idle" /\ todo = {} /\ results = {} /\ stale = {}
    /\ repo = "none" /\ page = 1 /\ listed = <<>> /\ at = 1
    /\ read = Unread /\ counts = NoCounts /\ snapshot = <<>> /\ calm = FALSE
    /\ published = [fetched |-> FALSE, repos |-> {}, stale |-> {}]

Step == \/ StartSweep \/ FetchPage \/ ReadStatuses \/ ReadRuns \/ ReadReviews \/ Publish
        \/ \E r \in Repos : NextRepo(r)

DashboardNext == Step \/ Restart \/ \E p \in PRs : Opens(p) \/ Closes(p) \/ Ages(p)

DashboardSpec == DashboardInit /\ [][DashboardNext]_dashboardVars
(* A sweep is started every six hours and its requests return.               *)
FairDashboardSpec == DashboardSpec /\ WF_dashboardVars(Step)

----------------------------------------------------------------------------
(* Types.                                                                    *)
Counts == [States -> Nat]
Lines == [repo : Repos, counts : Counts]
Readings == [statuses : Checks \cup {{}}, runs : Checks \cup {{}},
             reviews : ReviewLists \cup {<<>>},
             failed : SUBSET {"statuses", "runs", "reviews"}]
Classifying == {"statuses", "runs", "reviews"}

GithubTyped ==
    /\ open \in [Repos -> Seq(PRs)] /\ old \subseteq PRs
    /\ events \in 0..MaxEvents /\ failures \in 0..MaxFailures

SweepTyped ==
    /\ pc \in {"idle", "next", "pulls"} \cup Classifying
    /\ todo \subseteq Repos /\ repo \in Repos \cup {"none"} /\ page \in Nat \ {0}
    /\ listed \in Seq(PRs) /\ at \in Nat \ {0}
    /\ pc \in Classifying => at <= Len(listed)
    /\ read \in Readings /\ counts \in Counts
    /\ snapshot \in Seq(PRs) /\ calm \in BOOLEAN

ResultsTyped ==
    /\ results \subseteq Lines /\ stale \subseteq Dependabots
    /\ published.fetched \in BOOLEAN /\ published.stale \subseteq Dependabots
    /\ published.repos \subseteq Lines

DashboardTypeOK == GithubTyped /\ SweepTyped /\ ResultsTyped

(* How many pull requests a line of the dashboard counts, in all its states. *)
Total(c) == c["FailingChecks"] + c["PendingChecks"] + c["NoReviews"]
              + c["ChangesRequested"] + c["BotApprovedOnly"] + c["FullyApproved"]

(* Page by page, each pull request of a repository is counted exactly once,  *)
(* whatever the size of the last page, provided that none is opened or       *)
(* closed during the listing and that no page fails.                         *)
CountedOnce ==
    \A l \in results :
        pc = "next" /\ l.repo = repo /\ calm /\ listed # <<>> =>
            /\ ToSet(listed) = ToSet(snapshot)
            /\ Total(l.counts) = Len(snapshot)

(* No pull request is shown as ready for a review, or for merging, because   *)
(* a request failed, unless it was the one for its check runs.               *)
NoFlattery ==
    LET truth == [read EXCEPT !.failed = {}]
    IN  \/ pc \notin {"next", "statuses"} \/ "runs" \in read.failed
        \/ Classify(read) \in {"FailingChecks", "PendingChecks"}
        \/ Classify(read) = Classify(truth)
        \/ Classify(read) = "NoReviews" /\ CheckState(truth) = "passing"

(* Once nothing changes and requests are answered, /_info reports a stale    *)
(* Dependabot pull request exactly if there is one.                          *)
StaleOpen == \E r \in Repos : ToSet(open[r]) \cap Dependabots \cap old # {}
HealthFollows == <>[](HealthOK <=> ~StaleOpen)
==============================================================================
