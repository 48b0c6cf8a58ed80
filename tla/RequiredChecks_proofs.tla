------------------------ MODULE RequiredChecks_proofs ------------------------
(***************************************************************************)
(* For any names, jobs, languages and trees, any number of commits and any *)
(* failing requests: what required-status-checks-coherent holds against a  *)
(* required check is true of it, its pass is earned, what circleci-jobs    *)
(* suggests works, and the conventions never contradict each other.        *)
(***************************************************************************)
EXTENDS RequiredChecks, TLAPS

(* A commit on main, and what runs for it, are of the right type.            *)
LEMMA TreeTypes ==
    ASSUME NEW t \in Trees
    PROVE  /\ t.jobs \subseteq JobEntries /\ t.explicit \subseteq Langs
           /\ \A b \in Branches : JobsOn(t, b) \subseteq Jobs
           /\ Fires(t) \subseteq Names /\ PRFires(t) \subseteq Names
<1>1. t \in Contents
  BY TreesAssumption
<1>2. t.jobs \subseteq JobEntries /\ t.explicit \subseteq Langs
  BY <1>1 DEF Contents
<1>3. \A b : JobsOn(t, b) \subseteq Jobs
  BY <1>2 DEF JobsOn, JobEntries
<1>4. /\ \A j \in Jobs : Context[j] \in Names
      /\ \A l \in Langs : Analyze[l] \in Names
  BY NamesAssumption
<1> QED
  BY <1>2, <1>3, <1>4 DEF Fires, PRFires

LEMMA Item ==
    ASSUME NEW S, NEW s \in Seq(S), NEW i \in 1..Len(s)
    PROVE  s[i] \in S
OBVIOUS

LEMMA Grows ==
    ASSUME NEW S, NEW s \in Seq(S), NEW x \in S
    PROVE  Append(s, x) \in Seq(S) /\ Len(Append(s, x)) = Len(s) + 1
OBVIOUS

LEMMA Appended ==
    ASSUME NEW S, NEW s \in Seq(S), NEW x \in S
    PROVE  /\ Append(s, x)[Len(s) + 1] = x
           /\ \A i \in 1..Len(s) : Append(s, x)[i] = s[i]
OBVIOUS

LEMMA DomainOf ==
    ASSUME NEW S, NEW s \in Seq(S)
    PROVE  DOMAIN s = 1..Len(s)
OBVIOUS

LEMMA Replaced ==
    ASSUME NEW S, NEW s \in Seq(S), NEW i \in 1..Len(s), NEW x \in S
    PROVE  [s EXCEPT ![i] = x] \in Seq(S) /\ Len([s EXCEPT ![i] = x]) = Len(s)
OBVIOUS

LEMMA CommitBound == MaxCommits \in Nat \ {0}
BY NamesAssumption

LEMMA Positive ==
    ASSUME NEW n \in Nat, NEW x \in 0..n, x # 0
    PROVE  x \in 1..n
OBVIOUS

LEMMA Below ==
    ASSUME NEW n \in Nat, n > 1
    PROVE  n - 1 \in 1..n /\ n - 1 < n
OBVIOUS

(* HEAD is a commit, on which CI has reported names.                         *)
LEMMA HeadTypes ==
    ASSUME TypeOK, NEW c \in 1..HEAD
    PROVE  trees[c] \in Trees /\ reported[c] \in SUBSET Names
<1>1. trees \in Seq(Trees) /\ c \in 1..Len(trees)
  BY DEF TypeOK, HEAD
<1>2. reported \in Seq(SUBSET Names) /\ c \in 1..Len(reported)
  BY DEF TypeOK, HEAD
<1>3. trees[c] \in Trees
  BY <1>1
<1>4. reported[c] \in SUBSET Names
  BY <1>2, Item, Zenon
<1> QED
  BY <1>3, <1>4

LEMMA HeadExists == TypeOK => HEAD \in 1..HEAD /\ HEAD \in Nat
<1>1. MaxCommits \in Nat
  BY NamesAssumption
<1>2. TypeOK => HEAD \in 1..MaxCommits
  BY DEF TypeOK
<1> QED
  BY <1>1, <1>2

(* The part of TypeOK that a step of a check touches.                        *)
CheckTyped ==
    /\ conv \in Conventions /\ pc \in Requests
    /\ seen \in [required : SUBSET Names, head : SUBSET Names, parent : 0..HEAD,
                 before : SUBSET Names, codeQL : BOOLEAN, jobs : SUBSET Jobs,
                 matrix : SUBSET Langs, suggested : SUBSET Names,
                 base : 0..HEAD, prHead : SUBSET Names, prBase : SUBSET Names]
    /\ pc \in {"parent statuses", "parent runs"} => seen.parent # 0
    /\ pc \in {"base runs", "base statuses"} => seen.base # 0
    /\ issues \subseteq Issues /\ skipped \subseteq {"matrix", "dependabot"}
    /\ verdict \in {"none", "pass", "fail", "error"}
    /\ failed \subseteq Requests /\ since \in 1..HEAD

LEMMA CheckKeepsTypes ==
    ASSUME TypeOK, CheckTyped', UNCHANGED github
    PROVE  TypeOK'
BY DEF TypeOK, CheckTyped, github, HEAD

(* What a check finds is an issue.                                           *)
LEMMA FoundIssues ==
    ASSUME NEW ns, ns \subseteq Names
    PROVE  \A k \in {"missing", "uncovered", "infra", "stale", "mismatch", "unsatisfiable"} :
               Found(k, ns) \subseteq Issues
BY DEF Found, Issues

LEMMA TypeCircle ==
    ASSUME TypeOK, Circle
    PROVE  TypeOK'
<1>0. HEAD \in 1..HEAD /\ trees[HEAD] \in Trees /\ reported[HEAD] \in SUBSET Names
  BY HeadTypes, HeadExists
<1>1. CASE CircleConfig
  <2>1. JobsOn(trees[HEAD], Main) \subseteq Jobs
    BY <1>0, TreeTypes DEF Branches
  <2>2. CheckTyped'
    <3>1. CASE Err
      BY <1>1, <3>1 DEF CircleConfig, At, Err, Failed, Silent, Return,
          CheckTyped, TypeOK, Requests, github, HEAD
    <3>2. CASE Answered /\ Silent /\ UNCHANGED seen /\ Return("error")
      BY <1>1, <3>2 DEF CircleConfig, At, Answered, Silent, Return,
          CheckTyped, TypeOK, Requests, github, HEAD
    <3>3. CASE /\ Answered /\ Silent
               /\ seen' = [seen EXCEPT !.jobs = JobsOn(trees[HEAD], Main)]
               /\ Return("pass") \/ Continue("required")
      BY <1>1, <2>1, <3>3 DEF CircleConfig, At, Answered, Silent, Return, Continue,
          CheckTyped, TypeOK, Requests, github, HEAD
    <3> QED
      BY <1>1, <3>1, <3>2, <3>3 DEF CircleConfig
  <2> QED
    BY <1>1, <2>2, CheckKeepsTypes DEF CircleConfig, At
<1>2. CASE CircleRequired
  <2>1. \A R \in RequiredSets : R \in SUBSET Names
    BY NamesAssumption
  <2>2. \A R \in RequiredSets : Found("missing", MissingJobs(seen.jobs, R)) \subseteq Issues
    BY FoundIssues, NamesAssumption DEF MissingJobs, TypeOK
  <2>3. CheckTyped'
    <3>1. CASE Err
      BY <1>2, <3>1 DEF CircleRequired, At, Err, Failed, Silent, Return,
          CheckTyped, TypeOK, Requests, github, HEAD
    <3>2. ASSUME NEW R \in RequiredSets, Answered, UNCHANGED skipped,
                 seen' = [seen EXCEPT !.required = R],
                 issues' = Found("missing", MissingJobs(seen.jobs, R)),
                 Return("pass") \/ Continue("statuses")
          PROVE  CheckTyped'
      BY <1>2, <2>1, <2>2, <3>2 DEF CircleRequired, At, Answered, Return, Continue,
          CheckTyped, TypeOK, Requests, github, HEAD
    <3> QED
      BY <1>2, <3>1, <3>2 DEF CircleRequired
  <2> QED
    BY <1>2, <2>3, CheckKeepsTypes DEF CircleRequired, At
<1>3. CASE CircleSuggest
  <2> DEFINE missing == MissingJobs(seen.jobs, seen.required)
  <2>1. missing \subseteq Names
    BY NamesAssumption DEF MissingJobs, TypeOK
  <2> DEFINE Answers ==
           [required : SUBSET Names, head : SUBSET Names, parent : 0..HEAD,
                 before : SUBSET Names, codeQL : BOOLEAN, jobs : SUBSET Jobs,
                 matrix : SUBSET Langs, suggested : SUBSET Names,
                 base : 0..HEAD, prHead : SUBSET Names, prBase : SUBSET Names]
  <2>2. seen' \in Answers
    <3>1. CASE seen' = [seen EXCEPT !.suggested = missing]
      BY <2>1, <3>1 DEF TypeOK
    <3>2. ASSUME NEW f \in [missing -> Names],
                 seen' = [seen EXCEPT !.head = reported[HEAD] \ Runs,
                                      !.suggested = {f[j] : j \in missing}]
          PROVE  seen' \in Answers
      <4>1. {f[j] : j \in missing} \subseteq Names /\ reported[HEAD] \ Runs \subseteq Names
        BY <1>0, <3>2
      <4> QED
        BY <3>2, <4>1 DEF TypeOK
    <3> QED
      BY <1>3, <3>1, <3>2 DEF CircleSuggest
  <2>3. CheckTyped'
    BY <1>3, <2>2 DEF CircleSuggest, At, Failed, Answered, Silent, Return,
        CheckTyped, TypeOK, Requests, github, HEAD
  <2> QED
    BY <1>3, <2>3, CheckKeepsTypes DEF CircleSuggest, At
<1> QED
  BY <1>1, <1>2, <1>3 DEF Circle

LEMMA TypeSettings ==
    ASSUME TypeOK, Settings \/ \E c \in Conventions : CodeQLLanguages(c)
    PROVE  TypeOK'
<1>0. HEAD \in 1..HEAD /\ trees[HEAD] \in Trees /\ trees[HEAD].explicit \subseteq Langs
  BY HeadTypes, HeadExists, TreeTypes
<1>1. CASE \E c \in Conventions : CodeQLLanguages(c)
  <2>1. CheckTyped'
    BY <1>1 DEF CodeQLLanguages, At, Err, Failed, Answered, Silent, Return, Continue,
        CheckTyped, TypeOK, Requests, github, HEAD
  <2> QED
    BY <1>1, <2>1, CheckKeepsTypes DEF CodeQLLanguages, At
<1>2. CASE HasCodeQLFile
  <2>1. CheckTyped'
    BY <1>2 DEF HasCodeQLFile, At, Err, Failed, Answered, Silent, Return, Judge,
        CheckTyped, TypeOK, Requests, Issues, github, HEAD
  <2> QED
    BY <1>2, <2>1, CheckKeepsTypes DEF HasCodeQLFile, At
<1>3. CASE SettingsFile
  <2>1. CheckTyped'
    BY <1>0, <1>3 DEF SettingsFile, At, Err, Failed, Answered, Silent, Return, Continue, Judge,
        CheckTyped, TypeOK, Requests, Issues, github, HEAD
  <2> QED
    BY <1>3, <2>1, CheckKeepsTypes DEF SettingsFile, At
<1>4. CASE SettingsRequired
  <2>1. \A R \in RequiredSets : R \in SUBSET Names
    BY NamesAssumption
  <2>2. \A R \in RequiredSets :
            Found("uncovered", Uncovered(R, seen.matrix)) \subseteq Issues
    BY <2>1, FoundIssues DEF Uncovered, Analyzed
  <2>3. CheckTyped'
    <3>1. CASE Failed /\ UNCHANGED seen /\ Judge(issues, {"matrix"})
      BY <1>4, <3>1 DEF SettingsRequired, At, Failed, Return, Judge,
          CheckTyped, TypeOK, Requests, github, HEAD
    <3>2. ASSUME NEW R \in RequiredSets, Answered, seen' = [seen EXCEPT !.required = R],
                 Judge(issues \cup Found("uncovered", Uncovered(R, seen.matrix)), {})
          PROVE  CheckTyped'
      BY <1>4, <2>1, <2>2, <3>2 DEF SettingsRequired, At, Answered, Return, Judge,
          CheckTyped, TypeOK, Requests, github, HEAD
    <3> QED
      BY <1>4, <3>1, <3>2 DEF SettingsRequired
  <2> QED
    BY <1>4, <2>3, CheckKeepsTypes DEF SettingsRequired, At
<1> QED
  BY <1>1, <1>2, <1>3, <1>4 DEF Settings

LEMMA TypeInfra ==
    ASSUME TypeOK, Infra
    PROVE  TypeOK'
<1>0. \A R \in RequiredSets : R \in SUBSET Names
  BY NamesAssumption
<1>1. CASE InfraRequired
  <2>1. CheckTyped'
    <3>1. CASE Err
      BY <1>1, <3>1 DEF InfraRequired, At, Err, Failed, Silent, Return,
          CheckTyped, TypeOK, Requests, github, HEAD
    <3>2. ASSUME NEW R \in RequiredSets, Answered, Silent,
                 seen' = [seen EXCEPT !.required = R],
                 Return("pass") \/ Continue("languages")
          PROVE  CheckTyped'
      BY <1>0, <1>1, <3>2 DEF InfraRequired, At, Answered, Silent, Return, Continue,
          CheckTyped, TypeOK, Requests, github, HEAD
    <3> QED
      BY <1>1, <3>1, <3>2 DEF InfraRequired
  <2> QED
    BY <1>1, <2>1, CheckKeepsTypes DEF InfraRequired, At
<1>2. CASE InfraLanguages
  <2>1. Found("infra", Analyzed(seen.required)) \subseteq Issues
    BY FoundIssues DEF Analyzed, TypeOK
  <2>2. CheckTyped'
    BY <1>2, <2>1 DEF InfraLanguages, At, Err, Failed, Answered, Silent, Return, Judge,
        CheckTyped, TypeOK, Requests, github, HEAD
  <2> QED
    BY <1>2, <2>2, CheckKeepsTypes DEF InfraLanguages, At
<1> QED
  BY <1>1, <1>2 DEF Infra

LEMMA TypeHead ==
    ASSUME TypeOK, OnHead
    PROVE  TypeOK'
<1>0. HEAD \in 1..HEAD /\ reported[HEAD] \in SUBSET Names
  BY HeadTypes, HeadExists
<1>1. CASE CoherentRequired
  <2>1. \A R \in RequiredSets : R \in SUBSET Names
    BY NamesAssumption
  <2>2. CheckTyped'
    <3>1. CASE Err
      BY <1>1, <3>1 DEF CoherentRequired, At, Err, Failed, Silent, Return,
          CheckTyped, TypeOK, Requests, github, HEAD
    <3>2. ASSUME NEW R \in RequiredSets, Answered, Silent, seen' = [seen EXCEPT !.required = R],
                 pc' \in {"done", "statuses"}, verdict' \in {"pass", verdict}
          PROVE  CheckTyped'
      BY <1>1, <2>1, <3>2 DEF CoherentRequired, At, Answered, Silent,
          CheckTyped, TypeOK, Requests, github, HEAD
    <3> QED
      BY <1>1, <3>1, <3>2 DEF CoherentRequired, Return, Continue
  <2> QED
    BY <1>1, <2>2, CheckKeepsTypes DEF CoherentRequired, At
<1>2. CASE HeadStatuses \/ HeadRuns
  <2>1. CheckTyped'
    <3>1. CASE HeadStatuses
      BY <1>0, <3>1 DEF HeadStatuses, At, Err, Failed, Answered, Silent, Return, Continue,
          CheckTyped, TypeOK, Requests, github, HEAD
    <3>2. CASE HeadRuns
      BY <1>0, <3>2 DEF HeadRuns, At, Err, Failed, Answered, Silent, Return, Continue,
          CheckTyped, TypeOK, Requests, github, HEAD
    <3> QED
      BY <1>2, <3>1, <3>2
  <2> QED
    BY <1>2, <2>1, CheckKeepsTypes DEF HeadStatuses, HeadRuns, At
<1> QED
  BY <1>1, <1>2 DEF OnHead

LEMMA TypeParent ==
    ASSUME TypeOK, OnParent
    PROVE  TypeOK'
<1>0. HEAD \in 1..HEAD /\ HEAD \in Nat
  BY HeadExists
<1>1. \A before : Found("stale", Stale(seen.required, seen.head, before)) \subseteq Issues
  BY FoundIssues DEF Stale, MissingOnHead, TypeOK
<1>2. CASE Parents
  <2>1. HEAD > 1 => HEAD - 1 \in 0..HEAD /\ HEAD - 1 # 0
    BY <1>0
  <2>2. CheckTyped'
    BY <1>1, <1>2, <2>1 DEF Parents, FlagStale, At, Failed, Answered, Silent, Continue,
        CheckTyped, TypeOK, Requests, github, HEAD
  <2> QED
    BY <1>2, <2>2, CheckKeepsTypes DEF Parents, At
<1>3. CASE ParentStatuses \/ ParentRuns
  <2>0. /\ seen.parent \in 0..HEAD
        /\ pc \in {"parent statuses", "parent runs"} => seen.parent # 0
    BY DEF TypeOK
  <2>1. pc \in {"parent statuses", "parent runs"} => seen.parent \in 1..HEAD
    BY <1>0, <2>0, Positive
  <2>2. pc \in {"parent statuses", "parent runs"} => reported[seen.parent] \in SUBSET Names
    BY <2>1, HeadTypes
  <2>3. CheckTyped'
    <3>1. CASE ParentStatuses
      BY <2>2, <3>1, ZenonT(60) DEF ParentStatuses, At, Failed, Answered, Silent, Continue,
          CheckTyped, TypeOK, Requests, github, HEAD
    <3>2. CASE ParentRuns
      BY <1>1, <2>2, <3>2, ZenonT(60) DEF ParentRuns, FlagStale, At, Failed, Answered, Continue,
          CheckTyped, TypeOK, Requests, github, HEAD
    <3> QED
      BY <1>3, <3>1, <3>2
  <2> QED
    BY <1>3, <2>3, CheckKeepsTypes DEF ParentStatuses, ParentRuns, At
<1> QED
  BY <1>2, <1>3 DEF OnParent

LEMMA TypeCodeQL ==
    ASSUME TypeOK, CodeQL
    PROVE  TypeOK'
<1>1. CASE CoherentLanguages
  <2>1. CheckTyped'
    BY <1>1 DEF CoherentLanguages, At, Err, Failed, Answered, Silent, Return, Continue,
        CheckTyped, TypeOK, Requests, Issues, github, HEAD
  <2> QED
    BY <1>1, <2>1, CheckKeepsTypes DEF CoherentLanguages, At
<1>2. CASE CoherentWorkflow
  <2>1. \A matrix : Found("mismatch", Mismatched(seen.required, matrix)) \subseteq Issues
    BY FoundIssues DEF Mismatched, Uncovered, Analyzed, TypeOK
  <2>2. CheckTyped'
    BY <1>2, <2>1 DEF CoherentWorkflow, At, Failed, Answered, Continue,
        CheckTyped, TypeOK, Requests, github, HEAD
  <2> QED
    BY <1>2, <2>2, CheckKeepsTypes DEF CoherentWorkflow, At
<1> QED
  BY <1>1, <1>2 DEF CodeQL

LEMMA TypePulls ==
    ASSUME TypeOK, OnPulls
    PROVE  TypeOK'
<1>0. HEAD \in 1..HEAD /\ HEAD \in Nat /\ DOMAIN trees = 1..HEAD
  <2>1. HEAD \in 1..HEAD /\ HEAD \in Nat
    BY HeadExists
  <2>2. trees \in Seq(Trees)
    BY DEF TypeOK
  <2>3. DOMAIN trees = 1..Len(trees)
    BY <2>2
  <2> QED
    BY <2>1, <2>3 DEF HEAD
<1>1. CASE DependabotFile \/ ListPulls \/ ListFails
  <2>1. CheckTyped'
    <3>1. CASE DependabotFile
      BY <3>1 DEF DependabotFile, Judge, At, Err, Failed, Answered, Silent, Return, Continue,
          CheckTyped, TypeOK, Requests, github, HEAD
    <3>2. CASE ListPulls
      BY <3>2, ZenonT(60) DEF ListPulls, NextListing, Judge, At, Failed, Answered, Silent, Return,
          Continue, CheckTyped, TypeOK, Requests, github, HEAD
    <3>3. CASE ListFails /\ Err
      BY <3>3 DEF ListFails, At, Err, Failed, Silent, Return,
          CheckTyped, TypeOK, Requests, github, HEAD
    <3>4. CASE ListFails /\ Failed /\ NextListing
      BY <3>4 DEF ListFails, NextListing, Judge, At, Failed, Silent, Return, Continue,
          CheckTyped, TypeOK, Requests, github, HEAD
    <3> QED
      BY <1>1, <3>1, <3>2, <3>3, <3>4 DEF ListFails
  <2> QED
    BY <1>1, <2>1, CheckKeepsTypes DEF DependabotFile, ListPulls, ListFails, At
<1>2. CASE PickPull
  <2>1. \A b \in DOMAIN trees : PRFires(trees[b]) \subseteq Names /\ b \in 0..HEAD /\ b # 0
    BY <1>0, HeadTypes, TreeTypes
  <2>2. CheckTyped'
    <3>1. CASE Err
      BY <1>2, <3>1 DEF PickPull, At, Err, Failed, Silent, Return,
          CheckTyped, TypeOK, Requests, github, HEAD
    <3>2. CASE Answered /\ NextListing
      BY <1>2, <3>2 DEF PickPull, NextListing, Judge, At, Answered, Silent, Return, Continue,
          CheckTyped, TypeOK, Requests, github, HEAD
    <3>3. ASSUME NEW b \in DOMAIN trees, NEW S \in SUBSET PRFires(trees[b]), Answered, Silent,
                 Continue("base runs"), seen' = [seen EXCEPT !.base = b, !.prHead = S]
          PROVE  CheckTyped'
      BY <1>2, <2>1, <3>3 DEF PickPull, At, Answered, Silent, Continue,
          CheckTyped, TypeOK, Requests, github, HEAD
    <3> QED
      BY <1>2, <3>1, <3>2, <3>3 DEF PickPull
  <2> QED
    BY <1>2, <2>2, CheckKeepsTypes DEF PickPull, At
<1>3. CASE BaseRuns \/ BaseStatuses
  <2>0. seen.base \in 0..HEAD /\ (pc \in {"base runs", "base statuses"} => seen.base # 0)
    BY DEF TypeOK
  <2>1. pc \in {"base runs", "base statuses"} => seen.base \in 1..HEAD
    BY <1>0, <2>0, Positive
  <2>2. pc \in {"base runs", "base statuses"} => reported[seen.base] \in SUBSET Names
    BY <2>1, HeadTypes
  <2>3. Found("unsatisfiable", Unsatisfiable(seen.required, seen.prHead, seen'.prBase))
            \subseteq Issues
    BY FoundIssues DEF Unsatisfiable, TypeOK
  <2>4. CheckTyped'
    <3> DEFINE Answers ==
           [required : SUBSET Names, head : SUBSET Names, parent : 0..HEAD,
                 before : SUBSET Names, codeQL : BOOLEAN, jobs : SUBSET Jobs,
                 matrix : SUBSET Langs, suggested : SUBSET Names,
                 base : 0..HEAD, prHead : SUBSET Names, prBase : SUBSET Names]
    <3>1. seen' \in Answers /\ seen'.base = seen.base
      <4>1. seen' = seen \/ \E S \in SUBSET Names : seen' = [seen EXCEPT !.prBase = S]
        <5>1. seen.prBase \in SUBSET Names
          BY DEF TypeOK
        <5>2. ASSUME NEW N \in SUBSET Names
              PROVE  N \cap Runs \in SUBSET Names /\ (N \ Runs) \cup seen.prBase \in SUBSET Names
          BY <5>1
        <5> QED
          BY <1>3, <2>2, <5>1, <5>2 DEF BaseRuns, BaseStatuses, At, Err
      <4>2. seen \in Answers
        BY DEF TypeOK
      <4> QED
        BY <4>1, <4>2
    <3>2. CASE BaseRuns
      BY <3>1, <3>2 DEF BaseRuns, At, Err, Failed, Answered, Silent, Return, Continue,
          CheckTyped, TypeOK, Requests, github, HEAD
    <3>3. CASE BaseStatuses
      BY <2>3, <3>1, <3>3 DEF BaseStatuses, Judge, At, Err, Failed,
          Answered, Silent, Return, CheckTyped, TypeOK, Requests, github, HEAD
    <3> QED
      BY <1>3, <3>2, <3>3
  <2> QED
    BY <1>3, <2>4, CheckKeepsTypes DEF BaseRuns, BaseStatuses, At
<1> QED
  BY <1>1, <1>2, <1>3 DEF OnPulls

LEMMA TypeGithub ==
    ASSUME TypeOK,
           (\E t \in Trees : Push(t)) \/ \E c \in DOMAIN trees, n \in Names : Report(c, n)
    PROVE  TypeOK'
<1>0. HEAD \in 1..HEAD /\ HEAD \in Nat /\ HEAD = Len(trees) /\ Len(reported) = HEAD
  BY HeadExists DEF TypeOK, HEAD
<1>1. ASSUME NEW t \in Trees, Push(t) PROVE TypeOK'
  <2>1. /\ trees' \in Seq(Trees) /\ reported' \in Seq(SUBSET Names)
        /\ HEAD' = HEAD + 1 /\ Len(reported') = HEAD + 1
    <3>1. trees \in Seq(Trees) /\ reported \in Seq(SUBSET Names)
      BY DEF TypeOK
    <3>2. trees' \in Seq(Trees) /\ Len(trees') = Len(trees) + 1
      BY <1>1, <3>1 DEF Push
    <3>3. reported' \in Seq(SUBSET Names) /\ Len(reported') = Len(reported) + 1
      BY <1>1, <3>1, Grows DEF Push
    <3> QED
      BY <1>0, <3>2, <3>3 DEF HEAD
  <2>2. HEAD' \in 1..MaxCommits
    BY <1>0, <1>1, <2>1, CommitBound DEF Push
  <2>3. rushed' \in BOOLEAN
    BY <1>1 DEF Push, TypeOK
  <2>4. CheckTyped'
    <3>1. 0..HEAD \subseteq 0..HEAD' /\ 1..HEAD \subseteq 1..HEAD'
      BY <1>0, <2>1
    <3>2. CheckTyped
      BY DEF TypeOK, CheckTyped
    <3> QED
      BY <1>1, <3>1, <3>2 DEF Push, check, CheckTyped
  <2> QED
    BY <2>1, <2>2, <2>3, <2>4 DEF TypeOK, CheckTyped
<1>2. ASSUME NEW c \in DOMAIN trees, NEW n \in Names, Report(c, n) PROVE TypeOK'
  <2>1. HEAD' = HEAD
    BY <1>2 DEF Report, HEAD
  <2>2. reported' \in Seq(SUBSET Names) /\ Len(reported') = Len(reported)
    <3>1. c \in 1..Len(reported)
      BY <1>0
    <3>2. reported \in Seq(SUBSET Names) /\ reported[c] \cup {n} \in SUBSET Names
      BY <1>0, <3>1, HeadTypes DEF TypeOK
    <3> QED
      BY <1>2, <3>1, <3>2, Replaced DEF Report
  <2>3. CheckTyped'
    BY <1>2, <2>1 DEF Report, check, CheckTyped, TypeOK
  <2> QED
    BY <1>0, <1>2, <2>1, <2>2, <2>3 DEF TypeOK, CheckTyped, Report
<1> QED
  BY <1>1, <1>2

LEMMA TypeStep == TypeOK /\ [Next]_vars => TypeOK'
<1> SUFFICES ASSUME TypeOK, [Next]_vars PROVE TypeOK'
  OBVIOUS
<1>1. ASSUME NEW c \in Conventions, Start(c) PROVE TypeOK'
  <2>1. HEAD \in 1..HEAD /\ 0 \in 0..HEAD
    BY HeadExists
  <2>2. FirstRequest[c] \in {"config", "languages", "required"}
    BY DEF FirstRequest, Conventions
  <2>3. CheckTyped'
    BY <1>1, <2>1, <2>2 DEF Start, Unread, CheckTyped, Requests, github, HEAD
  <2> QED
    BY <1>1, <2>3, CheckKeepsTypes DEF Start
<1>2. CASE UNCHANGED vars
  BY <1>2 DEF vars, github, check, TypeOK, HEAD
<1> QED
  BY <1>1, <1>2, TypeGithub, TypeCircle, TypeSettings, TypeInfra, TypeHead, TypeParent,
     TypeCodeQL, TypePulls DEF Next

LEMMA TypeInit == Init => TypeOK
<1> SUFFICES ASSUME Init PROVE TypeOK
  OBVIOUS
<1>1. PICK t \in Trees : trees = <<t>> /\ reported = <<Fires(t)>>
  BY DEF Init
<1>2. Fires(t) \in SUBSET Names
  BY TreeTypes
<1>3. /\ trees \in Seq(Trees) /\ Len(trees) = 1
      /\ reported \in Seq(SUBSET Names) /\ Len(reported) = 1
  BY <1>1, <1>2
<1>4. HEAD = 1 /\ HEAD \in 1..MaxCommits
  BY <1>3, CommitBound DEF HEAD
<1>5. CheckTyped
  <2>1. 0 \in 0..HEAD /\ 1 \in 1..HEAD
    BY <1>4
  <2> QED
    BY <2>1 DEF Init, CheckTyped, Unread, Conventions, Requests
<1> QED
  BY <1>3, <1>4, <1>5 DEF Init, TypeOK, CheckTyped

(* Everything a check has read keeps its type, and a commit it looks at is   *)
(* one of main.                                                              *)
THEOREM ChecksTyped == Spec => []TypeOK
BY TypeInit, TypeStep, PTL DEF Spec

----------------------------------------------------------------------------
(* CI reports what it runs, and all of it before the next commit unless that *)
(* one is rushed.                                                            *)
CIRight ==
    /\ \A c \in 1..HEAD : reported[c] \subseteq Fires(trees[c])
    /\ ~rushed => \A c \in 1..HEAD : c < HEAD => reported[c] = Fires(trees[c])

CIInv == TypeOK /\ CIRight

(* A new commit leaves those before it as they were.                         *)
LEMMA PushKeeps ==
    ASSUME TypeOK, NEW t \in Trees, Push(t)
    PROVE  /\ HEAD \in Nat /\ HEAD' = HEAD + 1
           /\ trees'[HEAD'] = t /\ reported'[HEAD'] = {}
           /\ \A c \in 1..HEAD : trees'[c] = trees[c] /\ reported'[c] = reported[c]
<1>1. trees \in Seq(Trees) /\ reported \in Seq(SUBSET Names) /\ Len(reported) = Len(trees)
  BY DEF TypeOK, HEAD
<1>2. /\ Len(trees') = Len(trees) + 1 /\ trees'[Len(trees) + 1] = t
      /\ \A c \in 1..Len(trees) : trees'[c] = trees[c]
  BY <1>1 DEF Push
<1>3. /\ reported'[Len(reported) + 1] = {}
      /\ \A c \in 1..Len(reported) : reported'[c] = reported[c]
  BY <1>1, Appended DEF Push
<1> QED
  BY <1>1, <1>2, <1>3, HeadExists DEF HEAD

(* What one more report changes.                                             *)
LEMMA ReportAdds ==
    ASSUME TypeOK, NEW c \in DOMAIN trees, NEW n \in Names, Report(c, n)
    PROVE  /\ HEAD' = HEAD /\ trees' = trees /\ c \in 1..HEAD
           /\ n \in Fires(trees[c]) \ reported[c]
           /\ \A d \in 1..HEAD : reported'[d] = IF d = c THEN reported[d] \cup {n} ELSE reported[d]
<1>1. trees \in Seq(Trees) /\ reported \in Seq(SUBSET Names) /\ Len(reported) = Len(trees)
  BY DEF TypeOK, HEAD
<1>2. DOMAIN reported = 1..Len(reported) /\ DOMAIN trees = 1..Len(trees)
  BY <1>1, DomainOf
<1> QED
  BY <1>1, <1>2 DEF Report, HEAD

LEMMA CIStep == CIInv /\ [Next]_vars => CIInv'
<1> SUFFICES ASSUME CIInv, [Next]_vars PROVE CIInv'
  OBVIOUS
<1>0. TypeOK /\ TypeOK'
  BY TypeStep DEF CIInv
<1>1. ASSUME NEW t \in Trees, Push(t) PROVE CIInv'
  <2>1. /\ HEAD \in Nat /\ HEAD' = HEAD + 1
        /\ trees'[HEAD'] = t /\ reported'[HEAD'] = {}
        /\ \A c \in 1..HEAD : trees'[c] = trees[c] /\ reported'[c] = reported[c]
    BY <1>0, <1>1, PushKeeps
  <2>2. \A c \in 1..HEAD' : c \in 1..HEAD \/ c = HEAD'
    BY <2>1
  <2>3. ASSUME NEW c \in 1..HEAD' PROVE reported'[c] \subseteq Fires(trees'[c])
    BY <2>1, <2>2 DEF CIInv, CIRight
  <2>4. ASSUME ~rushed', NEW c \in 1..HEAD', c < HEAD'
        PROVE  reported'[c] = Fires(trees'[c])
    <3>1. c \in 1..HEAD /\ (c < HEAD \/ c = HEAD)
      BY <2>1, <2>4
    <3>2. ~rushed /\ reported[HEAD] = Fires(trees[HEAD])
      BY <1>1, <2>4 DEF Push
    <3>3. reported[c] = Fires(trees[c])
      BY <3>1, <3>2 DEF CIInv, CIRight
    <3> QED
      BY <2>1, <3>1, <3>3
  <2> QED
    BY <1>0, <2>3, <2>4 DEF CIInv, CIRight
<1>2. ASSUME NEW c \in DOMAIN trees, NEW n \in Names, Report(c, n) PROVE CIInv'
  <2>1. /\ HEAD' = HEAD /\ trees' = trees /\ c \in 1..HEAD
        /\ n \in Fires(trees[c]) \ reported[c]
        /\ \A d \in 1..HEAD : reported'[d] = IF d = c THEN reported[d] \cup {n} ELSE reported[d]
    BY <1>0, <1>2, ReportAdds
  <2>2. rushed' = rushed
    BY <1>2 DEF Report
  <2> QED
    BY <1>0, <2>1, <2>2 DEF CIInv, CIRight
<1>3. ASSUME UNCHANGED github PROVE CIInv'
  BY <1>0, <1>3 DEF CIInv, CIRight, github, HEAD
<1>4. ASSUME ~\E t \in Trees : Push(t), ~\E c \in DOMAIN trees, n \in Names : Report(c, n)
      PROVE  UNCHANGED github
  BY <1>4 DEF Next, vars, Start, CodeQLLanguages, Circle, CircleConfig, CircleRequired,
     CircleSuggest, Settings, HasCodeQLFile, SettingsFile, SettingsRequired, Infra,
     InfraRequired, InfraLanguages, OnHead, CoherentRequired, HeadStatuses, HeadRuns, OnParent,
     Parents, ParentStatuses, ParentRuns, CodeQL, CoherentLanguages, CoherentWorkflow, OnPulls,
     DependabotFile, ListPulls, ListFails, PickPull, BaseRuns, BaseStatuses, At
<1> QED
  BY <1>1, <1>2, <1>3, <1>4

LEMMA CIInit == Init => CIInv
<1> SUFFICES ASSUME Init PROVE CIInv
  OBVIOUS
<1>1. PICK t \in Trees : trees = <<t>> /\ reported = <<Fires(t)>>
  BY DEF Init
<1>2. HEAD = 1 /\ trees[1] = t /\ reported[1] = Fires(t)
  BY <1>1 DEF HEAD
<1> QED
  BY <1>2, TypeInit DEF CIInv, CIRight

----------------------------------------------------------------------------
(* No check is stale before the parent of HEAD has been looked at, which is  *)
(* none until then; and what was read of its statuses is all there are.      *)
StaleIssue(n) == <<"stale", n>> \in issues

AtParent == pc \in {"parent statuses", "parent runs"}
BeforeParent == conv = "coherent" /\ pc \in {"required", "statuses", "runs", "parents"}

ParentRead ==
    /\ BeforeParent => seen.parent = 0
    /\ BeforeParent \/ AtParent => \A n \in Names : ~StaleIssue(n)
    /\ AtParent => seen.parent \in 1..HEAD /\ seen.parent < HEAD
    /\ pc = "parent runs" =>
          \/ "parent statuses" \in failed
          \/ rushed
          \/ Fires(trees[seen.parent]) \ Runs \subseteq seen.before

StaleInv == CIInv /\ ParentRead /\ NoFalseStale

(* Most requests are not about the parent, and find nothing stale.           *)
LEMMA StaleKept ==
    ASSUME StaleInv, CIInv', UNCHANGED <<trees, rushed>>,
           seen'.parent = seen.parent, failed \subseteq failed', ~AtParent',
           \A n \in Names : StaleIssue(n)' => StaleIssue(n),
           BeforeParent' => BeforeParent
    PROVE  StaleInv'
<1>1. NoFalseStale'
  BY DEF StaleInv, NoFalseStale, StaleIssue
<1>2. ParentRead'
  BY DEF StaleInv, ParentRead, AtParent
<1> QED
  BY <1>1, <1>2 DEF StaleInv

LEMMA StaleOther ==
    ASSUME StaleInv, CIInv',
           Circle \/ Settings \/ Infra \/ OnHead \/ CodeQL \/ OnPulls
              \/ \E c \in Conventions : CodeQLLanguages(c)
    PROVE  StaleInv'
<1>0. TypeOK /\ TypeOK'
  BY DEF StaleInv, CIInv
<1>1. UNCHANGED <<trees, rushed, conv>>
  BY DEF Circle, CircleConfig, CircleRequired, CircleSuggest, Settings, HasCodeQLFile,
     SettingsFile, SettingsRequired, Infra, InfraRequired, InfraLanguages, OnHead,
     CoherentRequired, HeadStatuses, HeadRuns, CodeQL, CoherentLanguages, CoherentWorkflow,
     OnPulls, DependabotFile, ListPulls, ListFails, PickPull, BaseRuns, BaseStatuses,
     CodeQLLanguages, At, github
<1>2. failed \subseteq failed'
  BY DEF Circle, CircleConfig, CircleRequired, CircleSuggest, Settings, HasCodeQLFile,
     SettingsFile, SettingsRequired, Infra, InfraRequired, InfraLanguages, OnHead,
     CoherentRequired, HeadStatuses, HeadRuns, CodeQL, CoherentLanguages, CoherentWorkflow,
     OnPulls, DependabotFile, ListPulls, ListFails, PickPull, BaseRuns, BaseStatuses,
     CodeQLLanguages, Err, Failed, Answered
<1>3. seen'.parent = seen.parent
  <2>1. CASE Circle
    BY <1>0, <2>1 DEF Circle, CircleConfig, CircleRequired, CircleSuggest, Err, TypeOK
  <2>2. CASE Settings \/ Infra \/ \E c \in Conventions : CodeQLLanguages(c)
    BY <1>0, <2>2 DEF Settings, HasCodeQLFile, SettingsFile, SettingsRequired, Infra,
       InfraRequired, InfraLanguages, CodeQLLanguages, Err, TypeOK
  <2>3. CASE OnHead \/ CodeQL
    BY <1>0, <2>3 DEF OnHead, CoherentRequired, HeadStatuses, HeadRuns, CodeQL,
       CoherentLanguages, CoherentWorkflow, Err, TypeOK
  <2>4. CASE OnPulls
    BY <1>0, <2>4 DEF OnPulls, DependabotFile, ListPulls, ListFails, PickPull, BaseRuns,
       BaseStatuses, NextListing, Err, TypeOK
  <2> QED
    BY <2>1, <2>2, <2>3, <2>4
<1>4. \A n \in Names : StaleIssue(n)' => StaleIssue(n)
  <2>1. CASE Circle \/ OnHead
    <3>1. CASE CircleRequired
      BY <3>1 DEF CircleRequired, Err, Silent, Found, StaleIssue
    <3>2. CASE CircleConfig \/ CircleSuggest \/ OnHead
      BY <3>2 DEF CircleConfig, CircleSuggest, OnHead, CoherentRequired, HeadStatuses, HeadRuns,
         Err, Silent, StaleIssue
    <3> QED
      BY <2>1, <3>1, <3>2 DEF Circle
  <2>2. CASE Settings \/ Infra \/ \E c \in Conventions : CodeQLLanguages(c)
    BY <2>2 DEF Settings, HasCodeQLFile, SettingsFile, SettingsRequired, Infra, InfraRequired,
       InfraLanguages, CodeQLLanguages, Err, Silent, Judge, Found, StaleIssue
  <2>3. CASE CodeQL
    BY <2>3 DEF CodeQL, CoherentLanguages, CoherentWorkflow, Err, Silent, Found, StaleIssue
  <2>4. CASE OnPulls
    <3>1. CASE BaseStatuses
      <4>1. issues' = issues \/ \E S : issues' = issues \cup Found("unsatisfiable", S)
        BY <3>1 DEF BaseStatuses, Judge, Err, Silent
      <4>2. \A S, n : <<"stale", n>> \notin Found("unsatisfiable", S)
        BY DEF Found
      <4> QED
        BY <4>1, <4>2 DEF StaleIssue
    <3>2. CASE DependabotFile \/ ListPulls \/ ListFails \/ PickPull \/ BaseRuns
      <4>1. issues' = issues
        BY <3>2 DEF DependabotFile, ListPulls, ListFails, PickPull, BaseRuns,
           NextListing, Judge, Err, Silent
      <4> QED
        BY <4>1 DEF StaleIssue
    <3> QED
      BY <2>4, <3>1, <3>2 DEF OnPulls
  <2> QED
    BY <2>1, <2>2, <2>3, <2>4
<1>5. ~AtParent' /\ (BeforeParent' => BeforeParent)
  <2>1. CASE Circle
    BY <1>1, <2>1 DEF Circle, CircleConfig, CircleRequired, CircleSuggest, At, Err, Return,
       Continue, AtParent, BeforeParent
  <2>2. CASE Settings \/ Infra \/ \E c \in Conventions : CodeQLLanguages(c)
    BY <1>1, <2>2 DEF Settings, HasCodeQLFile, SettingsFile, SettingsRequired, Infra,
       InfraRequired, InfraLanguages, CodeQLLanguages, At, Err, Return, Continue, Judge,
       AtParent, BeforeParent
  <2>3. CASE OnHead \/ CodeQL
    BY <1>1, <2>3 DEF OnHead, CoherentRequired, HeadStatuses, HeadRuns, CodeQL,
       CoherentLanguages, CoherentWorkflow, At, Err, Return, Continue, AtParent, BeforeParent
  <2>4. CASE OnPulls
    BY <1>1, <2>4 DEF OnPulls, DependabotFile, ListPulls, ListFails, PickPull, BaseRuns,
       BaseStatuses, NextListing, Judge, At, Err, Return, Continue, AtParent, BeforeParent
  <2> QED
    BY <2>1, <2>2, <2>3, <2>4
<1> QED
  BY <1>1, <1>2, <1>3, <1>4, <1>5, StaleKept

(* The look at the parent.  What is called stale was not read of it.         *)
LEMMA StaleOnParent ==
    ASSUME StaleInv, CIInv', OnParent
    PROVE  StaleInv'
<1>0. TypeOK /\ HEAD \in Nat /\ HEAD \in 1..HEAD
  BY HeadExists DEF StaleInv, CIInv
<1>1. /\ UNCHANGED <<trees, reported, rushed, conv>> /\ HEAD' = HEAD
      /\ failed \subseteq failed' /\ conv = "coherent"
  BY DEF OnParent, Parents, ParentStatuses, ParentRuns, At, github, HEAD, Failed, Answered
<1>2. \A n \in Names : ~StaleIssue(n)
  BY DEF StaleInv, ParentRead, BeforeParent, AtParent, OnParent, Parents, ParentStatuses,
     ParentRuns, At
<1>3. ASSUME NEW before, FlagStale(before)
      PROVE  /\ pc' = "languages"
             /\ \A n \in Names : StaleIssue(n)' => n \notin before
  BY <1>2, <1>3 DEF FlagStale, Continue, Stale, Found, StaleIssue
<1>4. CASE Parents
  <2>1. seen.parent = 0
    BY <1>1, <1>4 DEF StaleInv, ParentRead, BeforeParent, Parents, At
  <2>2. CASE FlagStale({})
    <3>1. seen' = seen \/ seen' = [seen EXCEPT !.parent = HEAD - 1]
      BY <1>4 DEF Parents
    <3>2. pc' = "languages"
      BY <1>3, <2>2
    <3>3. seen' = seen
      BY <1>4, <3>2 DEF Parents, Continue
    <3> QED
      BY <1>1, <2>1, <3>2, <3>3
          DEF StaleInv, ParentRead, BeforeParent, AtParent, NoFalseStale
  <2>3. CASE Silent /\ HEAD > 1 /\ Continue("parent statuses")
                /\ seen' = [seen EXCEPT !.parent = HEAD - 1]
    <3>1. seen'.parent \in 1..HEAD /\ seen'.parent < HEAD
      <4>1. seen'.parent = HEAD - 1
        BY <1>0, <2>3 DEF TypeOK
      <4> QED
        BY <1>0, <2>3, <4>1, Below
    <3>2. \A n \in Names : ~StaleIssue(n)'
      BY <1>2, <2>3 DEF Silent, StaleIssue
    <3>3. ParentRead'
      BY <1>1, <2>3, <3>1, <3>2 DEF ParentRead, BeforeParent, AtParent, Continue
    <3> QED
      BY <3>2, <3>3 DEF StaleInv, NoFalseStale, StaleIssue
  <2> QED
    BY <1>4, <2>2, <2>3 DEF Parents
<1>5. CASE ParentStatuses
  <2>1. seen.parent \in 1..HEAD /\ seen.parent < HEAD
    BY <1>0, <1>5 DEF StaleInv, ParentRead, AtParent, ParentStatuses, At
  <2>2. \A n \in Names : ~StaleIssue(n)'
    BY <1>2, <1>5 DEF ParentStatuses, Silent, StaleIssue
  <2>3. seen'.parent = seen.parent
    BY <1>0, <1>5 DEF ParentStatuses, TypeOK
  <2>4. \/ "parent statuses" \in failed'
        \/ rushed
        \/ Fires(trees[seen.parent]) \ Runs \subseteq seen'.before
    <3>1. ASSUME seen' = [seen EXCEPT !.before = reported[seen.parent] \ Runs], ~rushed
          PROVE  Fires(trees[seen.parent]) \ Runs \subseteq seen'.before
      <4>1. reported[seen.parent] = Fires(trees[seen.parent])
        BY <2>1, <3>1 DEF StaleInv, CIInv, CIRight
      <4>2. seen'.before = reported[seen.parent] \ Runs
        BY <1>0, <3>1 DEF TypeOK
      <4> QED
        BY <4>1, <4>2
    <3> QED
      BY <1>5, <3>1 DEF ParentStatuses, At, Failed
  <2>5. ParentRead'
    BY <1>1, <1>5, <2>1, <2>2, <2>3, <2>4
        DEF ParentRead, BeforeParent, AtParent, ParentStatuses, Continue
  <2> QED
    BY <2>2, <2>5 DEF StaleInv, NoFalseStale, StaleIssue
<1>6. CASE ParentRuns
  <2>1. seen.parent \in 1..HEAD /\ seen.parent < HEAD
    BY <1>0, <1>6 DEF StaleInv, ParentRead, AtParent, ParentRuns, At
  <2>2. /\ pc' = "languages" /\ seen'.parent = seen.parent
        /\ \A n \in Names : StaleIssue(n)' => n \notin seen'.before
    BY <1>0, <1>3, <1>6 DEF ParentRuns, TypeOK
  <2>3. \/ "parent statuses" \in failed \/ "parent runs" \in failed' \/ rushed
        \/ Fires(trees[seen.parent]) \subseteq seen'.before
    <3>1. ASSUME seen' = [seen EXCEPT !.before = @ \cup (reported[seen.parent] \cap Runs)],
                 ~rushed, Fires(trees[seen.parent]) \ Runs \subseteq seen.before
          PROVE  Fires(trees[seen.parent]) \subseteq seen'.before
      <4>1. reported[seen.parent] = Fires(trees[seen.parent])
        BY <2>1, <3>1 DEF StaleInv, CIInv, CIRight
      <4>2. seen'.before = seen.before \cup (reported[seen.parent] \cap Runs)
        BY <1>0, <3>1 DEF TypeOK
      <4> QED
        BY <3>1, <4>1, <4>2
    <3> QED
      BY <1>6, <3>1 DEF ParentRuns, At, Failed, StaleInv, ParentRead
  <2>4. NoFalseStale'
    BY <1>1, <2>2, <2>3 DEF NoFalseStale, StaleIssue
  <2>5. ParentRead'
    BY <2>2 DEF ParentRead, BeforeParent, AtParent
  <2> QED
    BY <2>4, <2>5 DEF StaleInv
<1> QED
  BY <1>4, <1>5, <1>6 DEF OnParent

LEMMA StaleStep == StaleInv /\ [Next]_vars => StaleInv'
<1> SUFFICES ASSUME StaleInv, [Next]_vars PROVE StaleInv'
  OBVIOUS
<1>0. TypeOK /\ CIInv' /\ HEAD \in Nat
  BY CIStep, HeadExists DEF StaleInv, CIInv
<1>1. ASSUME NEW t \in Trees, Push(t) PROVE StaleInv'
  <2>1. /\ HEAD' = HEAD + 1
        /\ \A c \in 1..HEAD : trees'[c] = trees[c]
    BY <1>0, <1>1, PushKeeps
  <2>2. seen.parent \in 0..HEAD
    BY <1>0 DEF TypeOK
  <2>3. seen.parent = 0 \/ trees'[seen.parent] = trees[seen.parent]
    BY <1>0, <2>1, <2>2, Positive
  <2>4. UNCHANGED check /\ (rushed => rushed')
    BY <1>1 DEF Push
  <2>5. NoFalseStale'
    BY <2>3, <2>4 DEF StaleInv, NoFalseStale, check
  <2>6. AtParent => seen.parent \in 1..HEAD' /\ seen.parent < HEAD' /\ seen.parent # 0
    <3>1. AtParent => seen.parent \in 1..HEAD
      BY DEF StaleInv, ParentRead
    <3> QED
      BY <1>0, <2>1, <3>1
  <2>7. ParentRead'
    BY <2>3, <2>4, <2>6 DEF StaleInv, ParentRead, BeforeParent, AtParent, StaleIssue, check
  <2> QED
    BY <1>0, <2>5, <2>7 DEF StaleInv
<1>2. CASE (\E c \in DOMAIN trees, n \in Names : Report(c, n)) \/ UNCHANGED vars
  <2>1. UNCHANGED <<trees, rushed, check>>
    BY <1>2 DEF Report, vars, github
  <2> QED
    BY <1>0, <2>1 DEF StaleInv, ParentRead, BeforeParent, AtParent, NoFalseStale, StaleIssue,
       HEAD, check
<1>3. ASSUME NEW c \in Conventions, Start(c) PROVE StaleInv'
  <2>1. issues' = {} /\ seen'.parent = 0 /\ ~AtParent'
    BY <1>3 DEF Start, Unread, AtParent, FirstRequest, Conventions
  <2> QED
    BY <1>0, <2>1 DEF StaleInv, ParentRead, AtParent, NoFalseStale, StaleIssue
<1> QED
  BY <1>0, <1>1, <1>2, <1>3, StaleOther, StaleOnParent DEF Next

LEMMA StaleInit == Init => StaleInv
BY CIInit DEF Init, StaleInv, ParentRead, BeforeParent, AtParent, NoFalseStale, StaleIssue

(* The look at the parent is enough: a required check is not called stale    *)
(* because CI is at work on HEAD, unless commits follow each other faster    *)
(* than CI or a request about the parent fails                               *)
(* (required-status-checks-coherent.go, lines 86 to 128).                    *)
THEOREM StaleIsStale == Spec => []NoFalseStale
<1>1. StaleInv => NoFalseStale
  BY DEF StaleInv
<1> QED
  BY <1>1, StaleInit, StaleStep, PTL DEF Spec

----------------------------------------------------------------------------
(* Nothing is held against Dependabot before the verdict, and what was read  *)
(* of the commit its branch started from does run there.                     *)
UnsatIssue(n) == <<"unsatisfiable", n>> \in issues

BaseRead ==
    /\ pc # "done" => \A n \in Names : ~UnsatIssue(n)
    /\ pc = "base statuses" => seen.prBase \subseteq Fires(trees[seen.base])

UnsatInv == CIInv /\ BaseRead /\ NoFalseUnsatisfiable

LEMMA UnsatQuiet ==
    ASSUME CIInv', \A n \in Names : ~UnsatIssue(n)', pc' # "base statuses"
    PROVE  UnsatInv'
BY DEF UnsatInv, BaseRead, NoFalseUnsatisfiable, UnsatIssue

Plain == {<<"absent">>, <<"unparsable">>, <<"trigger">>, <<"settings">>, <<"codeql">>}

LEMMA PlainIssues == \A n : <<"unsatisfiable", n>> \notin Plain
<1>1. \A i \in Plain : i[1] \in {"absent", "unparsable", "trigger", "settings", "codeql"}
  BY DEF Plain
<1>2. \A n : <<"unsatisfiable", n>>[1] = "unsatisfiable"
  OBVIOUS
<1> QED
  BY <1>1, <1>2

(* The requests that are not about the base.                                 *)
LEMMA UnsatOther ==
    ASSUME UnsatInv, CIInv', OnHead \/ OnParent \/ CodeQL \/ Circle \/ Settings \/ Infra
              \/ \E c \in Conventions : CodeQLLanguages(c)
    PROVE  UnsatInv'
<1>1. \A n \in Names : ~UnsatIssue(n)
  <2>1. pc # "done"
    BY DEF Circle, CircleConfig, CircleRequired, CircleSuggest, Settings, HasCodeQLFile,
       SettingsFile, SettingsRequired, Infra, InfraRequired, InfraLanguages, OnHead,
       CoherentRequired, HeadStatuses, HeadRuns, OnParent, Parents, ParentStatuses, ParentRuns,
       CodeQL, CoherentLanguages, CoherentWorkflow, CodeQLLanguages, At
  <2> QED
    BY <2>1 DEF UnsatInv, BaseRead
<1>2. ASSUME NEW k \in {"missing", "uncovered", "infra", "stale", "mismatch"}
      PROVE  \A S, n : <<"unsatisfiable", n>> \notin Found(k, S)
  BY DEF Found
<1>3. CASE Circle
  <2>1. issues' = issues \/ \E S : issues' = Found("missing", S)
    BY <1>3 DEF Circle, CircleConfig, CircleRequired, CircleSuggest, Err, Silent
  <2>2. pc' # "base statuses"
    BY <1>3 DEF Circle, CircleConfig, CircleRequired, CircleSuggest, Err, Return, Continue
  <2> QED
    BY <1>1, <1>2, <2>1, <2>2, UnsatQuiet DEF UnsatIssue
<1>4. CASE Settings \/ \E c \in Conventions : CodeQLLanguages(c)
  <2>1. \A n \in Names : ~UnsatIssue(n)'
    <3>1. CASE SettingsRequired
      <4>1. issues' = issues \/ \E S : issues' = issues \cup Found("uncovered", S)
        BY <3>1 DEF SettingsRequired, Judge
      <4> QED
        BY <1>1, <1>2, <4>1 DEF UnsatIssue
    <3>2. CASE HasCodeQLFile
      <4>1. issues' \subseteq issues \cup Plain
        BY <3>2 DEF HasCodeQLFile, Err, Silent, Judge, Plain
      <4> QED
        BY <1>1, <4>1, PlainIssues DEF UnsatIssue
    <3>3. CASE SettingsFile
      <4> DEFINE A == IF trees[HEAD].onPR THEN {} ELSE {<<"trigger">>}
                 B == IF trees[HEAD].settings THEN {} ELSE {<<"settings">>}
                 C == IF trees[HEAD].codeql = "broken" THEN {<<"unparsable">>} ELSE {}
      <4>1. issues' = issues \/ issues' = C \/ issues' = A \cup B
        BY <3>3, Zenon DEF SettingsFile, Err, Silent, Judge
      <4>2. A \cup B \cup C \subseteq Plain
        BY DEF Plain
      <4> HIDE DEF A, B, C
      <4> QED
        BY <1>1, <4>1, <4>2, PlainIssues DEF UnsatIssue
    <3>4. CASE \E c \in Conventions : CodeQLLanguages(c)
      BY <1>1, <3>4 DEF CodeQLLanguages, Err, Silent, UnsatIssue
    <3> QED
      BY <1>4, <3>1, <3>2, <3>3, <3>4 DEF Settings
  <2>2. pc' # "base statuses"
    BY <1>4 DEF Settings, HasCodeQLFile, SettingsFile, SettingsRequired, CodeQLLanguages,
       Err, Judge, Return, Continue
  <2> QED
    BY <2>1, <2>2, UnsatQuiet
<1>5. CASE Infra
  <2>1. issues' = issues \/ issues' = {} \/ \E S : issues' = Found("infra", S)
    BY <1>5 DEF Infra, InfraRequired, InfraLanguages, Err, Silent, Judge
  <2>2. pc' # "base statuses"
    BY <1>5 DEF Infra, InfraRequired, InfraLanguages, Err, Judge, Return, Continue
  <2> QED
    BY <1>1, <1>2, <2>1, <2>2, UnsatQuiet DEF UnsatIssue
<1>6. CASE OnHead \/ OnParent
  <2>1. issues' = issues \/ \E S : issues' = issues \cup Found("stale", S)
    BY <1>6 DEF OnHead, CoherentRequired, HeadStatuses, HeadRuns, OnParent, Parents,
       ParentStatuses, ParentRuns, FlagStale, Err, Silent
  <2>2. pc' # "base statuses"
    BY <1>6 DEF OnHead, CoherentRequired, HeadStatuses, HeadRuns, OnParent, Parents,
       ParentStatuses, ParentRuns, FlagStale, Err, Return, Continue
  <2> QED
    BY <1>1, <1>2, <2>1, <2>2, UnsatQuiet DEF UnsatIssue
<1>7. CASE CodeQL
  <2>1. \A n \in Names : ~UnsatIssue(n)'
    <3>1. CASE CoherentLanguages
      <4>1. issues' \subseteq issues \cup Plain
        BY <3>1 DEF CoherentLanguages, Err, Silent, Plain
      <4> QED
        BY <1>1, <4>1, PlainIssues DEF UnsatIssue
    <3>2. CASE CoherentWorkflow
      <4>1. issues' = issues \/ \E S : issues' = issues \cup Found("mismatch", S)
        BY <3>2 DEF CoherentWorkflow
      <4> QED
        BY <1>1, <1>2, <4>1 DEF UnsatIssue
    <3> QED
      BY <1>7, <3>1, <3>2 DEF CodeQL
  <2>2. pc' # "base statuses"
    BY <1>7 DEF CodeQL, CoherentLanguages, CoherentWorkflow, Err, Return, Continue
  <2> QED
    BY <2>1, <2>2, UnsatQuiet
<1> QED
  BY <1>3, <1>4, <1>5, <1>6, <1>7

LEMMA UnsatOnPulls ==
    ASSUME UnsatInv, CIInv', OnPulls
    PROVE  UnsatInv'
<1>0. TypeOK /\ HEAD \in Nat
  BY HeadExists DEF UnsatInv, CIInv
<1>1. \A n \in Names : ~UnsatIssue(n)
  <2>1. pc # "done"
    BY DEF OnPulls, DependabotFile, ListPulls, ListFails, PickPull, BaseRuns, BaseStatuses, At
  <2> QED
    BY <2>1 DEF UnsatInv, BaseRead
<1>2. CASE DependabotFile \/ ListPulls \/ ListFails \/ PickPull
  <2>1. issues' = issues /\ pc' # "base statuses"
    BY <1>2 DEF DependabotFile, ListPulls, ListFails, PickPull, NextListing, Judge, Err, Silent,
       Return, Continue
  <2> QED
    BY <1>1, <2>1, UnsatQuiet DEF UnsatIssue
<1>3. ASSUME pc \in {"base runs", "base statuses"}
      PROVE  reported[seen.base] \subseteq Fires(trees[seen.base])
  <2>1. seen.base \in 0..HEAD /\ seen.base # 0
    BY <1>0, <1>3 DEF TypeOK
  <2>2. seen.base \in 1..HEAD
    BY <1>0, <2>1, Positive
  <2> QED
    BY <2>2 DEF UnsatInv, CIInv, CIRight
<1>4. CASE BaseRuns
  <2>1. UNCHANGED <<trees, issues>>
    BY <1>4 DEF BaseRuns, At, Err, Silent, github
  <2>2. pc' = "base statuses" => seen'.prBase \subseteq Fires(trees[seen.base])
    <3>1. reported[seen.base] \subseteq Fires(trees[seen.base])
      BY <1>3, <1>4 DEF BaseRuns, At
    <3>2. pc' = "base statuses" => seen' = [seen EXCEPT !.prBase = reported[seen.base] \cap Runs]
      BY <1>4 DEF BaseRuns, Err, Return
    <3>3. seen' = [seen EXCEPT !.prBase = reported[seen.base] \cap Runs]
          => seen'.prBase = reported[seen.base] \cap Runs
      BY <1>0 DEF TypeOK
    <3> QED
      BY <3>1, <3>2, <3>3
  <2>3. seen'.base = seen.base
    BY <1>0, <1>4 DEF BaseRuns, Err, TypeOK
  <2> QED
    BY <1>1, <2>1, <2>2, <2>3 DEF UnsatInv, BaseRead, NoFalseUnsatisfiable, UnsatIssue
<1>5. CASE BaseStatuses
  <2>1. UNCHANGED trees /\ pc' = "done"
    BY <1>5 DEF BaseStatuses, At, Err, Judge, Return, github
  <2>2. CASE Err
    BY <1>1, <2>1, <2>2, UnsatQuiet DEF Err, Silent, UnsatIssue
  <2>3. CASE seen' = [seen EXCEPT !.prBase = @ \cup (reported[seen.base] \ Runs)]
             /\ issues' = issues \cup Found("unsatisfiable",
                              Unsatisfiable(seen.required, seen.prHead, seen'.prBase))
    <3>1. /\ seen'.base = seen.base /\ seen'.prHead = seen.prHead
          /\ seen'.prBase = seen.prBase \cup (reported[seen.base] \ Runs)
      BY <1>0, <2>3 DEF TypeOK
    <3>2. seen'.prBase \subseteq Fires(trees[seen.base])
      BY <1>3, <1>5, <3>1 DEF UnsatInv, BaseRead, BaseStatuses, At
    <3>3. ASSUME NEW n \in Names, UnsatIssue(n)'
          PROVE  n \in Fires(trees[seen.base]) /\ n \notin seen.prHead
      BY <1>1, <2>3, <3>2, <3>3 DEF Unsatisfiable, Found, UnsatIssue
    <3>4. NoFalseUnsatisfiable'
      BY <2>1, <3>1, <3>3 DEF NoFalseUnsatisfiable, UnsatIssue
    <3> QED
      BY <2>1, <3>4 DEF UnsatInv, BaseRead
  <2> QED
    BY <1>5, <2>2, <2>3 DEF BaseStatuses, Judge
<1> QED
  BY <1>2, <1>4, <1>5 DEF OnPulls

LEMMA UnsatStep == UnsatInv /\ [Next]_vars => UnsatInv'
<1> SUFFICES ASSUME UnsatInv, [Next]_vars PROVE UnsatInv'
  OBVIOUS
<1>0. TypeOK /\ CIInv' /\ HEAD \in Nat
  BY CIStep, HeadExists DEF UnsatInv, CIInv
<1>1. CASE (\E t \in Trees : Push(t)) \/ \E c \in DOMAIN trees, n \in Names : Report(c, n)
  <2>1. UNCHANGED check /\ pc # "done"
    BY <1>1 DEF Push, Report, MainMoves
  <2>2. \A n \in Names : ~UnsatIssue(n)'
    BY <2>1 DEF UnsatInv, BaseRead, UnsatIssue, check
  <2>3. ASSUME pc = "base statuses"
        PROVE  trees'[seen.base] = trees[seen.base]
    <3>1. seen.base \in 0..HEAD /\ seen.base # 0
      BY <1>0, <2>3 DEF TypeOK
    <3>2. seen.base \in 1..HEAD
      BY <1>0, <3>1, Positive
    <3> QED
      BY <1>0, <1>1, <3>2, PushKeeps DEF Report
  <2>4. BaseRead'
    BY <2>1, <2>2, <2>3 DEF UnsatInv, BaseRead, check
  <2> QED
    BY <1>0, <2>2, <2>4 DEF UnsatInv, NoFalseUnsatisfiable, UnsatIssue
<1>2. CASE UNCHANGED vars
  BY <1>0, <1>2 DEF vars, github, check, UnsatInv, BaseRead, NoFalseUnsatisfiable, UnsatIssue
<1>3. ASSUME NEW c \in Conventions, Start(c) PROVE UnsatInv'
  <2>1. issues' = {} /\ pc' # "base statuses"
    BY <1>3 DEF Start, FirstRequest, Conventions
  <2> QED
    BY <1>0, <2>1, UnsatQuiet DEF UnsatIssue
<1> QED
  BY <1>0, <1>1, <1>2, <1>3, UnsatOther, UnsatOnPulls DEF Next

LEMMA UnsatInit == Init => UnsatInv
BY CIInit DEF Init, UnsatInv, BaseRead, NoFalseUnsatisfiable, UnsatIssue

(* A required check that is held against Dependabot's pull requests does run *)
(* on the commit of main they start from, and not on theirs, unless CI was   *)
(* still at work there (required-status-checks-coherent.go, 216 to 241).     *)
THEOREM UnsatisfiableIsTrue == Spec => []NoFalseUnsatisfiable
<1>1. UnsatInv => NoFalseUnsatisfiable
  BY DEF UnsatInv
<1> QED
  BY <1>1, UnsatInit, UnsatStep, PTL DEF Spec

----------------------------------------------------------------------------
(* What the branch protection should require is what runs for main: all five *)
(* conventions accept it, for any jobs, filters and languages.               *)
LEMMA FiresSatisfies ==
    ASSUME NEW t \in Trees, t.onPR, t.explicit # {},
           JobsOn(t, Main) \subseteq JobsOn(t, PRBranch)
    PROVE  Satisfies(t, Fires(t))
<1>1. t.explicit \subseteq Langs /\ JobsOn(t, Main) \subseteq Jobs
  BY TreeTypes DEF Branches
<1>2. MissingJobs(JobsOn(t, Main), Fires(t)) = {}
  <2>1. ASSUME NEW j \in JobsOn(t, Main)
        PROVE  {j, Bare[j]} \cap {Trim[n] : n \in Fires(t)} # {}
    <3>1. Context[j] \in Fires(t)
      BY DEF Fires
    <3>2. Trim[Context[j]] \in {j, Bare[j]}
      BY <1>1, NamesAssumption
    <3> QED
      BY <3>1, <3>2
  <2> QED
    BY <2>1 DEF MissingJobs
<1>3. Analyzed(Fires(t)) = {Analyze[l] : l \in t.explicit}
  <2>1. \A j \in JobsOn(t, Main) : Context[j] \notin Runs
    BY <1>1, NamesAssumption
  <2>2. \A l \in t.explicit : Analyze[l] \in Runs
    BY <1>1 DEF Runs
  <2> QED
    BY <2>1, <2>2 DEF Analyzed, Fires
<1>4. Analyzed(Fires(t)) # {} /\ Uncovered(Fires(t), t.explicit) = {}
  BY <1>3 DEF Uncovered
<1>5. Mismatched(Fires(t), t.explicit) = {} /\ Stale(Fires(t), Fires(t), {}) = {}
  BY <1>4 DEF Mismatched, Stale, MissingOnHead
<1>6. Fires(t) \subseteq PRFires(t)
  BY DEF Fires, PRFires
<1>7. Unsatisfiable(Fires(t), PRFires(t), Fires(t)) = {}
  BY <1>6 DEF Unsatisfiable
<1> QED
  BY <1>2, <1>4, <1>5, <1>7 DEF Satisfies

(* The conventions never contradict each other, at whatever commit.          *)
THEOREM ConventionsAgree == Spec => []Fixable
<1>1. TypeOK => Fixable
  <2> SUFFICES ASSUME TypeOK PROVE Fixable
    OBVIOUS
  <2>1. trees[HEAD] \in Trees
    BY HeadExists, HeadTypes
  <2>2. Fires(trees[HEAD]) \in SUBSET Names
    BY <2>1, TreeTypes
  <2> QED
    BY <2>1, <2>2, FiresSatisfies DEF Fixable
<1> QED
  BY <1>1, ChecksTyped, PTL

----------------------------------------------------------------------------
(* A check under way has given no verdict.                                   *)
Undecided == pc # "done" => verdict = "none"

LEMMA UndecidedStep ==
    ASSUME Undecided, [Next]_vars
    PROVE  Undecided'
<1>1. CASE \/ \E t \in Trees : Push(t)
           \/ \E c \in DOMAIN trees, n \in Names : Report(c, n)
           \/ UNCHANGED vars
  BY <1>1 DEF Push, Report, vars, check, Undecided
<1>2. CASE \E c \in Conventions : Start(c)
  BY <1>2 DEF Start, Undecided
<1>3. CASE Circle \/ Infra \/ Settings \/ \E c \in Conventions : CodeQLLanguages(c)
  <2>1. pc # "done" /\ (pc' = "done" \/ verdict' = verdict)
    BY <1>3 DEF Circle, CircleConfig, CircleRequired, CircleSuggest, Infra, InfraRequired,
       InfraLanguages, Settings, HasCodeQLFile, SettingsFile, SettingsRequired, CodeQLLanguages,
       At, Err, Judge, Return, Continue
  <2> QED
    BY <2>1 DEF Undecided
<1>4. CASE OnHead \/ OnParent \/ CodeQL
  <2>1. pc # "done" /\ (pc' = "done" \/ verdict' = verdict)
    BY <1>4 DEF OnHead, CoherentRequired, HeadStatuses, HeadRuns, OnParent, Parents,
       ParentStatuses, ParentRuns, FlagStale, CodeQL, CoherentLanguages, CoherentWorkflow,
       At, Err, Return, Continue
  <2> QED
    BY <2>1 DEF Undecided
<1>5. CASE OnPulls
  <2>1. pc # "done" /\ (pc' = "done" \/ verdict' = verdict)
    BY <1>5 DEF OnPulls, DependabotFile, ListPulls, ListFails, PickPull, BaseRuns, BaseStatuses,
       NextListing, At, Err, Judge, Return, Continue
  <2> QED
    BY <2>1 DEF Undecided
<1> QED
  BY <1>1, <1>2, <1>3, <1>4, <1>5 DEF Next

----------------------------------------------------------------------------
(* What circleci-jobs suggests.                                              *)

(* What HEAD reports besides CodeQL's checks are jobs of CircleCI.           *)
LEMMA ReportedJobs ==
    ASSUME CIInv, NEW n \in reported[HEAD] \ Runs
    PROVE  \E k \in Jobs : n = Context[k]
<1>1. HEAD \in 1..HEAD
  BY HeadExists DEF CIInv
<1>2. n \in Fires(trees[HEAD]) /\ trees[HEAD] \in Trees
  BY <1>1, HeadTypes DEF CIInv, CIRight
<1>3. JobsOn(trees[HEAD], Main) \subseteq Jobs /\ trees[HEAD].explicit \subseteq Langs
  BY <1>2, TreeTypes DEF Branches
<1> QED
  BY <1>2, <1>3 DEF Fires, Runs

(* No two jobs are taken for each other.                                     *)
Distinct == \A j, k \in Jobs : Bare[j] = Bare[k] => Trim[Context[j]] \in {k, Bare[k]}

(* A name under which CircleCI reports, found by a job's name or the last    *)
(* segment of it, stands for that job.                                       *)
LEMMA FoundStands ==
    ASSUME Distinct, NEW j \in Jobs, NEW k \in Jobs, NEW key \in {j, Bare[j]},
           key \in {Trim[Context[k]], Bare[Trim[Context[k]]]}
    PROVE  Trim[Context[k]] \in {j, Bare[j]}
<1>1. /\ j \in Names /\ k \in Names
      /\ Bare[Bare[j]] = Bare[j] /\ Bare[Bare[k]] = Bare[k]
      /\ Trim[Context[k]] \in {k, Bare[k]}
  BY NamesAssumption
<1>2. Bare[Trim[Context[k]]] = Bare[k]
  BY <1>1
<1>3. CASE key = Trim[Context[k]]
  BY <1>3
<1>4. CASE key = Bare[k]
  <2>1. Bare[j] = Bare[k]
    BY <1>1, <1>4
  <2> QED
    BY <2>1 DEF Distinct
<1> QED
  BY <1>2, <1>3, <1>4

(* A suggestion stands for its job, and is a name that is reported if the    *)
(* job itself is.                                                            *)
LEMMA SuggestionStands ==
    ASSUME CIInv, Distinct, NEW j \in Jobs,
           NEW n \in Suggestions(j, reported[HEAD] \ Runs)
    PROVE  /\ Trim[n] \in {j, Bare[j]}
           /\ Context[j] \in reported[HEAD] \ Runs => n \in reported[HEAD] \ Runs
<1> DEFINE contexts == reported[HEAD] \ Runs
           For(key) == {m \in contexts : key \in {Trim[m], Bare[Trim[m]]}}
<1>1. \/ n \in For(j) \/ n \in For(Bare[j])
      \/ n = j /\ For(j) = {} /\ For(Bare[j]) = {}
  BY DEF Suggestions
<1>2. ASSUME NEW key \in {j, Bare[j]}, n \in For(key)
      PROVE  Trim[n] \in {j, Bare[j]} /\ n \in contexts
  <2>1. PICK k \in Jobs : n = Context[k]
    BY <1>2, ReportedJobs
  <2> QED
    BY <1>2, <2>1, FoundStands
<1>3. ASSUME n = j, For(j) = {}, For(Bare[j]) = {}
      PROVE  Trim[n] \in {j, Bare[j]} /\ Context[j] \notin contexts
  <2>1. Trim[j] = j /\ Trim[Context[j]] \in {j, Bare[j]}
    BY NamesAssumption
  <2>2. ~(Context[j] \in contexts)
    BY <1>3, <2>1
  <2> QED
    BY <1>3, <2>1, <2>2
<1> QED
  BY <1>1, <1>2, <1>3

SuggestInv == CIInv /\ Undecided /\ SuggestionsWork

LEMMA SuggestStep == SuggestInv /\ [Next]_vars => SuggestInv'
<1> SUFFICES ASSUME SuggestInv, [Next]_vars PROVE SuggestInv'
  OBVIOUS
<1>0. CIInv' /\ Undecided' /\ TypeOK
  BY CIStep, UndecidedStep DEF SuggestInv, CIInv
<1>1. CASE CircleSuggest
  <2> SUFFICES ASSUME "statuses" \notin failed', Distinct
               PROVE  /\ MissingJobs(seen'.jobs, seen'.required \cup seen'.suggested) = {}
                      /\ \A j \in MissingJobs(seen'.jobs, seen'.required) :
                            Context[j] \in seen'.head
                              => MissingJobs({j}, seen'.suggested \cap seen'.head) = {}
    BY <1>0 DEF SuggestInv, SuggestionsWork, Distinct
  <2> DEFINE missing == MissingJobs(seen.jobs, seen.required)
             contexts == reported[HEAD] \ Runs
  <2>1. PICK f \in [missing -> Names] :
           /\ \A j \in missing : f[j] \in Suggestions(j, contexts)
           /\ seen' = [seen EXCEPT !.head = contexts, !.suggested = {f[j] : j \in missing}]
    BY <1>1 DEF CircleSuggest, At, Failed
  <2>2. /\ seen'.jobs = seen.jobs /\ seen'.required = seen.required
        /\ seen'.head = contexts /\ seen'.suggested = {f[j] : j \in missing}
    BY <1>0, <2>1 DEF TypeOK
  <2>3. missing \subseteq Jobs
    BY <1>0 DEF MissingJobs, TypeOK
  <2>4. ASSUME NEW j \in missing
        PROVE  /\ Trim[f[j]] \in {j, Bare[j]}
               /\ Context[j] \in contexts => f[j] \in contexts
    BY <2>1, <2>3, SuggestionStands DEF SuggestInv
  <2> HIDE DEF contexts
  <2>5. MissingJobs(seen.jobs, seen.required \cup {f[j] : j \in missing}) = {}
    <3> SUFFICES ASSUME NEW j \in seen.jobs
                 PROVE  \E n \in seen.required \cup {f[i] : i \in missing} :
                            Trim[n] \in {j, Bare[j]}
      BY DEF MissingJobs
    <3>1. CASE j \in missing
      BY <2>4, <3>1
    <3>2. CASE j \notin missing
      BY <3>2 DEF MissingJobs
    <3> QED
      BY <3>1, <3>2
  <2>6. ASSUME NEW j \in missing, Context[j] \in contexts
        PROVE  MissingJobs({j}, {f[i] : i \in missing} \cap contexts) = {}
    <3>1. f[j] \in {f[i] : i \in missing} \cap contexts /\ Trim[f[j]] \in {j, Bare[j]}
      BY <2>4, <2>6
    <3> QED
      BY <3>1 DEF MissingJobs
  <2> QED
    BY <2>2, <2>5, <2>6
<1>2. CASE UNCHANGED check
  BY <1>0, <1>2 DEF check, SuggestInv, SuggestionsWork
<1>3. CASE verdict' # "fail" \/ conv' # "circleci-jobs"
  BY <1>0, <1>3 DEF SuggestInv, SuggestionsWork
<1>4. CASE \/ \E t \in Trees : Push(t)
           \/ \E c \in DOMAIN trees, n \in Names : Report(c, n)
           \/ UNCHANGED vars
  BY <1>2, <1>4 DEF Push, Report, vars
<1>5. CASE \E c \in Conventions : Start(c)
  BY <1>3, <1>5 DEF Start
<1>6. CASE CircleConfig \/ CircleRequired
  <2>1. verdict' # "fail"
    BY <1>6 DEF CircleConfig, CircleRequired, At, Err, Return, Continue, SuggestInv, Undecided
  <2> QED
    BY <1>3, <2>1
<1>7. CASE Infra \/ Settings \/ \E c \in Conventions : CodeQLLanguages(c)
  BY <1>3, <1>7 DEF Infra, InfraRequired, InfraLanguages, Settings, HasCodeQLFile, SettingsFile,
     SettingsRequired, CodeQLLanguages, At
<1>8. CASE OnHead \/ OnParent \/ CodeQL
  BY <1>3, <1>8 DEF OnHead, CoherentRequired, HeadStatuses, HeadRuns, OnParent, Parents,
       ParentStatuses, ParentRuns, CodeQL, CoherentLanguages, CoherentWorkflow, At
<1>9. CASE OnPulls
  BY <1>3, <1>9 DEF OnPulls, DependabotFile, ListPulls, ListFails, PickPull, BaseRuns,
     BaseStatuses, At
<1> QED
  BY <1>1, <1>4, <1>5, <1>6, <1>7, <1>8, <1>9 DEF Next, Circle

(* Following a suggestion of circleci-jobs mends what it objected to, with a *)
(* name that CircleCI does report if it has reported the job, whatever the   *)
(* format of its names and whatever has changed on main since                *)
(* (circleci-jobs-in-required-checks.go, resolveCheckNames).                 *)
THEOREM SuggestionsMend == Spec => []SuggestionsWork
<1>1. Init => SuggestInv
  BY CIInit DEF Init, SuggestInv, Undecided, SuggestionsWork
<1>2. SuggestInv => SuggestionsWork
  BY DEF SuggestInv
<1> QED
  BY <1>1, <1>2, SuggestStep, PTL DEF Spec

----------------------------------------------------------------------------
(* What coherent passes.  It reads of commits that are recent while it runs, *)
(* and each of its steps, once taken without an objection, establishes its   *)
(* part of PassEarned for the steps that follow.                             *)
AfterWorkflow  == {"dependabot", "closed pulls", "closed pull", "open pulls", "open pull",
                   "base runs", "base statuses"}
AfterLanguages == {"workflow"} \cup AfterWorkflow
AfterHead      == {"languages"} \cup AfterLanguages

RecentRead ==
    /\ seen.head \subseteq Recent /\ seen.before \subseteq Recent
    /\ pc \in {"parent statuses", "parent runs"} => seen.parent >= since - 1

EarnedSoFar ==
    conv = "coherent" /\ issues = {} =>
        /\ pc \in AfterHead => RequiredRan
        /\ pc \in AfterLanguages => CodeQLRequired
        /\ pc \in AfterWorkflow => MatrixCovers
        /\ pc \in {"base runs", "base statuses"} => seen.prHead # {}

PassInv == CIInv /\ Undecided /\ RecentRead /\ EarnedSoFar /\ PassEarned

(* What CI has reported on a commit that was at the head while the check ran *)
(* or just before runs on a recent commit.                                   *)
LEMMA CommitRecent ==
    ASSUME CIInv, NEW c \in 1..HEAD, c >= since - 1
    PROVE  reported[c] \subseteq Recent
<1>1. reported[c] \subseteq Fires(trees[c])
  BY DEF CIInv, CIRight
<1> QED
  BY <1>1 DEF Recent

LEMMA HeadRecent ==
    ASSUME CIInv
    PROVE  /\ HEAD \in since..HEAD /\ HEAD \in 1..HEAD
           /\ reported[HEAD] \subseteq Recent
<1>1. HEAD \in 1..HEAD /\ HEAD \in Nat /\ since \in 1..HEAD
  BY HeadExists DEF CIInv, TypeOK
<1>2. HEAD >= since - 1 /\ HEAD \in since..HEAD
  BY <1>1
<1> QED
  BY <1>1, <1>2, CommitRecent

(* A commit that is pushed, or a report of CI, takes nothing away.           *)
LEMMA PassMoves ==
    ASSUME PassInv, CIInv', Undecided',
           (\E t \in Trees : Push(t)) \/ (\E c \in DOMAIN trees, n \in Names : Report(c, n))
    PROVE  PassInv'
<1>0. TypeOK /\ HEAD \in Nat /\ since \in 1..HEAD
  BY HeadExists DEF PassInv, CIInv, TypeOK
<1>1. UNCHANGED check /\ pc # "done"
  BY DEF Push, Report, MainMoves
<1>2. HEAD' \in Nat /\ HEAD <= HEAD' /\ \A c \in 1..HEAD : trees'[c] = trees[c]
  <2>1. CASE \E t \in Trees : Push(t)
    BY <1>0, <2>1, PushKeeps
  <2>2. CASE \E c \in DOMAIN trees, n \in Names : Report(c, n)
    BY <1>0, <2>2 DEF Report, HEAD
  <2> QED
    BY <2>1, <2>2
<1>3. Recent \subseteq Recent'
  BY <1>0, <1>1, <1>2 DEF Recent, Fires, JobsOn, RunsOnBranch, check
<1>4. RecentRead'
  BY <1>1, <1>3 DEF PassInv, RecentRead, check
<1>5. RequiredRan => RequiredRan'
  BY <1>1, <1>3 DEF RequiredRan, check
<1>6. MatrixCovers => MatrixCovers'
  <2>1. \A c \in since..HEAD : c \in since..HEAD' /\ trees'[c] = trees[c]
    BY <1>0, <1>2
  <2> QED
    BY <1>1, <2>1 DEF MatrixCovers, check
<1>7. EarnedSoFar'
  BY <1>1, <1>5, <1>6 DEF PassInv, EarnedSoFar, CodeQLRequired, check
<1>8. PassEarned'
  BY <1>1 DEF PassInv, Undecided, PassEarned, check
<1> QED
  BY <1>4, <1>7, <1>8 DEF PassInv

(* A request that ends the check with an error leaves what was read.         *)
LEMMA PassErr ==
    ASSUME PassInv, CIInv', Undecided', Err, UNCHANGED <<github, conv, since>>
    PROVE  PassInv'
<1>1. /\ UNCHANGED <<trees, since, seen, conv>> /\ HEAD' = HEAD
      /\ pc' = "done" /\ verdict' = "error"
  BY DEF Err, Return, github, HEAD
<1>2. RecentRead'
  BY <1>1 DEF PassInv, RecentRead, Recent
<1>3. EarnedSoFar' /\ PassEarned'
  BY <1>1 DEF EarnedSoFar, PassEarned, AfterHead, AfterLanguages, AfterWorkflow
<1> QED
  BY <1>2, <1>3 DEF PassInv

(* The other conventions.                                                    *)
LEMMA PassElsewhere ==
    ASSUME PassInv, CIInv', Undecided',
           Circle \/ Settings \/ Infra \/ \E c \in Conventions : CodeQLLanguages(c)
    PROVE  PassInv'
<1>0. TypeOK
  BY DEF PassInv, CIInv
<1>1. /\ UNCHANGED <<trees, since>> /\ conv' # "coherent"
      /\ pc' \notin {"parent statuses", "parent runs"}
  BY DEF Circle, CircleConfig, CircleRequired, CircleSuggest, Infra, InfraRequired,
       InfraLanguages, Settings, HasCodeQLFile, SettingsFile, SettingsRequired, CodeQLLanguages,
       At, Err, Judge, Return, Continue, github
<1>2. seen'.head \subseteq Recent /\ seen'.before \subseteq Recent
  <2>1. CASE CircleSuggest
    <3>1. seen'.head \in {seen.head, reported[HEAD] \ Runs} /\ seen'.before = seen.before
      BY <1>0, <2>1 DEF CircleSuggest, TypeOK
    <3> QED
      BY <3>1, HeadRecent DEF PassInv, RecentRead
  <2>2. CASE \/ CircleConfig \/ CircleRequired \/ Infra \/ Settings
             \/ \E c \in Conventions : CodeQLLanguages(c)
    <3>1. seen'.head = seen.head /\ seen'.before = seen.before
      BY <1>0, <2>2 DEF CircleConfig, CircleRequired, Infra, InfraRequired,
         InfraLanguages, Settings, HasCodeQLFile, SettingsFile, SettingsRequired,
         CodeQLLanguages, Err, TypeOK
    <3> QED
      BY <3>1 DEF PassInv, RecentRead
  <2> QED
    BY <2>1, <2>2 DEF Circle
<1>3. Recent' = Recent
  BY <1>1 DEF Recent, HEAD
<1> QED
  BY <1>1, <1>2, <1>3 DEF PassInv, RecentRead, EarnedSoFar, PassEarned

(* What a request of coherent leaves alone.                                  *)
LEMMA PassFrame ==
    ASSUME UNCHANGED <<github, conv, since>>
    PROVE  /\ UNCHANGED <<trees, conv, since>> /\ HEAD' = HEAD /\ Recent' = Recent
BY DEF github, Recent, HEAD

LEMMA PassOnHead ==
    ASSUME PassInv, CIInv', Undecided', OnHead
    PROVE  PassInv'
<1>0. TypeOK /\ HEAD' = HEAD /\ UNCHANGED <<github, trees, conv, since>> /\ Recent' = Recent
  BY PassFrame DEF PassInv, CIInv, OnHead, CoherentRequired, HeadStatuses, HeadRuns, At
<1>1. CASE Err
  BY <1>0, <1>1, PassErr
<1>2. ASSUME CoherentRequired, NEW R \in RequiredSets, Silent,
             seen' = [seen EXCEPT !.required = R],
             IF R = {} THEN Return("pass") ELSE Continue("statuses")
      PROVE  PassInv'
  <2>1. seen'.head = seen.head /\ seen'.before = seen.before /\ seen'.required = R
    BY <1>0, <1>2 DEF TypeOK
  <2>2. pc' = "statuses" \/ (pc' = "done" /\ R = {})
    BY <1>2 DEF Return, Continue
  <2>3. RecentRead' /\ EarnedSoFar'
    BY <1>0, <2>1, <2>2 DEF PassInv, RecentRead, EarnedSoFar, AfterHead, AfterLanguages,
       AfterWorkflow
  <2>4. PassEarned'
    BY <1>2, <2>1, <2>2 DEF PassInv, Undecided, PassEarned
  <2> QED
    BY <2>3, <2>4 DEF PassInv
<1>3. ASSUME HeadStatuses, Continue("runs"), Silent,
             seen' = [seen EXCEPT !.head = reported[HEAD] \ Runs]
      PROVE  PassInv'
  <2>1. seen'.head \subseteq Recent /\ seen'.before = seen.before
    BY <1>0, <1>3, HeadRecent DEF PassInv, TypeOK
  <2>2. pc' = "runs" /\ verdict' = verdict /\ verdict = "none"
    BY <1>3 DEF Continue, HeadStatuses, At, PassInv, Undecided
  <2> QED
    BY <1>0, <2>1, <2>2 DEF PassInv, RecentRead, EarnedSoFar, PassEarned, AfterHead,
       AfterLanguages, AfterWorkflow
<1>4. ASSUME HeadRuns, Silent,
             seen' = [seen EXCEPT !.head = @ \cup (reported[HEAD] \cap Runs)],
             Continue(IF MissingOnHead(seen.required, seen'.head) = {}
                      THEN "languages" ELSE "parents")
      PROVE  PassInv'
  <2>1. /\ seen'.head \subseteq Recent /\ seen'.before = seen.before
        /\ seen'.required = seen.required
    BY <1>0, <1>4, HeadRecent DEF PassInv, RecentRead, TypeOK
  <2>2. verdict' = "none" /\ pc' \in {"languages", "parents"}
    BY <1>4 DEF Continue, HeadRuns, At, PassInv, Undecided
  <2>3. pc' = "languages" => RequiredRan'
    <3>1. pc' = "languages" => MissingOnHead(seen.required, seen'.head) = {}
      BY <1>4 DEF Continue
    <3> QED
      BY <1>0, <2>1, <3>1 DEF MissingOnHead, RequiredRan
  <2> QED
    BY <1>0, <2>1, <2>2, <2>3 DEF PassInv, RecentRead, EarnedSoFar, PassEarned, AfterHead,
       AfterLanguages, AfterWorkflow
<1> QED
  BY <1>1, <1>2, <1>3, <1>4 DEF OnHead, CoherentRequired, HeadStatuses, HeadRuns

LEMMA PassOnParent ==
    ASSUME PassInv, CIInv', Undecided', OnParent
    PROVE  PassInv'
<1>0. TypeOK /\ HEAD' = HEAD /\ UNCHANGED <<github, trees, conv, since>> /\ Recent' = Recent
  BY PassFrame DEF PassInv, CIInv, OnParent, Parents, ParentStatuses, ParentRuns, At
<1>1. verdict' = "none"
  BY DEF PassInv, Undecided, OnParent, Parents, ParentStatuses, ParentRuns, FlagStale, At,
     Continue
<1>2. ASSUME NEW before, FlagStale(before), before \subseteq Recent,
             seen'.before \subseteq Recent, seen'.head = seen.head, seen'.required = seen.required
      PROVE  PassInv'
  <2>1. pc' = "languages" /\ issues' = issues \cup Found("stale", Stale(seen.required, seen.head, before))
    BY <1>2 DEF FlagStale, Continue
  <2>2. issues' = {} => Stale(seen.required, seen.head, before) = {}
    BY <2>1 DEF Found
  <2>3. issues' = {} => RequiredRan'
    BY <1>0, <1>2, <2>2 DEF Stale, MissingOnHead, RequiredRan, PassInv, RecentRead
  <2> QED
    BY <1>0, <1>1, <1>2, <2>1, <2>3 DEF PassInv, RecentRead, EarnedSoFar, PassEarned, AfterHead,
       AfterLanguages, AfterWorkflow
<1>3. CASE Parents
  <2>1. CASE UNCHANGED seen /\ FlagStale({})
    BY <1>2, <2>1 DEF PassInv, RecentRead
  <2>2. CASE seen' = [seen EXCEPT !.parent = HEAD - 1] /\ Continue("parent statuses") /\ Silent
    <3>1. seen'.parent = HEAD - 1 /\ seen'.head = seen.head /\ seen'.before = seen.before
      BY <1>0, <2>2 DEF TypeOK
    <3>2. HEAD - 1 >= since - 1
      <4>1. HEAD \in Nat /\ since \in 1..HEAD
        BY <1>0, HeadExists DEF TypeOK
      <4> QED
        BY <4>1
    <3> QED
      BY <1>0, <1>1, <2>2, <3>1, <3>2 DEF Continue, PassInv, RecentRead, EarnedSoFar, PassEarned,
         AfterHead, AfterLanguages, AfterWorkflow
  <2> QED
    BY <1>3, <2>1, <2>2 DEF Parents
<1>4. ASSUME pc \in {"parent statuses", "parent runs"}
      PROVE  reported[seen.parent] \subseteq Recent
  <2>1. seen.parent \in 0..HEAD /\ seen.parent # 0 /\ HEAD \in Nat
    BY <1>0, <1>4, HeadExists DEF TypeOK
  <2>2. seen.parent \in 1..HEAD
    BY <2>1, Positive
  <2> QED
    BY <1>4, <2>2, CommitRecent DEF PassInv, RecentRead
<1>5. CASE ParentStatuses
  <2>1. pc' = "parent runs" /\ pc = "parent statuses"
    BY <1>5 DEF ParentStatuses, At, Continue
  <2>2. seen' = seen \/ seen' = [seen EXCEPT !.before = reported[seen.parent] \ Runs]
    BY <1>5 DEF ParentStatuses
  <2>3. /\ seen'.head = seen.head /\ seen'.parent = seen.parent
        /\ seen'.before = seen.before \/ seen'.before = reported[seen.parent] \ Runs
    BY <1>0, <2>2 DEF TypeOK
  <2>4. seen'.before \subseteq Recent
    BY <1>4, <2>1, <2>3 DEF PassInv, RecentRead
  <2> QED
    BY <1>0, <1>1, <2>1, <2>3, <2>4 DEF PassInv, RecentRead, EarnedSoFar, PassEarned, AfterHead,
       AfterLanguages, AfterWorkflow
<1>6. CASE ParentRuns
  <2>1. pc = "parent runs" /\ FlagStale(seen'.before)
    BY <1>6 DEF ParentRuns, At
  <2>2. seen' = seen \/ seen' = [seen EXCEPT !.before = @ \cup (reported[seen.parent] \cap Runs)]
    BY <1>6 DEF ParentRuns
  <2>3. /\ seen'.head = seen.head /\ seen'.required = seen.required
        /\ seen'.before \subseteq seen.before \cup reported[seen.parent]
    BY <1>0, <2>2 DEF TypeOK
  <2>4. seen'.before \subseteq Recent
    BY <1>4, <2>1, <2>3 DEF PassInv, RecentRead
  <2> QED
    BY <1>2, <2>1, <2>3, <2>4
<1> QED
  BY <1>3, <1>5, <1>6 DEF OnParent

LEMMA PassOnCodeQL ==
    ASSUME PassInv, CIInv', Undecided', CodeQL
    PROVE  PassInv'
<1>0. TypeOK /\ HEAD' = HEAD /\ UNCHANGED <<github, trees, conv, since>> /\ Recent' = Recent
  BY PassFrame DEF PassInv, CIInv, CodeQL, CoherentLanguages, CoherentWorkflow, At
<1>1. CASE Err
  BY <1>0, <1>1, PassErr
<1>2. ASSUME CoherentLanguages, NEW L \in BOOLEAN, UNCHANGED skipped,
             seen' = [seen EXCEPT !.codeQL = L],
             issues' = issues \cup (IF L /\ Analyzed(seen.required) = {}
                                    THEN {<<"codeql">>} ELSE {}),
             Continue(IF ~L THEN "dependabot" ELSE "workflow")
      PROVE  PassInv'
  <2>1. /\ seen'.head = seen.head /\ seen'.before = seen.before
        /\ seen'.required = seen.required /\ seen'.codeQL = L
        /\ verdict' = "none" /\ pc = "languages" /\ conv = "coherent"
        /\ pc' = (IF ~L THEN "dependabot" ELSE "workflow")
    BY <1>0, <1>2 DEF TypeOK, CoherentLanguages, At, Continue, PassInv, Undecided
  <2>2. issues' = {} => issues = {} /\ (L => Analyzed(seen.required) # {})
    BY <1>2
  <2>3. issues' = {} => RequiredRan'
    BY <1>0, <2>1, <2>2 DEF PassInv, EarnedSoFar, AfterHead, RequiredRan
  <2>4. issues' = {} => CodeQLRequired'
    BY <2>1, <2>2 DEF CodeQLRequired, Analyzed, Runs
  <2>5. pc' = "dependabot" => MatrixCovers'
    BY <2>1 DEF MatrixCovers
  <2> QED
    BY <1>0, <2>1, <2>3, <2>4, <2>5 DEF PassInv, RecentRead, EarnedSoFar, PassEarned,
       AfterLanguages, AfterWorkflow
<1>3. CASE CoherentWorkflow
  <2>1. /\ pc' = "dependabot" /\ verdict' = "none" /\ pc = "workflow" /\ conv = "coherent"
        /\ seen' = seen
    BY <1>3 DEF CoherentWorkflow, At, Continue, PassInv, Undecided
  <2>2. issues' = {} => issues = {}
    BY <1>3 DEF CoherentWorkflow
  <2>3. issues' = {} => MatrixCovers'
    <3>1. CASE skipped' = {"matrix"}
      BY <3>1 DEF MatrixCovers
    <3>2. CASE issues' = issues \cup Found("mismatch", Mismatched(seen.required, trees[HEAD].explicit))
      <4> SUFFICES ASSUME issues' = {} PROVE MatrixCovers'
        OBVIOUS
      <4>1. Mismatched(seen.required, trees[HEAD].explicit) = {}
        BY <3>2 DEF Found
      <4>2. HEAD \in since..HEAD /\ trees[HEAD].explicit \subseteq Langs
        BY HeadRecent, HeadTypes, TreeTypes, <1>0 DEF PassInv
      <4>3. CASE trees[HEAD].explicit = {}
        BY <1>0, <4>2, <4>3 DEF MatrixCovers
      <4>4. CASE trees[HEAD].explicit # {}
        <5>1. \A n \in Analyzed(seen.required) : \E m \in trees[HEAD].explicit : n = Analyze[m]
          BY <4>1, <4>4 DEF Mismatched, Uncovered
        <5>2. \A l \in Langs : Analyze[l] \in seen.required => l \in trees[HEAD].explicit
          BY <4>2, <5>1, NamesAssumption DEF Analyzed, Runs
        <5> QED
          BY <1>0, <2>1, <4>2, <5>2 DEF MatrixCovers
      <4> QED
        BY <4>3, <4>4
    <3> QED
      BY <1>3, <3>1, <3>2 DEF CoherentWorkflow
  <2>4. issues' = {} => RequiredRan' /\ CodeQLRequired'
    BY <1>0, <2>1, <2>2 DEF PassInv, EarnedSoFar, AfterHead, AfterLanguages, RequiredRan,
       CodeQLRequired
  <2> QED
    BY <1>0, <2>1, <2>3, <2>4 DEF PassInv, RecentRead, EarnedSoFar, PassEarned
<1> QED
  BY <1>1, <1>2, <1>3 DEF CodeQL, CoherentLanguages

LEMMA PassOnPulls ==
    ASSUME PassInv, CIInv', Undecided', OnPulls
    PROVE  PassInv'
<1>0. /\ TypeOK /\ HEAD' = HEAD /\ UNCHANGED <<github, trees, conv, since>> /\ Recent' = Recent
      /\ pc \in AfterWorkflow /\ conv = "coherent" /\ verdict = "none"
  BY PassFrame DEF PassInv, CIInv, OnPulls, DependabotFile, ListPulls, ListFails, PickPull,
     BaseRuns, BaseStatuses, At, AfterWorkflow, Undecided
<1>1. issues = {} => RequiredRan /\ CodeQLRequired /\ MatrixCovers
  BY <1>0 DEF PassInv, EarnedSoFar, AfterHead, AfterLanguages
(* The check goes on, with another request that touches none of its parts,   *)
<1>2. ASSUME Silent, verdict' = verdict, pc' \in AfterWorkflow,
             seen'.head = seen.head, seen'.before = seen.before,
             seen'.required = seen.required, seen'.codeQL = seen.codeQL,
             pc' \in {"base runs", "base statuses"} => seen'.prHead # {}
      PROVE  PassInv'
  <2>1. pc' \notin {"parent statuses", "parent runs"}
    BY <1>2 DEF AfterWorkflow
  <2>2. issues' = {} => RequiredRan' /\ CodeQLRequired' /\ MatrixCovers'
    BY <1>0, <1>1, <1>2 DEF Silent, RequiredRan, CodeQLRequired, MatrixCovers
  <2> QED
    BY <1>0, <1>2, <2>1, <2>2 DEF PassInv, RecentRead, EarnedSoFar, PassEarned
(* or it ends with a verdict.                                                *)
<1>3. ASSUME NEW found, NEW skips, issues \subseteq found, skipped \subseteq skips,
             Judge(found, skips),
             seen'.head = seen.head, seen'.before = seen.before,
             seen'.required = seen.required, seen'.codeQL = seen.codeQL,
             found = {} => PullsReport'
      PROVE  PassInv'
  <2>1. pc' = "done" /\ issues' = found /\ skipped' = skips /\ (verdict' = "pass" => found = {})
    BY <1>3 DEF Judge, Return
  <2>2. found = {} => RequiredRan' /\ CodeQLRequired' /\ MatrixCovers'
    BY <1>0, <1>1, <1>3, <2>1 DEF RequiredRan, CodeQLRequired, MatrixCovers
  <2> QED
    BY <1>0, <1>3, <2>1, <2>2 DEF PassInv, RecentRead, EarnedSoFar, PassEarned, AfterHead,
       AfterLanguages, AfterWorkflow
<1>4. CASE Err
  BY <1>0, <1>4, PassErr
<1>5. CASE NextListing
  <2>1. seen' = seen
    BY <1>5 DEF NextListing
  <2>2. CASE Silent /\ Continue("open pulls")
    BY <1>2, <2>1, <2>2 DEF Continue, AfterWorkflow
  <2>3. CASE Judge(issues, skipped \cup {"dependabot"})
    <3>1. PullsReport'
      BY <2>3 DEF Judge, PullsReport
    <3> QED
      BY <1>3, <2>1, <2>3, <3>1
  <2> QED
    BY <1>5, <2>2, <2>3 DEF NextListing
<1>6. CASE DependabotFile /\ ~Err
  <2>1. seen' = seen
    BY <1>6 DEF DependabotFile
  <2>2. CASE Silent /\ Continue("closed pulls")
    BY <1>2, <2>1, <2>2 DEF Continue, AfterWorkflow
  <2>3. CASE ~trees[HEAD].dependabot /\ Judge(issues, skipped)
    <3>1. PullsReport'
      BY <1>0, <2>3, HeadRecent DEF PullsReport, PassInv
    <3> QED
      BY <1>3, <2>1, <2>3, <3>1
  <2> QED
    BY <1>6, <2>2, <2>3 DEF DependabotFile
<1>7. CASE ListPulls
  <2>1. seen' = seen /\ Silent /\ verdict' = verdict /\ pc' \in {"closed pull", "open pull"}
    BY <1>7 DEF ListPulls, Continue
  <2> QED
    BY <1>2, <2>1 DEF AfterWorkflow
<1>8. ASSUME NEW b, NEW S, S # {}, Silent, Continue("base runs"),
             seen' = [seen EXCEPT !.base = b, !.prHead = S]
      PROVE  PassInv'
  <2>1. /\ seen'.head = seen.head /\ seen'.before = seen.before /\ seen'.required = seen.required
        /\ seen'.codeQL = seen.codeQL /\ seen'.prHead = S
    BY <1>0, <1>8 DEF TypeOK
  <2> QED
    BY <1>2, <1>8, <2>1 DEF Continue, AfterWorkflow
<1>9. CASE BaseRuns /\ ~Err
  <2>1. /\ seen' = [seen EXCEPT !.prBase = reported[seen.base] \cap Runs]
        /\ Silent /\ Continue("base statuses") /\ pc = "base runs"
    BY <1>9 DEF BaseRuns, At
  <2>2. /\ seen'.head = seen.head /\ seen'.before = seen.before /\ seen'.required = seen.required
        /\ seen'.codeQL = seen.codeQL /\ seen'.prHead = seen.prHead
    BY <1>0, <2>1 DEF TypeOK
  <2>3. issues = {} => seen'.prHead # {}
    BY <1>0, <2>1, <2>2 DEF PassInv, EarnedSoFar
  <2>4. CASE issues = {}
    BY <1>2, <2>1, <2>2, <2>3, <2>4 DEF Continue, AfterWorkflow
  <2>5. CASE issues # {}
    BY <1>0, <2>1, <2>2, <2>5 DEF Continue, Silent, PassInv, RecentRead, EarnedSoFar, PassEarned
  <2> QED
    BY <2>4, <2>5
<1>10. CASE BaseStatuses /\ ~Err
  <2> DEFINE found == issues \cup Found("unsatisfiable",
                         Unsatisfiable(seen.required, seen.prHead, seen'.prBase))
  <2>1. /\ seen' = [seen EXCEPT !.prBase = @ \cup (reported[seen.base] \ Runs)]
        /\ Judge(found, skipped) /\ pc = "base statuses"
    BY <1>10 DEF BaseStatuses, At
  <2>2. /\ seen'.head = seen.head /\ seen'.before = seen.before /\ seen'.required = seen.required
        /\ seen'.codeQL = seen.codeQL /\ seen'.prHead = seen.prHead
    BY <1>0, <2>1 DEF TypeOK
  <2>3. found = {} => PullsReport'
    <3>1. found = {} => /\ issues = {}
                        /\ Unsatisfiable(seen.required, seen.prHead, seen'.prBase) = {}
      BY DEF Found
    <3>2. issues = {} => seen.prHead # {}
      BY <1>0, <2>1 DEF PassInv, EarnedSoFar
    <3> QED
      BY <2>2, <3>1, <3>2 DEF Unsatisfiable, PullsReport
  <2> HIDE DEF found
  <2>4. issues \subseteq found
    BY DEF found
  <2> QED
    BY <1>3, <2>1, <2>2, <2>3, <2>4
<1>11. CASE ListFails
  BY <1>4, <1>5, <1>11 DEF ListFails
<1>12. CASE PickPull
  <2>1. \/ Err \/ NextListing
        \/ \E b \in DOMAIN trees : \E S \in (SUBSET PRFires(trees[b])) \ {{}} :
              /\ Silent /\ Continue("base runs")
              /\ seen' = [seen EXCEPT !.base = b, !.prHead = S]
    BY <1>12 DEF PickPull
  <2>2. ASSUME NEW b \in DOMAIN trees, NEW S \in (SUBSET PRFires(trees[b])) \ {{}},
               Silent, Continue("base runs"),
               seen' = [seen EXCEPT !.base = b, !.prHead = S]
        PROVE  PassInv'
    <3>1. S # {}
      BY Zenon
    <3> QED
      BY <1>8, <2>2, <3>1
  <2> QED
    BY <1>4, <1>5, <2>1, <2>2
<1> QED
  BY <1>4, <1>6, <1>7, <1>9, <1>10, <1>11, <1>12 DEF OnPulls

LEMMA PassStep == PassInv /\ [Next]_vars => PassInv'
<1> SUFFICES ASSUME PassInv, [Next]_vars PROVE PassInv'
  OBVIOUS
<1>0. CIInv' /\ Undecided'
  BY CIStep, UndecidedStep DEF PassInv
<1>1. ASSUME NEW c \in Conventions, Start(c) PROVE PassInv'
  <2>1. /\ seen'.head = {} /\ seen'.before = {} /\ verdict' = "none"
        /\ pc' \in {"config", "languages", "required"}
        /\ conv' = "coherent" => pc' = "required"
    BY <1>1 DEF Start, Unread, FirstRequest, Conventions
  <2> QED
    BY <1>0, <2>1 DEF PassInv, RecentRead, EarnedSoFar, PassEarned, AfterHead, AfterLanguages,
       AfterWorkflow
<1>2. CASE UNCHANGED vars
  BY <1>0, <1>2 DEF vars, github, check, PassInv, RecentRead, EarnedSoFar, PassEarned,
     RequiredRan, CodeQLRequired, MatrixCovers, PullsReport, Recent, HEAD
<1> QED
  BY <1>0, <1>1, <1>2, PassMoves, PassElsewhere, PassOnHead, PassOnParent, PassOnCodeQL,
     PassOnPulls DEF Next

(* A verdict "pass" of required-status-checks-coherent is earned: whatever   *)
(* was pushed between its requests, and whichever of them failed, each thing *)
(* it vouches for was so at some commit that was at the head of main then,   *)
(* or is named among what it did not look at                                 *)
(* (required-status-checks-coherent.go, lines 70 to 260).                    *)
THEOREM PassIsEarned == Spec => []PassEarned
<1>1. Init => PassInv
  <2> SUFFICES ASSUME Init PROVE RecentRead /\ EarnedSoFar /\ PassEarned /\ Undecided
    BY CIInit DEF PassInv
  <2> QED
    BY DEF Init, Unread, RecentRead, EarnedSoFar, PassEarned, Undecided, AfterHead,
       AfterLanguages, AfterWorkflow
<1>2. PassInv => PassEarned
  BY DEF PassInv
<1> QED
  BY <1>1, <1>2, PassStep, PTL DEF Spec
====
